---------------------------- MODULE PullProtocol ----------------------------
(***************************************************************************)
(* The live feed of one followed session: the server half of the pull      *)
(* protocol (SharedSession and pull_indices in claude-replay-present) and  *)
(* the pages that poll it (serve.rs, record-stream.js, export.js).         *)
(*                                                                         *)
(* The session is two zones: `committed`, append-only until the source is  *)
(* truncated, and `provisional`, the finalized open turn, which may be     *)
(* patched or regrouped at any time.  A page holds one list of records and *)
(* a four-number cursor, and asks only for what lies past the cursor.      *)
(*                                                                         *)
(* One request of a page is six steps, each of them one lock of the       *)
(* server or one event of the browser:                                     *)
(*   idle -> count   SharedSession::advance on the request's own thread    *)
(*   count -> serve  counters(): an idle cursor is answered here           *)
(*   serve -> render open_delta_with: the cut of both zones                *)
(*   render -> fetch the rendered open turn, from ServeAux.prov_render     *)
(*   fetch -> apply  the second request, /records, for the committed bytes *)
(*   apply -> idle   reducePull and the page's own list                    *)
(* A step of another page, of another advancing thread or of the source    *)
(* may come between any two of them; a reply may be lost at any stage.     *)
(*                                                                         *)
(* What the follower folds out of the transcript is left open here: a tick *)
(* brings any committed suffix and any open turn.  ReplayFold is that fold.*)
(***************************************************************************)
EXTENDS Integers, Sequences, FiniteSets

CONSTANTS
    Block,          \* the contents a block may have
    Page,           \* the browser pages following the session
    MaxFresh,       \* bound: blocks one tick may commit
    MaxCommitted,   \* bound: blocks in the committed zone
    MaxOpen,        \* bound: blocks in the open turn
    MaxTicks,       \* bound: advancing ticks of the session
    MaxLost,        \* bound: replies lost on the way to the pages
    MaxFaults       \* bound: ticks cut short by an I/O error

ASSUME BoundsAssumption ==
    /\ MaxFresh \in Nat /\ MaxCommitted \in Nat /\ MaxOpen \in Nat
    /\ MaxTicks \in Nat /\ MaxLost \in Nat /\ MaxFaults \in Nat

VARIABLES
    committed,      \* the committed blocks, in the accumulator
    provisional,    \* the finalized open turn, as a read would compute it
    prev,           \* Inner.prev_provisional; n_provisional is its length
    epoch,          \* Inner.epoch
    gen,            \* Inner.provisional_gen
    rendered,       \* ServeAux.prov_render: a set of at most one entry
    page,           \* the pages
    ticks, lost, faults

session == <<committed, provisional, prev, epoch, gen>>
vars == <<session, rendered, page, ticks, lost, faults>>

-----------------------------------------------------------------------------
(* Cursors and replies.                                                    *)

Cursor == [epoch : Nat, committed_id : Nat,
           provisional_gen : Nat, provisional_index : Nat]

\* Cursor::default, and freshCursor of the page: an epoch no server has.
FreshCursor == [epoch |-> 0, committed_id |-> 0,
                provisional_gen |-> 0, provisional_index |-> 0]

UpTo(n) == UNION {[1..k -> Block] : k \in 0..n}

IsPrefixOf(s, t) == Len(s) <= Len(t) /\ \A i \in 1..Len(s) : s[i] = t[i]

Min2(m, n) == IF m <= n THEN m ELSE n

\* Vec::truncate(from) and then extend.
Splice(s, from, blocks) == SubSeq(s, 1, Min2(from, Len(s))) \o blocks

\* Where each zone of a reply starts, from the zone lengths alone.
CommittedFrom(e, nc, cursor) ==
    IF cursor.epoch # e \/ cursor.committed_id > nc THEN 0
    ELSE cursor.committed_id

\* Mutant: the generation of the open turn is not compared.
ProvisionalFromAnyGen(e, nc, np, g, cursor) ==
    IF cursor.epoch # e \/ cursor.committed_id # nc THEN 0
    ELSE Min2(cursor.provisional_index, np)

ProvisionalFrom(e, nc, np, g, cursor) ==
    IF \/ cursor.epoch # e
       \/ cursor.committed_id # nc
       \/ cursor.provisional_gen # g
    THEN 0
    ELSE Min2(cursor.provisional_index, np)

-----------------------------------------------------------------------------
(* The page: its list of records, its cursor, and the request under way.   *)

NoReply == [stage |-> "none"]

FreshPage == [records |-> <<>>, cursor |-> FreshCursor,
              stage |-> "idle", reply |-> NoReply]

Init ==
    /\ committed = <<>> /\ provisional = <<>> /\ prev = <<>>
    /\ epoch = 1 /\ gen = 0
    /\ rendered = {}
    /\ page = [p \in Page |-> FreshPage]
    /\ ticks = 0 /\ lost = 0 /\ faults = 0

-----------------------------------------------------------------------------
(* The session advances.                                                   *)

\* What a fold left behind: `fresh` newly committed blocks and the open turn.
Fold(reset, fresh, open) ==
    /\ committed' = (IF reset THEN <<>> ELSE committed) \o fresh
    /\ provisional' = open

\* Mutant: the shape of the open turn is not compared with the previous one.
TickUnshaped(reset, patched, fresh, open) ==
    /\ Fold(reset, fresh, open)
    /\ prev' = open
    /\ epoch' = IF reset THEN epoch + 1 ELSE epoch
    /\ gen' = IF reset \/ fresh # <<>> \/ patched THEN gen + 1 ELSE gen

\* Mutant: a commit does not start a new generation.
TickCommitsQuietly(reset, patched, fresh, open) ==
    /\ Fold(reset, fresh, open)
    /\ prev' = open
    /\ epoch' = IF reset THEN epoch + 1 ELSE epoch
    /\ gen' = IF reset \/ patched \/ ~IsPrefixOf(prev, open) THEN gen + 1 ELSE gen

\* A tick that folded something: the zones and both counters move together.
Tick(reset, patched, fresh, open) ==
    /\ Fold(reset, fresh, open)
    /\ prev' = open
    /\ epoch' = IF reset THEN epoch + 1 ELSE epoch
    /\ gen' = IF reset \/ fresh # <<>> \/ patched \/ ~IsPrefixOf(prev, open)
              THEN gen + 1 ELSE gen

\* A tick whose read failed part-way: `?` leaves before any counter moves.
TickFails(reset, fresh, open) ==
    /\ Fold(reset, fresh, open)
    /\ UNCHANGED <<prev, epoch, gen>>

\* The source has nothing new: `advance` answers Ok(false).
TickIdle == UNCHANGED session

SomeTick ==
    \E reset, patched \in BOOLEAN, fresh \in UpTo(MaxFresh), open \in UpTo(MaxOpen) :
        /\ (IF reset THEN 0 ELSE Len(committed)) + Len(fresh) <= MaxCommitted
        /\ \/ /\ Tick(reset, patched, fresh, open)
              /\ UNCHANGED faults
           \/ /\ faults < MaxFaults
              /\ TickFails(reset, fresh, open)
              /\ faults' = faults + 1

\* SharedSession::advance as one critical section, on whatever thread.
AdvanceStep ==
    \/ /\ TickIdle
       /\ UNCHANGED <<ticks, faults>>
    \/ /\ ticks < MaxTicks
       /\ ticks' = ticks + 1
       /\ SomeTick

\* A consumer in the server's own process ticks the session.
Advance ==
    /\ ticks < MaxTicks
    /\ ticks' = ticks + 1
    /\ SomeTick
    /\ UNCHANGED <<rendered, page, lost>>

-----------------------------------------------------------------------------
(* One request of page p.                                                  *)

\* The page's timer fires; the handler folds the new lines on its thread.
PageAdvance(p) ==
    /\ page[p].stage = "idle"
    /\ AdvanceStep
    /\ page' = [page EXCEPT ![p].stage = "count"]
    /\ UNCHANGED <<rendered, lost>>

\* counters() and the first pull_indices: is there anything for this cursor?
NothingFor(cursor) ==
    /\ cursor.epoch = epoch
    /\ CommittedFrom(epoch, Len(committed), cursor) = Len(committed)
    /\ ProvisionalFrom(epoch, Len(committed), Len(prev), gen, cursor) = Len(prev)

\* Nothing: the empty reply, from the counters alone.
CountIdle(p) ==
    /\ page[p].stage = "count"
    /\ NothingFor(page[p].cursor)
    /\ page' = [page EXCEPT
            ![p].stage = "apply",
            ![p].reply = [stage |-> "full", epoch |-> epoch,
                          committed_from |-> Len(committed), committed |-> <<>>,
                          provisional_gen |-> gen,
                          provisional_from |-> Len(prev), provisional |-> <<>>]]
    /\ UNCHANGED <<session, rendered, ticks, lost, faults>>

CountBusy(p) ==
    /\ page[p].stage = "count"
    /\ ~NothingFor(page[p].cursor)
    /\ page' = [page EXCEPT ![p].stage = "serve"]
    /\ UNCHANGED <<session, rendered, ticks, lost, faults>>

\* open_delta_with: both zones cut at the cursor under one lock, the committed
\* one only as a pointer (from, to) into the record log.
ServeDelta(p) ==
    /\ page[p].stage = "serve"
    /\ page' = [page EXCEPT
            ![p].stage = "render",
            ![p].reply = [stage |-> "delta", epoch |-> epoch,
                          from |-> CommittedFrom(epoch, Len(committed), page[p].cursor),
                          to |-> Len(committed),
                          provisional_gen |-> gen, open |-> provisional]]
    /\ UNCHANGED <<session, rendered, ticks, lost, faults>>

\* The open turn's records: reused when (epoch, gen, length) is the cached
\* key, rendered and cached otherwise.
Render(p) ==
    LET r == page[p].reply
        key == <<r.epoch, r.provisional_gen, Len(r.open)>>
        hits == {e \in rendered : e.key = key}
        lines == IF hits = {} THEN r.open ELSE (CHOOSE e \in hits : TRUE).lines
        pf == ProvisionalFrom(r.epoch, r.to, Len(lines), r.provisional_gen,
                              page[p].cursor)
    IN  /\ page[p].stage = "render"
        /\ rendered' = {[key |-> key, lines |-> lines]}
        /\ page' = [page EXCEPT
                ![p].stage = "fetch",
                ![p].reply = [stage |-> "pointer", epoch |-> r.epoch,
                              from |-> r.from, to |-> r.to,
                              provisional_gen |-> r.provisional_gen,
                              provisional_from |-> pf,
                              provisional |-> SubSeq(lines, pf + 1, Len(lines))]]
        /\ UNCHANGED <<session, ticks, lost, faults>>

\* Mutant: a pointer of another epoch is served from the log of this one.
ServableAnyEpoch(r) == r.from <= Len(committed)

\* /records serves a pointer of the log's own epoch that starts inside it.
Servable(r) == r.epoch = epoch /\ r.from <= Len(committed)

\* The second request: the bytes behind the pointer (none when it is empty).
FetchRecords(p) ==
    LET r == page[p].reply
    IN  /\ page[p].stage = "fetch"
        /\ r.from = r.to \/ Servable(r)
        /\ page' = [page EXCEPT
                ![p].stage = "apply",
                ![p].reply = [stage |-> "full", epoch |-> r.epoch,
                              committed_from |-> r.from,
                              committed |-> IF r.from = r.to THEN <<>>
                                            ELSE SubSeq(committed, r.from + 1,
                                                        Min2(r.to, Len(committed))),
                              provisional_gen |-> r.provisional_gen,
                              provisional_from |-> r.provisional_from,
                              provisional |-> r.provisional]]
        /\ UNCHANGED <<session, rendered, ticks, lost, faults>>

\* Mutant: the refused request is never marked as ended.
FetchStaleHangs(p) ==
    LET r == page[p].reply
    IN  /\ page[p].stage = "fetch"
        /\ r.from # r.to /\ ~Servable(r)
        /\ UNCHANGED vars

\* 409 or 400: the log was recreated since the pointer was issued; the page
\* drops the whole reply and keeps its cursor.
FetchStale(p) ==
    LET r == page[p].reply
    IN  /\ page[p].stage = "fetch"
        /\ r.from # r.to /\ ~Servable(r)
        /\ page' = [page EXCEPT ![p].stage = "idle", ![p].reply = NoReply]
        /\ UNCHANGED <<session, rendered, ticks, lost, faults>>

\* Mutant: positions in the open turn are taken as positions in the list.
ReducePullFlat(records, cursor, r) ==
    LET resync == r.epoch # cursor.epoch
        nc == IF r.committed # <<>> THEN r.committed_from + Len(r.committed)
              ELSE IF resync THEN 0 ELSE cursor.committed_id
        grown == Splice(IF resync THEN <<>> ELSE records,
                        r.committed_from, r.committed)
    IN  [records |-> Splice(grown, r.provisional_from, r.provisional),
         cursor |-> [epoch |-> r.epoch, committed_id |-> nc,
                     provisional_gen |-> r.provisional_gen,
                     provisional_index |-> r.provisional_from + Len(r.provisional)]]

\* Mutant: the cursor keeps the last position instead of the length.
ReducePullLast(records, cursor, r) ==
    LET resync == r.epoch # cursor.epoch
        nc == IF r.committed # <<>> THEN r.committed_from + Len(r.committed)
              ELSE IF resync THEN 0 ELSE cursor.committed_id
        grown == Splice(IF resync THEN <<>> ELSE records,
                        r.committed_from, r.committed)
    IN  [records |-> Splice(grown, nc + r.provisional_from, r.provisional),
         cursor |-> [epoch |-> r.epoch, committed_id |-> nc,
                     provisional_gen |-> r.provisional_gen,
                     provisional_index |->
                         r.provisional_from + Len(r.provisional) - 1]]

\* reducePull, and the page's own early return on an idle reply.
ReducePull(records, cursor, r) ==
    LET resync == r.epoch # cursor.epoch
        idle == ~resync /\ r.committed = <<>> /\ r.provisional = <<>>
        nc == IF r.committed # <<>> THEN r.committed_from + Len(r.committed)
              ELSE IF resync THEN 0 ELSE cursor.committed_id
        kept == IF resync THEN <<>> ELSE records
        grown == IF r.committed # <<>>
                 THEN Splice(kept, r.committed_from, r.committed) ELSE kept
        at == nc + r.provisional_from
    IN  IF idle THEN [records |-> records, cursor |-> cursor]
        ELSE [records |-> IF Len(grown) # at \/ r.provisional # <<>>
                          THEN Splice(grown, at, r.provisional) ELSE grown,
              cursor |-> [epoch |-> r.epoch, committed_id |-> nc,
                          provisional_gen |-> r.provisional_gen,
                          provisional_index |->
                              r.provisional_from + Len(r.provisional)]]

Apply(p) ==
    LET next == ReducePull(page[p].records, page[p].cursor, page[p].reply)
    IN  /\ page[p].stage = "apply"
        /\ page' = [page EXCEPT ![p] = [records |-> next.records,
                                        cursor |-> next.cursor,
                                        stage |-> "idle", reply |-> NoReply]]
        /\ UNCHANGED <<session, rendered, ticks, lost, faults>>

\* A fetch rejects: the page's catch leaves its list and its cursor alone.
Lose(p) ==
    /\ lost < MaxLost
    /\ page[p].stage # "idle"
    /\ lost' = lost + 1
    /\ page' = [page EXCEPT ![p].stage = "idle", ![p].reply = NoReply]
    /\ UNCHANGED <<session, rendered, ticks, faults>>

\* The reader closes the tab and opens the session anew.
Reload(p) ==
    /\ lost < MaxLost
    /\ page[p].cursor # FreshCursor
    /\ lost' = lost + 1
    /\ page' = [page EXCEPT ![p] = FreshPage]
    /\ UNCHANGED <<session, rendered, ticks, faults>>

PageStep(p) ==
    \/ PageAdvance(p) \/ CountIdle(p) \/ CountBusy(p) \/ ServeDelta(p)
    \/ Render(p)
    \/ FetchRecords(p) \/ FetchStale(p) \/ Apply(p)

Next ==
    \/ Advance
    \/ \E p \in Page : PageStep(p) \/ Lose(p) \/ Reload(p)

Spec == Init /\ [][Next]_vars

-----------------------------------------------------------------------------
(* The client of the same protocol in Rust, PullClient::apply: two zones   *)
(* instead of one list.                                                    *)

\* Mutant: a provisional tail longer than the reply's start is not cut off.
PullClientApplyKeepsTail(cl, r) ==
    LET resync == r.epoch # cl.cursor.epoch
        idle == r.committed = <<>> /\ r.provisional = <<>>
    IN  IF ~resync /\ idle THEN cl
        ELSE [committed |-> IF resync \/ r.committed # <<>>
                            THEN Splice(cl.committed, r.committed_from, r.committed)
                            ELSE cl.committed,
              provisional |-> IF r.provisional # <<>>
                              THEN Splice(cl.provisional, r.provisional_from,
                                          r.provisional)
                              ELSE cl.provisional,
              cursor |-> [epoch |-> r.epoch,
                          committed_id |-> r.committed_from + Len(r.committed),
                          provisional_gen |-> r.provisional_gen,
                          provisional_index |->
                              r.provisional_from + Len(r.provisional)]]

PullClientApply(cl, r) ==
    LET resync == r.epoch # cl.cursor.epoch
        idle == r.committed = <<>> /\ r.provisional = <<>>
        stale == Len(cl.provisional) > r.provisional_from
    IN  IF ~resync /\ idle THEN cl
        ELSE [committed |-> IF resync \/ r.committed # <<>>
                            THEN Splice(cl.committed, r.committed_from, r.committed)
                            ELSE cl.committed,
              provisional |-> IF stale \/ r.provisional # <<>>
                              THEN Splice(cl.provisional, r.provisional_from,
                                          r.provisional)
                              ELSE cl.provisional,
              cursor |-> [epoch |-> r.epoch,
                          committed_id |-> r.committed_from + Len(r.committed),
                          provisional_gen |-> r.provisional_gen,
                          provisional_index |->
                              r.provisional_from + Len(r.provisional)]]

\* A page's list seen as the two zones its cursor divides it into.
AsPullClient(pg) ==
    [committed |-> SubSeq(pg.records, 1, pg.cursor.committed_id),
     provisional |-> SubSeq(pg.records, pg.cursor.committed_id + 1, Len(pg.records)),
     cursor |-> pg.cursor]

-----------------------------------------------------------------------------
(* Properties.                                                             *)

Stage == {"idle", "count", "serve", "render", "fetch", "apply"}

\* Every variable keeps its type; counters and positions never go negative.
TypeOK ==
    /\ committed \in Seq(Block) /\ provisional \in Seq(Block) /\ prev \in Seq(Block)
    /\ epoch \in Nat /\ gen \in Nat
    /\ ticks \in Nat /\ lost \in Nat /\ faults \in Nat
    /\ \A e \in rendered : e.lines \in Seq(Block)
    /\ \A p \in Page : /\ page[p].records \in Seq(Block)
                       /\ page[p].cursor \in Cursor
                       /\ page[p].stage \in Stage

Display == committed \o provisional

\* A page whose epoch is the session's holds, up to its committed_id, exactly
\* the committed blocks; if its generation is the current one too, the rest of
\* its list is the beginning of the open turn.  This is what lets the server
\* send suffixes to a client it keeps no state for (pull.rs, design 9a).
CursorSoundFor(p) ==
    LET c == page[p].cursor
        rs == page[p].records
    IN  c.epoch = epoch =>
        /\ Len(rs) = c.committed_id + c.provisional_index
        /\ c.committed_id <= Len(committed)
        /\ \A i \in 1..c.committed_id : rs[i] = committed[i]
        /\ c.provisional_gen = gen =>
            /\ c.committed_id = Len(committed)
            /\ c.provisional_index <= Len(provisional)
            /\ \A i \in 1..c.provisional_index :
                   rs[c.committed_id + i] = provisional[i]

CursorSound == faults = 0 => \A p \in Page : CursorSoundFor(p)

\* A page of the current generation that the counters call idle shows the
\* whole session: it is never told "nothing new" while it misses something
\* (the idle fast path of the /pull handler).
UpToDate ==
    faults = 0 => \A p \in Page :
        NothingFor(page[p].cursor) /\ page[p].cursor.provisional_gen = gen
            => page[p].records = Display

\* The rendered open turn kept under (epoch, gen, length) is the open turn
\* whenever its key is the current one ("an equal key => identical records").
RenderCacheSound ==
    faults = 0 => \A e \in rendered :
        e.key = <<epoch, gen, Len(provisional)>> => e.lines = provisional

\* The browser's reducer and PullClient::apply take the same reply to the same
\* list and the same cursor ("must match it transition for transition").
ReducersAgree ==
    faults = 0 => \A p \in Page : page[p].stage = "apply" =>
        LET js == ReducePull(page[p].records, page[p].cursor, page[p].reply)
            rs == PullClientApply(AsPullClient(page[p]), page[p].reply)
        IN  js.records = rs.committed \o rs.provisional /\ js.cursor = rs.cursor

\* Within an epoch a page only ever appends to the committed records it holds.
CommittedKept ==
    [][faults' = 0 => \A p \in Page :
        LET old == page[p]
            new == page'[p]
        IN  old.cursor.epoch = new.cursor.epoch =>
            /\ old.cursor.committed_id <= new.cursor.committed_id
            /\ new.cursor.committed_id <= Len(new.records)
            /\ \A i \in 1..old.cursor.committed_id :
                   new.records[i] = old.records[i]]_vars

\* A truncation of the source is a new epoch: a page that holds the session's
\* epoch holds a prefix of its committed blocks, faults or not ("epoch bumps on
\* a reset - outstanding cursors then resync").
EpochMarksReset ==
    \A p \in Page : page[p].cursor.epoch = epoch =>
        \A i \in 1..Min2(page[p].cursor.committed_id, Len(committed)) :
            page[p].records[i] = committed[i]

-----------------------------------------------------------------------------
(* Liveness.  A page polls on a timer, and every step of a request ends;   *)
(* the number of lost replies is bounded.                                  *)

Fairness == \A p \in Page : WF_vars(PageStep(p))

FairSpec == Spec /\ Fairness

\* Once the session rests, every page comes to show it whole and stays there
\* (unless its open turn is empty: a turn that shrinks to nothing is not sent).
Converges ==
    \A p \in Page :
        <>[](faults = 0 /\ provisional # <<>> => page[p].records = Display)

=============================================================================

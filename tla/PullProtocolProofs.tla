------------------------- MODULE PullProtocolProofs -------------------------
(***************************************************************************)
(* The pull protocol is sound for any number of pages, any blocks and any  *)
(* bounds.  The inductive invariant says, for every stage of a request,    *)
(* how the page's cursor and the reply under way relate to the session as  *)
(* it is NOW, although the reply was cut from the session as it WAS.       *)
(***************************************************************************)
EXTENDS PullHistory, SequenceTheorems, TLAPS

-----------------------------------------------------------------------------
(* The inductive invariant.  Its parts take the session as parameters      *)
(* (cm, pv, e, g: committed, provisional, epoch, gen), so that one lemma   *)
(* serves every step that changes the session.                             *)

Delta == [stage : {"delta"}, epoch : Nat, from : Nat, to : Nat,
          provisional_gen : Nat, open : Seq(Block)]

Pointer == [stage : {"pointer"}, epoch : Nat, from : Nat, to : Nat,
            provisional_gen : Nat, provisional_from : Nat,
            provisional : Seq(Block)]

Full == [stage : {"full"}, epoch : Nat, committed_from : Nat,
         committed : Seq(Block), provisional_gen : Nat,
         provisional_from : Nat, provisional : Seq(Block)]

PageType(pg) ==
    /\ pg \in [records : Seq(Block), cursor : Cursor, stage : Stage,
               reply : {NoReply} \cup Delta \cup Pointer \cup Full]
    /\ pg.stage = "render" => pg.reply \in Delta
    /\ pg.stage = "fetch" => pg.reply \in Pointer
    /\ pg.stage = "apply" => pg.reply \in Full

Entry == [key : Nat \X Nat \X Nat, lines : Seq(Block)]

TypeInv ==
    /\ committed \in Seq(Block) /\ provisional \in Seq(Block) /\ prev \in Seq(Block)
    /\ epoch \in Nat /\ gen \in Nat
    /\ ticks \in Nat /\ lost \in Nat /\ faults \in Nat
    /\ rendered \in SUBSET Entry
    /\ DOMAIN page = Page
    /\ \A p \in Page : PageType(page[p])

\* A cursor c with records rs, in a session (cm, pv, e, g).
CursorAt(c, rs, cm, pv, e, g) ==
    /\ c.epoch <= e
    /\ c.epoch = 0 => c.committed_id = 0
    /\ Len(rs) = c.committed_id + c.provisional_index
    /\ c.epoch = e =>
        /\ c.provisional_gen <= g
        /\ c.committed_id <= Len(cm)
        /\ \A i \in 1..c.committed_id : rs[i] = cm[i]
        /\ c.provisional_gen = g =>
            /\ c.committed_id = Len(cm)
            /\ c.provisional_index <= Len(pv)
            /\ \A i \in 1..c.provisional_index : rs[c.committed_id + i] = pv[i]

\* The committed range [from, to) of a reply of epoch re and generation rg.
RangeAt(c, re, rg, from, to, cm, e, g) ==
    /\ 1 <= re /\ c.epoch <= re /\ re <= e
    /\ from <= to
    /\ c.epoch # re => from = 0
    /\ c.epoch = re => from = c.committed_id
    /\ re = e => /\ rg <= g
                 /\ to <= Len(cm)
                 /\ rg = g => to = Len(cm)

\* Lines of the open turn of (re, rg), from position `from` on.
OpenAt(re, rg, from, lines, pv, e, g) ==
    re = e /\ rg = g =>
        /\ from + Len(lines) <= Len(pv)
        /\ \A i \in 1..Len(lines) : lines[i] = pv[from + i]

\* A provisional suffix is sent only to a cursor that holds what comes before.
SuffixFor(c, re, rg, to, pf) ==
    \/ pf = 0
    \/ /\ c.epoch = re /\ c.provisional_gen = rg
       /\ c.committed_id = to /\ pf <= c.provisional_index

DeltaAt(c, r, cm, pv, e, g) ==
    /\ RangeAt(c, r.epoch, r.provisional_gen, r.from, r.to, cm, e, g)
    /\ OpenAt(r.epoch, r.provisional_gen, 0, r.open, pv, e, g)

PointerAt(c, r, cm, pv, e, g) ==
    /\ RangeAt(c, r.epoch, r.provisional_gen, r.from, r.to, cm, e, g)
    /\ SuffixFor(c, r.epoch, r.provisional_gen, r.to, r.provisional_from)
    /\ OpenAt(r.epoch, r.provisional_gen, r.provisional_from, r.provisional, pv, e, g)

\* The blocks cs of the committed zone of epoch re, from position cf on.
LogAt(c, re, rg, cf, cs, pf, cm, e, g) ==
    /\ RangeAt(c, re, rg, cf, cf + Len(cs), cm, e, g)
    /\ re = e => \A i \in 1..Len(cs) : cs[i] = cm[cf + i]
    /\ SuffixFor(c, re, rg, cf + Len(cs), pf)

FullAt(c, r, cm, pv, e, g) ==
    /\ LogAt(c, r.epoch, r.provisional_gen, r.committed_from, r.committed,
             r.provisional_from, cm, e, g)
    /\ OpenAt(r.epoch, r.provisional_gen, r.provisional_from, r.provisional, pv, e, g)

PageAt(pg, cm, pv, e, g) ==
    /\ CursorAt(pg.cursor, pg.records, cm, pv, e, g)
    /\ pg.stage = "render" => DeltaAt(pg.cursor, pg.reply, cm, pv, e, g)
    /\ pg.stage = "fetch" => PointerAt(pg.cursor, pg.reply, cm, pv, e, g)
    /\ pg.stage = "apply" => FullAt(pg.cursor, pg.reply, cm, pv, e, g)

EntryAt(entry, pv, e, g) ==
    /\ entry.key[1] <= e
    /\ entry.key[1] = e => entry.key[2] <= g
    /\ Len(entry.lines) = entry.key[3]
    /\ OpenAt(entry.key[1], entry.key[2], 0, entry.lines, pv, e, g)

SyncInv ==
    /\ prev = provisional
    /\ epoch >= 1
    /\ \A p \in Page : PageAt(page[p], committed, provisional, epoch, gen)
    /\ \A entry \in rendered : EntryAt(entry, provisional, epoch, gen)

IInv == TypeInv /\ (faults = 0 => SyncInv)

-----------------------------------------------------------------------------
(* Sequences.                                                              *)

(* The sequences a tick is drawn from are sequences of blocks. *)
LEMMA UpToSeq ==
    ASSUME NEW n \in Nat, NEW s \in UpTo(n)
    PROVE  s \in Seq(Block)
<1>1. PICK k \in 0..n : s \in [1..k -> Block]
    BY DEF UpTo
<1> QED
    BY <1>1

(* truncate-and-extend: its length and its elements. *)
LEMMA SpliceFacts ==
    ASSUME NEW s \in Seq(Block), NEW from \in Nat, NEW b \in Seq(Block)
    PROVE  /\ Splice(s, from, b) \in Seq(Block)
           /\ Len(Splice(s, from, b)) = Min2(from, Len(s)) + Len(b)
           /\ \A i \in 1..Min2(from, Len(s)) : Splice(s, from, b)[i] = s[i]
           /\ \A i \in 1..Len(b) :
                  Splice(s, from, b)[Min2(from, Len(s)) + i] = b[i]
<1> DEFINE m == Min2(from, Len(s))
           h == SubSeq(s, 1, m)
<1>1. m \in Nat /\ m <= Len(s)
    BY DEF Min2
<1>2. h \in Seq(Block) /\ Len(h) = m /\ \A i \in 1..m : h[i] = s[i]
    BY <1>1
<1>3. Splice(s, from, b) = h \o b
    BY DEF Splice
<1> HIDE DEF m, h
<1>4. /\ h \o b \in Seq(Block) /\ Len(h \o b) = m + Len(b)
      /\ \A i \in 1..m : (h \o b)[i] = h[i]
      /\ \A i \in 1..Len(b) : (h \o b)[m + i] = b[i]
    BY <1>1, <1>2
<1> QED
    BY <1>2, <1>3, <1>4 DEF m

(* The same when the cut lies inside the list. *)
LEMMA SpliceInside ==
    \A s, b \in Seq(Block) : \A from \in 0..Len(s) :
        /\ Splice(s, from, b) \in Seq(Block)
        /\ Len(Splice(s, from, b)) = from + Len(b)
        /\ \A i \in 1..from : Splice(s, from, b)[i] = s[i]
        /\ \A i \in 1..Len(b) : Splice(s, from, b)[from + i] = b[i]
<1> SUFFICES ASSUME NEW s \in Seq(Block), NEW b \in Seq(Block), NEW from \in 0..Len(s)
             PROVE  /\ Splice(s, from, b) \in Seq(Block)
                    /\ Len(Splice(s, from, b)) = from + Len(b)
                    /\ \A i \in 1..from : Splice(s, from, b)[i] = s[i]
                    /\ \A i \in 1..Len(b) : Splice(s, from, b)[from + i] = b[i]
    OBVIOUS
<1>1. from \in Nat /\ Min2(from, Len(s)) = from
    BY DEF Min2
<1>2. /\ Splice(s, from, b) \in Seq(Block)
      /\ Len(Splice(s, from, b)) = Min2(from, Len(s)) + Len(b)
      /\ \A i \in 1..Min2(from, Len(s)) : Splice(s, from, b)[i] = s[i]
      /\ \A i \in 1..Len(b) :
             Splice(s, from, b)[Min2(from, Len(s)) + i] = b[i]
    BY <1>1, SpliceFacts
<1> QED
    BY <1>1, <1>2

(* A list of two known parts is the concatenation of those parts. *)
LEMMA TwoParts ==
    ASSUME NEW s \in Seq(Block), NEW t \in Seq(Block), NEW u \in Seq(Block),
           Len(s) = Len(t) + Len(u),
           \A i \in 1..Len(t) : s[i] = t[i],
           \A i \in 1..Len(u) : s[Len(t) + i] = u[i]
    PROVE  s = t \o u
<1>1. t \o u \in Seq(Block) /\ Len(t \o u) = Len(s)
    OBVIOUS
<1>2. ASSUME NEW i \in 1..Len(s) PROVE s[i] = (t \o u)[i]
    <2>1. CASE i <= Len(t)
        BY <2>1
    <2>2. CASE i > Len(t)
        <3>1. i - Len(t) \in 1..Len(u) /\ Len(t) + (i - Len(t)) = i
            BY <2>2
        <3> QED
            BY <3>1, <2>2
    <2> QED
        BY <2>1, <2>2
<1> QED
    BY <1>1, <1>2, SeqEqual

-----------------------------------------------------------------------------
(* What a step of the session may do to its two zones and its counters.    *)

Advances(cm, pv, e, g, cm2, pv2, e2, g2) ==
    /\ e <= e2
    /\ e = e2 =>
        /\ g <= g2
        /\ Len(cm) <= Len(cm2)
        /\ \A i \in 1..Len(cm) : cm2[i] = cm[i]
        /\ g = g2 => cm2 = cm /\ IsPrefixOf(pv, pv2)

(* A tick that bumps its counters as `advance` does moves the session on. *)
LEMMA TickAdvances ==
    ASSUME TypeInv, SyncInv,
           NEW reset \in BOOLEAN, NEW patched \in BOOLEAN,
           NEW fresh \in Seq(Block), NEW open \in Seq(Block),
           Tick(reset, patched, fresh, open)
    PROVE  /\ Advances(committed, provisional, epoch, gen,
                       committed', provisional', epoch', gen')
           /\ committed' \in Seq(Block) /\ provisional' \in Seq(Block)
           /\ epoch' \in Nat /\ gen' \in Nat /\ epoch' >= 1
           /\ prev' = provisional'
<1>1. /\ committed \in Seq(Block) /\ epoch \in Nat /\ gen \in Nat
      /\ prev = provisional /\ epoch >= 1
    BY DEF TypeInv, SyncInv
<1>2. CASE reset
    BY <1>1, <1>2 DEF Tick, Fold, Advances
<1>3. CASE ~reset
    <2>1. committed' = committed \o fresh /\ epoch' = epoch /\ provisional' = open
        BY <1>3 DEF Tick, Fold
    <2>2. gen' = gen \/ gen' = gen + 1
        BY <1>3 DEF Tick
    <2>3. gen' = gen => fresh = <<>> /\ IsPrefixOf(prev, open)
        BY <1>1, <1>3 DEF Tick
    <2>4. /\ committed \o fresh \in Seq(Block)
          /\ Len(committed) <= Len(committed \o fresh)
          /\ \A i \in 1..Len(committed) : (committed \o fresh)[i] = committed[i]
          /\ fresh = <<>> => committed \o fresh = committed
        BY <1>1
    <2>5. prev' = open
        BY DEF Tick
    <2> QED
        BY <1>1, <2>1, <2>2, <2>3, <2>4, <2>5 DEF Advances
<1> QED
    BY <1>2, <1>3

(* A session at rest satisfies the same relation. *)
LEMMA RestAdvances ==
    ASSUME NEW cm \in Seq(Block), NEW pv \in Seq(Block), NEW e \in Nat, NEW g \in Nat
    PROVE  Advances(cm, pv, e, g, cm, pv, e, g)
BY DEF Advances, IsPrefixOf

(* A cursor that was sound stays sound when the session moves on. *)
LEMMA CursorCarries ==
    ASSUME NEW c \in Cursor, NEW rs \in Seq(Block),
           NEW cm \in Seq(Block), NEW pv \in Seq(Block), NEW e \in Nat, NEW g \in Nat,
           NEW cm2 \in Seq(Block), NEW pv2 \in Seq(Block), NEW e2 \in Nat, NEW g2 \in Nat,
           Advances(cm, pv, e, g, cm2, pv2, e2, g2),
           CursorAt(c, rs, cm, pv, e, g)
    PROVE  CursorAt(c, rs, cm2, pv2, e2, g2)
BY DEF Cursor, CursorAt, Advances, IsPrefixOf

(* So does the range of a reply under way ... *)
LEMMA RangeCarries ==
    ASSUME NEW c \in Cursor, NEW re \in Nat, NEW rg \in Nat, NEW from \in Nat, NEW to \in Nat,
           NEW cm \in Seq(Block), NEW pv \in Seq(Block), NEW e \in Nat, NEW g \in Nat,
           NEW cm2 \in Seq(Block), NEW pv2 \in Seq(Block), NEW e2 \in Nat, NEW g2 \in Nat,
           Advances(cm, pv, e, g, cm2, pv2, e2, g2),
           RangeAt(c, re, rg, from, to, cm, e, g)
    PROVE  RangeAt(c, re, rg, from, to, cm2, e2, g2)
BY DEF Cursor, RangeAt, Advances

(* ... and the lines of an open turn: those of another generation are no
   longer compared with the session's open turn. *)
LEMMA OpenCarries ==
    ASSUME NEW re \in Nat, NEW rg \in Nat, NEW from \in Nat, NEW lines \in Seq(Block),
           NEW cm \in Seq(Block), NEW pv \in Seq(Block), NEW e \in Nat, NEW g \in Nat,
           NEW cm2 \in Seq(Block), NEW pv2 \in Seq(Block), NEW e2 \in Nat, NEW g2 \in Nat,
           Advances(cm, pv, e, g, cm2, pv2, e2, g2),
           re <= e, re = e => rg <= g,
           OpenAt(re, rg, from, lines, pv, e, g)
    PROVE  OpenAt(re, rg, from, lines, pv2, e2, g2)
<1> SUFFICES ASSUME re = e2, rg = g2
             PROVE  /\ from + Len(lines) <= Len(pv2)
                    /\ \A i \in 1..Len(lines) : lines[i] = pv2[from + i]
    BY DEF OpenAt
<1>1. re = e /\ rg = g /\ e = e2 /\ g = g2
    BY DEF Advances
<1>2. IsPrefixOf(pv, pv2)
    BY <1>1 DEF Advances
<1>3. from + Len(lines) <= Len(pv) /\ \A i \in 1..Len(lines) : lines[i] = pv[from + i]
    BY <1>1 DEF OpenAt
<1>4. ASSUME NEW i \in 1..Len(lines) PROVE lines[i] = pv2[from + i]
    <2>1. from + i \in 1..Len(pv)
        BY <1>3
    <2> QED
        BY <1>2, <1>3, <2>1 DEF IsPrefixOf
<1> QED
    BY <1>2, <1>3, <1>4 DEF IsPrefixOf

(* The committed blocks of a reply stay those of the log of its epoch. *)
LEMMA LogCarries ==
    ASSUME NEW c \in Cursor, NEW re \in Nat, NEW rg \in Nat, NEW cf \in Nat,
           NEW cs \in Seq(Block), NEW pf \in Nat,
           NEW cm \in Seq(Block), NEW pv \in Seq(Block), NEW e \in Nat, NEW g \in Nat,
           NEW cm2 \in Seq(Block), NEW pv2 \in Seq(Block), NEW e2 \in Nat, NEW g2 \in Nat,
           Advances(cm, pv, e, g, cm2, pv2, e2, g2),
           LogAt(c, re, rg, cf, cs, pf, cm, e, g)
    PROVE  LogAt(c, re, rg, cf, cs, pf, cm2, e2, g2)
<1>1. cf + Len(cs) \in Nat
    OBVIOUS
<1>2. RangeAt(c, re, rg, cf, cf + Len(cs), cm, e, g)
    BY DEF LogAt
<1>3. RangeAt(c, re, rg, cf, cf + Len(cs), cm2, e2, g2)
    BY <1>1, <1>2, RangeCarries
<1>4. ASSUME re = e2, NEW i \in 1..Len(cs) PROVE cs[i] = cm2[cf + i]
    <2>1. e = e2 /\ re = e
        BY <1>2, <1>4 DEF Advances, RangeAt
    <2>2. cf + i \in 1..Len(cm)
        BY <1>2, <2>1 DEF RangeAt
    <2> QED
        BY <2>1, <2>2 DEF Advances, LogAt
<1> QED
    BY <1>3, <1>4 DEF LogAt

(* A whole page, whatever its stage, carries over. *)
LEMMA PageCarries ==
    ASSUME NEW pg, PageType(pg),
           NEW cm \in Seq(Block), NEW pv \in Seq(Block), NEW e \in Nat, NEW g \in Nat,
           NEW cm2 \in Seq(Block), NEW pv2 \in Seq(Block), NEW e2 \in Nat, NEW g2 \in Nat,
           Advances(cm, pv, e, g, cm2, pv2, e2, g2),
           PageAt(pg, cm, pv, e, g)
    PROVE  PageAt(pg, cm2, pv2, e2, g2)
<1> DEFINE c == pg.cursor
           r == pg.reply
<1>1. c \in Cursor /\ pg.records \in Seq(Block)
    BY DEF PageType
<1>2. CursorAt(c, pg.records, cm2, pv2, e2, g2)
    BY <1>1, CursorCarries DEF PageAt
<1>3. ASSUME pg.stage = "render" PROVE DeltaAt(c, r, cm2, pv2, e2, g2)
    <2>1. r \in Delta
        BY <1>3 DEF PageType
    <2>2. /\ r.epoch \in Nat /\ r.provisional_gen \in Nat /\ r.from \in Nat
          /\ r.to \in Nat /\ r.open \in Seq(Block) /\ 0 \in Nat
        BY <2>1 DEF Delta
    <2>3. /\ RangeAt(c, r.epoch, r.provisional_gen, r.from, r.to, cm, e, g)
          /\ OpenAt(r.epoch, r.provisional_gen, 0, r.open, pv, e, g)
        BY <1>3 DEF PageAt, DeltaAt
    <2>4. r.epoch <= e /\ (r.epoch = e => r.provisional_gen <= g)
        BY <2>3 DEF RangeAt
    <2> HIDE DEF c, r
    <2> QED
        BY <1>1, <2>2, <2>3, <2>4, RangeCarries, OpenCarries DEF DeltaAt
<1>4. ASSUME pg.stage = "fetch" PROVE PointerAt(c, r, cm2, pv2, e2, g2)
    <2>1. r \in Pointer
        BY <1>4 DEF PageType
    <2>2. /\ r.epoch \in Nat /\ r.provisional_gen \in Nat /\ r.from \in Nat
          /\ r.to \in Nat /\ r.provisional_from \in Nat
          /\ r.provisional \in Seq(Block)
        BY <2>1 DEF Pointer
    <2>3. /\ RangeAt(c, r.epoch, r.provisional_gen, r.from, r.to, cm, e, g)
          /\ SuffixFor(c, r.epoch, r.provisional_gen, r.to, r.provisional_from)
          /\ OpenAt(r.epoch, r.provisional_gen, r.provisional_from, r.provisional, pv, e, g)
        BY <1>4 DEF PageAt, PointerAt
    <2>4. r.epoch <= e /\ (r.epoch = e => r.provisional_gen <= g)
        BY <2>3 DEF RangeAt
    <2> HIDE DEF c, r
    <2> QED
        BY <1>1, <2>2, <2>3, <2>4, RangeCarries, OpenCarries DEF PointerAt
<1>5. ASSUME pg.stage = "apply" PROVE FullAt(c, r, cm2, pv2, e2, g2)
    <2>1. r \in Full
        BY <1>5 DEF PageType
    <2>2. /\ r.epoch \in Nat /\ r.provisional_gen \in Nat /\ r.committed_from \in Nat
          /\ r.committed \in Seq(Block) /\ r.provisional_from \in Nat
          /\ r.provisional \in Seq(Block)
        BY <2>1 DEF Full
    <2>3. /\ LogAt(c, r.epoch, r.provisional_gen, r.committed_from, r.committed,
                   r.provisional_from, cm, e, g)
          /\ OpenAt(r.epoch, r.provisional_gen, r.provisional_from, r.provisional, pv, e, g)
        BY <1>5 DEF PageAt, FullAt
    <2>4. r.epoch <= e /\ (r.epoch = e => r.provisional_gen <= g)
        BY <2>3 DEF LogAt, RangeAt
    <2> HIDE DEF c, r
    <2> QED
        BY <1>1, <2>2, <2>3, <2>4, LogCarries, OpenCarries DEF FullAt
<1> QED
    BY <1>2, <1>3, <1>4, <1>5 DEF PageAt

(* The rendered open turn carries over, too. *)
LEMMA EntryCarries ==
    ASSUME NEW entry \in Entry,
           NEW cm \in Seq(Block), NEW pv \in Seq(Block), NEW e \in Nat, NEW g \in Nat,
           NEW cm2 \in Seq(Block), NEW pv2 \in Seq(Block), NEW e2 \in Nat, NEW g2 \in Nat,
           Advances(cm, pv, e, g, cm2, pv2, e2, g2),
           EntryAt(entry, pv, e, g)
    PROVE  EntryAt(entry, pv2, e2, g2)
<1>1. /\ entry.key[1] \in Nat /\ entry.key[2] \in Nat /\ 0 \in Nat
      /\ entry.lines \in Seq(Block)
    BY DEF Entry
<1>2. /\ entry.key[1] <= e
      /\ entry.key[1] = e => entry.key[2] <= g
      /\ OpenAt(entry.key[1], entry.key[2], 0, entry.lines, pv, e, g)
    BY DEF EntryAt
<1>3. OpenAt(entry.key[1], entry.key[2], 0, entry.lines, pv2, e2, g2)
    BY <1>1, <1>2, OpenCarries
<1>4. e <= e2 /\ (e = e2 => g <= g2)
    BY DEF Advances
<1> QED
    BY <1>1, <1>2, <1>3, <1>4 DEF EntryAt

-----------------------------------------------------------------------------
(* The zone starts of a reply.                                             *)

(* What pull_indices answers a cursor, without any invariant. *)
LEMMA IndicesType ==
    ASSUME NEW c \in Cursor, NEW e \in Nat, NEW nc \in Nat, NEW np \in Nat, NEW g \in Nat
    PROVE  /\ CommittedFrom(e, nc, c) \in Nat
           /\ CommittedFrom(e, nc, c) <= nc
           /\ ProvisionalFrom(e, nc, np, g, c) \in Nat
           /\ ProvisionalFrom(e, nc, np, g, c) <= np
BY DEF CommittedFrom, ProvisionalFrom, Cursor, Min2

(* For a sound cursor the committed range starts where the cursor ends. *)
LEMMA CommittedFromSound ==
    ASSUME NEW c \in Cursor, NEW rs \in Seq(Block),
           NEW cm \in Seq(Block), NEW pv \in Seq(Block), NEW e \in Nat, NEW g \in Nat,
           e >= 1, CursorAt(c, rs, cm, pv, e, g)
    PROVE  RangeAt(c, e, g, CommittedFrom(e, Len(cm), c), Len(cm), cm, e, g)
BY DEF CommittedFrom, RangeAt, CursorAt, Cursor

(* A provisional suffix starts at or before the cursor's own end. *)
LEMMA ProvisionalFromSound ==
    ASSUME NEW c \in Cursor, NEW e \in Nat, NEW nc \in Nat, NEW np \in Nat, NEW g \in Nat
    PROVE  SuffixFor(c, e, g, nc, ProvisionalFrom(e, nc, np, g, c))
BY DEF ProvisionalFrom, SuffixFor, Min2, Cursor

-----------------------------------------------------------------------------
(* The reducer.                                                            *)

FullReply(re, cf, cs, rg, pf, ps) ==
    [stage |-> "full", epoch |-> re, committed_from |-> cf, committed |-> cs,
     provisional_gen |-> rg, provisional_from |-> pf, provisional |-> ps]

CursorOf(ce, cid, cg, ci) ==
    [epoch |-> ce, committed_id |-> cid, provisional_gen |-> cg, provisional_index |-> ci]

(* The reducer keeps the page's types. *)
LEMMA ReduceType ==
    ASSUME NEW rs \in Seq(Block),
           NEW ce \in Nat, NEW cid \in Nat, NEW cg \in Nat, NEW ci \in Nat,
           NEW re \in Nat, NEW cf \in Nat, NEW cs \in Seq(Block),
           NEW rg \in Nat, NEW pf \in Nat, NEW ps \in Seq(Block)
    PROVE  LET n == ReducePull(rs, CursorOf(ce, cid, cg, ci), FullReply(re, cf, cs, rg, pf, ps))
           IN  n.records \in Seq(Block) /\ n.cursor \in Cursor
<1> DEFINE c == CursorOf(ce, cid, cg, ci)
           r == FullReply(re, cf, cs, rg, pf, ps)
           resync == re # ce
           nc == IF cs # <<>> THEN cf + Len(cs) ELSE IF resync THEN 0 ELSE cid
           kept == IF resync THEN <<>> ELSE rs
           grown == IF cs # <<>> THEN Splice(kept, cf, cs) ELSE kept
           at == nc + pf
           list == IF Len(grown) # at \/ ps # <<>> THEN Splice(grown, at, ps) ELSE grown
           next == [epoch |-> re, committed_id |-> nc, provisional_gen |-> rg,
                    provisional_index |-> pf + Len(ps)]
<1>1. ReducePull(rs, c, r) =
        IF ~resync /\ cs = <<>> /\ ps = <<>> THEN [records |-> rs, cursor |-> c]
        ELSE [records |-> list, cursor |-> next]
    BY DEF ReducePull, CursorOf, FullReply
<1>2. c \in Cursor
    BY DEF CursorOf, Cursor
<1>3. nc \in Nat /\ at \in Nat /\ pf + Len(ps) \in Nat
    OBVIOUS
<1>4. kept \in Seq(Block)
    OBVIOUS
<1>5. grown \in Seq(Block)
    <2> HIDE DEF kept
    <2> QED
        BY <1>4, SpliceFacts
<1>6. list \in Seq(Block)
    <2> HIDE DEF grown, at
    <2> QED
        BY <1>3, <1>5, SpliceFacts
<1>7. next \in Cursor
    <2> HIDE DEF nc
    <2> QED
        BY <1>3 DEF Cursor
<1> HIDE DEF c, r, list, next
<1> QED
    BY <1>1, <1>2, <1>6, <1>7 DEF c, r

\* What a page needs to know of a reply to apply it: the committed range starts where
\* its own ends, or at 0, and an open suffix starts inside what it holds.
Fits(ce, cid, ci, re, cf, cs, pf) ==
    /\ re # ce => cf = 0
    /\ re = ce => cf = cid
    /\ pf = 0 \/ (re = ce /\ cid = cf + Len(cs) /\ pf <= ci)

\* A page n with records rs before, once it has applied a reply that brought something.
Reduced(n, rs, cid, re, cf, cs, rg, pf, ps) ==
    LET nc == cf + Len(cs)
    IN  /\ n.cursor = CursorOf(re, nc, rg, pf + Len(ps))
        /\ n.records \in Seq(Block)
        /\ Len(n.records) = nc + (pf + Len(ps))
        /\ \A i \in 1..cf : n.records[i] = rs[i]
        /\ \A i \in 1..Len(cs) : n.records[cf + i] = cs[i]
        /\ \A i \in 1..pf : n.records[nc + i] = rs[cid + i]
        /\ \A i \in 1..Len(ps) : n.records[nc + (pf + i)] = ps[i]

(* The list and the cursor a page ends with: what it keeps of its committed
   records, the reply's, what it keeps of the open turn, the reply's. *)
LEMMA ReduceList ==
    ASSUME NEW rs \in Seq(Block),
           NEW ce \in Nat, NEW cid \in Nat, NEW cg \in Nat, NEW ci \in Nat,
           NEW re \in Nat, NEW cf \in Nat, NEW cs \in Seq(Block),
           NEW rg \in Nat, NEW pf \in Nat, NEW ps \in Seq(Block),
           Len(rs) = cid + ci,
           Fits(ce, cid, ci, re, cf, cs, pf),
           ~(re = ce /\ cs = <<>> /\ ps = <<>>)
    PROVE  Reduced(ReducePull(rs, CursorOf(ce, cid, cg, ci), FullReply(re, cf, cs, rg, pf, ps)),
                   rs, cid, re, cf, cs, rg, pf, ps)
<1> DEFINE c == CursorOf(ce, cid, cg, ci)
           r == FullReply(re, cf, cs, rg, pf, ps)
           resync == re # ce
           id == IF cs # <<>> THEN cf + Len(cs) ELSE IF resync THEN 0 ELSE cid
           kept == IF resync THEN <<>> ELSE rs
           grown == IF cs # <<>> THEN Splice(kept, cf, cs) ELSE kept
           at == id + pf
           list == IF Len(grown) # at \/ ps # <<>> THEN Splice(grown, at, ps) ELSE grown
           next == [epoch |-> re, committed_id |-> id, provisional_gen |-> rg,
                    provisional_index |-> pf + Len(ps)]
           nc == cf + Len(cs)
<1>1. ReducePull(rs, c, r) = [records |-> list, cursor |-> next]
    BY DEF ReducePull, CursorOf, FullReply
<1>2. /\ resync => cf = 0
      /\ ~resync => cf = cid
      /\ pf = 0 \/ (~resync /\ cid = cf + Len(cs) /\ pf <= ci)
    BY DEF Fits
<1>3. id = nc /\ nc \in Nat /\ at = nc + pf
    <2>1. CASE cs # <<>>
        BY <2>1
    <2>2. CASE cs = <<>>
        <3>1. nc = cf /\ id = cf
            BY <1>2, <2>2
        <3> HIDE DEF nc, id
        <3> QED
            BY <3>1
    <2> QED
        BY <2>1, <2>2
<1>4. kept \in Seq(Block) /\ cf <= Len(kept) /\ \A i \in 1..cf : kept[i] = rs[i]
    BY <1>2
<1>5. /\ grown \in Seq(Block) /\ at <= Len(grown)
      /\ \A i \in 1..cf : grown[i] = rs[i]
      /\ \A i \in 1..Len(cs) : grown[cf + i] = cs[i]
      /\ \A i \in 1..pf : grown[nc + i] = rs[cid + i]
    <2>1. CASE cs # <<>>
        <3>1. pf = 0 /\ grown = Splice(kept, cf, cs) /\ cf \in 0..Len(kept)
            <4>1. Len(cs) # 0
                BY <2>1
            <4> QED
                BY <1>2, <1>4, <2>1, <4>1
        <3> HIDE DEF kept, grown, id, at
        <3>2. /\ grown \in Seq(Block) /\ Len(grown) = cf + Len(cs)
              /\ \A i \in 1..cf : grown[i] = kept[i]
              /\ \A i \in 1..Len(cs) : grown[cf + i] = cs[i]
            BY <1>4, <3>1, SpliceInside
        <3> QED
            BY <1>3, <1>4, <3>1, <3>2
    <2>2. CASE cs = <<>>
        <3>1. grown = kept /\ nc = cf
            BY <2>2
        <3>2. pf # 0 => kept = rs /\ nc = cid /\ pf <= ci
            BY <1>2, <2>2
        <3> HIDE DEF kept, grown, id, at, nc
        <3> QED
            BY <1>3, <1>4, <2>2, <3>1, <3>2
    <2> QED
        BY <2>1, <2>2
<1>6. /\ list \in Seq(Block) /\ Len(list) = at + Len(ps)
      /\ \A i \in 1..at : list[i] = grown[i]
      /\ \A i \in 1..Len(ps) : list[at + i] = ps[i]
    <2>0. at \in 0..Len(grown)
        <3> HIDE DEF grown, at, nc
        <3> QED
            BY <1>3, <1>5
    <2>1. CASE Len(grown) # at \/ ps # <<>>
        <3>1. list = Splice(grown, at, ps)
            BY <2>1
        <3> HIDE DEF grown, at, list
        <3> QED
            BY <1>5, <2>0, <3>1, SpliceInside
    <2>2. CASE Len(grown) = at /\ ps = <<>>
        <3>1. list = grown
            BY <2>2
        <3> HIDE DEF grown, at, list
        <3> QED
            BY <1>5, <2>2, <3>1
    <2> QED
        BY <2>1, <2>2
<1>7. next = CursorOf(re, nc, rg, pf + Len(ps))
    <2> HIDE DEF id, nc
    <2> QED
        BY <1>3 DEF CursorOf
<1>8. /\ Len(list) = nc + (pf + Len(ps))
      /\ \A i \in 1..cf : list[i] = rs[i]
      /\ \A i \in 1..Len(cs) : list[cf + i] = cs[i]
      /\ \A i \in 1..pf : list[nc + i] = rs[cid + i]
      /\ \A i \in 1..Len(ps) : list[nc + (pf + i)] = ps[i]
    <2>1. Len(cs) \in Nat /\ Len(ps) \in Nat
        OBVIOUS
    <2> HIDE DEF list, grown, at, id
    <2>2. Len(list) = nc + (pf + Len(ps))
        BY <1>3, <1>6, <2>1
    <2>3. ASSUME NEW i \in 1..cf PROVE list[i] = rs[i]
        <3>1. i \in 1..at
            BY <1>3, <2>1
        <3> QED
            BY <1>5, <1>6, <3>1
    <2>4. ASSUME NEW i \in 1..Len(cs) PROVE list[cf + i] = cs[i]
        <3>1. cf + i \in 1..at
            BY <1>3, <2>1
        <3> QED
            BY <1>5, <1>6, <3>1
    <2>5. ASSUME NEW i \in 1..pf PROVE list[nc + i] = rs[cid + i]
        <3>1. nc + i \in 1..at
            BY <1>3, <2>1
        <3> QED
            BY <1>5, <1>6, <3>1
    <2>6. ASSUME NEW i \in 1..Len(ps) PROVE list[nc + (pf + i)] = ps[i]
        <3>1. nc + (pf + i) = at + i
            BY <1>3, <2>1
        <3> QED
            BY <1>6, <3>1
    <2> QED
        BY <2>2, <2>3, <2>4, <2>5, <2>6
<1> HIDE DEF list, next, c, r, id, nc
<1>9. ReducePull(rs, c, r).records = list /\ ReducePull(rs, c, r).cursor = next
    BY <1>1
<1> QED
    BY <1>6, <1>7, <1>8, <1>9 DEF c, r, nc, Reduced

(* A sound page that applies a sound reply is sound: the list it ends with is
   the reply's committed zone and the reply's open turn, spliced at the cursor. *)
LEMMA ReduceSound ==
    ASSUME NEW rs \in Seq(Block),
           NEW ce \in Nat, NEW cid \in Nat, NEW cg \in Nat, NEW ci \in Nat,
           NEW re \in Nat, NEW cf \in Nat, NEW cs \in Seq(Block),
           NEW rg \in Nat, NEW pf \in Nat, NEW ps \in Seq(Block),
           NEW cm \in Seq(Block), NEW pv \in Seq(Block), NEW e \in Nat, NEW g \in Nat,
           CursorAt(CursorOf(ce, cid, cg, ci), rs, cm, pv, e, g),
           LogAt(CursorOf(ce, cid, cg, ci), re, rg, cf, cs, pf, cm, e, g),
           OpenAt(re, rg, pf, ps, pv, e, g)
    PROVE  LET n == ReducePull(rs, CursorOf(ce, cid, cg, ci), FullReply(re, cf, cs, rg, pf, ps))
           IN  CursorAt(n.cursor, n.records, cm, pv, e, g)
<1> DEFINE c == CursorOf(ce, cid, cg, ci)
           r == FullReply(re, cf, cs, rg, pf, ps)
           n == ReducePull(rs, c, r)
           nc == cf + Len(cs)
<1>1. CASE re = ce /\ cs = <<>> /\ ps = <<>>
    <2>1. n = [records |-> rs, cursor |-> c]
        BY <1>1 DEF ReducePull, CursorOf, FullReply
    <2> QED
        BY <2>1
<1>2. CASE ~(re = ce /\ cs = <<>> /\ ps = <<>>)
    <2>1. Len(rs) = cid + ci /\ Fits(ce, cid, ci, re, cf, cs, pf) /\ re >= 1
        BY DEF CursorAt, LogAt, RangeAt, SuffixFor, CursorOf, Fits
    <2>2. PICK list \in Seq(Block) :
            /\ n.records = list
            /\ n.cursor = CursorOf(re, nc, rg, pf + Len(ps))
            /\ Len(list) = nc + (pf + Len(ps))
            /\ \A i \in 1..cf : list[i] = rs[i]
            /\ \A i \in 1..Len(cs) : list[cf + i] = cs[i]
            /\ \A i \in 1..pf : list[nc + i] = rs[cid + i]
            /\ \A i \in 1..Len(ps) : list[nc + (pf + i)] = ps[i]
        <3>1. Reduced(n, rs, cid, re, cf, cs, rg, pf, ps)
            BY <1>2, <2>1, ReduceList
        <3> HIDE DEF n
        <3> QED
            BY <3>1 DEF Reduced
    <2>3. /\ ce <= re /\ re <= e
          /\ re = e => rg <= g /\ nc <= Len(cm) /\ (rg = g => nc = Len(cm))
          /\ re = e => \A i \in 1..Len(cs) : cs[i] = cm[cf + i]
        BY DEF LogAt, RangeAt, CursorOf
    <2>4. /\ re # ce => cf = 0
          /\ re = ce => cf = cid
          /\ pf = 0 \/ (re = ce /\ cg = rg /\ cid = nc /\ pf <= ci)
        BY <2>1 DEF Fits, LogAt, SuffixFor, CursorOf
    <2>5. ASSUME re = e, NEW i \in 1..nc PROVE list[i] = cm[i]
        <3>1. CASE i <= cf
            <4>1. i \in 1..cf /\ cf # 0
                BY <3>1
            <4>2. list[i] = rs[i] /\ ce = e /\ cf = cid
                BY <2>2, <2>4, <2>5, <4>1
            <4> QED
                BY <4>1, <4>2 DEF CursorAt, CursorOf
        <3>2. CASE i > cf
            <4>1. PICK j \in 1..Len(cs) : i = cf + j
                <5>1. i - cf \in 1..Len(cs) /\ i = cf + (i - cf)
                    BY <3>2
                <5> QED
                    BY <5>1
            <4> QED
                BY <2>2, <2>3, <2>5, <4>1
        <3> QED
            BY <3>1, <3>2
    <2>6. ASSUME re = e, rg = g, NEW i \in 1..(pf + Len(ps)) PROVE list[nc + i] = pv[i]
        <3>1. CASE i <= pf
            <4>1. list[nc + i] = rs[cid + i] /\ ce = e /\ cg = g /\ i \in 1..ci
                BY <2>2, <2>4, <2>6, <3>1
            <4> QED
                BY <4>1 DEF CursorAt, CursorOf
        <3>2. CASE i > pf
            <4>1. PICK j \in 1..Len(ps) : i = pf + j
                <5>1. i - pf \in 1..Len(ps) /\ i = pf + (i - pf)
                    BY <3>2
                <5> QED
                    BY <5>1
            <4>2. ps[j] = pv[pf + j]
                BY <2>6 DEF OpenAt
            <4> QED
                BY <2>2, <4>1, <4>2
        <3> QED
            BY <3>1, <3>2
    <2>7. re = e /\ rg = g => pf + Len(ps) <= Len(pv)
        BY DEF OpenAt
    <2>8. CursorAt(CursorOf(re, nc, rg, pf + Len(ps)), list, cm, pv, e, g)
        <3>1. PICK m \in Nat : m = pf + Len(ps)
            OBVIOUS
        <3>2. PICK id \in Nat : id = nc
            OBVIOUS
        <3> DEFINE d == CursorOf(re, id, rg, m)
        <3>3. /\ d.epoch = re /\ d.committed_id = id /\ d.provisional_gen = rg
              /\ d.provisional_index = m
            BY DEF CursorOf
        <3>4. /\ Len(list) = id + m
              /\ re <= e /\ re # 0
              /\ re = e => /\ rg <= g /\ id <= Len(cm)
                           /\ \A i \in 1..id : list[i] = cm[i]
              /\ re = e /\ rg = g => /\ id = Len(cm) /\ m <= Len(pv)
                                     /\ \A i \in 1..m : list[id + i] = pv[i]
            <4>1. Len(list) = id + m /\ re <= e /\ re # 0
                BY <2>1, <2>2, <2>3, <3>1, <3>2
            <4>2. ASSUME re = e
                  PROVE  rg <= g /\ id <= Len(cm) /\ \A i \in 1..id : list[i] = cm[i]
                BY <2>3, <2>5, <3>2, <4>2
            <4>3. ASSUME re = e, rg = g
                  PROVE  id = Len(cm) /\ m <= Len(pv) /\ \A i \in 1..m : list[id + i] = pv[i]
                BY <2>3, <2>6, <2>7, <3>1, <3>2, <4>3
            <4> QED
                BY <4>1, <4>2, <4>3
        <3>5. CursorAt(d, list, cm, pv, e, g)
            <4> HIDE DEF d
            <4> QED
                BY <3>3, <3>4 DEF CursorAt
        <3> QED
            BY <3>1, <3>2, <3>5
    <2> QED
        BY <2>2, <2>8
<1> QED
    BY <1>1, <1>2

\* One list and the two zones of a client are the same page.
SamePage(js, rs) ==
    js.records = rs.committed \o rs.provisional /\ js.cursor = rs.cursor

(* The page's reducer and PullClient::apply agree on a reply that fits. *)
LEMMA ReducersMatch ==
    ASSUME NEW rs \in Seq(Block),
           NEW ce \in Nat, NEW cid \in Nat, NEW cg \in Nat, NEW ci \in Nat,
           NEW re \in Nat, NEW cf \in Nat, NEW cs \in Seq(Block),
           NEW rg \in Nat, NEW pf \in Nat, NEW ps \in Seq(Block),
           Len(rs) = cid + ci,
           Fits(ce, cid, ci, re, cf, cs, pf)
    PROVE  SamePage(ReducePull(rs, CursorOf(ce, cid, cg, ci), FullReply(re, cf, cs, rg, pf, ps)),
                    PullClientApply([committed |-> SubSeq(rs, 1, cid),
                                     provisional |-> SubSeq(rs, cid + 1, Len(rs)),
                                     cursor |-> CursorOf(ce, cid, cg, ci)],
                                    FullReply(re, cf, cs, rg, pf, ps)))
<1> DEFINE c == CursorOf(ce, cid, cg, ci)
           r == FullReply(re, cf, cs, rg, pf, ps)
           js == ReducePull(rs, c, r)
           hc == SubSeq(rs, 1, cid)
           ho == SubSeq(rs, cid + 1, Len(rs))
           mine == [committed |-> hc, provisional |-> ho, cursor |-> c]
           cl == PullClientApply(mine, r)
           nc == cf + Len(cs)
           zc == IF re # ce \/ cs # <<>> THEN Splice(hc, cf, cs) ELSE hc
           zo == IF Len(ho) > pf \/ ps # <<>> THEN Splice(ho, pf, ps) ELSE ho
<1>1. /\ hc \in Seq(Block) /\ Len(hc) = cid /\ \A i \in 1..cid : hc[i] = rs[i]
      /\ ho \in Seq(Block) /\ Len(ho) = ci /\ \A i \in 1..ci : ho[i] = rs[cid + i]
    OBVIOUS
<1>2. CASE re = ce /\ cs = <<>> /\ ps = <<>>
    <2>1. js = [records |-> rs, cursor |-> c]
        BY <1>2 DEF ReducePull, CursorOf, FullReply
    <2>2. cl = mine
        BY <1>2 DEF PullClientApply, CursorOf, FullReply
    <2>3. rs = hc \o ho
        <3> HIDE DEF hc, ho
        <3> QED
            BY <1>1, TwoParts
    <2>4. /\ js.records = rs /\ js.cursor = c
          /\ cl.committed = hc /\ cl.provisional = ho /\ cl.cursor = c
        <3> HIDE DEF hc, ho, c, js, cl
        <3> QED
            BY <2>1, <2>2
    <2>5. SamePage(js, cl)
        <3> HIDE DEF hc, ho, c, js, cl
        <3> QED
            BY <2>3, <2>4 DEF SamePage
    <2> QED
        BY <2>5
<1>3. CASE ~(re = ce /\ cs = <<>> /\ ps = <<>>)
    <2>1. PICK list \in Seq(Block) :
            /\ js.records = list
            /\ js.cursor = CursorOf(re, nc, rg, pf + Len(ps))
            /\ Len(list) = nc + (pf + Len(ps))
            /\ \A i \in 1..cf : list[i] = rs[i]
            /\ \A i \in 1..Len(cs) : list[cf + i] = cs[i]
            /\ \A i \in 1..pf : list[nc + i] = rs[cid + i]
            /\ \A i \in 1..Len(ps) : list[nc + (pf + i)] = ps[i]
        <3>1. Reduced(js, rs, cid, re, cf, cs, rg, pf, ps)
            BY <1>3, ReduceList
        <3> HIDE DEF js
        <3> QED
            BY <3>1 DEF Reduced
    <2>2. cl = [committed |-> zc, provisional |-> zo,
                cursor |-> CursorOf(re, nc, rg, pf + Len(ps))]
        <3> HIDE DEF hc, ho
        <3> QED
            BY <1>3 DEF PullClientApply, CursorOf, FullReply
    <2>3. /\ re # ce => cf = 0
          /\ re = ce => cf = cid
          /\ pf = 0 \/ (re = ce /\ cid = nc /\ pf <= ci)
          /\ cf <= cid /\ pf <= ci
        BY DEF Fits
    <2>4. /\ zc \in Seq(Block) /\ Len(zc) = nc
          /\ \A i \in 1..cf : zc[i] = rs[i]
          /\ \A i \in 1..Len(cs) : zc[cf + i] = cs[i]
        <3>1. CASE re # ce \/ cs # <<>>
            <4>1. zc = Splice(hc, cf, cs) /\ cf \in 0..Len(hc) /\ nc = cf + Len(cs)
                BY <1>1, <2>3, <3>1
            <4> HIDE DEF hc, zc, nc
            <4>2. hc \in Seq(Block)
                BY <1>1
            <4>3. /\ zc \in Seq(Block) /\ Len(zc) = cf + Len(cs)
                  /\ \A i \in 1..cf : zc[i] = hc[i]
                  /\ \A i \in 1..Len(cs) : zc[cf + i] = cs[i]
                BY <4>1, <4>2, SpliceInside
            <4>4. \A i \in 1..cf : i \in 1..cid
                BY <2>3
            <4> QED
                BY <1>1, <4>1, <4>3, <4>4
        <3>2. CASE re = ce /\ cs = <<>>
            <4>1. zc = hc /\ cf = cid /\ Len(cs) = 0 /\ nc = cid
                BY <2>3, <3>2
            <4> HIDE DEF hc, zc, nc, ho, zo, c, r, js, mine, cl
            <4>2. zc \in Seq(Block) /\ Len(zc) = nc
                BY <1>1, <4>1
            <4>3. \A i \in 1..cf : zc[i] = rs[i]
                BY <1>1, <4>1
            <4>4. 1..Len(cs) = {}
                BY <4>1
            <4> QED
                BY <4>2, <4>3, <4>4
        <3> QED
            BY <3>1, <3>2
    <2>5. /\ zo \in Seq(Block) /\ Len(zo) = pf + Len(ps)
          /\ \A i \in 1..pf : zo[i] = rs[cid + i]
          /\ \A i \in 1..Len(ps) : zo[pf + i] = ps[i]
        <3>1. CASE Len(ho) > pf \/ ps # <<>>
            <4>1. zo = Splice(ho, pf, ps) /\ pf \in 0..Len(ho)
                BY <1>1, <2>3, <3>1
            <4> HIDE DEF ho, zo
            <4>2. /\ zo \in Seq(Block) /\ Len(zo) = pf + Len(ps)
                  /\ \A i \in 1..pf : zo[i] = ho[i]
                  /\ \A i \in 1..Len(ps) : zo[pf + i] = ps[i]
                BY <1>1, <4>1, SpliceInside
            <4>3. \A i \in 1..pf : i \in 1..ci
                BY <2>3
            <4> QED
                BY <1>1, <4>2, <4>3
        <3>2. CASE ~(Len(ho) > pf) /\ ps = <<>>
            <4>1. zo = ho /\ Len(ps) = 0 /\ pf = ci
                BY <1>1, <2>3, <3>2
            <4> HIDE DEF ho, zo, hc, zc, nc, c, r, js, mine, cl
            <4>2. zo \in Seq(Block) /\ Len(zo) = pf + Len(ps)
                BY <1>1, <4>1
            <4>3. \A i \in 1..pf : zo[i] = rs[cid + i]
                BY <1>1, <4>1
            <4>4. 1..Len(ps) = {}
                BY <4>1
            <4> QED
                BY <4>2, <4>3, <4>4
        <3> QED
            BY <3>1, <3>2
    <2> HIDE DEF zc, zo, hc, ho, c, r, js, cl
    <2>6. ASSUME NEW i \in 1..Len(zc) PROVE list[i] = zc[i]
        <3>1. CASE i <= cf
            BY <2>1, <2>4, <3>1
        <3>2. CASE i > cf
            <4>1. i - cf \in 1..Len(cs) /\ cf + (i - cf) = i
                BY <2>4, <3>2
            <4> QED
                BY <2>1, <2>4, <4>1
        <3> QED
            BY <3>1, <3>2
    <2>7. ASSUME NEW i \in 1..Len(zo) PROVE list[Len(zc) + i] = zo[i]
        <3>1. CASE i <= pf
            BY <2>1, <2>4, <2>5, <3>1
        <3>2. CASE i > pf
            <4>1. PICK j \in 1..Len(ps) : i = pf + j
                <5>1. i - pf \in 1..Len(ps) /\ i = pf + (i - pf)
                    BY <2>5, <3>2
                <5> QED
                    BY <5>1
            <4>2. list[nc + (pf + j)] = ps[j] /\ zo[pf + j] = ps[j] /\ Len(zc) = nc
                BY <2>1, <2>4, <2>5
            <4> HIDE DEF nc
            <4> QED
                BY <4>1, <4>2
        <3> QED
            BY <3>1, <3>2
    <2>8. list = zc \o zo
        <3>1. Len(list) = Len(zc) + Len(zo) /\ zc \in Seq(Block) /\ zo \in Seq(Block)
            BY <2>1, <2>4, <2>5
        <3> QED
            BY <2>6, <2>7, <3>1, TwoParts
    <2>9. cl.committed = zc /\ cl.provisional = zo /\ cl.cursor = js.cursor
        BY <2>1, <2>2
    <2>10. SamePage(js, cl)
        BY <2>1, <2>8, <2>9 DEF SamePage
    <2> QED
        BY <2>10 DEF js, cl, c, r, hc, ho
<1> QED
    BY <1>2, <1>3

-----------------------------------------------------------------------------
(* The steps that move the session.                                        *)

\* What a session step leaves of a page: all of it, or an idle page that has
\* now begun a request.
SameOrAsked(old, new) ==
    \/ new = old
    \/ old.stage = "idle" /\ new = [old EXCEPT !.stage = "count"]

(* A page that only began a request has the types and the soundness it had. *)
LEMMA AskedPage ==
    ASSUME NEW old, NEW new, SameOrAsked(old, new), PageType(old)
    PROVE  /\ PageType(new)
           /\ \A cm, pv, e, g : PageAt(old, cm, pv, e, g) => PageAt(new, cm, pv, e, g)
<1>1. CASE new = old
    BY <1>1
<1>2. CASE old.stage = "idle" /\ new = [old EXCEPT !.stage = "count"]
    <2>1. /\ new.cursor = old.cursor /\ new.records = old.records
          /\ new.reply = old.reply /\ new.stage = "count"
          /\ new \in [records : Seq(Block), cursor : Cursor, stage : Stage,
                      reply : {NoReply} \cup Delta \cup Pointer \cup Full]
        BY <1>2 DEF PageType, Stage
    <2> QED
        BY <2>1 DEF PageType, PageAt
<1> QED
    BY <1>1, <1>2 DEF SameOrAsked

(* A tick, whether it ends well or is cut short, keeps the invariant; one that
   is cut short leaves only the types, for its counters did not move. *)
LEMMA TickStep ==
    ASSUME IInv, SomeTick, ticks' \in Nat, lost' \in Nat, rendered' = rendered,
           DOMAIN page' = Page, \A q \in Page : SameOrAsked(page[q], page'[q])
    PROVE  IInv'
<1>1. TypeInv
    BY DEF IInv
<1>2. PICK reset \in BOOLEAN, patched \in BOOLEAN, fresh \in UpTo(MaxFresh), open \in UpTo(MaxOpen) :
        \/ Tick(reset, patched, fresh, open) /\ faults' = faults
        \/ TickFails(reset, fresh, open) /\ faults' = faults + 1
    BY DEF SomeTick
<1>3. fresh \in Seq(Block) /\ open \in Seq(Block)
    BY UpToSeq, BoundsAssumption
<1>4. \A q \in Page : PageType(page'[q])
    BY <1>1, AskedPage DEF TypeInv
<1>5. committed' \in Seq(Block) /\ provisional' \in Seq(Block)
    <2>1. committed \in Seq(Block) /\ <<>> \in Seq(Block)
        BY <1>1 DEF TypeInv
    <2>2. Fold(reset, fresh, open)
        BY <1>2 DEF Tick, TickFails
    <2>3. (IF reset THEN <<>> ELSE committed) \in Seq(Block)
        BY <2>1
    <2> QED
        BY <1>3, <2>2, <2>3 DEF Fold
<1>6. prev' \in Seq(Block) /\ epoch' \in Nat /\ gen' \in Nat /\ faults' \in Nat
    <2>1. prev \in Seq(Block) /\ epoch \in Nat /\ gen \in Nat /\ faults \in Nat
        BY <1>1 DEF TypeInv
    <2>2. CASE Tick(reset, patched, fresh, open) /\ faults' = faults
        BY <1>3, <2>1, <2>2 DEF Tick
    <2>3. CASE TickFails(reset, fresh, open) /\ faults' = faults + 1
        BY <2>1, <2>3 DEF TickFails
    <2> QED
        BY <1>2, <2>2, <2>3
<1>7. TypeInv'
    BY <1>1, <1>4, <1>5, <1>6 DEF TypeInv
<1>8. ASSUME faults' = 0 PROVE SyncInv'
    <2>1. faults = 0 /\ Tick(reset, patched, fresh, open)
        BY <1>1, <1>2, <1>8 DEF TypeInv
    <2>2. SyncInv
        BY <2>1 DEF IInv
    <2>3. /\ Advances(committed, provisional, epoch, gen,
                      committed', provisional', epoch', gen')
          /\ epoch' >= 1 /\ prev' = provisional'
        BY <1>1, <1>3, <2>1, <2>2, TickAdvances
    <2>4. /\ committed \in Seq(Block) /\ provisional \in Seq(Block)
          /\ epoch \in Nat /\ gen \in Nat
        BY <1>1 DEF TypeInv
    <2>5. ASSUME NEW q \in Page
          PROVE  PageAt(page'[q], committed', provisional', epoch', gen')
        <3>1. PageType(page[q]) /\ PageAt(page[q], committed, provisional, epoch, gen)
            BY <1>1, <2>2 DEF TypeInv, SyncInv
        <3>2. PageAt(page[q], committed', provisional', epoch', gen')
            BY <1>5, <1>6, <2>3, <2>4, <3>1, PageCarries
        <3> QED
            BY <3>1, <3>2, AskedPage
    <2>6. ASSUME NEW entry \in rendered'
          PROVE  EntryAt(entry, provisional', epoch', gen')
        <3>1. entry \in Entry /\ EntryAt(entry, provisional, epoch, gen)
            BY <1>1, <2>2 DEF TypeInv, SyncInv
        <3> QED
            BY <1>5, <1>6, <2>3, <2>4, <3>1, EntryCarries
    <2> QED
        BY <2>3, <2>5, <2>6 DEF SyncInv
<1> QED
    BY <1>7, <1>8 DEF IInv

-----------------------------------------------------------------------------
(* The steps of one page.                                                  *)

(* A step that gives page p a new state and leaves the session alone keeps the
   invariant if the new state has the types and is sound. *)
LEMMA PageOnly ==
    ASSUME IInv, NEW p \in Page, NEW pg,
           page' = [page EXCEPT ![p] = pg],
           UNCHANGED session, faults' = faults, ticks' \in Nat, lost' \in Nat,
           PageType(pg),
           faults = 0 => PageAt(pg, committed, provisional, epoch, gen),
           rendered' \in SUBSET Entry,
           faults = 0 => \A entry \in rendered' : EntryAt(entry, provisional, epoch, gen)
    PROVE  IInv'
<1>1. /\ committed' = committed /\ provisional' = provisional /\ prev' = prev
      /\ epoch' = epoch /\ gen' = gen
    BY DEF session
<1>2. TypeInv
    BY DEF IInv
<1>3. /\ DOMAIN page' = Page
      /\ page'[p] = pg
      /\ \A q \in Page : q # p => page'[q] = page[q]
    BY <1>2 DEF TypeInv
<1>4. \A q \in Page : PageType(page'[q])
    BY <1>2, <1>3 DEF TypeInv
<1>5. TypeInv'
    BY <1>1, <1>2, <1>3, <1>4 DEF TypeInv
<1>6. ASSUME faults' = 0 PROVE SyncInv'
    <2>1. SyncInv
        BY <1>6 DEF IInv
    <2>2. \A q \in Page : PageAt(page'[q], committed, provisional, epoch, gen)
        BY <1>3, <1>6, <2>1 DEF SyncInv
    <2> QED
        BY <1>1, <1>6, <2>1, <2>2 DEF SyncInv
<1> QED
    BY <1>5, <1>6 DEF IInv

(* Begin, or refuse, or lose, or end a request: the page's list and cursor
   stay, and the reply is not looked at in the new stage. *)
LEMMA StageOnly ==
    ASSUME IInv, NEW p \in Page, NEW stage \in {"idle", "count", "serve"},
           NEW reply \in {NoReply, page[p].reply},
           page' = [page EXCEPT ![p].stage = stage, ![p].reply = reply],
           UNCHANGED session, rendered' = rendered, faults' = faults,
           ticks' \in Nat, lost' \in Nat
    PROVE  IInv'
<1> DEFINE pg == [page[p] EXCEPT !.stage = stage, !.reply = reply]
<1>1. TypeInv
    BY DEF IInv
<1>2. PageType(page[p])
    BY <1>1 DEF TypeInv
<1>3. page' = [page EXCEPT ![p] = pg]
    OBVIOUS
<1>4. /\ pg \in [records : Seq(Block), cursor : Cursor, stage : Stage,
                 reply : {NoReply} \cup Delta \cup Pointer \cup Full]
      /\ pg.stage = stage /\ pg.cursor = page[p].cursor /\ pg.records = page[p].records
    BY <1>2 DEF PageType, Stage
<1>5. PageType(pg)
    BY <1>4 DEF PageType
<1>6. faults = 0 => PageAt(pg, committed, provisional, epoch, gen)
    BY <1>4 DEF IInv, SyncInv, PageAt
<1>7. /\ rendered' \in SUBSET Entry
      /\ faults = 0 => \A entry \in rendered' : EntryAt(entry, provisional, epoch, gen)
    BY <1>1 DEF IInv, SyncInv, TypeInv
<1> HIDE DEF pg
<1> QED
    BY <1>3, <1>5, <1>6, <1>7, PageOnly

(* The empty reply, from the counters alone. *)
LEMMA CountIdleStep ==
    ASSUME IInv, NEW p \in Page, CountIdle(p)
    PROVE  IInv'
<1> DEFINE nc == Len(committed)
           np == Len(prev)
           r == FullReply(epoch, nc, <<>>, gen, np, <<>>)
           pg == [page[p] EXCEPT !.stage = "apply", !.reply = r]
           c == page[p].cursor
<1>1. TypeInv
    BY DEF IInv
<1>2. PageType(page[p]) /\ c \in Cursor /\ page[p].records \in Seq(Block)
    BY <1>1 DEF TypeInv, PageType
<1>3. /\ committed \in Seq(Block) /\ prev \in Seq(Block) /\ epoch \in Nat /\ gen \in Nat
      /\ nc \in Nat /\ np \in Nat
    BY <1>1 DEF TypeInv
<1>4. page' = [page EXCEPT ![p] = pg]
    BY DEF CountIdle, FullReply
<1>5. r \in Full
    BY <1>3 DEF Full, FullReply
<1>6. /\ pg \in [records : Seq(Block), cursor : Cursor, stage : Stage,
                 reply : {NoReply} \cup Delta \cup Pointer \cup Full]
      /\ pg.stage = "apply" /\ pg.reply = r
      /\ pg.cursor = c /\ pg.records = page[p].records
    <2> HIDE DEF r
    <2> QED
        BY <1>2, <1>5 DEF PageType, Stage
<1>7. PageType(pg)
    BY <1>5, <1>6 DEF PageType
<1>8. ASSUME faults = 0 PROVE PageAt(pg, committed, provisional, epoch, gen)
    <2>1. /\ SyncInv /\ prev = provisional /\ epoch >= 1
          /\ CursorAt(c, page[p].records, committed, provisional, epoch, gen)
        BY <1>8 DEF IInv, SyncInv, PageAt
    <2>2. /\ c.epoch = epoch
          /\ CommittedFrom(epoch, nc, c) = nc
          /\ ProvisionalFrom(epoch, nc, np, gen, c) = np
        BY DEF CountIdle, NothingFor
    <2>3. RangeAt(c, epoch, gen, nc, nc, committed, epoch, gen)
        <3> HIDE DEF c
        <3> QED
            BY <1>2, <1>3, <2>1, <2>2 DEF CommittedFrom, RangeAt, CursorAt, Cursor
    <2>4. SuffixFor(c, epoch, gen, nc, np)
        <3> HIDE DEF c, nc, np
        <3> QED
            BY <1>2, <1>3, <2>2, ProvisionalFromSound
    <2>5. LogAt(c, epoch, gen, nc, <<>>, np, committed, epoch, gen)
        <3>1. Len(<<>>) = 0 /\ nc + 0 = nc
            BY <1>3
        <3> HIDE DEF c, nc, np
        <3> QED
            BY <2>3, <2>4, <3>1 DEF LogAt
    <2>6. OpenAt(epoch, gen, np, <<>>, provisional, epoch, gen)
        BY <1>3, <2>1 DEF OpenAt
    <2>7. FullAt(c, r, committed, provisional, epoch, gen)
        <3> HIDE DEF c, nc, np
        <3> QED
            BY <2>5, <2>6 DEF FullAt, FullReply
    <2> HIDE DEF pg, r, c
    <2> QED
        BY <1>6, <2>1, <2>7 DEF PageAt
<1>9. /\ rendered' \in SUBSET Entry
      /\ faults = 0 => \A entry \in rendered' : EntryAt(entry, provisional, epoch, gen)
      /\ UNCHANGED session /\ faults' = faults /\ ticks' \in Nat /\ lost' \in Nat
    BY <1>1 DEF IInv, SyncInv, TypeInv, CountIdle
<1> HIDE DEF pg
<1> QED
    BY <1>4, <1>7, <1>8, <1>9, PageOnly

(* The cut of both zones. *)
LEMMA ServeDeltaStep ==
    ASSUME IInv, NEW p \in Page, ServeDelta(p)
    PROVE  IInv'
<1> DEFINE c == page[p].cursor
           from == CommittedFrom(epoch, Len(committed), c)
           r == [stage |-> "delta", epoch |-> epoch, from |-> from,
                 to |-> Len(committed), provisional_gen |-> gen, open |-> provisional]
           pg == [page[p] EXCEPT !.stage = "render", !.reply = r]
<1>1. TypeInv
    BY DEF IInv
<1>2. PageType(page[p]) /\ c \in Cursor /\ page[p].records \in Seq(Block)
    BY <1>1 DEF TypeInv, PageType
<1>3. /\ committed \in Seq(Block) /\ provisional \in Seq(Block)
      /\ epoch \in Nat /\ gen \in Nat /\ Len(committed) \in Nat
    BY <1>1 DEF TypeInv
<1>4. page' = [page EXCEPT ![p] = pg]
    BY DEF ServeDelta
<1>5. from \in Nat
    BY <1>2, <1>3, IndicesType
<1>6. r \in Delta
    <2> HIDE DEF from
    <2> QED
        BY <1>3, <1>5 DEF Delta
<1>7. /\ pg \in [records : Seq(Block), cursor : Cursor, stage : Stage,
                 reply : {NoReply} \cup Delta \cup Pointer \cup Full]
      /\ pg.stage = "render" /\ pg.reply = r
      /\ pg.cursor = c /\ pg.records = page[p].records
    <2> HIDE DEF r
    <2> QED
        BY <1>2, <1>6 DEF PageType, Stage
<1>8. PageType(pg)
    BY <1>6, <1>7 DEF PageType
<1>9. ASSUME faults = 0 PROVE PageAt(pg, committed, provisional, epoch, gen)
    <2>1. epoch >= 1 /\ CursorAt(c, page[p].records, committed, provisional, epoch, gen)
        BY <1>9 DEF IInv, SyncInv, PageAt
    <2>2. RangeAt(c, epoch, gen, from, Len(committed), committed, epoch, gen)
        <3> HIDE DEF c
        <3> QED
            BY <1>2, <1>3, <2>1, CommittedFromSound
    <2>3. OpenAt(epoch, gen, 0, provisional, provisional, epoch, gen)
        BY <1>3 DEF OpenAt
    <2>4. DeltaAt(c, r, committed, provisional, epoch, gen)
        <3> HIDE DEF c, from
        <3> QED
            BY <2>2, <2>3 DEF DeltaAt
    <2> HIDE DEF pg, r, c
    <2> QED
        BY <1>7, <2>1, <2>4 DEF PageAt
<1>10. /\ rendered' \in SUBSET Entry
       /\ faults = 0 => \A entry \in rendered' : EntryAt(entry, provisional, epoch, gen)
       /\ UNCHANGED session /\ faults' = faults /\ ticks' \in Nat /\ lost' \in Nat
    BY <1>1 DEF IInv, SyncInv, TypeInv, ServeDelta
<1> HIDE DEF pg
<1> QED
    BY <1>4, <1>8, <1>9, <1>10, PageOnly

(* A suffix of the lines of an open turn. *)
LEMMA OpenSuffix ==
    ASSUME NEW lines \in Seq(Block), NEW pf \in 0..Len(lines)
    PROVE  LET tail == SubSeq(lines, pf + 1, Len(lines))
           IN  /\ tail \in Seq(Block)
               /\ \A re, rg, pv, e, g :
                      OpenAt(re, rg, 0, lines, pv, e, g)
                          => OpenAt(re, rg, pf, tail, pv, e, g)
<1> DEFINE tail == SubSeq(lines, pf + 1, Len(lines))
<1>1. /\ tail \in Seq(Block) /\ Len(tail) = Len(lines) - pf
      /\ \A i \in 1..Len(tail) : tail[i] = lines[pf + i]
    OBVIOUS
<1> HIDE DEF tail
<1>2. ASSUME NEW re, NEW rg, NEW pv, NEW e, NEW g,
             OpenAt(re, rg, 0, lines, pv, e, g), re = e, rg = g
      PROVE  /\ pf + Len(tail) <= Len(pv)
             /\ \A i \in 1..Len(tail) : tail[i] = pv[pf + i]
    <2>1. /\ 0 + Len(lines) <= Len(pv)
          /\ \A i \in 1..Len(lines) : lines[i] = pv[0 + i]
        BY <1>2 DEF OpenAt
    <2>2. pf + Len(tail) <= Len(pv)
        BY <1>1, <2>1
    <2>3. ASSUME NEW i \in 1..Len(tail) PROVE tail[i] = pv[pf + i]
        <3>1. pf + i \in 1..Len(lines) /\ 0 + (pf + i) = pf + i
            BY <1>1
        <3> QED
            BY <1>1, <2>1, <3>1
    <2> QED
        BY <2>2, <2>3
<1>3. \A re, rg, pv, e, g :
          OpenAt(re, rg, 0, lines, pv, e, g) => OpenAt(re, rg, pf, tail, pv, e, g)
    BY <1>2 DEF OpenAt
<1> QED
    BY <1>1, <1>3 DEF tail

(* The rendered open turn: from the cache or fresh, it is sound either way. *)
LEMMA RenderStep ==
    ASSUME IInv, NEW p \in Page, Render(p)
    PROVE  IInv'
<1> DEFINE c == page[p].cursor
           r == page[p].reply
           key == <<r.epoch, r.provisional_gen, Len(r.open)>>
           hits == {e \in rendered : e.key = key}
           lines == IF hits = {} THEN r.open ELSE (CHOOSE e \in hits : TRUE).lines
           pf == ProvisionalFrom(r.epoch, r.to, Len(lines), r.provisional_gen, c)
           entry == [key |-> key, lines |-> lines]
           tail == SubSeq(lines, pf + 1, Len(lines))
           q == [stage |-> "pointer", epoch |-> r.epoch, from |-> r.from, to |-> r.to,
                 provisional_gen |-> r.provisional_gen,
                 provisional_from |-> pf, provisional |-> tail]
           pg == [page[p] EXCEPT !.stage = "fetch", !.reply = q]
<1>1. TypeInv /\ page[p].stage = "render"
    BY DEF IInv, Render
<1>2. PageType(page[p]) /\ c \in Cursor /\ page[p].records \in Seq(Block)
    BY <1>1 DEF TypeInv, PageType
<1>3. r \in Delta
    BY <1>1, <1>2 DEF PageType
<1>4. /\ r.epoch \in Nat /\ r.provisional_gen \in Nat /\ r.from \in Nat
      /\ r.to \in Nat /\ r.open \in Seq(Block)
    BY <1>3 DEF Delta
<1>5. PICK n \in Nat : n = Len(r.open)
    <2>1. \A s \in Seq(Block) : Len(s) \in Nat
        OBVIOUS
    <2> QED
        BY <1>4, <2>1
<1>6. /\ rendered' = {entry}
      /\ page' = [page EXCEPT ![p] = pg]
      /\ UNCHANGED session /\ ticks' = ticks /\ lost' = lost /\ faults' = faults
    BY DEF Render
<1>7. ASSUME hits # {}
      PROVE  \E e \in rendered : e.key = key /\ e.lines = lines
    BY <1>7
<1>8. lines \in Seq(Block)
    <2>1. CASE hits = {}
        BY <1>4, <2>1
    <2>2. CASE hits # {}
        <3>1. PICK e \in rendered : e.lines = lines
            BY <1>7, <2>2
        <3>2. e \in Entry
            BY <1>1 DEF TypeInv
        <3> HIDE DEF lines
        <3> QED
            BY <3>1, <3>2 DEF Entry
    <2> QED
        BY <2>1, <2>2
<1>9. key \in Nat \X Nat \X Nat /\ key[1] = r.epoch /\ key[2] = r.provisional_gen /\ key[3] = n
    BY <1>4, <1>5
<1>10. entry \in Entry /\ entry.key = key /\ entry.lines = lines
    <2> HIDE DEF key, lines
    <2> QED
        BY <1>8, <1>9 DEF Entry
<1>11. Len(lines) \in Nat
    <2> HIDE DEF lines
    <2> QED
        BY <1>8
<1>12. pf \in 0..Len(lines)
    <2>1. pf \in Nat /\ pf <= Len(lines)
        <3> HIDE DEF lines
        <3> QED
            BY <1>2, <1>4, <1>11, IndicesType
    <2> HIDE DEF lines, pf
    <2> QED
        BY <1>11, <2>1
<1>13. /\ tail \in Seq(Block)
       /\ \A re, rg, pv, e, g :
              OpenAt(re, rg, 0, lines, pv, e, g) => OpenAt(re, rg, pf, tail, pv, e, g)
    <2> HIDE DEF lines, pf
    <2> QED
        BY <1>8, <1>12, OpenSuffix
<1>14. q \in Pointer
    <2> HIDE DEF r, pf, tail, lines
    <2> QED
        BY <1>4, <1>11, <1>12, <1>13 DEF Pointer
<1>15. /\ pg \in [records : Seq(Block), cursor : Cursor, stage : Stage,
                 reply : {NoReply} \cup Delta \cup Pointer \cup Full]
       /\ pg.stage = "fetch" /\ pg.reply = q
       /\ pg.cursor = c /\ pg.records = page[p].records
    <2> HIDE DEF q
    <2> QED
        BY <1>2, <1>14 DEF PageType, Stage
<1>16. PageType(pg)
    BY <1>14, <1>15 DEF PageType
<1>17. ASSUME faults = 0
       PROVE  /\ PageAt(pg, committed, provisional, epoch, gen)
              /\ EntryAt(entry, provisional, epoch, gen)
    <2>1. SyncInv
        BY <1>17 DEF IInv
    <2>2. /\ CursorAt(c, page[p].records, committed, provisional, epoch, gen)
          /\ DeltaAt(c, r, committed, provisional, epoch, gen)
        BY <1>1, <2>1 DEF SyncInv, PageAt
    <2>3. /\ RangeAt(c, r.epoch, r.provisional_gen, r.from, r.to, committed, epoch, gen)
          /\ OpenAt(r.epoch, r.provisional_gen, 0, r.open, provisional, epoch, gen)
        BY <2>2 DEF DeltaAt
    <2>4. /\ OpenAt(r.epoch, r.provisional_gen, 0, lines, provisional, epoch, gen)
          /\ Len(lines) = n
        <3>1. CASE hits = {}
            BY <1>5, <2>3, <3>1
        <3>2. CASE hits # {}
            <4>1. PICK e \in rendered : e.key = key /\ e.lines = lines
                BY <1>7, <3>2
            <4>2. EntryAt(e, provisional, epoch, gen)
                BY <2>1 DEF SyncInv
            <4> HIDE DEF key, lines, r
            <4> QED
                BY <1>9, <4>1, <4>2 DEF EntryAt
        <3> QED
            BY <3>1, <3>2
    <2>5. r.epoch <= epoch /\ (r.epoch = epoch => r.provisional_gen <= gen)
        BY <2>3 DEF RangeAt
    <2>6. EntryAt(entry, provisional, epoch, gen)
        <3> HIDE DEF key, lines, r, entry
        <3> QED
            BY <1>9, <1>10, <2>4, <2>5 DEF EntryAt
    <2>7. OpenAt(r.epoch, r.provisional_gen, pf, tail, provisional, epoch, gen)
        <3> HIDE DEF lines, r, pf, tail
        <3> QED
            BY <1>13, <2>4
    <2>8. SuffixFor(c, r.epoch, r.provisional_gen, r.to, pf)
        <3> HIDE DEF lines
        <3> QED
            BY <1>2, <1>4, <1>11, ProvisionalFromSound
    <2>9. PointerAt(c, q, committed, provisional, epoch, gen)
        <3> HIDE DEF r, c, pf, tail, lines
        <3> QED
            BY <2>3, <2>7, <2>8 DEF PointerAt
    <2> HIDE DEF pg, q, c, r, entry
    <2> QED
        BY <1>15, <2>2, <2>6, <2>9 DEF PageAt
<1>18. /\ rendered' \in SUBSET Entry
       /\ faults = 0 => \A x \in rendered' : EntryAt(x, provisional, epoch, gen)
       /\ ticks' \in Nat /\ lost' \in Nat
    <2> HIDE DEF entry
    <2> QED
        BY <1>1, <1>6, <1>10, <1>17 DEF TypeInv
<1> HIDE DEF pg, entry
<1> QED
    BY <1>6, <1>16, <1>17, <1>18, PageOnly

(* The bytes behind the pointer are those of the log the reply was cut from:
   the range lies inside the log as long as the epoch is the same. *)
LEMMA FetchRecordsStep ==
    ASSUME IInv, NEW p \in Page, FetchRecords(p)
    PROVE  IInv'
<1> DEFINE c == page[p].cursor
           r == page[p].reply
           cs == IF r.from = r.to THEN <<>>
                 ELSE SubSeq(committed, r.from + 1, Min2(r.to, Len(committed)))
           q == FullReply(r.epoch, r.from, cs, r.provisional_gen,
                          r.provisional_from, r.provisional)
           pg == [page[p] EXCEPT !.stage = "apply", !.reply = q]
<1>1. TypeInv /\ page[p].stage = "fetch" /\ (r.from = r.to \/ Servable(r))
    BY DEF IInv, FetchRecords
<1>2. PageType(page[p]) /\ c \in Cursor /\ page[p].records \in Seq(Block)
    BY <1>1 DEF TypeInv, PageType
<1>3. r \in Pointer
    BY <1>1, <1>2 DEF PageType
<1>4. /\ r.epoch \in Nat /\ r.provisional_gen \in Nat /\ r.from \in Nat
      /\ r.to \in Nat /\ r.provisional_from \in Nat /\ r.provisional \in Seq(Block)
    BY <1>3 DEF Pointer
<1>5. page' = [page EXCEPT ![p] = pg]
    BY DEF FetchRecords, FullReply
<1>6. committed \in Seq(Block) /\ Len(committed) \in Nat /\ epoch \in Nat /\ gen \in Nat
    BY <1>1 DEF TypeInv
<1>7. cs \in Seq(Block)
    <2>1. Min2(r.to, Len(committed)) \in Nat /\ Min2(r.to, Len(committed)) <= Len(committed)
        BY <1>4, <1>6 DEF Min2
    <2>2. \A m, n \in Nat : n <= Len(committed) => SubSeq(committed, m + 1, n) \in Seq(Block)
        BY <1>6
    <2>3. SubSeq(committed, r.from + 1, Min2(r.to, Len(committed))) \in Seq(Block)
        <3> HIDE DEF r
        <3> QED
            BY <1>4, <2>1, <2>2
    <2> QED
        BY <2>3
<1>8. q \in Full
    <2> HIDE DEF r, cs
    <2> QED
        BY <1>4, <1>7 DEF Full, FullReply
<1>9. /\ pg \in [records : Seq(Block), cursor : Cursor, stage : Stage,
                 reply : {NoReply} \cup Delta \cup Pointer \cup Full]
      /\ pg.stage = "apply" /\ pg.reply = q
      /\ pg.cursor = c /\ pg.records = page[p].records
    <2> HIDE DEF q
    <2> QED
        BY <1>2, <1>8 DEF PageType, Stage
<1>10. PageType(pg)
    BY <1>8, <1>9 DEF PageType
<1>11. ASSUME faults = 0 PROVE PageAt(pg, committed, provisional, epoch, gen)
    <2>1. /\ CursorAt(c, page[p].records, committed, provisional, epoch, gen)
          /\ PointerAt(c, r, committed, provisional, epoch, gen)
        BY <1>1, <1>11 DEF IInv, SyncInv, PageAt
    <2>2. /\ RangeAt(c, r.epoch, r.provisional_gen, r.from, r.to, committed, epoch, gen)
          /\ SuffixFor(c, r.epoch, r.provisional_gen, r.to, r.provisional_from)
          /\ OpenAt(r.epoch, r.provisional_gen, r.provisional_from, r.provisional,
                    provisional, epoch, gen)
        BY <2>1 DEF PointerAt
    <2>3. /\ r.from + Len(cs) = r.to
          /\ r.epoch = epoch => \A i \in 1..Len(cs) : cs[i] = committed[r.from + i]
        <3>1. CASE r.from = r.to
            BY <1>4, <3>1
        <3>2. CASE r.from # r.to
            <4>1. r.epoch = epoch /\ r.from <= r.to /\ r.to <= Len(committed)
                BY <1>1, <2>2, <3>2 DEF Servable, RangeAt
            <4>2. cs = SubSeq(committed, r.from + 1, r.to)
                BY <1>4, <1>6, <3>2, <4>1 DEF Min2
            <4>3. \A m, n \in Nat : m <= n /\ n <= Len(committed) =>
                    /\ m + Len(SubSeq(committed, m + 1, n)) = n
                    /\ \A i \in 1..Len(SubSeq(committed, m + 1, n)) :
                           SubSeq(committed, m + 1, n)[i] = committed[m + i]
                BY <1>6
            <4> HIDE DEF cs, r
            <4> QED
                BY <1>4, <4>1, <4>2, <4>3
        <3> QED
            BY <3>1, <3>2
    <2>4. LogAt(c, r.epoch, r.provisional_gen, r.from, cs, r.provisional_from,
                committed, epoch, gen)
        <3> HIDE DEF c, r, cs
        <3> QED
            BY <2>2, <2>3 DEF LogAt
    <2>5. FullAt(c, q, committed, provisional, epoch, gen)
        <3> HIDE DEF c, r, cs
        <3> QED
            BY <2>2, <2>4 DEF FullAt, FullReply
    <2> HIDE DEF pg, q, c, r
    <2> QED
        BY <1>9, <2>1, <2>5 DEF PageAt
<1>12. /\ rendered' \in SUBSET Entry
       /\ faults = 0 => \A entry \in rendered' : EntryAt(entry, provisional, epoch, gen)
       /\ UNCHANGED session /\ faults' = faults /\ ticks' \in Nat /\ lost' \in Nat
    BY <1>1 DEF IInv, SyncInv, TypeInv, FetchRecords
<1> HIDE DEF pg
<1> QED
    BY <1>5, <1>10, <1>11, <1>12, PageOnly

(* The page applies the reply. *)
LEMMA ApplyStep ==
    ASSUME IInv, NEW p \in Page, Apply(p)
    PROVE  IInv'
<1> DEFINE c == page[p].cursor
           r == page[p].reply
           rs == page[p].records
           n == ReducePull(rs, c, r)
           pg == [records |-> n.records, cursor |-> n.cursor,
                  stage |-> "idle", reply |-> NoReply]
<1>1. TypeInv /\ page[p].stage = "apply"
    BY DEF IInv, Apply
<1>2. PageType(page[p]) /\ c \in Cursor /\ rs \in Seq(Block)
    BY <1>1 DEF TypeInv, PageType
<1>3. r \in Full
    BY <1>1, <1>2 DEF PageType
<1>4. /\ r.epoch \in Nat /\ r.committed_from \in Nat /\ r.committed \in Seq(Block)
      /\ r.provisional_gen \in Nat /\ r.provisional_from \in Nat
      /\ r.provisional \in Seq(Block)
      /\ r = FullReply(r.epoch, r.committed_from, r.committed, r.provisional_gen,
                       r.provisional_from, r.provisional)
    BY <1>3 DEF Full, FullReply
<1>5. /\ c.epoch \in Nat /\ c.committed_id \in Nat /\ c.provisional_gen \in Nat
      /\ c.provisional_index \in Nat
      /\ c = CursorOf(c.epoch, c.committed_id, c.provisional_gen, c.provisional_index)
    BY <1>2 DEF Cursor, CursorOf
<1>6. page' = [page EXCEPT ![p] = pg]
    BY DEF Apply
<1>7. n.records \in Seq(Block) /\ n.cursor \in Cursor
    <2> HIDE DEF c, r, rs
    <2> QED
        BY <1>2, <1>4, <1>5, ReduceType
<1>8. PageType(pg) /\ pg.stage = "idle" /\ pg.cursor = n.cursor /\ pg.records = n.records
    <2> HIDE DEF n
    <2> QED
        BY <1>7 DEF PageType, Stage
<1>9. ASSUME faults = 0 PROVE PageAt(pg, committed, provisional, epoch, gen)
    <2>1. /\ CursorAt(c, rs, committed, provisional, epoch, gen)
          /\ FullAt(c, r, committed, provisional, epoch, gen)
        BY <1>1, <1>9 DEF IInv, SyncInv, PageAt
    <2>2. /\ LogAt(c, r.epoch, r.provisional_gen, r.committed_from, r.committed,
                   r.provisional_from, committed, epoch, gen)
          /\ OpenAt(r.epoch, r.provisional_gen, r.provisional_from, r.provisional,
                    provisional, epoch, gen)
        BY <2>1 DEF FullAt
    <2>3. committed \in Seq(Block) /\ provisional \in Seq(Block) /\ epoch \in Nat /\ gen \in Nat
        BY <1>1 DEF TypeInv
    <2>4. CursorAt(n.cursor, n.records, committed, provisional, epoch, gen)
        <3> HIDE DEF c, r, rs
        <3>1. PICK ce \in Nat, cid \in Nat, cg \in Nat, ci \in Nat :
                c = CursorOf(ce, cid, cg, ci)
            BY <1>5
        <3>2. PICK re \in Nat, cf \in Nat, cs \in Seq(Block), rg \in Nat, pf \in Nat, ps \in Seq(Block) :
                /\ r = FullReply(re, cf, cs, rg, pf, ps)
                /\ r.epoch = re /\ r.committed_from = cf /\ r.committed = cs
                /\ r.provisional_gen = rg /\ r.provisional_from = pf /\ r.provisional = ps
            BY <1>4
        <3>3. /\ CursorAt(CursorOf(ce, cid, cg, ci), rs, committed, provisional, epoch, gen)
              /\ LogAt(CursorOf(ce, cid, cg, ci), re, rg, cf, cs, pf, committed, epoch, gen)
              /\ OpenAt(re, rg, pf, ps, provisional, epoch, gen)
            BY <2>1, <2>2, <3>1, <3>2
        <3> DEFINE m == ReducePull(rs, CursorOf(ce, cid, cg, ci),
                                   FullReply(re, cf, cs, rg, pf, ps))
        <3>4. CursorAt(m.cursor, m.records, committed, provisional, epoch, gen)
            BY <1>2, <2>3, <3>3, ReduceSound
        <3>5. m = n
            BY <3>1, <3>2
        <3> QED
            BY <3>4, <3>5
    <2> HIDE DEF pg, n
    <2> QED
        BY <1>8, <2>4 DEF PageAt
<1>10. /\ rendered' \in SUBSET Entry
       /\ faults = 0 => \A entry \in rendered' : EntryAt(entry, provisional, epoch, gen)
       /\ UNCHANGED session /\ faults' = faults /\ ticks' \in Nat /\ lost' \in Nat
    BY <1>1 DEF IInv, SyncInv, TypeInv, Apply
<1> HIDE DEF pg
<1> QED
    BY <1>6, <1>8, <1>9, <1>10, PageOnly

(* The page as it opens: sound because no session has its epoch. *)
LEMMA FreshPageSound ==
    /\ PageType(FreshPage)
    /\ \A cm, pv, g : \A e \in Nat : e >= 1 => PageAt(FreshPage, cm, pv, e, g)
<1>1. FreshPage.stage = "idle" /\ FreshPage.records = <<>> /\ FreshPage.cursor = FreshCursor
    BY DEF FreshPage
<1>2. PageType(FreshPage)
    BY DEF FreshPage, FreshCursor, PageType, Stage, Cursor
<1>3. ASSUME NEW cm, NEW pv, NEW g, NEW e \in Nat, e >= 1
      PROVE  CursorAt(FreshCursor, <<>>, cm, pv, e, g)
    BY <1>3 DEF CursorAt, FreshCursor
<1> QED
    BY <1>1, <1>2, <1>3 DEF PageAt

-----------------------------------------------------------------------------
(* The inductive invariant holds initially and every step keeps it.        *)

(* A session just opened, with no page that knows it. *)
LEMMA InitInv == Init => IInv
<1> SUFFICES ASSUME Init PROVE IInv
    OBVIOUS
<1>1. TypeInv
    BY FreshPageSound DEF Init, TypeInv
<1>2. SyncInv
    BY FreshPageSound DEF Init, SyncInv
<1> QED
    BY <1>1, <1>2 DEF IInv

(* Every tick and every step of a page's request keeps the invariant. *)
LEMMA NextInv == IInv /\ [Next]_vars => IInv'
<1> SUFFICES ASSUME IInv, [Next]_vars PROVE IInv'
    OBVIOUS
<1>0. /\ TypeInv /\ ticks \in Nat /\ lost \in Nat /\ DOMAIN page = Page
      /\ \A q \in Page : page[q] = [page[q] EXCEPT !.reply = page[q].reply]
    BY DEF IInv, TypeInv, PageType
<1>1. CASE Advance
    BY <1>0, <1>1, TickStep DEF Advance, SameOrAsked
<1>2. ASSUME NEW p \in Page, PageAdvance(p) PROVE IInv'
    <2>1. CASE TickIdle /\ UNCHANGED <<ticks, faults>>
        <3>1. page' = [page EXCEPT ![p].stage = "count", ![p].reply = page[p].reply]
            BY <1>0, <1>2 DEF PageAdvance, TypeInv, PageType
        <3>2. UNCHANGED session /\ rendered' = rendered /\ faults' = faults
            BY <1>2, <2>1 DEF PageAdvance, TickIdle
        <3>3. ticks' \in Nat /\ lost' \in Nat
            BY <1>0, <1>2, <2>1 DEF PageAdvance
        <3> QED
            BY <3>1, <3>2, <3>3, StageOnly
    <2>2. CASE ticks' = ticks + 1 /\ SomeTick
        <3>1. ticks' \in Nat /\ lost' \in Nat /\ rendered' = rendered /\ DOMAIN page' = Page
            BY <1>0, <1>2, <2>2 DEF PageAdvance
        <3>2. \A q \in Page : SameOrAsked(page[q], page'[q])
            BY <1>0, <1>2 DEF PageAdvance, SameOrAsked
        <3> QED
            BY <2>2, <3>1, <3>2, TickStep
    <2> QED
        BY <1>2, <2>1, <2>2 DEF PageAdvance, AdvanceStep
<1>3. ASSUME NEW p \in Page, CountIdle(p) PROVE IInv'
    BY <1>3, CountIdleStep
<1>4. ASSUME NEW p \in Page, CountBusy(p) PROVE IInv'
    <2>1. page' = [page EXCEPT ![p].stage = "serve", ![p].reply = page[p].reply]
        BY <1>0, <1>4 DEF CountBusy, TypeInv, PageType
    <2>2. /\ UNCHANGED session /\ rendered' = rendered /\ faults' = faults
          /\ ticks' \in Nat /\ lost' \in Nat
        BY <1>0, <1>4 DEF CountBusy
    <2> QED
        BY <2>1, <2>2, StageOnly
<1>5. ASSUME NEW p \in Page, ServeDelta(p) PROVE IInv'
    BY <1>5, ServeDeltaStep
<1>6. ASSUME NEW p \in Page, Render(p) PROVE IInv'
    BY <1>6, RenderStep
<1>7. ASSUME NEW p \in Page, FetchRecords(p) PROVE IInv'
    BY <1>7, FetchRecordsStep
<1>8. ASSUME NEW p \in Page, FetchStale(p) \/ Lose(p) PROVE IInv'
    <2>1. page' = [page EXCEPT ![p].stage = "idle", ![p].reply = NoReply]
        BY <1>8 DEF FetchStale, Lose
    <2>2. /\ UNCHANGED session /\ rendered' = rendered /\ faults' = faults
          /\ ticks' \in Nat /\ lost' \in Nat
        BY <1>0, <1>8 DEF FetchStale, Lose
    <2> QED
        BY <2>1, <2>2, StageOnly
<1>9. ASSUME NEW p \in Page, Apply(p) PROVE IInv'
    BY <1>9, ApplyStep
<1>10. ASSUME NEW p \in Page, Reload(p) PROVE IInv'
    <2>1. /\ page' = [page EXCEPT ![p] = FreshPage]
          /\ UNCHANGED session /\ rendered' = rendered /\ faults' = faults
          /\ ticks' \in Nat /\ lost' \in Nat
        BY <1>0, <1>10 DEF Reload
    <2>2. /\ faults = 0 => PageAt(FreshPage, committed, provisional, epoch, gen)
          /\ faults = 0 => \A entry \in rendered' : EntryAt(entry, provisional, epoch, gen)
          /\ rendered' \in SUBSET Entry
        BY <1>0, <2>1, FreshPageSound DEF IInv, SyncInv, TypeInv
    <2> QED
        BY <2>1, <2>2, FreshPageSound, PageOnly
<1>11. CASE UNCHANGED vars
    BY <1>11 DEF vars, session, IInv, TypeInv, SyncInv
<1> QED
    BY <1>1, <1>2, <1>3, <1>4, <1>5, <1>6, <1>7, <1>8, <1>9, <1>10, <1>11
       DEF Next, PageStep

(* The inductive invariant holds in every behaviour. *)
LEMMA Invariance == Spec => []IInv
BY InitInv, NextInv, PTL DEF Spec

-----------------------------------------------------------------------------
(* The theorems.                                                           *)

(* Type correctness: whatever the session does, faults included, the pages'
   lists are lists of blocks and their cursors natural numbers. *)
THEOREM TypeCorrect == Spec => []TypeOK
<1>1. IInv => TypeOK
    BY DEF IInv, TypeInv, PageType, TypeOK, Entry
<1> QED
    BY <1>1, Invariance, PTL

(* Every page's cursor is sound: within an epoch the page holds a prefix of the
   committed blocks, and within a generation a prefix of the open turn
   (pull_indices and reducePull, for any number of pages and requests under
   way). *)
THEOREM CursorSoundness == Spec => []CursorSound
<1>1. IInv => CursorSound
    BY DEF IInv, SyncInv, PageAt, CursorAt, CursorSound, CursorSoundFor
<1> QED
    BY <1>1, Invariance, PTL

(* A page of the current generation is never told "nothing new" while it
   misses something (the idle fast path of the /pull handler). *)
THEOREM NothingMissed == Spec => []UpToDate
<1>1. IInv => UpToDate
    <2> SUFFICES ASSUME IInv, faults = 0, NEW p \in Page,
                        NothingFor(page[p].cursor), page[p].cursor.provisional_gen = gen
                 PROVE  page[p].records = Display
        BY DEF UpToDate
    <2> DEFINE c == page[p].cursor
               rs == page[p].records
    <2>1. /\ prev = provisional
          /\ CursorAt(c, rs, committed, provisional, epoch, gen)
        BY DEF IInv, SyncInv, PageAt
    <2>2. /\ c \in Cursor /\ rs \in Seq(Block)
          /\ committed \in Seq(Block) /\ provisional \in Seq(Block)
        BY DEF IInv, TypeInv, PageType
    <2>3. /\ c.epoch = epoch /\ c.provisional_gen = gen
          /\ ProvisionalFrom(epoch, Len(committed), Len(provisional), gen, c) = Len(provisional)
        BY <2>1 DEF NothingFor
    <2> HIDE DEF c, rs
    <2>4. c.committed_id = Len(committed) /\ c.provisional_index = Len(provisional)
        BY <2>1, <2>2, <2>3 DEF ProvisionalFrom, Min2, Cursor, CursorAt
    <2>5. /\ Len(rs) = Len(committed) + Len(provisional)
          /\ \A i \in 1..Len(committed) : rs[i] = committed[i]
          /\ \A i \in 1..Len(provisional) : rs[Len(committed) + i] = provisional[i]
        BY <2>1, <2>3, <2>4 DEF CursorAt
    <2> QED
        BY <2>2, <2>5, TwoParts DEF Display, rs
<1> QED
    BY <1>1, Invariance, PTL

(* The browser's reducer and the Rust client, PullClient::apply, take the reply
   of every request to the same list and the same cursor. *)
THEOREM ReducersMatchAlways == Spec => []ReducersAgree
<1>1. IInv => ReducersAgree
    <2> SUFFICES ASSUME IInv, faults = 0, NEW p \in Page, page[p].stage = "apply"
                 PROVE  SamePage(ReducePull(page[p].records, page[p].cursor, page[p].reply),
                                 PullClientApply(AsPullClient(page[p]), page[p].reply))
        BY DEF ReducersAgree, SamePage
    <2>1. /\ PageType(page[p])
          /\ CursorAt(page[p].cursor, page[p].records, committed, provisional, epoch, gen)
          /\ FullAt(page[p].cursor, page[p].reply, committed, provisional, epoch, gen)
        BY DEF IInv, TypeInv, SyncInv, PageAt
    <2>2. PICK rs \in Seq(Block), ce \in Nat, cid \in Nat, cg \in Nat, ci \in Nat :
            page[p].records = rs /\ page[p].cursor = CursorOf(ce, cid, cg, ci)
        BY <2>1 DEF PageType, Cursor, CursorOf
    <2>3. PICK re \in Nat, cf \in Nat, cs \in Seq(Block), rg \in Nat, pf \in Nat, ps \in Seq(Block) :
            page[p].reply = FullReply(re, cf, cs, rg, pf, ps)
        BY <2>1 DEF PageType, Full, FullReply
    <2>4. /\ CursorAt(CursorOf(ce, cid, cg, ci), rs, committed, provisional, epoch, gen)
          /\ LogAt(CursorOf(ce, cid, cg, ci), re, rg, cf, cs, pf, committed, epoch, gen)
        BY <2>1, <2>2, <2>3 DEF FullAt, FullReply
    <2>5. Len(rs) = cid + ci /\ Fits(ce, cid, ci, re, cf, cs, pf)
        BY <2>4 DEF CursorAt, LogAt, RangeAt, SuffixFor, CursorOf, Fits
    <2>6. AsPullClient(page[p]) =
            [committed |-> SubSeq(rs, 1, cid), provisional |-> SubSeq(rs, cid + 1, Len(rs)),
             cursor |-> CursorOf(ce, cid, cg, ci)]
        BY <2>2 DEF AsPullClient, CursorOf
    <2>7. SamePage(ReducePull(rs, CursorOf(ce, cid, cg, ci), FullReply(re, cf, cs, rg, pf, ps)),
                   PullClientApply([committed |-> SubSeq(rs, 1, cid),
                                    provisional |-> SubSeq(rs, cid + 1, Len(rs)),
                                    cursor |-> CursorOf(ce, cid, cg, ci)],
                                   FullReply(re, cf, cs, rg, pf, ps)))
        BY <2>5, ReducersMatch
    <2> QED
        BY <2>2, <2>3, <2>6, <2>7
<1> QED
    BY <1>1, Invariance, PTL

(* An equal key means identical records: the cached rendering is the open turn
   whenever its key is the current one (ServeAux.prov_render). *)
THEOREM RenderCache == Spec => []RenderCacheSound
<1>1. IInv => RenderCacheSound
    <2> SUFFICES ASSUME IInv, faults = 0, NEW entry \in rendered,
                        entry.key = <<epoch, gen, Len(provisional)>>
                 PROVE  entry.lines = provisional
        BY DEF RenderCacheSound
    <2>1. entry \in Entry /\ EntryAt(entry, provisional, epoch, gen)
        BY DEF IInv, SyncInv, TypeInv
    <2>2. entry.lines \in Seq(Block) /\ provisional \in Seq(Block)
        BY <2>1 DEF Entry, IInv, TypeInv
    <2>3. PICK ls \in Seq(Block) : ls = entry.lines
        BY <2>2
    <2>4. /\ Len(ls) = Len(provisional)
          /\ OpenAt(epoch, gen, 0, ls, provisional, epoch, gen)
        BY <2>1, <2>3 DEF EntryAt
    <2>5. \A i \in 1..Len(ls) : ls[i] = provisional[i]
        BY <2>2, <2>4 DEF OpenAt
    <2>6. ls = provisional
        BY <2>2, <2>4, <2>5
    <2> QED
        BY <2>3, <2>6
<1> QED
    BY <1>1, Invariance, PTL

\* Page `new` keeps the committed records of page `old` that are of its epoch.
Keeps(old, new) ==
    old.cursor.epoch = new.cursor.epoch =>
        /\ old.cursor.committed_id <= new.cursor.committed_id
        /\ new.cursor.committed_id <= Len(new.records)
        /\ \A i \in 1..old.cursor.committed_id : new.records[i] = old.records[i]

(* A page that applies a reply keeps the committed records it has. *)
LEMMA ApplyKeeps ==
    ASSUME IInv, faults = 0, NEW p \in Page, Apply(p)
    PROVE  Keeps(page[p], page'[p])
<1>1. /\ PageType(page[p]) /\ page[p].stage = "apply" /\ DOMAIN page = Page
      /\ CursorAt(page[p].cursor, page[p].records, committed, provisional, epoch, gen)
      /\ FullAt(page[p].cursor, page[p].reply, committed, provisional, epoch, gen)
    BY DEF IInv, TypeInv, SyncInv, PageAt, Apply
<1>2. PICK rs \in Seq(Block), ce \in Nat, cid \in Nat, cg \in Nat, ci \in Nat :
        page[p].records = rs /\ page[p].cursor = CursorOf(ce, cid, cg, ci)
    BY <1>1 DEF PageType, Cursor, CursorOf
<1>3. PICK re \in Nat, cf \in Nat, cs \in Seq(Block), rg \in Nat, pf \in Nat, ps \in Seq(Block) :
        page[p].reply = FullReply(re, cf, cs, rg, pf, ps)
    BY <1>1 DEF PageType, Full, FullReply
<1> DEFINE c == CursorOf(ce, cid, cg, ci)
           n == ReducePull(rs, c, FullReply(re, cf, cs, rg, pf, ps))
<1>4. CursorAt(c, rs, committed, provisional, epoch, gen)
      /\ LogAt(c, re, rg, cf, cs, pf, committed, epoch, gen)
    BY <1>1, <1>2, <1>3 DEF FullAt, FullReply
<1>5. Len(rs) = cid + ci /\ Fits(ce, cid, ci, re, cf, cs, pf)
    BY <1>4 DEF CursorAt, LogAt, RangeAt, SuffixFor, CursorOf, Fits
<1>6. page'[p].records = n.records /\ page'[p].cursor = n.cursor
    BY <1>1, <1>2, <1>3 DEF Apply
<1>7. c.epoch = ce /\ c.committed_id = cid
    BY DEF CursorOf
<1>8. CASE re = ce /\ cs = <<>> /\ ps = <<>>
    <2>1. n.records = rs /\ n.cursor = c
        BY <1>8 DEF ReducePull, CursorOf, FullReply
    <2> HIDE DEF n, c
    <2> QED
        BY <1>2, <1>5, <1>6, <1>7, <2>1 DEF Keeps, c
<1>9. CASE ~(re = ce /\ cs = <<>> /\ ps = <<>>)
    <2>1. Reduced(n, rs, cid, re, cf, cs, rg, pf, ps)
        BY <1>5, <1>9, ReduceList
    <2> HIDE DEF n
    <2>2. /\ n.cursor.epoch = re /\ n.cursor.committed_id = cf + Len(cs)
          /\ Len(n.records) = cf + Len(cs) + (pf + Len(ps))
          /\ \A i \in 1..cf : n.records[i] = rs[i]
        BY <2>1 DEF Reduced, CursorOf
    <2>3. re = ce => cf = cid
        BY <1>5 DEF Fits
    <2> QED
        BY <1>2, <1>6, <1>7, <2>2, <2>3 DEF Keeps
<1> QED
    BY <1>8, <1>9

(* Within an epoch a page only ever appends to the committed records it holds:
   no reply, late, lost or stale, and no reload takes one away (reducePull). *)
THEOREM CommittedOnlyGrows == Spec => CommittedKept
<1>1. ASSUME IInv, [Next]_vars, faults' = 0, NEW q \in Page
      PROVE  Keeps(page[q], page'[q])
    <2>1. faults = 0
        <3>1. faults \in Nat
            BY <1>1 DEF IInv, TypeInv
        <3>2. faults' = faults \/ faults' = faults + 1
            BY <1>1 DEF Next, PageStep, Advance, PageAdvance, AdvanceStep, SomeTick, CountIdle,
                        CountBusy, ServeDelta, Render, FetchRecords, FetchStale, Apply, Lose,
                        Reload, vars
        <3> QED
            BY <1>1, <3>1, <3>2
    <2>2. /\ PageType(page[q]) /\ DOMAIN page = Page /\ epoch >= 1
          /\ CursorAt(page[q].cursor, page[q].records, committed, provisional, epoch, gen)
        BY <1>1, <2>1 DEF IInv, TypeInv, SyncInv, PageAt
    <2>3. /\ page[q].records \in Seq(Block) /\ page[q].cursor \in Cursor
          /\ Len(page[q].records) = page[q].cursor.committed_id + page[q].cursor.provisional_index
          /\ page[q].cursor.epoch = 0 => page[q].cursor.committed_id = 0
        BY <2>2 DEF PageType, CursorAt
    <2>4. ASSUME page'[q].records = page[q].records, page'[q].cursor = page[q].cursor
          PROVE  Keeps(page[q], page'[q])
        BY <2>3, <2>4 DEF Keeps, Cursor
    <2>5. ASSUME NEW p \in Page, Apply(p) PROVE Keeps(page[q], page'[q])
        <3>1. CASE p = q
            BY <1>1, <2>1, <2>5, <3>1, ApplyKeeps
        <3>2. CASE p # q
            BY <2>2, <2>4, <2>5, <3>2 DEF Apply
        <3> QED
            BY <3>1, <3>2
    <2>6. ASSUME NEW p \in Page, Reload(p) PROVE Keeps(page[q], page'[q])
        <3>1. CASE p = q
            <4>1. page'[q] = FreshPage
                BY <2>2, <2>6, <3>1 DEF Reload
            <4>2. page'[q].cursor.epoch = 0 /\ page'[q].cursor.committed_id = 0 /\ page'[q].records = <<>>
                BY <4>1 DEF FreshPage, FreshCursor
            <4> QED
                BY <2>3, <4>2 DEF Keeps
        <3>2. CASE p # q
            BY <2>2, <2>4, <2>6, <3>2 DEF Reload
        <3> QED
            BY <3>1, <3>2
    <2>7. ASSUME NEW p \in Page,
                 \/ PageAdvance(p) \/ CountIdle(p) \/ CountBusy(p) \/ ServeDelta(p) \/ Render(p)
                 \/ FetchRecords(p) \/ FetchStale(p) \/ Lose(p)
          PROVE  Keeps(page[q], page'[q])
        <3>1. PICK stage, reply : page' = [page EXCEPT ![p].stage = stage, ![p].reply = reply]
            <4>1. CASE PageAdvance(p) \/ CountBusy(p)
                <5>1. PICK stage : page' = [page EXCEPT ![p].stage = stage]
                    BY <4>1 DEF PageAdvance, CountBusy
                <5>2. PageType(page[p])
                    BY <1>1 DEF IInv, TypeInv
                <5>3. page' = [page EXCEPT ![p].stage = stage, ![p].reply = page[p].reply]
                    BY <2>2, <5>1, <5>2 DEF PageType
                <5> QED
                    BY <5>3
            <4>2. CASE CountIdle(p)
                BY <4>2 DEF CountIdle
            <4>3. CASE ServeDelta(p)
                BY <4>3 DEF ServeDelta
            <4>4. CASE Render(p)
                BY <4>4 DEF Render
            <4>5. CASE FetchRecords(p)
                BY <4>5 DEF FetchRecords
            <4>6. CASE FetchStale(p) \/ Lose(p)
                BY <4>6 DEF FetchStale, Lose
            <4> QED
                BY <2>7, <4>1, <4>2, <4>3, <4>4, <4>5, <4>6
        <3>2. page'[q].records = page[q].records /\ page'[q].cursor = page[q].cursor
            BY <2>2, <3>1
        <3> QED
            BY <2>4, <3>2
    <2>8. CASE Advance \/ UNCHANGED vars
        BY <2>4, <2>8 DEF Advance, vars
    <2> QED
        BY <1>1, <2>5, <2>6, <2>7, <2>8 DEF Next, PageStep
<1>2. IInv /\ [Next]_vars =>
        [faults' = 0 => \A p \in Page :
            LET old == page[p]
                new == page'[p]
            IN  old.cursor.epoch = new.cursor.epoch =>
                /\ old.cursor.committed_id <= new.cursor.committed_id
                /\ new.cursor.committed_id <= Len(new.records)
                /\ \A i \in 1..old.cursor.committed_id :
                       new.records[i] = old.records[i]]_vars
    BY <1>1 DEF Keeps
<1> QED
    BY <1>2, Invariance, PTL DEF Spec, CommittedKept

-----------------------------------------------------------------------------
(***************************************************************************)
(* A page never shows a mixture, for any number of pages, any blocks and   *)
(* any bounds.                                                             *)
(*                                                                         *)
(* Above, a reply under way is related to the session as it is now.        *)
(* Here it is related to the one moment of the session it was cut          *)
(* at, which may be long gone: the invariant says that there is a set of   *)
(* moments, each leading on to the next, that contains the cut of every    *)
(* reply and of the cached rendering, and whose displays were all real.    *)
(***************************************************************************)

\* The session at one moment.
Moment == [cm : Seq(Block), pv : Seq(Block), e : Nat, g : Nat]

Now == [cm |-> committed, pv |-> provisional, e |-> epoch, g |-> gen]

\* From moment h the session may have come to moment k.
Leads(h, k) == Advances(h.cm, h.pv, h.e, h.g, k.cm, k.pv, k.e, k.g)

\* The reply of page pg was cut at moment h, down to the end of the open turn.
CutAt(pg, h) ==
    /\ PageAt(pg, h.cm, h.pv, h.e, h.g)
    /\ pg.reply.epoch = h.e /\ pg.reply.provisional_gen = h.g
    /\ pg.stage = "render" => Len(pg.reply.open) = Len(h.pv)
    /\ pg.stage \in {"fetch", "apply"} =>
           pg.reply.provisional_from + Len(pg.reply.provisional) = Len(h.pv)

Carries(pg) == pg.stage \in {"render", "fetch", "apply"}

\* The moments the session has been through.
Course(H) ==
    /\ H \subseteq Moment
    /\ \A h, k \in H : Leads(h, k) \/ Leads(k, h)
    /\ \A h \in H : Leads(h, Now)
    /\ \A h \in H : h.cm \o h.pv \in displays

\* Every page's reply, and the cached rendering, was cut at one of them.
Cuts(H) ==
    /\ \A p \in Page : Carries(page[p]) => \E h \in H : CutAt(page[p], h)
    /\ \A x \in rendered : \E h \in H : x.key = <<h.e, h.g, Len(h.pv)>> /\ x.lines = h.pv

Whole ==
    /\ <<>> \in displays
    /\ \A p \in Page : page[p].records \in displays

HInv ==
    /\ IInv
    /\ faults = 0 => Whole /\ \E H : Now \in H /\ Course(H) /\ Cuts(H)

-----------------------------------------------------------------------------
(* Moments.                                                                *)

(* A prefix of a prefix is a prefix. *)
LEMMA PrefixOn ==
    ASSUME NEW s \in Seq(Block), NEW t \in Seq(Block), NEW u \in Seq(Block),
           IsPrefixOf(s, t), IsPrefixOf(t, u)
    PROVE  IsPrefixOf(s, u)
<1>1. Len(s) <= Len(t) /\ Len(t) <= Len(u)
    BY DEF IsPrefixOf
<1>2. ASSUME NEW i \in 1..Len(s) PROVE s[i] = u[i]
    <2>1. i \in 1..Len(t)
        BY <1>1
    <2> QED
        BY <2>1 DEF IsPrefixOf
<1> QED
    BY <1>1, <1>2 DEF IsPrefixOf

(* What leads on to what leads on to a third moment leads on to that. *)
LEMMA LeadsOn ==
    ASSUME NEW h \in Moment, NEW k \in Moment, NEW m \in Moment, Leads(h, k), Leads(k, m)
    PROVE  Leads(h, m)
<1>1. /\ h.cm \in Seq(Block) /\ h.pv \in Seq(Block) /\ h.e \in Nat /\ h.g \in Nat
      /\ k.cm \in Seq(Block) /\ k.pv \in Seq(Block) /\ k.e \in Nat /\ k.g \in Nat
      /\ m.cm \in Seq(Block) /\ m.pv \in Seq(Block) /\ m.e \in Nat /\ m.g \in Nat
    BY DEF Moment
<1>2. /\ Advances(h.cm, h.pv, h.e, h.g, k.cm, k.pv, k.e, k.g)
      /\ Advances(k.cm, k.pv, k.e, k.g, m.cm, m.pv, m.e, m.g)
    BY DEF Leads
<1>3. h.e <= m.e /\ (h.e = m.e => h.e = k.e /\ k.e = m.e)
    BY <1>1, <1>2 DEF Advances
<1>4. ASSUME h.e = m.e
      PROVE  /\ h.g <= m.g /\ Len(h.cm) <= Len(m.cm)
             /\ \A i \in 1..Len(h.cm) : m.cm[i] = h.cm[i]
             /\ h.g = m.g => m.cm = h.cm /\ IsPrefixOf(h.pv, m.pv)
    <2>1. /\ h.g <= k.g /\ k.g <= m.g
          /\ Len(h.cm) <= Len(k.cm) /\ Len(k.cm) <= Len(m.cm)
          /\ \A i \in 1..Len(h.cm) : k.cm[i] = h.cm[i]
          /\ \A i \in 1..Len(k.cm) : m.cm[i] = k.cm[i]
          /\ h.g = k.g => k.cm = h.cm /\ IsPrefixOf(h.pv, k.pv)
          /\ k.g = m.g => m.cm = k.cm /\ IsPrefixOf(k.pv, m.pv)
        BY <1>2, <1>3, <1>4 DEF Advances
    <2>2. h.g <= m.g /\ (h.g = m.g => h.g = k.g /\ k.g = m.g) /\ Len(h.cm) <= Len(m.cm)
        BY <1>1, <2>1
    <2>3. \A i \in 1..Len(h.cm) : m.cm[i] = h.cm[i]
        BY <1>1, <2>1
    <2>4. IsPrefixOf(h.pv, k.pv) /\ IsPrefixOf(k.pv, m.pv) => IsPrefixOf(h.pv, m.pv)
        BY <1>1, PrefixOn
    <2> QED
        BY <2>1, <2>2, <2>3, <2>4
<1> QED
    BY <1>3, <1>4 DEF Leads, Advances

(* Two moments of one generation whose open turns are as long have the same
   open turn: this is why (epoch, gen, length) is a key. *)
LEMMA KeyIsEnough ==
    ASSUME NEW h \in Moment, NEW k \in Moment, Leads(h, k) \/ Leads(k, h),
           h.e = k.e, h.g = k.g, Len(h.pv) = Len(k.pv)
    PROVE  h.pv = k.pv
<1>1. h.pv \in Seq(Block) /\ k.pv \in Seq(Block)
    BY DEF Moment
<1>2. \A i \in 1..Len(h.pv) : h.pv[i] = k.pv[i]
    BY DEF Leads, Advances, IsPrefixOf
<1> QED
    BY <1>1, <1>2, SeqEqual

(* The moment it is now is a moment, and leads to itself. *)
LEMMA NowIsMoment ==
    ASSUME TypeInv
    PROVE  /\ Now \in Moment /\ Leads(Now, Now)
           /\ Now.cm = committed /\ Now.pv = provisional /\ Now.e = epoch /\ Now.g = gen
<1>1. /\ committed \in Seq(Block) /\ provisional \in Seq(Block) /\ epoch \in Nat /\ gen \in Nat
    BY DEF TypeInv
<1>2. /\ Now.cm = committed /\ Now.pv = provisional /\ Now.e = epoch /\ Now.g = gen
      /\ Now \in Moment
    BY <1>1 DEF Now, Moment
<1> QED
    BY <1>1, <1>2, RestAdvances DEF Leads

-----------------------------------------------------------------------------
(* Steps of the session, and steps that leave it alone.                    *)

(* A tick: the course gains the moment it leads to. *)
LEMMA TickWhole ==
    ASSUME HInv, IInv', faults' = 0, SomeTick, rendered' = rendered,
           DOMAIN page' = Page, \A q \in Page : SameOrAsked(page[q], page'[q]),
           displays' = displays \cup {(Display)'}
    PROVE  HInv'
<1>1. TypeInv /\ TypeInv' /\ faults \in Nat
    BY DEF HInv, IInv, TypeInv
<1>2. PICK reset \in BOOLEAN, patched \in BOOLEAN, fresh \in UpTo(MaxFresh), open \in UpTo(MaxOpen) :
        Tick(reset, patched, fresh, open) /\ faults' = faults
    BY <1>1 DEF SomeTick
<1>3. fresh \in Seq(Block) /\ open \in Seq(Block)
    BY UpToSeq, BoundsAssumption
<1>4. SyncInv /\ Whole
    BY <1>2 DEF HInv, IInv
<1>5. PICK H : Now \in H /\ Course(H) /\ Cuts(H)
    BY <1>2 DEF HInv
<1>6. Advances(committed, provisional, epoch, gen, committed', provisional', epoch', gen')
    BY <1>1, <1>2, <1>3, <1>4, TickAdvances
<1>7. /\ Now \in Moment
      /\ Now.cm = committed /\ Now.pv = provisional /\ Now.e = epoch /\ Now.g = gen
    BY <1>1, NowIsMoment
<1>8. /\ Now' \in Moment /\ Leads(Now', Now')
      /\ Now'.cm = committed' /\ Now'.pv = provisional' /\ Now'.e = epoch' /\ Now'.g = gen'
    <2>1. /\ committed' \in Seq(Block) /\ provisional' \in Seq(Block) /\ epoch' \in Nat /\ gen' \in Nat
        BY <1>1 DEF TypeInv
    <2>2. /\ Now'.cm = committed' /\ Now'.pv = provisional' /\ Now'.e = epoch' /\ Now'.g = gen'
          /\ Now' \in Moment
        BY <2>1 DEF Now, Moment
    <2> QED
        BY <2>1, <2>2, RestAdvances DEF Leads
<1>9. Leads(Now, Now')
    BY <1>6, <1>7, <1>8 DEF Leads
<1>0. PICK K : K = H \cup {Now'}
    OBVIOUS
<1>10. \A h \in K : Leads(h, Now')
    <2>1. \A h \in H : h \in Moment /\ Leads(h, Now)
        BY <1>5 DEF Course
    <2> QED
        BY <1>0, <1>7, <1>8, <1>9, <2>1, LeadsOn
<1>11. Course(K)'
    <2>1. K \subseteq Moment
        BY <1>0, <1>5, <1>8 DEF Course
    <2>2. ASSUME NEW h \in K, NEW k \in K PROVE Leads(h, k) \/ Leads(k, h)
        <3>1. h \in H /\ k \in H => Leads(h, k) \/ Leads(k, h)
            BY <1>5 DEF Course
        <3> QED
            BY <1>0, <1>10, <2>2, <3>1
    <2>3. \A h \in K : h.cm \o h.pv \in displays'
        BY <1>0, <1>5, <1>8 DEF Course, Display
    <2>4. /\ K \subseteq Moment
          /\ \A h, k \in K : Leads(h, k) \/ Leads(k, h)
          /\ \A h \in K : Leads(h, Now')
          /\ \A h \in K : h.cm \o h.pv \in displays'
        BY <1>10, <2>1, <2>2, <2>3
    <2> QED
        BY <2>4 DEF Course, Leads
<1>12. Cuts(K)'
    <2>1. ASSUME NEW p \in Page, Carries(page'[p]) PROVE \E h \in K : CutAt(page'[p], h)
        <3>1. page'[p] = page[p]
            <4>1. PageType(page[p])
                BY <1>1 DEF TypeInv
            <4> QED
                BY <2>1, <4>1 DEF SameOrAsked, Carries, PageType
        <3> QED
            BY <1>0, <1>5, <2>1, <3>1 DEF Cuts
    <2>2. \A x \in rendered' : \E h \in K : x.key = <<h.e, h.g, Len(h.pv)>> /\ x.lines = h.pv
        BY <1>0, <1>5 DEF Cuts
    <2> QED
        BY <2>1, <2>2 DEF Cuts, Carries, CutAt
<1>13. Whole'
    <2>1. ASSUME NEW p \in Page PROVE page'[p].records = page[p].records
        <3>1. PageType(page[p]) /\ SameOrAsked(page[p], page'[p])
            BY <1>1 DEF TypeInv
        <3> QED
            BY <3>1 DEF PageType, SameOrAsked
    <2> QED
        BY <1>4, <2>1 DEF Whole
<1>14. Now' \in K
    BY <1>0
<1> QED
    BY <1>11, <1>12, <1>13, <1>14 DEF HInv

(* A step that gives page p a new state and leaves the session alone: the new
   list must be a display, and the new reply and renderings cut on the course. *)
LEMMA PageWhole ==
    ASSUME HInv, IInv', NEW p \in Page, NEW pg,
           page' = [page EXCEPT ![p] = pg],
           UNCHANGED session, faults' = faults, displays' = displays \cup {(Display)'},
           \A H : faults = 0 /\ Now \in H /\ Course(H) /\ Cuts(H) =>
               /\ pg.records \in displays
               /\ Carries(pg) => \E h \in H : CutAt(pg, h)
               /\ \A x \in rendered' :
                      \E h \in H : x.key = <<h.e, h.g, Len(h.pv)>> /\ x.lines = h.pv
    PROVE  HInv'
<1> SUFFICES ASSUME faults = 0
             PROVE  Whole' /\ \E H : Now' \in H /\ Course(H)' /\ Cuts(H)'
    BY DEF HInv
<1>1. PICK H : Now \in H /\ Course(H) /\ Cuts(H)
    BY DEF HInv
<1>2. Whole /\ DOMAIN page = Page
    BY DEF HInv, IInv, TypeInv
<1>3. /\ page'[p] = pg
      /\ \A q \in Page : q # p => page'[q] = page[q]
    BY <1>2
<1>4. /\ pg.records \in displays
      /\ Carries(pg) => \E h \in H : CutAt(pg, h)
      /\ \A x \in rendered' : \E h \in H : x.key = <<h.e, h.g, Len(h.pv)>> /\ x.lines = h.pv
    BY <1>1
<1>5. Whole'
    BY <1>2, <1>3, <1>4 DEF Whole
<1>6. Now' = Now
    BY DEF Now, session
<1>7. Course(H)'
    <2>1. /\ H \subseteq Moment
          /\ \A h, k \in H : Leads(h, k) \/ Leads(k, h)
          /\ \A h \in H : Leads(h, Now')
          /\ \A h \in H : h.cm \o h.pv \in displays'
        BY <1>1, <1>6 DEF Course
    <2> QED
        BY <2>1 DEF Course, Leads
<1>8. Cuts(H)'
    <2>1. \A q \in Page : Carries(page'[q]) => \E h \in H : CutAt(page'[q], h)
        BY <1>1, <1>3, <1>4 DEF Cuts
    <2> QED
        BY <1>4, <2>1 DEF Cuts, Carries, CutAt
<1> QED
    BY <1>1, <1>5, <1>6, <1>7, <1>8

-----------------------------------------------------------------------------
(* The steps of one page.                                                  *)

\* A step of PullHistory in which only page p changes, to pg.
Turns(p, pg) ==
    /\ page' = [page EXCEPT ![p] = pg]
    /\ UNCHANGED session /\ faults' = faults
    /\ displays' = displays \cup {(Display)'}

(* Begin, refuse, lose or end a request: there is no reply any more. *)
LEMMA StageWhole ==
    ASSUME HInv, IInv', NEW p \in Page, NEW pg, Turns(p, pg), rendered' = rendered,
           pg.records = page[p].records, pg.stage \in {"idle", "count", "serve"}
    PROVE  HInv'
<1>1. faults = 0 => page[p].records \in displays
    BY DEF HInv, Whole
<1>2. ~Carries(pg)
    BY DEF Carries
<1>3. \A H : faults = 0 /\ Now \in H /\ Course(H) /\ Cuts(H) =>
               /\ pg.records \in displays
               /\ Carries(pg) => \E h \in H : CutAt(pg, h)
               /\ \A x \in rendered' :
                      \E h \in H : x.key = <<h.e, h.g, Len(h.pv)>> /\ x.lines = h.pv
    BY <1>1, <1>2 DEF Cuts
<1> QED
    BY <1>3, PageWhole DEF Turns

(* The empty reply and the delta are cut now. *)
LEMMA CutNow ==
    ASSUME HInv, IInv', NEW p \in Page, NEW pg, Turns(p, pg), rendered' = rendered,
           pg.records = page[p].records,
           pg.reply.epoch = epoch, pg.reply.provisional_gen = gen,
           pg.stage = "render" => Len(pg.reply.open) = Len(provisional),
           pg.stage \in {"fetch", "apply"} =>
               (faults = 0 => pg.reply.provisional_from + Len(pg.reply.provisional) = Len(provisional))
    PROVE  HInv'
<1>1. faults = 0 => page[p].records \in displays
    BY DEF HInv, Whole
<1>2. faults = 0 => CutAt(pg, Now)
    <2> SUFFICES ASSUME faults = 0 PROVE CutAt(pg, Now)
        OBVIOUS
    <2>1. TypeInv /\ SyncInv'
        BY DEF HInv, IInv, Turns
    <2>2. page'[p] = pg
        BY <2>1 DEF TypeInv, Turns
    <2>3. PageAt(pg, committed, provisional, epoch, gen)
        BY <2>1, <2>2 DEF SyncInv, Turns, session
    <2>4. Now.cm = committed /\ Now.pv = provisional /\ Now.e = epoch /\ Now.g = gen
        BY <2>1, NowIsMoment
    <2> QED
        BY <2>3, <2>4 DEF CutAt
<1>3. \A H : faults = 0 /\ Now \in H /\ Course(H) /\ Cuts(H) =>
               /\ pg.records \in displays
               /\ Carries(pg) => \E h \in H : CutAt(pg, h)
               /\ \A x \in rendered' :
                      \E h \in H : x.key = <<h.e, h.g, Len(h.pv)>> /\ x.lines = h.pv
    BY <1>1, <1>2 DEF Cuts
<1> QED
    BY <1>3, PageWhole DEF Turns

(* The rendering of the reply's own open turn, fresh or out of the cache: the
   pointer is cut at the moment the delta was. *)
LEMMA RenderWhole ==
    ASSUME HInv, IInv', NEW p \in Page, Render(p), displays' = displays \cup {(Display)'}
    PROVE  HInv'
<1> DEFINE c == page[p].cursor
           r == page[p].reply
           key == <<r.epoch, r.provisional_gen, Len(r.open)>>
           hits == {e \in rendered : e.key = key}
           lines == IF hits = {} THEN r.open ELSE (CHOOSE e \in hits : TRUE).lines
           pf == ProvisionalFrom(r.epoch, r.to, Len(lines), r.provisional_gen, c)
           tail == SubSeq(lines, pf + 1, Len(lines))
           q == [stage |-> "pointer", epoch |-> r.epoch, from |-> r.from, to |-> r.to,
                 provisional_gen |-> r.provisional_gen,
                 provisional_from |-> pf, provisional |-> tail]
           pg == [page[p] EXCEPT !.stage = "fetch", !.reply = q]
<1>1. TypeInv /\ page[p].stage = "render" /\ PageType(page[p])
    BY DEF HInv, IInv, TypeInv, Render
<1>2. c \in Cursor /\ page[p].records \in Seq(Block) /\ r \in Delta
    BY <1>1 DEF PageType
<1>3. /\ r.epoch \in Nat /\ r.provisional_gen \in Nat /\ r.from \in Nat
      /\ r.to \in Nat /\ r.open \in Seq(Block)
    BY <1>2 DEF Delta
<1>4. Turns(p, pg) /\ rendered' = {[key |-> key, lines |-> lines]}
    BY DEF Render, Turns
<1>5. /\ pg.stage = "fetch" /\ pg.reply = q
      /\ pg.cursor = c /\ pg.records = page[p].records
    <2> HIDE DEF q
    <2> QED
        BY <1>1 DEF PageType
<1>6. ASSUME NEW H, faults = 0, Course(H), Cuts(H)
      PROVE  /\ \E h \in H : CutAt(pg, h)
             /\ \A x \in rendered' :
                    \E h \in H : x.key = <<h.e, h.g, Len(h.pv)>> /\ x.lines = h.pv
    <2>1. PICK h \in H : CutAt(page[p], h)
        BY <1>1, <1>6 DEF Cuts, Carries
    <2>2. /\ h \in Moment /\ h.pv \in Seq(Block)
          /\ r.epoch = h.e /\ r.provisional_gen = h.g /\ Len(r.open) = Len(h.pv)
          /\ CursorAt(c, page[p].records, h.cm, h.pv, h.e, h.g)
          /\ RangeAt(c, r.epoch, r.provisional_gen, r.from, r.to, h.cm, h.e, h.g)
          /\ OpenAt(r.epoch, r.provisional_gen, 0, r.open, h.pv, h.e, h.g)
        BY <1>1, <1>6, <2>1 DEF Course, Moment, CutAt, PageAt, DeltaAt
    <2>3. r.open = h.pv
        <3> HIDE DEF r
        <3>1. \A i \in 1..Len(r.open) : r.open[i] = h.pv[i]
            BY <1>3, <2>2 DEF OpenAt
        <3> QED
            BY <1>3, <2>2, <3>1, SeqEqual
    <2>4. key = <<h.e, h.g, Len(h.pv)>>
        BY <2>2
    <2>5. lines = h.pv
        <3>1. CASE hits = {}
            BY <2>3, <3>1
        <3>2. CASE hits # {}
            <4>1. PICK x \in rendered : x.key = key /\ x.lines = lines
                BY <3>2
            <4>2. PICK k \in H : x.key = <<k.e, k.g, Len(k.pv)>> /\ x.lines = k.pv
                BY <1>6, <4>1 DEF Cuts
            <4> HIDE DEF key, lines
            <4>3. k.e = h.e /\ k.g = h.g /\ Len(k.pv) = Len(h.pv)
                BY <2>4, <4>1, <4>2
            <4>4. k \in Moment /\ (Leads(h, k) \/ Leads(k, h))
                BY <1>6 DEF Course
            <4>5. k.pv = h.pv
                BY <2>2, <4>3, <4>4, KeyIsEnough
            <4> QED
                BY <4>1, <4>2, <4>5
        <3> QED
            BY <3>1, <3>2
    <2>6. \A x \in rendered' : \E k \in H : x.key = <<k.e, k.g, Len(k.pv)>> /\ x.lines = k.pv
        <3> HIDE DEF key, lines
        <3> QED
            BY <1>4, <2>4, <2>5
    <2>7. Len(lines) \in Nat /\ pf \in 0..Len(lines) /\ lines \in Seq(Block)
        <3> HIDE DEF lines
        <3>1. lines \in Seq(Block) /\ Len(lines) \in Nat
            BY <2>2, <2>5
        <3>2. pf \in Nat /\ pf <= Len(lines)
            BY <1>2, <1>3, <3>1, IndicesType
        <3> HIDE DEF pf
        <3> QED
            BY <3>1, <3>2
    <2>8. /\ OpenAt(r.epoch, r.provisional_gen, pf, tail, h.pv, h.e, h.g)
          /\ pf + Len(tail) = Len(h.pv)
        <3> HIDE DEF pf, lines, r
        <3>1. OpenAt(r.epoch, r.provisional_gen, 0, lines, h.pv, h.e, h.g)
            BY <2>2, <2>3, <2>5
        <3>2. Len(tail) = Len(lines) - pf
            BY <2>7
        <3>3. pf + Len(tail) = Len(lines)
            BY <2>7, <3>2
        <3> QED
            BY <2>5, <2>7, <3>1, <3>3, OpenSuffix
    <2>9. SuffixFor(c, r.epoch, r.provisional_gen, r.to, pf)
        <3> HIDE DEF lines
        <3> QED
            BY <1>2, <1>3, <2>7, ProvisionalFromSound
    <2>10. PointerAt(c, q, h.cm, h.pv, h.e, h.g)
        <3> HIDE DEF r, c, pf, tail, lines
        <3> QED
            BY <2>2, <2>8, <2>9 DEF PointerAt
    <2>11. q.epoch = h.e /\ q.provisional_gen = h.g /\ q.provisional_from + Len(q.provisional) = Len(h.pv)
        <3> HIDE DEF r, pf, tail
        <3> QED
            BY <2>2, <2>8
    <2>12. CutAt(pg, h)
        <3> HIDE DEF pg, q, c, r
        <3> QED
            BY <1>5, <2>2, <2>10, <2>11 DEF CutAt, PageAt
    <2> QED
        BY <2>6, <2>12
<1>7. faults = 0 => pg.records \in displays
    <2> HIDE DEF pg
    <2> QED
        BY <1>5 DEF HInv, Whole
<1>8. \A H : faults = 0 /\ Now \in H /\ Course(H) /\ Cuts(H) =>
               /\ pg.records \in displays
               /\ Carries(pg) => \E h \in H : CutAt(pg, h)
               /\ \A x \in rendered' :
                      \E h \in H : x.key = <<h.e, h.g, Len(h.pv)>> /\ x.lines = h.pv
    BY <1>6, <1>7
<1> HIDE DEF pg
<1> QED
    BY <1>4, <1>8, PageWhole DEF Turns

(* The bytes are those of the log at the moment of the cut, although the log
   has grown since: within an epoch what is committed stays. *)
LEMMA FetchWhole ==
    ASSUME HInv, IInv', NEW p \in Page, FetchRecords(p), displays' = displays \cup {(Display)'}
    PROVE  HInv'
<1> DEFINE c == page[p].cursor
           r == page[p].reply
           cs == IF r.from = r.to THEN <<>>
                 ELSE SubSeq(committed, r.from + 1, Min2(r.to, Len(committed)))
           q == FullReply(r.epoch, r.from, cs, r.provisional_gen,
                          r.provisional_from, r.provisional)
           pg == [page[p] EXCEPT !.stage = "apply", !.reply = q]
<1>1. /\ TypeInv /\ page[p].stage = "fetch" /\ PageType(page[p])
      /\ r.from = r.to \/ Servable(r)
    BY DEF HInv, IInv, TypeInv, FetchRecords
<1>2. r \in Pointer /\ committed \in Seq(Block)
    BY <1>1 DEF PageType, TypeInv
<1>3. /\ r.epoch \in Nat /\ r.provisional_gen \in Nat /\ r.from \in Nat
      /\ r.to \in Nat /\ r.provisional_from \in Nat /\ r.provisional \in Seq(Block)
    BY <1>2 DEF Pointer
<1>4. Turns(p, pg) /\ rendered' = rendered
    BY DEF FetchRecords, FullReply, Turns
<1>5. /\ pg.stage = "apply" /\ pg.reply = q
      /\ pg.cursor = c /\ pg.records = page[p].records
    <2> HIDE DEF q
    <2> QED
        BY <1>1 DEF PageType
<1>6. ASSUME NEW H, faults = 0, Course(H), Cuts(H)
      PROVE  \E h \in H : CutAt(pg, h)
    <2>1. PICK h \in H : CutAt(page[p], h)
        BY <1>1, <1>6 DEF Cuts, Carries
    <2>2. /\ h \in Moment /\ h.cm \in Seq(Block)
          /\ r.epoch = h.e /\ r.provisional_gen = h.g
          /\ r.provisional_from + Len(r.provisional) = Len(h.pv)
          /\ CursorAt(c, page[p].records, h.cm, h.pv, h.e, h.g)
          /\ RangeAt(c, r.epoch, r.provisional_gen, r.from, r.to, h.cm, h.e, h.g)
          /\ SuffixFor(c, r.epoch, r.provisional_gen, r.to, r.provisional_from)
          /\ OpenAt(r.epoch, r.provisional_gen, r.provisional_from, r.provisional,
                    h.pv, h.e, h.g)
        BY <1>1, <1>6, <2>1 DEF Course, Moment, CutAt, PageAt, PointerAt
    <2>3. r.from <= r.to /\ r.to = Len(h.cm)
        BY <2>2 DEF RangeAt
    <2>4. r.from + Len(cs) = r.to /\ \A i \in 1..Len(cs) : cs[i] = h.cm[r.from + i]
        <3>1. CASE r.from = r.to
            BY <1>3, <3>1
        <3>2. CASE r.from # r.to
            <4>1. r.epoch = epoch /\ Leads(h, Now)
                BY <1>1, <1>6, <3>2 DEF Servable, Course
            <4>2. Len(h.cm) <= Len(committed) /\ \A i \in 1..Len(h.cm) : committed[i] = h.cm[i]
                BY <1>1, <2>2, <4>1, NowIsMoment DEF Leads, Advances
            <4>3. cs = SubSeq(committed, r.from + 1, r.to)
                BY <1>2, <1>3, <2>3, <3>2, <4>2 DEF Min2
            <4>4. \A m, n \in Nat : m <= n /\ n <= Len(committed) =>
                    /\ m + Len(SubSeq(committed, m + 1, n)) = n
                    /\ \A i \in 1..Len(SubSeq(committed, m + 1, n)) :
                           SubSeq(committed, m + 1, n)[i] = committed[m + i]
                BY <1>2
            <4>5. /\ r.from + Len(cs) = r.to
                  /\ \A i \in 1..Len(cs) : cs[i] = committed[r.from + i]
                <5> HIDE DEF cs, r
                <5> QED
                    BY <1>3, <2>3, <4>2, <4>3, <4>4
            <4>6. Len(cs) \in Nat
                <5>1. cs \in Seq(Block)
                    <6> HIDE DEF cs, r
                    <6> QED
                        BY <1>2, <1>3, <2>3, <4>2, <4>3
                <5> HIDE DEF cs
                <5> QED
                    BY <5>1
            <4>7. ASSUME NEW i \in 1..Len(cs) PROVE cs[i] = h.cm[r.from + i]
                <5>1. r.from + i \in 1..Len(h.cm)
                    <6> HIDE DEF cs, r
                    <6> QED
                        BY <1>3, <2>3, <4>5, <4>6
                <5> HIDE DEF cs, r
                <5> QED
                    BY <4>2, <4>5, <5>1
            <4> HIDE DEF cs, r
            <4> QED
                BY <4>5, <4>7
        <3> QED
            BY <3>1, <3>2
    <2>5. LogAt(c, r.epoch, r.provisional_gen, r.from, cs, r.provisional_from, h.cm, h.e, h.g)
        <3> HIDE DEF c, r, cs
        <3> QED
            BY <2>2, <2>4 DEF LogAt
    <2>6. FullAt(c, q, h.cm, h.pv, h.e, h.g)
        <3> HIDE DEF c, r, cs
        <3> QED
            BY <2>2, <2>5 DEF FullAt, FullReply
    <2>7. q.epoch = h.e /\ q.provisional_gen = h.g /\ q.provisional_from + Len(q.provisional) = Len(h.pv)
        <3> HIDE DEF r, cs
        <3> QED
            BY <2>2 DEF FullReply
    <2>8. CutAt(pg, h)
        <3> HIDE DEF pg, q, c, r
        <3> QED
            BY <1>5, <2>2, <2>6, <2>7 DEF CutAt, PageAt
    <2> QED
        BY <2>8
<1>7. faults = 0 => pg.records \in displays
    <2> HIDE DEF pg
    <2> QED
        BY <1>5 DEF HInv, Whole
<1>8. \A H : faults = 0 /\ Now \in H /\ Course(H) /\ Cuts(H) =>
               /\ pg.records \in displays
               /\ Carries(pg) => \E h \in H : CutAt(pg, h)
               /\ \A x \in rendered' :
                      \E h \in H : x.key = <<h.e, h.g, Len(h.pv)>> /\ x.lines = h.pv
    BY <1>4, <1>6, <1>7 DEF Cuts
<1> HIDE DEF pg
<1> QED
    BY <1>4, <1>8, PageWhole DEF Turns

(* The page applies the reply: what it then shows is the display of the moment
   the reply was cut at, or what it showed before. *)
LEMMA ApplyWhole ==
    ASSUME HInv, IInv', NEW p \in Page, Apply(p), displays' = displays \cup {(Display)'}
    PROVE  HInv'
<1>1. /\ TypeInv /\ page[p].stage = "apply" /\ PageType(page[p])
    BY DEF HInv, IInv, TypeInv, Apply
<1>2. PICK rs \in Seq(Block), ce \in Nat, cid \in Nat, cg \in Nat, ci \in Nat :
        page[p].records = rs /\ page[p].cursor = CursorOf(ce, cid, cg, ci)
    BY <1>1 DEF PageType, Cursor, CursorOf
<1>3. PICK re \in Nat, cf \in Nat, cs \in Seq(Block), rg \in Nat, pf \in Nat, ps \in Seq(Block) :
        page[p].reply = FullReply(re, cf, cs, rg, pf, ps)
    BY <1>1 DEF PageType, Full, FullReply
<1> DEFINE c == CursorOf(ce, cid, cg, ci)
           r == FullReply(re, cf, cs, rg, pf, ps)
           n == ReducePull(rs, c, r)
           pg == [records |-> n.records, cursor |-> n.cursor,
                  stage |-> "idle", reply |-> NoReply]
<1>4. Turns(p, pg) /\ rendered' = rendered
    BY <1>2, <1>3 DEF Apply, Turns
<1>5. pg.stage = "idle" /\ pg.records = n.records
    <2> HIDE DEF n
    <2> QED
        OBVIOUS
<1>6. ASSUME NEW H, faults = 0, Course(H), Cuts(H)
      PROVE  n.records \in displays
    <2>1. CASE re = ce /\ cs = <<>> /\ ps = <<>>
        <3>1. n.records = rs
            BY <2>1 DEF ReducePull, CursorOf, FullReply
        <3> HIDE DEF n
        <3> QED
            BY <1>2, <1>6, <3>1 DEF HInv, Whole
    <2>2. CASE ~(re = ce /\ cs = <<>> /\ ps = <<>>)
        <3>1. PICK h \in H : CutAt(page[p], h)
            BY <1>1, <1>6 DEF Cuts, Carries
        <3>2. /\ h \in Moment /\ h.cm \o h.pv \in displays
            BY <1>6 DEF Course
        <3>3. PICK cm \in Seq(Block), pv \in Seq(Block), e \in Nat, g \in Nat :
                h.cm = cm /\ h.pv = pv /\ h.e = e /\ h.g = g
            BY <3>2 DEF Moment
        <3>4. /\ CursorAt(c, rs, cm, pv, e, g)
              /\ FullAt(c, r, cm, pv, e, g)
              /\ r.epoch = e /\ r.provisional_gen = g
              /\ r.provisional_from + Len(r.provisional) = Len(pv)
            <4> HIDE DEF c, r
            <4> QED
                BY <1>1, <1>2, <1>3, <3>1, <3>3 DEF CutAt, PageAt, c, r
        <3>5. /\ re = e /\ rg = g /\ pf + Len(ps) = Len(pv)
              /\ LogAt(c, re, rg, cf, cs, pf, cm, e, g)
              /\ OpenAt(re, rg, pf, ps, pv, e, g)
            BY <3>4 DEF FullAt, FullReply
        <3>6. CursorAt(n.cursor, n.records, cm, pv, e, g)
            <4>1. /\ CursorAt(CursorOf(ce, cid, cg, ci), rs, cm, pv, e, g)
                  /\ LogAt(CursorOf(ce, cid, cg, ci), re, rg, cf, cs, pf, cm, e, g)
                  /\ OpenAt(re, rg, pf, ps, pv, e, g)
                BY <3>4, <3>5
            <4> DEFINE m == ReducePull(rs, CursorOf(ce, cid, cg, ci),
                                       FullReply(re, cf, cs, rg, pf, ps))
            <4>2. CursorAt(m.cursor, m.records, cm, pv, e, g)
                BY <4>1, ReduceSound
            <4> QED
                BY <4>2
        <3>7. Len(rs) = cid + ci /\ Fits(ce, cid, ci, re, cf, cs, pf)
            BY <3>4, <3>5 DEF CursorAt, LogAt, RangeAt, SuffixFor, CursorOf, Fits
        <3>8. Reduced(n, rs, cid, re, cf, cs, rg, pf, ps)
            BY <2>2, <3>7, ReduceList
        <3> HIDE DEF n
        <3>9. /\ n.records \in Seq(Block)
              /\ n.cursor.epoch = e /\ n.cursor.provisional_gen = g
              /\ n.cursor.provisional_index = Len(pv)
            BY <3>5, <3>8 DEF Reduced, CursorOf
        <3>10. /\ n.cursor.committed_id = Len(cm)
               /\ Len(n.records) = Len(cm) + Len(pv)
               /\ \A i \in 1..Len(cm) : n.records[i] = cm[i]
               /\ \A i \in 1..Len(pv) : n.records[Len(cm) + i] = pv[i]
            BY <3>6, <3>9 DEF CursorAt
        <3>11. n.records = cm \o pv
            BY <3>9, <3>10, TwoParts
        <3> QED
            BY <3>2, <3>3, <3>11
    <2> QED
        BY <2>1, <2>2
<1>7. ~Carries(pg)
    <2> HIDE DEF pg
    <2> QED
        BY <1>5 DEF Carries
<1>8. \A H : faults = 0 /\ Now \in H /\ Course(H) /\ Cuts(H) =>
               /\ pg.records \in displays
               /\ Carries(pg) => \E h \in H : CutAt(pg, h)
               /\ \A x \in rendered' :
                      \E h \in H : x.key = <<h.e, h.g, Len(h.pv)>> /\ x.lines = h.pv
    <2> HIDE DEF pg, n
    <2> QED
        BY <1>4, <1>5, <1>6, <1>7 DEF Cuts
<1> HIDE DEF pg
<1> QED
    BY <1>4, <1>8, PageWhole DEF Turns

(* A page reloaded shows nothing, as the session did at first. *)
LEMMA ReloadWhole ==
    ASSUME HInv, IInv', NEW p \in Page, Reload(p), displays' = displays \cup {(Display)'}
    PROVE  HInv'
<1>1. Turns(p, FreshPage) /\ rendered' = rendered
    BY DEF Reload, Turns
<1>2. FreshPage.records = <<>> /\ FreshPage.stage = "idle"
    BY DEF FreshPage
<1>3. \A H : faults = 0 /\ Now \in H /\ Course(H) /\ Cuts(H) =>
               /\ FreshPage.records \in displays
               /\ Carries(FreshPage) => \E h \in H : CutAt(FreshPage, h)
               /\ \A x \in rendered' :
                      \E h \in H : x.key = <<h.e, h.g, Len(h.pv)>> /\ x.lines = h.pv
    BY <1>1, <1>2 DEF HInv, Whole, Carries, Cuts
<1> QED
    BY <1>1, <1>3, PageWhole DEF Turns

-----------------------------------------------------------------------------
(* The invariant holds initially, and every step keeps it.                 *)

(* A session just opened: one moment, an empty display, empty pages. *)
LEMMA InitWhole == HInit => HInv
<1> SUFFICES ASSUME HInit PROVE HInv
    OBVIOUS
<1>1. IInv /\ TypeInv
    BY InitInv DEF HInit, IInv
<1>2. /\ committed = <<>> /\ provisional = <<>> /\ rendered = {}
      /\ page = [p \in Page |-> FreshPage] /\ displays = {Display}
    BY DEF HInit, Init
<1>3. Display = <<>>
    BY <1>2 DEF Display
<1>4. FreshPage.records = <<>> /\ FreshPage.stage = "idle"
    BY DEF FreshPage
<1>5. Whole
    BY <1>2, <1>3, <1>4 DEF Whole
<1>6. Course({Now})
    BY <1>1, <1>2, <1>3, NowIsMoment DEF Course
<1>7. Cuts({Now})
    BY <1>2, <1>4 DEF Cuts, Carries
<1> QED
    BY <1>1, <1>5, <1>6, <1>7 DEF HInv

(* Every tick and every step of a page's request keeps the invariant. *)
LEMMA NextWhole == HInv /\ [HNext]_<<vars, displays>> => HInv'
<1> SUFFICES ASSUME HInv, [HNext]_<<vars, displays>> PROVE HInv'
    OBVIOUS
<1>1. IInv /\ IInv' /\ TypeInv
    BY NextInv DEF HInv, IInv, HNext
<1>2. DOMAIN page = Page /\ \A q \in Page : PageType(page[q])
    BY <1>1 DEF TypeInv
<1>3. ASSUME faults' # 0 PROVE HInv'
    BY <1>1, <1>3 DEF HInv
<1>4. CASE UNCHANGED <<vars, displays>>
    <2>1. UNCHANGED <<committed, provisional, epoch, gen, page, rendered, faults, displays>>
        BY <1>4 DEF vars, session
    <2> QED
        BY <1>1, <2>1 DEF HInv, Whole, Course, Cuts, Now
<1> SUFFICES ASSUME HNext, faults' = 0 PROVE HInv'
    BY <1>3, <1>4
<1>5. Next /\ displays' = displays \cup {(Display)'}
    BY DEF HNext
<1>6. CASE Advance
    BY <1>1, <1>2, <1>5, <1>6, TickWhole DEF Advance, SameOrAsked
<1>7. ASSUME NEW p \in Page, PageAdvance(p) PROVE HInv'
    <2>1. page' = [page EXCEPT ![p].stage = "count"] /\ page[p].stage = "idle" /\ rendered' = rendered
        BY <1>7 DEF PageAdvance
    <2>2. CASE TickIdle /\ UNCHANGED <<ticks, faults>>
        <3> DEFINE pg == [page[p] EXCEPT !.stage = "count"]
        <3>1. pg.records = page[p].records /\ pg.stage = "count"
            BY <1>2 DEF PageType
        <3>2. Turns(p, pg)
            BY <1>5, <2>1, <2>2 DEF Turns, TickIdle
        <3> HIDE DEF pg
        <3> QED
            BY <1>1, <2>1, <3>1, <3>2, StageWhole
    <2>3. CASE ticks' = ticks + 1 /\ SomeTick
        <3>1. DOMAIN page' = Page /\ \A q \in Page : SameOrAsked(page[q], page'[q])
            BY <1>2, <2>1 DEF SameOrAsked
        <3> QED
            BY <1>1, <1>5, <2>1, <2>3, <3>1, TickWhole
    <2> QED
        BY <1>7, <2>2, <2>3 DEF PageAdvance, AdvanceStep
<1>8. ASSUME NEW p \in Page, CountIdle(p) PROVE HInv'
    <2> DEFINE r == FullReply(epoch, Len(committed), <<>>, gen, Len(prev), <<>>)
               pg == [page[p] EXCEPT !.stage = "apply", !.reply = r]
    <2>1. Turns(p, pg) /\ rendered' = rendered
        BY <1>5, <1>8 DEF CountIdle, FullReply, Turns
    <2>2. pg.records = page[p].records /\ pg.stage = "apply" /\ pg.reply = r
        <3> HIDE DEF r
        <3> QED
            BY <1>2 DEF PageType
    <2>3. /\ r.epoch = epoch /\ r.provisional_gen = gen
          /\ r.provisional_from + Len(r.provisional) = Len(prev)
        BY <1>1 DEF FullReply, TypeInv
    <2>4. faults = 0 => prev = provisional
        BY <1>1 DEF IInv, SyncInv
    <2> HIDE DEF pg, r
    <2> QED
        BY <1>1, <2>1, <2>2, <2>3, <2>4, CutNow
<1>9. ASSUME NEW p \in Page, CountBusy(p) PROVE HInv'
    <2> DEFINE pg == [page[p] EXCEPT !.stage = "serve"]
    <2>1. Turns(p, pg) /\ rendered' = rendered
        BY <1>5, <1>9 DEF CountBusy, Turns
    <2>2. pg.records = page[p].records /\ pg.stage = "serve"
        BY <1>2 DEF PageType
    <2> HIDE DEF pg
    <2> QED
        BY <1>1, <2>1, <2>2, StageWhole
<1>10. ASSUME NEW p \in Page, ServeDelta(p) PROVE HInv'
    <2> DEFINE r == [stage |-> "delta", epoch |-> epoch,
                     from |-> CommittedFrom(epoch, Len(committed), page[p].cursor),
                     to |-> Len(committed), provisional_gen |-> gen, open |-> provisional]
               pg == [page[p] EXCEPT !.stage = "render", !.reply = r]
    <2>1. Turns(p, pg) /\ rendered' = rendered
        BY <1>5, <1>10 DEF ServeDelta, Turns
    <2>2. pg.records = page[p].records /\ pg.stage = "render" /\ pg.reply = r
        <3> HIDE DEF r
        <3> QED
            BY <1>2 DEF PageType
    <2>3. r.epoch = epoch /\ r.provisional_gen = gen /\ r.open = provisional
        OBVIOUS
    <2> HIDE DEF pg, r
    <2> QED
        BY <1>1, <2>1, <2>2, <2>3, CutNow
<1>11. ASSUME NEW p \in Page, Render(p) PROVE HInv'
    BY <1>1, <1>5, <1>11, RenderWhole
<1>12. ASSUME NEW p \in Page, FetchRecords(p) PROVE HInv'
    BY <1>1, <1>5, <1>12, FetchWhole
<1>13. ASSUME NEW p \in Page, FetchStale(p) \/ Lose(p) PROVE HInv'
    <2> DEFINE pg == [page[p] EXCEPT !.stage = "idle", !.reply = NoReply]
    <2>1. Turns(p, pg) /\ rendered' = rendered
        BY <1>5, <1>13 DEF FetchStale, Lose, Turns
    <2>2. pg.records = page[p].records /\ pg.stage = "idle"
        BY <1>2 DEF PageType
    <2> HIDE DEF pg
    <2> QED
        BY <1>1, <2>1, <2>2, StageWhole
<1>14. ASSUME NEW p \in Page, Apply(p) PROVE HInv'
    BY <1>1, <1>5, <1>14, ApplyWhole
<1>15. ASSUME NEW p \in Page, Reload(p) PROVE HInv'
    BY <1>1, <1>5, <1>15, ReloadWhole
<1> QED
    BY <1>5, <1>6, <1>7, <1>8, <1>9, <1>10, <1>11, <1>12, <1>13, <1>14, <1>15
       DEF Next, PageStep

(* A page never shows a mixture: whatever it holds is as a whole a display the
   session had at one moment, although the open turn travels with /pull and the
   committed records with /records, and the session commits, regroups or is
   truncated in between. *)
THEOREM PagesAreWhole == HSpec => []NeverTorn
<1>1. HInv => NeverTorn
    BY DEF HInv, Whole, NeverTorn
<1> QED
    BY <1>1, InitWhole, NextWhole, PTL DEF HSpec
=============================================================================

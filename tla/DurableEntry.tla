---------------------------- MODULE DurableEntry ----------------------------
(***************************************************************************)
(* A followed session and its durable entry: the accumulator of            *)
(* engine/builder.rs over the block fold, the follower that reads the      *)
(* transcript, the content log and the record stream it leaves on disk,    *)
(* and the recovery that resumes a fold from them after a crash.           *)
(*                                                                         *)
(* The transcript is a sequence of complete lines; offsets and lengths are *)
(* counted in lines, so `cursor` and `replay_from` are how many lines lie  *)
(* below them, and the time of a line is its number.  A crash may leave    *)
(* any prefix of either file: the content log is written block by block    *)
(* in the middle of a tick, the records at its end, and neither is synced. *)
(***************************************************************************)
EXTENDS ReplayFold

CONSTANTS Lines,            \* the lines a transcript is made of
          MaxLines,         \* bound on the length of the transcript, less one for each truncation
          MaxBehind,        \* bound on lines a session in memory has yet to read
          MaxCrashes,       \* bound on crashes
          MaxShrinks,       \* bound on truncations of the transcript
          CheckpointEvery   \* resumable records from one checkpoint to the next

ASSUME EntryAssumption ==
    /\ MaxLines \in Nat /\ MaxBehind \in Nat
    /\ MaxCrashes \in Nat /\ MaxShrinks \in Nat
    /\ CheckpointEvery \in Nat \ {0}

\* A line is a sequence of messages.
ASSUME LinesAssumption == \A line \in Lines : Len(line) \in Nat /\ DOMAIN line = 1..Len(line)

VARIABLES source,    \* the transcript file
          up,        \* is there a session in memory that follows it
          acc,       \* the accumulator of that session
          cursor,    \* lines it has read
          content,   \* the content log: one entry per committed block
          meta,      \* the record stream, after its header
          anchor,    \* the header: the first line of the transcript it describes
          exact,     \* history: nothing has happened that the resume does not promise to survive
          dirty,     \* history: the transcript was cut at or below a resume point of this stream
          crashes, shrinks

memory == <<up, acc, cursor>>
disk == <<content, meta, anchor>>
vars == <<source, up, acc, cursor, content, meta, anchor, exact, dirty, crashes, shrinks>>

-----------------------------------------------------------------------------
(* The accumulator.  `log` is the store's image of the content log; a      *)
(* boundary is the state before a line that may open a turn; `emitted` is  *)
(* the count of tokens as of the last resume point; `out` the records      *)
(* authored and not yet written; `seen` the turns rendered so far.  Each   *)
(* line of the transcript is worth one token.                              *)

NewAccumulator ==
    [r |-> NewReplayer, log |-> <<>>, boundary |-> <<>>, emitted |-> 0, out |-> <<>>,
     tokens |-> 0, turns |-> 0, inbox |-> {}, seen |-> 0, due |-> 0]

InboxOf(blocks) == {b.name : b \in {x \in ToSet(blocks) : x.kind = "UserInbox"}}

\* The store renders a committed block once, the head of a turn with the turn's time.
Put(a, b) ==
    LET head == OpensTurn(b)
        time == IF head /\ a.seen < Len(a.r.times) THEN a.r.times[a.seen + 1] ELSE 0
    IN  [a EXCEPT !.log = Append(@, [block |-> b, time |-> time]),
                  !.seen = IF head THEN @ + 1 ELSE @]

NoResume == [id |-> Nil, from |-> 0, pending |-> 0]

\* What a checkpoint carries, from the maintained state and not from the records.
Materialized(a) ==
    [turns |-> a.turns, times |-> SubSeq(a.r.times, 1, a.turns), inbox |-> a.inbox,
     tokens |-> a.emitted]

\* A counter's growth, never below zero.
Since(old, new) == IF new > old THEN new - old ELSE 0

\* Mutant: the baseline of the counters is not moved to the new resume point.
AuthorResumeStaleBase(a, rec) ==
    IF a.boundary = <<>> \/ Head(a.boundary).logical # a.r.base
    THEN [a EXCEPT !.out = Append(@, rec)]
    ELSE LET e == Head(a.boundary)
             b == [a EXCEPT !.due = (a.due + 1) % CheckpointEvery]
             full == [rec EXCEPT !.tokens = Since(a.emitted, e.tokens),
                                 !.resume = [id |-> Len(a.log), from |-> e.offset,
                                             pending |-> e.pending],
                                 !.checkpoint = IF b.due = 0 THEN {Materialized(b)} ELSE {}]
         IN  [b EXCEPT !.out = Append(@, full)]

\* The resume point of a record: only where the frontier is the start of a line.
AuthorResume(a, rec) ==
    IF a.boundary = <<>> \/ Head(a.boundary).logical # a.r.base
    THEN [a EXCEPT !.out = Append(@, rec)]
    ELSE LET e == Head(a.boundary)
             b == [a EXCEPT !.emitted = e.tokens, !.due = (a.due + 1) % CheckpointEvery]
             full == [rec EXCEPT !.tokens = Since(a.emitted, e.tokens),
                                 !.resume = [id |-> Len(a.log), from |-> e.offset,
                                             pending |-> e.pending],
                                 !.checkpoint = IF b.due = 0 THEN {Materialized(b)} ELSE {}]
         IN  [b EXCEPT !.out = Append(@, full)]

\* The blocks that crossed the frontier are stored, counted and recorded.
Commit(a) ==
    LET drained == a.r.durable
        turns == a.turns + Openers(drained)
        stored == FoldLeft(Put, a, drained)
        rec == [turns |-> Openers(drained), inbox |-> InboxOf(drained),
                times |-> SubSeq(a.r.times, a.turns + 1, turns),
                tokens |-> 0, resume |-> NoResume, checkpoint |-> {}]
        pruned == FoldLeft(LAMBDA kept, e : IF e.logical >= a.r.base THEN Append(kept, e) ELSE kept,
                           <<>>, a.boundary)
    IN  AuthorResume([stored EXCEPT !.turns = turns, !.inbox = @ \cup InboxOf(drained),
                                    !.boundary = pruned], rec)

\* Mutant: a line that only patched an earlier block is a candidate too.
CandidateAlways(before, after, line) == \E m \in ToSet(line) : CanOpenTurn(m)

\* Is the state before this line a candidate for a resume point?
Candidate(before, after, line) ==
    /\ \E m \in ToSet(line) : CanOpenTurn(m)
    /\ RawLen(after) > RawLen(before)

\* Line number n of the transcript.
AdvanceAt(a, n, line) ==
    LET r == Apply(a.r, n, line)
        here == [logical |-> RawLen(a.r), offset |-> n - 1, tokens |-> a.tokens,
                 pending |-> a.r.pending]
        b == [a EXCEPT !.r = r,
                       !.boundary = IF Candidate(a.r, r, line) THEN Append(@, here) ELSE @]
        c == IF r.durable = <<>> THEN b ELSE Commit(b)
    IN  [c EXCEPT !.tokens = @ + 1]

\* Folds what lies between two positions of a transcript.
AdvanceOver(a, lines, from) ==
    FoldLeft(LAMBDA x, n : AdvanceAt(x, n, lines[n]), a,
             [i \in 1..(Len(lines) - from) |-> from + i])

\* A truncation: everything but the boundaries, the baseline and the pending records.
Reset(a) == [NewAccumulator EXCEPT !.boundary = a.boundary, !.emitted = a.emitted,
                                   !.out = a.out]

-----------------------------------------------------------------------------
(* Recovery.                                                               *)

NoMeta == [turns |-> 0, times |-> <<>>, inbox |-> {}, tokens |-> 0]

PushDelta(mm, rec) ==
    [turns |-> mm.turns + rec.turns, times |-> mm.times \o rec.times,
     inbox |-> mm.inbox \cup rec.inbox, tokens |-> mm.tokens + rec.tokens]

PushRecord(mm, rec) ==
    IF rec.checkpoint = {} THEN PushDelta(mm, rec) ELSE CHOOSE c \in rec.checkpoint : TRUE

\* How many records describe blocks that the content log has.
Corroborated(records, n) ==
    LET beyond == SelectInSeq(records, LAMBDA rec : rec.resume.id # Nil /\ rec.resume.id > n)
    IN  IF beyond = 0 THEN Len(records) ELSE beyond - 1

\* The state folded from the first k records.
MetaAt(records, k) == FoldLeft(PushRecord, NoMeta, SubSeq(records, 1, k))

Mismatch(records, n) ==
    \E k \in 2..Corroborated(records, n) :
        /\ records[k].checkpoint # {}
        /\ PushDelta(MetaAt(records, k - 1), records[k]) \notin records[k].checkpoint

\* The last record that can be resumed from; 0 when there is none.
Align(records, n) ==
    SelectLastInSubSeq(records, 1, Corroborated(records, n), LAMBDA rec : rec.resume.id # Nil)

AnchorOf(lines) == IF lines = <<>> THEN <<>> ELSE Head(lines)

\* The fold as it was before line `resume.from`, without its queue of prompts.
Restore(mm, resume, log) ==
    [NewAccumulator EXCEPT
        !.r = [NewReplayer EXCEPT !.inbox = mm.inbox, !.times = mm.times,
                                  !.pending = resume.pending],
        !.log = log, !.emitted = mm.tokens, !.tokens = mm.tokens, !.turns = mm.turns,
        !.inbox = mm.inbox, !.seen = mm.turns]

-----------------------------------------------------------------------------
Init ==
    /\ source = <<>>
    /\ up = FALSE /\ acc = NewAccumulator /\ cursor = 0
    /\ content = <<>> /\ meta = <<>> /\ anchor = Nil
    /\ exact = TRUE /\ dirty = FALSE /\ crashes = 0 /\ shrinks = 0

\* The agent appends a line to its transcript.
Write(line) ==
    /\ Len(source) + shrinks < MaxLines
    /\ up => Len(source) < cursor + MaxBehind
    /\ source' = Append(source, line)
    /\ UNCHANGED <<memory, disk, exact, dirty, crashes, shrinks>>

\* The transcript is cut to its first n lines, at least one.
Shrink(n) ==
    /\ shrinks < MaxShrinks
    /\ Len(source) + shrinks < MaxLines
    /\ shrinks' = shrinks + 1
    /\ source' = SubSeq(source, 1, n)
    /\ LET below == \E rec \in ToSet(meta) : rec.resume.id # Nil /\ rec.resume.from >= n
           read == up /\ n < cursor
       IN  /\ dirty' = (dirty \/ below \/ read)
           /\ exact' = (exact /\ ~(up /\ (read \/ below)))
    /\ UNCHANGED <<memory, disk, crashes>>

\* Mutant: the records are written and stay in the accumulator.
TickKeepsOut ==
    /\ up
    /\ cursor # Len(source)
    /\ LET reset == Len(source) < cursor
           from == IF reset THEN 0 ELSE cursor
           a == AdvanceOver(IF reset THEN Reset(acc) ELSE acc, source, from)
       IN  /\ acc' = a
           /\ content' = a.log
           /\ meta' = meta \o a.out
           /\ exact' = (exact \/ reset)
           /\ dirty' = (dirty \/ reset)
    /\ cursor' = Len(source)
    /\ UNCHANGED <<source, up, anchor, crashes, shrinks>>

\* One tick: reset if the transcript is shorter than what was read, fold every
\* line not yet read, and write the records the fold has authored.
Tick ==
    /\ up
    /\ cursor # Len(source)
    /\ LET reset == Len(source) < cursor
           from == IF reset THEN 0 ELSE cursor
           a == AdvanceOver(IF reset THEN Reset(acc) ELSE acc, source, from)
       IN  /\ acc' = [a EXCEPT !.out = <<>>]
           /\ content' = a.log
           /\ meta' = meta \o a.out
           /\ exact' = (exact \/ reset)
           /\ dirty' = (dirty \/ reset)
    /\ cursor' = Len(source)
    /\ UNCHANGED <<source, up, anchor, crashes, shrinks>>

\* The process or the machine stops: of each file some prefix survives.
Crash ==
    /\ up
    /\ crashes < MaxCrashes
    /\ crashes' = crashes + 1
    /\ \E i \in 0..Len(content), j \in 0..Len(meta) :
          /\ content' = SubSeq(content, 1, i)
          /\ meta' = SubSeq(meta, 1, j)
    /\ up' = FALSE /\ acc' = NewAccumulator /\ cursor' = 0
    /\ UNCHANGED <<source, anchor, exact, dirty, shrinks>>

\* A fold of the transcript from its start, in one run.
Cold(lines) == AdvanceOver(NewAccumulator, lines, 0)

Resumable ==
    /\ anchor = AnchorOf(source)
    /\ ~Mismatch(meta, Len(content))
    /\ Align(meta, Len(content)) # 0
    /\ Len(source) >= meta[Align(meta, Len(content))].resume.from

\* Folding on from this line repeats the fold from the start unless, there, a
\* prompt is queued before the line, or the line both opens blocks and changes
\* one from before it.
Repeats(lines, from) ==
    LET r == Cold(SubSeq(lines, 1, from)).r
        s == FoldLeft(ApplyMessage, LineStart(r, from + 1), lines[from + 1])
    IN  /\ r.queue = <<>>
        /\ Len(s.out) > Len(r.out) => SubSeq(s.out, 1, Len(r.out)) = r.out

\* Admission finds records it can use: both files are cut to them.
AdmitResumed ==
    /\ ~up
    /\ Resumable
    /\ LET k == Align(meta, Len(content))
           resume == meta[k].resume
           log == SubSeq(content, 1, resume.id)
       IN  /\ acc' = Restore(MetaAt(meta, k), resume, log)
           /\ cursor' = resume.from
           /\ content' = log
           /\ meta' = SubSeq(meta, 1, k)
           /\ exact' = (exact /\ ~dirty /\ Repeats(source, resume.from))
    /\ up' = TRUE
    /\ UNCHANGED <<source, anchor, dirty, crashes, shrinks>>

\* Admission finds nothing it can use: a fresh entry, a fold from the start.
AdmitCold ==
    /\ ~up
    /\ ~Resumable
    /\ acc' = NewAccumulator /\ cursor' = 0
    /\ content' = <<>> /\ meta' = <<>> /\ anchor' = AnchorOf(source)
    /\ exact' = TRUE /\ dirty' = FALSE
    /\ up' = TRUE
    /\ UNCHANGED <<source, crashes, shrinks>>

Next ==
    \/ \E line \in Lines : Write(line)
    \/ \E n \in 1..(Len(source) - 1) : Shrink(n)
    \/ Tick \/ Crash \/ AdmitResumed \/ AdmitCold

Spec == Init /\ [][Next]_vars

-----------------------------------------------------------------------------
(* Properties.                                                             *)

CaughtUp == up /\ cursor = Len(source)

\* What a reader is shown: both zones, the turns' times and the totals.
View(a) ==
    [log |-> a.log, open |-> OpenSnapshot(a.r), times |-> OpenTimes(a.r),
     turns |-> a.turns, tokens |-> a.tokens, inbox |-> a.r.inbox]

\* The state has its types: the files hold records of the shapes the code
\* writes, the store's image is the content log, the cursor is a line number.
TypeOK ==
    /\ source \in Seq(Lines) /\ Len(source) <= MaxLines
    /\ up \in BOOLEAN /\ exact \in BOOLEAN /\ dirty \in BOOLEAN
    /\ cursor \in 0..MaxLines
    /\ up => acc.log = content
    /\ acc.out = <<>>
    /\ acc.r.stamped >= acc.r.base
    /\ \A rec \in ToSet(meta) : rec.resume.id # Nil => rec.resume.id \in Nat \ {0}

\* A resumed session is the session a fold from the start gives, block for
\* block, time for time and count for count - wherever the crashes cut the two
\* files - provided the transcript was only appended to and each resume was at
\* a line before which no prompt was queued and which did not open a block and
\* change an earlier one (design/durable-session-cache.md, 12.1).
ResumeExact == CaughtUp /\ exact => View(acc) = View(Cold(source))

\* The same without these provisos, as the design's harness states it.
ResumeEqualsCold == CaughtUp => View(acc) = View(Cold(source))

\* Committing turn by turn shows what one final shaping of the whole raw
\* stream would show (`Replayer::assemble`): no span is cut in two, and no
\* marker of a delivered prompt is left behind.
Assembled ==
    LET a == Cold(source)
        blocks == [i \in DOMAIN a.log |-> a.log[i].block]
        raw == a.r.past \o a.r.out
    IN  CaughtUp => blocks \o OpenSnapshot(a.r) = FinishTurns(Shown(raw, 0, a.r.gone))

\* The frontier cannot freeze: whatever stays queued, the window never holds
\* more turns than the pin allows and the open one (`finalize_completed`).
FrontierMoves == Openers(acc.r.out) <= MaxPinnedTurns + 1

\* An entry whose transcript was only appended to is never rejected for a
\* checkpoint: the maintained totals and the folded deltas agree at each one.
CheckpointsAgree == ~dirty => ~Mismatch(meta, Len(content))
=============================================================================

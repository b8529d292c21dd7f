----------------------------- MODULE ReplayFold -----------------------------
(***************************************************************************)
(* The block fold of the engine: `Replayer` of engine/replay.rs, as pure   *)
(* operators on its state.  A transcript line is a sequence of messages;   *)
(* folding it appends blocks to the resident window, patches resident      *)
(* blocks in place, tracks the queue of typed-ahead prompts, and finally   *)
(* moves the completed turns from the window to the committed prefix.      *)
(*                                                                         *)
(* A message is [kind, name]; the name stands for the text of a prompt,    *)
(* the id of a tool call or of a relayed message, and is Nil when the      *)
(* message has none.  A block is [kind, name, joined, parts]: `joined`     *)
(* counts what was patched into it, `parts` are the calls of a span.       *)
(* Logical indices are counted from 1: out[i] is the block base + i, and   *)
(* 0 stands for None.                                                      *)
(*                                                                         *)
(* Kinds that the fold treats alike share one message here: UserText       *)
(* stands for UserReply, PeerText and AttachmentPrompt, AssistantText for  *)
(* every message that only appends a block.  Left out: what changes only   *)
(* the text inside a block or a clock (thinking times, turn durations,     *)
(* spawn names, safety stops, sandbox marks, image paths and the pictures  *)
(* of a relayed message).  An orphaned result is always worth keeping.     *)
(***************************************************************************)
EXTENDS Naturals, FiniteSets, SequencesExt

CONSTANTS Nil, MaxPinnedTurns

ASSUME PinAssumption == MaxPinnedTurns \in Nat

NewBlock(kind, name) == [kind |-> kind, name |-> name, joined |-> 0, parts |-> <<>>]

OpensTurn(b) == b.kind \in {"UserText", "UserInbox", "Command"}

CanOpenTurn(m) == m.kind \in {"UserText", "UserInbox", "Command", "CommandStdout"}

Openers(blocks) == Cardinality({i \in DOMAIN blocks : OpensTurn(blocks[i])})

-----------------------------------------------------------------------------
(* Turn shaping (`coalesce_spans`): a run of thinking and calls becomes    *)
(* one span, a run of nothing but edits stays as it is, an attachment      *)
(* inside a run waits for the run's end.                                   *)

InRun(b) == b.kind \in {"Thinking", "ToolUse", "Edit"}

Flush(s) ==
    LET span == [kind |-> "Span", name |-> Nil,
                 joined |-> Len(SelectSeq(s.run, LAMBDA b : b.kind = "Thinking")),
                 parts |-> SelectSeq(s.run, LAMBDA b : b.kind # "Thinking")]
        edits == \A i \in DOMAIN s.run : s.run[i].kind = "Edit"
    IN  [out |-> s.out \o (IF edits THEN s.run ELSE <<span>>) \o s.held,
         run |-> <<>>, held |-> <<>>]

Shape(s, b) ==
    IF InRun(b) THEN [s EXCEPT !.run = Append(@, b)]
    ELSE IF b.kind = "Attachment" /\ s.run # <<>> THEN [s EXCEPT !.held = Append(@, b)]
    ELSE IF b.kind = "Attachment" THEN [s EXCEPT !.out = Append(@, b)]
    ELSE LET f == Flush(s) IN [f EXCEPT !.out = Append(@, b)]

FinishTurns(blocks) ==
    Flush(FoldLeft(Shape, [out |-> <<>>, run |-> <<>>, held |-> <<>>], blocks)).out

\* The blocks that are not suppressed; blocks[i] has the logical index lo + i.
Shown(blocks, lo, suppress) ==
    FoldLeft(LAMBDA kept, i : IF lo + i \in suppress THEN kept ELSE Append(kept, blocks[i]),
             <<>>, [i \in DOMAIN blocks |-> i])

-----------------------------------------------------------------------------
(* The replayer.  `past` and `gone` are history: the raw blocks that left  *)
(* the window, and the markers suppressed while they were resident.        *)

NewReplayer ==
    [out |-> <<>>, base |-> 0, durable |-> <<>>, queue |-> <<>>, suppress |-> {},
     slot |-> <<>>, skill |-> 0, inbox |-> {}, times |-> <<>>, stamped |-> 0,
     pending |-> 0, past |-> <<>>, gone |-> {}]

RawLen(r) == r.base + Len(r.out)

Push(r, b) == [r EXCEPT !.out = Append(@, b)]

Join(r, i) == [r EXCEPT !.out[i].joined = @ + 1]

LastIs(r, kind) == r.out # <<>> /\ Last(r.out).kind = kind

\* Take item i off the queue; the marker of a popped prompt always collapses.
Pop(r, i) ==
    LET marker == r.queue[i].marker
    IN  [r EXCEPT !.queue = RemoveAt(@, i),
                  !.suppress = IF marker = 0 THEN @ ELSE @ \cup {marker},
                  !.gone = IF marker > r.base THEN @ \cup {marker} ELSE @]

\* A prompt that arrives takes the queued item with its text along.
Deliver(r, text) ==
    LET i == SelectInSeq(r.queue, LAMBDA q : q.text = text)
    IN  IF i = 0 THEN r ELSE Pop(r, i)

\* Every turn of the window not yet stamped gets the time of the line that wrote it.
StampUserTurns(r) ==
    LET new == Openers(SubSeq(r.out, r.stamped - r.base + 1, Len(r.out)))
    IN  [r EXCEPT !.times = @ \o [i \in 1..new |-> r.pending], !.stamped = RawLen(r)]

LineStart(r, ts) == [StampUserTurns(r) EXCEPT !.pending = ts]

\* Appends a call and remembers where its result belongs.
ToolUse(r, m) ==
    LET p == Push(r, NewBlock(m.kind, m.name))
        at == RawLen(p)
    IN  [p EXCEPT !.skill = IF m.kind = "Skill" THEN at ELSE @,
                  !.slot = [x \in DOMAIN @ \cup {m.name} |-> IF x = m.name THEN at ELSE @[x]]]

\* A result joins its call while the call is resident, else it stands alone.
ToolResult(r, m) ==
    IF m.name \in DOMAIN r.slot
    THEN Join(r, r.slot[m.name] - r.base)
    ELSE Push(r, NewBlock("ToolResult", Nil))

UserInbox(r, m) ==
    LET d == Deliver(r, m.name)
    IN  IF m.name \in r.inbox
        THEN Push(d, NewBlock("UserText", m.name))
        ELSE [Push(d, NewBlock("UserInbox", m.name)) EXCEPT !.inbox = @ \cup {m.name}]

\* A skill's text nests into the last Skill call of the open turn.
SkillBody(r) ==
    LET turn == SelectLastInSeq(r.out, OpensTurn)
    IN  IF r.skill > r.base /\ r.skill - r.base >= turn
        THEN Join(r, r.skill - r.base)
        ELSE Push(r, NewBlock("ToolResult", Nil))

Enqueue(r, m, prose) ==
    LET p == IF prose THEN Push(r, NewBlock("QueueEvent", m.name)) ELSE r
    IN  [p EXCEPT !.queue = Append(@, [text |-> m.name,
                                       marker |-> IF prose THEN RawLen(p) ELSE 0])]

\* Remove and Dequeue: by content, or the oldest item when the record names none.
Dequeue(r, m) ==
    IF m.name # Nil THEN Deliver(r, m.name)
    ELSE IF r.queue = <<>> THEN r ELSE Pop(r, 1)

PopAll(r) == FoldLeft(LAMBDA s, i : Pop(s, 1), r, r.queue)

ApplyMessage(r, m) ==
    CASE m.kind = "UserText" -> Push(Deliver(r, m.name), NewBlock("UserText", m.name))
      [] m.kind = "UserInbox" -> UserInbox(r, m)
      [] m.kind \in {"ToolUse", "Edit", "Skill"} -> ToolUse(r, m)
      [] m.kind = "ToolResult" -> ToolResult(r, m)
      [] m.kind = "SkillBody" -> SkillBody(r)
      [] m.kind = "CommandStdout" ->
            IF LastIs(r, "Command") THEN Join(r, Len(r.out))
            ELSE Join(Push(r, NewBlock("Command", Nil)), Len(r.out) + 1)
      [] m.kind = "CompactSummary" ->
            IF LastIs(r, "Compaction") /\ Last(r.out).joined = 0 THEN Join(r, Len(r.out))
            ELSE Push(r, NewBlock("ToolResult", Nil))
      [] m.kind = "Enqueue" -> Enqueue(r, m, TRUE)
      [] m.kind = "EnqueueQuiet" -> Enqueue(r, m, FALSE)
      [] m.kind = "Dequeue" -> Dequeue(r, m)
      [] m.kind = "PopAll" -> PopAll(r)
      [] OTHER -> Push(r, NewBlock(m.kind, m.name))

-----------------------------------------------------------------------------
(* The durability frontier.                                                *)

\* Mutant: a prompt that is never picked up pins its turn for ever.
QueuePinUnbounded(r, k) ==
    LET markers == {r.queue[i].marker : i \in DOMAIN r.queue} \ {0}
        oldest == Min(markers) - r.base
        head == SelectLastInSubSeq(r.out, 1, oldest, OpensTurn)
    IN  IF markers = {} THEN k
        ELSE IF Min(markers) <= r.base \/ oldest > k THEN k
        ELSE IF head = 0 THEN 0 ELSE head - 1

\* How many blocks may leave when the oldest pending marker caps the first k.
QueuePin(r, k) ==
    LET markers == {r.queue[i].marker : i \in DOMAIN r.queue} \ {0}
        oldest == Min(markers) - r.base
        head == SelectLastInSubSeq(r.out, 1, oldest, OpensTurn)
        pinned == IF head = 0 THEN 0 ELSE head - 1
    IN  IF markers = {} THEN k
        ELSE IF Min(markers) <= r.base \/ oldest > k THEN k
        ELSE IF Openers(SubSeq(r.out, pinned + 1, k)) <= MaxPinnedTurns THEN pinned
        ELSE k

\* Mutant: the marker of a prompt that was delivered becomes final with its turn.
DrainKeepsMarkers(r, k) ==
    LET s == StampUserTurns(r)
        base == r.base + k
        drained == SubSeq(r.out, 1, k)
    IN  [s EXCEPT !.out = SubSeq(r.out, k + 1, Len(r.out)),
                  !.base = base,
                  !.durable = FinishTurns(drained),
                  !.suppress = {i \in @ : i > base},
                  !.slot = [x \in {y \in DOMAIN @ : @[y] > base} |-> @[x]],
                  !.skill = IF @ <= base THEN 0 ELSE @,
                  !.past = @ \o drained]

\* The first k blocks of the window become final.
Drain(r, k) ==
    LET s == StampUserTurns(r)
        base == r.base + k
        drained == SubSeq(r.out, 1, k)
    IN  [s EXCEPT !.out = SubSeq(r.out, k + 1, Len(r.out)),
                  !.base = base,
                  !.durable = FinishTurns(Shown(drained, r.base, r.suppress)),
                  !.suppress = {i \in @ : i > base},
                  !.slot = [x \in {y \in DOMAIN @ : @[y] > base} |-> @[x]],
                  !.skill = IF @ <= base THEN 0 ELSE @,
                  !.past = @ \o drained]

FinalizeCompleted(r) ==
    LET head == SelectLastInSeq(r.out, OpensTurn)
        k == IF head = 0 THEN 0 ELSE QueuePin(r, head - 1)
    IN  IF k = 0 THEN [r EXCEPT !.durable = <<>>] ELSE Drain(r, k)

\* One line of the transcript, written at time ts.
Apply(r, ts, line) == FinalizeCompleted(FoldLeft(ApplyMessage, LineStart(r, ts), line))

OpenSnapshot(r) == FinishTurns(Shown(r.out, r.base, r.suppress))

OpenTimes(r) == StampUserTurns(r).times
=============================================================================

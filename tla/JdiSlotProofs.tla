--------------------------- MODULE JdiSlotProofs ---------------------------
(***************************************************************************)
(* What the commands, the workers and the queue of agent-jdi keep, for any *)
(* number of terminals, launches and items.  The slot lock and the pid in  *)
(* meta make launches exclude each other as long as no mishap happens      *)
(* (JdiSlot lists them: the code does not exclude them); `backlog --drain` *)
(* launches without the lock and add() numbers without one, so the         *)
(* theorems also say for which of them the user must wait: "drain" for one *)
(* supervisor per directory, "add" for the queue.                          *)
(***************************************************************************)
EXTENDS JdiSlot, WellFoundedInduction, TLAPS

-----------------------------------------------------------------------------
(* The inductive invariant, part by part. *)

CmdStages == {"idle", "look", "guard", "acquire", "owner", "reclaim", "check", "own", "setup",
              "spawn", "pid", "state", "kill", "stop", "scan", "scan draining", "scan drained",
              "create", "write"}
RunStages == {"none", "boot", "claim", "begin", "turn", "finalize", "tell"}

MetaRecs == [pid : Workers \cup {0}, state : States, mode : Modes, cap : Caps \cup {0}]
Copies == MetaRecs \cup {None}
LockRecs == [made : BOOLEAN, owner : 0..MaxLaunches]
CmdRecs == [stage : CmdStages, kind : Kinds, id : Nat, top : Texts, copy : Copies]
RunRecs == [stage : RunStages, mode : Modes, drain : BOOLEAN, brief : SUBSET Nat,
            list : SUBSET Names, attempt : Nat, cap : Caps \cup {0}, cycles : Nat,
            still : Nat, fp : BOOLEAN, same : Nat, tell : States, copy : Copies]
Dirs == [Names -> Nat]

\* Every variable has its full type; texts are only known to be numbers so far.
Types ==
    /\ agent \in {"claude", "codex"} /\ lock \in LockRecs
    /\ meta \in MetaRecs /\ cmd \in [Cmds -> CmdRecs] /\ run \in [Workers -> RunRecs]
    /\ pending \in Dirs /\ draining \in Dirs /\ drained \in Dirs
    /\ added \in SUBSET Nat /\ worked \in SUBSET Nat /\ missed \in SUBSET Nat
    /\ capped \in BOOLEAN /\ mishaps \in SUBSET Mishaps
    /\ launches \in 0..MaxLaunches /\ items \in 0..MaxItems
    /\ progress \in Nat /\ troubles \in Nat

\* The stages that a command of each kind goes through.
PathAt(k, stage) ==
    \/ /\ k = "start"
       /\ stage \in {"guard", "acquire", "owner", "reclaim", "check", "own", "setup", "spawn",
                     "pid", "state"}
    \/ k = "drain" /\ stage \in {"look", "guard", "setup", "spawn", "pid"}
    \/ k = "takeover" /\ stage \in {"kill", "stop"}
    \/ /\ k = "add"
       /\ stage \in {"scan", "scan draining", "scan drained", "create", "write"}

Path(c) == cmd[c].stage = "idle" \/ PathAt(cmd[c].kind, cmd[c].stage)

\* A command that launches has a worker to launch.
HasWorker(c) ==
    cmd[c].stage # "idle" /\ cmd[c].kind \in {"start", "drain"} => cmd[c].id \in Workers

\* What a command has written to rename over meta.
Copied(c) ==
    cmd[c].copy # None =>
        /\ cmd[c].stage = "setup" => cmd[c].copy.state \in {"starting", "draining"}
        /\ cmd[c].stage = "pid" => cmd[c].copy.pid = cmd[c].id
        /\ cmd[c].stage = "state" => cmd[c].copy.state = "running"
        /\ cmd[c].stage = "stop" => cmd[c].copy.state = "stopped"

\* A command of a kind in Alone is the only one under way.
IsAlone(c) ==
    cmd[c].stage # "idle" /\ cmd[c].kind \in Alone
        => \A d \in Cmds : d # c => cmd[d].stage = "idle"

Command1(c) == Path(c) /\ HasWorker(c) /\ Copied(c) /\ IsAlone(c)

\* A worker that ended keeps nothing; a turn that runs or was Done is an attempt; what the
\* worker has written to rename over meta has its state.
Worker1(w) ==
    /\ run[w].stage = "none" => run[w] = Dead
    /\ run[w].stage \in {"turn", "finalize"} => run[w].attempt > 0
    /\ run[w].stage \notin {"begin", "tell"} => run[w].copy = None
    /\ run[w].copy # None =>
          run[w].copy.state = IF run[w].stage = "begin" THEN "running" ELSE run[w].tell

Shape ==
    /\ Types
    /\ \A c \in Cmds : Command1(c)
    /\ \A w \in Workers : Worker1(w)

\* A start that has made the lock has it, alone.
Locked ==
    \A c \in Cmds : Holding(c) => lock.made /\ \A d \in Cmds : Holding(d) => d = c

\* While a command sets up and spawns no worker is alive; until it has recorded the pid
\* only its own is; otherwise only the recorded one is.
Launch(c) ==
    /\ cmd[c].stage \in {"own", "setup", "spawn"} => \A w \in Workers : run[w].stage = "none"
    /\ cmd[c].stage = "pid" => \A w \in Workers : run[w].stage # "none" => w = cmd[c].id

Recorded ==
    (\A c \in Cmds : cmd[c].stage # "pid") =>
        \A w \in Workers : run[w].stage # "none" => w = meta.pid

\* What holds until a mishap happens.
Supervision == Locked /\ (\A c \in Cmds : Launch(c)) /\ Recorded

\* The brief of a drain holds all that is in draining/, and so does what is worked once
\* its turn was Done, but for what was missed; a run that ends done leaves no more.
Left == Held(draining) \subseteq missed \/ capped

Briefed(w) ==
    /\ run[w].stage \in {"begin", "turn", "tell"} /\ run[w].drain =>
          Held(draining) \subseteq run[w].brief \cup missed
    /\ run[w].stage = "finalize" => run[w].drain /\ Held(draining) \subseteq worked \cup missed
    /\ run[w].stage = "tell" /\ run[w].tell = "done" => Left

\* No worker is alive, nor about to be.
Over ==
    /\ \A w \in Workers : run[w].stage = "none"
    /\ \A c \in Cmds : cmd[c].stage # "spawn"
    /\ Left

\* What else holds until a mishap happens: "done" is in meta, or in what a command has read
\* to record a pid, only when all is over.
Confirmed ==
    /\ \A w \in Workers : Briefed(w)
    /\ meta.state = "done" => Over
    /\ \A c \in Cmds :
          cmd[c].stage = "pid" /\ cmd[c].copy # None /\ cmd[c].copy.state = "done" => Over
    /\ Held(drained) \subseteq worked \cup missed

\* A name is in one directory at most.
Apart ==
    \A n \in Names : /\ pending[n] = 0 \/ draining[n] = 0
                     /\ pending[n] = 0 \/ drained[n] = 0
                     /\ draining[n] = 0 \/ drained[n] = 0

Adding(c) == cmd[c].stage # "idle" /\ cmd[c].kind = "add"

NoFile(n) == pending[n] = 0 /\ draining[n] = 0 /\ drained[n] = 0

\* Names and texts are numbers up to items, the last of which an add has still to make.
Numbered ==
    /\ \A n \in Names : n > items => NoFile(n)
    /\ \A n \in Names : pending[n] <= items /\ draining[n] <= items /\ drained[n] <= items
    /\ \A c \in Cmds : Adding(c) =>
          /\ cmd[c].id \in 1..items
          /\ cmd[c].stage # "write" =>
                cmd[c].top < items /\ \A n \in Names : n >= items => NoFile(n)

\* What next_seq() has seen bounds the names in the directories it has read; items only
\* move to those it has still to read.
Seen(c) ==
    cmd[c].kind = "add" =>
        \A n \in Names :
            n > cmd[c].top =>
                /\ cmd[c].stage \in {"scan draining", "scan drained", "create"} => pending[n] = 0
                /\ cmd[c].stage \in {"scan drained", "create"} => draining[n] = 0
                /\ cmd[c].stage = "create" => drained[n] = 0

Stored(t) == t \in Held(pending) \cup Held(draining) \cup Held(drained)

\* The item that an add has made and is about to write has its file.
Made(c) == Adding(c) /\ cmd[c].stage = "write" => Stored(cmd[c].id)

Known ==
    /\ added \subseteq 1..items /\ worked \subseteq added /\ missed \subseteq 1..items
    /\ \A w \in Workers : run[w].brief \subseteq added

Queue ==
    /\ Apart /\ NothingLost /\ Known /\ Numbered
    /\ \A c \in Cmds : Seen(c) /\ Made(c)

-----------------------------------------------------------------------------
(* What the shared steps of the commands do. *)

LEMMA Bounds ==
    /\ MaxItems \in Nat /\ MaxLaunches \in Nat /\ MaxTroubles \in Nat /\ MaxProgress \in Nat
    /\ MaxDrainCycles \in Nat /\ MaxIdenticalFailures \in Nat /\ MaxNoProgress \in Nat
    /\ 0 \in Texts /\ 0 \in 0..MaxLaunches
<1>1. {MaxDrainCycles, MaxIdenticalFailures, MaxNoProgress, MaxLaunches, MaxItems,
        MaxProgress, MaxTroubles} \subseteq Nat
  BY JdiAssumption
<1> QED BY <1>1 DEF Texts

LEMMA IdleTyped == Idle \in CmdRecs
BY Bounds DEF Idle, CmdRecs, CmdStages, Kinds, Copies

LEMMA DeadTyped == Dead \in RunRecs
BY DEF Dead, RunRecs, RunStages, Modes, States, Copies

LEMMA FreeTyped == Free \in LockRecs
BY Bounds DEF Free, LockRecs

\* A command goes on to its next stage.
LEMMA GotoEffect ==
    ASSUME cmd \in [Cmds -> CmdRecs], NEW c \in Cmds, NEW s \in CmdStages, Goto(c, s)
    PROVE  /\ cmd' \in [Cmds -> CmdRecs]
           /\ cmd'[c].stage = s /\ cmd'[c].kind = cmd[c].kind /\ cmd'[c].copy = None
           /\ cmd'[c].id = cmd[c].id /\ cmd'[c].top = cmd[c].top
           /\ \A d \in Cmds : d # c => cmd'[d] = cmd[d]
BY DEF Goto, CmdRecs, Copies

\* A command ends.
LEMMA LeaveEffect ==
    ASSUME cmd \in [Cmds -> CmdRecs], NEW c \in Cmds, Leave(c)
    PROVE  /\ cmd' \in [Cmds -> CmdRecs]
           /\ cmd'[c] = Idle /\ cmd'[c].stage = "idle" /\ cmd'[c].kind = "add"
           /\ cmd'[c].copy = None
           /\ \A d \in Cmds : d # c => cmd'[d] = cmd[d]
BY IdleTyped DEF Leave, Idle

-----------------------------------------------------------------------------
(* Shape. *)

LEMMA EntryStages ==
    /\ Entry["start"] = "guard" /\ Entry["drain"] = "look"
    /\ Entry["takeover"] = "kill" /\ Entry["add"] = "scan"
BY DEF Entry

LEMMA ShapeInit == Init => Shape
<1> SUFFICES ASSUME Init PROVE Shape OBVIOUS
<1>1. Types
  <2>1. meta \in MetaRecs BY DEF Init, MetaRecs, States, Modes
  <2>2. cmd \in [Cmds -> CmdRecs] /\ run \in [Workers -> RunRecs] /\ lock \in LockRecs
    BY IdleTyped, DeadTyped, FreeTyped DEF Init
  <2>4. pending \in Dirs /\ draining \in Dirs /\ drained \in Dirs BY DEF Init, Dirs, Empty
  <2>5. launches \in 0..MaxLaunches /\ items \in 0..MaxItems BY Bounds DEF Init
  <2> QED BY <2>1, <2>2, <2>4, <2>5 DEF Init, Types
<1>2. \A c \in Cmds : Command1(c)
  BY DEF Init, Command1, Path, HasWorker, Copied, IsAlone, Idle
<1>3. \A w \in Workers : Worker1(w)
  BY DEF Init, Worker1, Dead
<1> QED BY <1>1, <1>2, <1>3 DEF Shape

\* One command goes on, along its path, or ends; the others stay where they are.
Proceeds(c) ==
    /\ cmd' \in [Cmds -> CmdRecs]
    /\ \A d \in Cmds : d # c => cmd'[d] = cmd[d]
    /\ \/ cmd'[c].stage = "idle" /\ cmd'[c].copy = None
       \/ /\ cmd[c].stage # "idle" /\ cmd'[c].kind = cmd[c].kind
          /\ cmd'[c].id = cmd[c].id /\ Path(c)' /\ Copied(c)'

LEMMA GotoProceeds ==
    ASSUME cmd \in [Cmds -> CmdRecs], NEW c \in Cmds, NEW s \in CmdStages, Goto(c, s),
           cmd[c].stage # "idle", PathAt(cmd[c].kind, s)
    PROVE  Proceeds(c)
BY GotoEffect DEF Proceeds, Path, Copied

LEMMA LeaveProceeds ==
    ASSUME cmd \in [Cmds -> CmdRecs], NEW c \in Cmds, Leave(c)
    PROVE  Proceeds(c)
BY LeaveEffect DEF Proceeds

LEMMA CommandsKept ==
    ASSUME Shape, NEW c \in Cmds, Proceeds(c)
    PROVE  \A d \in Cmds : Command1(d)'
<1> SUFFICES ASSUME NEW d \in Cmds PROVE Command1(d)' OBVIOUS
<1>1. Command1(d) /\ Command1(c) BY DEF Shape
<1>2. CASE d = c
  BY <1>1, <1>2 DEF Proceeds, Command1, Path, HasWorker, Copied, IsAlone
<1>3. CASE d # c
  BY <1>1, <1>3 DEF Proceeds, Command1, Path, HasWorker, Copied, IsAlone
<1> QED BY <1>2, <1>3

\* The workers' step leaves the commands alone.
LEMMA CommandsUnchanged ==
    ASSUME Shape, UNCHANGED cmd
    PROVE  \A d \in Cmds : Command1(d)'
BY DEF Shape, Command1, Path, HasWorker, Copied, IsAlone

LEMMA WorkersUnchanged ==
    ASSUME Shape, UNCHANGED run
    PROVE  \A w \in Workers : Worker1(w)'
BY DEF Shape, Worker1

\* A step of a command keeps the shape if what it writes is typed.
LEMMA ShapeByCommand ==
    ASSUME Shape, NEW c \in Cmds, Proceeds(c), lock' \in LockRecs, meta' \in MetaRecs,
           run' \in [Workers -> RunRecs], \A w \in Workers : Worker1(w)',
           pending' \in Dirs, added' \in SUBSET Nat, mishaps' \in SUBSET Mishaps,
           UNCHANGED <<agent, draining, drained, worked, missed, capped>>,
           UNCHANGED <<launches, items, progress>>, troubles' \in Nat
    PROVE  Shape'
<1>1. Types' BY DEF Shape, Types, Proceeds
<1> QED BY <1>1, CommandsKept DEF Shape

\* The last number is the largest of the names found and the one before.
LEMMA TopTyped ==
    ASSUME NEW S \in SUBSET Names, NEW t \in Texts
    PROVE  /\ Max(S \cup {t}) \in S \cup {t} /\ Max(S \cup {t}) \in Texts
           /\ \A n \in S \cup {t} : n <= Max(S \cup {t})
<1> DEFINE T == S \cup {t}
           R == {MaxItems - x : x \in T}
<1>0. MaxItems \in Nat /\ T \subseteq 0..MaxItems BY Bounds DEF Names, Texts
<1>1. R \subseteq Nat /\ R # {} BY <1>0
<1>2. PICK m \in R : \A r \in R : m <= r
  <2>1. PICK m \in R : \A r \in R : <<r, m>> \notin OpToRel(<, Nat)
    BY <1>1, NatLessThanWellFounded, WFMin
  <2> QED
    <3> SUFFICES ASSUME NEW r \in R PROVE m <= r OBVIOUS
    <3>1. m \in Nat /\ r \in Nat BY <1>1
    <3>2. ~(r < m) BY <2>1, <3>1 DEF OpToRel
    <3> QED BY <3>1, <3>2
<1>3. PICK x \in T : \A y \in T : x >= y
  <2>1. PICK x \in T : m = MaxItems - x BY <1>2
  <2>2. \A y \in T : m <= MaxItems - y BY <1>2
  <2> QED BY <1>0, <2>1, <2>2
<1>4. Max(T) \in T /\ \A y \in T : Max(T) >= y BY <1>3 DEF Max
<1> QED BY <1>0, <1>4 DEF Texts

LEMMA ShapeIssue ==
    ASSUME Shape, NEW c \in Cmds, NEW k \in Kinds, Issue(c, k)
    PROVE  /\ Shape'
           /\ cmd[c].stage = "idle" /\ cmd'[c].stage = Entry[k] /\ cmd'[c].kind = k
           /\ cmd'[c].top = 0 /\ \A d \in Cmds : d # c => cmd'[d] = cmd[d]
           /\ cmd'[c].stage \in {"guard", "look", "kill", "scan"} /\ cmd'[c].copy = None
           /\ k = "add" => cmd'[c].id = items' /\ items' = items + 1
           /\ items' \in Nat /\ items <= items'
<1>1. /\ launches \in Nat /\ items \in Nat /\ launches' \in 0..MaxLaunches
      /\ items' \in 0..MaxItems /\ items <= items'
      /\ k \in {"start", "drain"} => launches' \in Workers
      /\ k = "add" => items' = items + 1
      /\ UNCHANGED <<lock, run>>
  <2>1. /\ launches \in 0..MaxLaunches /\ items \in 0..MaxItems /\ MaxLaunches \in Nat
        /\ MaxItems \in Nat
    BY Bounds DEF Shape, Types
  <2>2. UNCHANGED <<lock, run>> BY DEF Issue
  <2>3. IF k \in {"start", "drain"}
          THEN launches < MaxLaunches /\ launches' = launches + 1 /\ items' = items
          ELSE IF k = "add" THEN items < MaxItems /\ items' = items + 1 /\ launches' = launches
                            ELSE UNCHANGED <<launches, items>>
    BY DEF Issue
  <2>4. CASE k \in {"start", "drain"} BY <2>1, <2>2, <2>3, <2>4 DEF Workers
  <2>5. CASE k = "add" BY <2>1, <2>2, <2>3, <2>5
  <2>6. CASE k \notin {"start", "drain", "add"} BY <2>1, <2>2, <2>3, <2>6
  <2> QED BY <2>4, <2>5, <2>6
<1>2. Entry[k] \in CmdStages /\ Entry[k] \in {"guard", "look", "kill", "scan"}
  BY EntryStages DEF CmdStages, Kinds
<1>3. /\ cmd' \in [Cmds -> CmdRecs]
      /\ cmd'[c].stage = Entry[k] /\ cmd'[c].kind = k /\ cmd'[c].top = 0 /\ cmd'[c].copy = None
      /\ cmd'[c].id = IF k = "add" THEN items' ELSE launches'
      /\ \A d \in Cmds : d # c => cmd'[d] = cmd[d]
  <2>1. PICK j \in Nat : j = IF k = "add" THEN items' ELSE launches' BY <1>1, Bounds
  <2>2. PICK e \in CmdStages : e = Entry[k] BY <1>2
  <2> DEFINE n == [Idle EXCEPT !.stage = e, !.kind = k, !.id = j]
  <2>3. n \in CmdRecs BY IdleTyped DEF CmdRecs
  <2>4. n.stage = e /\ n.kind = k /\ n.id = j /\ n.top = 0 /\ n.copy = None BY DEF Idle
  <2>5. cmd' = [cmd EXCEPT ![c] = n] BY <2>1, <2>2 DEF Issue
  <2>6. cmd \in [Cmds -> CmdRecs] BY DEF Shape, Types
  <2> HIDE DEF n
  <2> QED BY <2>1, <2>2, <2>3, <2>4, <2>5, <2>6
<1>4. Types' BY <1>1, <1>3 DEF Issue, Shape, Types, queue, history
<1>5. \A d \in Cmds : Command1(d)'
  <2>1. k \in Alone => \A d \in Cmds : cmd[d].stage = "idle" BY DEF Issue
  <2>2. \A d \in Cmds : cmd[d].stage # "idle" => cmd[d].kind \notin Alone BY DEF Issue
  <2>3. Command1(c)'
    BY <1>1, <1>3, <2>1, EntryStages DEF Command1, Path, PathAt, HasWorker, Copied, IsAlone, Kinds
  <2>4. \A d \in Cmds : d # c => Command1(d)'
    BY <1>1, <1>3, <2>2 DEF Shape, Command1, Path, HasWorker, Copied, IsAlone
  <2> QED BY <2>3, <2>4
<1>6. cmd[c].stage = "idle" BY DEF Issue
<1>7. items' \in Nat BY <1>1, Bounds
<1>8. Shape' BY <1>1, <1>4, <1>5, WorkersUnchanged DEF Shape
<1>9. cmd'[c].stage \in {"guard", "look", "kill", "scan"} BY <1>2, <1>3
<1> QED BY <1>1, <1>3, <1>6, <1>7, <1>8, <1>9

LEMMA ShapeLook ==
    ASSUME Shape, NEW c \in Cmds, Look(c)
    PROVE  Shape'
<1>0. Types /\ Path(c) BY DEF Shape, Command1
<1>1. Proceeds(c)
  BY <1>0, GotoProceeds, LeaveProceeds DEF Look, Types, CmdStages, Path, PathAt
<1>2. \A w \in Workers : Worker1(w)' BY WorkersUnchanged DEF Look
<1> QED BY <1>0, <1>1, <1>2, ShapeByCommand DEF Look, Types, queue, history, counts

LEMMA ShapeGuard ==
    ASSUME Shape, NEW c \in Cmds, Guard(c)
    PROVE  Shape'
<1>0. Types /\ Path(c) BY DEF Shape, Command1
<1>1. Proceeds(c)
  BY <1>0, GotoProceeds, LeaveProceeds DEF Guard, Types, CmdStages, Path, PathAt
<1>2. \A w \in Workers : Worker1(w)' BY WorkersUnchanged DEF Guard
<1> QED BY <1>0, <1>1, <1>2, ShapeByCommand DEF Guard, Types, queue, history, counts

LEMMA ShapeAcquire ==
    ASSUME Shape, NEW c \in Cmds, Acquire(c)
    PROVE  Shape'
<1>0. Types /\ Path(c) BY DEF Shape, Command1
<1>1. Proceeds(c)
  BY <1>0, GotoProceeds, LeaveProceeds DEF Acquire, Types, CmdStages, Path, PathAt
<1>2. \A w \in Workers : Worker1(w)' BY WorkersUnchanged DEF Acquire
<1>3. lock' \in LockRecs
  <2>1. [made |-> TRUE, owner |-> 0] \in LockRecs BY Bounds DEF LockRecs
  <2> QED BY <1>0, <2>1 DEF Acquire, Types
<1> QED BY <1>0, <1>1, <1>2, <1>3, ShapeByCommand DEF Acquire, Types, queue, history, counts

LEMMA ShapeReadOwner ==
    ASSUME Shape, NEW c \in Cmds, ReadOwner(c)
    PROVE  Shape'
<1>0. Types /\ Path(c) BY DEF Shape, Command1
<1>1. Proceeds(c)
  BY <1>0, GotoProceeds, LeaveProceeds DEF ReadOwner, Types, CmdStages, Path, PathAt
<1>2. \A w \in Workers : Worker1(w)' BY WorkersUnchanged DEF ReadOwner
<1> QED BY <1>0, <1>1, <1>2, ShapeByCommand DEF ReadOwner, Types, queue, history, counts

LEMMA ShapeReclaim ==
    ASSUME Shape, NEW c \in Cmds, Reclaim(c)
    PROVE  Shape'
<1>0. Types /\ Path(c) BY DEF Shape, Command1
<1>1. Proceeds(c)
  BY <1>0, GotoProceeds DEF Reclaim, Types, CmdStages, Path, PathAt
<1>2. \A w \in Workers : Worker1(w)' BY WorkersUnchanged DEF Reclaim
<1>3. mishaps' \in SUBSET Mishaps BY <1>0 DEF Reclaim, Mishap, Mishaps, Types
<1> QED BY <1>0, <1>1, <1>2, <1>3, FreeTyped, ShapeByCommand DEF Reclaim, Types, queue, counts

LEMMA ShapeCheckAlive ==
    ASSUME Shape, NEW c \in Cmds, CheckAlive(c)
    PROVE  Shape'
<1>0. Types /\ Path(c) BY DEF Shape, Command1
<1>1. Proceeds(c)
  BY <1>0, GotoProceeds, LeaveProceeds DEF CheckAlive, Types, CmdStages, Path, PathAt
<1>2. \A w \in Workers : Worker1(w)' BY WorkersUnchanged DEF CheckAlive
<1>3. lock' \in LockRecs BY <1>0, FreeTyped DEF CheckAlive, Types
<1> QED BY <1>0, <1>1, <1>2, <1>3, ShapeByCommand DEF CheckAlive, Types, queue, history, counts

LEMMA ShapeWriteOwner ==
    ASSUME Shape, NEW c \in Cmds, WriteOwner(c)
    PROVE  Shape'
<1>0. Types /\ Path(c) /\ HasWorker(c) BY DEF Shape, Command1
<1>1. Proceeds(c)
  BY <1>0, GotoProceeds, LeaveProceeds DEF WriteOwner, Types, CmdStages, Path, PathAt
<1>2. \A w \in Workers : Worker1(w)' BY WorkersUnchanged DEF WriteOwner
<1>3. lock' \in LockRecs
  <2>1. cmd[c].id \in 0..MaxLaunches
    BY <1>0, Bounds DEF WriteOwner, Path, PathAt, HasWorker, Workers
  <2> QED BY <1>0, <2>1 DEF WriteOwner, Types, LockRecs
<1> QED BY <1>0, <1>1, <1>2, <1>3, ShapeByCommand DEF WriteOwner, Types, queue, history, counts

\* meta_set() reads: the copy has the key that the command sets, the rest as it is in meta.
LEMMA ReadMetaEffect ==
    ASSUME Shape, NEW c \in Cmds, ReadMeta(c)
    PROVE  /\ cmd' \in [Cmds -> CmdRecs]
           /\ cmd[c].stage \in {"setup", "pid", "state", "stop"} /\ cmd[c].copy = None
           /\ cmd'[c].stage = cmd[c].stage /\ cmd'[c].kind = cmd[c].kind
           /\ cmd'[c].id = cmd[c].id /\ cmd'[c].top = cmd[c].top
           /\ Copied(c)'
           /\ cmd[c].stage = "pid" => cmd'[c].copy.state = meta.state
           /\ \A d \in Cmds : d # c => cmd'[d] = cmd[d]
<1>0. Types /\ Path(c) /\ HasWorker(c) BY DEF Shape, Command1
<1>1. cmd[c].stage \in {"setup", "pid", "state", "stop"} /\ cmd[c].copy = None BY DEF ReadMeta
<1>2. PICK m \in MetaRecs :
        /\ Copy(c, m)
        /\ cmd[c].stage = "setup" => m.state \in {"starting", "draining"}
        /\ cmd[c].stage = "pid" => m.pid = cmd[c].id /\ m.state = meta.state
        /\ cmd[c].stage = "state" => m.state = "running"
        /\ cmd[c].stage = "stop" => m.state = "stopped"
  <2>0. meta \in MetaRecs BY <1>0 DEF Types
  <2>1. CASE cmd[c].stage = "setup" /\ cmd[c].kind = "start"
    <3>1. PICK x \in InitialModes("start"), y \in Caps :
             Copy(c, [meta EXCEPT !.state = "starting", !.mode = x, !.cap = y])
      BY <2>1 DEF ReadMeta
    <3>2. x \in Modes BY DEF InitialModes, Modes
    <3> DEFINE m == [meta EXCEPT !.state = "starting", !.mode = x, !.cap = y]
    <3>3. m \in MetaRecs /\ m.state = "starting" BY <2>0, <3>2 DEF MetaRecs, States
    <3> QED BY <2>1, <3>1, <3>3
  <2>2. CASE cmd[c].stage = "setup" /\ cmd[c].kind = "drain"
    <3>1. PICK x \in InitialModes("drain") :
             Copy(c, [meta EXCEPT !.state = "draining", !.mode = x])
      BY <2>2 DEF ReadMeta
    <3>2. x \in Modes BY DEF InitialModes, Modes
    <3> DEFINE m == [meta EXCEPT !.state = "draining", !.mode = x]
    <3>3. m \in MetaRecs /\ m.state = "draining" BY <2>0, <3>2 DEF MetaRecs, States
    <3> QED BY <2>2, <3>1, <3>3
  <2>3. CASE cmd[c].stage = "pid"
    <3> DEFINE m == [meta EXCEPT !.pid = cmd[c].id]
    <3>1. cmd[c].id \in Workers BY <1>0, <2>3 DEF Path, PathAt, HasWorker
    <3>2. m \in MetaRecs /\ m.pid = cmd[c].id /\ m.state = meta.state
      BY <2>0, <3>1 DEF MetaRecs
    <3>3. Copy(c, m) BY <2>3 DEF ReadMeta
    <3> QED BY <2>3, <3>2, <3>3
  <2>4. CASE cmd[c].stage = "state"
    <3> DEFINE m == [meta EXCEPT !.state = "running"]
    <3>1. m \in MetaRecs /\ m.state = "running" BY <2>0 DEF MetaRecs, States
    <3>2. Copy(c, m) BY <2>4 DEF ReadMeta
    <3> QED BY <2>4, <3>1, <3>2
  <2>5. CASE cmd[c].stage = "stop"
    <3> DEFINE m == [meta EXCEPT !.state = "stopped"]
    <3>1. m \in MetaRecs /\ m.state = "stopped" BY <2>0 DEF MetaRecs, States
    <3>2. Copy(c, m) BY <2>5 DEF ReadMeta
    <3> QED BY <2>5, <3>1, <3>2
  <2>6. cmd[c].stage = "setup" => cmd[c].kind \in {"start", "drain"} BY DEF ReadMeta
  <2> QED BY <1>1, <2>1, <2>2, <2>3, <2>4, <2>5, <2>6
<1>4. /\ cmd' \in [Cmds -> CmdRecs]
      /\ cmd'[c].stage = cmd[c].stage /\ cmd'[c].kind = cmd[c].kind
      /\ cmd'[c].id = cmd[c].id /\ cmd'[c].top = cmd[c].top /\ cmd'[c].copy = m
      /\ \A d \in Cmds : d # c => cmd'[d] = cmd[d]
  BY <1>0, <1>2 DEF Copy, Types, CmdRecs, Copies
<1> QED BY <1>1, <1>2, <1>4 DEF Copied

LEMMA ShapeReadMeta ==
    ASSUME Shape, NEW c \in Cmds, ReadMeta(c)
    PROVE  Shape'
<1>0. Types /\ Path(c) BY DEF Shape, Command1
<1>1. Proceeds(c) BY <1>0, ReadMetaEffect DEF Proceeds, Path, PathAt
<1>2. \A w \in Workers : Worker1(w)' BY WorkersUnchanged DEF ReadMeta
<1> QED BY <1>0, <1>1, <1>2, ShapeByCommand DEF ReadMeta, Types, queue, history, counts

\* meta_set() renames: what was written is in meta.
LEMMA RenamedTyped ==
    ASSUME Types, NEW copy \in Copies, Renamed(copy)
    PROVE  meta' \in MetaRecs /\ meta' = copy /\ copy # None
BY DEF Renamed, Copies

LEMMA ShapeSetup ==
    ASSUME Shape, NEW c \in Cmds, Setup(c)
    PROVE  Shape' /\ meta'.state \in {"starting", "draining"}
<1>0. Types /\ Path(c) /\ Copied(c) /\ cmd[c].copy \in Copies
  BY DEF Shape, Command1, Types, CmdRecs
<1>1. Proceeds(c)
  BY <1>0, GotoProceeds DEF Setup, Types, CmdStages, Path, PathAt
<1>2. \A w \in Workers : Worker1(w)' BY WorkersUnchanged DEF Setup
<1>3. meta' \in MetaRecs /\ meta' = cmd[c].copy /\ cmd[c].copy # None
  BY <1>0, RenamedTyped DEF Setup
<1>4. mishaps' \in SUBSET Mishaps BY <1>0 DEF Setup, Mishap, Mishaps, Types
<1>5. meta'.state \in {"starting", "draining"} BY <1>0, <1>3 DEF Setup, Copied
<1> QED BY <1>0, <1>1, <1>2, <1>3, <1>4, <1>5, ShapeByCommand DEF Setup, Types, queue, counts

LEMMA ShapeSpawn ==
    ASSUME Shape, NEW c \in Cmds, Spawn(c)
    PROVE  /\ Shape' /\ cmd[c].id \in Workers /\ run'[cmd[c].id].stage = "boot"
           /\ run'[cmd[c].id].brief = {}
           /\ \A w \in Workers : w # cmd[c].id => run'[w] = run[w]
<1>0. Types /\ Path(c) /\ HasWorker(c) BY DEF Shape, Command1
<1>1. Proceeds(c)
  BY <1>0, GotoProceeds DEF Spawn, Types, CmdStages, Path, PathAt
<1>2. cmd[c].id \in Workers BY <1>0 DEF Spawn, Path, PathAt, HasWorker
<1>3. PICK r \in RunRecs : /\ run' = [run EXCEPT ![cmd[c].id] = r]
                            /\ r.stage = "boot" /\ r.copy = None /\ r.brief = {}
  <2> DEFINE r == [Dead EXCEPT !.stage = "boot"]
  <2>1. r \in RunRecs BY DeadTyped DEF RunRecs, RunStages
  <2>2. r.stage = "boot" /\ r.copy = None /\ r.brief = {} BY DEF Dead
  <2> QED BY <2>1, <2>2 DEF Spawn
<1>4. run' \in [Workers -> RunRecs] BY <1>0, <1>3 DEF Types
<1>5. /\ run'[cmd[c].id].stage = "boot" /\ run'[cmd[c].id].brief = {}
      /\ run'[cmd[c].id].copy = None /\ \A w \in Workers : w # cmd[c].id => run'[w] = run[w]
  BY <1>0, <1>2, <1>3 DEF Types
<1>6. \A w \in Workers : Worker1(w)' BY <1>2, <1>5 DEF Worker1, Shape
<1> QED BY <1>0, <1>1, <1>2, <1>4, <1>5, <1>6, ShapeByCommand
        DEF Spawn, Types, queue, history, counts

LEMMA ShapeRecordPid ==
    ASSUME Shape, NEW c \in Cmds, RecordPid(c)
    PROVE  /\ Shape' /\ cmd[c].copy # None /\ meta' = cmd[c].copy /\ meta'.pid = cmd[c].id
           /\ cmd'[c].stage \in {"state", "idle"} /\ \A d \in Cmds : d # c => cmd'[d] = cmd[d]
<1>0. Types /\ Path(c) /\ Copied(c) /\ cmd[c].copy \in Copies
  BY DEF Shape, Command1, Types, CmdRecs
<1>1. Proceeds(c)
  BY <1>0, GotoProceeds, LeaveProceeds DEF RecordPid, Types, CmdStages, Path, PathAt
<1>2. \A w \in Workers : Worker1(w)' BY WorkersUnchanged DEF RecordPid
<1>3. meta' \in MetaRecs /\ meta' = cmd[c].copy /\ cmd[c].copy # None
  BY <1>0, RenamedTyped DEF RecordPid
<1>4. meta'.pid = cmd[c].id BY <1>0, <1>3 DEF RecordPid, Copied
<1>5. cmd'[c].stage \in {"state", "idle"} /\ \A d \in Cmds : d # c => cmd'[d] = cmd[d]
  BY <1>0, GotoEffect, LeaveEffect DEF RecordPid, Types, CmdStages
<1> QED BY <1>0, <1>1, <1>2, <1>3, <1>4, <1>5, ShapeByCommand
        DEF RecordPid, Types, queue, history, counts

LEMMA ShapeRecordState ==
    ASSUME Shape, NEW c \in Cmds, RecordState(c)
    PROVE  Shape' /\ meta'.state = "running"
<1>0. Types /\ Path(c) /\ Copied(c) /\ cmd[c].copy \in Copies
  BY DEF Shape, Command1, Types, CmdRecs
<1>1. Proceeds(c) BY <1>0, LeaveProceeds DEF RecordState, Types
<1>2. \A w \in Workers : Worker1(w)' BY WorkersUnchanged DEF RecordState
<1>3. meta' \in MetaRecs /\ meta' = cmd[c].copy /\ cmd[c].copy # None
  BY <1>0, RenamedTyped DEF RecordState
<1>4. mishaps' \in SUBSET Mishaps BY <1>0 DEF RecordState, Mishap, Mishaps, Types
<1>5. meta'.state = "running" BY <1>0, <1>3 DEF RecordState, Copied
<1> QED BY <1>0, <1>1, <1>2, <1>3, <1>4, <1>5, FreeTyped, ShapeByCommand
        DEF RecordState, Types, queue, counts

LEMMA ShapeKill ==
    ASSUME Shape, NEW c \in Cmds, Kill(c)
    PROVE  Shape' /\ \A w \in Workers : run'[w] \in {run[w], Dead}
<1>0. Types /\ Path(c) BY DEF Shape, Command1
<1>1. Proceeds(c)
  BY <1>0, GotoProceeds, LeaveProceeds DEF Kill, Types, CmdStages, Path, PathAt
<1>2. run' \in [Workers -> RunRecs] /\ \A w \in Workers : run'[w] \in {run[w], Dead}
  BY <1>0, DeadTyped DEF Kill, Types
<1>3. \A w \in Workers : Worker1(w)' BY <1>2 DEF Shape, Worker1, Dead
<1> QED BY <1>0, <1>1, <1>2, <1>3, ShapeByCommand DEF Kill, Types, queue, history, counts

LEMMA ShapeMarkStopped ==
    ASSUME Shape, NEW c \in Cmds, MarkStopped(c)
    PROVE  Shape' /\ meta'.state = "stopped"
<1>0. Types /\ Path(c) /\ Copied(c) /\ cmd[c].copy \in Copies
  BY DEF Shape, Command1, Types, CmdRecs
<1>1. Proceeds(c) BY <1>0, LeaveProceeds DEF MarkStopped, Types
<1>2. \A w \in Workers : Worker1(w)' BY WorkersUnchanged DEF MarkStopped
<1>3. meta' \in MetaRecs /\ meta' = cmd[c].copy /\ cmd[c].copy # None
  BY <1>0, RenamedTyped DEF MarkStopped
<1>4. mishaps' \in SUBSET Mishaps BY <1>0 DEF MarkStopped, Mishap, Mishaps, Types
<1>5. meta'.state = "stopped" BY <1>0, <1>3 DEF MarkStopped, Copied
<1> QED BY <1>0, <1>1, <1>2, <1>3, <1>4, <1>5, ShapeByCommand DEF MarkStopped, Types, queue, counts

\* next_seq() reads a directory: the files in it are not above the new top.
LEMMA ScanEffect ==
    ASSUME Types, NEW c \in Cmds, Path(c), Scan(c)
    PROVE  /\ cmd' \in [Cmds -> CmdRecs]
           /\ cmd[c].kind = "add" /\ cmd[c].stage # "idle" /\ cmd'[c].kind = "add"
           /\ cmd'[c].id = cmd[c].id /\ cmd'[c].copy = cmd[c].copy
           /\ cmd'[c].stage = After[cmd[c].stage]
           /\ cmd'[c].stage \in {"scan draining", "scan drained", "create"}
           /\ \/ cmd'[c].top = cmd[c].top
              \/ cmd'[c].top \in Files(Directory(cmd[c].stage))
           /\ cmd[c].top <= cmd'[c].top
           /\ \A n \in Files(Directory(cmd[c].stage)) : n <= cmd'[c].top
           /\ \A d \in Cmds : d # c => cmd'[d] = cmd[d]
<1>1. cmd[c].stage \in {"scan", "scan draining", "scan drained"} BY DEF Scan, After
<1>2. After[cmd[c].stage] \in {"scan draining", "scan drained", "create"} BY <1>1 DEF After
<1>3. PICK S \in SUBSET Names : S = Files(Directory(cmd[c].stage)) BY DEF Files
<1>4. cmd[c] \in CmdRecs /\ cmd[c].top \in Texts BY DEF Types, CmdRecs
<1>5. PICK t \in Texts : /\ t = Max(S \cup {cmd[c].top}) /\ t \in S \cup {cmd[c].top}
                         /\ \A n \in S \cup {cmd[c].top} : n <= t
  <2>1. /\ Max(S \cup {cmd[c].top}) \in S \cup {cmd[c].top}
        /\ Max(S \cup {cmd[c].top}) \in Texts
        /\ \A n \in S \cup {cmd[c].top} : n <= Max(S \cup {cmd[c].top})
    BY <1>4, TopTyped
  <2> QED BY <2>1
<1>6. cmd' = [cmd EXCEPT ![c].stage = After[@], ![c].top = t]
  BY <1>3, <1>5 DEF Scan
<1>7. /\ cmd' \in [Cmds -> CmdRecs] /\ cmd'[c].kind = cmd[c].kind
      /\ cmd'[c].id = cmd[c].id /\ cmd'[c].copy = cmd[c].copy
      /\ cmd'[c].stage = After[cmd[c].stage]
      /\ cmd'[c].top = t /\ \A d \in Cmds : d # c => cmd'[d] = cmd[d]
  BY <1>2, <1>4, <1>6 DEF Types, CmdRecs, CmdStages
<1>8. cmd[c].kind = "add" BY <1>1 DEF Path, PathAt
<1> QED BY <1>1, <1>2, <1>3, <1>5, <1>7, <1>8

LEMMA ShapeScan ==
    ASSUME Shape, NEW c \in Cmds, Scan(c)
    PROVE  Shape'
<1>0. Types /\ Path(c) /\ Copied(c) BY DEF Shape, Command1
<1>1. Proceeds(c) BY <1>0, ScanEffect DEF Path, PathAt, Proceeds, Copied
<1>2. \A w \in Workers : Worker1(w)' BY WorkersUnchanged DEF Scan
<1> QED BY <1>0, <1>1, <1>2, ShapeByCommand DEF Scan, Types, queue, history, counts

LEMMA ShapeCreateItem ==
    ASSUME Shape, NEW c \in Cmds, CreateItem(c)
    PROVE  Shape'
<1>0. Types /\ Path(c) /\ cmd[c].id \in Nat BY DEF Shape, Command1, Types, CmdRecs
<1>1. Proceeds(c)
  BY <1>0, GotoProceeds DEF CreateItem, Types, CmdStages, Path, PathAt
<1>2. \A w \in Workers : Worker1(w)' BY WorkersUnchanged DEF CreateItem
<1>3. pending' \in Dirs BY <1>0 DEF CreateItem, Types, Dirs
<1> QED BY <1>0, <1>1, <1>2, <1>3, ShapeByCommand DEF CreateItem, Types, queue, history, counts

LEMMA ShapeWriteItem ==
    ASSUME Shape, NEW c \in Cmds, WriteItem(c)
    PROVE  Shape'
<1>0. Types /\ Path(c) /\ cmd[c].id \in Nat BY DEF Shape, Command1, Types, CmdRecs
<1>1. Proceeds(c) BY <1>0, LeaveProceeds DEF WriteItem, Types
<1>2. \A w \in Workers : Worker1(w)' BY WorkersUnchanged DEF WriteItem
<1>3. added' \in SUBSET Nat BY <1>0 DEF WriteItem, Types
<1> QED BY <1>0, <1>1, <1>2, <1>3, ShapeByCommand DEF WriteItem, Types, queue, counts

LEMMA ShapeKillCmd ==
    ASSUME Shape, NEW c \in Cmds, KillCmd(c)
    PROVE  Shape'
<1>0. Types BY DEF Shape
<1>1. Proceeds(c) BY <1>0, LeaveProceeds DEF KillCmd, Types
<1>2. \A w \in Workers : Worker1(w)' BY WorkersUnchanged DEF KillCmd
<1>3. mishaps' \in SUBSET Mishaps BY <1>0 DEF KillCmd, Mishap, Mishaps, Types
<1> QED BY <1>0, <1>1, <1>2, <1>3, ShapeByCommand DEF KillCmd, Trouble, Types, queue

LEMMA ShapeCommand ==
    ASSUME Shape, NEW c \in Cmds, Command(c) \/ KillCmd(c)
    PROVE  Shape'
BY ShapeLook, ShapeGuard, ShapeAcquire, ShapeReadOwner, ShapeReclaim, ShapeCheckAlive,
   ShapeWriteOwner, ShapeReadMeta, ShapeSetup, ShapeSpawn, ShapeRecordPid, ShapeRecordState,
   ShapeKill, ShapeMarkStopped, ShapeScan, ShapeCreateItem, ShapeWriteItem, ShapeKillCmd
   DEF Command

-----------------------------------------------------------------------------
(* What the steps of a worker do to it. *)

\* One worker goes on; the others stay where they are.
Runs(w) ==
    /\ run' \in [Workers -> RunRecs]
    /\ \A v \in Workers : v # w => run'[v] = run[v]

\* It keeps the brief of its turns.
Continues(w) == run'[w].brief = run[w].brief /\ run'[w].drain = run[w].drain

\* It has only to put its last state into meta.
Ends(w, s) ==
    /\ run'[w].stage = "tell" /\ run'[w].tell = s /\ ~run'[w].drain /\ run'[w].brief = {}
    /\ run'[w].copy = None

LEMMA EndEffect ==
    ASSUME Types, NEW w \in Workers, NEW s \in States, EndRun(w, s)
    PROVE  Runs(w) /\ Ends(w, s)
<1> DEFINE r == [Dead EXCEPT !.stage = "tell", !.tell = s]
<1>1. r \in RunRecs BY DeadTyped DEF RunRecs, RunStages
<1>2. r.stage = "tell" /\ r.tell = s /\ ~r.drain /\ r.brief = {} /\ r.copy = None BY DEF Dead
<1>3. run' = [run EXCEPT ![w] = r] BY DEF EndRun
<1> HIDE DEF r
<1> QED BY <1>1, <1>2, <1>3 DEF Types, Runs, Ends

\* It is killed.
LEMMA KilledEffect ==
    ASSUME Types, NEW w \in Workers, run' = [run EXCEPT ![w] = Dead]
    PROVE  Runs(w) /\ run'[w] = Dead /\ run'[w].stage = "none"
BY DeadTyped DEF Types, Runs, Dead

\* A file is passed over, or moved: what the worker still has to move gets less.
LEMMA PassedEffect ==
    ASSUME Types, NEW w \in Workers, NEW n, Passed(w, n)
    PROVE  /\ Runs(w) /\ Continues(w) /\ run'[w].stage = run[w].stage
           /\ run'[w].attempt = run[w].attempt
           /\ run'[w].copy = run[w].copy /\ run'[w].tell = run[w].tell
BY DEF Passed, Types, Runs, RunRecs, Continues

LEMMA TurnModeTyped ==
    ASSUME Types, NEW w \in Workers
    PROVE  TurnMode(w) \in Modes
BY DEF TurnMode, Types, RunRecs, Modes

LEMMA BootEffect ==
    ASSUME Types, NEW w \in Workers, Worker1(w), Boot(w)
    PROVE  /\ Runs(w) /\ run[w].stage = "boot" /\ run'[w].brief = run[w].brief
           /\ run'[w].copy = None
           /\ \/ run'[w].stage = "claim"
              \/ run'[w].stage = "begin" /\ ~run'[w].drain
<1> DEFINE drain == meta.mode \in {"backlog-dump", "backlog-execute"}
<1>1. run[w] \in RunRecs /\ meta \in MetaRecs /\ Files(pending) \in SUBSET Names
  BY DEF Types, Files
<1>2. meta.mode \in Modes /\ meta.cap \in Caps \cup {0} BY <1>1 DEF MetaRecs
<1>3. run[w].stage = "boot" /\ run[w].copy = None BY DEF Boot, Worker1
<1>4. CASE drain
  <2>1. PICK S \in SUBSET Names : S = Files(pending) BY <1>1
  <2>2. run' = [run EXCEPT ![w] = [run[w] EXCEPT !.stage = "claim", !.mode = meta.mode,
                                      !.cap = meta.cap, !.drain = TRUE, !.list = S]]
    <3>1. drain = TRUE BY <1>4
    <3> QED BY <2>1, <3>1 DEF Boot
  <2> QED BY <1>1, <1>2, <1>3, <2>2 DEF Types, Runs, RunRecs, RunStages
<1>5. CASE ~drain
  <2>1. run' = [run EXCEPT ![w] = [run[w] EXCEPT !.stage = "begin", !.mode = meta.mode,
                                      !.cap = meta.cap, !.drain = FALSE, !.list = {}]]
    <3>1. drain = FALSE BY <1>5
    <3> QED BY <3>1 DEF Boot
  <2> QED BY <1>1, <1>2, <1>3, <2>1 DEF Types, Runs, RunRecs, RunStages
<1> QED BY <1>4, <1>5

\* meta_set() of a worker reads, and what it wrote is renamed over meta.
LEMMA WorkerReadsMetaEffect ==
    ASSUME Types, NEW w \in Workers, WorkerReadsMeta(w)
    PROVE  /\ Runs(w) /\ Continues(w) /\ run[w].stage \in {"begin", "tell"}
           /\ run'[w].stage = run[w].stage /\ run'[w].tell = run[w].tell
           /\ run'[w].attempt = run[w].attempt
           /\ run'[w].copy.state = IF run[w].stage = "begin" THEN "running" ELSE run[w].tell
<1>1. run[w] \in RunRecs /\ meta \in MetaRecs BY DEF Types
<1>2. run[w].mode \in Modes /\ run[w].tell \in States BY <1>1 DEF RunRecs
<1>3. PICK m \in MetaRecs :
        /\ run' = [run EXCEPT ![w].copy = m]
        /\ m.state = IF run[w].stage = "begin" THEN "running" ELSE run[w].tell
  <2>1. CASE run[w].stage = "begin"
    <3> DEFINE m == [meta EXCEPT !.state = "running", !.mode = run[w].mode]
    <3>1. m \in MetaRecs /\ m.state = "running" BY <1>1, <1>2 DEF MetaRecs, States
    <3>2. run' = [run EXCEPT ![w].copy = m] BY <2>1 DEF WorkerReadsMeta
    <3> QED BY <2>1, <3>1, <3>2
  <2>2. CASE run[w].stage # "begin"
    <3> DEFINE m == [meta EXCEPT !.state = run[w].tell]
    <3>1. m \in MetaRecs /\ m.state = run[w].tell BY <1>1, <1>2 DEF MetaRecs
    <3>2. run' = [run EXCEPT ![w].copy = m] BY <2>2 DEF WorkerReadsMeta
    <3> QED BY <2>2, <3>1, <3>2
  <2> QED BY <2>1, <2>2
<1>4. run[w].stage \in {"begin", "tell"} BY DEF WorkerReadsMeta
<1> QED BY <1>1, <1>3, <1>4 DEF Types, Runs, RunRecs, Copies, Continues

\* The file is in meta: it has the pid it was read with.
LEMMA TellEffect ==
    ASSUME Shape, NEW w \in Workers, Tell(w)
    PROVE  /\ Runs(w) /\ run[w].stage = "tell"
           /\ meta' \in MetaRecs /\ meta'.state = run[w].tell
           /\ \/ /\ run'[w].stage = "begin" /\ Continues(w) /\ run'[w].copy = None
                 /\ run[w].tell \in {"retrying", "draining"}
              \/ run'[w] = Dead /\ run'[w].stage = "none"
<1>1. Types /\ Worker1(w) /\ run[w] \in RunRecs BY DEF Shape, Types
<1>2. run[w].copy \in Copies /\ run[w].stage = "tell" BY <1>1 DEF RunRecs, Tell
<1>3. meta' \in MetaRecs /\ meta' = run[w].copy /\ run[w].copy # None
  BY <1>1, <1>2, RenamedTyped DEF Tell
<1>4. meta'.state = run[w].tell BY <1>1, <1>2, <1>3 DEF Worker1
<1>5. CASE run[w].tell \in {"retrying", "draining"}
  <2>1. run' = [run EXCEPT ![w] =
                  [run[w] EXCEPT !.stage = "begin", !.tell = "none", !.copy = None]]
    BY <1>5 DEF Tell
  <2> QED
    BY <1>1, <1>2, <1>3, <1>4, <1>5, <2>1
       DEF Types, Runs, RunRecs, RunStages, States, Copies, Continues
<1>6. CASE run[w].tell \notin {"retrying", "draining"}
  <2>1. run' = [run EXCEPT ![w] = Dead] BY <1>6 DEF Tell
  <2> QED BY <1>1, <1>2, <1>3, <1>4, <2>1, KilledEffect
<1> QED BY <1>5, <1>6

LEMMA TurnBeginsEffect ==
    ASSUME Shape, NEW w \in Workers, TurnBegins(w)
    PROVE  /\ Runs(w) /\ run[w].stage = "begin" /\ run'[w].stage = "turn" /\ Continues(w)
           /\ run'[w].attempt > 0 /\ run'[w].copy = None
           /\ meta' \in MetaRecs /\ meta'.state = "running"
<1>1. Types /\ Worker1(w) /\ run[w] \in RunRecs BY DEF Shape, Types
<1>2. run[w].copy \in Copies /\ run[w].stage = "begin" BY <1>1 DEF RunRecs, TurnBegins
<1>3. meta' \in MetaRecs /\ meta' = run[w].copy /\ run[w].copy # None
  BY <1>1, <1>2, RenamedTyped DEF TurnBegins
<1>4. meta'.state = "running" BY <1>1, <1>2, <1>3 DEF Worker1
<1>5. PICK n \in Nat : n = run[w].attempt + 1 /\ n > 0 BY <1>1 DEF RunRecs
<1>6. run' = [run EXCEPT ![w].stage = "turn", ![w].attempt = n, ![w].copy = None]
  BY <1>5 DEF TurnBegins
<1> QED BY <1>1, <1>2, <1>3, <1>4, <1>5, <1>6
        DEF Types, Runs, RunRecs, RunStages, Copies, Continues

LEMMA FinalizedEffect ==
    ASSUME Types, NEW w \in Workers, Worker1(w), Finalized(w)
    PROVE  /\ Runs(w) /\ run[w].stage = "finalize" /\ run'[w].stage = "claim" /\ Continues(w)
           /\ run'[w].attempt = run[w].attempt /\ run'[w].copy = None
<1>1. PICK S \in SUBSET Names : S = Files(pending) BY DEF Files
<1>2. /\ run' = [run EXCEPT ![w].stage = "claim", ![w].list = S]
      /\ run[w].stage = "finalize" /\ run[w].copy = None
  BY <1>1 DEF Finalized, Worker1
<1>3. run[w] \in RunRecs BY DEF Types
<1> QED BY <1>2, <1>3 DEF Types, Runs, RunRecs, RunStages, Continues

LEMMA AdvanceEffect ==
    ASSUME Types, NEW w \in Workers, Worker1(w), Advance(w)
    PROVE  /\ Runs(w) /\ run[w].stage = "turn" /\ run'[w].stage = "begin" /\ Continues(w)
           /\ run'[w].copy = None
<1>1. /\ run[w] \in RunRecs /\ run[w].attempt - 1 \in Nat
      /\ run[w].stage = "turn" /\ run[w].copy = None
  BY DEF Types, RunRecs, Worker1, Advance
<1>2. PICK m \in Modes : run' = [run EXCEPT ![w] = [@ EXCEPT !.stage = "begin", !.same = 0,
                                   !.attempt = run[w].attempt - 1, !.mode = m]]
  BY DEF Advance, Modes
<1> QED BY <1>1, <1>2 DEF Types, Runs, RunRecs, RunStages, Continues

LEMMA TurnDoneEffect ==
    ASSUME Types, NEW w \in Workers, Worker1(w), TurnDone(w)
    PROVE  /\ Runs(w) /\ run[w].stage = "turn" /\ Continues(w)
           /\ run'[w].attempt > 0 /\ run'[w].copy = None
           /\ \/ run[w].drain /\ run'[w].stage = "finalize"
              \/ ~run[w].drain /\ run'[w].stage = "claim"
<1>1. /\ run[w] \in RunRecs /\ run[w].attempt > 0
      /\ run[w].stage = "turn" /\ run[w].copy = None
  BY DEF Types, Worker1, TurnDone
<1>2. TurnMode(w) \in Modes BY TurnModeTyped
<1>3. CASE run[w].drain
  BY <1>1, <1>2, <1>3 DEF TurnDone, Types, Runs, RunRecs, RunStages, Files, Continues
<1>4. CASE ~run[w].drain
  BY <1>1, <1>2, <1>4 DEF TurnDone, Types, Runs, RunRecs, RunStages, Files, Continues
<1> QED BY <1>3, <1>4

LEMMA RecreateEffect ==
    ASSUME Types, NEW w \in Workers, Worker1(w), Recreate(w)
    PROVE  /\ Runs(w) /\ run[w].stage = "turn" /\ run'[w].stage = "begin" /\ Continues(w)
           /\ run'[w].copy = None
<1>1. /\ run[w] \in RunRecs /\ TurnMode(w) \in Modes
      /\ run[w].stage = "turn" /\ run[w].copy = None
  BY TurnModeTyped DEF Types, Worker1, Recreate
<1> QED BY <1>1 DEF Recreate, Types, Runs, RunRecs, RunStages, Continues

LEMMA RetryEffect ==
    ASSUME Types, NEW w \in Workers, Worker1(w), Retry(w)
    PROVE  /\ Runs(w) /\ run[w].stage = "turn" /\ progress' \in Nat
           /\ \/ Ends(w, "stopped")
              \/ /\ run'[w].stage = "tell" /\ run'[w].tell = "retrying" /\ Continues(w)
                 /\ run'[w].copy = None
<1>1. run[w] \in RunRecs /\ TurnMode(w) \in Modes /\ progress \in Nat BY TurnModeTyped DEF Types
<1>2. /\ run[w].stage = "turn" /\ run[w].copy = None
      /\ \/ EndRun(w, "stopped")
         \/ \E still, same \in Nat :
              run' = [run EXCEPT ![w] = [@ EXCEPT !.stage = "tell", !.tell = "retrying",
                              !.mode = TurnMode(w), !.still = still, !.fp = TRUE, !.same = same]]
  <2>1. PICK moved, alike \in BOOLEAN :
          LET r == run[w]
              still == IF r.fp /\ ~moved THEN r.still + 1 ELSE 0
              same == IF alike THEN r.same + 1 ELSE 1
          IN
          /\ r.stage = "turn"
          /\ IF \/ r.cap > 0 /\ r.attempt >= r.cap
                \/ still >= MaxNoProgress
                \/ same >= MaxIdenticalFailures
               THEN EndRun(w, "stopped")
             ELSE run' = [run EXCEPT ![w] = [@ EXCEPT !.stage = "tell", !.tell = "retrying",
                             !.mode = TurnMode(w), !.still = still, !.fp = TRUE, !.same = same]]
    BY DEF Retry
  <2>2. /\ (IF run[w].fp /\ ~moved THEN run[w].still + 1 ELSE 0) \in Nat
        /\ (IF alike THEN run[w].same + 1 ELSE 1) \in Nat
    BY <1>1 DEF RunRecs
  <2> QED BY <2>1, <2>2 DEF Worker1
<1>3. progress' \in Nat BY <1>1 DEF Retry
<1>4. CASE EndRun(w, "stopped") BY <1>2, <1>3, <1>4, EndEffect DEF States
<1>5. ASSUME NEW still \in Nat, NEW same \in Nat,
             run' = [run EXCEPT ![w] = [@ EXCEPT !.stage = "tell", !.tell = "retrying",
                              !.mode = TurnMode(w), !.still = still, !.fp = TRUE, !.same = same]]
      PROVE  /\ Runs(w) /\ run'[w].stage = "tell" /\ run'[w].tell = "retrying" /\ Continues(w)
             /\ run'[w].copy = None
  BY <1>1, <1>2, <1>5 DEF Types, Runs, RunRecs, RunStages, States, Continues
<1> QED BY <1>2, <1>3, <1>4, <1>5

\* claim() ends: with the brief of the first turns, of another drain cycle, or the run ends.
LEMMA ClaimEffect ==
    ASSUME Types, NEW w \in Workers, Worker1(w), NEW found \in SUBSET Held(draining),
           Claim(w, found)
    PROVE  /\ Runs(w) /\ run[w].stage = "claim" /\ missed' \in SUBSET Nat /\ capped' \in BOOLEAN
           /\ missed' = missed \cup (Held(draining) \ (found \cap added))
           /\ run'[w].copy = None
           /\ \/ /\ run'[w].stage = "begin" /\ run'[w].brief = found \cap added
                 /\ UNCHANGED capped
              \/ /\ run'[w].stage = "tell" /\ run'[w].brief = found \cap added
                 /\ run'[w].tell = "draining" /\ UNCHANGED capped
              \/ Ends(w, "done") /\ (capped' \/ found = {})
<1> DEFINE brief == found \cap added
           first == run[w].attempt = 0
           more == found # {} /\ run[w].cycles < MaxDrainCycles
<1>1. /\ run[w] \in RunRecs /\ brief \in SUBSET Nat /\ Held(draining) \in SUBSET Nat
      /\ run[w].stage = "claim" /\ run[w].copy = None
  BY DEF Types, Dirs, Held, Files, Claim, Worker1
<1>2. /\ missed' = missed \cup (Held(draining) \ brief) /\ missed' \in SUBSET Nat
      /\ capped \in BOOLEAN
  BY <1>1 DEF Claim, Types
<1>3. PICK B \in SUBSET Nat : B = brief BY <1>1
<1>4. CASE first
  <2>1. run' = [run EXCEPT ![w].stage = "begin", ![w].brief = B] /\ UNCHANGED capped
    BY <1>3, <1>4 DEF Claim
  <2>2. Runs(w) /\ run'[w].stage = "begin" /\ run'[w].brief = B /\ run'[w].copy = None
    BY <1>1, <2>1 DEF Types, Runs, RunRecs, RunStages
  <2> QED BY <1>1, <1>2, <1>3, <2>1, <2>2
<1>5. CASE ~first /\ more
  <2>1. PICK m \in InitialModes("drain") :
          run' = [run EXCEPT ![w] = [run[w] EXCEPT !.stage = "tell", !.tell = "draining",
                    !.brief = brief, !.mode = m, !.drain = TRUE, !.cycles = run[w].cycles + 1,
                    !.attempt = 0]]
    BY <1>5 DEF Claim
  <2>2. m \in Modes BY DEF InitialModes, Modes
  <2>3. PICK n \in Nat : n = run[w].cycles + 1 BY <1>1 DEF RunRecs
  <2>4. run' = [run EXCEPT ![w] = [run[w] EXCEPT !.stage = "tell", !.tell = "draining",
                    !.brief = B, !.mode = m, !.drain = TRUE, !.cycles = n, !.attempt = 0]]
    BY <1>3, <2>1, <2>3
  <2>5. /\ Runs(w) /\ run'[w].stage = "tell" /\ run'[w].tell = "draining"
        /\ run'[w].brief = B /\ run'[w].copy = None
    BY <1>1, <2>2, <2>4 DEF Types, Runs, RunRecs, RunStages, States
  <2>6. UNCHANGED capped BY <1>5 DEF Claim
  <2> QED BY <1>1, <1>2, <1>3, <2>5, <2>6
<1>6. CASE ~first /\ ~more
  <2>1. EndRun(w, "done") /\ capped' = (found # {}) BY <1>6 DEF Claim
  <2> QED BY <1>1, <1>2, <2>1, EndEffect DEF States, Ends
<1> QED BY <1>4, <1>5, <1>6

\* claim() renames one file of pending/ to draining/, unless it is gone.
LEMMA ClaimItemEffect ==
    ASSUME Types, NEW w \in Workers, ClaimItem(w)
    PROVE  /\ Runs(w) /\ Continues(w) /\ run[w].stage = "claim" /\ run'[w].stage = "claim"
           /\ run'[w].attempt = run[w].attempt /\ run'[w].copy = run[w].copy
           /\ pending' \in Dirs /\ draining' \in Dirs
           /\ \/ UNCHANGED <<pending, draining>>
              \/ \E n \in Names : /\ pending[n] # 0
                                  /\ pending' = [pending EXCEPT ![n] = 0]
                                  /\ draining' = [draining EXCEPT ![n] = pending[n]]
<1>1. PICK n \in run[w].list : Moved(pending, draining, n) /\ Passed(w, n)
  BY DEF ClaimItem, NextName
<1>2. n \in Names BY DEF Types, RunRecs
<1>3. run[w].stage = "claim" BY DEF ClaimItem
<1>4. /\ Runs(w) /\ Continues(w) /\ run'[w].stage = run[w].stage
      /\ run'[w].attempt = run[w].attempt /\ run'[w].copy = run[w].copy
  BY <1>1, PassedEffect
<1> QED BY <1>1, <1>2, <1>3, <1>4 DEF Moved, Types, Dirs

\* finalize() renames one file of draining/ to drained/, unless it is gone.
LEMMA FinalizeItemEffect ==
    ASSUME Types, NEW w \in Workers, FinalizeItem(w)
    PROVE  /\ Runs(w) /\ Continues(w) /\ run[w].stage = "finalize" /\ run'[w].stage = "finalize"
           /\ run'[w].attempt = run[w].attempt /\ run'[w].copy = run[w].copy
           /\ draining' \in Dirs /\ drained' \in Dirs
           /\ \/ UNCHANGED <<draining, drained>>
              \/ \E n \in Names : /\ draining[n] # 0
                                  /\ draining' = [draining EXCEPT ![n] = 0]
                                  /\ drained' = [drained EXCEPT ![n] = draining[n]]
<1>1. PICK n \in run[w].list : Moved(draining, drained, n) /\ Passed(w, n)
  BY DEF FinalizeItem, NextName
<1>2. n \in Names BY DEF Types, RunRecs
<1>3. run[w].stage = "finalize" BY DEF FinalizeItem
<1>4. /\ Runs(w) /\ Continues(w) /\ run'[w].stage = run[w].stage
      /\ run'[w].attempt = run[w].attempt /\ run'[w].copy = run[w].copy
  BY <1>1, PassedEffect
<1> QED BY <1>1, <1>2, <1>3, <1>4 DEF Moved, Types, Dirs

\* A rename that fails is passed over, by a worker that is claiming or finalizing.
LEMMA RenameFailsEffect ==
    ASSUME Types, NEW w \in Workers, Worker1(w), RenameFails(w)
    PROVE  /\ Runs(w) /\ Continues(w) /\ run[w].stage # "none" /\ run'[w].stage = run[w].stage
           /\ run'[w].attempt = run[w].attempt /\ run'[w].copy = run[w].copy
           /\ run'[w].tell = run[w].tell
<1>1. PICK n \in run[w].list : Passed(w, n) BY DEF RenameFails, NextName
<1>2. run[w].stage # "none" BY <1>1 DEF Worker1, Dead
<1> QED BY <1>1, <1>2, PassedEffect

-----------------------------------------------------------------------------
(* The shape is kept by the workers, and so by every step. *)

\* A step of a worker keeps the shape if what it writes is typed.
LEMMA ShapeKept ==
    ASSUME Shape, NEW w \in Workers, Runs(w), Worker1(w)', meta' \in MetaRecs,
           UNCHANGED <<agent, lock, cmd, added, launches, items>>,
           pending' \in Dirs, draining' \in Dirs, drained' \in Dirs,
           worked' \in SUBSET Nat, missed' \in SUBSET Nat, capped' \in BOOLEAN,
           mishaps' \in SUBSET Mishaps, progress' \in Nat, troubles' \in Nat
    PROVE  Shape'
<1>1. Types' BY DEF Shape, Types, Runs
<1>2. \A v \in Workers : Worker1(v)' BY DEF Shape, Worker1, Runs
<1> QED BY <1>1, <1>2, CommandsUnchanged DEF Shape

\* What is the same of every step of a worker.
Steady(w) ==
    /\ Runs(w) /\ run[w].stage # "none"
    /\ UNCHANGED <<agent, lock, cmd, added, launches, items>>
    /\ mishaps' \in SUBSET Mishaps /\ mishaps \subseteq mishaps'
    /\ mishaps' = {} => meta'.pid = meta.pid

\* Each step of a worker keeps the shape.
LEMMA ShapeWork ==
    ASSUME Shape, NEW w \in Workers, Work(w) \/ Fault(w)
    PROVE  Shape' /\ Steady(w)
<1>0. Types /\ Worker1(w) BY DEF Shape
<1> USE DEF queue, history, counts, Steady
<1>1. CASE Boot(w)
  <2>1. Worker1(w)' BY <1>0, <1>1, BootEffect DEF Worker1
  <2> QED BY <1>0, <1>1, <2>1, BootEffect, ShapeKept DEF Boot, Types
<1>2. CASE WorkerReadsMeta(w)
  <2>1. Worker1(w)' BY <1>0, <1>2, WorkerReadsMetaEffect DEF Worker1
  <2> QED BY <1>0, <1>2, <2>1, WorkerReadsMetaEffect, ShapeKept DEF WorkerReadsMeta, Types
<1>3. CASE Tell(w)
  <2>1. Worker1(w)'
    <3>1. CASE run'[w] = Dead BY <3>1 DEF Worker1, Dead
    <3>2. CASE run'[w].stage = "begin" /\ run'[w].copy = None BY <3>2 DEF Worker1
    <3> QED BY <1>3, <3>1, <3>2, TellEffect
  <2>2. mishaps' \in SUBSET Mishaps /\ mishaps \subseteq mishaps'
        /\ (mishaps' = {} => meta'.pid = meta.pid)
    BY <1>0, <1>3 DEF Tell, Mishap, Mishaps, Types
  <2> QED BY <1>0, <1>3, <2>1, <2>2, TellEffect, ShapeKept DEF Tell, Types
<1>4. CASE ClaimItem(w)
  <2>1. Worker1(w)' BY <1>0, <1>4, ClaimItemEffect DEF Worker1
  <2> QED BY <1>0, <1>4, <2>1, ClaimItemEffect, ShapeKept DEF ClaimItem, Types
<1>5. CASE FinalizeItem(w)
  <2>1. Worker1(w)' BY <1>0, <1>5, FinalizeItemEffect DEF Worker1
  <2> QED BY <1>0, <1>5, <2>1, FinalizeItemEffect, ShapeKept DEF FinalizeItem, Types
<1>6. CASE Finalized(w)
  <2>1. Worker1(w)' BY <1>0, <1>6, FinalizedEffect DEF Worker1
  <2> QED BY <1>0, <1>6, <2>1, FinalizedEffect, ShapeKept DEF Finalized, Types
<1>7. ASSUME NEW found \in SUBSET Held(draining), Claim(w, found), troubles' \in Nat
      PROVE  Shape' /\ Steady(w)
  <2>1. Worker1(w)' BY <1>0, <1>7, ClaimEffect DEF Worker1, Ends
  <2> QED BY <1>0, <1>7, <2>1, ClaimEffect, ShapeKept DEF Claim, Types
<1>8. CASE TurnBegins(w)
  <2>1. Worker1(w)' BY <1>0, <1>8, TurnBeginsEffect DEF Worker1
  <2>2. mishaps' \in SUBSET Mishaps /\ mishaps \subseteq mishaps'
        /\ (mishaps' = {} => meta'.pid = meta.pid)
    BY <1>0, <1>8 DEF TurnBegins, Mishap, Mishaps, Types
  <2> QED BY <1>0, <1>8, <2>1, <2>2, TurnBeginsEffect, ShapeKept DEF TurnBegins, Types
<1>9. CASE Advance(w)
  <2>1. Worker1(w)' BY <1>0, <1>9, AdvanceEffect DEF Worker1
  <2> QED BY <1>0, <1>9, <2>1, AdvanceEffect, ShapeKept DEF Advance, Types
<1>10. CASE TurnDone(w)
  <2>1. Worker1(w)' BY <1>0, <1>10, TurnDoneEffect DEF Worker1
  <2>2. worked' \in SUBSET Nat BY <1>0, <1>10 DEF TurnDone, Types, RunRecs
  <2> QED BY <1>0, <1>10, <2>1, <2>2, TurnDoneEffect, ShapeKept DEF TurnDone, Types
<1>11. CASE TurnEndsRun(w)
  <2>1. Runs(w) /\ Ends(w, "stopped") BY <1>0, <1>11, EndEffect DEF TurnEndsRun, States
  <2>2. Worker1(w)' BY <2>1 DEF Worker1, Ends
  <2> QED BY <1>0, <1>11, <2>1, <2>2, ShapeKept DEF TurnEndsRun, Types
<1>12. CASE Retry(w)
  <2>1. Worker1(w)' BY <1>0, <1>12, RetryEffect DEF Worker1, Ends
  <2> QED BY <1>0, <1>12, <2>1, RetryEffect, ShapeKept DEF Retry, Types
<1>13. CASE BootFails(w)
  <2>1. Runs(w) /\ Ends(w, "stopped") BY <1>0, <1>13, EndEffect DEF BootFails, States
  <2>2. Worker1(w)' BY <2>1 DEF Worker1, Ends
  <2> QED BY <1>0, <1>13, <2>1, <2>2, ShapeKept DEF BootFails, Trouble, Types
<1>14. CASE RenameFails(w)
  <2>1. Worker1(w)' BY <1>0, <1>14, RenameFailsEffect DEF Worker1
  <2> QED BY <1>0, <1>14, <2>1, RenameFailsEffect, ShapeKept DEF RenameFails, Trouble, Types
<1>15. CASE Recreate(w)
  <2>1. Worker1(w)' BY <1>0, <1>15, RecreateEffect DEF Worker1
  <2>2. Runs(w) /\ run[w].stage # "none" BY <1>0, <1>15, RecreateEffect
  <2>3. UNCHANGED <<agent, lock, meta, cmd, queue, history, launches, items, progress>>
        /\ troubles' = troubles + 1
    BY <1>15 DEF Recreate, Trouble
  <2> QED BY <1>0, <2>1, <2>2, <2>3, ShapeKept DEF Types
<1>16. CASE Crash(w)
  <2>1. Runs(w) /\ run'[w] = Dead BY <1>0, <1>16, KilledEffect DEF Crash
  <2>2. Worker1(w)' BY <2>1 DEF Worker1, Dead
  <2> QED BY <1>0, <1>16, <2>1, <2>2, ShapeKept DEF Crash, Alive, Trouble, Types
<1>17. CASE Claimed(w)
  <2>1. troubles' \in Nat BY <1>0, <1>17 DEF Claimed, Types
  <2> QED BY <1>7, <1>17, <2>1 DEF Claimed
<1>18. CASE ReadFails(w)
  <2>1. troubles' \in Nat BY <1>0, <1>18 DEF ReadFails, Trouble, Types
  <2> QED BY <1>7, <1>18, <2>1 DEF ReadFails
<1> QED BY <1>1, <1>2, <1>3, <1>4, <1>5, <1>6, <1>8, <1>9, <1>10, <1>11, <1>12, <1>13, <1>14,
           <1>15, <1>16, <1>17, <1>18
        DEF Work, Fault

LEMMA ShapeStep ==
    ASSUME Shape, [Next]_vars
    PROVE  Shape'
<1>1. CASE Next
  BY <1>1, ShapeIssue, ShapeCommand, ShapeWork DEF Next
<1>2. CASE UNCHANGED vars
  <2>1. Types' BY <1>2 DEF Shape, Types, vars, queue, history, counts
  <2>2. (\A c \in Cmds : Command1(c)') /\ \A w \in Workers : Worker1(w)'
    BY <1>2, CommandsUnchanged, WorkersUnchanged DEF vars
  <2> QED BY <2>1, <2>2 DEF Shape
<1> QED BY <1>1, <1>2

\* What has gone wrong once stays so: mishaps only grow.
LEMMA MishapsGrow ==
    ASSUME Shape, [Next]_vars
    PROVE  mishaps \subseteq mishaps'
<1>1. CASE \E c \in Cmds, k \in Kinds : Issue(c, k) BY <1>1 DEF Issue, history
<1>2. CASE \E c \in Cmds : Command(c) \/ KillCmd(c)
  BY <1>2 DEF Command, KillCmd, Look, Guard, Acquire, ReadOwner, Reclaim, CheckAlive, WriteOwner,
     ReadMeta, Setup, Spawn, RecordPid, RecordState, Kill, MarkStopped, Scan, CreateItem,
     WriteItem, Mishap, history
<1>3. CASE \E w \in Workers : Work(w) \/ Fault(w) BY <1>3, ShapeWork DEF Steady
<1>4. CASE UNCHANGED vars BY <1>4 DEF vars, history
<1> QED BY <1>1, <1>2, <1>3, <1>4 DEF Next

-----------------------------------------------------------------------------
(* One supervisor until a mishap, when the user waits for each `backlog --drain`. *)

LEMMA SupervisionInit == Init => Supervision
BY DEF Init, Supervision, Locked, Holding, Launch, Recorded, Idle, Dead

\* A command that has made sure that no worker is alive, or is about to.
Launching(d) == cmd[d].stage \in {"check", "own", "setup", "spawn", "pid"}

\* The lock between starts, and a drain that is alone: one command launches at a time.
LEMMA OneLaunch ==
    ASSUME Shape, Supervision, "drain" \in Alone, NEW c \in Cmds, NEW d \in Cmds,
           Launching(c), Launching(d)
    PROVE  c = d
<1>1. Command1(c) /\ Command1(d) BY DEF Shape
<1>2. CASE cmd[c].kind = "drain" \/ cmd[d].kind = "drain"
  BY <1>1, <1>2 DEF Command1, IsAlone, Launching
<1>3. CASE cmd[c].kind = "start" /\ cmd[d].kind = "start"
  BY <1>3 DEF Supervision, Locked, Holding, Launching
<1> QED BY <1>1, <1>2, <1>3 DEF Command1, Path, PathAt, Launching

\* No worker comes alive, and no command comes to own or set up, or leaves with an
\* unrecorded one; a start that makes or removes the lock is the business of the step.
LEMMA SupervisionKept ==
    ASSUME Supervision, Locked', meta'.pid = meta.pid,
           \A w \in Workers : run'[w].stage # "none" => run[w].stage # "none",
           \A d \in Cmds : cmd'[d].stage \in {"own", "setup", "spawn"}
                             => cmd[d].stage \in {"own", "setup", "spawn"},
           \A d \in Cmds : cmd'[d].stage = "pid"
                             => cmd[d].stage = "pid" /\ cmd'[d].id = cmd[d].id,
           \A d \in Cmds : cmd[d].stage = "pid"
                             => cmd'[d].stage = "pid" \/ \A w \in Workers : run'[w].stage = "none"
    PROVE  Supervision'
<1>1. \A d \in Cmds : Launch(d)' BY DEF Supervision, Launch
<1>2. Recorded' BY DEF Supervision, Recorded
<1> QED BY <1>1, <1>2 DEF Supervision

\* The lock stays with who has it.
LEMMA LockedKept ==
    ASSUME Locked, UNCHANGED lock,
           \A d \in Cmds : Holding(d)' => Holding(d)
    PROVE  Locked'
BY DEF Locked

\* The recorded worker is not alive and no other command launches: no worker is alive.
LEMMA NoneAlive ==
    ASSUME Supervision, ~Alive(meta.pid),
           \A d \in Cmds : cmd[d].stage # "pid"
    PROVE  \A w \in Workers : run[w].stage = "none"
BY DEF Supervision, Recorded, Alive

\* Who has the lock gives it up: no other start has it.
LEMMA LockedFreed ==
    ASSUME Locked, NEW c \in Cmds, Holding(c), cmd'[c].stage = "idle",
           \A d \in Cmds : d # c => cmd'[d] = cmd[d]
    PROVE  Locked'
BY DEF Locked, Holding

LEMMA SupervisionIssue ==
    ASSUME Shape, Supervision, NEW c \in Cmds, NEW k \in Kinds, Issue(c, k)
    PROVE  Supervision'
<1>1. /\ cmd[c].stage = "idle" /\ cmd'[c].stage \in {"guard", "look", "kill", "scan"}
      /\ \A d \in Cmds : d # c => cmd'[d] = cmd[d]
  BY ShapeIssue
<1>2. UNCHANGED <<lock, meta, run>> BY DEF Issue
<1>3. Locked' BY <1>1, <1>2, LockedKept DEF Supervision, Holding
<1> QED BY <1>1, <1>2, <1>3, SupervisionKept

LEMMA SupervisionCommand ==
    ASSUME Shape, Supervision, "drain" \in Alone, NEW c \in Cmds, Command(c) \/ KillCmd(c),
           mishaps' = {}
    PROVE  Supervision'
<1>0. Types /\ Command1(c) /\ cmd \in [Cmds -> CmdRecs] /\ Locked BY DEF Shape, Types, Supervision
<1>1. CASE Look(c)
  <2>1. UNCHANGED <<lock, meta, run>> /\ cmd[c].stage = "look" BY <1>1 DEF Look
  <2>2. cmd'[c].stage \in {"idle", "guard"} /\ \A d \in Cmds : d # c => cmd'[d] = cmd[d]
    BY <1>0, <1>1, GotoEffect, LeaveEffect DEF Look, CmdStages
  <2>3. Locked' BY <1>0, <2>1, <2>2, LockedKept DEF Holding
  <2> QED BY <2>1, <2>2, <2>3, SupervisionKept
<1>2. CASE Guard(c)
  <2>1. UNCHANGED <<lock, meta, run>> /\ cmd[c].stage = "guard" BY <1>2 DEF Guard
  <2>2. CASE Alive(meta.pid) \/ cmd[c].kind = "start"
    <3>1. cmd'[c].stage \in {"idle", "acquire"} /\ \A d \in Cmds : d # c => cmd'[d] = cmd[d]
      BY <1>0, <1>2, <2>2, GotoEffect, LeaveEffect DEF Guard, CmdStages
    <3>2. Locked' BY <1>0, <2>1, <3>1, LockedKept DEF Holding
    <3> QED BY <2>1, <3>1, <3>2, SupervisionKept
  <2>3. CASE ~Alive(meta.pid) /\ cmd[c].kind # "start"
    <3>1. cmd[c].kind = "drain" BY <1>0, <2>1, <2>3 DEF Command1, Path, PathAt
    <3>2. \A d \in Cmds : d # c => cmd[d].stage = "idle"
      BY <1>0, <2>1, <3>1 DEF Command1, IsAlone
    <3>3. \A w \in Workers : run[w].stage = "none" BY <2>1, <2>3, <3>2, NoneAlive
    <3>4. /\ cmd'[c].stage = "setup" /\ cmd'[c].kind = "drain"
          /\ \A d \in Cmds : d # c => cmd'[d] = cmd[d]
      BY <1>0, <1>2, <2>3, <3>1, GotoEffect DEF Guard, CmdStages
    <3>5. Locked' BY <1>0, <2>1, <3>2, <3>4, LockedKept DEF Holding
    <3> QED BY <2>1, <3>2, <3>3, <3>4, <3>5 DEF Supervision, Launch, Recorded
  <2> QED BY <2>2, <2>3
<1>3. CASE Acquire(c)
  <2>1. UNCHANGED <<meta, run>> /\ cmd[c].stage = "acquire" BY <1>3 DEF Acquire
  <2>2. cmd'[c].stage \in {"owner", "check"} /\ \A d \in Cmds : d # c => cmd'[d] = cmd[d]
    BY <1>0, <1>3, GotoEffect DEF Acquire, CmdStages
  <2>3. Locked'
    <3>1. CASE lock.made
      <4>1. cmd'[c].stage = "owner" /\ UNCHANGED lock
        BY <1>0, <1>3, <3>1, GotoEffect DEF Acquire, CmdStages
      <4> QED BY <1>0, <2>1, <2>2, <4>1, LockedKept DEF Holding
    <3>2. CASE ~lock.made
      <4>1. \A d \in Cmds : ~Holding(d) BY <1>0, <3>2 DEF Locked
      <4>2. lock'.made BY <1>3, <3>2 DEF Acquire
      <4> QED BY <2>2, <4>1, <4>2 DEF Locked, Holding
    <3> QED BY <3>1, <3>2
  <2> QED BY <2>1, <2>2, <2>3, SupervisionKept
<1>4. CASE ReadOwner(c)
  <2>1. UNCHANGED <<lock, meta, run>> /\ cmd[c].stage = "owner" BY <1>4 DEF ReadOwner
  <2>2. cmd'[c].stage \in {"idle", "reclaim"} /\ \A d \in Cmds : d # c => cmd'[d] = cmd[d]
    BY <1>0, <1>4, GotoEffect, LeaveEffect DEF ReadOwner, CmdStages
  <2>3. Locked' BY <1>0, <2>1, <2>2, LockedKept DEF Holding
  <2> QED BY <2>1, <2>2, <2>3, SupervisionKept
<1>5. CASE Reclaim(c)
  <2>1. UNCHANGED <<meta, run>> /\ cmd[c].stage = "reclaim" BY <1>5 DEF Reclaim
  <2>2. cmd'[c].stage = "acquire" /\ \A d \in Cmds : d # c => cmd'[d] = cmd[d]
    BY <1>0, <1>5, GotoEffect DEF Reclaim, CmdStages
  <2>3. \A d \in Cmds : ~Holding(d) BY <1>0, <1>5 DEF Reclaim, Mishap, Locked
  <2>4. Locked' BY <2>2, <2>3 DEF Locked, Holding
  <2> QED BY <2>1, <2>2, <2>4, SupervisionKept
<1>6. CASE CheckAlive(c)
  <2>1. UNCHANGED <<meta, run>> /\ cmd[c].stage = "check" BY <1>6 DEF CheckAlive
  <2>2. cmd[c].kind = "start" BY <1>0, <2>1 DEF Command1, Path, PathAt
  <2>3. Holding(c) BY <2>1, <2>2 DEF Holding
  <2>4. CASE Alive(meta.pid)
    <3>1. cmd'[c].stage = "idle" /\ \A d \in Cmds : d # c => cmd'[d] = cmd[d]
      BY <1>0, <1>6, <2>4, LeaveEffect DEF CheckAlive
    <3>2. Locked' BY <1>0, <2>3, <3>1, LockedFreed
    <3> QED BY <2>1, <3>1, <3>2, SupervisionKept
  <2>5. CASE ~Alive(meta.pid)
    <3>1. UNCHANGED lock /\ cmd'[c].stage = "own" /\ \A d \in Cmds : d # c => cmd'[d] = cmd[d]
      BY <1>0, <1>6, <2>5, GotoEffect DEF CheckAlive, CmdStages
    <3>2. \A d \in Cmds : cmd[d].stage # "pid" BY <2>1, OneLaunch DEF Launching
    <3>3. \A w \in Workers : run[w].stage = "none" BY <2>5, <3>2, NoneAlive
    <3>4. Locked' BY <1>0, <2>2, <2>3, <3>1, LockedKept DEF Holding
    <3> QED BY <2>1, <3>1, <3>2, <3>3, <3>4 DEF Supervision, Launch, Recorded
  <2> QED BY <2>4, <2>5
<1>7. CASE WriteOwner(c)
  <2>1. UNCHANGED <<meta, run>> /\ cmd[c].stage = "own" BY <1>7 DEF WriteOwner
  <2>2. /\ cmd'[c].stage \in {"setup", "idle"} /\ \A d \in Cmds : d # c => cmd'[d] = cmd[d]
    BY <1>0, <1>7, GotoEffect, LeaveEffect DEF WriteOwner, CmdStages
  <2>3. cmd[c].kind = "start" BY <1>0, <2>1 DEF Command1, Path, PathAt
  <2>4. Holding(c) /\ lock.made BY <1>0, <2>1, <2>3 DEF Holding, Locked
  <2>5. lock'.made BY <1>0, <1>7, <2>4 DEF WriteOwner, Types, LockRecs
  <2>6. Locked' BY <1>0, <2>2, <2>4, <2>5 DEF Locked, Holding
  <2> QED BY <2>1, <2>2, <2>6, SupervisionKept
<1>8. CASE ReadMeta(c)
  <2>1. UNCHANGED <<lock, meta, run>> BY <1>8 DEF ReadMeta
  <2>2. /\ cmd'[c].stage = cmd[c].stage /\ cmd'[c].kind = cmd[c].kind
        /\ cmd'[c].id = cmd[c].id /\ \A d \in Cmds : d # c => cmd'[d] = cmd[d]
    BY <1>8, ReadMetaEffect
  <2>3. Locked' BY <1>0, <2>1, <2>2, LockedKept DEF Holding
  <2> QED BY <2>1, <2>2, <2>3, SupervisionKept
<1>9. CASE Setup(c)
  <2>1. UNCHANGED <<lock, run>> /\ cmd[c].stage = "setup" BY <1>9 DEF Setup
  <2>2. /\ cmd'[c].stage = "spawn" /\ cmd'[c].kind = cmd[c].kind
        /\ \A d \in Cmds : d # c => cmd'[d] = cmd[d]
    BY <1>0, <1>9, GotoEffect DEF Setup, CmdStages
  <2>3. meta'.pid = meta.pid BY <1>9 DEF Setup, Mishap
  <2>4. Locked' BY <1>0, <2>1, <2>2, LockedKept DEF Holding
  <2> QED BY <2>1, <2>2, <2>3, <2>4, SupervisionKept
<1>10. CASE Spawn(c)
  <2>1. UNCHANGED <<lock, meta>> /\ cmd[c].stage = "spawn" BY <1>10 DEF Spawn
  <2>2. /\ cmd'[c].stage = "pid" /\ cmd'[c].id = cmd[c].id /\ cmd'[c].kind = cmd[c].kind
        /\ \A d \in Cmds : d # c => cmd'[d] = cmd[d]
    BY <1>0, <1>10, GotoEffect DEF Spawn, CmdStages
  <2>3. \A w \in Workers : w # cmd[c].id => run'[w] = run[w] BY <1>10, ShapeSpawn
  <2>4. \A w \in Workers : run[w].stage = "none" BY <2>1 DEF Supervision, Launch
  <2>5. \A d \in Cmds : d # c => ~Launching(d) BY <2>1, OneLaunch DEF Launching
  <2>6. Locked' BY <1>0, <2>1, <2>2, LockedKept DEF Holding
  <2> QED BY <2>2, <2>3, <2>4, <2>5, <2>6 DEF Supervision, Launch, Recorded, Launching
<1>11. CASE RecordPid(c)
  <2>1. UNCHANGED <<lock, run>> /\ cmd[c].stage = "pid" BY <1>11 DEF RecordPid
  <2>2. /\ meta'.pid = cmd[c].id /\ cmd'[c].stage \in {"state", "idle"}
        /\ \A d \in Cmds : d # c => cmd'[d] = cmd[d]
    BY <1>11, ShapeRecordPid
  <2>3. \A w \in Workers : run[w].stage # "none" => w = cmd[c].id
    BY <2>1 DEF Supervision, Launch
  <2>4. \A d \in Cmds : d # c => ~Launching(d) BY <2>1, OneLaunch DEF Launching
  <2>5. Locked'
    <3>1. CASE cmd[c].kind = "start" BY <1>0, <2>1, <2>2, <3>1 DEF Locked, Holding
    <3>2. CASE cmd[c].kind # "start"
      <4>1. cmd'[c].stage = "idle" BY <1>0, <1>11, <3>2, LeaveEffect DEF RecordPid
      <4> QED BY <1>0, <2>1, <2>2, <4>1, LockedKept DEF Holding
    <3> QED BY <3>1, <3>2
  <2> QED BY <2>1, <2>2, <2>3, <2>4, <2>5 DEF Supervision, Launch, Recorded, Launching
<1>12. CASE RecordState(c)
  <2>1. UNCHANGED run /\ cmd[c].stage = "state" BY <1>12 DEF RecordState
  <2>2. cmd'[c].stage = "idle" /\ \A d \in Cmds : d # c => cmd'[d] = cmd[d]
    BY <1>0, <1>12, LeaveEffect DEF RecordState
  <2>3. meta'.pid = meta.pid BY <1>12 DEF RecordState, Mishap
  <2>4. Holding(c) BY <1>0, <2>1 DEF Command1, Path, PathAt, Holding
  <2>5. Locked' BY <1>0, <2>2, <2>4, LockedFreed
  <2> QED BY <2>1, <2>2, <2>3, <2>5, SupervisionKept
<1>13. CASE Kill(c)
  <2>1. UNCHANGED <<lock, meta>> /\ cmd[c].stage = "kill" BY <1>13 DEF Kill
  <2>2. cmd'[c].stage \in {"idle", "stop"} /\ \A d \in Cmds : d # c => cmd'[d] = cmd[d]
    BY <1>0, <1>13, GotoEffect, LeaveEffect DEF Kill, CmdStages
  <2>3. \A w \in Workers : run'[w].stage # "none" => run[w].stage # "none"
    BY <1>13, ShapeKill DEF Dead
  <2>4. Locked' BY <1>0, <2>1, <2>2, LockedKept DEF Holding
  <2> QED BY <2>1, <2>2, <2>3, <2>4, SupervisionKept
<1>14. CASE MarkStopped(c)
  <2>1. UNCHANGED <<lock, run>> /\ cmd[c].stage = "stop" BY <1>14 DEF MarkStopped
  <2>2. cmd'[c].stage = "idle" /\ \A d \in Cmds : d # c => cmd'[d] = cmd[d]
    BY <1>0, <1>14, LeaveEffect DEF MarkStopped
  <2>3. meta'.pid = meta.pid BY <1>14 DEF MarkStopped, Mishap
  <2>4. Locked' BY <1>0, <2>1, <2>2, LockedKept DEF Holding
  <2> QED BY <2>1, <2>2, <2>3, <2>4, SupervisionKept
<1>15. CASE Scan(c)
  <2>1. UNCHANGED <<lock, meta, run>> BY <1>15 DEF Scan
  <2>2. /\ cmd'[c].stage \in {"scan draining", "scan drained", "create"}
        /\ cmd[c].kind = "add" /\ cmd[c].stage # "idle"
        /\ \A d \in Cmds : d # c => cmd'[d] = cmd[d]
    BY <1>0, <1>15, ScanEffect DEF Command1
  <2>3. cmd[c].stage # "pid" BY <1>0, <2>2 DEF Command1, Path, PathAt
  <2>4. Locked' BY <1>0, <2>1, <2>2, LockedKept DEF Holding
  <2> QED BY <2>1, <2>2, <2>3, <2>4, SupervisionKept
<1>16. CASE CreateItem(c)
  <2>1. UNCHANGED <<lock, meta, run>> /\ cmd[c].stage = "create" BY <1>16 DEF CreateItem
  <2>2. cmd'[c].stage = "write" /\ \A d \in Cmds : d # c => cmd'[d] = cmd[d]
    BY <1>0, <1>16, GotoEffect DEF CreateItem, CmdStages
  <2>3. Locked' BY <1>0, <2>1, <2>2, LockedKept DEF Holding
  <2> QED BY <2>1, <2>2, <2>3, SupervisionKept
<1>17. CASE WriteItem(c)
  <2>1. UNCHANGED <<lock, meta, run>> /\ cmd[c].stage = "write" BY <1>17 DEF WriteItem
  <2>2. cmd'[c].stage = "idle" /\ \A d \in Cmds : d # c => cmd'[d] = cmd[d]
    BY <1>0, <1>17, LeaveEffect DEF WriteItem
  <2>3. Locked' BY <1>0, <2>1, <2>2, LockedKept DEF Holding
  <2> QED BY <2>1, <2>2, <2>3, SupervisionKept
<1>18. CASE KillCmd(c)
  <2>1. UNCHANGED <<lock, meta, run>> BY <1>18 DEF KillCmd
  <2>2. cmd'[c].stage = "idle" /\ \A d \in Cmds : d # c => cmd'[d] = cmd[d]
    BY <1>0, <1>18, LeaveEffect DEF KillCmd
  <2>3. cmd[c].stage = "pid" => \A w \in Workers : run[w].stage = "none"
    <3>1. cmd[c].stage = "pid" => ~Alive(cmd[c].id) BY <1>18 DEF KillCmd, Mishap
    <3> QED BY <3>1 DEF Supervision, Launch, Alive
  <2>4. Locked' BY <1>0, <2>1, <2>2, LockedKept DEF Holding
  <2> QED BY <2>1, <2>2, <2>3, <2>4, SupervisionKept
<1> QED BY <1>1, <1>2, <1>3, <1>4, <1>5, <1>6, <1>7, <1>8, <1>9, <1>10, <1>11, <1>12, <1>13,
           <1>14, <1>15, <1>16, <1>17, <1>18
        DEF Command

LEMMA SupervisionStep ==
    ASSUME Shape, Supervision, "drain" \in Alone, [Next]_vars, mishaps' = {}
    PROVE  Supervision'
<1>1. ASSUME NEW w \in Workers, Work(w) \/ Fault(w) PROVE Supervision'
  <2>1. Steady(w) BY <1>1, ShapeWork
  <2>2. Locked' BY <2>1, LockedKept DEF Steady, Supervision, Holding
  <2> QED BY <2>1, <2>2, SupervisionKept DEF Steady, Runs
<1>2. CASE UNCHANGED vars
  <2>1. Locked' BY <1>2, LockedKept DEF vars, Supervision, Holding
  <2> QED BY <1>2, <2>1, SupervisionKept DEF vars
<1> QED BY <1>1, <1>2, SupervisionIssue, SupervisionCommand DEF Next

LEMMA SupervisionMeansOne ==
    ASSUME Supervision, NEW v \in Workers, NEW w \in Workers,
           run[v].stage # "none", run[w].stage # "none"
    PROVE  v = w
BY DEF Supervision, Launch, Recorded

\* One supervisor per project directory, however starts, resumes, takeovers and items race
\* and whichever of the commands or workers dies, until a mishap that neither the lock nor
\* meta survives (Mishaps: the code does not exclude them), and provided that the user
\* waits for a `backlog --drain` (it launches without the lock): lock.rs, guard_no_conflict().
THEOREM SupervisorIsOne ==
    ASSUME "drain" \in Alone
    PROVE  Spec => []OneSupervisor
<1> DEFINE Inv == Shape /\ (mishaps = {} => Supervision)
<1>1. Init => Inv BY ShapeInit, SupervisionInit
<1>2. Inv /\ [Next]_vars => Inv' BY ShapeStep, MishapsGrow, SupervisionStep
<1>3. Inv => OneSupervisor BY SupervisionMeansOne DEF OneSupervisor, Alive
<1> QED BY <1>1, <1>2, <1>3, PTL DEF Spec

-----------------------------------------------------------------------------
(* What is in drained/ was done, and a run that is done has drained. *)

LEMMA ConfirmedInit == Init => Confirmed
<1> SUFFICES ASSUME Init PROVE Confirmed OBVIOUS
<1>1. Held(drained) = {} BY DEF Init, Held, Files, Empty
<1>2. \A w \in Workers : Briefed(w) BY DEF Init, Briefed, Dead
<1> QED BY <1>1, <1>2 DEF Init, Confirmed, Idle

\* A command that leaves meta alone, or does not write "done" to it, and launches nothing.
LEMMA ConfirmedKept ==
    ASSUME Confirmed, UNCHANGED <<draining, drained, worked, missed, capped>>,
           UNCHANGED meta \/ meta'.state # "done",
           \A w \in Workers : run'[w] \in {run[w], Dead},
           \A d \in Cmds : cmd'[d].stage = "pid" => cmd'[d] = cmd[d],
           \A d \in Cmds : cmd'[d].stage = "spawn" => cmd[d].stage = "spawn"
    PROVE  Confirmed'
<1>1. Held(draining)' = Held(draining) /\ Held(drained)' = Held(drained) BY DEF Held, Files
<1>2. \A w \in Workers : Briefed(w)'
  <2> SUFFICES ASSUME NEW w \in Workers PROVE Briefed(w)' OBVIOUS
  <2>1. CASE run'[w] = run[w] BY <1>1, <2>1 DEF Confirmed, Briefed, Left
  <2>2. CASE run'[w] = Dead BY <2>2 DEF Briefed, Dead
  <2> QED BY <2>1, <2>2
<1>3. Over => Over' BY <1>1 DEF Over, Left, Dead
<1> QED BY <1>1, <1>2, <1>3 DEF Confirmed

LEMMA ConfirmedIssue ==
    ASSUME Shape, Confirmed, NEW c \in Cmds, NEW k \in Kinds, Issue(c, k)
    PROVE  Confirmed'
<1>1. /\ cmd'[c].stage \in {"guard", "look", "kill", "scan"}
      /\ \A d \in Cmds : d # c => cmd'[d] = cmd[d]
  BY ShapeIssue
<1>2. UNCHANGED <<meta, run, draining, drained, worked, missed, capped>>
  BY DEF Issue, queue, history
<1> QED BY <1>1, <1>2, ConfirmedKept

LEMMA ConfirmedCommand ==
    ASSUME Shape, Supervision, Confirmed, "drain" \in Alone, NEW c \in Cmds,
           Command(c) \/ KillCmd(c)
    PROVE  Confirmed'
<1>0. Types /\ Command1(c) /\ cmd \in [Cmds -> CmdRecs] BY DEF Shape, Types
<1> USE DEF queue, history
<1>1. CASE Look(c)
  BY <1>0, <1>1, GotoEffect, LeaveEffect, ConfirmedKept DEF Look, CmdStages
<1>2. CASE Guard(c)
  BY <1>0, <1>2, GotoEffect, LeaveEffect, ConfirmedKept DEF Guard, CmdStages
<1>3. CASE Acquire(c)
  BY <1>0, <1>3, GotoEffect, ConfirmedKept DEF Acquire, CmdStages
<1>4. CASE ReadOwner(c)
  BY <1>0, <1>4, GotoEffect, LeaveEffect, ConfirmedKept DEF ReadOwner, CmdStages
<1>5. CASE Reclaim(c)
  BY <1>0, <1>5, GotoEffect, ConfirmedKept DEF Reclaim, CmdStages
<1>6. CASE CheckAlive(c)
  BY <1>0, <1>6, GotoEffect, LeaveEffect, ConfirmedKept DEF CheckAlive, CmdStages
<1>7. CASE WriteOwner(c)
  BY <1>0, <1>7, GotoEffect, LeaveEffect, ConfirmedKept DEF WriteOwner, CmdStages
<1>8. CASE ReadMeta(c)
  <2>1. UNCHANGED <<meta, run, draining, drained, worked, missed, capped>> BY <1>8 DEF ReadMeta
  <2>2. /\ cmd'[c].stage = cmd[c].stage /\ (cmd[c].stage = "pid" => cmd'[c].copy.state = meta.state)
        /\ \A d \in Cmds : d # c => cmd'[d] = cmd[d]
    BY <1>8, ReadMetaEffect
  <2>3. Held(draining)' = Held(draining) /\ Held(drained)' = Held(drained)
    BY <2>1 DEF Held, Files
  <2>4. \A w \in Workers : Briefed(w)' BY <2>1, <2>3 DEF Confirmed, Briefed, Left
  <2>5. Over => Over' BY <2>1, <2>2, <2>3 DEF Over, Left
  <2> QED BY <2>1, <2>2, <2>3, <2>4, <2>5 DEF Confirmed
<1>9. CASE Setup(c)
  <2>1. UNCHANGED <<run, draining, drained, worked, missed, capped>> /\ cmd[c].stage = "setup"
    BY <1>9 DEF Setup
  <2>2. meta'.state # "done" BY <1>9, ShapeSetup
  <2>3. cmd'[c].stage = "spawn" /\ \A d \in Cmds : d # c => cmd'[d] = cmd[d]
    BY <1>0, <1>9, GotoEffect DEF Setup, CmdStages
  <2>4. \A d \in Cmds : cmd'[d].stage # "pid" BY <2>1, <2>3, OneLaunch DEF Launching
  <2>5. Held(draining)' = Held(draining) /\ Held(drained)' = Held(drained)
    BY <2>1 DEF Held, Files
  <2>6. \A w \in Workers : Briefed(w)' BY <2>1, <2>5 DEF Confirmed, Briefed, Left
  <2> QED BY <2>1, <2>2, <2>4, <2>5, <2>6 DEF Confirmed
<1>10. CASE Spawn(c)
  <2>1. UNCHANGED <<meta, draining, drained, worked, missed, capped>> /\ cmd[c].stage = "spawn"
    BY <1>10 DEF Spawn
  <2>2. /\ cmd'[c].stage = "pid" /\ cmd'[c].copy = None
        /\ \A d \in Cmds : d # c => cmd'[d] = cmd[d]
    BY <1>0, <1>10, GotoEffect DEF Spawn, CmdStages
  <2>3. \A d \in Cmds : cmd'[d].stage = "pid" => cmd'[d].copy = None
    BY <2>1, <2>2, OneLaunch DEF Launching
  <2>4. meta.state # "done" BY <2>1 DEF Confirmed, Over
  <2>5. Held(draining)' = Held(draining) /\ Held(drained)' = Held(drained)
    BY <2>1 DEF Held, Files
  <2>6. \A w \in Workers : run'[w] = run[w] \/ run'[w].stage = "boot" BY <1>10, ShapeSpawn
  <2>7. \A w \in Workers : Briefed(w)' BY <2>1, <2>5, <2>6 DEF Confirmed, Briefed, Left
  <2> QED BY <2>1, <2>3, <2>4, <2>5, <2>7 DEF Confirmed
<1>11. CASE RecordPid(c)
  <2>1. UNCHANGED <<run, draining, drained, worked, missed, capped>> /\ cmd[c].stage = "pid"
    BY <1>11 DEF RecordPid
  <2>2. /\ meta' = cmd[c].copy /\ cmd[c].copy # None /\ cmd'[c].stage \in {"state", "idle"}
        /\ \A d \in Cmds : d # c => cmd'[d] = cmd[d]
    BY <1>11, ShapeRecordPid
  <2>3. Held(draining)' = Held(draining) /\ Held(drained)' = Held(drained)
    BY <2>1 DEF Held, Files
  <2>4. \A w \in Workers : Briefed(w)' BY <2>1, <2>3 DEF Confirmed, Briefed, Left
  <2>5. Over => Over' BY <2>1, <2>2, <2>3 DEF Over, Left
  <2> QED BY <2>1, <2>2, <2>3, <2>4, <2>5 DEF Confirmed
<1>12. CASE RecordState(c)
  <2>1. meta'.state # "done" BY <1>12, ShapeRecordState
  <2> QED BY <1>0, <1>12, <2>1, LeaveEffect, ConfirmedKept DEF RecordState
<1>13. CASE Kill(c)
  <2>1. \A w \in Workers : run'[w] \in {run[w], Dead} BY <1>13, ShapeKill
  <2> QED BY <1>0, <1>13, <2>1, GotoEffect, LeaveEffect, ConfirmedKept DEF Kill, CmdStages
<1>14. CASE MarkStopped(c)
  <2>1. meta'.state # "done" BY <1>14, ShapeMarkStopped
  <2> QED BY <1>0, <1>14, <2>1, LeaveEffect, ConfirmedKept DEF MarkStopped
<1>15. CASE Scan(c)
  BY <1>0, <1>15, ScanEffect, ConfirmedKept DEF Scan, Command1
<1>16. CASE CreateItem(c)
  BY <1>0, <1>16, GotoEffect, ConfirmedKept DEF CreateItem, CmdStages
<1>17. CASE WriteItem(c)
  BY <1>0, <1>17, LeaveEffect, ConfirmedKept DEF WriteItem
<1>18. CASE KillCmd(c)
  BY <1>0, <1>18, LeaveEffect, ConfirmedKept DEF KillCmd
<1> QED BY <1>1, <1>2, <1>3, <1>4, <1>5, <1>6, <1>7, <1>8, <1>9, <1>10, <1>11, <1>12, <1>13,
           <1>14, <1>15, <1>16, <1>17, <1>18
        DEF Command

\* The only worker that is alive goes on: nothing else says "done".
LEMMA ConfirmedByOne ==
    ASSUME Supervision, Confirmed, NEW w \in Workers, Steady(w),
           Briefed(w)', Held(drained)' \subseteq worked' \cup missed', meta'.state = "done" => Over'
    PROVE  Confirmed'
<1>1. \A v \in Workers : v # w => run[v].stage = "none" BY SupervisionMeansOne DEF Steady
<1>2. \A v \in Workers : v # w => Briefed(v)' BY <1>1 DEF Briefed, Steady, Runs
<1>3. ~Over BY DEF Over, Steady
<1> QED BY <1>2, <1>3 DEF Confirmed, Steady

LEMMA ConfirmedWork ==
    ASSUME Shape, Supervision, Confirmed, NEW w \in Workers, Work(w) \/ Fault(w)
    PROVE  Confirmed'
<1>0. Types /\ Worker1(w) /\ Briefed(w) /\ Held(drained) \subseteq worked \cup missed
  BY DEF Shape, Confirmed
<1>1. Steady(w) BY ShapeWork
<1>2. meta.state # "done" BY <1>1 DEF Confirmed, Over, Steady
<1>3. ASSUME UNCHANGED <<draining, drained, worked, missed>>, Briefed(w)', meta'.state # "done"
      PROVE  Confirmed'
  BY <1>0, <1>1, <1>3, ConfirmedByOne DEF Held, Files
<1>4. UNCHANGED draining => Held(draining)' = Held(draining) BY DEF Held, Files
<1>5. UNCHANGED drained => Held(drained)' = Held(drained) BY DEF Held, Files
<1> USE DEF queue, history
<1>11. CASE Boot(w)
  <2>1. Briefed(w)' BY <1>0, <1>11, BootEffect DEF Briefed
  <2> QED BY <1>2, <1>3, <1>11, <2>1 DEF Boot
<1>12. CASE WorkerReadsMeta(w)
  <2>1. UNCHANGED <<meta, draining, drained, worked, missed, capped>> BY <1>12 DEF WorkerReadsMeta
  <2>2. Briefed(w)'
    BY <1>0, <1>4, <1>12, <2>1, WorkerReadsMetaEffect DEF Briefed, Continues, Left
  <2> QED BY <1>2, <1>3, <2>1, <2>2
<1>13. CASE Tell(w)
  <2>1. UNCHANGED <<cmd, draining, drained, worked, missed, capped>> /\ run[w].stage = "tell"
    BY <1>13 DEF Tell
  <2>2. /\ meta'.state = run[w].tell
        /\ \/ /\ run'[w].stage = "begin" /\ Continues(w) /\ run[w].tell \in {"retrying", "draining"}
           \/ run'[w].stage = "none"
    BY <1>13, TellEffect
  <2>3. CASE run'[w].stage = "begin"
    <3>1. Briefed(w)' BY <1>0, <1>4, <2>1, <2>2, <2>3 DEF Briefed, Continues
    <3> QED BY <1>3, <2>1, <2>2, <2>3, <3>1
  <2>4. CASE run'[w].stage = "none"
    <3>1. Briefed(w)' BY <2>4 DEF Briefed
    <3>2. meta'.state = "done" => Left' BY <1>0, <1>4, <2>1, <2>2 DEF Briefed, Left
    <3>3. \A v \in Workers : run'[v].stage = "none"
      BY <1>1, <2>4, SupervisionMeansOne DEF Steady, Runs
    <3>4. \A d \in Cmds : cmd[d].stage # "spawn" BY <1>1 DEF Supervision, Launch, Steady
    <3>5. meta'.state = "done" => Over' BY <2>1, <3>2, <3>3, <3>4 DEF Over
    <3> QED BY <1>0, <1>1, <1>5, <2>1, <3>1, <3>5, ConfirmedByOne
  <2> QED BY <2>2, <2>3, <2>4
<1>14. CASE ClaimItem(w)
  <2>1. UNCHANGED <<meta, drained, worked, missed>> BY <1>14 DEF ClaimItem
  <2>2. Briefed(w)' BY <1>0, <1>14, ClaimItemEffect DEF Briefed
  <2> QED BY <1>0, <1>1, <1>2, <1>5, <2>1, <2>2, ConfirmedByOne
<1>15. CASE FinalizeItem(w)
  <2>1. UNCHANGED <<meta, worked, missed>> BY <1>15 DEF FinalizeItem
  <2>2. /\ run[w].drain /\ Held(draining) \subseteq worked \cup missed
        /\ run'[w].stage = "finalize" /\ run'[w].drain = run[w].drain
    BY <1>0, <1>15, FinalizeItemEffect DEF Briefed, Continues
  <2>3. Held(draining)' \subseteq Held(draining)
        /\ Held(drained)' \subseteq Held(drained) \cup Held(draining)
    <3>1. CASE UNCHANGED <<draining, drained>> BY <3>1 DEF Held, Files
    <3>2. CASE ~UNCHANGED <<draining, drained>>
      <4>1. PICK n \in Names : /\ draining[n] # 0
                               /\ draining' = [draining EXCEPT ![n] = 0]
                               /\ drained' = [drained EXCEPT ![n] = draining[n]]
        BY <1>0, <1>15, <3>2, FinalizeItemEffect
      <4>2. draining \in Dirs /\ drained \in Dirs BY <1>0 DEF Types
      <4> QED BY <4>1, <4>2 DEF Held, Files, Dirs
    <3> QED BY <3>1, <3>2
  <2>4. Briefed(w)' BY <2>1, <2>2, <2>3 DEF Briefed
  <2>5. Held(drained)' \subseteq worked' \cup missed' BY <1>0, <2>1, <2>2, <2>3
  <2> QED BY <1>1, <1>2, <2>1, <2>4, <2>5, ConfirmedByOne
<1>16. CASE Finalized(w)
  <2>1. Briefed(w)' BY <1>0, <1>16, FinalizedEffect DEF Briefed
  <2> QED BY <1>2, <1>3, <1>16, <2>1 DEF Finalized
<1>17. ASSUME NEW found \in SUBSET Held(draining), Claim(w, found)
       PROVE  Confirmed'
  <2>1. UNCHANGED <<meta, draining, drained, worked>> BY <1>17 DEF Claim
  <2>2. missed' = missed \cup (Held(draining) \ (found \cap added)) BY <1>0, <1>17, ClaimEffect
  <2>3. Briefed(w)'
    <3>1. CASE run'[w].brief = found \cap added /\ run'[w].stage = "begin"
      BY <1>4, <2>1, <2>2, <3>1 DEF Briefed
    <3>2. CASE /\ run'[w].brief = found \cap added /\ run'[w].stage = "tell"
               /\ run'[w].tell = "draining"
      BY <1>4, <2>1, <2>2, <3>2 DEF Briefed
    <3>3. CASE Ends(w, "done") /\ (capped' \/ found = {})
      <4>1. Left' BY <1>4, <2>1, <2>2, <3>3 DEF Left
      <4> QED BY <3>3, <4>1 DEF Briefed, Ends
    <3> QED BY <1>0, <1>17, <3>1, <3>2, <3>3, ClaimEffect
  <2>4. Held(drained)' \subseteq worked' \cup missed' BY <1>0, <1>5, <2>1, <2>2
  <2> QED BY <1>1, <1>2, <2>1, <2>3, <2>4, ConfirmedByOne
<1>18. CASE TurnBegins(w)
  <2>1. meta'.state # "done" BY <1>18, TurnBeginsEffect
  <2>2. UNCHANGED <<draining, drained, worked, missed>> BY <1>18 DEF TurnBegins
  <2>3. Briefed(w)' BY <1>0, <1>4, <1>18, <2>2, TurnBeginsEffect DEF Briefed, Continues
  <2> QED BY <1>3, <2>1, <2>2, <2>3
<1>19. CASE Advance(w)
  <2>1. UNCHANGED <<meta, draining, drained, worked, missed>> BY <1>19 DEF Advance
  <2>2. Briefed(w)' BY <1>0, <1>4, <1>19, <2>1, AdvanceEffect DEF Briefed, Continues
  <2> QED BY <1>2, <1>3, <2>1, <2>2
<1>20. CASE TurnDone(w)
  <2>1. UNCHANGED <<meta, draining, drained, missed>> /\ worked' = worked \cup run[w].brief
    BY <1>20 DEF TurnDone
  <2>2. Briefed(w)'
    BY <1>0, <1>4, <1>20, <2>1, TurnDoneEffect DEF Briefed, Continues
  <2>3. Held(drained)' \subseteq worked' \cup missed' BY <1>0, <1>5, <2>1
  <2> QED BY <1>1, <1>2, <2>1, <2>2, <2>3, ConfirmedByOne
<1>21. CASE TurnEndsRun(w) \/ BootFails(w)
  <2>1. UNCHANGED <<meta, draining, drained, worked, missed>> BY <1>21 DEF TurnEndsRun, BootFails
  <2>2. Ends(w, "stopped") BY <1>0, <1>21, EndEffect DEF TurnEndsRun, BootFails, States
  <2>3. Briefed(w)' BY <2>2 DEF Briefed, Ends
  <2> QED BY <1>2, <1>3, <2>1, <2>3
<1>22. CASE Retry(w)
  <2>1. UNCHANGED <<meta, draining, drained, worked, missed>> BY <1>22 DEF Retry
  <2>2. Briefed(w)' BY <1>0, <1>4, <1>22, <2>1, RetryEffect DEF Briefed, Continues, Ends
  <2> QED BY <1>2, <1>3, <2>1, <2>2
<1>23. CASE RenameFails(w)
  <2>1. UNCHANGED <<meta, draining, drained, worked, missed, capped>> BY <1>23 DEF RenameFails
  <2>2. Briefed(w)' BY <1>0, <1>4, <1>23, <2>1, RenameFailsEffect DEF Briefed, Continues, Left
  <2> QED BY <1>2, <1>3, <2>1, <2>2
<1>24. CASE Recreate(w)
  <2>1. UNCHANGED <<meta, draining, drained, worked, missed>> BY <1>24 DEF Recreate
  <2>2. Briefed(w)' BY <1>0, <1>4, <1>24, <2>1, RecreateEffect DEF Briefed, Continues
  <2> QED BY <1>2, <1>3, <2>1, <2>2
<1>25. CASE Crash(w)
  <2>1. UNCHANGED <<meta, draining, drained, worked, missed>> BY <1>25 DEF Crash
  <2>2. Briefed(w)' BY <1>0, <1>25, KilledEffect DEF Crash, Briefed
  <2> QED BY <1>2, <1>3, <2>1, <2>2
<1>26. CASE Claimed(w) \/ ReadFails(w) BY <1>17, <1>26 DEF Claimed, ReadFails
<1> QED BY <1>11, <1>12, <1>13, <1>14, <1>15, <1>16, <1>18, <1>19, <1>20, <1>21, <1>22,
           <1>23, <1>24, <1>25, <1>26
        DEF Work, Fault

LEMMA ConfirmedStep ==
    ASSUME Shape, Supervision, Confirmed, "drain" \in Alone, [Next]_vars
    PROVE  Confirmed'
<1>1. CASE UNCHANGED vars BY <1>1, ConfirmedKept DEF vars, queue, history
<1> QED BY <1>1, ConfirmedIssue, ConfirmedCommand, ConfirmedWork DEF Next

\* Until a mishap drained/ only ever holds items that were in the brief of a turn that came
\* back Done, and such as a claim did not get to read (they are unreadable, or empty until
\* add() has written them: finalize() moves them with the rest), provided that the user
\* waits for a `backlog --drain`.
THEOREM DrainedWasDone ==
    ASSUME "drain" \in Alone
    PROVE  Spec => []DrainedIsDone
<1> DEFINE Inv == Shape /\ (mishaps = {} => Supervision /\ Confirmed)
<1>1. Init => Inv BY ShapeInit, SupervisionInit, ConfirmedInit
<1>2. Inv /\ [Next]_vars => Inv' BY ShapeStep, MishapsGrow, SupervisionStep, ConfirmedStep
<1>3. Inv => DrainedIsDone BY DEF Confirmed, DrainedIsDone
<1> QED BY <1>1, <1>2, <1>3, PTL DEF Spec

\* Until a mishap "done" in meta means that nothing is left in draining/ but what no claim
\* could read, or that the cycles were used up, provided that the user waits for a
\* `backlog --drain`.
THEOREM DoneHasDrained ==
    ASSUME "drain" \in Alone
    PROVE  Spec => []DoneMeansDrained
<1> DEFINE Inv == Shape /\ (mishaps = {} => Supervision /\ Confirmed)
<1>1. Init => Inv BY ShapeInit, SupervisionInit, ConfirmedInit
<1>2. Inv /\ [Next]_vars => Inv' BY ShapeStep, MishapsGrow, SupervisionStep, ConfirmedStep
<1>3. Inv => DoneMeansDrained BY DEF Confirmed, Over, Left, DoneMeansDrained
<1> QED BY <1>1, <1>2, <1>3, PTL DEF Spec

-----------------------------------------------------------------------------
(* The queue, when the user waits for each `backlog`. *)

LEMMA QueueInit == Init => Queue
<1> SUFFICES ASSUME Init PROVE Queue OBVIOUS
<1>1. Apart BY DEF Init, Apart, Empty
<1>2. NothingLost BY DEF Init, NothingLost
<1>3. Known BY DEF Init, Known, Dead
<1>4. \A c \in Cmds : cmd[c].stage = "idle" BY DEF Init, Idle
<1>5. Numbered BY <1>4 DEF Init, Numbered, NoFile, Empty, Adding
<1>6. \A c \in Cmds : Seen(c) /\ Made(c) BY <1>4 DEF Seen, Made, Adding
<1> QED BY <1>1, <1>2, <1>3, <1>5, <1>6 DEF Queue

\* What a directory holds are numbers of items.
LEMMA HeldNumbers ==
    ASSUME Shape, Numbered
    PROVE  Held(draining) \subseteq 1..items
<1>1. draining \in Dirs /\ items \in Nat BY Bounds DEF Shape, Types
<1> QED BY <1>1 DEF Numbered, Dirs, Held, Files

LEMMA HeldUnchanged ==
    ASSUME UNCHANGED <<pending, draining, drained>>
    PROVE  /\ Held(pending)' = Held(pending) /\ Held(draining)' = Held(draining)
           /\ Held(drained)' = Held(drained)
BY DEF Held, Files

\* Nothing moves in the queue, and who adds stays where it is.
LEMMA QueueKept ==
    ASSUME Shape, Queue, UNCHANGED <<pending, draining, drained, added, items>>, Known',
           \A d \in Cmds : cmd'[d] = cmd[d] \/ cmd'[d].stage = "idle" \/ cmd'[d].kind # "add"
    PROVE  Queue'
<1>1. Apart' /\ NothingLost' BY DEF Queue, Apart, NothingLost, Held, Files
<1>2. Numbered' BY DEF Queue, Numbered, NoFile, Adding
<1>3. \A d \in Cmds : Seen(d)' BY DEF Queue, Seen
<1>4. \A d \in Cmds : Made(d)' BY HeldUnchanged DEF Queue, Made, Adding, Stored
<1> QED BY <1>1, <1>2, <1>3, <1>4 DEF Queue

LEMMA QueueIssue ==
    ASSUME Shape, Queue, "add" \in Alone, NEW c \in Cmds, NEW k \in Kinds, Issue(c, k)
    PROVE  Queue'
<1>0. /\ cmd'[c].stage = Entry[k] /\ cmd'[c].kind = k /\ cmd'[c].top = 0
      /\ \A d \in Cmds : d # c => cmd'[d] = cmd[d]
      /\ k = "add" => cmd'[c].id = items' /\ items' = items + 1
      /\ items \in Nat /\ items' \in Nat /\ items <= items'
  BY ShapeIssue, Bounds DEF Shape, Types
<1>1. UNCHANGED <<pending, draining, drained, added, worked, missed, run>>
  BY DEF Issue, queue, history
<1>2. Known' BY <1>0, <1>1 DEF Queue, Known
<1>3. Apart' /\ NothingLost' BY <1>1 DEF Queue, Apart, NothingLost, Held, Files
<1>4. \A n \in Names : n \in Nat /\ pending[n] \in Nat /\ draining[n] \in Nat /\ drained[n] \in Nat
  BY Bounds DEF Shape, Types, Dirs, Names
<1>5. /\ \A n \in Names : n > items' => NoFile(n)'
      /\ \A n \in Names : pending'[n] <= items' /\ draining'[n] <= items' /\ drained'[n] <= items'
  BY <1>0, <1>1, <1>4 DEF Queue, Numbered, NoFile
<1>6. CASE k # "add"
  <2>1. k = "add" \/ items' = items BY <1>0, <1>6 DEF Issue
  <2>2. Numbered' BY <1>0, <1>1, <1>5, <1>6, <2>1 DEF Queue, Numbered, NoFile, Adding
  <2>3. \A d \in Cmds : Seen(d)' BY <1>0, <1>1, <1>6 DEF Queue, Seen
  <2>4. \A d \in Cmds : Made(d)'
    BY <1>0, <1>1, <1>6, HeldUnchanged DEF Queue, Made, Adding, Stored
  <2> QED BY <1>2, <1>3, <2>2, <2>3, <2>4 DEF Queue
<1>7. CASE k = "add"
  <2>1. \A d \in Cmds : d # c => cmd'[d].stage = "idle" BY <1>0, <1>7 DEF Issue
  <2>2. cmd'[c].stage = "scan" BY <1>0, <1>7, EntryStages
  <2>3. /\ cmd'[c].id \in 1..items' /\ cmd'[c].top < items'
        /\ \A n \in Names : n >= items' => NoFile(n)'
    BY <1>0, <1>1, <1>4, <1>7 DEF Queue, Numbered, NoFile
  <2>4. Numbered' BY <1>5, <2>1, <2>3 DEF Numbered, Adding
  <2>5. \A d \in Cmds : Seen(d)' /\ Made(d)'
    BY <1>0, <1>1, <2>1, <2>2 DEF Queue, Seen, Made, Adding
  <2> QED BY <1>2, <1>3, <2>4, <2>5 DEF Queue
<1> QED BY <1>6, <1>7

\* A directory is read: items only move to the ones that are still to be read.
LEMMA QueueScan ==
    ASSUME Shape, Queue, NEW c \in Cmds, Scan(c)
    PROVE  Queue'
<1>0. Types /\ Path(c) BY DEF Shape, Command1
<1>1. /\ cmd[c].kind = "add" /\ cmd[c].stage # "idle" /\ cmd'[c].kind = "add"
      /\ cmd'[c].id = cmd[c].id
      /\ cmd'[c].stage = After[cmd[c].stage]
      /\ cmd'[c].stage \in {"scan draining", "scan drained", "create"}
      /\ \/ cmd'[c].top = cmd[c].top
         \/ cmd'[c].top \in Files(Directory(cmd[c].stage))
      /\ cmd[c].top <= cmd'[c].top
      /\ \A n \in Files(Directory(cmd[c].stage)) : n <= cmd'[c].top
      /\ \A d \in Cmds : d # c => cmd'[d] = cmd[d]
  BY <1>0, ScanEffect
<1>2. cmd[c].top \in Texts /\ cmd'[c].top \in Texts
  BY <1>0, ScanEffect DEF Types, CmdRecs
<1>3. cmd[c].stage \in {"scan", "scan draining", "scan drained"} BY DEF Scan, After
<1>4. UNCHANGED <<pending, draining, drained, added, items, worked, missed, run>>
  BY DEF Scan, queue, history, counts
<1>5. Apart' /\ NothingLost' /\ Known' BY <1>4 DEF Queue, Apart, NothingLost, Held, Files, Known
<1>6. Directory(cmd[c].stage) \in {pending, draining, drained} BY <1>3 DEF Directory
<1>7. items \in Nat BY <1>0, Bounds DEF Types
<1>8. cmd'[c].top < items
  <2>1. cmd[c].top < items BY <1>1, <1>3 DEF Queue, Numbered, Adding
  <2>2. \A n \in Files(Directory(cmd[c].stage)) : n < items
    <3> SUFFICES ASSUME NEW n \in Names, n >= items PROVE Directory(cmd[c].stage)[n] = 0
      BY <1>7, Bounds DEF Files, Names
    <3>1. NoFile(n) BY <1>1, <1>3 DEF Queue, Numbered, Adding
    <3> QED BY <1>6, <3>1 DEF NoFile
  <2> QED BY <1>1, <2>1, <2>2
<1>9. Numbered' BY <1>1, <1>3, <1>4, <1>8 DEF Queue, Numbered, NoFile, Adding
<1>10. \A n \in Names : n > cmd'[c].top =>
         n > cmd[c].top /\ Directory(cmd[c].stage)[n] = 0
  <2> SUFFICES ASSUME NEW n \in Names, n > cmd'[c].top
               PROVE  n > cmd[c].top /\ Directory(cmd[c].stage)[n] = 0
    OBVIOUS
  <2>1. PICK s \in Nat : s = cmd[c].top BY <1>2, Bounds DEF Texts
  <2>2. PICK t \in Nat : t = cmd'[c].top BY <1>2, Bounds DEF Texts
  <2>3. s <= t BY <1>1, <2>1, <2>2
  <2>4. n \in Nat /\ n > t BY <2>2, Bounds DEF Names
  <2>5. \A m \in Files(Directory(cmd[c].stage)) : m <= t BY <1>1, <2>2
  <2>6. n \notin Files(Directory(cmd[c].stage)) BY <2>4, <2>5
  <2>7. Directory(cmd[c].stage)[n] = 0 BY <2>6 DEF Files
  <2> QED BY <2>1, <2>3, <2>4, <2>7
<1>11. Seen(c)'
  <2> SUFFICES ASSUME NEW n \in Names, n > cmd'[c].top
               PROVE  /\ cmd'[c].stage \in {"scan draining", "scan drained", "create"}
                            => pending[n] = 0
                      /\ cmd'[c].stage \in {"scan drained", "create"} => draining[n] = 0
                      /\ cmd'[c].stage = "create" => drained[n] = 0
    BY <1>4 DEF Seen
  <2>0. n > cmd[c].top BY <1>10
  <2>1. Directory(cmd[c].stage)[n] = 0 BY <1>10
  <2>2. CASE cmd[c].stage = "scan"
    BY <1>1, <2>1, <2>2 DEF Directory, After
  <2>3. CASE cmd[c].stage = "scan draining"
    <3>1. pending[n] = 0 BY <1>1, <2>0, <2>3 DEF Queue, Seen
    <3> QED BY <1>1, <2>1, <2>3, <3>1 DEF Directory, After
  <2>4. CASE cmd[c].stage = "scan drained"
    <3>1. pending[n] = 0 /\ draining[n] = 0 BY <1>1, <2>0, <2>4 DEF Queue, Seen
    <3> QED BY <1>1, <2>1, <2>4, <3>1 DEF Directory, After
  <2> QED BY <1>3, <2>2, <2>3, <2>4
<1>12. \A d \in Cmds : Seen(d)' BY <1>1, <1>4, <1>11 DEF Queue, Seen
<1>13. \A d \in Cmds : Made(d)' BY <1>1, <1>4, HeldUnchanged DEF Queue, Made, Adding, Stored
<1> QED BY <1>5, <1>9, <1>12, <1>13 DEF Queue

\* The new file gets a name that no directory has.
LEMMA QueueCreate ==
    ASSUME Shape, Queue, "add" \in Alone, NEW c \in Cmds, CreateItem(c)
    PROVE  Queue'
<1>0. Types /\ Command1(c) /\ cmd \in [Cmds -> CmdRecs] BY DEF Shape, Types
<1>1. cmd[c].kind = "add" /\ cmd[c].stage = "create"
  BY <1>0 DEF CreateItem, Command1, Path, PathAt
<1>2. \A d \in Cmds : d # c => cmd[d].stage = "idle" BY <1>0, <1>1 DEF Command1, IsAlone
<1>3. /\ cmd'[c].stage = "write" /\ cmd'[c].kind = "add" /\ cmd'[c].id = cmd[c].id
      /\ \A d \in Cmds : d # c => cmd'[d] = cmd[d]
  BY <1>0, <1>1, GotoEffect DEF CreateItem, CmdStages
<1>4. /\ cmd[c].top < items /\ cmd[c].top \in Nat /\ items \in Nat /\ items <= MaxItems
      /\ cmd[c].id \in 1..items /\ cmd[c].id \in Nat
  BY <1>0, <1>1, Bounds DEF Queue, Numbered, Adding, Types, CmdRecs, Texts
<1>5. PICK t \in Names : t = cmd[c].top + 1 BY <1>4, Bounds DEF Names
<1>6. NoFile(t)
  <2>1. t > cmd[c].top BY <1>4, <1>5
  <2> QED BY <1>1, <2>1 DEF Queue, Seen, NoFile
<1>7. /\ pending' = [pending EXCEPT ![t] = cmd[c].id]
      /\ UNCHANGED <<draining, drained, added, worked, missed, run, items>>
  BY <1>5 DEF CreateItem, history, counts
<1>8. /\ pending'[t] = cmd[c].id /\ cmd[c].id # 0 /\ pending \in Dirs
      /\ \A n \in Names : n # t => pending'[n] = pending[n]
  BY <1>0, <1>4, <1>7 DEF Types, Dirs
<1>9. Apart' BY <1>6, <1>7, <1>8 DEF Queue, Apart, NoFile
<1>10. Held(pending)' = Held(pending) \cup {cmd[c].id}
  BY <1>6, <1>8 DEF NoFile, Held, Files
<1>11. Held(draining)' = Held(draining) /\ Held(drained)' = Held(drained)
  BY <1>7 DEF Held, Files
<1>12. NothingLost' BY <1>7, <1>10, <1>11 DEF Queue, NothingLost
<1>13. Known' BY <1>7 DEF Queue, Known
<1>14. Numbered'
  <2>1. \A n \in Names : n > items => NoFile(n)'
    BY <1>4, <1>5, <1>7, <1>8, Bounds DEF Queue, Numbered, NoFile, Names
  <2>2. \A n \in Names : pending'[n] <= items' /\ draining'[n] <= items' /\ drained'[n] <= items'
    BY <1>4, <1>7, <1>8 DEF Queue, Numbered
  <2> QED BY <1>2, <1>3, <1>4, <1>7, <2>1, <2>2 DEF Numbered, Adding
<1>15. \A d \in Cmds : Seen(d)' /\ Made(d)'
  <2>1. \A d \in Cmds : d # c => Seen(d)' /\ Made(d)' BY <1>2, <1>3 DEF Seen, Made, Adding
  <2>2. Seen(c)' /\ Made(c)' BY <1>3, <1>10 DEF Seen, Made, Stored
  <2> QED BY <2>1, <2>2
<1> QED BY <1>9, <1>12, <1>13, <1>14, <1>15 DEF Queue

\* The text is in its file, wherever that is by now.
LEMMA QueueWrite ==
    ASSUME Shape, Queue, NEW c \in Cmds, WriteItem(c)
    PROVE  Queue'
<1>0. Types /\ Command1(c) /\ cmd \in [Cmds -> CmdRecs] BY DEF Shape, Types
<1>1. cmd[c].kind = "add" /\ cmd[c].stage = "write"
  BY <1>0 DEF WriteItem, Command1, Path, PathAt
<1>2. cmd'[c].stage = "idle" /\ \A d \in Cmds : d # c => cmd'[d] = cmd[d]
  BY <1>0, LeaveEffect DEF WriteItem
<1>3. UNCHANGED <<pending, draining, drained, worked, missed, run, items>>
      /\ added' = added \cup {cmd[c].id}
  BY DEF WriteItem, queue, counts
<1>4. Held(pending)' = Held(pending) /\ Held(draining)' = Held(draining)
      /\ Held(drained)' = Held(drained)
  BY <1>3 DEF Held, Files
<1>5. Stored(cmd[c].id) /\ cmd[c].id \in 1..items
  BY <1>1 DEF Queue, Made, Adding, Numbered
<1>6. NothingLost' BY <1>3, <1>4, <1>5 DEF Queue, NothingLost, Stored
<1>7. Apart' BY <1>3 DEF Queue, Apart
<1>8. Known' BY <1>3, <1>5 DEF Queue, Known
<1>9. Numbered' BY <1>2, <1>3 DEF Queue, Numbered, NoFile, Adding
<1>10. \A d \in Cmds : Seen(d)' /\ Made(d)'
  BY <1>2, <1>3, <1>4 DEF Queue, Seen, Made, Adding, Stored
<1> QED BY <1>6, <1>7, <1>8, <1>9, <1>10 DEF Queue

LEMMA QueueCommand ==
    ASSUME Shape, Queue, "add" \in Alone, NEW c \in Cmds, Command(c) \/ KillCmd(c)
    PROVE  Queue'
<1>0. Types /\ Command1(c) /\ cmd \in [Cmds -> CmdRecs] BY DEF Shape, Types
<1>1. ASSUME UNCHANGED <<pending, draining, drained, added, worked, missed, items>>,
             \A d \in Cmds : d # c => cmd'[d] = cmd[d],
             cmd'[c].stage = "idle" \/ cmd'[c].kind # "add",
             \A w \in Workers : run'[w] = run[w] \/ run'[w].brief = {}
      PROVE  Queue'
  <2>1. Known' BY <1>1 DEF Queue, Known
  <2> QED BY <1>1, <2>1, QueueKept
<1>2. ASSUME cmd[c].kind # "add", NEW s \in CmdStages, Goto(c, s)
      PROVE  cmd'[c].kind # "add" /\ \A d \in Cmds : d # c => cmd'[d] = cmd[d]
  BY <1>0, <1>2, GotoEffect
<1>3. ASSUME Leave(c)
      PROVE  cmd'[c].stage = "idle" /\ \A d \in Cmds : d # c => cmd'[d] = cmd[d]
  BY <1>0, <1>3, LeaveEffect
<1>4. cmd[c].stage \in {"look", "guard", "acquire", "owner", "reclaim", "check", "own", "setup",
                        "spawn", "pid", "state", "kill", "stop"} => cmd[c].kind # "add"
  BY <1>0 DEF Command1, Path, PathAt
<1> USE DEF queue, history, counts
<1>11. CASE Look(c) BY <1>1, <1>2, <1>3, <1>4, <1>11 DEF Look, CmdStages
<1>12. CASE Guard(c)
  <2>1. (\E s \in CmdStages : Goto(c, s)) \/ Leave(c) BY <1>12 DEF Guard, CmdStages
  <2> QED BY <1>1, <1>2, <1>3, <1>4, <1>12, <2>1 DEF Guard
<1>13. CASE Acquire(c) BY <1>1, <1>2, <1>4, <1>13 DEF Acquire, CmdStages
<1>14. CASE ReadOwner(c) BY <1>1, <1>2, <1>3, <1>4, <1>14 DEF ReadOwner, CmdStages
<1>15. CASE Reclaim(c) BY <1>1, <1>2, <1>4, <1>15 DEF Reclaim, CmdStages
<1>16. CASE CheckAlive(c) BY <1>1, <1>2, <1>3, <1>4, <1>16 DEF CheckAlive, CmdStages
<1>17. CASE WriteOwner(c) BY <1>1, <1>2, <1>3, <1>4, <1>17 DEF WriteOwner, CmdStages
<1>18. CASE ReadMeta(c)
  <2>1. cmd[c].stage \in {"setup", "pid", "state", "stop"} BY <1>18, ReadMetaEffect
  <2>2. cmd'[c].kind = cmd[c].kind /\ \A d \in Cmds : d # c => cmd'[d] = cmd[d]
    BY <1>18, ReadMetaEffect
  <2>3. UNCHANGED <<pending, draining, drained, added, worked, missed, items, run>>
    BY <1>18 DEF ReadMeta
  <2> QED BY <1>1, <1>4, <2>1, <2>2, <2>3
<1>19. CASE Setup(c) BY <1>1, <1>2, <1>4, <1>19 DEF Setup, CmdStages
<1>20. CASE Spawn(c)
  <2>1. \A w \in Workers : run'[w] = run[w] \/ run'[w].brief = {} BY <1>20, ShapeSpawn
  <2> QED BY <1>1, <1>2, <1>4, <1>20, <2>1 DEF Spawn, CmdStages
<1>21. CASE RecordPid(c) BY <1>1, <1>2, <1>3, <1>4, <1>21 DEF RecordPid, CmdStages
<1>22. CASE RecordState(c) BY <1>1, <1>3, <1>22 DEF RecordState
<1>23. CASE Kill(c)
  <2>1. \A w \in Workers : run'[w] = run[w] \/ run'[w].brief = {} BY <1>23, ShapeKill DEF Dead
  <2> QED BY <1>1, <1>2, <1>3, <1>4, <1>23, <2>1 DEF Kill, CmdStages
<1>24. CASE MarkStopped(c) BY <1>1, <1>3, <1>24 DEF MarkStopped
<1>25. CASE KillCmd(c) BY <1>1, <1>3, <1>25 DEF KillCmd, Trouble
<1>26. CASE Scan(c) BY <1>26, QueueScan
<1>27. CASE CreateItem(c) BY <1>27, QueueCreate
<1>28. CASE WriteItem(c) BY <1>28, QueueWrite
<1> QED BY <1>11, <1>12, <1>13, <1>14, <1>15, <1>16, <1>17, <1>18, <1>19, <1>20, <1>21, <1>22,
           <1>23, <1>24, <1>25, <1>26, <1>27, <1>28
        DEF Command

\* A file moves on to the next directory: its name is taken there by no other.
LEMMA QueueClaim ==
    ASSUME Shape, Queue, NEW w \in Workers, ClaimItem(w)
    PROVE  Queue'
<1>0. Types BY DEF Shape
<1>1. UNCHANGED <<drained, added, worked, missed, items, cmd>> BY DEF ClaimItem, history, counts
<1>2. Known' BY <1>0, <1>1, ClaimItemEffect DEF Queue, Known, Runs, Continues
<1>3. CASE UNCHANGED <<pending, draining>> BY <1>1, <1>2, <1>3, QueueKept
<1>4. CASE ~UNCHANGED <<pending, draining>>
  <2>1. PICK n \in Names : /\ pending[n] # 0
                           /\ pending' = [pending EXCEPT ![n] = 0]
                           /\ draining' = [draining EXCEPT ![n] = pending[n]]
    BY <1>0, <1>4, ClaimItemEffect
  <2>2. /\ pending'[n] = 0 /\ draining'[n] = pending[n]
        /\ \A m \in Names : m # n => pending'[m] = pending[m] /\ draining'[m] = draining[m]
    BY <1>0, <2>1 DEF Types, Dirs
  <2>3. draining[n] = 0 /\ drained[n] = 0 BY <2>1 DEF Queue, Apart
  <2>4. Apart' BY <1>1, <2>2, <2>3 DEF Queue, Apart
  <2>5. /\ Held(pending)' \cup Held(draining)' = Held(pending) \cup Held(draining)
        /\ Held(drained)' = Held(drained)
    BY <1>1, <2>1, <2>2, <2>3 DEF Held, Files
  <2>6. NothingLost' BY <1>1, <2>5 DEF Queue, NothingLost
  <2>7. Numbered'
    <3>1. items \in Nat BY <1>0, Bounds DEF Types
    <3> QED BY <1>1, <2>1, <2>2, <3>1 DEF Queue, Numbered, NoFile, Adding
  <2>8. \A d \in Cmds : Seen(d)' BY <1>1, <2>1, <2>2 DEF Queue, Seen
  <2>9. \A d \in Cmds : Made(d)' BY <1>1, <2>5 DEF Queue, Made, Adding, Stored
  <2> QED BY <1>2, <2>4, <2>6, <2>7, <2>8, <2>9 DEF Queue
<1> QED BY <1>3, <1>4

LEMMA QueueFinalize ==
    ASSUME Shape, Queue, NEW w \in Workers, FinalizeItem(w)
    PROVE  Queue'
<1>0. Types BY DEF Shape
<1>1. UNCHANGED <<pending, added, worked, missed, items, cmd>> BY DEF FinalizeItem, history, counts
<1>2. Known' BY <1>0, <1>1, FinalizeItemEffect DEF Queue, Known, Runs, Continues
<1>3. CASE UNCHANGED <<draining, drained>> BY <1>1, <1>2, <1>3, QueueKept
<1>4. CASE ~UNCHANGED <<draining, drained>>
  <2>1. PICK n \in Names : /\ draining[n] # 0
                           /\ draining' = [draining EXCEPT ![n] = 0]
                           /\ drained' = [drained EXCEPT ![n] = draining[n]]
    BY <1>0, <1>4, FinalizeItemEffect
  <2>2. /\ draining'[n] = 0 /\ drained'[n] = draining[n]
        /\ \A m \in Names : m # n => draining'[m] = draining[m] /\ drained'[m] = drained[m]
    BY <1>0, <2>1 DEF Types, Dirs
  <2>3. pending[n] = 0 /\ drained[n] = 0 BY <2>1 DEF Queue, Apart
  <2>4. Apart' BY <1>1, <2>2, <2>3 DEF Queue, Apart
  <2>5. /\ Held(draining)' \cup Held(drained)' = Held(draining) \cup Held(drained)
        /\ Held(pending)' = Held(pending)
    BY <1>1, <2>1, <2>2, <2>3 DEF Held, Files
  <2>6. NothingLost' BY <1>1, <2>5 DEF Queue, NothingLost
  <2>7. Numbered'
    <3>1. items \in Nat BY <1>0, Bounds DEF Types
    <3> QED BY <1>1, <2>1, <2>2, <3>1 DEF Queue, Numbered, NoFile, Adding
  <2>8. \A d \in Cmds : Seen(d)' BY <1>1, <2>1, <2>2 DEF Queue, Seen
  <2>9. \A d \in Cmds : Made(d)' BY <1>1, <2>5 DEF Queue, Made, Adding, Stored
  <2> QED BY <1>2, <2>4, <2>6, <2>7, <2>8, <2>9 DEF Queue
<1> QED BY <1>3, <1>4

LEMMA QueueWork ==
    ASSUME Shape, Queue, NEW w \in Workers, Work(w) \/ Fault(w)
    PROVE  Queue'
<1>0. Types /\ Worker1(w) BY DEF Shape
<1>1. Runs(w) /\ UNCHANGED <<cmd, added, items>> BY ShapeWork DEF Steady
<1>2. /\ run[w].brief \subseteq added /\ worked \subseteq added /\ missed \subseteq 1..items
      /\ \A v \in Workers : v # w => run'[v].brief \subseteq added
  BY <1>1 DEF Queue, Known, Runs
<1>3. ASSUME UNCHANGED queue, run'[w].brief \subseteq added, worked' \subseteq added,
             missed' \subseteq 1..items
      PROVE  Queue'
  <2>1. Known' BY <1>1, <1>2, <1>3 DEF Queue, Known
  <2> QED BY <1>1, <1>3, <2>1, QueueKept DEF queue
<1>4. ASSUME UNCHANGED <<queue, worked, missed>>, run'[w].brief \in {run[w].brief, {}}
      PROVE  Queue'
  BY <1>2, <1>3, <1>4
<1>5. ASSUME NEW found \in SUBSET Held(draining), Claim(w, found)
      PROVE  Queue'
  <2>1. missed' = missed \cup (Held(draining) \ (found \cap added)) BY <1>0, <1>5, ClaimEffect
  <2>2. Held(draining) \subseteq 1..items BY HeldNumbers DEF Queue
  <2>3. run'[w].brief \subseteq added BY <1>0, <1>5, ClaimEffect DEF Ends
  <2>4. UNCHANGED <<queue, worked>> BY <1>5 DEF Claim
  <2> QED BY <1>2, <1>3, <2>1, <2>2, <2>3, <2>4
<1> USE DEF history
<1>11. CASE Boot(w) BY <1>0, <1>4, <1>11, BootEffect DEF Boot
<1>12. CASE WorkerReadsMeta(w)
  BY <1>0, <1>4, <1>12, WorkerReadsMetaEffect DEF WorkerReadsMeta, Continues
<1>13. CASE Tell(w)
  <2>1. run'[w].brief \in {run[w].brief, {}} BY <1>13, TellEffect DEF Dead, Continues
  <2> QED BY <1>4, <1>13, <2>1 DEF Tell
<1>14. CASE ClaimItem(w) BY <1>14, QueueClaim
<1>15. CASE FinalizeItem(w) BY <1>15, QueueFinalize
<1>16. CASE Finalized(w) BY <1>0, <1>4, <1>16, FinalizedEffect DEF Finalized, Continues
<1>17. CASE Claimed(w) \/ ReadFails(w) BY <1>5, <1>17 DEF Claimed, ReadFails
<1>18. CASE TurnBegins(w) BY <1>4, <1>18, TurnBeginsEffect DEF TurnBegins, Continues
<1>19. CASE Advance(w) BY <1>0, <1>4, <1>19, AdvanceEffect DEF Advance, Continues
<1>20. CASE TurnDone(w) BY <1>0, <1>2, <1>3, <1>20, TurnDoneEffect DEF TurnDone, Continues
<1>21. CASE TurnEndsRun(w) BY <1>0, <1>4, <1>21, EndEffect DEF TurnEndsRun, States, Ends
<1>22. CASE Retry(w)
  <2>1. run'[w].brief \in {run[w].brief, {}} BY <1>0, <1>22, RetryEffect DEF Continues, Ends
  <2>2. UNCHANGED <<queue, worked, missed>> BY <1>22 DEF Retry
  <2> QED BY <1>4, <2>1, <2>2
<1>23. CASE BootFails(w) BY <1>0, <1>4, <1>23, EndEffect DEF BootFails, States, Ends
<1>24. CASE RenameFails(w) BY <1>0, <1>4, <1>24, RenameFailsEffect DEF RenameFails, Continues
<1>25. CASE Recreate(w) BY <1>0, <1>4, <1>25, RecreateEffect DEF Recreate, Continues
<1>26. CASE Crash(w)
  <2>1. run'[w].brief \in {run[w].brief, {}}
    <3>1. run'[w] = Dead BY <1>0, <1>26, KilledEffect DEF Crash
    <3> QED BY <3>1 DEF Dead
  <2> QED BY <1>4, <1>26, <2>1 DEF Crash
<1> QED BY <1>11, <1>12, <1>13, <1>14, <1>15, <1>16, <1>17, <1>18, <1>19, <1>20, <1>21, <1>22,
           <1>23, <1>24, <1>25, <1>26
        DEF Work, Fault

LEMMA QueueStep ==
    ASSUME Shape, Queue, "add" \in Alone, [Next]_vars
    PROVE  Queue'
<1>1. CASE UNCHANGED vars
  <2>1. Known' BY <1>1 DEF vars, history, counts, Queue, Known
  <2> QED BY <1>1, <2>1, QueueKept DEF vars, queue, history, counts
<1> QED BY <1>1, QueueIssue, QueueCommand, QueueWork DEF Next

LEMMA QueueTyped ==
    ASSUME Shape, Queue
    PROVE  TypeOK
<1>1. items \in 0..MaxItems /\ MaxItems \in Nat BY Bounds DEF Shape, Types
<1>2. added \subseteq Texts /\ missed \subseteq Texts BY <1>1 DEF Queue, Known, Texts
<1>3. /\ pending \in [Names -> Texts] /\ draining \in [Names -> Texts]
      /\ drained \in [Names -> Texts]
  <2>1. \A n \in Names : /\ pending[n] \in Texts /\ draining[n] \in Texts /\ drained[n] \in Texts
    BY <1>1 DEF Shape, Types, Dirs, Queue, Numbered, Texts
  <2> QED BY <2>1 DEF Shape, Types, Dirs
<1>4. \A w \in Workers : run[w].mode \in Modes /\ run[w].list \subseteq Names
                          /\ run[w].brief \subseteq added /\ run[w].attempt \in Nat
  BY DEF Shape, Types, RunRecs, Queue, Known
<1>5. \A c \in Cmds : cmd[c].kind \in Kinds /\ cmd[c].id \in Nat
  BY DEF Shape, Types, CmdRecs
<1> QED BY <1>2, <1>3, <1>4, <1>5
        DEF TypeOK, Shape, Types, MetaRecs, LockRecs, Queue, Known

\* A queued item is never lost, whatever number of workers move files while add() reads the
\* directories and writes its file, and whoever is killed, provided that the user waits for
\* a `backlog` to return (two of them choose the same number): next_seq(), add(), claim(),
\* finalize().
THEOREM ItemsKept ==
    ASSUME "add" \in Alone
    PROVE  Spec => []NothingLost
<1>1. Init => Shape /\ Queue BY ShapeInit, QueueInit
<1>2. Shape /\ Queue /\ [Next]_vars => (Shape /\ Queue)' BY ShapeStep, QueueStep
<1>3. Shape /\ Queue => NothingLost BY DEF Queue
<1> QED BY <1>1, <1>2, <1>3, PTL DEF Spec

\* The files hold what their types say; the texts of a brief and those that were worked are
\* texts of queued items, those that were missed at most of items that an add() has begun.
THEOREM SlotTypes ==
    ASSUME "add" \in Alone
    PROVE  Spec => []TypeOK
<1>1. Init => Shape /\ Queue BY ShapeInit, QueueInit
<1>2. Shape /\ Queue /\ [Next]_vars => (Shape /\ Queue)' BY ShapeStep, QueueStep
<1>3. Shape /\ Queue => TypeOK BY QueueTyped
<1> QED BY <1>1, <1>2, <1>3, PTL DEF Spec

=============================================================================

------------------------------ MODULE JdiSlot ------------------------------
(***************************************************************************)
(* agent-jdi on one project directory: the commands of the user (start and *)
(* resume, backlog, backlog --drain, takeover), the slot lock and the meta *)
(* file they share, the detached workers that run turn after turn of an    *)
(* agent, and the backlog queue pending/ -> draining/ -> drained/.         *)
(*                                                                         *)
(* A command or a worker may be killed between any two steps.  One file    *)
(* operation is one step: a meta_set reads the file and renames a new one  *)
(* over it, add() creates its file and then writes it, and acquire() makes *)
(* a lock, reads its owner and removes it in steps of their own.  (Several *)
(* meta_sets in a row are one, and so is a remove_dir_all.)  The code is   *)
(* not safe against all of this: mishaps and missed record what happened,  *)
(* and the properties say what holds without it.  What a turn of the agent *)
(* brings is open: it is external.                                         *)
(***************************************************************************)
EXTENDS Integers, FiniteSets, FiniteSetsExt

CONSTANTS
    Terminals,      \* bound: commands under way at a time
    May,            \* kinds of command the user issues
    Alone,          \* kinds of command the user issues only one at a time
    Caps,           \* values of --max-attempts; 0 is never
    MaxDrainCycles, MaxIdenticalFailures, MaxNoProgress,  \* constants of the loop
    MaxLaunches,    \* bound: commands that mean to launch a worker
    Beyond,         \* bound: whether commands and faults go on after a mishap
    MaxItems,       \* bound: items queued
    MaxProgress,    \* bound: turns that change the task list, HEAD or the worktree
    MaxEvents,      \* bound: launches, items and such turns together
    MaxTroubles,    \* bound: kills, failing renames and reads, vanished sessions
    None            \* no meta_set under way

Kinds == {"start", "drain", "takeover", "add"}

ASSUME JdiAssumption ==
    /\ May \subseteq Kinds /\ Alone \subseteq Kinds /\ Caps \subseteq Nat /\ Caps # {}
    /\ {Terminals, MaxDrainCycles, MaxIdenticalFailures, MaxNoProgress, MaxLaunches, MaxItems,
        MaxProgress, MaxEvents, MaxTroubles} \subseteq Nat /\ Beyond \in BOOLEAN

Cmds == 1..Terminals
Workers == 1..MaxLaunches
Names == 1..MaxItems
Texts == 0..MaxItems

VARIABLES
    agent,      \* the agent of the directory: Claude plans first, Codex does not
    lock,       \* the lock directory: made, and the pid in its owner file, 0 without
    meta,       \* the meta file: pid (0 without), state, mode and max_attempts
    cmd,        \* cmd[c]: stage and kind of a command, its worker or text, what it has read
    run,        \* run[w]: the local state of a worker's run_loop_body
    pending, draining, drained,  \* the queue: name -> text (to be written), 0 without a file
    added,      \* texts whose add() has returned: a file is empty until then
    worked,     \* texts that were in the brief of a turn that came back Done
    capped,     \* the last worker that ended "done" had used all its drain cycles
    missed,     \* texts of files in draining/ whose text a claim did not get to read
    mishaps,    \* what has happened that undoes the slot lock or the recorded pid
    launches, items, progress, troubles   \* how much of each bound is used

queue == <<pending, draining, drained>>
history == <<added, worked, capped, missed, mishaps>>
counts == <<launches, items, progress, troubles>>
vars == <<agent, lock, meta, cmd, run, queue, history, counts>>

Modes == {"start", "execute", "resume-dump", "resume-execute", "backlog-dump",
          "backlog-execute"}
\* failed, gaveup, idle and blocked are "stopped" here: nothing tells them apart.
States == {"none", "starting", "running", "draining", "retrying", "done", "stopped"}

\* A command killed between spawn and the recorded pid of its worker; a rename of meta over
\* a pid recorded since it was read; a lock removed that a live command had made.
Mishaps == {"untracked", "overwritten", "robbed"}

Idle == [stage |-> "idle", kind |-> "add", id |-> 0, top |-> 0, copy |-> None]
Dead == [stage |-> "none", mode |-> "execute", drain |-> FALSE, brief |-> {}, list |-> {},
         attempt |-> 0, cap |-> 0, cycles |-> 0, still |-> 0, fp |-> FALSE, same |-> 0,
         tell |-> "none", copy |-> None]
Free == [made |-> FALSE, owner |-> 0]
Empty == [n \in Names |-> 0]

Files(dir) == {n \in Names : dir[n] # 0}
Held(dir) == {dir[n] : n \in Files(dir)}
Alive(w) == w \in Workers /\ run[w].stage # "none"

Init ==
    /\ agent \in {"claude", "codex"}
    /\ lock = Free
    /\ meta = [pid |-> 0, state |-> "none", mode |-> "execute", cap |-> 0]
    /\ cmd = [c \in Cmds |-> Idle]
    /\ run = [w \in Workers |-> Dead]
    /\ pending = Empty /\ draining = Empty /\ drained = Empty
    /\ added = {} /\ worked = {} /\ capped = FALSE /\ missed = {} /\ mishaps = {}
    /\ launches = 0 /\ items = 0 /\ progress = 0 /\ troubles = 0

Trouble ==
    /\ troubles < MaxTroubles
    /\ troubles' = troubles + 1
    /\ UNCHANGED <<launches, items, progress>>

Goto(c, stage) == cmd' = [cmd EXCEPT ![c].stage = stage, ![c].copy = None]
Leave(c) == cmd' = [cmd EXCEPT ![c] = Idle]

Mishap(what, happens) == mishaps' = IF happens THEN mishaps \cup {what} ELSE mishaps

\* meta_set() ends: the file written from what was read is renamed over meta.
Renamed(copy) == copy # None /\ meta' = copy

-----------------------------------------------------------------------------
(* The commands. *)

Entry == [start |-> "guard", drain |-> "look", takeover |-> "kill", add |-> "scan"]

\* The user runs a command in the first free terminal (they are all alike); some kinds only
\* when no other command is under way.
Issue(c, k) ==
    LET others == {d \in Cmds : cmd[d].stage # "idle"} IN
    /\ cmd[c].stage = "idle" /\ k \in May
    /\ \A d \in Cmds \ others : c <= d
    /\ k \in Alone => others = {}
    /\ \A d \in others : cmd[d].kind \notin Alone
    /\ IF k \in {"start", "drain"}
         THEN launches < MaxLaunches /\ launches' = launches + 1 /\ items' = items
         ELSE IF k = "add" THEN items < MaxItems /\ items' = items + 1 /\ launches' = launches
                           ELSE UNCHANGED <<launches, items>>
    /\ launches' + items' + progress <= MaxEvents
    /\ cmd' = [cmd EXCEPT ![c] = [Idle EXCEPT !.stage = Entry[k], !.kind = k,
                                   !.id = IF k = "add" THEN items' ELSE launches']]
    /\ UNCHANGED <<agent, lock, meta, run, queue, history, progress, troubles>>

\* backlog --drain: a live worker drains anyhow, and an empty queue needs none.
Look(c) ==
    /\ cmd[c].stage = "look"
    /\ IF Alive(meta.pid) \/ Files(pending) \cup Files(draining) = {}
         THEN Leave(c) ELSE Goto(c, "guard")
    /\ UNCHANGED <<agent, lock, meta, run, queue, history, counts>>

\* guard_no_conflict(): no recorded worker of this directory is alive.
Guard(c) ==
    /\ cmd[c].stage = "guard"
    /\ IF Alive(meta.pid) THEN Leave(c)
       ELSE Goto(c, IF cmd[c].kind = "start" THEN "acquire" ELSE "setup")
    /\ UNCHANGED <<agent, lock, meta, run, queue, history, counts>>

\* acquire(): mkdir wins, or there is a lock already.
Acquire(c) ==
    /\ cmd[c].stage = "acquire"
    /\ IF lock.made THEN Goto(c, "owner") /\ UNCHANGED lock
                    ELSE Goto(c, "check") /\ lock' = [made |-> TRUE, owner |-> 0]
    /\ UNCHANGED <<agent, meta, run, queue, history, counts>>

OwnerAlive ==
    \E d \in Cmds : cmd[d].stage # "idle" /\ cmd[d].kind = "start" /\ cmd[d].id = lock.owner

\* The lock of a live owner is respected.  The look at the owner, the one 100 ms later if
\* there was none, and the probe of its pid are one step: a lock remade in between is taken
\* from a live command, as one without an owner yet can be here.
ReadOwner(c) ==
    /\ cmd[c].stage = "owner"
    /\ IF OwnerAlive THEN Leave(c) ELSE Goto(c, "reclaim")
    /\ UNCHANGED <<agent, lock, meta, run, queue, history, counts>>

\* A start that has made the lock and not left.
Holding(d) ==
    cmd[d].kind = "start" /\ cmd[d].stage \in {"check", "own", "setup", "spawn", "pid", "state"}

\* A lock taken to be stale is removed, whoever has made it by now, and mkdir tried again.
Reclaim(c) ==
    /\ cmd[c].stage = "reclaim"
    /\ lock' = Free /\ Goto(c, "acquire")
    /\ Mishap("robbed", lock.made /\ \E d \in Cmds : Holding(d))
    /\ UNCHANGED <<agent, meta, run, queue, added, worked, capped, missed, counts>>

\* Mutant: the pid is not asked again under the lock.
CheckAliveTrusts(c) ==
    /\ cmd[c].stage = "check"
    /\ Goto(c, "own") /\ UNCHANGED lock
    /\ UNCHANGED <<agent, meta, run, queue, history, counts>>

\* acquire(), under the lock: a worker runs without the lock, so its pid is asked.
CheckAlive(c) ==
    /\ cmd[c].stage = "check"
    /\ IF Alive(meta.pid) THEN lock' = Free /\ Leave(c)
                          ELSE Goto(c, "own") /\ UNCHANGED lock
    /\ UNCHANGED <<agent, meta, run, queue, history, counts>>

\* The owner file is written, which fails without the directory.
WriteOwner(c) ==
    /\ cmd[c].stage = "own"
    /\ IF lock.made THEN lock' = [lock EXCEPT !.owner = cmd[c].id] /\ Goto(c, "setup")
                    ELSE Leave(c) /\ UNCHANGED lock
    /\ UNCHANGED <<agent, meta, run, queue, history, counts>>

\* initial_mode(): what each trigger begins with; start and resume are one kind here.
InitialModes(k) ==
    CASE k = "start" -> {"start", IF agent = "claude" THEN "resume-dump" ELSE "execute"}
      [] k = "drain" -> {IF agent = "claude" THEN "backlog-dump" ELSE "execute"}

\* meta_set(): what is in the file is read, and written to a file of its own with the keys
\* set: those that the worker of a launch will read and the state, its pid, a state ...
Copy(c, m) == cmd' = [cmd EXCEPT ![c].copy = m]

ReadMeta(c) ==
    /\ cmd[c].copy = None
    /\ \/ /\ cmd[c].stage = "setup" /\ cmd[c].kind = "start"
          /\ \E m \in InitialModes("start"), x \in Caps :
                Copy(c, [meta EXCEPT !.state = "starting", !.mode = m, !.cap = x])
       \/ /\ cmd[c].stage = "setup" /\ cmd[c].kind = "drain"
          /\ \E m \in InitialModes("drain") :
                Copy(c, [meta EXCEPT !.state = "draining", !.mode = m])
       \/ cmd[c].stage = "pid" /\ Copy(c, [meta EXCEPT !.pid = cmd[c].id])
       \/ cmd[c].stage = "state" /\ Copy(c, [meta EXCEPT !.state = "running"])
       \/ cmd[c].stage = "stop" /\ Copy(c, [meta EXCEPT !.state = "stopped"])
    /\ UNCHANGED <<agent, lock, meta, run, queue, history, counts>>

\* ... that is renamed over it.
Setup(c) ==
    /\ cmd[c].stage = "setup"
    /\ Renamed(cmd[c].copy) /\ Mishap("overwritten", meta'.pid # meta.pid)
    /\ Goto(c, "spawn")
    /\ UNCHANGED <<agent, lock, run, queue, added, worked, capped, missed, counts>>

\* spawn_detached(): the worker exists and runs from here on.
Spawn(c) ==
    /\ cmd[c].stage = "spawn"
    /\ run' = [run EXCEPT ![cmd[c].id] = [Dead EXCEPT !.stage = "boot"]]
    /\ Goto(c, "pid")
    /\ UNCHANGED <<agent, lock, meta, queue, history, counts>>

RecordPid(c) ==
    /\ cmd[c].stage = "pid"
    /\ Renamed(cmd[c].copy)
    /\ IF cmd[c].kind = "start" THEN Goto(c, "state") ELSE Leave(c)
    /\ UNCHANGED <<agent, lock, run, queue, history, counts>>

\* start and resume end: state is "running" and the lock directory, whoever made it, goes.
RecordState(c) ==
    /\ cmd[c].stage = "state"
    /\ Renamed(cmd[c].copy) /\ Mishap("overwritten", meta'.pid # meta.pid)
    /\ lock' = Free /\ Leave(c)
    /\ UNCHANGED <<agent, run, queue, added, worked, capped, missed, counts>>

\* takeover(): kill the recorded worker and its children, then mark it stopped.
Kill(c) ==
    /\ cmd[c].stage = "kill"
    /\ IF meta.pid = 0 THEN Leave(c) /\ UNCHANGED run
       ELSE run' = [run EXCEPT ![meta.pid] = Dead] /\ Goto(c, "stop")
    /\ UNCHANGED <<agent, lock, meta, queue, history, counts>>

MarkStopped(c) ==
    /\ cmd[c].stage = "stop"
    /\ Renamed(cmd[c].copy) /\ Mishap("overwritten", meta'.pid # meta.pid)
    /\ Leave(c)
    /\ UNCHANGED <<agent, lock, run, queue, added, worked, capped, missed, counts>>

\* Mutant: the directories are read against the direction in which items move.
DirectoryBackwards(stage) ==
    CASE stage = "scan" -> drained [] stage = "scan draining" -> draining
      [] stage = "scan drained" -> pending

\* next_seq(): the three directories are read one after the other, in the order in which
\* items move.
Directory(stage) ==
    CASE stage = "scan" -> pending [] stage = "scan draining" -> draining
      [] stage = "scan drained" -> drained

After == [x \in {"scan", "scan draining", "scan drained"} |->
             IF x = "scan" THEN "scan draining"
             ELSE IF x = "scan draining" THEN "scan drained" ELSE "create"]

Scan(c) ==
    /\ cmd[c].stage \in DOMAIN After
    /\ cmd' = [cmd EXCEPT ![c].stage = After[@],
                          ![c].top = Max(Files(Directory(cmd[c].stage)) \cup {@})]
    /\ UNCHANGED <<agent, lock, meta, run, queue, history, counts>>

\* add(): fs::write() makes the file under the next number ...
CreateItem(c) ==
    /\ cmd[c].stage = "create"
    /\ pending' = [pending EXCEPT ![cmd[c].top + 1] = cmd[c].id]
    /\ Goto(c, "write")
    /\ UNCHANGED <<agent, lock, meta, run, draining, drained, history, counts>>

\* ... and writes the text to it, in whatever directory it is by now.
WriteItem(c) ==
    /\ cmd[c].stage = "write"
    /\ added' = added \cup {cmd[c].id}
    /\ Leave(c)
    /\ UNCHANGED <<agent, lock, meta, run, queue, worked, capped, missed, mishaps, counts>>

\* A command is killed: its lock stays, its item stays empty, its worker is not tracked.
KillCmd(c) ==
    /\ cmd[c].stage # "idle"
    /\ Trouble
    /\ Leave(c)
    /\ Mishap("untracked", cmd[c].stage = "pid" /\ Alive(cmd[c].id))
    /\ UNCHANGED <<agent, lock, meta, run, queue, added, worked, capped, missed>>

-----------------------------------------------------------------------------
(* The worker: run_loop_body(). *)

\* It goes to put its last state into meta; its locals do not matter any more.
EndRun(w, state) == run' = [run EXCEPT ![w] = [Dead EXCEPT !.stage = "tell", !.tell = state]]

\* Mutant: the worker takes its mode from the wrong line of meta.
BootFromState(w) ==
    /\ run[w].stage = "boot"
    /\ run' = [run EXCEPT ![w] = [@ EXCEPT !.stage = "begin", !.mode = meta.state, !.cap = meta.cap]]
    /\ UNCHANGED <<agent, lock, meta, cmd, queue, history, counts>>

\* It reads meta; in a backlog mode it claims what is queued before its first turn.
Boot(w) ==
    LET drain == meta.mode \in {"backlog-dump", "backlog-execute"} IN
    /\ run[w].stage = "boot"
    /\ run' = [run EXCEPT ![w] = [@ EXCEPT !.stage = IF drain THEN "claim" ELSE "begin",
                 !.mode = meta.mode, !.cap = meta.cap, !.drain = drain,
                 !.list = IF drain THEN Files(pending) ELSE {}]]
    /\ UNCHANGED <<agent, lock, meta, cmd, queue, history, counts>>

\* resolve_binary() fails.
BootFails(w) ==
    /\ run[w].stage = "boot"
    /\ Trouble
    /\ EndRun(w, "stopped")
    /\ UNCHANGED <<agent, lock, meta, cmd, queue, history>>

\* meta_set(): the worker reads the file and writes its own, with its mode or its state ...
WorkerReadsMeta(w) ==
    LET r == run[w] IN
    /\ r.stage \in {"begin", "tell"} /\ r.copy = None
    /\ run' = [run EXCEPT ![w].copy =
                 IF r.stage = "begin" THEN [meta EXCEPT !.state = "running", !.mode = r.mode]
                                      ELSE [meta EXCEPT !.state = r.tell]]
    /\ UNCHANGED <<agent, lock, meta, cmd, queue, history, counts>>

\* ... and renames it over meta: after its state it goes on, or that was its last.
Tell(w) ==
    /\ run[w].stage = "tell"
    /\ Renamed(run[w].copy) /\ Mishap("overwritten", meta'.pid # meta.pid)
    /\ run' = [run EXCEPT ![w] = IF run[w].tell \in {"retrying", "draining"}
                 THEN [@ EXCEPT !.stage = "begin", !.tell = "none", !.copy = None] ELSE Dead]
    /\ UNCHANGED <<agent, lock, cmd, queue, added, worked, capped, missed, counts>>

\* claim() and finalize() move what they found in a directory, one rename at a time;
\* a rename that fails is passed over.
Moved(from, to, n) ==
    IF from[n] = 0 THEN UNCHANGED <<from, to>>
    ELSE from' = [from EXCEPT ![n] = 0] /\ to' = [to EXCEPT ![n] = from[n]]

NextName(w) == {n \in run[w].list : \A k \in run[w].list : n <= k}

Passed(w, n) == run' = [run EXCEPT ![w].list = @ \ {n}]

ClaimItem(w) ==
    /\ run[w].stage = "claim"
    /\ \E n \in NextName(w) : Moved(pending, draining, n) /\ Passed(w, n)
    /\ UNCHANGED <<agent, lock, meta, cmd, drained, history, counts>>

FinalizeItem(w) ==
    /\ run[w].stage = "finalize"
    /\ \E n \in NextName(w) : Moved(draining, drained, n) /\ Passed(w, n)
    /\ UNCHANGED <<agent, lock, meta, cmd, pending, history, counts>>

RenameFails(w) ==
    /\ Trouble
    /\ \E n \in NextName(w) : Passed(w, n)
    /\ UNCHANGED <<agent, lock, meta, cmd, queue, history>>

\* Mutant: a drain that was confirmed ends the run without another claim.
FinalizedEnds(w) ==
    /\ run[w].stage = "finalize" /\ run[w].list = {}
    /\ EndRun(w, "done")
    /\ UNCHANGED <<agent, lock, meta, cmd, queue, history, counts>>

\* finalize() is through: claim() follows.
Finalized(w) ==
    /\ run[w].stage = "finalize" /\ run[w].list = {}
    /\ run' = [run EXCEPT ![w].stage = "claim", ![w].list = Files(pending)]
    /\ UNCHANGED <<agent, lock, meta, cmd, queue, history, counts>>

\* claim() ends with the texts of the files in draining/ that it could read (an empty one
\* among them), what an interrupted run left there too.  Before the first turn that is its
\* brief; after a turn that was Done it is the brief of another drain cycle, if there is
\* any and the cycles are not used up.
Claim(w, found) ==
    LET r == run[w]
        brief == found \cap added
    IN
    /\ r.stage = "claim" /\ r.list = {}
    /\ missed' = missed \cup (Held(draining) \ brief)
    /\ IF r.attempt = 0 THEN
            /\ run' = [run EXCEPT ![w].stage = "begin", ![w].brief = brief]
            /\ UNCHANGED capped
       ELSE IF found # {} /\ r.cycles < MaxDrainCycles THEN
            /\ \E m \in InitialModes("drain") :
                  run' = [run EXCEPT ![w] = [@ EXCEPT !.stage = "tell", !.tell = "draining",
                            !.brief = brief, !.mode = m, !.drain = TRUE, !.cycles = r.cycles + 1,
                            !.attempt = 0]]
            /\ UNCHANGED capped
       ELSE EndRun(w, "done") /\ capped' = (found # {})
    /\ UNCHANGED <<agent, lock, meta, cmd, queue, added, worked, mishaps, launches, items, progress>>

Claimed(w) == Claim(w, Held(draining)) /\ UNCHANGED troubles

\* A file that cannot be read is passed over; a directory that cannot be is empty.
ReadFails(w) == Trouble /\ \E found \in SUBSET Held(draining) : Claim(w, found)

TurnBegins(w) ==
    /\ run[w].stage = "begin"
    /\ Renamed(run[w].copy) /\ Mishap("overwritten", meta'.pid # meta.pid)
    /\ run' = [run EXCEPT ![w].stage = "turn", ![w].attempt = @ + 1, ![w].copy = None]
    /\ UNCHANGED <<agent, lock, cmd, queue, added, worked, capped, missed, counts>>

\* After the first turn of a start the mode is continue_mode().
TurnMode(w) ==
    IF run[w].mode # "start" THEN run[w].mode
    ELSE IF agent = "claude" THEN "resume-execute" ELSE "execute"

Plans(w) == TurnMode(w) \in {"resume-dump", "backlog-dump"}

\* A turn that planned (exit 0) is followed by one that executes.
Advance(w) ==
    /\ run[w].stage = "turn" /\ Plans(w)
    /\ run' = [run EXCEPT ![w] = [@ EXCEPT !.stage = "begin", !.same = 0,
          !.attempt = run[w].attempt - 1,
          !.mode = IF run[w].mode = "resume-dump" THEN "resume-execute" ELSE "backlog-execute"]]
    /\ UNCHANGED <<agent, lock, meta, cmd, queue, history, counts>>

\* Mutant: what is in draining/ is confirmed whether or not this run drains.
TurnDoneConfirmsAll(w) ==
    /\ run[w].stage = "turn" /\ ~Plans(w)
    /\ run' = [run EXCEPT ![w] = [@ EXCEPT !.mode = TurnMode(w), !.stage = "finalize",
                 !.list = Files(draining)]]
    /\ worked' = worked \cup run[w].brief
    /\ UNCHANGED <<agent, lock, meta, cmd, queue, added, capped, missed, mishaps, counts>>

\* Done: the items of a drain are confirmed, then the queue is claimed again.
TurnDone(w) ==
    LET drain == run[w].drain IN
    /\ run[w].stage = "turn" /\ ~Plans(w)
    /\ run' = [run EXCEPT ![w] = [@ EXCEPT !.mode = TurnMode(w),
                 !.stage = IF drain THEN "finalize" ELSE "claim",
                 !.list = IF drain THEN Files(draining) ELSE Files(pending)]]
    /\ worked' = worked \cup run[w].brief
    /\ UNCHANGED <<agent, lock, meta, cmd, queue, added, capped, missed, mishaps, counts>>

\* Claude's session vanished: another is made.
Recreate(w) ==
    /\ run[w].stage = "turn" /\ agent = "claude"
    /\ Trouble
    /\ run' = [run EXCEPT ![w] = [@ EXCEPT !.stage = "begin", !.mode = TurnMode(w), !.same = 0]]
    /\ UNCHANGED <<agent, lock, meta, cmd, queue, history>>

\* Stopped by a signal, or failed: unrecoverable (Claude), no session id to capture.
TurnEndsRun(w) ==
    /\ run[w].stage = "turn"
    /\ EndRun(w, "stopped")
    /\ UNCHANGED <<agent, lock, meta, cmd, queue, history, counts>>

\* Mutant: every round counts as progress, and only equal failures stop the run.
RetryWithoutFingerprint(w) ==
    \E alike \in BOOLEAN :
        LET r == run[w]
            same == IF alike THEN r.same + 1 ELSE 1
        IN
        /\ r.stage = "turn"
        /\ IF (r.cap > 0 /\ r.attempt >= r.cap) \/ same >= MaxIdenticalFailures
             THEN EndRun(w, "stopped")
           ELSE run' = [run EXCEPT ![w] = [@ EXCEPT !.stage = "tell", !.tell = "retrying",
                           !.mode = TurnMode(w), !.attempt = 1, !.same = same]]
        /\ UNCHANGED <<agent, lock, meta, cmd, queue, history, counts>>

\* Retry: any of three counters ends the run.  moved: the fingerprint of the
\* task list, HEAD and the worktree is not the one of the Retry before, which r.fp says
\* there was (there is one: state_fingerprint() finds a task list or a git work tree);
\* alike: the failure has the signature of the one before.
Retry(w) ==
    \E moved, alike \in BOOLEAN :
        LET r == run[w]
            still == IF r.fp /\ ~moved THEN r.still + 1 ELSE 0
            same == IF alike THEN r.same + 1 ELSE 1
        IN
        /\ r.stage = "turn"
        /\ progress' = IF moved THEN progress + 1 ELSE progress
        /\ progress' <= MaxProgress /\ launches + items + progress' <= MaxEvents
        /\ IF \/ r.cap > 0 /\ r.attempt >= r.cap
              \/ still >= MaxNoProgress
              \/ same >= MaxIdenticalFailures
             THEN EndRun(w, "stopped")
           ELSE run' = [run EXCEPT ![w] = [@ EXCEPT !.stage = "tell", !.tell = "retrying",
                           !.mode = TurnMode(w), !.still = still, !.fp = TRUE, !.same = same]]
        /\ UNCHANGED <<agent, lock, meta, cmd, queue, history, launches, items, troubles>>

\* The worker is killed, or the machine goes down.
Crash(w) ==
    /\ Alive(w)
    /\ Trouble
    /\ run' = [run EXCEPT ![w] = Dead]
    /\ UNCHANGED <<agent, lock, meta, cmd, queue, history>>

-----------------------------------------------------------------------------
Command(c) ==
    \/ Look(c) \/ Guard(c) \/ Acquire(c) \/ ReadOwner(c) \/ Reclaim(c) \/ CheckAlive(c)
    \/ WriteOwner(c) \/ ReadMeta(c) \/ Setup(c) \/ Spawn(c) \/ RecordPid(c) \/ RecordState(c)
    \/ Kill(c) \/ MarkStopped(c) \/ Scan(c) \/ CreateItem(c) \/ WriteItem(c)

Work(w) ==
    \/ Boot(w) \/ WorkerReadsMeta(w) \/ Tell(w)
    \/ ClaimItem(w) \/ FinalizeItem(w) \/ Finalized(w) \/ Claimed(w)
    \/ TurnBegins(w) \/ Advance(w) \/ TurnDone(w) \/ TurnEndsRun(w) \/ Retry(w)

Fault(w) == BootFails(w) \/ RenameFails(w) \/ ReadFails(w) \/ Recreate(w) \/ Crash(w)

\* Commands and faults go on after a mishap, or workers only.
Going == mishaps = {} \/ Beyond

Next ==
    \/ \E c \in Cmds : Going /\ (Command(c) \/ KillCmd(c) \/ \E k \in Kinds : Issue(c, k))
    \/ \E w \in Workers : Work(w) \/ (Going /\ Fault(w))

Spec == Init /\ [][Next]_vars

\* The worker is scheduled and each turn of the agent ends (all its steps change run).
FairSpec == Spec /\ \A w \in Workers : WF_run(Work(w))

-----------------------------------------------------------------------------
(* Properties *)

\* The files hold what their types say.
TypeOK ==
    /\ agent \in {"claude", "codex"} /\ lock \in [made : BOOLEAN, owner : 0..MaxLaunches]
    /\ meta \in [pid : Workers \cup {0}, state : States, mode : Modes, cap : Caps \cup {0}]
    /\ pending \in [Names -> Texts] /\ draining \in [Names -> Texts]
    /\ drained \in [Names -> Texts]
    /\ added \subseteq Texts /\ worked \subseteq added /\ missed \subseteq Texts
    /\ mishaps \subseteq Mishaps
    /\ \A w \in Workers : run[w].mode \in Modes /\ run[w].list \subseteq Names
                          /\ run[w].brief \subseteq added /\ run[w].attempt \in Nat
    /\ \A c \in Cmds : cmd[c].kind \in Kinds /\ cmd[c].id \in Nat

\* At most one supervisor per project directory (lock.rs:1), whatever starts and resumes
\* race, die with the lock or find a dead owner's, and whichever worker dies, unless one of
\* three things has happened that neither the lock nor meta survives: a command was killed
\* before it could record the pid of its live worker, a meta_set took back a pid recorded
\* since it had read the file, or a reclaim removed the lock of a live command.
OneSupervisor ==
    mishaps = {} => \A v, w \in Workers : Alive(v) /\ Alive(w) => v = w

\* A queued item is never lost: it is in one of the three directories although the worker
\* moves files while add() numbers and writes a new one, and although both may be killed.
NothingLost == added \subseteq Held(pending) \cup Held(draining) \cup Held(drained)

\* drained/ is "confirmed done, only after a clean execute turn" (backlog.rs:6), as long as
\* there is one supervisor: each item there was in the brief of a turn that came back Done,
\* but for those that a claim found in draining/ and could not read, or before their text
\* was written: finalize() moves them too.
DrainedIsDone == mishaps = {} => Held(drained) \subseteq worked \cup missed

\* A run that is done has drained what it claimed, what an interrupted run had left behind
\* too, unless it had used up its drain cycles or could not read the rest.
DoneMeansDrained ==
    mishaps = {} /\ meta.state = "done" => Held(draining) \subseteq missed \/ capped

\* An unattended run ends: once its turns change nothing it stops of itself, also without
\* a limit on the attempts and although no two failures look alike (#79), wherever the
\* state can be fingerprinted: the directory is a git work tree or has a task list.
RunEnds == \A w \in Workers : Alive(w) ~> ~Alive(w)
=============================================================================

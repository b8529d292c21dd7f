---------------------------- MODULE SessionCache ----------------------------
(***************************************************************************)
(* Who may write the durable entry of one session: the cache of resident   *)
(* sessions (cache/mod.rs), the entry's LOCK file (cache/lock.rs, fs.rs,   *)
(* admit.rs) and the request threads of the frontends that share them      *)
(* (session_for and the /pull handler of serve.rs; the TUI's switch).      *)
(*                                                                         *)
(* Processes share only the LOCK file.  Inside a process the threads share *)
(* the session's slot: the `opening` mutex and the resident.  A resident   *)
(* SharedSession is reference-counted; while it is armed it owns a Lease,  *)
(* and when its last reference goes, or when it is quiesced, the Lease is  *)
(* dropped and removes the LOCK file if that names this process.           *)
(*                                                                         *)
(* Every step is one critical section or one file operation of the code.   *)
(***************************************************************************)
EXTENDS Integers

CONSTANTS
    Proc,           \* processes over one cache root
    Thread,         \* their threads
    Owner,          \* Owner[t]: the process of thread t
    Viewer,         \* the processes that are TUIs: one thread each; the others are servers
    Nobody,         \* no process and no thread
    MaxSessions,    \* bound: SharedSessions in memory at one time
    MaxReaps,       \* bound: evictions of an idle resident
    MaxPanics,      \* bound: folds that panic
    MaxCrashes,     \* bound: processes that die without running a destructor
    MaxFaults       \* bound: opens that fail on the entry's files

ASSUME ThreadsAssumption ==
    /\ Owner \in [Thread -> Proc] /\ Viewer \subseteq Proc
    /\ Nobody \notin Proc \cup Thread /\ Proc \cap Thread = {}
    /\ \A t, u \in Thread : Owner[t] = Owner[u] /\ Owner[t] \in Viewer => t = u

ASSUME BoundsAssumption ==
    {MaxSessions, MaxReaps, MaxPanics, MaxCrashes, MaxFaults} \subseteq Nat

VARIABLES
    lock,       \* the process the LOCK file names, or Nobody
    alive,      \* the processes for which `kill -0` succeeds
    resident,   \* SlotState.resident of each process: a session, or 0
    opening,    \* the thread that holds Slot.opening of each process, or Nobody
    home,       \* the process a SharedSession is in the memory of, or Nobody
    armed,      \* the sessions with a writer attached (Inner.meta = Some)
    frozen,     \* the sessions that are quiesced
    poisoned,   \* the sessions whose mutex a panic has poisoned
    pc,         \* where each thread is
    held,       \* the Arc a thread serves from, or 0
    aside,      \* the Arc its reap evicted, or the frozen resident it hopes to retain
    leased,     \* the threads whose open returned a writer, and the Lease in it
    again,      \* the threads in the second session_for of a poisoned request
    reaps, panics, crashes, faults

sessions == <<home, armed, frozen, poisoned>>
threads == <<pc, held, aside, leased, again>>
counts == <<reaps, panics, crashes, faults>>
vars == <<lock, alive, resident, opening, sessions, threads, counts>>

Session == 1..MaxSessions

\* An Arc, or none.
Ref == 0..MaxSessions

Init ==
    /\ lock = Nobody
    /\ alive = Proc
    /\ resident = [p \in Proc |-> 0]
    /\ opening = [p \in Proc |-> Nobody]
    /\ home = [o \in Session |-> Nobody]
    /\ armed = {} /\ frozen = {} /\ poisoned = {}
    /\ pc = [t \in Thread |-> "idle"]
    /\ held = [t \in Thread |-> 0]
    /\ aside = [t \in Thread |-> 0]
    /\ leased = {} /\ again = {}
    /\ reaps = 0 /\ panics = 0 /\ crashes = 0 /\ faults = 0

At(t, place) == pc[t] = place /\ Owner[t] \in alive

Goto(t, place) == pc' = [pc EXCEPT ![t] = place]

-----------------------------------------------------------------------------
(* Reference counting and the Lease.                                       *)

\* The Arcs of session o.
Refs(o, res, hd, as) ==
    {p \in Proc : res[p] = o} \cup {t \in Thread : hd[t] = o \/ as[t] = o}

\* lock::release: remove the file only if it names us.
Unlock(lk, p) == IF lk = p THEN Nobody ELSE lk

\* References change, and the destructors run: a session without a reference is
\* dropped, with its EntryWriter if it is armed, and that drops the Lease.
Settle(lk, res, hm, hd, as) ==
    LET dead == {o \in Session : Refs(o, res, hd, as) = {}}
    IN  /\ resident' = res /\ held' = hd /\ aside' = as
        /\ home' = [o \in Session |-> IF o \in dead THEN Nobody ELSE hm[o]]
        /\ armed' = armed \ dead
        /\ frozen' = frozen \ dead
        /\ poisoned' = poisoned \ dead
        /\ lock' = IF \E o \in dead \cap armed : home[o] = lk THEN Nobody ELSE lk

\* Mutant of Quiesce: the session is flushed and frozen, but keeps its writer.
QuiesceKeepsWriter(p) ==
    /\ frozen' = frozen \cup ({resident[p]} \ {0})
    /\ UNCHANGED <<lock, armed>>

\* release: quiesce whatever is resident now; the Lease goes with the writer.
Quiesce(p) ==
    LET o == resident[p]
    IN  /\ frozen' = frozen \cup ({o} \ {0})
        /\ armed' = armed \ {o}
        /\ lock' = IF o \in armed THEN Unlock(lock, p) ELSE lock

\* A resident that still follows its transcript.
Thawed(p) == resident[p] # 0 /\ resident[p] \notin frozen

\* The request is over: its Arcs go.
Leave(t, lk) ==
    /\ Settle(lk, resident, home, [held EXCEPT ![t] = 0], [aside EXCEPT ![t] = 0])
    /\ Goto(t, "idle")
    /\ leased' = leased \ {t}
    /\ again' = again \ {t}

-----------------------------------------------------------------------------
(* A server's request: reap, then session_for.                             *)

\* Mutant of Reap: the idle clock alone decides, as it did before #168.
ReapInUse(t) ==
    LET p == Owner[t]
    IN  /\ At(t, "idle") /\ p \notin Viewer
        /\ \/ /\ resident[p] # 0 /\ reaps < MaxReaps
              /\ reaps' = reaps + 1
              /\ resident' = [resident EXCEPT ![p] = 0]
              /\ aside' = [aside EXCEPT ![t] = resident[p]]
              /\ Goto(t, "evicted")
           \/ /\ Goto(t, "touch")
              /\ UNCHANGED <<resident, aside, reaps>>
        /\ UNCHANGED <<lock, alive, opening, sessions, held, leased, again,
                       panics, crashes, faults>>

\* reap: an idle resident nobody else holds leaves the slot; the caller's
\* vector keeps it until the statement ends.
Reap(t) ==
    LET p == Owner[t]
        o == resident[p]
    IN  /\ At(t, "idle") /\ p \notin Viewer
        /\ \/ /\ o # 0 /\ reaps < MaxReaps
              /\ Refs(o, resident, held, aside) = {p}
              /\ reaps' = reaps + 1
              /\ resident' = [resident EXCEPT ![p] = 0]
              /\ aside' = [aside EXCEPT ![t] = o]
              /\ Goto(t, "evicted")
           \/ /\ Goto(t, "touch")
              /\ UNCHANGED <<resident, aside, reaps>>
        /\ UNCHANGED <<lock, alive, opening, sessions, held, leased, again,
                       panics, crashes, faults>>

\* ... and drops it there, outside the slot's lock.
DropEvicted(t) ==
    /\ At(t, "evicted")
    /\ Settle(lock, resident, home, held, [aside EXCEPT ![t] = 0])
    /\ Goto(t, "touch")
    /\ UNCHANGED <<alive, opening, leased, again, counts>>

\* touch: any resident will do, frozen or not.
Touch(t) ==
    LET o == resident[Owner[t]]
    IN  /\ At(t, "touch")
        /\ held' = [held EXCEPT ![t] = o]
        /\ Goto(t, IF o # 0 THEN "check" ELSE "admit")
        /\ UNCHANGED <<lock, alive, resident, opening, sessions, aside, leased, again, counts>>

-----------------------------------------------------------------------------
(* admit, and the provider's open.                                         *)

\* Where an admitted request goes on: a server publishes its port.
Admitted(t) == IF Owner[t] \in Viewer THEN "advance" ELSE "publish"

\* A live resident is the admission; otherwise wait for the flight.
Admit(t) ==
    LET p == Owner[t]
    IN  /\ At(t, "admit")
        /\ \/ /\ Thawed(p)
              /\ held' = [held EXCEPT ![t] = resident[p]]
              /\ Goto(t, Admitted(t))
           \/ /\ ~Thawed(p)
              /\ Goto(t, "flight")
              /\ UNCHANGED held
        /\ UNCHANGED <<lock, alive, resident, opening, sessions, aside, leased, again, counts>>

\* Mutants of Fly: the mutex is not taken; it is taken for the whole process; a
\* loser waits for a slot without a resident.
FlyAnyway(t) ==
    /\ At(t, "flight")
    /\ opening' = [opening EXCEPT ![Owner[t]] = t]
    /\ Goto(t, "recheck")
    /\ UNCHANGED <<lock, alive, resident, sessions, held, aside, leased, again, counts>>

FlyAsProcess(t) ==
    /\ At(t, "flight")
    /\ opening[Owner[t]] = Nobody
    /\ opening' = [opening EXCEPT ![Owner[t]] = Owner[t]]
    /\ Goto(t, "recheck")
    /\ UNCHANGED <<lock, alive, resident, sessions, held, aside, leased, again, counts>>

FlyWhenCold(t) ==
    /\ At(t, "flight")
    /\ opening[Owner[t]] = Nobody /\ resident[Owner[t]] = 0
    /\ opening' = [opening EXCEPT ![Owner[t]] = t]
    /\ Goto(t, "recheck")
    /\ UNCHANGED <<lock, alive, resident, sessions, held, aside, leased, again, counts>>

\* lock(&slot.opening).
Fly(t) ==
    /\ At(t, "flight")
    /\ opening[Owner[t]] = Nobody
    /\ opening' = [opening EXCEPT ![Owner[t]] = t]
    /\ Goto(t, "recheck")
    /\ UNCHANGED <<lock, alive, resident, sessions, held, aside, leased, again, counts>>

\* The flight ends with the guard.
Land(t) == opening' = [opening EXCEPT ![Owner[t]] = Nobody]

\* The second look, under the flight; a frozen resident is kept aside.
Recheck(t) ==
    LET p == Owner[t]
    IN  /\ At(t, "recheck")
        /\ \/ /\ Thawed(p)
              /\ held' = [held EXCEPT ![t] = resident[p]]
              /\ Goto(t, Admitted(t))
              /\ Land(t)
              /\ UNCHANGED aside
           \/ /\ ~Thawed(p)
              /\ aside' = [aside EXCEPT ![t] = resident[p]]
              /\ Goto(t, "lock read")
              /\ UNCHANGED <<opening, held>>
        /\ UNCHANGED <<lock, alive, resident, sessions, leased, again, counts>>

\* Mutants of Held: a holder is never believed alive; it is never believed dead.
HeldNever(p) == FALSE
HeldForever(p) == lock \notin {Nobody, p}

\* lock::acquire, the first half: is another live process named?
Held(p) == lock # p /\ lock \in alive

LockRead(t) ==
    /\ At(t, "lock read")
    /\ \/ /\ Held(Owner[t])
          /\ Leave(t, lock)
          /\ Land(t)
       \/ /\ ~Held(Owner[t])
          /\ Goto(t, "lock write")
          /\ UNCHANGED <<lock, resident, opening, sessions, held, aside, leased, again>>
    /\ UNCHANGED <<alive, counts>>

\* lock::acquire, the second half: the file is ours, whatever it is by now.
LockWrite(t) ==
    /\ At(t, "lock write")
    /\ lock' = Owner[t]
    /\ Goto(t, "open")
    /\ UNCHANGED <<alive, resident, opening, sessions, held, aside, leased, again, counts>>

\* claim: the store is opened under the lock.  It may be unusable, and then the
\* lock is handed back; it may be just what the frozen resident left behind; or
\* it is read and rebuilt.
Open(t) ==
    /\ At(t, "open")
    /\ \/ /\ faults < MaxFaults
          /\ faults' = faults + 1
          /\ Leave(t, Unlock(lock, Owner[t]))
          /\ Land(t)
       \/ /\ aside[t] # 0
          /\ held' = [held EXCEPT ![t] = aside[t]]
          /\ aside' = [aside EXCEPT ![t] = 0]
          /\ Goto(t, "stamp")
          /\ UNCHANGED <<lock, resident, opening, sessions, leased, again, faults>>
       \/ /\ Goto(t, "stamp")
          /\ UNCHANGED <<lock, resident, opening, sessions, held, aside, leased, again, faults>>
    /\ UNCHANGED <<alive, reaps, panics, crashes>>

\* stamp_note: a TUI knows its note already and writes the file again.
Stamp(t) ==
    /\ At(t, "stamp")
    /\ lock' = IF Owner[t] \in Viewer THEN Owner[t] ELSE lock
    /\ Goto(t, "arm")
    /\ UNCHANGED <<alive, resident, opening, sessions, held, aside, leased, again, counts>>

\* Mutant of Arm: the Lease is bound to `_` and dropped at once.
ArmDropsLease(t) ==
    /\ At(t, "arm")
    /\ Goto(t, IF held[t] # 0 THEN "attach" ELSE "install")
    /\ leased' = leased \cup {t}
    /\ lock' = Unlock(lock, Owner[t])
    /\ UNCHANGED <<alive, resident, opening, sessions, held, aside, again, counts>>

\* armed_writer: the record stream is opened and takes the Lease, or it is not
\* and the Lease is dropped on the spot.
Arm(t) ==
    /\ At(t, "arm")
    /\ Goto(t, IF held[t] # 0 THEN "attach" ELSE "install")
    /\ \/ /\ leased' = leased \cup {t}
          /\ UNCHANGED <<lock, faults>>
       \/ /\ faults < MaxFaults
          /\ faults' = faults + 1
          /\ lock' = Unlock(lock, Owner[t])
          /\ UNCHANGED leased
    /\ UNCHANGED <<alive, resident, opening, sessions, held, aside, again,
                   reaps, panics, crashes>>

\* A session is built over the entry, resumed or cold, and installed.
Install(t) ==
    /\ At(t, "install")
    /\ \E o \in Session :
          /\ Refs(o, resident, held, aside) = {}
          /\ \A q \in 1..(o - 1) : Refs(q, resident, held, aside) # {}
          /\ Settle(lock, [resident EXCEPT ![Owner[t]] = o], [home EXCEPT ![o] = Owner[t]],
                    [held EXCEPT ![t] = o], [aside EXCEPT ![t] = 0])
    /\ Goto(t, "attach")
    /\ UNCHANGED <<alive, opening, leased, again, counts>>

\* Mutant of Attach: without a writer the session stays as it was.
AttachOrNothing(t) ==
    LET new == IF t \in leased THEN {held[t]} ELSE {}
    IN  /\ At(t, "attach")
        /\ armed' = armed \cup new
        /\ frozen' = frozen \ new
        /\ leased' = leased \ {t}
        /\ Land(t)
        /\ Goto(t, Admitted(t))
        /\ UNCHANGED <<lock, alive, resident, home, poisoned, held, aside, again, counts>>

\* attach_writer, which thaws; without a writer the session is thawed all the
\* same.
Attach(t) ==
    /\ At(t, "attach")
    /\ armed' = IF t \in leased THEN armed \cup {held[t]} ELSE armed
    /\ frozen' = frozen \ {held[t]}
    /\ leased' = leased \ {t}
    /\ Land(t)
    /\ Goto(t, Admitted(t))
    /\ UNCHANGED <<lock, alive, resident, home, poisoned, held, aside, again, counts>>

\* publish: held_by_us, and then the file is written anew with the port.
PublishCheck(t) ==
    /\ At(t, "publish")
    /\ Goto(t, IF lock = Owner[t] THEN "publish write" ELSE "check")
    /\ UNCHANGED <<lock, alive, resident, opening, sessions, held, aside, leased, again, counts>>

PublishWrite(t) ==
    /\ At(t, "publish write")
    /\ lock' = Owner[t]
    /\ Goto(t, "check")
    /\ UNCHANGED <<alive, resident, opening, sessions, held, aside, leased, again, counts>>

-----------------------------------------------------------------------------
(* The rest of the request, once it has a session.                         *)

\* Mutant of Check: a recovered guard is as good as any.
CheckNothing(t) ==
    /\ At(t, "check")
    /\ Goto(t, "advance")
    /\ UNCHANGED <<lock, alive, resident, opening, sessions, held, aside, leased, again, counts>>

\* poisoned()?  The session of the second session_for is not asked again.
Check(t) ==
    /\ At(t, "check")
    /\ Goto(t, IF held[t] \in poisoned /\ t \notin again THEN "release" ELSE "advance")
    /\ UNCHANGED <<lock, alive, resident, opening, sessions, held, aside, leased, again, counts>>

PoisonRelease(t) ==
    /\ At(t, "release")
    /\ Quiesce(Owner[t])
    /\ Goto(t, "remove")
    /\ UNCHANGED <<alive, resident, opening, home, poisoned, held, aside, leased, again, counts>>

\* remove_pull: whatever is resident now leaves the slot.
PoisonRemove(t) ==
    /\ At(t, "remove")
    /\ Settle(lock, [resident EXCEPT ![Owner[t]] = 0], home, held, aside)
    /\ Goto(t, "drop")
    /\ UNCHANGED <<alive, opening, leased, again, counts>>

\* drop(shared), and session_for once more.
PoisonDrop(t) ==
    /\ At(t, "drop")
    /\ Settle(lock, resident, home, [held EXCEPT ![t] = 0], aside)
    /\ again' = again \cup {t}
    /\ Goto(t, "touch")
    /\ UNCHANGED <<alive, opening, leased, counts>>

\* advance: a fold appends to the entry unless the session is frozen.  A
\* server's fold may panic, which poisons the mutex and unwinds the request.
Advance(t) ==
    /\ At(t, "advance")
    /\ \/ /\ Goto(t, "serve")
          /\ UNCHANGED <<poisoned, panics>>
       \/ /\ panics < MaxPanics /\ held[t] \notin frozen /\ Owner[t] \notin Viewer
          /\ panics' = panics + 1
          /\ poisoned' = poisoned \cup {held[t]}
          /\ Goto(t, "unwind")
    /\ UNCHANGED <<lock, alive, resident, opening, home, armed, frozen,
                   held, aside, leased, again, reaps, crashes, faults>>

\* The reply is built from the session and sent, and the request's Arc goes.
Finish(t) ==
    /\ At(t, "serve") \/ At(t, "unwind")
    /\ Leave(t, lock)
    /\ UNCHANGED <<alive, opening, counts>>

-----------------------------------------------------------------------------
(* A TUI's loop over one of its root sessions.                             *)

\* build_frame: the session is picked, and it is not the one on screen.
Enter(t) ==
    /\ At(t, "idle") /\ Owner[t] \in Viewer
    /\ ~Thawed(Owner[t])
    /\ Goto(t, "admit")
    /\ UNCHANGED <<lock, alive, resident, opening, sessions, held, aside, leased, again, counts>>

\* poll_view of the session on screen: touch, then advance.
Poll(t) ==
    /\ At(t, "idle") /\ Owner[t] \in Viewer
    /\ Thawed(Owner[t])
    /\ held' = [held EXCEPT ![t] = resident[Owner[t]]]
    /\ Goto(t, "advance")
    /\ UNCHANGED <<lock, alive, resident, opening, sessions, aside, leased, again, counts>>

\* Outcome::Switch, and the way out: this session is released and stays resident.
Switch(t) ==
    /\ At(t, "idle") /\ Owner[t] \in Viewer
    /\ Thawed(Owner[t])
    /\ Quiesce(Owner[t])
    /\ UNCHANGED <<alive, resident, opening, home, poisoned, threads, counts>>

\* Too many retained roots: the oldest is forgotten.
Forget(t) ==
    /\ At(t, "idle") /\ Owner[t] \in Viewer
    /\ resident[Owner[t]] # 0 /\ ~Thawed(Owner[t])
    /\ Settle(lock, [resident EXCEPT ![Owner[t]] = 0], home, held, aside)
    /\ UNCHANGED <<alive, opening, pc, leased, again, counts>>

-----------------------------------------------------------------------------

\* A process dies; no destructor runs and the LOCK file stays.
Crash(p) ==
    LET theirs == {o \in Session : home[o] = p}
        its == {t \in Thread : Owner[t] = p}
    IN  /\ p \in alive /\ crashes < MaxCrashes
        /\ crashes' = crashes + 1
        /\ alive' = alive \ {p}
        /\ resident' = [resident EXCEPT ![p] = 0]
        /\ opening' = [opening EXCEPT ![p] = Nobody]
        /\ home' = [o \in Session |-> IF o \in theirs THEN Nobody ELSE home[o]]
        /\ armed' = armed \ theirs /\ frozen' = frozen \ theirs
        /\ poisoned' = poisoned \ theirs
        /\ pc' = [t \in Thread |-> IF t \in its THEN "idle" ELSE pc[t]]
        /\ held' = [t \in Thread |-> IF t \in its THEN 0 ELSE held[t]]
        /\ aside' = [t \in Thread |-> IF t \in its THEN 0 ELSE aside[t]]
        /\ leased' = leased \ its /\ again' = again \ its
        /\ UNCHANGED <<lock, reaps, panics, faults>>

Request(t) ==
    \/ Reap(t) \/ DropEvicted(t) \/ Touch(t)
    \/ Admit(t) \/ Fly(t) \/ Recheck(t) \/ LockRead(t) \/ LockWrite(t)
    \/ Open(t) \/ Stamp(t) \/ Arm(t) \/ Install(t) \/ Attach(t)
    \/ PublishCheck(t) \/ PublishWrite(t)
    \/ Check(t) \/ PoisonRelease(t) \/ PoisonRemove(t) \/ PoisonDrop(t)
    \/ Advance(t) \/ Finish(t)

View(t) == Enter(t) \/ Poll(t) \/ Switch(t) \/ Forget(t)

Next ==
    \/ \E t \in Thread : Request(t) \/ View(t)
    \/ \E p \in Proc : Crash(p)

Spec == Init /\ [][Next]_vars

-----------------------------------------------------------------------------
(* Properties.                                                             *)

\* The places a thread is at while it drives an admission.
InFlight == {"recheck", "lock read", "lock write", "open", "stamp", "arm", "install", "attach"}

Pc == InFlight \cup
      {"idle", "evicted", "touch", "admit", "flight", "publish", "publish write",
       "check", "release", "remove", "drop", "advance", "serve", "unwind"}

\* Every variable keeps its type.
TypeOK ==
    /\ lock \in Proc \cup {Nobody}
    /\ alive \subseteq Proc
    /\ resident \in [Proc -> Ref]
    /\ opening \in [Proc -> Thread \cup {Nobody}]
    /\ home \in [Session -> Proc \cup {Nobody}]
    /\ armed \subseteq Session /\ frozen \subseteq Session /\ poisoned \subseteq Session
    /\ pc \in [Thread -> Pc]
    /\ held \in [Thread -> Ref]
    /\ aside \in [Thread -> Ref]
    /\ leased \subseteq Thread /\ again \subseteq Thread

\* The sessions that append to the entry when they are advanced, with a writer
\* for the record stream or without.
Writers ==
    {o \in Session \ frozen :
        /\ home[o] # Nobody
        /\ resident[home[o]] = o \/ \E t \in Thread : held[t] = o}

\* There is exactly one writer per cache entry, always: no two sessions, of one
\* process or of two, can append to the entry (lock.rs:3).
OneWriter == \A o1, o2 \in Writers : o1 = o2

\* ... of one process in particular, where the LOCK file cannot arbitrate: however
\* many threads admit, fold and reap (mod.rs:330-332).
OneWriterEach == \A o1, o2 \in Writers : home[o1] = home[o2] => o1 = o2

\* "We are writing" and "we hold the entry" are the same fact: the LOCK file
\* names the process of every session that writes the record stream, whoever
\* opens, drops, evicts or dies beside it (lock.rs:147-151, Lease).
LockedWhileWriting == \A o \in Writers \cap armed : lock = home[o]

\* The single flight is one: of the threads of a process at most one drives an
\* admission, and it is the one that holds `opening` (mod.rs:326-333).
OneFlight == \A t \in Thread : pc[t] \in InFlight => opening[Owner[t]] = t

\* A session on screen follows its transcript: the TUI never advances a frozen
\* one, not even when the record stream could not be reopened (mod.rs:366-370).
ViewFollows ==
    \A t \in Thread : Owner[t] \in Viewer /\ pc[t] = "advance" => held[t] \notin frozen

\* A session merely browsed past does not stay locked against a second terminal:
\* a TUI that is not on the session, and not entering it, does not hold its LOCK
\* (app.rs:579-582).
NotLockedWhenLeft ==
    \A t \in Thread :
        At(t, "idle") /\ Owner[t] \in Viewer /\ ~Thawed(Owner[t]) => lock # Owner[t]

-----------------------------------------------------------------------------
(* Liveness: threads are scheduled and pages go on polling; each kind of   *)
(* failure happens only so many times.                                     *)

FairSpec == Spec /\ \A t \in Thread : WF_vars(Request(t))

\* Every request ends: nobody waits for ever on the flight or on the LOCK file
\* (mod.rs:293, "Never blocks on another holder").
RequestsEnd == \A t \in Thread : pc[t] # "idle" ~> pc[t] = "idle"

\* The entry of a process that died is taken over by the one that is alive
\* (lock.rs:8-10): a crashed holder does not pin the session.
Reclaimed ==
    \A p \in Proc : p \notin alive /\ (\E t \in Thread : Owner[t] \in alive) ~> lock # p

\* A session whose fold panicked half-way does not stay: a later request finds it
\* poisoned and puts a fresh one in its place (serve.rs:919, "never brick").
PoisonCleared ==
    \A p \in Proc : resident[p] \in poisoned ~> resident[p] \notin poisoned

=============================================================================

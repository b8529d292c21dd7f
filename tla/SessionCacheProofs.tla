------------------------- MODULE SessionCacheProofs -------------------------
(***************************************************************************)
(* What holds of the session cache for any number of processes and         *)
(* threads: the types, the single flight, and, as long as no fold panics,  *)
(* one writer in each process.                                             *)
(*                                                                         *)
(* The argument for the last: a session that a thread holds and that is    *)
(* not frozen is the resident of the thread's process (Shape).  A resident *)
(* goes away only by reap, which refuses one that is held, or by install,  *)
(* which runs under the flight and finds no live resident.  A frozen       *)
(* session is thawed only under the flight, and while it is resident.      *)
(***************************************************************************)
EXTENDS MCSessionCache, TLAPS

\* What a thread holds, by where it is.
Holding(t) ==
    /\ held[t] # 0 => /\ home[held[t]] = Owner[t]
                      /\ held[t] \in frozen \/ resident[Owner[t]] = held[t]
    /\ pc[t] \in {"idle", "evicted", "touch", "admit", "flight", "recheck",
                  "lock read", "lock write", "open"} => held[t] = 0
    /\ pc[t] \in {"lock read", "lock write", "open"} => aside[t] = resident[Owner[t]]
    /\ pc[t] \in {"stamp", "arm"} /\ held[t] # 0 => held[t] = resident[Owner[t]]
    /\ pc[t] = "attach" => held[t] = resident[Owner[t]] /\ held[t] # 0
    /\ pc[t] \in InFlight \ {"recheck", "attach"} => ~Thawed(Owner[t])

Shape == \A t \in Thread : Holding(t)

\* A resident belongs to its process.
Residents == \A p \in Proc : resident[p] # 0 => home[resident[p]] = p

\* No fold has panicked.
Sound ==
    /\ panics = 0 /\ poisoned = {}
    /\ \A t \in Thread : pc[t] \notin {"release", "remove", "drop"}

-----------------------------------------------------------------------------
(* The types and the flight.                                               *)

\* Past its admission a thread has an Arc.
Serving == {"attach", "publish", "publish write", "check", "release", "remove", "drop",
            "advance", "serve", "unwind"}

HasArc == \A t \in Thread : pc[t] \in Serving => held[t] # 0

TInv == TypeOK /\ OneFlight /\ HasArc

\* A reference is a session or none.
LEMMA RefFacts ==
    /\ 0 \in Ref
    /\ \A o \in Session : o \in Ref /\ o # 0
    /\ \A o \in Ref : o # 0 => o \in Session
  BY BoundsAssumption DEF Ref, Session

\* The types and the flight hold in the initial state.
LEMMA InitTInv == Init => TInv
  BY ThreadsAssumption, RefFacts DEF Init, TInv, TypeOK, OneFlight, HasArc, Serving, Pc, InFlight

\* Every step keeps the types, and the flight with the thread that took it: only
\* Fly takes `opening`, when it is free, and the thread that has it gives it up
\* on its way out of the admission.
LEMMA NextTInv == TInv /\ [Next]_vars => TInv'
<1> SUFFICES ASSUME TInv, [Next]_vars PROVE TInv'
  OBVIOUS
<1> USE ThreadsAssumption, RefFacts DEF TInv
<1>1. ASSUME NEW t \in Thread, Request(t) \/ View(t) PROVE TInv'
  <2> DEFINE p == Owner[t]
             o == resident[p]
  <2>a. p \in Proc /\ o \in Ref
    BY DEF TypeOK
  <2>b. Admitted(t) \in (Pc \ InFlight) \cap Serving
    BY DEF Admitted, Pc, InFlight, Serving
  <2>1. CASE Reap(t)
    <3>1. CASE /\ o # 0 /\ reaps < MaxReaps /\ Refs(o, resident, held, aside) = {p}
             /\ reaps' = reaps + 1 /\ resident' = [resident EXCEPT ![p] = 0]
             /\ aside' = [aside EXCEPT ![t] = o] /\ Goto(t, "evicted")
      <4>1. TypeOK'
        BY <2>a, <2>1, <3>1 DEF Reap, At, Goto, sessions, TypeOK, Pc, InFlight, HasArc, Serving
      <4>2. OneFlight'
        BY <2>a, <2>1, <3>1 DEF Reap, At, Goto, sessions, TypeOK, OneFlight, InFlight
      <4>3. HasArc'
        BY <2>a, <2>1, <3>1 DEF Reap, At, Goto, sessions, TypeOK, HasArc, Serving
      <4> QED
        BY <4>1, <4>2, <4>3
    <3>2. CASE Goto(t, "touch") /\ UNCHANGED <<resident, aside, reaps>>
      <4>1. TypeOK'
        BY <2>a, <2>1, <3>2 DEF Reap, At, Goto, sessions, TypeOK, Pc, InFlight, HasArc, Serving
      <4>2. OneFlight'
        BY <2>a, <2>1, <3>2 DEF Reap, At, Goto, sessions, TypeOK, OneFlight, InFlight
      <4>3. HasArc'
        BY <2>a, <2>1, <3>2 DEF Reap, At, Goto, sessions, TypeOK, HasArc, Serving
      <4> QED
        BY <4>1, <4>2, <4>3
    <3> QED
      BY <2>1, <3>1, <3>2 DEF Reap
  <2>2. CASE DropEvicted(t)
    <3>1. TypeOK'
      BY <2>a, <2>2 DEF DropEvicted, At, Goto, Settle, sessions, TypeOK, Pc, InFlight, HasArc, Serving
    <3>2. OneFlight'
      BY <2>a, <2>2 DEF DropEvicted, At, Goto, Settle, sessions, TypeOK, OneFlight, InFlight
    <3>3. HasArc'
      BY <2>a, <2>2 DEF DropEvicted, At, Goto, Settle, sessions, TypeOK, HasArc, Serving
    <3> QED
      BY <3>1, <3>2, <3>3
  <2>3. CASE Touch(t)
    <3>1. TypeOK'
      BY <2>a, <2>3 DEF Touch, At, Goto, sessions, TypeOK, Pc, InFlight, HasArc, Serving
    <3>2. OneFlight'
      BY <2>a, <2>3 DEF Touch, At, Goto, sessions, TypeOK, OneFlight, InFlight
    <3>3. HasArc'
      BY <2>a, <2>3 DEF Touch, At, Goto, sessions, TypeOK, HasArc, Serving
    <3> QED
      BY <3>1, <3>2, <3>3
  <2>4. CASE Admit(t)
    <3>0. /\ At(t, "admit")
          /\ UNCHANGED <<lock, alive, resident, opening, home, armed, frozen, poisoned,
                         aside, leased, again>>
      BY <2>4 DEF Admit, sessions
    <3>1. CASE Thawed(p)
      <4>0. o # 0 /\ held' = [held EXCEPT ![t] = o] /\ pc' = [pc EXCEPT ![t] = Admitted(t)]
        BY <2>4, <3>1 DEF Admit, Goto, Thawed
      <4>1. TypeOK'
        BY <2>a, <2>b, <3>0, <4>0 DEF TypeOK
      <4>2. OneFlight'
        BY <2>b, <3>0, <4>0 DEF OneFlight, TypeOK
      <4>3. HasArc'
        BY <3>0, <4>0 DEF HasArc, TypeOK
      <4> QED
        BY <4>1, <4>2, <4>3
    <3>2. CASE ~Thawed(p)
      <4>0. held' = held /\ pc' = [pc EXCEPT ![t] = "flight"]
        BY <2>4, <3>2 DEF Admit, Goto
      <4>1. TypeOK'
        BY <3>0, <4>0 DEF TypeOK, Pc
      <4>2. OneFlight'
        BY <3>0, <4>0 DEF OneFlight, TypeOK, InFlight
      <4>3. HasArc'
        BY <3>0, <4>0 DEF HasArc, TypeOK, Serving
      <4> QED
        BY <4>1, <4>2, <4>3
    <3> QED
      BY <3>1, <3>2
  <2>5. CASE Fly(t)
    <3>1. TypeOK'
      BY <2>a, <2>5 DEF Fly, At, Goto, sessions, TypeOK, Pc, InFlight, HasArc, Serving
    <3>2. OneFlight'
      BY <2>a, <2>5 DEF Fly, At, Goto, sessions, TypeOK, OneFlight, InFlight
    <3>3. HasArc'
      BY <2>a, <2>5 DEF Fly, At, Goto, sessions, TypeOK, HasArc, Serving
    <3> QED
      BY <3>1, <3>2, <3>3
  <2>6. CASE Recheck(t)
    <3>0. /\ At(t, "recheck")
          /\ UNCHANGED <<lock, alive, resident, home, armed, frozen, poisoned, leased, again>>
      BY <2>6 DEF Recheck, sessions
    <3>1. CASE Thawed(p)
      <4>0. /\ o # 0 /\ held' = [held EXCEPT ![t] = o] /\ aside' = aside
            /\ pc' = [pc EXCEPT ![t] = Admitted(t)]
            /\ opening' = [opening EXCEPT ![p] = Nobody]
        BY <2>6, <3>1 DEF Recheck, Goto, Thawed, Land
      <4>1. TypeOK'
        BY <2>a, <2>b, <3>0, <4>0 DEF TypeOK
      <4>2. OneFlight'
        BY <2>a, <2>b, <3>0, <4>0 DEF OneFlight, TypeOK, At, InFlight
      <4>3. HasArc'
        BY <3>0, <4>0 DEF HasArc, TypeOK
      <4> QED
        BY <4>1, <4>2, <4>3
    <3>2. CASE ~Thawed(p)
      <4>0. /\ held' = held /\ opening' = opening /\ aside' = [aside EXCEPT ![t] = o]
            /\ pc' = [pc EXCEPT ![t] = "lock read"]
        BY <2>6, <3>2 DEF Recheck, Goto
      <4>1. TypeOK'
        BY <2>a, <3>0, <4>0 DEF TypeOK, Pc, InFlight
      <4>2. OneFlight'
        BY <3>0, <4>0 DEF OneFlight, TypeOK, At, InFlight
      <4>3. HasArc'
        BY <3>0, <4>0 DEF HasArc, TypeOK, Serving
      <4> QED
        BY <4>1, <4>2, <4>3
    <3> QED
      BY <3>1, <3>2
  <2>7. CASE LockRead(t)
    <3>1. CASE Held(p)
      <4>0. At(t, "lock read") /\ Leave(t, lock) /\ Land(t) /\ UNCHANGED <<alive, counts>>
        BY <2>7, <3>1 DEF LockRead
      <4>1. TypeOK'
        BY <2>a, <4>0 DEF At, Goto, Leave, Settle, Land, TypeOK, Pc
      <4>2. OneFlight'
        BY <2>a, <4>0 DEF At, Goto, Leave, Land, TypeOK, OneFlight, InFlight
      <4>3. HasArc'
        BY <4>0 DEF Goto, Leave, Settle, TypeOK, HasArc, Serving
      <4> QED
        BY <4>1, <4>2, <4>3
    <3>2. CASE ~Held(p)
      <4>0. /\ At(t, "lock read") /\ pc' = [pc EXCEPT ![t] = "lock write"]
            /\ UNCHANGED <<lock, alive, resident, opening, home, armed, frozen, poisoned,
                           held, aside, leased, again>>
        BY <2>7, <3>2 DEF LockRead, Goto, sessions
      <4>1. TypeOK'
        BY <4>0 DEF TypeOK, Pc, InFlight
      <4>2. OneFlight'
        BY <4>0 DEF At, TypeOK, OneFlight, InFlight
      <4>3. HasArc'
        BY <4>0 DEF TypeOK, HasArc, Serving
      <4> QED
        BY <4>1, <4>2, <4>3
    <3> QED
      BY <3>1, <3>2
  <2>8. CASE LockWrite(t)
    <3>1. TypeOK'
      BY <2>a, <2>8 DEF LockWrite, At, Goto, sessions, TypeOK, Pc, InFlight, HasArc, Serving
    <3>2. OneFlight'
      BY <2>a, <2>8 DEF LockWrite, At, Goto, sessions, TypeOK, OneFlight, InFlight
    <3>3. HasArc'
      BY <2>a, <2>8 DEF LockWrite, At, Goto, sessions, TypeOK, HasArc, Serving
    <3> QED
      BY <3>1, <3>2, <3>3
  <2>9. CASE Open(t)
    <3>1. CASE faults' = faults + 1 /\ Leave(t, Unlock(lock, p)) /\ Land(t)
      <4>1. TypeOK'
        BY <2>a, <2>9, <3>1 DEF Open, At, Goto, Leave, Settle, Unlock, Land, sessions, TypeOK, Pc, InFlight, HasArc, Serving
      <4>2. OneFlight'
        BY <2>a, <2>9, <3>1 DEF Open, At, Goto, Leave, Settle, Unlock, Land, sessions, TypeOK, OneFlight, InFlight
      <4>3. HasArc'
        BY <3>1 DEF Goto, Leave, Settle, TypeOK, HasArc, Serving
      <4> QED
        BY <4>1, <4>2, <4>3
    <3>2. CASE /\ held' = [held EXCEPT ![t] = aside[t]] /\ aside' = [aside EXCEPT ![t] = 0]
             /\ Goto(t, "stamp")
             /\ UNCHANGED <<lock, resident, opening, sessions, leased, again, faults>>
      <4>1. TypeOK'
        BY <2>a, <2>9, <3>2 DEF Open, At, Goto, Leave, Settle, Unlock, Land, sessions, TypeOK, Pc, InFlight, HasArc, Serving
      <4>2. OneFlight'
        BY <2>a, <2>9, <3>2 DEF Open, At, Goto, Leave, Settle, Unlock, Land, sessions, TypeOK, OneFlight, InFlight
      <4>3. HasArc'
        BY <2>a, <2>9, <3>2 DEF Open, At, Goto, Leave, Settle, Unlock, Land, sessions, TypeOK, HasArc, Serving
      <4> QED
        BY <4>1, <4>2, <4>3
    <3>3. CASE /\ Goto(t, "stamp")
             /\ UNCHANGED <<lock, resident, opening, sessions, held, aside, leased, again, faults>>
      <4>1. TypeOK'
        BY <2>a, <2>9, <3>3 DEF Open, At, Goto, Leave, Settle, Unlock, Land, sessions, TypeOK, Pc, InFlight, HasArc, Serving
      <4>2. OneFlight'
        BY <2>a, <2>9, <3>3 DEF Open, At, Goto, Leave, Settle, Unlock, Land, sessions, TypeOK, OneFlight, InFlight
      <4>3. HasArc'
        BY <2>a, <2>9, <3>3 DEF Open, At, Goto, Leave, Settle, Unlock, Land, sessions, TypeOK, HasArc, Serving
      <4> QED
        BY <4>1, <4>2, <4>3
    <3> QED
      BY <2>9, <3>1, <3>2, <3>3 DEF Open
  <2>10. CASE Stamp(t)
    <3>1. TypeOK'
      BY <2>a, <2>10 DEF Stamp, At, Goto, sessions, TypeOK, Pc, InFlight, HasArc, Serving
    <3>2. OneFlight'
      BY <2>a, <2>10 DEF Stamp, At, Goto, sessions, TypeOK, OneFlight, InFlight
    <3>3. HasArc'
      BY <2>a, <2>10 DEF Stamp, At, Goto, sessions, TypeOK, HasArc, Serving
    <3> QED
      BY <3>1, <3>2, <3>3
  <2>11. CASE Arm(t)
    <3>1. TypeOK'
      BY <2>a, <2>11 DEF Arm, At, Goto, Unlock, sessions, TypeOK, Pc, InFlight, HasArc, Serving
    <3>2. OneFlight'
      BY <2>a, <2>11 DEF Arm, At, Goto, Unlock, sessions, TypeOK, OneFlight, InFlight
    <3>3. HasArc'
      BY <2>a, <2>11 DEF Arm, At, Goto, Unlock, sessions, TypeOK, HasArc, Serving
    <3> QED
      BY <3>1, <3>2, <3>3
  <2>12. CASE Install(t)
    <3>0. PICK q \in Session :
             Settle(lock, [resident EXCEPT ![p] = q], [home EXCEPT ![q] = p],
                    [held EXCEPT ![t] = q], [aside EXCEPT ![t] = 0])
      BY <2>12 DEF Install
    <3>z. q \in Ref /\ q # 0 /\ At(t, "install") /\ Goto(t, "attach") /\ UNCHANGED <<alive, opening, leased, again, counts>>
      BY <2>12 DEF Install
    <3>1. TypeOK'
      BY <2>a, <3>0, <3>z DEF At, Goto, Settle, sessions, TypeOK, Pc, InFlight, HasArc, Serving
    <3>2. OneFlight'
      BY <2>a, <3>0, <3>z DEF At, Goto, Settle, sessions, TypeOK, OneFlight, InFlight
    <3>3. HasArc'
      BY <2>a, <3>0, <3>z DEF At, Goto, Settle, sessions, TypeOK, HasArc, Serving
    <3> QED
      BY <3>1, <3>2, <3>3
  <2>13. CASE Attach(t)
    <3>1. TypeOK'
      BY <2>a, <2>b, <2>13 DEF Attach, At, Goto, Land, sessions, TypeOK, HasArc, Serving
    <3>2. OneFlight'
      BY <2>a, <2>b, <2>13 DEF Attach, At, Goto, Land, TypeOK, OneFlight, InFlight
    <3>3. HasArc'
      BY <2>a, <2>b, <2>13 DEF Attach, At, Goto, Land, sessions, TypeOK, HasArc, Serving
    <3> QED
      BY <3>1, <3>2, <3>3
  <2>14. CASE PublishCheck(t)
    <3>1. TypeOK'
      BY <2>a, <2>14 DEF PublishCheck, At, Goto, sessions, TypeOK, Pc, InFlight, HasArc, Serving
    <3>2. OneFlight'
      BY <2>a, <2>14 DEF PublishCheck, At, Goto, sessions, TypeOK, OneFlight, InFlight
    <3>3. HasArc'
      BY <2>a, <2>14 DEF PublishCheck, At, Goto, sessions, TypeOK, HasArc, Serving
    <3> QED
      BY <3>1, <3>2, <3>3
  <2>15. CASE PublishWrite(t)
    <3>1. TypeOK'
      BY <2>a, <2>15 DEF PublishWrite, At, Goto, sessions, TypeOK, Pc, InFlight, HasArc, Serving
    <3>2. OneFlight'
      BY <2>a, <2>15 DEF PublishWrite, At, Goto, sessions, TypeOK, OneFlight, InFlight
    <3>3. HasArc'
      BY <2>a, <2>15 DEF PublishWrite, At, Goto, sessions, TypeOK, HasArc, Serving
    <3> QED
      BY <3>1, <3>2, <3>3
  <2>16. CASE Check(t)
    <3>1. TypeOK'
      BY <2>a, <2>16 DEF Check, At, Goto, sessions, TypeOK, Pc, InFlight, HasArc, Serving
    <3>2. OneFlight'
      BY <2>a, <2>16 DEF Check, At, Goto, sessions, TypeOK, OneFlight, InFlight
    <3>3. HasArc'
      BY <2>a, <2>16 DEF Check, At, Goto, sessions, TypeOK, HasArc, Serving
    <3> QED
      BY <3>1, <3>2, <3>3
  <2>17. CASE PoisonRelease(t)
    <3>1. TypeOK'
      BY <2>a, <2>17 DEF PoisonRelease, At, Goto, Quiesce, Unlock, sessions, TypeOK, Pc, InFlight, HasArc, Serving
    <3>2. OneFlight'
      BY <2>a, <2>17 DEF PoisonRelease, At, Goto, Quiesce, Unlock, sessions, TypeOK, OneFlight, InFlight
    <3>3. HasArc'
      BY <2>a, <2>17 DEF PoisonRelease, At, Goto, Quiesce, Unlock, sessions, TypeOK, HasArc, Serving
    <3> QED
      BY <3>1, <3>2, <3>3
  <2>18. CASE PoisonRemove(t)
    <3>1. TypeOK'
      BY <2>a, <2>18 DEF PoisonRemove, At, Goto, Settle, sessions, TypeOK, Pc, InFlight, HasArc, Serving
    <3>2. OneFlight'
      BY <2>a, <2>18 DEF PoisonRemove, At, Goto, Settle, sessions, TypeOK, OneFlight, InFlight
    <3>3. HasArc'
      BY <2>a, <2>18 DEF PoisonRemove, At, Goto, Settle, sessions, TypeOK, HasArc, Serving
    <3> QED
      BY <3>1, <3>2, <3>3
  <2>19. CASE PoisonDrop(t)
    <3>1. TypeOK'
      BY <2>a, <2>19 DEF PoisonDrop, At, Goto, Settle, sessions, TypeOK, Pc, InFlight, HasArc, Serving
    <3>2. OneFlight'
      BY <2>a, <2>19 DEF PoisonDrop, At, Goto, Settle, sessions, TypeOK, OneFlight, InFlight
    <3>3. HasArc'
      BY <2>a, <2>19 DEF PoisonDrop, At, Goto, Settle, sessions, TypeOK, HasArc, Serving
    <3> QED
      BY <3>1, <3>2, <3>3
  <2>20. CASE Advance(t)
    <3>0. /\ At(t, "advance") /\ pc' \in {[pc EXCEPT ![t] = "serve"], [pc EXCEPT ![t] = "unwind"]}
          /\ poisoned' \in {poisoned, poisoned \cup {held[t]}}
          /\ UNCHANGED <<lock, alive, resident, opening, home, armed, frozen,
                         held, aside, leased, again>>
      BY <2>20 DEF Advance, Goto
    <3>z. held[t] \in Session
      BY <3>0 DEF At, TypeOK, HasArc, Serving
    <3>1. TypeOK'
      BY <3>0, <3>z DEF TypeOK, Pc
    <3>2. OneFlight'
      BY <3>0 DEF TypeOK, OneFlight, InFlight
    <3>3. HasArc'
      BY <3>0, <3>z DEF TypeOK, HasArc, Serving
    <3> QED
      BY <3>1, <3>2, <3>3
  <2>21. CASE Finish(t)
    <3>1. TypeOK'
      BY <2>a, <2>21 DEF Finish, At, Goto, Leave, Settle, sessions, TypeOK, Pc, InFlight, HasArc, Serving
    <3>2. OneFlight'
      BY <2>a, <2>21 DEF Finish, At, Goto, Leave, Settle, sessions, TypeOK, OneFlight, InFlight
    <3>3. HasArc'
      BY <2>a, <2>21 DEF Finish, At, Goto, Leave, Settle, sessions, TypeOK, HasArc, Serving
    <3> QED
      BY <3>1, <3>2, <3>3
  <2>22. CASE Enter(t)
    <3>1. TypeOK'
      BY <2>a, <2>22 DEF Enter, At, Goto, sessions, TypeOK, Pc, InFlight, HasArc, Serving
    <3>2. OneFlight'
      BY <2>a, <2>22 DEF Enter, At, Goto, sessions, TypeOK, OneFlight, InFlight
    <3>3. HasArc'
      BY <2>a, <2>22 DEF Enter, At, Goto, sessions, TypeOK, HasArc, Serving
    <3> QED
      BY <3>1, <3>2, <3>3
  <2>23. CASE Poll(t)
    <3>1. TypeOK'
      BY <2>a, <2>23 DEF Poll, At, Goto, sessions, TypeOK, Pc, InFlight, HasArc, Serving
    <3>2. OneFlight'
      BY <2>a, <2>23 DEF Poll, At, Goto, sessions, TypeOK, OneFlight, InFlight
    <3>3. HasArc'
      BY <2>a, <2>23 DEF Poll, Goto, Thawed, TypeOK, HasArc, Serving
    <3> QED
      BY <3>1, <3>2, <3>3
  <2>24. CASE Switch(t)
    <3>1. TypeOK'
      BY <2>a, <2>24 DEF Switch, At, Goto, Quiesce, Unlock, threads, sessions, TypeOK, Pc, InFlight, HasArc, Serving
    <3>2. OneFlight'
      BY <2>a, <2>24 DEF Switch, At, Goto, Quiesce, Unlock, threads, sessions, TypeOK, OneFlight, InFlight
    <3>3. HasArc'
      BY <2>a, <2>24 DEF Switch, At, Goto, Quiesce, Unlock, threads, sessions, TypeOK, HasArc, Serving
    <3> QED
      BY <3>1, <3>2, <3>3
  <2>25. CASE Forget(t)
    <3>1. TypeOK'
      BY <2>a, <2>25 DEF Forget, At, Goto, Settle, sessions, TypeOK, Pc, InFlight, HasArc, Serving
    <3>2. OneFlight'
      BY <2>a, <2>25 DEF Forget, At, Goto, Settle, sessions, TypeOK, OneFlight, InFlight
    <3>3. HasArc'
      BY <2>a, <2>25 DEF Forget, At, Goto, Settle, sessions, TypeOK, HasArc, Serving
    <3> QED
      BY <3>1, <3>2, <3>3
  <2> QED
    BY <1>1, <2>1, <2>2, <2>3, <2>4, <2>5, <2>6, <2>7, <2>8, <2>9, <2>10, <2>11, <2>12, <2>13, <2>14, <2>15, <2>16, <2>17, <2>18, <2>19, <2>20, <2>21, <2>22, <2>23, <2>24, <2>25 DEF Request, View
<1>2. ASSUME NEW p \in Proc, Crash(p) PROVE TInv'
  <2>1. TypeOK'
    BY <1>2 DEF Crash, TypeOK, Pc, InFlight
  <2>2. OneFlight'
    BY <1>2 DEF Crash, TypeOK, OneFlight, InFlight
  <2>3. HasArc'
    BY <1>2 DEF Crash, TypeOK, HasArc, Serving
  <2> QED
    BY <2>1, <2>2, <2>3
<1>3. CASE UNCHANGED vars
  BY <1>3 DEF vars, sessions, threads, TypeOK, OneFlight, HasArc
<1> QED
  BY <1>1, <1>2, <1>3 DEF Next

\* Every variable keeps its type.
THEOREM CacheTypes == Spec => []TypeOK
<1> QED
  BY InitTInv, NextTInv, PTL DEF Spec, TInv

\* At most one thread of a process drives an admission at a time, whatever else
\* is reaped, poisoned, crashed or refused in the meantime (mod.rs:326-333).
THEOREM FlightIsOne == Spec => []OneFlight
<1> QED
  BY InitTInv, NextTInv, PTL DEF Spec, TInv

-----------------------------------------------------------------------------
(* One writer in each process, as long as no fold panics.                  *)

IInv == TInv /\ Shape /\ Residents /\ Sound

\* The invariant gives the property: a writer is its process's resident.
LEMMA IInvOneWriter == IInv => OneWriterEach
<1> SUFFICES ASSUME IInv, NEW o1 \in Writers, NEW o2 \in Writers, home[o1] = home[o2]
             PROVE o1 = o2
  BY DEF OneWriterEach
<1>1. ASSUME NEW o \in Writers PROVE o = resident[home[o]]
  <2>1. o \in Session /\ o \notin frozen /\ o # 0
    BY RefFacts DEF Writers
  <2>2. CASE \E t \in Thread : held[t] = o
    <3>1. PICK t \in Thread : held[t] = o
      BY <2>2
    <3>2. Holding(t)
      BY DEF IInv, Shape
    <3> QED
      BY <2>1, <3>1, <3>2 DEF Holding
  <2> QED
    BY <2>2 DEF Writers
<1> QED
  BY <1>1

\* The initial states satisfy the invariant.
LEMMA InitIInv == Init => IInv
<1> SUFFICES ASSUME Init PROVE IInv
  OBVIOUS
<1>1. TInv
  BY InitTInv
<1>2. Shape
  BY ThreadsAssumption DEF Init, Shape, Holding, InFlight
<1>3. Residents
  BY DEF Init, Residents
<1>4. Sound
  BY DEF Init, Sound
<1> QED
  BY <1>1, <1>2, <1>3, <1>4 DEF IInv

\* What another thread's step must leave alone: the session thread u holds, and
\* the resident of its process if that is what u counts on.
LEMMA HoldingFrame ==
    ASSUME NEW u \in Thread, Holding(u),
           pc'[u] = pc[u], held'[u] = held[u], aside'[u] = aside[u],
           held[u] # 0 => /\ home'[held[u]] = home[held[u]]
                          /\ held[u] \in frozen => held[u] \in frozen'
                          /\ held[u] \notin frozen => resident'[Owner[u]] = resident[Owner[u]],
           pc[u] \in InFlight =>
              /\ resident'[Owner[u]] = resident[Owner[u]]
              /\ resident[Owner[u]] \in frozen => resident[Owner[u]] \in frozen'
    PROVE  Holding(u)'
  BY DEF Holding, Thawed, InFlight

\* Every step preserves the invariant when no fold panics.  What the others hold
\* is left alone (HoldingFrame); what thread t holds follows from its own step.
LEMMA NextIInv == ASSUME MaxPanics = 0, IInv, [Next]_vars PROVE IInv'
<1> USE ThreadsAssumption, RefFacts
<1>0. TInv /\ TInv' /\ Shape /\ Residents /\ Sound
  BY NextTInv DEF IInv
<1>1. ASSUME NEW t \in Thread, Request(t) \/ View(t) PROVE Shape' /\ Residents' /\ Sound'
  <2> DEFINE p == Owner[t]
             o == resident[p]
  <2>a. p \in Proc /\ o \in Ref
    BY <1>0 DEF TInv, TypeOK
  <2>b. Admitted(t) \in {"advance", "publish"}
    BY DEF Admitted
  <2>c. Holding(t) /\ \A u \in Thread : Holding(u)
    BY <1>0 DEF Shape
  <2>d. TypeOK /\ OneFlight
    BY <1>0 DEF TInv
  <2>z. ASSUME NEW STATE lk, Leave(t, lk), UNCHANGED panics PROVE Shape' /\ Residents' /\ Sound'
    <3>0. Settle(lk, resident, home, [held EXCEPT ![t] = 0], [aside EXCEPT ![t] = 0])
      BY <2>z DEF Leave
    <3>1. /\ resident' = resident /\ pc' = [pc EXCEPT ![t] = "idle"]
          /\ held' = [held EXCEPT ![t] = 0] /\ aside' = [aside EXCEPT ![t] = 0]
          /\ poisoned' \subseteq poisoned
      BY <2>z DEF Leave, Goto, Settle
    <3>2. \A q \in Session : (\E r \in Proc : resident[r] = q) \/ (\E u \in Thread \ {t} : held[u] = q)
                => home'[q] = home[q] /\ (q \in frozen' <=> q \in frozen)
      BY <2>d, <3>0 DEF Settle, Refs, TypeOK
    <3>3. ASSUME NEW u \in Thread \ {t} PROVE Holding(u)'
      <4>1. /\ Owner[u] \in Proc /\ held[u] \in Ref /\ resident[Owner[u]] \in Ref
            /\ pc'[u] = pc[u] /\ held'[u] = held[u] /\ aside'[u] = aside[u]
        BY <2>d, <3>1 DEF TypeOK
      <4>2. held[u] # 0 => home'[held[u]] = home[held[u]] /\ (held[u] \in frozen => held[u] \in frozen')
        BY <3>2, <4>1
      <4>3. resident[Owner[u]] \in frozen => resident[Owner[u]] \in frozen'
        BY <2>d, <3>2, <4>1 DEF TypeOK
      <4> QED
        BY <2>c, <3>1, <4>1, <4>2, <4>3, HoldingFrame
    <3>4. Holding(t)'
      BY <2>d, <3>1 DEF Holding, InFlight, TypeOK
    <3>5. Residents'
      BY <1>0, <2>d, <3>1, <3>2 DEF Residents, TypeOK
    <3>6. Sound'
      BY <1>0, <2>z, <2>d, <3>1 DEF Sound, TypeOK
    <3> QED
      BY <3>3, <3>4, <3>5, <3>6 DEF Shape
  <2>1. CASE Reap(t)
    <3>1. CASE Goto(t, "touch") /\ UNCHANGED <<resident, aside, reaps>>
      <4>1. ASSUME NEW u \in Thread \ {t} PROVE Holding(u)'
        BY <2>c, <2>d, <2>1, <3>1, HoldingFrame DEF Reap, Goto, sessions, TypeOK
      <4>2. Holding(t)'
        BY <2>c, <2>d, <2>1, <3>1 DEF Reap, At, Goto, sessions, Holding, InFlight, TypeOK
      <4>3. Residents' /\ Sound'
        BY <1>0, <2>d, <2>1, <3>1 DEF Reap, Goto, sessions, Residents, Sound, TypeOK
      <4> QED
        BY <4>1, <4>2, <4>3 DEF Shape
    <3>2. CASE /\ o # 0 /\ Refs(o, resident, held, aside) = {p}
               /\ resident' = [resident EXCEPT ![p] = 0]
               /\ aside' = [aside EXCEPT ![t] = o] /\ Goto(t, "evicted")
      <4>1. \A u \in Thread : held[u] # o /\ aside[u] # o
        BY <2>a, <3>2 DEF Refs
      <4>2. UNCHANGED <<home, frozen, held, poisoned, panics>> /\ At(t, "idle")
        BY <2>1 DEF Reap, sessions
      <4>3. ASSUME NEW u \in Thread \ {t} PROVE Holding(u)'
        <5>1. pc'[u] = pc[u] /\ aside'[u] = aside[u]
          BY <2>d, <3>2 DEF Goto, TypeOK
        <5>2. CASE Owner[u] # p
          BY <2>a, <2>c, <2>d, <3>2, <4>2, <5>1, <5>2, HoldingFrame DEF TypeOK
        <5>3. CASE Owner[u] = p
          <6>1. /\ Holding(u) /\ held[u] # o /\ aside[u] # o
                /\ resident'[p] = 0 /\ resident[Owner[u]] = o
            BY <2>a, <2>c, <2>d, <3>2, <4>1, <5>3 DEF TypeOK
          <6>2. /\ held[u] # 0 => held[u] \in frozen /\ home[held[u]] = p
                /\ pc[u] \notin {"lock read", "lock write", "open", "attach"}
                /\ pc[u] \in {"stamp", "arm"} => held[u] = 0
            BY <5>3, <6>1 DEF Holding
          <6> QED
            BY <4>2, <5>1, <5>3, <6>1, <6>2 DEF Holding, Thawed, InFlight
        <5> QED
          BY <5>2, <5>3
      <4>4. Holding(t)'
        BY <2>c, <2>d, <3>2, <4>2 DEF At, Goto, Holding, InFlight, TypeOK
      <4>5. Residents' /\ Sound'
        BY <1>0, <2>a, <2>d, <3>2, <4>2 DEF Goto, Residents, Sound, TypeOK
      <4> QED
        BY <4>3, <4>4, <4>5 DEF Shape
    <3> QED
      BY <2>1, <3>1, <3>2 DEF Reap
  <2>2. CASE DropEvicted(t)
    <3>0. Settle(lock, resident, home, held, [aside EXCEPT ![t] = 0])
      BY <2>2 DEF DropEvicted
    <3>1. /\ resident' = resident
          /\ \A u \in Thread \ {t} : pc'[u] = pc[u] /\ held'[u] = held[u] /\ aside'[u] = aside[u]
      BY <2>d, <2>2 DEF DropEvicted, Goto, Settle, TypeOK
    <3>2. \A q \in Session : (\E r \in Proc : resident[r] = q) \/ (\E u \in Thread \ {t} : held[u] = q)
                => home'[q] = home[q] /\ (q \in frozen' <=> q \in frozen)
      BY <2>d, <3>0 DEF Settle, Refs, TypeOK
    <3>3. ASSUME NEW u \in Thread \ {t} PROVE Holding(u)'
      <4>1. Owner[u] \in Proc /\ held[u] \in Ref /\ resident[Owner[u]] \in Ref
        BY <2>d DEF TypeOK
      <4>2. held[u] # 0 => home'[held[u]] = home[held[u]] /\ (held[u] \in frozen => held[u] \in frozen')
        BY <3>2, <4>1
      <4>3. resident[Owner[u]] \in frozen => resident[Owner[u]] \in frozen'
        BY <2>d, <3>2, <4>1 DEF TypeOK
      <4> QED
        BY <2>c, <3>1, <4>2, <4>3, HoldingFrame
    <3>4. Holding(t)'
      BY <2>c, <2>d, <2>2 DEF DropEvicted, At, Goto, Settle, Holding, InFlight, TypeOK
    <3>5. Residents'
      BY <1>0, <2>d, <3>1, <3>2 DEF Residents, TypeOK
    <3>6. Sound'
      BY <1>0, <2>d, <2>2 DEF Sound, DropEvicted, Goto, Settle, counts, TypeOK
    <3> QED
      BY <3>3, <3>4, <3>5, <3>6 DEF Shape
  <2>3. CASE Touch(t)
    <3>1. /\ UNCHANGED <<resident, home, frozen>>
          /\ \A u \in Thread \ {t} : pc'[u] = pc[u] /\ held'[u] = held[u] /\ aside'[u] = aside[u]
      BY <2>d, <2>3 DEF Touch, Goto, sessions, TypeOK
    <3>2. ASSUME NEW u \in Thread \ {t} PROVE Holding(u)'
      BY <2>c, <3>1, HoldingFrame
    <3>3. Holding(t)'
      BY <2>a, <2>b, <2>c, <2>d, <2>3, <1>0 DEF Touch, At, Goto, Holding, Thawed, TypeOK, InFlight, sessions, Residents
    <3>4. Residents'
      BY <1>0, <3>1 DEF Residents
    <3>5. Sound'
      BY <1>0, <2>b, <2>d, <2>3 DEF Sound, Touch, Goto, sessions, counts, TypeOK
    <3> QED
      BY <3>2, <3>3, <3>4, <3>5 DEF Shape
  <2>4. CASE Admit(t)
    <3>1. /\ UNCHANGED <<resident, home, frozen>>
          /\ \A u \in Thread \ {t} : pc'[u] = pc[u] /\ held'[u] = held[u] /\ aside'[u] = aside[u]
      BY <2>d, <2>4 DEF Admit, Goto, sessions, TypeOK
    <3>2. ASSUME NEW u \in Thread \ {t} PROVE Holding(u)'
      BY <2>c, <3>1, HoldingFrame
    <3>3. Holding(t)'
      BY <2>a, <2>b, <2>c, <2>d, <2>4, <1>0 DEF Admit, At, Goto, Holding, Thawed, TypeOK, InFlight, sessions, Residents
    <3>4. Residents'
      BY <1>0, <3>1 DEF Residents
    <3>5. Sound'
      BY <1>0, <2>b, <2>d, <2>4 DEF Sound, Admit, Goto, sessions, counts, TypeOK
    <3> QED
      BY <3>2, <3>3, <3>4, <3>5 DEF Shape
  <2>5. CASE Fly(t)
    <3>1. /\ UNCHANGED <<resident, home, frozen>>
          /\ \A u \in Thread \ {t} : pc'[u] = pc[u] /\ held'[u] = held[u] /\ aside'[u] = aside[u]
      BY <2>d, <2>5 DEF Fly, Goto, sessions, TypeOK
    <3>2. ASSUME NEW u \in Thread \ {t} PROVE Holding(u)'
      BY <2>c, <3>1, HoldingFrame
    <3>3. Holding(t)'
      BY <2>a, <2>b, <2>c, <2>d, <2>5 DEF Fly, At, Goto, Holding, Thawed, TypeOK, InFlight, sessions
    <3>4. Residents'
      BY <1>0, <3>1 DEF Residents
    <3>5. Sound'
      BY <1>0, <2>b, <2>d, <2>5 DEF Sound, Fly, Goto, sessions, counts, TypeOK
    <3> QED
      BY <3>2, <3>3, <3>4, <3>5 DEF Shape
  <2>6. CASE Recheck(t)
    <3>1. /\ UNCHANGED <<resident, home, frozen>>
          /\ \A u \in Thread \ {t} : pc'[u] = pc[u] /\ held'[u] = held[u] /\ aside'[u] = aside[u]
      <4>1. CASE Thawed(p)
        BY <2>d, <2>6, <4>1 DEF Recheck, Goto, sessions, TypeOK
      <4>2. CASE ~Thawed(p)
        BY <2>d, <2>6, <4>2 DEF Recheck, Goto, sessions, TypeOK
      <4> QED
        BY <4>1, <4>2
    <3>2. ASSUME NEW u \in Thread \ {t} PROVE Holding(u)'
      BY <2>c, <3>1, HoldingFrame
    <3>3. Holding(t)'
      BY <2>a, <2>b, <2>c, <2>d, <2>6, <1>0 DEF Recheck, At, Goto, Holding, Thawed, TypeOK, InFlight, sessions, Residents
    <3>4. Residents'
      BY <1>0, <3>1 DEF Residents
    <3>5. Sound'
      BY <1>0, <2>b, <2>d, <2>6 DEF Sound, Recheck, Goto, sessions, counts, TypeOK
    <3> QED
      BY <3>2, <3>3, <3>4, <3>5 DEF Shape
  <2>7. CASE LockRead(t)
    <3>1. CASE Leave(t, lock)
      BY <2>7, <3>1, <2>z DEF LockRead, counts
    <3>2. CASE /\ Goto(t, "lock write")
               /\ UNCHANGED <<lock, resident, opening, sessions, held, aside, leased, again>>
      <4>1. ASSUME NEW u \in Thread \ {t} PROVE Holding(u)'
        BY <2>c, <2>d, <3>2, HoldingFrame DEF Goto, sessions, TypeOK
      <4>2. Holding(t)'
        BY <2>c, <2>d, <2>7, <3>2 DEF LockRead, At, Goto, sessions, Holding, Thawed, InFlight, TypeOK
      <4>3. Residents' /\ Sound'
        BY <1>0, <2>d, <2>7, <3>2 DEF LockRead, Goto, sessions, counts, Residents, Sound, TypeOK
      <4> QED
        BY <4>1, <4>2, <4>3 DEF Shape
    <3> QED
      BY <2>7, <3>1, <3>2 DEF LockRead
  <2>8. CASE LockWrite(t)
    <3>1. /\ UNCHANGED <<resident, home, frozen>>
          /\ \A u \in Thread \ {t} : pc'[u] = pc[u] /\ held'[u] = held[u] /\ aside'[u] = aside[u]
      BY <2>d, <2>8 DEF LockWrite, Goto, sessions, TypeOK
    <3>2. ASSUME NEW u \in Thread \ {t} PROVE Holding(u)'
      BY <2>c, <3>1, HoldingFrame
    <3>3. Holding(t)'
      BY <2>a, <2>b, <2>c, <2>d, <2>8 DEF LockWrite, At, Goto, Holding, Thawed, TypeOK, InFlight, sessions
    <3>4. Residents'
      BY <1>0, <3>1 DEF Residents
    <3>5. Sound'
      BY <1>0, <2>b, <2>d, <2>8 DEF Sound, LockWrite, Goto, sessions, counts, TypeOK
    <3> QED
      BY <3>2, <3>3, <3>4, <3>5 DEF Shape
  <2>9. CASE Open(t)
    <3>1. CASE Leave(t, Unlock(lock, p))
      BY <2>9, <3>1, <2>z DEF Open
    <3>2. CASE /\ aside[t] # 0 /\ held' = [held EXCEPT ![t] = aside[t]]
               /\ aside' = [aside EXCEPT ![t] = 0] /\ Goto(t, "stamp")
               /\ UNCHANGED <<lock, resident, opening, sessions, leased, again, faults>>
      <4>1. ASSUME NEW u \in Thread \ {t} PROVE Holding(u)'
        BY <2>c, <2>d, <3>2, HoldingFrame DEF Goto, sessions, TypeOK
      <4>2. Holding(t)'
        BY <1>0, <2>a, <2>c, <2>d, <2>9, <3>2
           DEF Open, At, Goto, sessions, Holding, Thawed, InFlight, TypeOK, Residents
      <4>3. Residents' /\ Sound'
        BY <1>0, <2>d, <2>9, <3>2 DEF Open, Goto, sessions, Residents, Sound, TypeOK
      <4> QED
        BY <4>1, <4>2, <4>3 DEF Shape
    <3>3. CASE /\ Goto(t, "stamp")
               /\ UNCHANGED <<lock, resident, opening, sessions, held, aside, leased, again, faults>>
      <4>1. ASSUME NEW u \in Thread \ {t} PROVE Holding(u)'
        BY <2>c, <2>d, <3>3, HoldingFrame DEF Goto, sessions, TypeOK
      <4>2. Holding(t)'
        BY <2>c, <2>d, <2>9, <3>3 DEF Open, At, Goto, sessions, Holding, Thawed, InFlight, TypeOK
      <4>3. Residents' /\ Sound'
        BY <1>0, <2>d, <2>9, <3>3 DEF Open, Goto, sessions, Residents, Sound, TypeOK
      <4> QED
        BY <4>1, <4>2, <4>3 DEF Shape
    <3> QED
      BY <2>9, <3>1, <3>2, <3>3 DEF Open
  <2>10. CASE Stamp(t)
    <3>1. /\ UNCHANGED <<resident, home, frozen>>
          /\ \A u \in Thread \ {t} : pc'[u] = pc[u] /\ held'[u] = held[u] /\ aside'[u] = aside[u]
      BY <2>d, <2>10 DEF Stamp, Goto, sessions, TypeOK
    <3>2. ASSUME NEW u \in Thread \ {t} PROVE Holding(u)'
      BY <2>c, <3>1, HoldingFrame
    <3>3. Holding(t)'
      BY <2>a, <2>b, <2>c, <2>d, <2>10 DEF Stamp, At, Goto, Holding, Thawed, TypeOK, InFlight, sessions
    <3>4. Residents'
      BY <1>0, <3>1 DEF Residents
    <3>5. Sound'
      BY <1>0, <2>b, <2>d, <2>10 DEF Sound, Stamp, Goto, sessions, counts, TypeOK
    <3> QED
      BY <3>2, <3>3, <3>4, <3>5 DEF Shape
  <2>11. CASE Arm(t)
    <3>1. /\ UNCHANGED <<resident, home, frozen>>
          /\ \A u \in Thread \ {t} : pc'[u] = pc[u] /\ held'[u] = held[u] /\ aside'[u] = aside[u]
      BY <2>d, <2>11 DEF Arm, Goto, sessions, TypeOK
    <3>2. ASSUME NEW u \in Thread \ {t} PROVE Holding(u)'
      BY <2>c, <3>1, HoldingFrame
    <3>3. Holding(t)'
      BY <2>a, <2>b, <2>c, <2>d, <2>11 DEF Arm, At, Goto, Holding, Thawed, TypeOK, InFlight, sessions
    <3>4. Residents'
      BY <1>0, <3>1 DEF Residents
    <3>5. Sound'
      BY <1>0, <2>b, <2>d, <2>11 DEF Sound, Arm, Goto, sessions, counts, TypeOK
    <3> QED
      BY <3>2, <3>3, <3>4, <3>5 DEF Shape
  <2>12. CASE Install(t)
    <3>0. PICK q \in Session :
             /\ Refs(q, resident, held, aside) = {}
             /\ Settle(lock, [resident EXCEPT ![p] = q], [home EXCEPT ![q] = p],
                       [held EXCEPT ![t] = q], [aside EXCEPT ![t] = 0])
      BY <2>12 DEF Install
    <3>1. /\ At(t, "install") /\ pc' = [pc EXCEPT ![t] = "attach"]
          /\ held' = [held EXCEPT ![t] = q] /\ aside' = [aside EXCEPT ![t] = 0]
          /\ resident' = [resident EXCEPT ![p] = q]
          /\ poisoned' \subseteq poisoned /\ panics' = panics /\ q # 0
      BY <2>12, <3>0 DEF Install, Goto, Settle, counts
    <3>2. \A r \in Session :
             (\E x \in Proc : resident'[x] = r) \/ (\E u \in Thread : held'[u] = r)
                => home'[r] = [home EXCEPT ![q] = p][r] /\ (r \in frozen' <=> r \in frozen)
      BY <3>0, <3>1 DEF Settle, Refs
    <3>3. \A u \in Thread : held[u] # q
      BY <3>0 DEF Refs
    <3>z. \A x \in Proc : resident[x] # q
      BY <3>0 DEF Refs
    <3>4. ~Thawed(p)
      BY <2>c, <3>1 DEF At, Holding, InFlight
    <3>5. ASSUME NEW u \in Thread \ {t} PROVE Holding(u)'
      <4>1. /\ pc'[u] = pc[u] /\ held'[u] = held[u] /\ aside'[u] = aside[u]
            /\ Owner[u] \in Proc /\ held[u] \in Ref /\ resident[Owner[u]] \in Ref
        BY <2>d, <3>1 DEF TypeOK
      <4>2. held[u] # 0 => home'[held[u]] = home[held[u]] /\ (held[u] \in frozen' <=> held[u] \in frozen)
        BY <2>d, <3>2, <3>3, <4>1 DEF TypeOK
      <4>3. CASE Owner[u] = p
        <5>1. pc[u] \notin InFlight
          BY <2>d, <3>1, <4>3 DEF OneFlight, At, InFlight
        <5>2. held[u] # 0 => held[u] \in frozen
          <6>1. held[u] # 0 => held[u] \in frozen \/ o = held[u]
            BY <2>c, <4>3 DEF Holding
          <6> QED
            BY <3>4, <6>1 DEF Thawed
        <5> QED
          BY <2>c, <4>1, <4>2, <5>1, <5>2, HoldingFrame
      <4>4. CASE Owner[u] # p
        <5>1. resident'[Owner[u]] = resident[Owner[u]]
          BY <2>a, <2>d, <3>1, <4>1, <4>4 DEF TypeOK
        <5>2. resident[Owner[u]] \in frozen => resident[Owner[u]] \in frozen'
          BY <2>d, <3>2, <4>1, <5>1 DEF TypeOK
        <5> QED
          BY <2>c, <4>1, <4>2, <5>1, <5>2, HoldingFrame
      <4> QED
        BY <4>3, <4>4
    <3>6. home'[q] = p
      BY <2>a, <2>d, <3>1, <3>2 DEF TypeOK
    <3>7. Holding(t)'
      BY <2>a, <2>d, <3>1, <3>6 DEF Holding, InFlight, TypeOK
    <3>8. Residents'
      BY <1>0, <2>a, <2>d, <3>1, <3>2, <3>6, <3>z DEF Residents, TypeOK
    <3>9. Sound'
      BY <1>0, <2>d, <3>1 DEF Sound, TypeOK
    <3> QED
      BY <3>5, <3>7, <3>8, <3>9 DEF Shape
  <2>13. CASE Attach(t)
    <3>1. /\ At(t, "attach") /\ pc' = [pc EXCEPT ![t] = Admitted(t)]
          /\ frozen' = frozen \ {held[t]}
          /\ UNCHANGED <<resident, home, held, aside, poisoned, panics>>
      BY <2>13 DEF Attach, Goto, counts
    <3>2. held[t] = o /\ o # 0 /\ home[o] = p
      BY <2>c, <3>1 DEF At, Holding
    <3>3. ASSUME NEW u \in Thread \ {t} PROVE Holding(u)'
      <4>1. pc'[u] = pc[u] /\ Owner[u] \in Proc
        BY <2>d, <3>1 DEF TypeOK
      <4>2. CASE Owner[u] = p
        <5>1. pc[u] \notin InFlight
          BY <2>d, <3>1, <4>2 DEF OneFlight, At, InFlight
        <5> QED
          BY <2>c, <3>1, <3>2, <4>1, <4>2, <5>1 DEF Holding, InFlight
      <4>3. CASE Owner[u] # p
        <5>1. held[u] # o /\ resident[Owner[u]] # o
          BY <1>0, <2>c, <3>2, <4>1, <4>3 DEF Holding, Residents
        <5> QED
          BY <2>c, <3>1, <3>2, <4>1, <5>1, HoldingFrame
      <4> QED
        BY <4>2, <4>3
    <3>4. Holding(t)'
      BY <2>b, <2>d, <3>1, <3>2 DEF Holding, InFlight, TypeOK
    <3>5. Residents' /\ Sound'
      BY <1>0, <2>b, <2>d, <3>1 DEF Residents, Sound, TypeOK
    <3> QED
      BY <3>3, <3>4, <3>5 DEF Shape
  <2>14. CASE PublishCheck(t)
    <3>1. /\ UNCHANGED <<resident, home, frozen>>
          /\ \A u \in Thread \ {t} : pc'[u] = pc[u] /\ held'[u] = held[u] /\ aside'[u] = aside[u]
      BY <2>d, <2>14 DEF PublishCheck, Goto, sessions, TypeOK
    <3>2. ASSUME NEW u \in Thread \ {t} PROVE Holding(u)'
      BY <2>c, <3>1, HoldingFrame
    <3>3. Holding(t)'
      BY <2>a, <2>b, <2>c, <2>d, <2>14 DEF PublishCheck, At, Goto, Holding, Thawed, TypeOK, InFlight, sessions
    <3>4. Residents'
      BY <1>0, <3>1 DEF Residents
    <3>5. Sound'
      BY <1>0, <2>b, <2>d, <2>14 DEF Sound, PublishCheck, Goto, sessions, counts, TypeOK
    <3> QED
      BY <3>2, <3>3, <3>4, <3>5 DEF Shape
  <2>15. CASE PublishWrite(t)
    <3>1. /\ UNCHANGED <<resident, home, frozen>>
          /\ \A u \in Thread \ {t} : pc'[u] = pc[u] /\ held'[u] = held[u] /\ aside'[u] = aside[u]
      BY <2>d, <2>15 DEF PublishWrite, Goto, sessions, TypeOK
    <3>2. ASSUME NEW u \in Thread \ {t} PROVE Holding(u)'
      BY <2>c, <3>1, HoldingFrame
    <3>3. Holding(t)'
      BY <2>a, <2>b, <2>c, <2>d, <2>15 DEF PublishWrite, At, Goto, Holding, Thawed, TypeOK, InFlight, sessions
    <3>4. Residents'
      BY <1>0, <3>1 DEF Residents
    <3>5. Sound'
      BY <1>0, <2>b, <2>d, <2>15 DEF Sound, PublishWrite, Goto, sessions, counts, TypeOK
    <3> QED
      BY <3>2, <3>3, <3>4, <3>5 DEF Shape
  <2>16. CASE Check(t)
    <3>1. /\ UNCHANGED <<resident, home, frozen>>
          /\ \A u \in Thread \ {t} : pc'[u] = pc[u] /\ held'[u] = held[u] /\ aside'[u] = aside[u]
      BY <2>d, <2>16 DEF Check, Goto, sessions, TypeOK
    <3>2. ASSUME NEW u \in Thread \ {t} PROVE Holding(u)'
      BY <2>c, <3>1, HoldingFrame
    <3>3. Holding(t)'
      BY <2>a, <2>b, <2>c, <2>d, <2>16, <1>0 DEF Check, At, Goto, Holding, Thawed, TypeOK, InFlight, sessions
    <3>4. Residents'
      BY <1>0, <3>1 DEF Residents
    <3>5. Sound'
      BY <1>0, <2>b, <2>d, <2>16 DEF Sound, Check, Goto, sessions, counts, TypeOK
    <3> QED
      BY <3>2, <3>3, <3>4, <3>5 DEF Shape
  <2>17. CASE PoisonRelease(t) \/ PoisonRemove(t) \/ PoisonDrop(t)
    BY <1>0, <2>17 DEF Sound, At, PoisonRelease, PoisonRemove, PoisonDrop
  <2>18. CASE Advance(t)
    <3>1. /\ UNCHANGED <<resident, home, frozen>>
          /\ \A u \in Thread \ {t} : pc'[u] = pc[u] /\ held'[u] = held[u] /\ aside'[u] = aside[u]
      BY <2>d, <2>18 DEF Advance, Goto, sessions, TypeOK
    <3>2. ASSUME NEW u \in Thread \ {t} PROVE Holding(u)'
      BY <2>c, <3>1, HoldingFrame
    <3>3. Holding(t)'
      BY <2>a, <2>b, <2>c, <2>d, <2>18 DEF Advance, At, Goto, Holding, Thawed, TypeOK, InFlight, sessions
    <3>4. Residents'
      BY <1>0, <3>1 DEF Residents
    <3>5. Sound'
      BY <1>0, <2>b, <2>d, <2>18 DEF Sound, Advance, Goto, sessions, counts, TypeOK
    <3> QED
      BY <3>2, <3>3, <3>4, <3>5 DEF Shape
  <2>19. CASE Finish(t)
    BY <2>19, <2>z DEF Finish, counts
  <2>20. CASE Enter(t)
    <3>1. /\ UNCHANGED <<resident, home, frozen>>
          /\ \A u \in Thread \ {t} : pc'[u] = pc[u] /\ held'[u] = held[u] /\ aside'[u] = aside[u]
      BY <2>d, <2>20 DEF Enter, Goto, sessions, TypeOK
    <3>2. ASSUME NEW u \in Thread \ {t} PROVE Holding(u)'
      BY <2>c, <3>1, HoldingFrame
    <3>3. Holding(t)'
      BY <2>a, <2>b, <2>c, <2>d, <2>20 DEF Enter, At, Goto, Holding, Thawed, TypeOK, InFlight, sessions
    <3>4. Residents'
      BY <1>0, <3>1 DEF Residents
    <3>5. Sound'
      BY <1>0, <2>b, <2>d, <2>20 DEF Sound, Enter, Goto, sessions, counts, TypeOK
    <3> QED
      BY <3>2, <3>3, <3>4, <3>5 DEF Shape
  <2>21. CASE Poll(t)
    <3>1. /\ UNCHANGED <<resident, home, frozen>>
          /\ \A u \in Thread \ {t} : pc'[u] = pc[u] /\ held'[u] = held[u] /\ aside'[u] = aside[u]
      BY <2>d, <2>21 DEF Poll, Goto, sessions, TypeOK
    <3>2. ASSUME NEW u \in Thread \ {t} PROVE Holding(u)'
      BY <2>c, <3>1, HoldingFrame
    <3>3. Holding(t)'
      BY <2>a, <2>b, <2>c, <2>d, <2>21, <1>0 DEF Poll, At, Goto, Holding, Thawed, TypeOK, InFlight, sessions, Residents
    <3>4. Residents'
      BY <1>0, <3>1 DEF Residents
    <3>5. Sound'
      BY <1>0, <2>b, <2>d, <2>21 DEF Sound, Poll, Goto, sessions, counts, TypeOK
    <3> QED
      BY <3>2, <3>3, <3>4, <3>5 DEF Shape
  <2>22. CASE Switch(t)
    <3>1. /\ frozen \subseteq frozen'
          /\ UNCHANGED <<resident, home, pc, held, aside, poisoned, panics>>
      BY <2>22 DEF Switch, Quiesce, threads, counts
    <3>2. ASSUME NEW u \in Thread PROVE Holding(u)'
      BY <2>c, <3>1, HoldingFrame
    <3>3. Residents' /\ Sound'
      BY <1>0, <3>1 DEF Residents, Sound
    <3> QED
      BY <3>2, <3>3 DEF Shape
  <2>23. CASE Forget(t)
    <3>0. Settle(lock, [resident EXCEPT ![p] = 0], home, held, aside)
      BY <2>23 DEF Forget
    <3>1. /\ At(t, "idle") /\ p \in Viewer /\ UNCHANGED <<pc, held, aside, panics>>
          /\ resident' = [resident EXCEPT ![p] = 0] /\ poisoned' \subseteq poisoned
      BY <2>23, <3>0 DEF Forget, Settle, counts
    <3>2. \A r \in Session :
             (\E x \in Proc : resident'[x] = r) \/ (\E u \in Thread : held[u] = r)
                => home'[r] = home[r] /\ (r \in frozen' <=> r \in frozen)
      BY <3>0, <3>1 DEF Settle, Refs
    <3>3. ASSUME NEW u \in Thread \ {t} PROVE Holding(u)'
      <4>1. /\ Owner[u] \in Proc /\ Owner[u] # p
            /\ held[u] \in Ref /\ resident[Owner[u]] \in Ref
        BY <2>d, <3>1 DEF TypeOK
      <4>2. resident'[Owner[u]] = resident[Owner[u]]
        BY <2>a, <2>d, <3>1, <4>1 DEF TypeOK
      <4>3. held[u] # 0 => home'[held[u]] = home[held[u]] /\ (held[u] \in frozen => held[u] \in frozen')
        BY <3>2, <4>1
      <4>4. resident[Owner[u]] \in frozen => resident[Owner[u]] \in frozen'
        BY <2>d, <3>2, <4>1, <4>2 DEF TypeOK
      <4> QED
        BY <2>c, <3>1, <4>2, <4>3, <4>4, HoldingFrame
    <3>4. Holding(t)'
      BY <2>c, <3>1 DEF At, Holding, InFlight
    <3>5. Residents' /\ Sound'
      BY <1>0, <2>a, <2>d, <3>1, <3>2 DEF Residents, Sound, TypeOK
    <3> QED
      BY <3>3, <3>4, <3>5 DEF Shape
  <2> QED
    BY <1>1, <2>1, <2>2, <2>3, <2>4, <2>5, <2>6, <2>7, <2>8, <2>9, <2>10, <2>11, <2>12, <2>13, <2>14, <2>15, <2>16, <2>17, <2>18, <2>19, <2>20, <2>21, <2>22, <2>23 DEF Request, View
<1>2. ASSUME NEW p \in Proc, Crash(p) PROVE Shape' /\ Residents' /\ Sound'
  <2>1. TypeOK /\ OneFlight /\ \A u \in Thread : Holding(u)
    BY <1>0 DEF TInv, Shape
  <2>2. ASSUME NEW u \in Thread, Owner[u] = p PROVE Holding(u)'
    BY <1>2, <2>2 DEF Crash, Holding, InFlight
  <2>3. ASSUME NEW u \in Thread, Owner[u] # p PROVE Holding(u)'
    <3>1. /\ pc'[u] = pc[u] /\ held'[u] = held[u] /\ aside'[u] = aside[u]
          /\ Owner[u] \in Proc /\ held[u] \in Ref /\ resident[Owner[u]] \in Ref
          /\ resident'[Owner[u]] = resident[Owner[u]]
      BY <1>2, <2>1, <2>3 DEF Crash, TypeOK
    <3>2. \A o \in Session : home[o] # p => home'[o] = home[o] /\ (o \in frozen => o \in frozen')
      BY <1>2 DEF Crash
    <3>3. held[u] # 0 => home'[held[u]] = home[held[u]] /\ (held[u] \in frozen => held[u] \in frozen')
      BY <2>1, <2>3, <3>1, <3>2 DEF Holding
    <3>4. resident[Owner[u]] \in frozen => resident[Owner[u]] \in frozen'
      BY <1>0, <2>1, <2>3, <3>1, <3>2 DEF Residents, TypeOK
    <3> QED
      BY <2>1, <3>1, <3>3, <3>4, HoldingFrame
  <2>4. Residents'
    BY <1>0, <1>2, <2>1 DEF Crash, Residents, TypeOK
  <2>5. Sound'
    BY <1>0, <1>2, <2>1 DEF Crash, Sound, TypeOK
  <2> QED
    BY <2>2, <2>3, <2>4, <2>5 DEF Shape
<1>3. CASE UNCHANGED vars
  <2>1. UNCHANGED <<resident, home, frozen, poisoned, pc, held, aside, panics>>
    BY <1>3 DEF vars, sessions, threads, counts
  <2>2. ASSUME NEW u \in Thread PROVE Holding(u)'
    BY <1>0, <2>1, HoldingFrame DEF Shape
  <2>3. Residents' /\ Sound'
    BY <1>0, <2>1 DEF Residents, Sound
  <2> QED
    BY <1>0, <2>2, <2>3 DEF Shape, IInv
<1> QED
  BY <1>0, <1>1, <1>2, <1>3 DEF Next, IInv

\* However many threads of a process admit, fold, reap, fail to open and switch
\* at once, at most one session of that process can append to the entry: the
\* flight and reap's strong_count together arbitrate what the LOCK file cannot,
\* since it reads as ours to every thread (mod.rs:245-262, 326-333).  No fold
\* panics: with one that does it is false (run poison_race).
THEOREM ServerOneWriter == ASSUME MaxPanics = 0 PROVE Spec => []OneWriterEach
<1>1. Init => IInv
  BY InitIInv
<1>2. IInv /\ [Next]_vars => IInv'
  BY NextIInv
<1>3. IInv => OneWriterEach
  BY IInvOneWriter
<1> QED
  BY <1>1, <1>2, <1>3, PTL DEF Spec

-----------------------------------------------------------------------------
(***************************************************************************)
(* What the processes that share an entry keep beside each other.          *)
(*                                                                         *)
(* A terminal viewer (a TUI), beside any number of servers and other       *)
(* viewers, whatever they evict, poison or lose: the session on screen is  *)
(* never a frozen one, and a session it is not on is not locked by it.     *)
(* The argument: a session is referred to from one process only (Homes),   *)
(* so a step of another process touches neither what the viewer refers to  *)
(* nor a LOCK file that names the viewer, except to remove it (Apart).     *)
(* The viewer has one thread, so what that thread saw of the slot still    *)
(* holds when it acts on it.                                               *)
(*                                                                         *)
(* A process that has admitted the session stays its only writer, and the  *)
(* LOCK file names it for as long as it writes, whoever else asks; when it *)
(* dies, the process that is left takes the entry over and is then the     *)
(* only writer.  This needs hypotheses (Settled), and without them the     *)
(* code has a race: two processes that find no holder both take the LOCK   *)
(* (lock_race.cfg), so the owner has the entry from the start, it is a     *)
(* server that does not evict it, and if it may die there is one other     *)
(* process, not two; and a fold that panics leaves a writer behind         *)
(* (poison_race.cfg), so no fold panics.                                   *)
(* The argument: while the owner lives its resident is never frozen, so    *)
(* none of its own threads reaches the LOCK file, and every other process  *)
(* reads it there and leaves (OwnerLives).  Once it is dead all steps are  *)
(* of one process, whose flight is one: whoever takes the LOCK file or     *)
(* hands it back does so while no session of that process is armed         *)
(* (OwnerGone, OnlyFlier, NoneArmed).                                      *)
(***************************************************************************)

(* The viewer.                                                             *)

\* All references to a session are in the memory of its process.
Homes ==
    /\ \A p \in Proc : resident[p] # 0 => home[resident[p]] = p
    /\ \A t \in Thread : /\ held[t] # 0 => home[held[t]] = Owner[t]
                         /\ aside[t] # 0 => home[aside[t]] = Owner[t]

\* A session with a writer is not frozen.
ArmedThaws == armed \cap frozen = {}

\* Where a viewer's thread can be: it serves no requests.
ViewPc == {"idle", "admit", "flight", "advance", "serve"} \cup InFlight

\* What it holds there, and that what it saw of the slot is still so.
ViewHolds(t) ==
    /\ pc[t] \in ViewPc
    /\ pc[t] \in {"idle", "admit", "flight", "recheck", "lock read", "lock write", "open"}
          => held[t] = 0
    /\ pc[t] \in {"lock read", "lock write", "open"} => aside[t] = resident[Owner[t]]
    /\ pc[t] \in {"stamp", "arm"} /\ held[t] # 0 => held[t] = resident[Owner[t]]
    /\ pc[t] = "attach" => held[t] = resident[Owner[t]]
    /\ pc[t] = "advance" => held[t] \notin frozen
    /\ pc[t] \in InFlight \ {"recheck", "attach"} => ~Thawed(Owner[t])

\* A LOCK file that names a viewer: it is being taken, or the writer has it.
ViewLocks(t) ==
    lock = Owner[t] /\ Owner[t] \in alive =>
        \/ pc[t] \in {"open", "stamp", "arm"}
        \/ pc[t] \in {"install", "attach"} /\ t \in leased
        \/ resident[Owner[t]] \in armed

VInv ==
    /\ TInv /\ Homes /\ ArmedThaws
    /\ \A t \in Thread : Owner[t] \in Viewer => ViewHolds(t) /\ ViewLocks(t)

-----------------------------------------------------------------------------
(* The steps of one process and what the others refer to. *)

HomesOf(p) ==
    /\ resident[p] # 0 => home[resident[p]] = p
    /\ \A t \in Thread : Owner[t] = p => /\ held[t] # 0 => home[held[t]] = p
                                         /\ aside[t] # 0 => home[aside[t]] = p

\* Somebody has an Arc of session o.
Referred(o) == (\E p \in Proc : resident[p] = o) \/ \E t \in Thread : held[t] = o \/ aside[t] = o

\* A step of process p: it may take or remove the LOCK file, and touches nothing that
\* another process refers to.
Apart(p) ==
    /\ alive' \subseteq alive
    /\ lock' \in {lock, Nobody, p}
    /\ \A q \in Proc : q # p => resident'[q] = resident[q]
    /\ \A u \in Thread : Owner[u] # p =>
          /\ pc'[u] = pc[u] /\ held'[u] = held[u] /\ aside'[u] = aside[u]
          /\ u \in leased' <=> u \in leased
    /\ \A o \in Session : Referred(o) /\ home[o] # p =>
          /\ home'[o] = home[o]
          /\ o \in armed' <=> o \in armed
          /\ o \in frozen' <=> o \in frozen

LEMMA InitVInv == Init => VInv
<1> SUFFICES ASSUME Init PROVE VInv OBVIOUS
<1>1. TInv BY InitTInv
<1>2. Homes /\ ArmedThaws BY DEF Init, Homes, ArmedThaws
<1>3. \A t \in Thread : ViewHolds(t)
  BY ThreadsAssumption DEF Init, ViewHolds, ViewPc, Thawed, InFlight
<1>4. \A t \in Thread : ViewLocks(t)
  BY ThreadsAssumption DEF Init, ViewLocks
<1> QED BY <1>1, <1>2, <1>3, <1>4 DEF VInv

\* The invariant is about one process at a time.
LEMMA ApartKeeps ==
    ASSUME VInv, TInv', NEW p \in Proc, Apart(p), HomesOf(p)', ArmedThaws',
           \A t \in Thread : Owner[t] = p /\ p \in Viewer => ViewHolds(t)' /\ ViewLocks(t)'
    PROVE  VInv'
<1>0. TypeOK BY DEF VInv, TInv
<1>1. ASSUME NEW q \in Proc, q # p PROVE HomesOf(q)'
  <2>1. HomesOf(q) BY <1>1, ThreadsAssumption DEF VInv, Homes, HomesOf
  <2>2. resident'[q] # 0 => home'[resident'[q]] = q
    <3>1. resident'[q] = resident[q] BY <1>1 DEF Apart
    <3>2. resident[q] # 0 => resident[q] \in Session /\ Referred(resident[q])
      BY <1>0, RefFacts DEF TypeOK, Referred
    <3> QED BY <1>1, <2>1, <3>1, <3>2 DEF Apart, HomesOf
  <2>3. ASSUME NEW t \in Thread, Owner[t] = q PROVE held'[t] # 0 => home'[held'[t]] = q
    <3>1. held'[t] = held[t] BY <1>1, <2>3 DEF Apart
    <3>2. held[t] # 0 => held[t] \in Session /\ Referred(held[t])
      BY <1>0, RefFacts DEF TypeOK, Referred
    <3> QED BY <1>1, <2>1, <2>3, <3>1, <3>2 DEF Apart, HomesOf
  <2>4. ASSUME NEW t \in Thread, Owner[t] = q PROVE aside'[t] # 0 => home'[aside'[t]] = q
    <3>1. aside'[t] = aside[t] BY <1>1, <2>4 DEF Apart
    <3>2. aside[t] # 0 => aside[t] \in Session /\ Referred(aside[t])
      BY <1>0, RefFacts DEF TypeOK, Referred
    <3> QED BY <1>1, <2>1, <2>4, <3>1, <3>2 DEF Apart, HomesOf
  <2> QED BY <2>2, <2>3, <2>4 DEF HomesOf
<1>2. Homes' BY <1>1, ThreadsAssumption DEF Homes, HomesOf
<1>3. ASSUME NEW t \in Thread, Owner[t] \in Viewer, Owner[t] # p
      PROVE  ViewHolds(t)' /\ ViewLocks(t)'
  <2> DEFINE q == Owner[t]
  <2>0. q \in Proc /\ ViewHolds(t) /\ ViewLocks(t) BY <1>3, ThreadsAssumption DEF VInv
  <2>1. /\ pc'[t] = pc[t] /\ held'[t] = held[t] /\ aside'[t] = aside[t]
        /\ (t \in leased' <=> t \in leased) /\ resident'[q] = resident[q]
    BY <1>3, <2>0 DEF Apart
  <2>2. resident[q] # 0 =>
          /\ resident[q] \in frozen' <=> resident[q] \in frozen
          /\ resident[q] \in armed' <=> resident[q] \in armed
    <3>1. resident[q] # 0 =>
            resident[q] \in Session /\ Referred(resident[q]) /\ home[resident[q]] = q
      BY <1>0, <2>0, RefFacts DEF TypeOK, Referred, VInv, Homes
    <3> QED BY <1>3, <3>1 DEF Apart
  <2>3. held[t] # 0 => (held[t] \in frozen' <=> held[t] \in frozen)
    <3>1. held[t] # 0 => held[t] \in Session /\ Referred(held[t]) /\ home[held[t]] = q
      BY <1>0, <2>0, RefFacts DEF TypeOK, Referred, VInv, Homes
    <3> QED BY <1>3, <3>1 DEF Apart
  <2>4. Thawed(q)' <=> Thawed(q) BY <2>1, <2>2 DEF Thawed
  <2>5. pc[t] = "advance" => held[t] # 0 BY DEF VInv, TInv, HasArc, Serving
  <2>6. ViewHolds(t)' BY <2>0, <2>1, <2>3, <2>4, <2>5 DEF ViewHolds
  <2>7. lock' = q => lock = q BY <1>3, <2>0, ThreadsAssumption DEF Apart
  <2>8. 0 \notin armed /\ 0 \notin armed' BY RefFacts DEF VInv, TInv, TypeOK
  <2>9. resident[q] \in armed => resident'[q] \in armed' BY <2>1, <2>2, <2>8
  <2>10. ViewLocks(t)' BY <2>0, <2>1, <2>7, <2>9 DEF ViewLocks, Apart
  <2> QED BY <2>6, <2>10
<1> QED BY <1>2, <1>3 DEF VInv

\* The steps that leave the sessions alone: only the thread goes on.
LEMMA PlainStep ==
    ASSUME VInv, TInv', NEW t \in Thread,
           UNCHANGED <<alive, resident, home, armed, frozen>>,
           lock' \in {lock, Nobody, Owner[t]},
           \A u \in Thread : u # t =>
              /\ pc'[u] = pc[u] /\ held'[u] = held[u] /\ aside'[u] = aside[u]
              /\ u \in leased' <=> u \in leased,
           held'[t] \in {0, held[t], aside[t], resident[Owner[t]]},
           aside'[t] \in {0, aside[t], resident[Owner[t]]},
           Owner[t] \in Viewer => ViewHolds(t)' /\ ViewLocks(t)'
    PROVE  VInv'
<1>0. Owner[t] \in Proc BY ThreadsAssumption
<1>1. Apart(Owner[t]) BY DEF Apart
<1>2. HomesOf(Owner[t])' BY <1>0 DEF VInv, Homes, HomesOf
<1>3. ArmedThaws' BY DEF VInv, ArmedThaws
<1>4. \A u \in Thread : Owner[u] = Owner[t] /\ Owner[t] \in Viewer => u = t
  BY ThreadsAssumption
<1> QED BY <1>0, <1>1, <1>2, <1>3, <1>4, ApartKeeps

\* References go, and with the last one the session.
LEMMA SettleStep ==
    ASSUME VInv, TInv', NEW t \in Thread, NEW lk \in {lock, Nobody},
           NEW res \in {resident, [resident EXCEPT ![Owner[t]] = 0]},
           NEW hd \in {held, [held EXCEPT ![t] = 0]},
           NEW as \in {aside, [aside EXCEPT ![t] = 0]},
           Settle(lk, res, home, hd, as), UNCHANGED alive,
           \A u \in Thread : u # t => pc'[u] = pc[u] /\ (u \in leased' <=> u \in leased),
           Owner[t] \in Viewer => ViewHolds(t)' /\ ViewLocks(t)'
    PROVE  VInv'
<1> DEFINE p == Owner[t]
<1>0. p \in Proc /\ TypeOK BY ThreadsAssumption DEF VInv, TInv
<1>1. /\ resident' = res /\ held' = hd /\ aside' = as
      /\ armed' \subseteq armed /\ frozen' \subseteq frozen
      /\ lock' \in {lock, Nobody}
      /\ \A o \in Session : Refs(o, res, hd, as) # {} =>
            home'[o] = home[o] /\ (o \in armed' <=> o \in armed) /\ (o \in frozen' <=> o \in frozen)
  BY DEF Settle
<1>2. /\ \A q \in Proc : resident'[q] = resident[q] \/ (q = p /\ resident'[q] = 0)
      /\ \A u \in Thread : held'[u] = held[u] \/ (u = t /\ held'[u] = 0)
      /\ \A u \in Thread : aside'[u] = aside[u] \/ (u = t /\ aside'[u] = 0)
  BY <1>0, <1>1 DEF TypeOK
<1>3. \A o \in Session : Referred(o)' => Refs(o, res, hd, as) # {}
  BY <1>1 DEF Referred, Refs
<1>4. \A o \in Session : Referred(o) /\ home[o] # p => Referred(o)'
  BY <1>2, RefFacts DEF Referred, VInv, Homes
<1>5. Apart(p) BY <1>1, <1>2, <1>3, <1>4 DEF Apart
<1>6. HomesOf(p)'
  <2>1. resident'[p] # 0 => home'[resident'[p]] = p
    <3>1. resident'[p] # 0 =>
            resident'[p] \in Session /\ Referred(resident[p])' /\ resident'[p] = resident[p]
      BY <1>0, <1>2, RefFacts DEF TypeOK, Referred
    <3> QED BY <1>0, <1>1, <1>3, <3>1 DEF VInv, Homes
  <2>2. ASSUME NEW u \in Thread, Owner[u] = p PROVE held'[u] # 0 => home'[held'[u]] = p
    <3>1. held'[u] # 0 => held'[u] \in Session /\ Referred(held[u])' /\ held'[u] = held[u]
      BY <1>0, <1>2, RefFacts DEF TypeOK, Referred
    <3> QED BY <1>1, <1>3, <2>2, <3>1 DEF VInv, Homes
  <2>3. ASSUME NEW u \in Thread, Owner[u] = p PROVE aside'[u] # 0 => home'[aside'[u]] = p
    <3>1. aside'[u] # 0 => aside'[u] \in Session /\ Referred(aside[u])' /\ aside'[u] = aside[u]
      BY <1>0, <1>2, RefFacts DEF TypeOK, Referred
    <3> QED BY <1>1, <1>3, <2>3, <3>1 DEF VInv, Homes
  <2> QED BY <2>1, <2>2, <2>3 DEF HomesOf
<1>7. ArmedThaws' BY <1>1 DEF VInv, ArmedThaws
<1>8. \A u \in Thread : Owner[u] = p /\ p \in Viewer => u = t BY ThreadsAssumption
<1> QED BY <1>0, <1>5, <1>6, <1>7, <1>8, ApartKeeps

-----------------------------------------------------------------------------
(* Each step. *)

\* The thread of a viewer and its process.
LEMMA ViewerFacts ==
    ASSUME VInv, NEW t \in Thread
    PROVE  /\ Owner[t] \in Proc /\ TypeOK
           /\ Owner[t] \in Viewer => ViewHolds(t) /\ ViewLocks(t)
           /\ resident[Owner[t]] \in Ref /\ held[t] \in Ref /\ aside[t] \in Ref
BY ThreadsAssumption DEF VInv, TInv, TypeOK

LEMMA ViewTouch ==
    ASSUME VInv, TInv', NEW t \in Thread, Touch(t)
    PROVE  VInv'
<1>0. /\ Owner[t] \in Proc /\ TypeOK
      /\ Owner[t] \in Viewer => ViewHolds(t) /\ ViewLocks(t)
  BY ViewerFacts
<1>1. UNCHANGED <<alive, resident, home, armed, frozen>>
      /\ lock' \in {lock, Nobody, Owner[t]}
  BY DEF Touch, sessions, Unlock, Goto
<1>2. \A u \in Thread : u # t =>
        /\ pc'[u] = pc[u] /\ held'[u] = held[u] /\ aside'[u] = aside[u]
        /\ u \in leased' <=> u \in leased
  BY <1>0 DEF Touch, Goto, TypeOK
<1>3. /\ held'[t] \in {0, held[t], aside[t], resident[Owner[t]]}
      /\ aside'[t] \in {0, aside[t], resident[Owner[t]]}
  BY <1>0 DEF Touch, Goto, TypeOK
<1>4. Owner[t] \notin Viewer BY <1>0 DEF Touch, At, ViewHolds, ViewPc, InFlight
<1> QED BY <1>1, <1>2, <1>3, <1>4, PlainStep

LEMMA ViewPublishCheck ==
    ASSUME VInv, TInv', NEW t \in Thread, PublishCheck(t)
    PROVE  VInv'
<1>0. /\ Owner[t] \in Proc /\ TypeOK
      /\ Owner[t] \in Viewer => ViewHolds(t) /\ ViewLocks(t)
  BY ViewerFacts
<1>1. UNCHANGED <<alive, resident, home, armed, frozen>>
      /\ lock' \in {lock, Nobody, Owner[t]}
  BY DEF PublishCheck, sessions, Unlock, Goto
<1>2. \A u \in Thread : u # t =>
        /\ pc'[u] = pc[u] /\ held'[u] = held[u] /\ aside'[u] = aside[u]
        /\ u \in leased' <=> u \in leased
  BY <1>0 DEF PublishCheck, Goto, TypeOK
<1>3. /\ held'[t] \in {0, held[t], aside[t], resident[Owner[t]]}
      /\ aside'[t] \in {0, aside[t], resident[Owner[t]]}
  BY <1>0 DEF PublishCheck, Goto, TypeOK
<1>4. Owner[t] \notin Viewer BY <1>0 DEF PublishCheck, At, ViewHolds, ViewPc, InFlight
<1> QED BY <1>1, <1>2, <1>3, <1>4, PlainStep

LEMMA ViewPublishWrite ==
    ASSUME VInv, TInv', NEW t \in Thread, PublishWrite(t)
    PROVE  VInv'
<1>0. /\ Owner[t] \in Proc /\ TypeOK
      /\ Owner[t] \in Viewer => ViewHolds(t) /\ ViewLocks(t)
  BY ViewerFacts
<1>1. UNCHANGED <<alive, resident, home, armed, frozen>>
      /\ lock' \in {lock, Nobody, Owner[t]}
  BY DEF PublishWrite, sessions, Unlock, Goto
<1>2. \A u \in Thread : u # t =>
        /\ pc'[u] = pc[u] /\ held'[u] = held[u] /\ aside'[u] = aside[u]
        /\ u \in leased' <=> u \in leased
  BY <1>0 DEF PublishWrite, Goto, TypeOK
<1>3. /\ held'[t] \in {0, held[t], aside[t], resident[Owner[t]]}
      /\ aside'[t] \in {0, aside[t], resident[Owner[t]]}
  BY <1>0 DEF PublishWrite, Goto, TypeOK
<1>4. Owner[t] \notin Viewer BY <1>0 DEF PublishWrite, At, ViewHolds, ViewPc, InFlight
<1> QED BY <1>1, <1>2, <1>3, <1>4, PlainStep

LEMMA ViewCheck ==
    ASSUME VInv, TInv', NEW t \in Thread, Check(t)
    PROVE  VInv'
<1>0. /\ Owner[t] \in Proc /\ TypeOK
      /\ Owner[t] \in Viewer => ViewHolds(t) /\ ViewLocks(t)
  BY ViewerFacts
<1>1. UNCHANGED <<alive, resident, home, armed, frozen>>
      /\ lock' \in {lock, Nobody, Owner[t]}
  BY DEF Check, sessions, Unlock, Goto
<1>2. \A u \in Thread : u # t =>
        /\ pc'[u] = pc[u] /\ held'[u] = held[u] /\ aside'[u] = aside[u]
        /\ u \in leased' <=> u \in leased
  BY <1>0 DEF Check, Goto, TypeOK
<1>3. /\ held'[t] \in {0, held[t], aside[t], resident[Owner[t]]}
      /\ aside'[t] \in {0, aside[t], resident[Owner[t]]}
  BY <1>0 DEF Check, Goto, TypeOK
<1>4. Owner[t] \notin Viewer BY <1>0 DEF Check, At, ViewHolds, ViewPc, InFlight
<1> QED BY <1>1, <1>2, <1>3, <1>4, PlainStep

LEMMA ViewAdmit ==
    ASSUME VInv, TInv', NEW t \in Thread, Admit(t)
    PROVE  VInv'
<1>0. /\ Owner[t] \in Proc /\ TypeOK
      /\ Owner[t] \in Viewer => ViewHolds(t) /\ ViewLocks(t)
  BY ViewerFacts
<1>1. UNCHANGED <<alive, resident, home, armed, frozen>>
      /\ lock' \in {lock, Nobody, Owner[t]}
  BY DEF Admit, sessions, Unlock, Goto
<1>2. \A u \in Thread : u # t =>
        /\ pc'[u] = pc[u] /\ held'[u] = held[u] /\ aside'[u] = aside[u]
        /\ u \in leased' <=> u \in leased
  BY <1>0 DEF Admit, Goto, TypeOK
<1>3. /\ held'[t] \in {0, held[t], aside[t], resident[Owner[t]]}
      /\ aside'[t] \in {0, aside[t], resident[Owner[t]]}
  BY <1>0 DEF Admit, Goto, TypeOK
<1>4. Owner[t] \in Viewer => ViewHolds(t)'
  BY <1>0, <1>1 DEF Admit, At, Goto, TypeOK, Admitted, Thawed, ViewHolds, ViewPc, InFlight
<1>5. Owner[t] \in Viewer => ViewLocks(t)'
  BY <1>0, <1>1 DEF Admit, At, Goto, TypeOK, Admitted, Thawed, Unlock, ViewHolds, ViewLocks
<1> QED BY <1>1, <1>2, <1>3, <1>4, <1>5, PlainStep

LEMMA ViewFly ==
    ASSUME VInv, TInv', NEW t \in Thread, Fly(t)
    PROVE  VInv'
<1>0. /\ Owner[t] \in Proc /\ TypeOK
      /\ Owner[t] \in Viewer => ViewHolds(t) /\ ViewLocks(t)
  BY ViewerFacts
<1>1. UNCHANGED <<alive, resident, home, armed, frozen>>
      /\ lock' \in {lock, Nobody, Owner[t]}
  BY DEF Fly, sessions, Unlock, Goto
<1>2. \A u \in Thread : u # t =>
        /\ pc'[u] = pc[u] /\ held'[u] = held[u] /\ aside'[u] = aside[u]
        /\ u \in leased' <=> u \in leased
  BY <1>0 DEF Fly, Goto, TypeOK
<1>3. /\ held'[t] \in {0, held[t], aside[t], resident[Owner[t]]}
      /\ aside'[t] \in {0, aside[t], resident[Owner[t]]}
  BY <1>0 DEF Fly, Goto, TypeOK
<1>4. Owner[t] \in Viewer => ViewHolds(t)'
  BY <1>0, <1>1 DEF Fly, At, Goto, TypeOK, Admitted, Thawed, ViewHolds, ViewPc, InFlight
<1>5. Owner[t] \in Viewer => ViewLocks(t)'
  BY <1>0, <1>1 DEF Fly, At, Goto, TypeOK, Admitted, Thawed, Unlock, ViewHolds, ViewLocks
<1> QED BY <1>1, <1>2, <1>3, <1>4, <1>5, PlainStep

LEMMA ViewRecheck ==
    ASSUME VInv, TInv', NEW t \in Thread, Recheck(t)
    PROVE  VInv'
<1>0. /\ Owner[t] \in Proc /\ TypeOK
      /\ Owner[t] \in Viewer => ViewHolds(t) /\ ViewLocks(t)
  BY ViewerFacts
<1>1. UNCHANGED <<alive, resident, home, armed, frozen>>
      /\ lock' \in {lock, Nobody, Owner[t]}
  BY DEF Recheck, sessions, Unlock, Goto
<1>2. \A u \in Thread : u # t =>
        /\ pc'[u] = pc[u] /\ held'[u] = held[u] /\ aside'[u] = aside[u]
        /\ u \in leased' <=> u \in leased
  BY <1>0 DEF Recheck, Goto, TypeOK
<1>3. /\ held'[t] \in {0, held[t], aside[t], resident[Owner[t]]}
      /\ aside'[t] \in {0, aside[t], resident[Owner[t]]}
  BY <1>0 DEF Recheck, Goto, TypeOK
<1>4. Owner[t] \in Viewer => ViewHolds(t)'
  BY <1>0, <1>1 DEF Recheck, At, Goto, TypeOK, Admitted, Thawed, ViewHolds, ViewPc, InFlight
<1>5. Owner[t] \in Viewer => ViewLocks(t)'
  BY <1>0, <1>1 DEF Recheck, At, Goto, TypeOK, Admitted, Thawed, Unlock, ViewHolds, ViewLocks
<1> QED BY <1>1, <1>2, <1>3, <1>4, <1>5, PlainStep

LEMMA ViewLockWrite ==
    ASSUME VInv, TInv', NEW t \in Thread, LockWrite(t)
    PROVE  VInv'
<1>0. /\ Owner[t] \in Proc /\ TypeOK
      /\ Owner[t] \in Viewer => ViewHolds(t) /\ ViewLocks(t)
  BY ViewerFacts
<1>1. UNCHANGED <<alive, resident, home, armed, frozen>>
      /\ lock' \in {lock, Nobody, Owner[t]}
  BY DEF LockWrite, sessions, Unlock, Goto
<1>2. \A u \in Thread : u # t =>
        /\ pc'[u] = pc[u] /\ held'[u] = held[u] /\ aside'[u] = aside[u]
        /\ u \in leased' <=> u \in leased
  BY <1>0 DEF LockWrite, Goto, TypeOK
<1>3. /\ held'[t] \in {0, held[t], aside[t], resident[Owner[t]]}
      /\ aside'[t] \in {0, aside[t], resident[Owner[t]]}
  BY <1>0 DEF LockWrite, Goto, TypeOK
<1>4. Owner[t] \in Viewer => ViewHolds(t)'
  BY <1>0, <1>1 DEF LockWrite, At, Goto, TypeOK, Admitted, Thawed, ViewHolds, ViewPc, InFlight
<1>5. Owner[t] \in Viewer => ViewLocks(t)'
  BY <1>0, <1>1 DEF LockWrite, At, Goto, TypeOK, Admitted, Thawed, Unlock, ViewHolds, ViewLocks
<1> QED BY <1>1, <1>2, <1>3, <1>4, <1>5, PlainStep

LEMMA ViewStamp ==
    ASSUME VInv, TInv', NEW t \in Thread, Stamp(t)
    PROVE  VInv'
<1>0. /\ Owner[t] \in Proc /\ TypeOK
      /\ Owner[t] \in Viewer => ViewHolds(t) /\ ViewLocks(t)
  BY ViewerFacts
<1>1. UNCHANGED <<alive, resident, home, armed, frozen>>
      /\ lock' \in {lock, Nobody, Owner[t]}
  BY DEF Stamp, sessions, Unlock, Goto
<1>2. \A u \in Thread : u # t =>
        /\ pc'[u] = pc[u] /\ held'[u] = held[u] /\ aside'[u] = aside[u]
        /\ u \in leased' <=> u \in leased
  BY <1>0 DEF Stamp, Goto, TypeOK
<1>3. /\ held'[t] \in {0, held[t], aside[t], resident[Owner[t]]}
      /\ aside'[t] \in {0, aside[t], resident[Owner[t]]}
  BY <1>0 DEF Stamp, Goto, TypeOK
<1>4. Owner[t] \in Viewer => ViewHolds(t)'
  BY <1>0, <1>1 DEF Stamp, At, Goto, TypeOK, Admitted, Thawed, ViewHolds, ViewPc, InFlight
<1>5. Owner[t] \in Viewer => ViewLocks(t)'
  BY <1>0, <1>1 DEF Stamp, At, Goto, TypeOK, Admitted, Thawed, Unlock, ViewHolds, ViewLocks
<1> QED BY <1>1, <1>2, <1>3, <1>4, <1>5, PlainStep

LEMMA ViewArm ==
    ASSUME VInv, TInv', NEW t \in Thread, Arm(t)
    PROVE  VInv'
<1>0. /\ Owner[t] \in Proc /\ TypeOK
      /\ Owner[t] \in Viewer => ViewHolds(t) /\ ViewLocks(t)
  BY ViewerFacts
<1>1. UNCHANGED <<alive, resident, home, armed, frozen>>
      /\ lock' \in {lock, Nobody, Owner[t]}
  BY DEF Arm, sessions, Unlock, Goto
<1>2. \A u \in Thread : u # t =>
        /\ pc'[u] = pc[u] /\ held'[u] = held[u] /\ aside'[u] = aside[u]
        /\ u \in leased' <=> u \in leased
  BY <1>0 DEF Arm, Goto, TypeOK
<1>3. /\ held'[t] \in {0, held[t], aside[t], resident[Owner[t]]}
      /\ aside'[t] \in {0, aside[t], resident[Owner[t]]}
  BY <1>0 DEF Arm, Goto, TypeOK
<1>4. Owner[t] \in Viewer => ViewHolds(t)'
  BY <1>0, <1>1 DEF Arm, At, Goto, TypeOK, Admitted, Thawed, ViewHolds, ViewPc, InFlight
<1>5. Owner[t] \in Viewer => ViewLocks(t)'
  <2>1. pc'[t] \in {"install", "attach"} /\ (t \in leased' \/ lock' = Unlock(lock, Owner[t]))
    BY <1>0 DEF Arm, Goto, TypeOK
  <2>2. Unlock(lock, Owner[t]) # Owner[t] BY <1>0, ThreadsAssumption DEF Unlock
  <2> QED BY <2>1, <2>2 DEF ViewLocks
<1> QED BY <1>1, <1>2, <1>3, <1>4, <1>5, PlainStep

LEMMA ViewAdvance ==
    ASSUME VInv, TInv', NEW t \in Thread, Advance(t)
    PROVE  VInv'
<1>0. /\ Owner[t] \in Proc /\ TypeOK
      /\ Owner[t] \in Viewer => ViewHolds(t) /\ ViewLocks(t)
  BY ViewerFacts
<1>1. UNCHANGED <<alive, resident, home, armed, frozen>>
      /\ lock' \in {lock, Nobody, Owner[t]}
  BY DEF Advance, sessions, Unlock, Goto
<1>2. \A u \in Thread : u # t =>
        /\ pc'[u] = pc[u] /\ held'[u] = held[u] /\ aside'[u] = aside[u]
        /\ u \in leased' <=> u \in leased
  BY <1>0 DEF Advance, Goto, TypeOK
<1>3. /\ held'[t] \in {0, held[t], aside[t], resident[Owner[t]]}
      /\ aside'[t] \in {0, aside[t], resident[Owner[t]]}
  BY <1>0 DEF Advance, Goto, TypeOK
<1>4. Owner[t] \in Viewer => ViewHolds(t)'
  BY <1>0, <1>1 DEF Advance, At, Goto, TypeOK, Admitted, Thawed, ViewHolds, ViewPc, InFlight
<1>5. Owner[t] \in Viewer => ViewLocks(t)'
  BY <1>0, <1>1 DEF Advance, At, Goto, TypeOK, Admitted, Thawed, Unlock, ViewHolds, ViewLocks
<1> QED BY <1>1, <1>2, <1>3, <1>4, <1>5, PlainStep

LEMMA ViewEnter ==
    ASSUME VInv, TInv', NEW t \in Thread, Enter(t)
    PROVE  VInv'
<1>0. /\ Owner[t] \in Proc /\ TypeOK
      /\ Owner[t] \in Viewer => ViewHolds(t) /\ ViewLocks(t)
  BY ViewerFacts
<1>1. UNCHANGED <<alive, resident, home, armed, frozen>>
      /\ lock' \in {lock, Nobody, Owner[t]}
  BY DEF Enter, sessions, Unlock, Goto
<1>2. \A u \in Thread : u # t =>
        /\ pc'[u] = pc[u] /\ held'[u] = held[u] /\ aside'[u] = aside[u]
        /\ u \in leased' <=> u \in leased
  BY <1>0 DEF Enter, Goto, TypeOK
<1>3. /\ held'[t] \in {0, held[t], aside[t], resident[Owner[t]]}
      /\ aside'[t] \in {0, aside[t], resident[Owner[t]]}
  BY <1>0 DEF Enter, Goto, TypeOK
<1>4. Owner[t] \in Viewer => ViewHolds(t)'
  BY <1>0, <1>1 DEF Enter, At, Goto, TypeOK, Admitted, Thawed, ViewHolds, ViewPc, InFlight
<1>5. Owner[t] \in Viewer => ViewLocks(t)'
  BY <1>0, <1>1 DEF Enter, At, Goto, TypeOK, Admitted, Thawed, Unlock, ViewHolds, ViewLocks
<1> QED BY <1>1, <1>2, <1>3, <1>4, <1>5, PlainStep

LEMMA ViewPoll ==
    ASSUME VInv, TInv', NEW t \in Thread, Poll(t)
    PROVE  VInv'
<1>0. /\ Owner[t] \in Proc /\ TypeOK
      /\ Owner[t] \in Viewer => ViewHolds(t) /\ ViewLocks(t)
  BY ViewerFacts
<1>1. UNCHANGED <<alive, resident, home, armed, frozen>>
      /\ lock' \in {lock, Nobody, Owner[t]}
  BY DEF Poll, sessions, Unlock, Goto
<1>2. \A u \in Thread : u # t =>
        /\ pc'[u] = pc[u] /\ held'[u] = held[u] /\ aside'[u] = aside[u]
        /\ u \in leased' <=> u \in leased
  BY <1>0 DEF Poll, Goto, TypeOK
<1>3. /\ held'[t] \in {0, held[t], aside[t], resident[Owner[t]]}
      /\ aside'[t] \in {0, aside[t], resident[Owner[t]]}
  BY <1>0 DEF Poll, Goto, TypeOK
<1>4. Owner[t] \in Viewer => ViewHolds(t)'
  BY <1>0, <1>1 DEF Poll, At, Goto, TypeOK, Admitted, Thawed, ViewHolds, ViewPc, InFlight
<1>5. Owner[t] \in Viewer => ViewLocks(t)'
  BY <1>0, <1>1 DEF Poll, At, Goto, TypeOK, Admitted, Thawed, Unlock, ViewHolds, ViewLocks
<1> QED BY <1>1, <1>2, <1>3, <1>4, <1>5, PlainStep

LEMMA ViewReap ==
    ASSUME VInv, TInv', NEW t \in Thread, Reap(t)
    PROVE  VInv'
<1> DEFINE p == Owner[t]
<1>0. p \in Proc /\ TypeOK /\ p \notin Viewer BY ViewerFacts DEF Reap
<1>1. UNCHANGED <<alive, lock, home, armed, frozen, held, leased>> BY DEF Reap, sessions
<1>2. /\ \A q \in Proc : q # p => resident'[q] = resident[q]
      /\ \A u \in Thread : u # t => pc'[u] = pc[u] /\ aside'[u] = aside[u]
      /\ resident'[p] \in {resident[p], 0} /\ aside'[t] \in {aside[t], resident[p]}
  BY <1>0 DEF Reap, Goto, TypeOK
<1>3. Apart(p) BY <1>1, <1>2 DEF Apart
<1>4. HomesOf(p)' BY <1>0, <1>1, <1>2 DEF HomesOf, VInv, Homes
<1>5. ArmedThaws' BY <1>1 DEF VInv, ArmedThaws
<1> QED BY <1>0, <1>3, <1>4, <1>5, ApartKeeps

LEMMA ViewDropEvicted ==
    ASSUME VInv, TInv', NEW t \in Thread, DropEvicted(t)
    PROVE  VInv'
<1>0. TypeOK /\ (Owner[t] \in Viewer => ViewHolds(t)) BY ViewerFacts
<1>1. Owner[t] \notin Viewer BY <1>0 DEF DropEvicted, At, ViewHolds, ViewPc, InFlight
<1>2. \A u \in Thread : u # t => pc'[u] = pc[u] /\ (u \in leased' <=> u \in leased)
  BY <1>0 DEF DropEvicted, Goto, TypeOK
<1> QED BY <1>1, <1>2, SettleStep DEF DropEvicted

LEMMA ViewPoisonRemove ==
    ASSUME VInv, TInv', NEW t \in Thread, PoisonRemove(t)
    PROVE  VInv'
<1>0. TypeOK /\ (Owner[t] \in Viewer => ViewHolds(t)) BY ViewerFacts
<1>1. Owner[t] \notin Viewer BY <1>0 DEF PoisonRemove, At, ViewHolds, ViewPc, InFlight
<1>2. \A u \in Thread : u # t => pc'[u] = pc[u] /\ (u \in leased' <=> u \in leased)
  BY <1>0 DEF PoisonRemove, Goto, TypeOK
<1> QED BY <1>1, <1>2, SettleStep DEF PoisonRemove

LEMMA ViewPoisonDrop ==
    ASSUME VInv, TInv', NEW t \in Thread, PoisonDrop(t)
    PROVE  VInv'
<1>0. TypeOK /\ (Owner[t] \in Viewer => ViewHolds(t)) BY ViewerFacts
<1>1. Owner[t] \notin Viewer BY <1>0 DEF PoisonDrop, At, ViewHolds, ViewPc, InFlight
<1>2. \A u \in Thread : u # t => pc'[u] = pc[u] /\ (u \in leased' <=> u \in leased)
  BY <1>0 DEF PoisonDrop, Goto, TypeOK
<1> QED BY <1>1, <1>2, SettleStep DEF PoisonDrop

\* What a resident keeps when references go: it is referred to.
LEMMA ResidentStays ==
    ASSUME TypeOK, NEW p \in Proc, NEW lk, NEW hd, NEW as,
           Settle(lk, resident, home, hd, as), resident[p] # 0
    PROVE  /\ resident[p] \in armed' <=> resident[p] \in armed
           /\ resident[p] \in frozen' <=> resident[p] \in frozen
<1>1. resident[p] \in Session BY RefFacts DEF TypeOK
<1>2. Refs(resident[p], resident, hd, as) # {} BY DEF Refs
<1> QED BY <1>1, <1>2 DEF Settle

\* A request that ends: its thread holds nothing, and what was resident still is.
LEMMA LeaveStep ==
    ASSUME VInv, TInv', NEW t \in Thread, NEW lk \in {lock, Nobody}, Leave(t, lk), UNCHANGED alive,
           Owner[t] \in Viewer /\ lk = Owner[t] => resident[Owner[t]] \in armed
    PROVE  VInv'
<1>0. /\ Owner[t] \in Proc /\ TypeOK
      /\ Owner[t] \in Viewer => ViewHolds(t) /\ ViewLocks(t)
  BY ViewerFacts
<1>1. Settle(lk, resident, home, [held EXCEPT ![t] = 0], [aside EXCEPT ![t] = 0]) BY DEF Leave
<1>2. pc' = [pc EXCEPT ![t] = "idle"] /\ leased' = leased \ {t} BY DEF Leave, Goto
<1>3. /\ resident' = resident /\ lock' \in {lk, Nobody} /\ pc'[t] = "idle" /\ held'[t] = 0
      /\ \A u \in Thread : u # t => pc'[u] = pc[u] /\ (u \in leased' <=> u \in leased)
  BY <1>0, <1>1, <1>2 DEF Settle, TypeOK
<1>4. Owner[t] \in Viewer => ViewHolds(t)'
  BY <1>3 DEF ViewHolds, ViewPc, InFlight
<1>5. Owner[t] \in Viewer => ViewLocks(t)'
  <2> SUFFICES ASSUME Owner[t] \in Viewer, lock' = Owner[t] PROVE resident'[Owner[t]] \in armed'
    BY DEF ViewLocks
  <2>1. resident[Owner[t]] \in armed /\ resident[Owner[t]] # 0
    BY <1>0, <1>3, ThreadsAssumption, RefFacts DEF TypeOK
  <2> QED BY <1>0, <1>1, <1>3, <2>1, ResidentStays
<1> QED BY <1>1, <1>3, <1>4, <1>5, SettleStep

LEMMA ViewFinish ==
    ASSUME VInv, TInv', NEW t \in Thread, Finish(t)
    PROVE  VInv'
<1>0. Owner[t] \in Proc /\ (Owner[t] \in Viewer => ViewHolds(t) /\ ViewLocks(t)) BY ViewerFacts
<1>1. Owner[t] \in Viewer /\ lock = Owner[t] => resident[Owner[t]] \in armed
  BY <1>0 DEF Finish, At, ViewLocks
<1> QED BY <1>1, LeaveStep DEF Finish

LEMMA ViewLockRead ==
    ASSUME VInv, TInv', NEW t \in Thread, LockRead(t)
    PROVE  VInv'
<1>0. /\ Owner[t] \in Proc /\ TypeOK
      /\ Owner[t] \in Viewer => ViewHolds(t) /\ ViewLocks(t)
  BY ViewerFacts
<1>1. CASE Held(Owner[t])
  BY <1>1, LeaveStep DEF LockRead, Held
<1>2. CASE ~Held(Owner[t])
  <2>1. /\ At(t, "lock read") /\ pc' = [pc EXCEPT ![t] = "lock write"]
        /\ UNCHANGED <<lock, alive, resident, home, armed, frozen, held, aside, leased>>
    BY <1>2 DEF LockRead, Goto, sessions
  <2>2. Owner[t] \in Viewer => ViewHolds(t)'
    BY <1>0, <2>1 DEF At, TypeOK, Thawed, ViewHolds, ViewPc, InFlight
  <2>3. Owner[t] \in Viewer => ViewLocks(t)'
    BY <1>0, <2>1 DEF At, TypeOK, ViewLocks
  <2>4. \A u \in Thread : u # t => pc'[u] = pc[u] BY <1>0, <2>1 DEF TypeOK
  <2> QED BY <2>1, <2>2, <2>3, <2>4, PlainStep
<1> QED BY <1>1, <1>2

LEMMA ViewOpen ==
    ASSUME VInv, TInv', NEW t \in Thread, Open(t)
    PROVE  VInv'
<1>0. /\ Owner[t] \in Proc /\ TypeOK /\ At(t, "open") /\ UNCHANGED alive
      /\ Owner[t] \in Viewer => ViewHolds(t) /\ ViewLocks(t)
  BY ViewerFacts DEF Open
<1>1. CASE Leave(t, Unlock(lock, Owner[t]))
  <2>1. PICK lk \in {lock, Nobody} : lk = Unlock(lock, Owner[t]) BY DEF Unlock
  <2>2. lk # Owner[t] BY <1>0, <2>1, ThreadsAssumption DEF Unlock
  <2> QED BY <1>0, <1>1, <2>1, <2>2, LeaveStep
<1>2. CASE /\ held' \in {held, [held EXCEPT ![t] = aside[t]]}
           /\ aside' \in {aside, [aside EXCEPT ![t] = 0]}
           /\ Goto(t, "stamp")
           /\ UNCHANGED <<lock, resident, sessions, leased>>
  <2>1. /\ pc' = [pc EXCEPT ![t] = "stamp"]
        /\ UNCHANGED <<lock, resident, home, armed, frozen, leased>>
    BY <1>2 DEF Goto, sessions
  <2>2. Owner[t] \in Viewer => ViewHolds(t)'
    BY <1>0, <1>2, <2>1 DEF At, TypeOK, Thawed, ViewHolds, ViewPc, InFlight
  <2>3. Owner[t] \in Viewer => ViewLocks(t)' BY <1>0, <2>1 DEF TypeOK, ViewLocks
  <2>4. /\ \A u \in Thread : u # t =>
              pc'[u] = pc[u] /\ held'[u] = held[u] /\ aside'[u] = aside[u]
        /\ held'[t] \in {held[t], aside[t]} /\ aside'[t] \in {aside[t], 0}
    BY <1>0, <1>2, <2>1 DEF TypeOK
  <2> QED BY <1>0, <2>1, <2>2, <2>3, <2>4, PlainStep
<1> QED BY <1>1, <1>2 DEF Open

LEMMA ViewForget ==
    ASSUME VInv, TInv', NEW t \in Thread, Forget(t)
    PROVE  VInv'
<1>0. Owner[t] \in Proc /\ TypeOK /\ ViewHolds(t) /\ ViewLocks(t) /\ At(t, "idle")
  BY ViewerFacts DEF Forget
<1>1. Settle(lock, [resident EXCEPT ![Owner[t]] = 0], home, held, aside)
      /\ UNCHANGED <<pc, leased, alive>>
  BY DEF Forget
<1>2. lock # Owner[t]
  <2>1. resident[Owner[t]] \in frozen BY DEF Forget, Thawed
  <2>2. resident[Owner[t]] \notin armed BY <2>1 DEF VInv, ArmedThaws
  <2> QED BY <1>0, <2>2 DEF ViewLocks, At
<1>3. lock' # Owner[t] BY <1>0, <1>1, <1>2, ThreadsAssumption DEF Settle
<1>4. ViewHolds(t)' BY <1>0, <1>1 DEF Settle, At, ViewHolds, ViewPc, InFlight
<1>5. ViewLocks(t)' BY <1>3 DEF ViewLocks
<1> QED BY <1>1, <1>4, <1>5, SettleStep

LEMMA ViewAttach ==
    ASSUME VInv, TInv', NEW t \in Thread, Attach(t)
    PROVE  VInv'
<1> DEFINE p == Owner[t]
           o == held[t]
<1>0. /\ p \in Proc /\ TypeOK /\ pc[t] = "attach"
      /\ p \in Viewer => ViewHolds(t) /\ ViewLocks(t)
  BY ViewerFacts DEF Attach, At
<1>1. o \in Session /\ home[o] = p
  BY <1>0, RefFacts DEF VInv, TInv, HasArc, Serving, TypeOK, Homes
<1>2. UNCHANGED <<lock, alive, resident, home, held, aside>> BY DEF Attach
<1>3. /\ armed' \in {armed, armed \cup {o}} /\ (t \in leased => o \in armed')
      /\ frozen' = frozen \ {o} /\ leased' = leased \ {t}
  BY DEF Attach
<1>4. pc'[t] = Admitted(t) /\ \A u \in Thread : u # t => pc'[u] = pc[u]
  BY <1>0 DEF Attach, Goto, TypeOK
<1>5. Apart(p) BY <1>1, <1>2, <1>3, <1>4 DEF Apart
<1>6. HomesOf(p)' BY <1>0, <1>2 DEF VInv, Homes, HomesOf
<1>7. ArmedThaws' BY <1>3 DEF VInv, ArmedThaws
<1>8. ASSUME p \in Viewer PROVE ViewHolds(t)' /\ ViewLocks(t)'
  <2>1. pc'[t] = "advance" BY <1>4, <1>8 DEF Admitted
  <2>2. ViewHolds(t)' BY <1>2, <1>3, <2>1 DEF ViewHolds, ViewPc, InFlight
  <2>3. ViewLocks(t)' BY <1>0, <1>2, <1>3, <1>8 DEF ViewHolds, ViewLocks
  <2> QED BY <2>2, <2>3
<1>9. \A u \in Thread : Owner[u] = p /\ p \in Viewer => u = t BY ThreadsAssumption
<1> QED BY <1>0, <1>5, <1>6, <1>7, <1>8, <1>9, ApartKeeps

\* What release does to the sessions: only the resident is touched.
LEMMA QuiesceStep ==
    ASSUME VInv, TInv', NEW t \in Thread, Quiesce(Owner[t]),
           UNCHANGED <<alive, resident, home, held, aside, leased>>,
           \A u \in Thread : u # t => pc'[u] = pc[u],
           Owner[t] \in Viewer => ViewHolds(t)' /\ ViewLocks(t)'
    PROVE  VInv'
<1> DEFINE p == Owner[t]
           o == resident[p]
<1>0. p \in Proc /\ TypeOK BY ViewerFacts
<1>1. o # 0 => o \in Session /\ home[o] = p
  BY <1>0, RefFacts DEF VInv, TypeOK, Homes
<1>2. /\ frozen' = frozen \cup ({o} \ {0}) /\ armed' = armed \ {o}
      /\ lock' \in {lock, Nobody}
  BY DEF Quiesce, Unlock
<1>3. \A x \in Session : home[x] # p =>
        (x \in frozen' <=> x \in frozen) /\ (x \in armed' <=> x \in armed)
  BY <1>1, <1>2, RefFacts
<1>4. Apart(p) BY <1>2, <1>3 DEF Apart
<1>5. HomesOf(p)' BY <1>0 DEF VInv, Homes, HomesOf
<1>6. ArmedThaws' BY <1>2 DEF VInv, ArmedThaws
<1>7. \A u \in Thread : Owner[u] = p /\ p \in Viewer => u = t BY ThreadsAssumption
<1> QED BY <1>0, <1>4, <1>5, <1>6, <1>7, ApartKeeps

LEMMA ViewPoisonRelease ==
    ASSUME VInv, TInv', NEW t \in Thread, PoisonRelease(t)
    PROVE  VInv'
<1>0. TypeOK /\ (Owner[t] \in Viewer => ViewHolds(t)) BY ViewerFacts
<1>1. Owner[t] \notin Viewer BY <1>0 DEF PoisonRelease, At, ViewHolds, ViewPc, InFlight
<1>2. \A u \in Thread : u # t => pc'[u] = pc[u] BY <1>0 DEF PoisonRelease, Goto, TypeOK
<1> QED BY <1>1, <1>2, QuiesceStep DEF PoisonRelease

LEMMA ViewSwitch ==
    ASSUME VInv, TInv', NEW t \in Thread, Switch(t)
    PROVE  VInv'
<1>0. Owner[t] \in Proc /\ ViewHolds(t) /\ ViewLocks(t) /\ At(t, "idle")
  BY ViewerFacts DEF Switch
<1>1. UNCHANGED <<alive, resident, home, held, aside, leased, pc>> BY DEF Switch, threads
<1>2. lock' # Owner[t]
  <2>1. CASE resident[Owner[t]] \in armed
    BY <1>0, <2>1, ThreadsAssumption DEF Switch, Quiesce, Unlock
  <2>2. CASE resident[Owner[t]] \notin armed
    <3>1. lock # Owner[t] BY <1>0, <2>2 DEF ViewLocks, At
    <3> QED BY <2>2, <3>1 DEF Switch, Quiesce
  <2> QED BY <2>1, <2>2
<1>3. ViewHolds(t)' BY <1>0, <1>1 DEF At, ViewHolds, ViewPc, InFlight
<1>4. ViewLocks(t)' BY <1>2 DEF ViewLocks
<1> QED BY <1>1, <1>3, <1>4, QuiesceStep DEF Switch

LEMMA ViewInstall ==
    ASSUME VInv, TInv', NEW t \in Thread, Install(t)
    PROVE  VInv'
<1> DEFINE p == Owner[t]
<1>0. /\ p \in Proc /\ TypeOK /\ At(t, "install")
      /\ p \in Viewer => ViewHolds(t) /\ ViewLocks(t)
  BY ViewerFacts DEF Install
<1>1. PICK o \in Session :
        /\ Refs(o, resident, held, aside) = {}
        /\ Settle(lock, [resident EXCEPT ![p] = o], [home EXCEPT ![o] = p],
                  [held EXCEPT ![t] = o], [aside EXCEPT ![t] = 0])
  BY DEF Install
<1>2. /\ resident' = [resident EXCEPT ![p] = o] /\ held' = [held EXCEPT ![t] = o]
      /\ aside' = [aside EXCEPT ![t] = 0]
      /\ armed' \subseteq armed /\ frozen' \subseteq frozen /\ lock' \in {lock, Nobody}
      /\ \A x \in Session : Refs(x, resident', held', aside') # {} =>
            /\ home'[x] = [home EXCEPT ![o] = p][x]
            /\ x \in armed' <=> x \in armed
            /\ x \in frozen' <=> x \in frozen
  BY <1>1 DEF Settle
<1>3. /\ resident'[p] = o /\ held'[t] = o /\ aside'[t] = 0
      /\ \A q \in Proc : q # p => resident'[q] = resident[q]
      /\ \A u \in Thread : u # t => held'[u] = held[u] /\ aside'[u] = aside[u]
  BY <1>0, <1>2 DEF TypeOK
<1>4. UNCHANGED <<alive, leased>> /\ pc'[t] = "attach"
      /\ \A u \in Thread : u # t => pc'[u] = pc[u]
  BY <1>0 DEF Install, Goto, TypeOK
<1>5. ASSUME NEW x \in Session, Referred(x)'
      PROVE  /\ home'[x] = IF x = o THEN p ELSE home[x]
             /\ x \in armed' <=> x \in armed
             /\ x \in frozen' <=> x \in frozen
  <2>1. Refs(x, resident', held', aside') # {} BY <1>5 DEF Referred, Refs
  <2> QED BY <1>0, <1>2, <2>1 DEF TypeOK
<1>6. ~Referred(o) BY <1>1 DEF Referred, Refs
<1>7. \A x \in Session : Referred(x) /\ home[x] # p => Referred(x)' /\ x # o
  BY <1>3, <1>6, RefFacts DEF Referred, VInv, Homes
<1>8. Apart(p) BY <1>2, <1>3, <1>4, <1>5, <1>7 DEF Apart
<1>9. HomesOf(p)'
  <2>0. Referred(o)' BY <1>0, <1>3 DEF Referred
  <2>1. resident'[p] # 0 => home'[resident'[p]] = p BY <1>3, <1>5, <2>0
  <2>2. ASSUME NEW u \in Thread, Owner[u] = p PROVE held'[u] # 0 => home'[held'[u]] = p
    <3>1. CASE u = t BY <1>3, <1>5, <2>0, <3>1
    <3>2. CASE u # t
      <4>1. held[u] # 0 => held[u] \in Session /\ Referred(held[u]) /\ home[held[u]] = p
        BY <1>0, <2>2, RefFacts DEF TypeOK, Referred, VInv, Homes
      <4>2. held[u] # 0 => \E v \in Thread : held'[v] = held[u] BY <1>3, <3>2
      <4>3. held[u] # 0 => home'[held[u]] = IF held[u] = o THEN p ELSE home[held[u]]
        BY <1>5, <4>1, <4>2 DEF Referred
      <4> QED BY <1>3, <3>2, <4>1, <4>3
    <3> QED BY <3>1, <3>2
  <2>3. ASSUME NEW u \in Thread, Owner[u] = p PROVE aside'[u] # 0 => home'[aside'[u]] = p
    <3>1. CASE u = t BY <1>3, <3>1
    <3>2. CASE u # t
      <4>1. aside[u] # 0 => aside[u] \in Session /\ home[aside[u]] = p
        BY <1>0, <2>3, RefFacts DEF TypeOK, VInv, Homes
      <4>2. aside[u] # 0 => \E v \in Thread : aside'[v] = aside[u] BY <1>3, <3>2
      <4>3. aside[u] # 0 => home'[aside[u]] = IF aside[u] = o THEN p ELSE home[aside[u]]
        BY <1>5, <4>1, <4>2 DEF Referred
      <4> QED BY <1>3, <3>2, <4>1, <4>3
    <3> QED BY <3>1, <3>2
  <2> QED BY <2>1, <2>2, <2>3 DEF HomesOf
<1>10. ArmedThaws' BY <1>2 DEF VInv, ArmedThaws
<1>11. ASSUME p \in Viewer PROVE ViewHolds(t)' /\ ViewLocks(t)'
  <2>1. ViewHolds(t)' BY <1>3, <1>4 DEF ViewHolds, ViewPc, InFlight
  <2>2. resident[p] \notin armed
    BY <1>0, <1>11, RefFacts DEF At, ViewHolds, InFlight, Thawed, VInv, ArmedThaws, TypeOK
  <2>3. lock' = p => lock = p BY <1>0, <1>2, ThreadsAssumption
  <2>4. ViewLocks(t)' BY <1>0, <1>4, <1>11, <2>2, <2>3 DEF At, ViewLocks
  <2> QED BY <2>1, <2>4
<1>12. \A u \in Thread : Owner[u] = p /\ p \in Viewer => u = t BY ThreadsAssumption
<1> QED BY <1>0, <1>8, <1>9, <1>10, <1>11, <1>12, ApartKeeps

LEMMA ViewCrash ==
    ASSUME VInv, TInv', NEW p \in Proc, Crash(p)
    PROVE  VInv'
<1>0. TypeOK /\ 0 \notin Session BY RefFacts DEF VInv, TInv
<1>1. /\ alive' = alive \ {p} /\ lock' = lock
      /\ resident'[p] = 0 /\ \A q \in Proc : q # p => resident'[q] = resident[q]
  BY <1>0 DEF Crash, TypeOK
<1>2. /\ \A u \in Thread : Owner[u] = p => pc'[u] = "idle" /\ held'[u] = 0 /\ aside'[u] = 0
      /\ \A u \in Thread : Owner[u] # p =>
            /\ pc'[u] = pc[u] /\ held'[u] = held[u] /\ aside'[u] = aside[u]
            /\ u \in leased' <=> u \in leased
  BY DEF Crash
<1>3. \A o \in Session : home[o] # p =>
        home'[o] = home[o] /\ (o \in armed' <=> o \in armed) /\ (o \in frozen' <=> o \in frozen)
  BY DEF Crash
<1>4. Apart(p) BY <1>1, <1>2, <1>3 DEF Apart
<1>5. HomesOf(p)' BY <1>1, <1>2 DEF HomesOf
<1>6. ArmedThaws' BY DEF Crash, VInv, ArmedThaws
<1>7. ASSUME NEW t \in Thread, Owner[t] = p PROVE ViewHolds(t)' /\ ViewLocks(t)'
  BY <1>1, <1>2, <1>7 DEF ViewHolds, ViewLocks, ViewPc, InFlight
<1> QED BY <1>4, <1>5, <1>6, <1>7, ApartKeeps

LEMMA NextVInv == VInv /\ [Next]_vars => VInv'
<1> SUFFICES ASSUME VInv, [Next]_vars PROVE VInv' OBVIOUS
<1>0. TInv' BY NextTInv DEF VInv
<1>1. ASSUME NEW t \in Thread, Request(t) PROVE VInv'
  BY <1>0, <1>1, ViewReap, ViewDropEvicted, ViewTouch, ViewAdmit, ViewFly, ViewRecheck,
     ViewLockRead, ViewLockWrite, ViewOpen, ViewStamp, ViewArm, ViewInstall, ViewAttach,
     ViewPublishCheck, ViewPublishWrite, ViewCheck, ViewPoisonRelease, ViewPoisonRemove,
     ViewPoisonDrop, ViewAdvance, ViewFinish
     DEF Request
<1>2. ASSUME NEW t \in Thread, View(t) PROVE VInv'
  BY <1>0, <1>2, ViewEnter, ViewPoll, ViewSwitch, ViewForget DEF View
<1>3. ASSUME NEW p \in Proc, Crash(p) PROVE VInv' BY <1>0, <1>3, ViewCrash
<1>4. CASE UNCHANGED vars
  <2>1. Homes' /\ ArmedThaws' BY <1>4 DEF vars, sessions, threads, VInv, Homes, ArmedThaws
  <2>2. \A t \in Thread : Owner[t] \in Viewer => ViewHolds(t)' /\ ViewLocks(t)'
    BY <1>4 DEF vars, sessions, threads, VInv, ViewHolds, ViewLocks, Thawed
  <2> QED BY <1>0, <2>1, <2>2 DEF VInv
<1> QED BY <1>1, <1>2, <1>3, <1>4 DEF Next

\* The TUI never advances a frozen session: the one on screen follows its transcript,
\* whatever servers and other TUIs do to theirs (mod.rs:366-370).
THEOREM ScreenFollows == Spec => []ViewFollows
<1>1. VInv => ViewFollows BY DEF VInv, ViewFollows, ViewHolds
<1> QED BY <1>1, InitVInv, NextVInv, PTL DEF Spec

\* A TUI that is not on a session and not entering it does not hold its LOCK, so that a
\* second terminal can open it (app.rs:579-582); failed opens and failed reopenings of the
\* record stream hand it back too.
THEOREM LeftIsUnlocked == Spec => []NotLockedWhenLeft
<1>1. VInv => NotLockedWhenLeft
  <2> SUFFICES ASSUME VInv, NEW t \in Thread, At(t, "idle"), Owner[t] \in Viewer,
                      ~Thawed(Owner[t])
               PROVE  lock # Owner[t]
    BY DEF NotLockedWhenLeft
  <2>1. resident[Owner[t]] \notin armed
    BY RefFacts DEF Thawed, VInv, ArmedThaws, TInv, TypeOK
  <2> QED BY <2>1 DEF VInv, ViewLocks, At
<1> QED BY <1>1, InitVInv, NextVInv, PTL DEF Spec

-----------------------------------------------------------------------------
(* The owner.                                                              *)

\* p1 is a server that keeps its session, and if it may die there is one other process.
Settled ==
    /\ p1 \in Proc \ Viewer /\ MaxSessions >= 1
    /\ MaxPanics = 0 /\ MaxReaps = 0
    /\ MaxCrashes = 0 \/ (Proc = {p1, p2} /\ p1 # p2)

\* Only a thread on its way to attach has a writer in hand.
Kept ==
    /\ reaps = 0 /\ crashes \in Nat
    /\ \A t \in Thread : /\ pc[t] # "evicted"
                         /\ t \in leased => pc[t] \in {"install", "attach"}

\* The owner is alive: it has the only writer and the LOCK, and the others get no
\* further than to read it.
OwnerLives ==
    /\ p1 \in alive /\ lock = p1 /\ resident[p1] = 1 /\ armed = {1} /\ 1 \notin frozen
    /\ \A p \in Proc : p # p1 => resident[p] = 0
    /\ \A t \in Thread : Owner[t] # p1 =>
          /\ held[t] = 0
          /\ pc[t] \in {"idle", "touch", "admit", "flight", "recheck", "lock read"}

\* The owner has died: the one process that is left may become the owner.
OwnerGone ==
    /\ p1 \notin alive /\ MaxCrashes # 0
    /\ \A o \in Session : home[o] # p1
    /\ \A o \in armed : lock = p2 /\ resident[p2] = o
    /\ \A t \in Thread : /\ Owner[t] = p1 => pc[t] = "idle"
                         /\ pc[t] \in {"open", "stamp", "arm"} \/ t \in leased => lock = p2

OInv == IInv /\ VInv /\ Kept /\ (OwnerLives \/ OwnerGone)

-----------------------------------------------------------------------------
(* Who can take a step.                                                    *)

\* Session 1 is a session, and it is the owner's.
LEMMA OwnersSession ==
    ASSUME Settled, OInv, OwnerLives
    PROVE  1 \in Session /\ home[1] = p1 /\ Thawed(p1)
<1>1. MaxSessions \in Nat BY BoundsAssumption
<1>2. 1 \in Session BY <1>1 DEF Settled, Session
<1>3. 1 # 0 /\ resident[p1] = 1
  <2>1. resident[p1] = 1 BY DEF OwnerLives
  <2> QED BY <2>1
<1>4. home[1] = p1
  <2>1. p1 \in Proc BY DEF Settled
  <2> QED BY <1>3, <2>1 DEF OInv, IInv, Residents
<1> QED BY <1>2, <1>3, <1>4 DEF OwnerLives, Thawed

\* While the owner lives its own threads find it, and stop short of the LOCK; the
\* others find nothing, and the LOCK taken.  When it is gone every thread is of p2.
LEMMA WhoSteps ==
    ASSUME Settled, OInv, NEW t \in Thread, Owner[t] \in alive
    PROVE  /\ Owner[t] \in Proc /\ TypeOK /\ Kept /\ Holding(t)
           /\ OwnerLives /\ Owner[t] = p1 =>
                 pc[t] \notin {"lock read", "lock write", "open", "stamp", "arm", "install"}
           /\ OwnerLives /\ Owner[t] # p1 =>
                 /\ resident[Owner[t]] = 0 /\ ~Thawed(Owner[t]) /\ Held(Owner[t]) /\ held[t] = 0
                 /\ pc[t] \in {"idle", "touch", "admit", "flight", "recheck", "lock read"}
           /\ OwnerGone => Owner[t] = p2 /\ ~Held(p2) /\ Proc = {p1, p2}
<1>1. Owner[t] \in Proc /\ TypeOK /\ Kept /\ Holding(t)
  BY ThreadsAssumption DEF OInv, IInv, TInv, Shape
<1>2. OwnerLives /\ Owner[t] = p1 =>
        pc[t] \notin {"lock read", "lock write", "open", "stamp", "arm", "install"}
  BY <1>1, OwnersSession DEF Holding, InFlight
<1>3. OwnerLives /\ Owner[t] # p1 =>
        /\ resident[Owner[t]] = 0 /\ ~Thawed(Owner[t]) /\ Held(Owner[t]) /\ held[t] = 0
        /\ pc[t] \in {"idle", "touch", "admit", "flight", "recheck", "lock read"}
  BY <1>1 DEF OwnerLives, Thawed, Held
<1>4. OwnerGone => Proc = {p1, p2} BY DEF OwnerGone, Settled
<1>5. OwnerGone => Owner[t] = p2 /\ ~Held(p2)
  BY <1>1, <1>4, ThreadsAssumption DEF OwnerGone, Held, TypeOK
<1> QED BY <1>1, <1>2, <1>3, <1>4, <1>5

\* The flight is one: when a thread of p2 is in it, no other thread has the LOCK in hand.
LEMMA OnlyFlier ==
    ASSUME Settled, OInv, OwnerGone, NEW t \in Thread, Owner[t] \in alive, pc[t] \in InFlight,
           NEW u \in Thread, u # t
    PROVE  pc[u] \notin {"open", "stamp", "arm"} /\ u \notin leased
<1>1. Owner[t] = p2 /\ Proc = {p1, p2} /\ Kept BY WhoSteps
<1>2. Owner[u] \in Proc BY ThreadsAssumption
<1>3. CASE Owner[u] = p1 BY <1>1, <1>3 DEF OwnerGone, Kept
<1>4. CASE Owner[u] = p2
  <2>1. pc[u] \notin InFlight BY <1>1, <1>4 DEF OInv, IInv, TInv, OneFlight
  <2> QED BY <1>1, <2>1 DEF InFlight, Kept
<1> QED BY <1>1, <1>2, <1>3, <1>4

\* ... and no session writes unless the flight is at its two ends.
LEMMA NoneArmed ==
    ASSUME Settled, OInv, OwnerGone, ~Thawed(p2)
    PROVE  armed = {}
BY RefFacts DEF OwnerGone, OInv, VInv, ArmedThaws, IInv, TInv, TypeOK, Thawed

-----------------------------------------------------------------------------
(* Frames.                                                                 *)

Phase == Kept /\ (OwnerLives \/ OwnerGone)

\* Of the other threads nothing changes.
Solo(t) ==
    /\ alive' = alive /\ reaps' = reaps /\ crashes' = crashes
    /\ \A u \in Thread : u # t =>
          pc'[u] = pc[u] /\ held'[u] = held[u] /\ (u \in leased' <=> u \in leased)

LEMMA SoloKept ==
    ASSUME Kept, NEW t \in Thread, Solo(t), pc'[t] # "evicted",
           t \in leased' => pc'[t] \in {"install", "attach"}
    PROVE  Kept'
BY DEF Kept, Solo

\* The thread goes on, and may take the LOCK file.
LEMMA PlainPhase ==
    ASSUME Settled, OInv, NEW t \in Thread, Owner[t] \in alive, Solo(t),
           UNCHANGED <<resident, home, armed>>, frozen' \subseteq frozen,
           lock' \in {lock, Owner[t]}, pc'[t] # "evicted",
           t \in leased' => pc'[t] \in {"install", "attach"},
           OwnerLives /\ Owner[t] # p1 =>
              /\ lock' = lock /\ held'[t] = 0
              /\ pc'[t] \in {"idle", "touch", "admit", "flight", "recheck", "lock read"},
           OwnerGone /\ (pc'[t] \in {"open", "stamp", "arm"} \/ t \in leased') => lock' = p2
    PROVE  Phase'
<1>1. Kept' BY SoloKept DEF OInv
<1>2. CASE OwnerLives
  <2>1. lock' = p1 BY <1>2 DEF OwnerLives
  <2>2. p1 \in alive' /\ 1 \notin frozen' /\ resident' = resident /\ armed' = armed
    BY <1>2 DEF OwnerLives, Solo
  <2>3. \A u \in Thread : Owner[u] # p1 =>
          /\ held'[u] = 0
          /\ pc'[u] \in {"idle", "touch", "admit", "flight", "recheck", "lock read"}
    BY <1>2 DEF OwnerLives, Solo
  <2>4. OwnerLives' BY <1>2, <2>1, <2>2, <2>3 DEF OwnerLives
  <2> QED BY <1>1, <2>4 DEF Phase
<1>3. CASE OwnerGone
  <2>1. Owner[t] = p2 /\ Proc = {p1, p2} /\ p1 # p2 BY <1>3, WhoSteps DEF Settled, OwnerGone
  <2>2. OwnerGone' BY <1>3, <2>1 DEF OwnerGone, Solo
  <2> QED BY <1>1, <2>2 DEF Phase
<1> QED BY <1>2, <1>3 DEF OInv

\* References go: the owner's session stays, it is resident.
LEMMA LeavePhase ==
    ASSUME Settled, OInv, NEW t \in Thread, Owner[t] \in alive, NEW lk \in {lock, Nobody},
           Leave(t, lk), UNCHANGED <<alive, reaps, crashes>>,
           OwnerLives => lk = lock,
           OwnerGone /\ lk # lock => pc[t] \in InFlight /\ armed = {}
    PROVE  Phase'
<1>0. TypeOK /\ Kept /\ Owner[t] \in Proc BY WhoSteps
<1>1. /\ Settle(lk, resident, home, [held EXCEPT ![t] = 0], [aside EXCEPT ![t] = 0])
      /\ pc' = [pc EXCEPT ![t] = "idle"] /\ leased' = leased \ {t}
  BY DEF Leave, Goto
<1>2. /\ Solo(t) /\ pc'[t] = "idle" /\ held'[t] = 0 /\ t \notin leased'
  BY <1>0, <1>1 DEF Solo, Settle, TypeOK
<1>3. Kept' BY <1>0, <1>2, SoloKept
<1>4. /\ resident' = resident /\ armed' \subseteq armed /\ frozen' \subseteq frozen
      /\ \A o \in Session : home'[o] \in {home[o], Nobody}
  BY <1>1 DEF Settle
<1>5. \A o \in armed : \E p \in Proc : resident[p] = o
  BY <1>0 DEF OInv, OwnerLives, OwnerGone, Settled
<1>6. armed' = armed /\ lock' = lk
  BY <1>0, <1>1, <1>5 DEF Settle, Refs, TypeOK
<1>7. CASE OwnerLives
  <2>1. OwnerLives' BY <1>2, <1>4, <1>6, <1>7 DEF OwnerLives, Solo
  <2> QED BY <1>3, <2>1 DEF Phase
<1>8. CASE OwnerGone
  <2>1. \A o \in Session : home'[o] # p1 BY <1>4, <1>8, ThreadsAssumption DEF OwnerGone, Settled
  <2>2. CASE lk = lock
    <3>1. OwnerGone' BY <1>2, <1>4, <1>6, <1>8, <2>1, <2>2 DEF OwnerGone, Solo
    <3> QED BY <1>3, <3>1 DEF Phase
  <2>3. CASE lk # lock
    <3>1. \A u \in Thread : pc'[u] \notin {"open", "stamp", "arm"} /\ u \notin leased'
      BY <1>2, <1>8, <2>3, OnlyFlier DEF Solo
    <3>2. OwnerGone' BY <1>2, <1>4, <1>6, <1>8, <2>1, <2>3, <3>1 DEF OwnerGone, Solo
    <3> QED BY <1>3, <3>2 DEF Phase
  <2> QED BY <2>2, <2>3
<1> QED BY <1>7, <1>8 DEF OInv
-----------------------------------------------------------------------------
(* Each step.                                                              *)

\* A step that changes no session and not the LOCK file, and leaves the thread no
\* nearer to it.
LEMMA QuietPhase ==
    ASSUME Settled, OInv, NEW t \in Thread, Owner[t] \in alive,
           UNCHANGED <<alive, lock, resident, home, armed, frozen, leased, reaps, crashes>>,
           NEW place, pc' = [pc EXCEPT ![t] = place], NEW o, held' = [held EXCEPT ![t] = o],
           pc[t] \notin {"install", "attach"},
           place \notin {"evicted", "open", "stamp", "arm"},
           OwnerLives /\ Owner[t] # p1 =>
              o = 0 /\ place \in {"idle", "touch", "admit", "flight", "recheck", "lock read"}
    PROVE  Phase'
<1>0. TypeOK /\ Kept BY WhoSteps
<1>1. Solo(t) /\ pc'[t] = place /\ held'[t] = o BY <1>0 DEF Solo, TypeOK
<1>2. t \notin leased' BY <1>0 DEF Kept
<1> QED BY <1>1, <1>2, PlainPhase

LEMMA KeepPhase ==
    ASSUME Settled, OInv, NEW t \in Thread, Owner[t] \in alive,
           UNCHANGED <<alive, lock, resident, home, armed, frozen, leased, held, reaps, crashes>>,
           NEW place, pc' = [pc EXCEPT ![t] = place],
           pc[t] \notin {"install", "attach"},
           place \notin {"evicted", "open", "stamp", "arm"},
           OwnerLives /\ Owner[t] # p1 =>
              place \in {"idle", "touch", "admit", "flight", "recheck", "lock read"}
    PROVE  Phase'
<1>0. TypeOK /\ (OwnerLives /\ Owner[t] # p1 => held[t] = 0) BY WhoSteps
<1>1. PICK o : o = held[t] OBVIOUS
<1>2. held' = [held EXCEPT ![t] = o] BY <1>0, <1>1 DEF TypeOK
<1>3. UNCHANGED <<alive, lock, resident, home, armed, frozen, leased, reaps, crashes>> OBVIOUS
<1>4. OwnerLives /\ Owner[t] # p1 =>
        o = 0 /\ place \in {"idle", "touch", "admit", "flight", "recheck", "lock read"}
  BY <1>0, <1>1
<1> QED BY <1>2, <1>3, <1>4, QuietPhase

LEMMA OwnReap == ASSUME Settled, OInv, NEW t \in Thread, Reap(t) PROVE Phase'
<1>0. Owner[t] \in alive /\ pc[t] = "idle" BY DEF Reap, At
<1>1. TypeOK /\ Kept BY <1>0, WhoSteps
<1>2. reaps = 0 /\ MaxReaps = 0 BY <1>1 DEF Kept, Settled
<1>3. ~(reaps < MaxReaps) BY <1>2
<1>4. /\ UNCHANGED <<alive, lock, resident, home, armed, frozen, leased, reaps, crashes>>
      /\ pc' = [pc EXCEPT ![t] = "touch"] /\ held' = held
  BY <1>3 DEF Reap, Goto, sessions
<1> QED BY <1>0, <1>4, KeepPhase

LEMMA OwnTouch == ASSUME Settled, OInv, NEW t \in Thread, Touch(t) PROVE Phase'
<1> DEFINE o == resident[Owner[t]]
<1>0. Owner[t] \in alive /\ pc[t] = "touch" BY DEF Touch, At
<1>1. PICK place : place = IF o # 0 THEN "check" ELSE "admit" OBVIOUS
<1>2. /\ UNCHANGED <<alive, lock, resident, home, armed, frozen, leased, reaps, crashes>>
      /\ pc' = [pc EXCEPT ![t] = place] /\ held' = [held EXCEPT ![t] = o]
  BY <1>1 DEF Touch, Goto, sessions, counts
<1>3. OwnerLives /\ Owner[t] # p1 => o = 0 /\ place = "admit" BY <1>0, <1>1, WhoSteps
<1>4. place \in {"check", "admit"} BY <1>1
<1> QED BY <1>0, <1>2, <1>3, <1>4, QuietPhase

LEMMA OwnAdmit == ASSUME Settled, OInv, NEW t \in Thread, Admit(t) PROVE Phase'
<1>0. Owner[t] \in alive /\ pc[t] = "admit" BY DEF Admit, At
<1>1. TypeOK /\ (OwnerLives /\ Owner[t] # p1 => ~Thawed(Owner[t]) /\ held[t] = 0)
  BY <1>0, WhoSteps
<1>2. UNCHANGED <<alive, lock, resident, home, armed, frozen, leased, reaps, crashes>>
  BY DEF Admit, sessions, counts
<1>3. CASE Thawed(Owner[t])
  <2>1. PICK place : place = Admitted(t) OBVIOUS
  <2>2. place \in {"advance", "publish"} BY <2>1 DEF Admitted
  <2>3. pc' = [pc EXCEPT ![t] = place] /\ held' = [held EXCEPT ![t] = resident[Owner[t]]]
    BY <1>3, <2>1 DEF Admit, Goto
  <2> QED BY <1>0, <1>1, <1>2, <1>3, <2>2, <2>3, QuietPhase
<1>4. CASE ~Thawed(Owner[t])
  <2>1. pc' = [pc EXCEPT ![t] = "flight"] /\ held' = held
    BY <1>1, <1>4 DEF Admit, Goto, TypeOK
  <2> QED BY <1>0, <1>2, <2>1, KeepPhase
<1> QED BY <1>3, <1>4

LEMMA OwnFly == ASSUME Settled, OInv, NEW t \in Thread, Fly(t) PROVE Phase'
<1>0. Owner[t] \in alive /\ pc[t] = "flight" BY DEF Fly, At
<1>1. TypeOK /\ (OwnerLives /\ Owner[t] # p1 => held[t] = 0) BY <1>0, WhoSteps
<1>2. /\ UNCHANGED <<alive, lock, resident, home, armed, frozen, leased, reaps, crashes>>
      /\ pc' = [pc EXCEPT ![t] = "recheck"] /\ held' = held
  BY <1>1 DEF Fly, Goto, sessions, counts, TypeOK
<1> QED BY <1>0, <1>2, KeepPhase

LEMMA OwnRecheck == ASSUME Settled, OInv, NEW t \in Thread, Recheck(t) PROVE Phase'
<1>0. Owner[t] \in alive /\ pc[t] = "recheck" BY DEF Recheck, At
<1>1. TypeOK /\ (OwnerLives /\ Owner[t] # p1 => ~Thawed(Owner[t]) /\ held[t] = 0)
  BY <1>0, WhoSteps
<1>2. UNCHANGED <<alive, lock, resident, home, armed, frozen, leased, reaps, crashes>>
  BY DEF Recheck, sessions, counts
<1>3. CASE Thawed(Owner[t])
  <2>1. PICK place : place = Admitted(t) OBVIOUS
  <2>2. place \in {"advance", "publish"} BY <2>1 DEF Admitted
  <2>3. pc' = [pc EXCEPT ![t] = place] /\ held' = [held EXCEPT ![t] = resident[Owner[t]]]
    BY <1>3, <2>1 DEF Recheck, Goto
  <2> QED BY <1>0, <1>1, <1>2, <1>3, <2>2, <2>3, QuietPhase
<1>4. CASE ~Thawed(Owner[t])
  <2>1. pc' = [pc EXCEPT ![t] = "lock read"] /\ held' = held
    BY <1>1, <1>4 DEF Recheck, Goto, TypeOK
  <2> QED BY <1>0, <1>2, <2>1, KeepPhase
<1> QED BY <1>3, <1>4

LEMMA OwnLockRead == ASSUME Settled, OInv, NEW t \in Thread, LockRead(t) PROVE Phase'
<1>0. Owner[t] \in alive /\ pc[t] = "lock read" /\ UNCHANGED <<alive, reaps, crashes>>
  BY DEF LockRead, At, counts
<1>1. TypeOK BY <1>0, WhoSteps
<1>2. CASE Held(Owner[t])
  BY <1>0, <1>2, LeavePhase DEF LockRead
<1>3. CASE ~Held(Owner[t])
  <2>1. ~OwnerLives BY <1>0, <1>3, WhoSteps
  <2>2. /\ UNCHANGED <<lock, resident, home, armed, frozen, leased>>
        /\ pc' = [pc EXCEPT ![t] = "lock write"] /\ held' = held
    BY <1>1, <1>3 DEF LockRead, Goto, sessions, TypeOK
  <2> QED BY <1>0, <2>1, <2>2, KeepPhase
<1> QED BY <1>2, <1>3

LEMMA OwnLockWrite == ASSUME Settled, OInv, NEW t \in Thread, LockWrite(t) PROVE Phase'
<1>0. Owner[t] \in alive /\ pc[t] = "lock write" BY DEF LockWrite, At
<1>1. TypeOK /\ Kept /\ ~OwnerLives /\ (OwnerGone => Owner[t] = p2) BY <1>0, WhoSteps
<1>2. /\ UNCHANGED <<alive, resident, home, armed, frozen, leased, held, reaps, crashes>>
      /\ pc' = [pc EXCEPT ![t] = "open"] /\ lock' = Owner[t]
  BY DEF LockWrite, Goto, sessions, counts
<1>3. Solo(t) /\ pc'[t] = "open" /\ t \notin leased' BY <1>0, <1>1, <1>2 DEF Solo, TypeOK, Kept
<1> QED BY <1>0, <1>1, <1>2, <1>3, PlainPhase

LEMMA OwnStamp == ASSUME Settled, OInv, NEW t \in Thread, Stamp(t) PROVE Phase'
<1>0. Owner[t] \in alive /\ pc[t] = "stamp" BY DEF Stamp, At
<1>1. TypeOK /\ Kept /\ ~OwnerLives /\ (OwnerGone => Owner[t] = p2) BY <1>0, WhoSteps
<1>2. /\ UNCHANGED <<alive, resident, home, armed, frozen, leased, held, reaps, crashes>>
      /\ pc' = [pc EXCEPT ![t] = "arm"] /\ lock' \in {lock, Owner[t]}
  BY DEF Stamp, Goto, sessions, counts
<1>3. Solo(t) /\ pc'[t] = "arm" /\ t \notin leased' BY <1>0, <1>1, <1>2 DEF Solo, TypeOK, Kept
<1>4. OwnerGone => lock' = p2 BY <1>0, <1>1, <1>2 DEF OwnerGone
<1> QED BY <1>0, <1>1, <1>2, <1>3, <1>4, PlainPhase

LEMMA OwnOpen == ASSUME Settled, OInv, NEW t \in Thread, Open(t) PROVE Phase'
<1>0. Owner[t] \in alive /\ pc[t] = "open" /\ UNCHANGED <<alive, reaps, crashes>>
  BY DEF Open, At
<1>1. TypeOK /\ Kept /\ Holding(t) /\ ~OwnerLives /\ (OwnerGone => Owner[t] = p2)
  BY <1>0, WhoSteps
<1>2. CASE Leave(t, Unlock(lock, Owner[t]))
  <2>1. PICK lk \in {lock, Nobody} : lk = Unlock(lock, Owner[t]) BY DEF Unlock
  <2>2. ~Thawed(Owner[t]) /\ pc[t] \in InFlight BY <1>0, <1>1 DEF Holding, InFlight
  <2>3. OwnerGone => armed = {} BY <1>1, <2>2, NoneArmed
  <2> QED BY <1>0, <1>1, <1>2, <2>1, <2>2, <2>3, LeavePhase
<1>3. CASE /\ held' \in {held, [held EXCEPT ![t] = aside[t]]}
           /\ Goto(t, "stamp")
           /\ UNCHANGED <<lock, resident, sessions, leased>>
  <2>1. /\ UNCHANGED <<lock, resident, home, armed, frozen, leased>>
        /\ pc' = [pc EXCEPT ![t] = "stamp"]
    BY <1>3 DEF Goto, sessions
  <2>2. Solo(t) /\ pc'[t] = "stamp" /\ t \notin leased'
    BY <1>0, <1>1, <1>3, <2>1 DEF Solo, TypeOK, Kept
  <2>3. OwnerGone => lock' = p2 BY <1>0, <2>1 DEF OwnerGone
  <2> QED BY <1>0, <1>1, <2>1, <2>2, <2>3, PlainPhase
<1> QED BY <1>2, <1>3 DEF Open

\* The record stream may not open: then the LOCK goes, and no session was writing.
LEMMA OwnArm == ASSUME Settled, OInv, NEW t \in Thread, Arm(t) PROVE Phase'
<1>0. /\ Owner[t] \in alive /\ pc[t] = "arm"
      /\ UNCHANGED <<alive, resident, home, armed, frozen, held, reaps, crashes>>
  BY DEF Arm, At, sessions
<1>1. TypeOK /\ Kept /\ Holding(t) /\ ~OwnerLives /\ (OwnerGone => Owner[t] = p2)
  BY <1>0, WhoSteps
<1>2. pc'[t] \in {"attach", "install"} /\ \A u \in Thread : u # t => pc'[u] = pc[u]
  BY <1>1 DEF Arm, Goto, TypeOK
<1>3. CASE leased' = leased \cup {t} /\ lock' = lock
  <2>1. Solo(t) BY <1>0, <1>2, <1>3 DEF Solo
  <2>2. OwnerGone => lock' = p2 BY <1>0, <1>3 DEF OwnerGone
  <2> QED BY <1>0, <1>1, <1>2, <1>3, <2>1, <2>2, PlainPhase
<1>4. CASE leased' = leased /\ lock' = Unlock(lock, Owner[t])
  <2>1. Solo(t) BY <1>0, <1>2, <1>4 DEF Solo
  <2>2. t \notin leased BY <1>0, <1>1 DEF Kept
  <2>3. Kept' BY <1>1, <1>2, <1>4, <2>1, <2>2, SoloKept
  <2>4. OwnerGone BY <1>1 DEF OInv
  <2>5. ~Thawed(p2) /\ pc[t] \in InFlight /\ Owner[t] = p2
    BY <1>0, <1>1, <2>4 DEF Holding, InFlight
  <2>6. armed = {} BY <2>4, <2>5, NoneArmed
  <2>7. \A u \in Thread : pc'[u] \notin {"open", "stamp", "arm"} /\ u \notin leased'
    BY <1>0, <1>2, <1>4, <2>2, <2>4, <2>5, OnlyFlier
  <2>8. \A u \in Thread : Owner[u] = p1 => pc'[u] = "idle"
    BY <1>2, <2>4, <2>5 DEF OwnerGone, Settled
  <2>9. OwnerGone' BY <1>0, <2>4, <2>6, <2>7, <2>8 DEF OwnerGone
  <2> QED BY <2>3, <2>9 DEF Phase
<1> QED BY <1>3, <1>4 DEF Arm

LEMMA OwnInstall == ASSUME Settled, OInv, NEW t \in Thread, Install(t) PROVE Phase'
<1>0. /\ Owner[t] \in alive /\ pc[t] = "install"
      /\ UNCHANGED <<alive, leased, reaps, crashes>> /\ pc' = [pc EXCEPT ![t] = "attach"]
  BY DEF Install, At, counts, Goto
<1>1. TypeOK /\ Kept /\ Holding(t) /\ ~OwnerLives BY <1>0, WhoSteps
<1>2. OwnerGone BY <1>1 DEF OInv
<1>3. Owner[t] = p2 /\ Proc = {p1, p2} /\ p1 # p2 BY <1>0, <1>2, WhoSteps DEF Settled, OwnerGone
<1>4. armed = {} BY <1>0, <1>1, <1>2, <1>3, NoneArmed DEF Holding, InFlight
<1>5. PICK o \in Session :
        Settle(lock, [resident EXCEPT ![p2] = o], [home EXCEPT ![o] = p2],
               [held EXCEPT ![t] = o], [aside EXCEPT ![t] = 0])
  BY <1>3 DEF Install
<1>6. /\ armed' = {} /\ lock' = lock /\ held' = [held EXCEPT ![t] = o]
      /\ \A x \in Session : home'[x] \in {[home EXCEPT ![o] = p2][x], Nobody}
  BY <1>4, <1>5 DEF Settle
<1>7. \A x \in Session : home'[x] # p1
  BY <1>1, <1>2, <1>3, <1>6, ThreadsAssumption DEF OwnerGone, TypeOK
<1>8. Solo(t) /\ pc'[t] = "attach" BY <1>0, <1>1, <1>6 DEF Solo, TypeOK
<1>9. Kept' BY <1>1, <1>8, SoloKept
<1>10. OwnerGone'
  BY <1>0, <1>2, <1>3, <1>6, <1>7, <1>8 DEF OwnerGone, Solo
<1> QED BY <1>9, <1>10 DEF Phase

LEMMA OwnAttach == ASSUME Settled, OInv, NEW t \in Thread, Attach(t) PROVE Phase'
<1>0. /\ Owner[t] \in alive /\ pc[t] = "attach"
      /\ UNCHANGED <<lock, alive, resident, home, held, reaps, crashes>>
      /\ armed' = (IF t \in leased THEN armed \cup {held[t]} ELSE armed)
      /\ frozen' \subseteq frozen /\ leased' = leased \ {t}
  BY DEF Attach, At, counts
<1>1. TypeOK /\ Kept /\ Holding(t) BY <1>0, WhoSteps
<1>2. /\ pc'[t] \in {"advance", "publish"} /\ \A u \in Thread : u # t => pc'[u] = pc[u]
      /\ held[t] = resident[Owner[t]]
  BY <1>0, <1>1 DEF Attach, Goto, Admitted, TypeOK, Holding
<1>3. Solo(t) BY <1>0, <1>2 DEF Solo
<1>4. Kept' BY <1>0, <1>1, <1>2, <1>3, SoloKept
<1>5. CASE OwnerLives
  <2>1. Owner[t] = p1 BY <1>0, <1>5, WhoSteps
  <2>2. armed' = {1} BY <1>0, <1>2, <1>5, <2>1 DEF OwnerLives
  <2>3. \A u \in Thread : Owner[u] # p1 => pc'[u] = pc[u] BY <1>2, <2>1
  <2>4. OwnerLives' BY <1>0, <1>5, <2>2, <2>3 DEF OwnerLives
  <2> QED BY <1>4, <2>4 DEF Phase
<1>6. CASE OwnerGone
  <2>1. Owner[t] = p2 /\ p1 # p2 BY <1>0, <1>6, WhoSteps DEF Settled, OwnerGone
  <2>2. \A o \in armed' : lock' = p2 /\ resident'[p2] = o
    BY <1>0, <1>2, <1>6, <2>1 DEF OwnerGone
  <2>3. OwnerGone' BY <1>0, <1>2, <1>6, <2>1, <2>2 DEF OwnerGone
  <2> QED BY <1>4, <2>3 DEF Phase
<1> QED BY <1>5, <1>6 DEF OInv

LEMMA OwnPublishCheck == ASSUME Settled, OInv, NEW t \in Thread, PublishCheck(t) PROVE Phase'
<1>0. Owner[t] \in alive /\ pc[t] = "publish" BY DEF PublishCheck, At
<1>1. ~(OwnerLives /\ Owner[t] # p1) BY <1>0, WhoSteps
<1>2. PICK place \in {"publish write", "check"} :
        place = IF lock = Owner[t] THEN "publish write" ELSE "check"
  OBVIOUS
<1>3. /\ UNCHANGED <<alive, lock, resident, home, armed, frozen, leased, held, reaps, crashes>>
      /\ pc' = [pc EXCEPT ![t] = place]
  BY <1>2 DEF PublishCheck, Goto, sessions, counts
<1> QED BY <1>0, <1>1, <1>3, KeepPhase

LEMMA OwnPublishWrite == ASSUME Settled, OInv, NEW t \in Thread, PublishWrite(t) PROVE Phase'
<1>0. Owner[t] \in alive /\ pc[t] = "publish write" BY DEF PublishWrite, At
<1>1. TypeOK /\ Kept /\ ~(OwnerLives /\ Owner[t] # p1) /\ (OwnerGone => Owner[t] = p2)
  BY <1>0, WhoSteps
<1>2. /\ UNCHANGED <<alive, resident, home, armed, frozen, leased, held, reaps, crashes>>
      /\ pc' = [pc EXCEPT ![t] = "check"] /\ lock' = Owner[t]
  BY DEF PublishWrite, Goto, sessions, counts
<1>3. Solo(t) /\ pc'[t] = "check" /\ t \notin leased' BY <1>0, <1>1, <1>2 DEF Solo, TypeOK, Kept
<1> QED BY <1>0, <1>1, <1>2, <1>3, PlainPhase

LEMMA OwnCheck == ASSUME Settled, OInv, NEW t \in Thread, Check(t) PROVE Phase'
<1>0. Owner[t] \in alive /\ pc[t] = "check" BY DEF Check, At
<1>1. ~(OwnerLives /\ Owner[t] # p1) BY <1>0, WhoSteps
<1>2. PICK place \in {"release", "advance"} :
        place = IF held[t] \in poisoned /\ t \notin again THEN "release" ELSE "advance"
  OBVIOUS
<1>3. /\ UNCHANGED <<alive, lock, resident, home, armed, frozen, leased, held, reaps, crashes>>
      /\ pc' = [pc EXCEPT ![t] = place]
  BY <1>2 DEF Check, Goto, sessions, counts
<1> QED BY <1>0, <1>1, <1>3, KeepPhase

LEMMA OwnAdvance == ASSUME Settled, OInv, NEW t \in Thread, Advance(t) PROVE Phase'
<1>0. Owner[t] \in alive /\ pc[t] = "advance" BY DEF Advance, At
<1>1. ~(OwnerLives /\ Owner[t] # p1) BY <1>0, WhoSteps
<1>2. PICK place \in {"serve", "unwind"} : pc' = [pc EXCEPT ![t] = place] BY DEF Advance, Goto
<1>3. UNCHANGED <<alive, lock, resident, home, armed, frozen, leased, held, reaps, crashes>>
  BY DEF Advance
<1> QED BY <1>0, <1>1, <1>2, <1>3, KeepPhase

LEMMA OwnFinish == ASSUME Settled, OInv, NEW t \in Thread, Finish(t) PROVE Phase'
<1>0. Owner[t] \in alive /\ Leave(t, lock) /\ UNCHANGED <<alive, reaps, crashes>>
  BY DEF Finish, At, counts
<1> QED BY <1>0, LeavePhase

LEMMA OwnEnter == ASSUME Settled, OInv, NEW t \in Thread, Enter(t) PROVE Phase'
<1>0. Owner[t] \in alive /\ pc[t] = "idle" BY DEF Enter, At
<1>1. /\ UNCHANGED <<alive, lock, resident, home, armed, frozen, leased, held, reaps, crashes>>
      /\ pc' = [pc EXCEPT ![t] = "admit"]
  BY DEF Enter, Goto, sessions, counts
<1> QED BY <1>0, <1>1, KeepPhase

LEMMA OwnPoll == ASSUME Settled, OInv, NEW t \in Thread, Poll(t) PROVE Phase'
<1>0. Owner[t] \in alive /\ pc[t] = "idle" BY DEF Poll, At
<1>1. ~(OwnerLives /\ Owner[t] # p1) BY <1>0, WhoSteps DEF Poll
<1>2. PICK place, o : place = "advance" /\ o = resident[Owner[t]] OBVIOUS
<1>3. /\ UNCHANGED <<alive, lock, resident, home, armed, frozen, leased, reaps, crashes>>
      /\ pc' = [pc EXCEPT ![t] = place] /\ held' = [held EXCEPT ![t] = o]
  BY <1>2 DEF Poll, Goto, sessions, counts
<1>4. pc[t] \notin {"install", "attach"} /\ place \notin {"evicted", "open", "stamp", "arm"}
  BY <1>0, <1>2
<1> QED BY <1>0, <1>1, <1>3, <1>4, QuietPhase

\* Only a viewer's one thread releases the session, and it has no LOCK in hand.
LEMMA OwnSwitch == ASSUME Settled, OInv, NEW t \in Thread, Switch(t) PROVE Phase'
<1>0. /\ Owner[t] \in alive /\ pc[t] = "idle" /\ Owner[t] \in Viewer /\ Thawed(Owner[t])
      /\ UNCHANGED <<alive, resident, home, pc, held, leased, reaps, crashes>>
      /\ armed' = armed \ {resident[Owner[t]]}
  BY DEF Switch, At, Quiesce, threads, counts
<1>1. TypeOK /\ Kept /\ ~OwnerLives BY <1>0, WhoSteps DEF Settled
<1>2. OwnerGone BY <1>1 DEF OInv
<1>3. Owner[t] = p2 /\ Proc = {p1, p2} /\ p1 # p2 BY <1>0, <1>2, WhoSteps DEF Settled, OwnerGone
<1>4. armed' = {} BY <1>0, <1>2, <1>3 DEF OwnerGone
<1>5. ASSUME NEW u \in Thread PROVE pc'[u] \notin {"open", "stamp", "arm"} /\ u \notin leased'
  <2>1. Owner[u] \in Proc BY ThreadsAssumption
  <2>2. pc[u] = "idle" BY <1>0, <1>2, <1>3, <2>1, ThreadsAssumption DEF OwnerGone
  <2> QED BY <1>0, <1>1, <2>2 DEF Kept
<1>6. Kept' BY <1>0, <1>1 DEF Kept
<1>7. OwnerGone' BY <1>0, <1>2, <1>4, <1>5 DEF OwnerGone
<1> QED BY <1>6, <1>7 DEF Phase

LEMMA OwnForget == ASSUME Settled, OInv, NEW t \in Thread, Forget(t) PROVE Phase'
<1>0. /\ Owner[t] \in alive /\ resident[Owner[t]] # 0 /\ ~Thawed(Owner[t])
      /\ Owner[t] \in Viewer /\ UNCHANGED <<alive, pc, leased, reaps, crashes>>
      /\ Settle(lock, [resident EXCEPT ![Owner[t]] = 0], home, held, aside)
  BY DEF Forget, At, counts
<1>1. TypeOK /\ Kept /\ ~OwnerLives BY <1>0, WhoSteps DEF Settled
<1>2. OwnerGone BY <1>1 DEF OInv
<1>3. Owner[t] = p2 BY <1>0, <1>2, WhoSteps
<1>4. armed = {} BY <1>0, <1>2, <1>3, NoneArmed
<1>5. /\ armed' = {} /\ lock' = lock /\ held' = held
      /\ \A x \in Session : home'[x] \in {home[x], Nobody}
  BY <1>0, <1>4 DEF Settle
<1>6. \A x \in Session : home'[x] # p1 BY <1>2, <1>5, ThreadsAssumption DEF OwnerGone, Settled
<1>7. Kept' BY <1>0, <1>1 DEF Kept
<1>8. OwnerGone' BY <1>0, <1>2, <1>5, <1>6 DEF OwnerGone
<1> QED BY <1>7, <1>8 DEF Phase

\* What a dead process had is gone; if it was the owner, there is no writer now.
LEMMA OwnCrash == ASSUME Settled, OInv, NEW p \in Proc, Crash(p) PROVE Phase'
<1>0. TypeOK /\ Kept /\ IInv BY DEF OInv, IInv, TInv
<1>1. MaxCrashes \in Nat /\ crashes \in Nat /\ crashes < MaxCrashes /\ crashes' = crashes + 1
  BY <1>0, BoundsAssumption DEF Crash, Kept
<1>2. MaxCrashes # 0 /\ crashes' \in Nat BY <1>1
<1>3. Proc = {p1, p2} /\ p1 # p2 BY <1>2 DEF Settled
<1>4. /\ p \in alive /\ alive' = alive \ {p} /\ lock' = lock /\ reaps' = reaps
      /\ resident' = [resident EXCEPT ![p] = 0]
      /\ armed' = {o \in armed : o \notin Session \/ home[o] # p} /\ frozen' \subseteq frozen
      /\ \A o \in Session : home'[o] = IF home[o] = p THEN Nobody ELSE home[o]
  BY DEF Crash
<1>5. /\ \A u \in Thread : Owner[u] = p => pc'[u] = "idle" /\ held'[u] = 0 /\ u \notin leased'
      /\ \A u \in Thread : Owner[u] # p =>
            pc'[u] = pc[u] /\ held'[u] = held[u] /\ (u \in leased' <=> u \in leased)
  BY DEF Crash
<1>6. Kept' BY <1>0, <1>2, <1>4, <1>5 DEF Kept
<1>7. CASE OwnerLives /\ p = p1
  <2>1. home[1] = p1 /\ 1 \in Session BY <1>7, OwnersSession
  <2>2. armed' = {} BY <1>4, <1>7, <2>1 DEF OwnerLives
  <2>3. \A o \in Session : home'[o] # p1 BY <1>4, <1>7, ThreadsAssumption DEF Settled
  <2>4. \A u \in Thread : pc'[u] \notin {"open", "stamp", "arm"} /\ u \notin leased'
    BY <1>0, <1>5, <1>7 DEF OwnerLives, Kept
  <2>5. p1 \notin alive' /\ \A u \in Thread : Owner[u] = p1 => pc'[u] = "idle"
    BY <1>4, <1>5, <1>7
  <2>6. OwnerGone' BY <1>2, <2>2, <2>3, <2>4, <2>5 DEF OwnerGone
  <2> QED BY <1>6, <2>6 DEF Phase
<1>8. CASE OwnerLives /\ p # p1
  <2>1. home[1] = p1 BY <1>8, OwnersSession
  <2>2. armed' = {1} BY <1>4, <1>8, <2>1 DEF OwnerLives
  <2>3. /\ resident'[p1] = 1 /\ p1 \in alive' /\ lock' = p1 /\ 1 \notin frozen'
        /\ \A q \in Proc : q # p1 => resident'[q] = 0
    BY <1>0, <1>3, <1>4, <1>8 DEF OwnerLives, TypeOK
  <2>4. \A u \in Thread : Owner[u] # p1 =>
          /\ held'[u] = 0
          /\ pc'[u] \in {"idle", "touch", "admit", "flight", "recheck", "lock read"}
    BY <1>5, <1>8 DEF OwnerLives
  <2>5. OwnerLives' BY <2>2, <2>3, <2>4 DEF OwnerLives
  <2> QED BY <1>6, <2>5 DEF Phase
<1>9. CASE OwnerGone
  <2>1. p = p2 BY <1>3, <1>4, <1>9 DEF OwnerGone
  <2>2. \A o \in armed : o \in Session /\ home[o] = p2
    BY <1>0, <1>3, <1>9, RefFacts DEF OwnerGone, IInv, Residents, TypeOK
  <2>3. armed' = {} BY <1>4, <2>1, <2>2
  <2>4. \A o \in Session : home'[o] # p1 BY <1>3, <1>4, <1>9, ThreadsAssumption DEF OwnerGone
  <2>5. ASSUME NEW u \in Thread PROVE pc'[u] = "idle" /\ u \notin leased'
    <3>1. Owner[u] \in {p1, p2} BY <1>3, ThreadsAssumption
    <3>2. CASE Owner[u] = p1 BY <1>0, <1>3, <1>5, <1>9, <2>1, <3>2 DEF OwnerGone, Kept
    <3>3. CASE Owner[u] = p2 BY <1>5, <2>1, <3>3
    <3> QED BY <3>1, <3>2, <3>3
  <2>6. OwnerGone' BY <1>4, <1>9, <2>3, <2>4, <2>5 DEF OwnerGone
  <2> QED BY <1>6, <2>6 DEF Phase
<1> QED BY <1>7, <1>8, <1>9 DEF OInv

-----------------------------------------------------------------------------

LEMMA NextOInv == ASSUME Settled, OInv, [Next]_vars PROVE OInv'
<1>1. IInv' /\ VInv'
  <2>1. MaxPanics = 0 BY DEF Settled
  <2> QED BY <2>1, NextIInv, NextVInv DEF OInv
<1>2. ASSUME NEW t \in Thread, Request(t) PROVE Phase'
  <2>1. CASE DropEvicted(t) BY <2>1 DEF DropEvicted, At, OInv, Kept
  <2>2. CASE PoisonRelease(t) \/ PoisonRemove(t) \/ PoisonDrop(t)
    BY <2>2 DEF PoisonRelease, PoisonRemove, PoisonDrop, At, OInv, IInv, Sound
  <2> QED
    BY <1>2, <2>1, <2>2, OwnReap, OwnTouch, OwnAdmit, OwnFly, OwnRecheck, OwnLockRead,
       OwnLockWrite, OwnOpen, OwnStamp, OwnArm, OwnInstall, OwnAttach, OwnPublishCheck,
       OwnPublishWrite, OwnCheck, OwnAdvance, OwnFinish
       DEF Request
<1>3. ASSUME NEW t \in Thread, View(t) PROVE Phase'
  BY <1>3, OwnEnter, OwnPoll, OwnSwitch, OwnForget DEF View
<1>4. ASSUME NEW p \in Proc, Crash(p) PROVE Phase' BY <1>4, OwnCrash
<1>5. ASSUME UNCHANGED vars PROVE Phase'
  <2>1. UNCHANGED <<lock, alive, resident, home, armed, frozen, pc, held, leased, reaps, crashes>>
    BY <1>5 DEF vars, sessions, threads, counts
  <2>2. Kept' BY <2>1 DEF OInv, Kept
  <2>3. OwnerLives => OwnerLives' BY <2>1 DEF OwnerLives
  <2>4. OwnerGone => OwnerGone' BY <2>1 DEF OwnerGone
  <2> QED BY <2>2, <2>3, <2>4 DEF OInv, Phase
<1>6. Phase' BY <1>2, <1>3, <1>4, <1>5 DEF Next
<1> QED BY <1>1, <1>6 DEF OInv, Phase

LEMMA InitOInv == ASSUME Settled, OwnedInit PROVE OInv
<1>1. MaxSessions \in Nat BY BoundsAssumption
<1>2. 1 \in Session BY <1>1 DEF Settled, Session
<1>3. p1 \in Proc /\ p1 \notin Viewer BY DEF Settled
<1>4. TypeOK
  BY <1>2, <1>3, ThreadsAssumption, RefFacts DEF OwnedInit, TypeOK, Pc
<1>5. TInv BY <1>4, ThreadsAssumption DEF OwnedInit, TInv, OneFlight, HasArc, Serving, InFlight
<1>6. Residents BY <1>2, <1>3 DEF OwnedInit, Residents
<1>7. Shape BY DEF OwnedInit, Shape, Holding, InFlight
<1>8. IInv BY <1>5, <1>6, <1>7 DEF OwnedInit, IInv, Sound
<1>9. Homes BY <1>2, <1>3 DEF OwnedInit, Homes
<1>10. \A t \in Thread : ViewHolds(t) BY DEF OwnedInit, ViewHolds, ViewPc, InFlight
<1>11. \A t \in Thread : Owner[t] \in Viewer => ViewLocks(t)
  BY <1>3, ThreadsAssumption DEF OwnedInit, ViewLocks
<1>12. VInv BY <1>5, <1>9, <1>10, <1>11 DEF OwnedInit, VInv, ArmedThaws
<1>13. Kept BY DEF OwnedInit, Kept
<1>14. OwnerLives BY <1>3, ThreadsAssumption DEF OwnedInit, OwnerLives
<1> QED BY <1>8, <1>12, <1>13, <1>14 DEF OInv

\* Every writer is of one process.
LEMMA WritersHome ==
    ASSUME Settled, OInv, NEW o \in Writers
    PROVE  home[o] = IF OwnerLives THEN p1 ELSE p2
<1>0. /\ TypeOK /\ Shape /\ Residents /\ o \in Session /\ o # 0
      /\ home[o] # Nobody /\ home[o] \in Proc
  BY RefFacts DEF OInv, IInv, TInv, TypeOK, Writers
<1>1. CASE OwnerLives
  <2>1. CASE resident[home[o]] = o BY <1>0, <1>1, <2>1 DEF OwnerLives
  <2>2. CASE \E t \in Thread : held[t] = o
    <3>1. PICK t \in Thread : held[t] = o BY <2>2
    <3>2. home[o] = Owner[t] BY <1>0, <3>1 DEF Shape, Holding
    <3> QED BY <1>0, <1>1, <3>1, <3>2 DEF OwnerLives
  <2> QED BY <1>1, <2>1, <2>2 DEF Writers
<1>2. CASE ~OwnerLives
  <2>1. OwnerGone BY <1>2 DEF OInv
  <2> QED BY <1>0, <1>2, <2>1 DEF OwnerGone, Settled
<1> QED BY <1>1, <1>2

\* There is exactly one writer per cache entry, always (lock.rs:3): once a server has
\* admitted the session no session of another process, or of its own other threads, can
\* append to the entry, with any number of processes and threads asking for it; and when it
\* dies the process that is left becomes the one writer.  Taking an entry that nobody has
\* yet is another matter (run lock_race), and so is a fold that panics (run poison_race).
THEOREM OwnerAlone == ASSUME Settled PROVE OwnedSpec => []OneWriter
<1>1. OInv => OneWriter
  <2> SUFFICES ASSUME OInv, NEW o1 \in Writers, NEW o2 \in Writers PROVE o1 = o2
    BY DEF OneWriter
  <2>1. home[o1] = home[o2] BY WritersHome
  <2> QED BY <2>1, IInvOneWriter DEF OInv, OneWriterEach
<1>2. OwnedInit => OInv BY InitOInv
<1>3. OInv /\ [Next]_vars => OInv' BY NextOInv
<1> QED BY <1>1, <1>2, <1>3, PTL DEF OwnedSpec

\* "We are writing" and "we hold the entry" are the same fact (lock.rs:147-151): the LOCK
\* file names the process of every session that writes the record stream, through failed
\* opens, failed reopenings of the stream, a TUI's switches and the owner's death.
THEOREM OwnerLocked == ASSUME Settled PROVE OwnedSpec => []LockedWhileWriting
<1>1. OInv => LockedWhileWriting
  <2> SUFFICES ASSUME OInv, NEW o \in Writers \cap armed PROVE lock = home[o]
    BY DEF LockedWhileWriting
  <2>1. home[o] = IF OwnerLives THEN p1 ELSE p2 BY WritersHome
  <2>2. CASE OwnerLives BY <2>1, <2>2 DEF OwnerLives
  <2>3. CASE ~OwnerLives
    <3>1. OwnerGone BY <2>3 DEF OInv
    <3> QED BY <2>1, <2>3, <3>1 DEF OwnerGone
  <2> QED BY <2>2, <2>3
<1>2. OwnedInit => OInv BY InitOInv
<1>3. OInv /\ [Next]_vars => OInv' BY NextOInv
<1> QED BY <1>1, <1>2, <1>3, PTL DEF OwnedSpec
=============================================================================

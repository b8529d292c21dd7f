--------------------------- MODULE MCSessionCache ---------------------------
(* Instances of SessionCache: whose the threads are, and an initial state in  *)
(* which one process is the owner already.                                    *)
EXTENDS SessionCache, TLC

CONSTANTS p1, p2, t1, t2, t3

\* All threads belong to one server.
OneServer == [t \in Thread |-> CHOOSE p \in Proc : TRUE]

\* One thread in each of two processes.
OneEach == t1 :> p1 @@ t2 :> p2

\* Two threads in the process that owns the entry, one in the process that contends.
TwoAndOne == t1 :> p1 @@ t2 :> p1 @@ t3 :> p2

ServerThreads == Permutations({t1, t2})

\* p1 has admitted the session, and no request is under way.
OwnedInit ==
    /\ lock = p1
    /\ alive = Proc
    /\ resident = [p \in Proc |-> IF p = p1 THEN 1 ELSE 0]
    /\ opening = [p \in Proc |-> Nobody]
    /\ home = [o \in Session |-> IF o = 1 THEN p1 ELSE Nobody]
    /\ armed = {1} /\ frozen = {} /\ poisoned = {}
    /\ pc = [t \in Thread |-> "idle"]
    /\ held = [t \in Thread |-> 0]
    /\ aside = [t \in Thread |-> 0]
    /\ leased = {} /\ again = {}
    /\ reaps = 0 /\ panics = 0 /\ crashes = 0 /\ faults = 0

OwnedSpec == OwnedInit /\ [][Next]_vars

OwnedFairSpec == OwnedSpec /\ \A t \in Thread : WF_vars(Request(t))
=============================================================================

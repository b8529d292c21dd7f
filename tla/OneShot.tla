------------------------------ MODULE OneShot ------------------------------
(***************************************************************************)
(* What the Codex gateway promises for the actions of its devices, with no *)
(* word about how.  An action is an identity (actionId) a device chooses   *)
(* before it asks.  The native server runs it at most once; the verdict a  *)
(* device may be told about it is the truth, now and later; and when the   *)
(* record of a verdict expires the identity stays spent.                   *)
(***************************************************************************)
EXTENDS Sequences

CONSTANTS Actions, Payloads

VARIABLES
    done,       \* done[a]: the payloads the native server has run as action a
    verdict     \* verdict[a]: what is on record about a

\* Nothing was run, and nothing is on record but identities spent earlier.
Init ==
    /\ done = [a \in Actions |-> <<>>]
    /\ verdict \in [Actions -> {"none", "expired"}]

\* The server runs an action of which it has run nothing and nothing is decided.
Run(a, p) ==
    /\ done[a] = <<>> /\ verdict[a] = "none"
    /\ done' = [done EXCEPT ![a] = <<p>>]
    /\ UNCHANGED verdict

\* An action that ran may be reported accepted.
Accept(a) ==
    /\ done[a] # <<>> /\ verdict[a] = "none"
    /\ verdict' = [verdict EXCEPT ![a] = "accepted"]
    /\ UNCHANGED done

\* An action that did not run may be reported rejected, and then never runs.
Reject(a) ==
    /\ done[a] = <<>> /\ verdict[a] = "none"
    /\ verdict' = [verdict EXCEPT ![a] = "rejected"]
    /\ UNCHANGED done

\* The verdicts of a set of actions are forgotten; the actions stay decided.
Expire(S) ==
    /\ \A a \in S : verdict[a] \in {"accepted", "rejected"}
    /\ verdict' = [a \in Actions |-> IF a \in S THEN "expired" ELSE verdict[a]]
    /\ UNCHANGED done

Next ==
    \/ \E a \in Actions, p \in Payloads : Run(a, p)
    \/ \E a \in Actions : Accept(a) \/ Reject(a)
    \/ \E S \in SUBSET Actions : Expire(S)

Spec == Init /\ [][Next]_<<done, verdict>>
=============================================================================

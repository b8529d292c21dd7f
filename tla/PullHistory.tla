---------------------------- MODULE PullHistory ----------------------------
(***************************************************************************)
(* PullProtocol with one history variable: the set of displays the session *)
(* has had, in any epoch.  It is read by no action.                        *)
(***************************************************************************)
EXTENDS PullProtocol

VARIABLE displays

HInit == Init /\ displays = {Display}

HNext == Next /\ displays' = displays \cup {(Display)'}

HSpec == HInit /\ [][HNext]_<<vars, displays>>

HFairSpec == HSpec /\ Fairness

\* A page never shows a mixture: what it holds is, as a whole, a display the
\* session really had at one moment, although committed and provisional
\* records travel in two requests (the /pull pointer and the /records bytes)
\* between which the session may commit, regroup or be truncated.
NeverTorn == faults = 0 => \A p \in Page : page[p].records \in displays

=============================================================================

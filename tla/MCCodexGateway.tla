--------------------------- MODULE MCCodexGateway ---------------------------
(* Instances of CodexGateway: two devices, one queued submission. *)
EXTENDS CodexGateway

CONSTANTS k1, k2, h1, h2, s1, steer1, other1

\* Every steering body names the one queued submission.
OneSub == [p \in Steers |-> s1]
=============================================================================

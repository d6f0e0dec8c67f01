----------------------- MODULE MCPolicyEnforcementV2 -----------------------
(* Small instances of PolicyEnforcementV2 for TLC. *)
EXTENDS PolicyEnforcementV2, TLC

CONSTANTS w1, w2, r1

OneWorker == {w1}
TwoWorkers == {w1, w2}
Admins == {r1}

(* w2 holds a newer signer authorization than the others. *)
MixedAuthority == [a \in Actors |-> IF a = w2 THEN 2 ELSE 1]
=============================================================================

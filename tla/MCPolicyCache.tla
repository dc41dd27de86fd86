--------------------------- MODULE MCPolicyCache ---------------------------
(* Small instances of PolicyCache for TLC.                                 *)
EXTENDS PolicyCache

\* The second update does not compile, the third removes the policy.
MCKindOf == [p \in 0..MaxUpdates |->
    IF p = 2 THEN "invalid" ELSE IF p = 3 THEN "absent" ELSE "valid"]
=============================================================================

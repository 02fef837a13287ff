------------------------------- MODULE MCSanctions -------------------------------
(* A moderator of the content's community and one of the platform's staff; two sanctions.          *)
EXTENDS Sanctions, TLC

CONSTANTS s1, s2, v1, v2, mod, plat, q1, q2

Workspaces == [m \in Staff |-> IF m = mod THEN Community ELSE Platform]
Interchangeable == Permutations({q1, q2}) \cup Permutations({v1, v2}) \cup Permutations({s1, s2})
=============================================================================

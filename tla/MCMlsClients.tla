---------------------------- MODULE MCMlsClients ----------------------------
(* A device with two tabs for TLC, and another member of the conversation. *)
EXTENDS MlsClients, TLC

CONSTANTS d1, d2, t1, t2

TabOwners == t1 :> d1 @@ t2 :> d1

\* The two tabs are interchangeable.
TwoTabs == Permutations({t1, t2})
=============================================================================

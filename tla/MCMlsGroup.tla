----------------------------- MODULE MCMlsGroup -----------------------------
(* Small conversations for TLC: two or three people, one or two devices each. *)
EXTENDS MlsGroup, TLC

CONSTANTS u1, u2, u3, d1, d2, d3

\* Three people with a device each.
ThreeDeviceOwners == d1 :> u1 @@ d2 :> u2 @@ d3 :> u3

\* Two people; the first has two devices.
TwoUserOwners == d1 :> u1 @@ d2 :> u2 @@ d3 :> u1

\* Renaming the second and the third person changes nothing when their devices are
\* renamed with them.
SwapOthers ==
  {p \in Permutations({u2, u3, d2, d3}) :
     p[u2] \in {u2, u3} /\ (p[u2] = u2 <=> p[d2] = d2) /\ (p[u3] = u3 <=> p[d3] = d3)
     /\ p[d2] \in {d2, d3}}
=============================================================================

---------------------------- MODULE MCKeyPackages ----------------------------
(* A handful of packages and claims for TLC: claims are interchangeable, and so are the  *)
(* single-use packages.                                                                   *)
EXTENDS KeyPackages, TLC

Alike == Permutations(Claims) \cup Permutations(Packages \ LastResorts)
=============================================================================

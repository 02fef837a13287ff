------------------------------- MODULE MCChatBackup -------------------------------
(* Two clients, and room for two of three messages.                                                *)
EXTENDS ChatBackup, TLC

CONSTANTS c1, c2, m1, m2, m3

Interchangeable == Permutations({c1, c2}) \cup Permutations({m1, m2, m3})
=============================================================================

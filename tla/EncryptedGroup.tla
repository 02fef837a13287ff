--------------------------- MODULE EncryptedGroup ---------------------------
(***************************************************************************)
(* What the server promises the members of one encrypted conversation: a   *)
(* log with exactly one Commit per epoch, never rewritten, and a set of     *)
(* leaves that changes only as that log says, or by leaves being retired.   *)
(***************************************************************************)
EXTENDS Naturals

CONSTANT Devices

VARIABLES epoch, log, leaves

Commit == [epoch : Nat, sender : Devices, external : BOOLEAN, founder : BOOLEAN,
           added : SUBSET Devices, removed : SUBSET Devices]

Init == epoch = 0 /\ log = {} /\ leaves = {}

\* A Commit built from the current epoch: it removes only leaves, adds only
\* devices without one, and the first of them makes its sender a leaf.
Accept(c) ==
  /\ c.epoch = epoch
  /\ epoch' = epoch + 1
  /\ log' = log \cup {c}
  /\ leaves' = ((leaves \ c.removed) \cup c.added) \cup (IF c.founder THEN {c.sender} ELSE {})

Retire(S) == leaves' = leaves \ S /\ UNCHANGED <<epoch, log>>

Next ==
  \/ \E sender \in Devices, external \in BOOLEAN,
        added \in SUBSET (Devices \ leaves), removed \in SUBSET leaves :
       Accept([epoch |-> epoch, sender |-> sender, external |-> external,
               founder |-> epoch = 0, added |-> added, removed |-> removed])
  \/ \E S \in SUBSET leaves : Retire(S)

Spec == Init /\ [][Next]_<<epoch, log, leaves>>
=============================================================================

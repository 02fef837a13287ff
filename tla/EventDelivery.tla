---------------------------- MODULE EventDelivery ----------------------------
(***************************************************************************)
(* What the outbox, Kafka and the notification consumer promise together:  *)
(* a domain event takes effect at most once, and only when the change it    *)
(* reports was committed; a push follows an effect, and never twice.        *)
(***************************************************************************)
EXTENDS Naturals

CONSTANT Events

VARIABLES recorded, effects, pushes

Init == recorded = {} /\ effects = [e \in Events |-> 0] /\ pushes = [e \in Events |-> 0]

Record(e) ==
  /\ e \notin recorded
  /\ recorded' = recorded \cup {e}
  /\ UNCHANGED <<effects, pushes>>

TakeEffect(e) ==
  /\ e \in recorded /\ effects[e] = 0
  /\ effects' = [effects EXCEPT ![e] = 1]
  /\ UNCHANGED <<recorded, pushes>>

Push(e) ==
  /\ effects[e] = 1 /\ pushes[e] = 0
  /\ pushes' = [pushes EXCEPT ![e] = 1]
  /\ UNCHANGED <<recorded, effects>>

Next == \E e \in Events : Record(e) \/ TakeEffect(e) \/ Push(e)

Spec == Init /\ [][Next]_<<recorded, effects, pushes>>
=============================================================================

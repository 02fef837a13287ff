--------------------------- MODULE MCOutboxDelivery ---------------------------
(* One event of each kind, of which one is recorded, and two server processes.  The run checks *)
(* liveness properties, under which a symmetry reduction would not be sound: none is declared.  *)
EXTENDS OutboxDelivery
=============================================================================

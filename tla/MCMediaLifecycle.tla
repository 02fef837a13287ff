---------------------------- MODULE MCMediaLifecycle ----------------------------
(* A picture for one slot, an attachment, two requests at a time and one job.                     *)
EXTENDS MediaLifecycle, TLC

CONSTANTS pic, att, me, req1, req2, job
=============================================================================

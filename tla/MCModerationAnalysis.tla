--------------------------- MODULE MCModerationAnalysis ---------------------------
(* Two texts: an edit, an edit back, and an analysis each.                                          *)
EXTENDS ModerationAnalysis

CONSTANTS t1, t2, low, odd, w1, w2, r1, r2
=============================================================================

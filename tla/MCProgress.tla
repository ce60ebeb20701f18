----------------------------- MODULE MCProgress -----------------------------
(* progress/progress.go on small instances.                                *)
EXTENDS ProgressProps
=============================================================================

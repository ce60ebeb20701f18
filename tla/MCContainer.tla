---------------------------- MODULE MCContainer -----------------------------
(* container.go on small instances: two runs on one terminal.              *)
EXTENDS ContainerProps
=============================================================================

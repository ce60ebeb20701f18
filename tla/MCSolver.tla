------------------------------ MODULE MCSolver ------------------------------
(* Model values for the solver; the bounds are in the configurations.      *)
EXTENDS SolverProps

\* All local directories of the runs are registered under one name.
OneName == [i \in Items |-> IF i \in Locals THEN "name" ELSE i]
=============================================================================

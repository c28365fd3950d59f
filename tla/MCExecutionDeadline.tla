------------------------- MODULE MCExecutionDeadline -------------------------
(* Instances of the execution deadline for TLC.                             *)
EXTENDS ExecutionDeadline

Stepped == {-2, 0, 2}
=============================================================================

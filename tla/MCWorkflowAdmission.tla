------------------------- MODULE MCWorkflowAdmission -------------------------
(* Small instances of WorkflowAdmission for TLC. *)
EXTENDS WorkflowAdmission, TLC

CONSTANTS h1, h2, l1
TwoSettings == {[machine |-> 1, heavy |-> 1], [machine |-> 2, heavy |-> 1]}
=============================================================================

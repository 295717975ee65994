-------------------------- MODULE MCWorkflowEngine --------------------------
(***************************************************************************)
(* Instances of WorkflowEngine for TLC: the budgets that the               *)
(* configurations choose from, and the symmetry of the workers that the    *)
(* pool starts (sound for the safety runs, not used by the liveness runs). *)
(***************************************************************************)
EXTENDS WorkflowEngine, TLC

CONSTANTS w1, w2, w3

Symmetric == Permutations({w1, w2})

Limits(o, c, f, l) == [ops |-> o, crashes |-> c, faults |-> f, losses |-> l]

ReliableBudget == Limits(3, 1, 0, 1)
FaultyBudget == Limits(2, 0, 1, 0)
LivenessBudget == Limits(2, 1, 0, 1)
OperatorBudget == Limits(3, 0, 0, 0)
FaultBudget == Limits(3, 0, 1, 0)
=============================================================================

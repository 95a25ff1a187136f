-------------------------- MODULE MCExecutionFence --------------------------
(* ExecutionFence on one or two pids; the pids are interchangeable. *)
EXTENDS ExecutionFence, TLC

CONSTANTS p1, p2

Symmetry == Permutations(Procs)

=============================================================================

-------------------------- MODULE MCRunCoordinator --------------------------
(* RunCoordinator on one or two keys; identities are interchangeable. *)
EXTENDS RunCoordinator, TLC

Identities == Permutations(Entry) \cup Permutations(Fiber) \cup Permutations(Caller)
=============================================================================

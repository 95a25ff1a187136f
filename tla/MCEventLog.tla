----------------------------- MODULE MCEventLog -----------------------------
(* EventLog with its publishers and readers in one process.                  *)
EXTENDS EventLog, TLC

CONSTANT p1

(* Everybody runs in the first process. *)
HomeOne == [x \in Fibers \cup Tails \cup Subs |-> p1]

(* HomeOne tells no fiber from another. *)
Symmetry == Permutations(Ids) \cup Permutations(Owners) \cup Permutations(Aggs)
            \cup Permutations(Fibers)

=============================================================================

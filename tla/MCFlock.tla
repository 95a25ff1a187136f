------------------------------ MODULE MCFlock ------------------------------
(* Flock with three callers: a holder or one that died, a breaker, and one   *)
(* that acts on what it saw earlier.                                         *)
EXTENDS Flock

CONSTANTS a, b, c

=============================================================================

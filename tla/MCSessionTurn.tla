---------------------------- MODULE MCSessionTurn ----------------------------
(* SessionTurn with no failover model, with one, and with the configured    *)
(* model as an entry of the chain.                                           *)
EXTENDS SessionTurn, TLC

CONSTANTS m1, m2

NoChain == <<>>
OneEntry == <<m2>>
WithPrimary == <<m1, m2>>

Symmetry == Permutations(Calls)

=============================================================================

-------------------------- MODULE MCDurableBlocker --------------------------
(* DurableBlocker with two Sessions, two locations with a service each, and   *)
(* two requests of one Session next to one of another.                        *)
EXTENDS DurableBlocker, TLC

CONSTANTS r1, r2, r3, x, y, here, there, h, t, c1, c2, e

Owner == [r \in Requests |-> IF r = r3 THEN y ELSE x]
Where == [s \in Services |-> IF s = h THEN here ELSE there]
Start == [z \in Sessions |-> here]

Symmetry == Permutations(Clients) \cup Permutations({r1, r2})

=============================================================================

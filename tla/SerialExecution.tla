--------------------------- MODULE SerialExecution ---------------------------
(***************************************************************************)
(* What the run coordinator promises its callers, without entries, fibers   *)
(* or waiters: requests for one key are coalesced, its executions never      *)
(* overlap, a request is forgotten only by an interrupt or by the end of the *)
(* process's scope, and everything requested is eventually executed.         *)
(***************************************************************************)
CONSTANT Key

VARIABLES requested,   \* a follow-up execution of the key is registered
          running,     \* an execution of the key is in progress
          open         \* the scope is open

vars == <<requested, running, open>>

Init ==
  /\ requested = [k \in Key |-> FALSE]
  /\ running = [k \in Key |-> FALSE]
  /\ open = TRUE

Request(k) ==
  /\ open
  /\ requested' = [requested EXCEPT ![k] = TRUE]
  /\ UNCHANGED <<running, open>>

Begin(k) ==
  /\ requested[k] /\ ~running[k]
  /\ requested' \in {requested, [requested EXCEPT ![k] = FALSE]}
  /\ running' = [running EXCEPT ![k] = TRUE]
  /\ UNCHANGED open

\* An execution ends, however it ends: what was requested stays requested.
End(k) ==
  /\ running[k]
  /\ running' = [running EXCEPT ![k] = FALSE]
  /\ UNCHANGED <<requested, open>>

Interrupt(k) ==
  /\ requested' = [requested EXCEPT ![k] = FALSE]
  /\ UNCHANGED <<running, open>>

Shutdown ==
  /\ open' = FALSE
  /\ requested' = [k \in Key |-> FALSE]
  /\ UNCHANGED running

Next ==
  \/ \E k \in Key : Request(k) \/ Begin(k) \/ End(k) \/ Interrupt(k)
  \/ Shutdown

Spec ==
  /\ Init /\ [][Next]_vars
  /\ \A k \in Key : WF_vars(Begin(k)) /\ WF_vars(End(k))

\* The safety part alone.
SafetySpec == Init /\ [][Next]_vars
=============================================================================

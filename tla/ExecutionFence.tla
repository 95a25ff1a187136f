--------------------------- MODULE ExecutionFence ---------------------------
(***************************************************************************)
(* Who may execute one Session when several server processes share the      *)
(* database and may crash: the Session-ID file lock (util/effect-flock.ts), *)
(* the execution_owner column (session/store.ts, execution-owner.ts), the   *)
(* durable event writer (event.ts), the drain of session/execution/local.ts *)
(* and the startup sweep of session/reconcile.ts.                           *)
(*                                                                          *)
(* A process is a pid slot that boots, sweeps, serves prompts and crashes.  *)
(* It has two tasks on the Session: its sweep, once per boot, and its drain,*)
(* which its coordinator (RunCoordinator) keeps to one at a time.  Each     *)
(* database statement is an action; the runner (session/runner/llm.ts) is   *)
(* reduced to the durable evidence recovery classifies.                     *)
(***************************************************************************)
EXTENDS Naturals, FiniteSets

CONSTANTS Procs,          \* pids that run a server on this database
          Mortal,         \* those whose server may crash
          None,           \* a NULL column, a free lock
          MaxBoots,       \* bound on the boots of one pid and the broken
                          \* locks together
          MaxClaims,      \* attempts of one claimExecution: 4 in the code
          MaxStalls,      \* locks of a live holder that look stale: it could
                          \* not refresh its heartbeat for STALE_MS
          ProcIdentity,   \* /proc gives boot ID and start time (Linux)
          Impatient       \* a wait for the lock may exceed its timeout

ASSUME FenceAssumption ==
  /\ MaxBoots \in Nat /\ MaxStalls \in Nat /\ MaxClaims \in Nat \ {0}
  /\ ProcIdentity \in BOOLEAN /\ Impatient \in BOOLEAN
  /\ None \notin Procs \X Nat
  /\ None \notin [task : Procs \X {"drain", "sweep"}, boot : Nat]

Task == Procs \X {"drain", "sweep"}
Drain(p) == <<p, "drain">>
Sweep(p) == <<p, "sweep">>

VARIABLES
  up, boot,         \* per pid: it runs, and how often it was started
  lock,             \* the lock directory: None or the task that made it
  exec,             \* session.execution_owner
  writer,           \* event_sequence.owner_id
  work,             \* what the last assistant message is evidence of
  retry,            \* the retry columns are set
  blocked,          \* an unresolved blocker row
  noted,            \* the last assistant message has its provider blocker row,
                    \* resolved or not: its ID is inserted at most once
  inbox,            \* an admitted input is not yet promoted
  pc, obs, tries,   \* per task: where it is, what it read, claim attempts
  cause, demand,    \* per pid: what its drain answers to; the pending wake
  stop,             \* per pid: an interrupt was requested of its drain
  plan,             \* per pid: what its sweep decided
  stalls            \* how often a live holder lost the lock

procVars   == <<up, boot>>
durable    == <<work, retry, blocked, noted, inbox>>
drainVars  == <<cause, demand, stop>>
vars == <<procVars, lock, exec, writer, durable, pc, obs, tries, drainVars, plan, stalls>>

Locking  == {"read", "judge", "cas", "unlock"}
Running  == {"reconcile", "guard", "promote", "dispatch", "stream", "tools",
             "wrapup", "backoff", "ended", "continues", "failed"}
Sweeping == {"evread", "evjudge", "evclaim", "decide", "act", "evrelease"}
Claimed  == Running \cup Sweeping \cup {"release"}
Work     == {"idle", "provider", "tool", "settled"}
Decision == {"none", "idle", "tool", "provider", "retry", "continue"}

DrainPlaces == {"off", "idle", "lock", "release"} \cup Locking \cup Running
SweepPlaces == {"off", "done", "lock", "release"} \cup Locking \cup Sweeping

PlacesOK ==
  /\ pc \in [Task -> DrainPlaces \cup SweepPlaces]
  /\ \A p \in Procs : /\ pc[Drain(p)] \in DrainPlaces
                      /\ pc[Sweep(p)] \in SweepPlaces
                      /\ up[p] <=> pc[Drain(p)] # "off"
                      /\ up[p] <=> pc[Sweep(p)] # "off"
                      /\ up[p] => boot[p] > 0

Owners == Procs \X (0..MaxBoots)
Locks  == [task : Task, boot : 0..MaxBoots]

TypeOK ==
  /\ up \in [Procs -> BOOLEAN] /\ boot \in [Procs -> 0..MaxBoots]
  /\ lock \in Locks \cup {None}
  /\ exec \in Owners \cup {None} /\ writer \in Owners \cup {None}
  /\ work \in Work /\ retry \in BOOLEAN
  /\ blocked \in BOOLEAN /\ noted \in BOOLEAN /\ inbox \in BOOLEAN
  /\ PlacesOK
  /\ obs \in [Task -> Owners \cup {None}] /\ tries \in [Task -> 0..(MaxClaims - 1)]
  /\ cause \in [Procs -> {"wake", "resume", "recover"}]
  /\ demand \in [Procs -> {"none", "wake", "recover"}]
  /\ stop \in [Procs -> BOOLEAN]
  /\ plan \in [Procs -> Decision]
  /\ stalls \in 0..MaxStalls

(* The owner a process writes: pid:boot_id:start_time tells two processes   *)
(* with one pid apart, pid:: does not.                                      *)
Owner(p) == <<p, IF ProcIdentity THEN boot[p] ELSE 0>>

MutIsLiveByPid(o) == ProcIdentity => up[o[1]]

(* isLive: without /proc every owner counts as live. *)
IsLive(o) == ProcIdentity => up[o[1]] /\ boot[o[1]] = o[2]

Mine(t) == [task |-> t, boot |-> boot[t[1]]]
Stale(l) == ~(up[l.task[1]] /\ boot[l.task[1]] = l.boot)

Init ==
  /\ up = [p \in Procs |-> FALSE] /\ boot = [p \in Procs |-> 0]
  /\ lock = None /\ exec = None /\ writer = None
  /\ work = "idle" /\ retry = FALSE /\ blocked = FALSE /\ noted = FALSE /\ inbox = FALSE
  /\ pc = [t \in Task |-> "off"]
  /\ obs = [t \in Task |-> None] /\ tries = [t \in Task |-> 0]
  /\ cause = [p \in Procs |-> "wake"] /\ demand = [p \in Procs |-> "none"]
  /\ stop = [p \in Procs |-> FALSE]
  /\ plan = [p \in Procs |-> "none"]
  /\ stalls = 0

Goto(t, l) == pc' = [pc EXCEPT ![t] = l]

-----------------------------------------------------------------------------
(* Processes.                                                               *)

(* The Session service is built after the sweep, so the drain starts idle. *)
Boot(p) ==
  /\ ~up[p] /\ boot[p] + stalls < MaxBoots
  /\ up' = [up EXCEPT ![p] = TRUE] /\ boot' = [boot EXCEPT ![p] = @ + 1]
  /\ pc' = [pc EXCEPT ![Drain(p)] = "idle", ![Sweep(p)] = "lock"]
  /\ UNCHANGED <<lock, exec, writer, durable, obs, tries, drainVars, plan, stalls>>

(* A crash forgets everything but the database and the lock directory.  The *)
(* last boot does not crash, so that a crash is always followed by a boot.  *)
Crash(p) ==
  /\ up[p] /\ p \in Mortal /\ boot[p] + stalls < MaxBoots
  /\ up' = [up EXCEPT ![p] = FALSE]
  /\ pc' = [pc EXCEPT ![Drain(p)] = "off", ![Sweep(p)] = "off"]
  /\ obs' = [obs EXCEPT ![Drain(p)] = None, ![Sweep(p)] = None]
  /\ tries' = [tries EXCEPT ![Drain(p)] = 0, ![Sweep(p)] = 0]
  /\ cause' = [cause EXCEPT ![p] = "wake"] /\ demand' = [demand EXCEPT ![p] = "none"]
  /\ stop' = [stop EXCEPT ![p] = FALSE]
  /\ plan' = [plan EXCEPT ![p] = "none"]
  /\ UNCHANGED <<boot, lock, exec, writer, durable, stalls>>

-----------------------------------------------------------------------------
(* The Session-ID lock: made by mkdir, broken when its heartbeat is stale,   *)
(* removed only by the holder whose token is in it.                          *)

MutLockAny(t) ==
  /\ pc[t] = "lock" /\ UNCHANGED stalls
  /\ lock' = Mine(t)
  /\ Goto(t, "read")
  /\ UNCHANGED <<procVars, exec, writer, durable, obs, tries, drainVars, plan>>

Lock(t) ==
  /\ pc[t] = "lock"
  /\ \/ lock = None /\ UNCHANGED stalls
     \/ lock # None /\ Stale(lock) /\ UNCHANGED stalls
     \/ /\ lock # None /\ ~Stale(lock)
        /\ stalls < MaxStalls /\ \A p \in Procs : boot[p] + stalls < MaxBoots
        /\ stalls' = stalls + 1
  /\ lock' = Mine(t)
  /\ Goto(t, "read")
  /\ UNCHANGED <<procVars, exec, writer, durable, obs, tries, drainVars, plan>>

(* A settled drain starts its successor when a wake arrived meanwhile. *)
DrainEnds(p) ==
  /\ IF demand[p] = "none"
     THEN Goto(Drain(p), "idle") /\ cause' = [cause EXCEPT ![p] = "wake"]
     ELSE Goto(Drain(p), "lock") /\ cause' = [cause EXCEPT ![p] = demand[p]]
  /\ demand' = [demand EXCEPT ![p] = "none"]
  /\ stop' = [stop EXCEPT ![p] = FALSE]
  /\ UNCHANGED plan

SweepEnds(p) ==
  /\ Goto(Sweep(p), "done")
  /\ plan' = [plan EXCEPT ![p] = "none"]
  /\ UNCHANGED drainVars

TaskEnds(t) == IF t[2] = "drain" THEN DrainEnds(t[1]) ELSE SweepEnds(t[1])

(* A live holder keeps the lock for longer than the waiter's five minutes. *)
LockTimeout(t) ==
  /\ Impatient /\ pc[t] = "lock" /\ lock # None /\ ~Stale(lock)
  /\ TaskEnds(t)
  /\ UNCHANGED <<procVars, lock, exec, writer, durable, obs, tries, stalls>>

Unlock(t) ==
  /\ pc[t] = "unlock"
  /\ lock' = IF lock = Mine(t) THEN None ELSE lock
  /\ TaskEnds(t)
  /\ UNCHANGED <<procVars, exec, writer, durable, obs, tries, stalls>>

-----------------------------------------------------------------------------
(* claimExecution and releaseExecution of session/store.ts.                  *)

ClaimRead(t) ==
  /\ pc[t] = "read"
  /\ obs' = [obs EXCEPT ![t] = exec]
  /\ Goto(t, "judge")
  /\ UNCHANGED <<procVars, lock, exec, writer, durable, tries, drainVars, plan, stalls>>

MutJudgeNobodyLive(t) ==
  /\ pc[t] = "judge"
  /\ Goto(t, "cas") /\ UNCHANGED obs
  /\ UNCHANGED <<procVars, lock, exec, writer, durable, tries, drainVars, plan, stalls>>

MutJudgeKeepsLock(t) ==
  LET refused == obs[t] \notin {None, Owner(t[1])} /\ IsLive(obs[t]) IN
  /\ pc[t] = "judge"
  /\ IF refused THEN TaskEnds(t) /\ obs' = [obs EXCEPT ![t] = None]
     ELSE Goto(t, "cas") /\ UNCHANGED <<obs, drainVars, plan>>
  /\ UNCHANGED <<procVars, lock, exec, writer, durable, tries, stalls>>

ClaimJudge(t) ==
  /\ pc[t] = "judge"
  /\ IF obs[t] \notin {None, Owner(t[1])} /\ IsLive(obs[t])
     THEN Goto(t, "unlock") /\ obs' = [obs EXCEPT ![t] = None]
     ELSE Goto(t, "cas") /\ UNCHANGED obs
  /\ UNCHANGED <<procVars, lock, exec, writer, durable, tries, drainVars, plan, stalls>>

MutClaimWriteUnconditional(t) ==
  /\ pc[t] = "cas"
  /\ exec' = Owner(t[1])
  /\ Goto(t, IF t[2] = "drain" THEN "reconcile" ELSE "evread")
  /\ tries' = [tries EXCEPT ![t] = 0] /\ obs' = [obs EXCEPT ![t] = None]
  /\ UNCHANGED <<procVars, lock, writer, durable, drainVars, plan, stalls>>

(* The conditional update: it wins unless a third owner appeared since. *)
ClaimWrite(t) ==
  /\ pc[t] = "cas"
  /\ IF exec \in {None, obs[t], Owner(t[1])}
     THEN /\ exec' = Owner(t[1])
          /\ Goto(t, IF t[2] = "drain" THEN "reconcile" ELSE "evread")
          /\ tries' = [tries EXCEPT ![t] = 0]
     ELSE /\ UNCHANGED exec
          /\ IF tries[t] + 1 = MaxClaims
             THEN Goto(t, "unlock") /\ tries' = [tries EXCEPT ![t] = 0]
             ELSE Goto(t, "read") /\ tries' = [tries EXCEPT ![t] = @ + 1]
  /\ obs' = [obs EXCEPT ![t] = None]
  /\ UNCHANGED <<procVars, lock, writer, durable, drainVars, plan, stalls>>

MutReleaseForgets(t) ==
  /\ pc[t] = "release"
  /\ Goto(t, "unlock")
  /\ UNCHANGED <<procVars, lock, exec, writer, durable, obs, tries, drainVars, plan, stalls>>

Release(t) ==
  /\ pc[t] = "release"
  /\ exec' = IF exec = Owner(t[1]) THEN None ELSE exec
  /\ Goto(t, "unlock")
  /\ UNCHANGED <<procVars, lock, writer, durable, obs, tries, drainVars, plan, stalls>>

-----------------------------------------------------------------------------
(* recover of session/reconcile.ts, in the two fences.                       *)

SweepOnly == UNCHANGED <<procVars, lock, exec, tries, drainVars, stalls>>

EventOwnerRead(p) ==
  /\ pc[Sweep(p)] = "evread"
  /\ obs' = [obs EXCEPT ![Sweep(p)] = writer]
  /\ Goto(Sweep(p), "evjudge")
  /\ SweepOnly /\ UNCHANGED <<writer, durable, plan>>

EventOwnerJudge(p) ==
  LET s == Sweep(p) IN
  /\ pc[s] = "evjudge"
  /\ IF obs[s] # None /\ IsLive(obs[s])
     THEN Goto(s, "evrelease") /\ obs' = [obs EXCEPT ![s] = None]
     ELSE Goto(s, "evclaim") /\ UNCHANGED obs
  /\ SweepOnly /\ UNCHANGED <<writer, durable, plan>>

(* claimConditional: the writer must still be the one that was judged. *)
EventClaim(p) ==
  LET s == Sweep(p) IN
  /\ pc[s] = "evclaim"
  /\ IF writer = obs[s]
     THEN writer' = Owner(p) /\ Goto(s, "decide")
     ELSE UNCHANGED writer /\ Goto(s, "evrelease")
  /\ obs' = [obs EXCEPT ![s] = None]
  /\ SweepOnly /\ UNCHANGED <<durable, plan>>

MutClassifyRetryFirst ==
  IF blocked THEN "idle"
  ELSE IF retry THEN "retry"
  ELSE CASE work = "tool"     -> "tool"
         [] work = "provider" -> "provider"
         [] work = "settled"  -> "continue"
         [] work = "idle"     -> "idle"

MutClassifyMarkerIsIdle ==
  IF blocked THEN "idle"
  ELSE CASE work = "tool"     -> "tool"
         [] work = "settled"  -> "continue"
         [] work \in {"provider", "idle"} -> IF retry THEN "retry" ELSE "idle"

(* SessionRecovery.classify, in its order of precedence. *)
Classify ==
  IF blocked THEN "idle"
  ELSE CASE work = "tool"     -> "tool"
         [] work = "provider" -> "provider"
         [] work = "settled"  -> "continue"
         [] work = "idle"     -> IF retry THEN "retry" ELSE "idle"

Decide(p) ==
  /\ pc[Sweep(p)] = "decide"
  /\ plan' = [plan EXCEPT ![p] = Classify]
  /\ Goto(Sweep(p), "act")
  /\ SweepOnly /\ UNCHANGED <<obs, writer, durable>>

(* SessionExecution.wake: start an idle drain, or leave one coalesced wake. *)
Stronger(a, b) == IF "recover" \in {a, b} THEN "recover" ELSE "wake"

Wakes(p, c) ==
  IF pc[Drain(p)] = "idle"
  THEN /\ cause' = [cause EXCEPT ![p] = c] /\ UNCHANGED demand
       /\ pc' = [pc EXCEPT ![Drain(p)] = "lock"]
  ELSE /\ demand' = [demand EXCEPT ![p] = Stronger(@, c)]
       /\ UNCHANGED <<cause, pc>>

(* The wake and what follows it are separate steps: the woken drain runs    *)
(* while recover still releases its fences.                                 *)
ActWake(p) ==
  /\ pc[Sweep(p)] = "act" /\ plan[p] \in {"retry", "continue"}
  /\ Wakes(p, IF plan[p] = "continue" THEN "recover" ELSE "wake")
  /\ plan' = [plan EXCEPT ![p] = "none"]
  /\ UNCHANGED <<procVars, lock, exec, writer, durable, obs, tries, stop, stalls>>

(* Tool.Failed and its blocker commit in one transaction that requires the  *)
(* event writer; the provider blocker is a single insert.                   *)
ActBlock(p) ==
  /\ pc[Sweep(p)] = "act" /\ plan[p] \in {"tool", "provider"}
  /\ IF plan[p] = "tool" /\ writer # Owner(p)
     THEN UNCHANGED <<work, blocked, noted>>
     ELSE /\ blocked' = (blocked \/ plan[p] = "tool" \/ ~noted)
          /\ noted' = (noted \/ plan[p] = "provider")
          /\ work' = IF plan[p] = "tool" THEN "settled" ELSE work
  /\ plan' = [plan EXCEPT ![p] = "none"]
  /\ UNCHANGED <<retry, inbox, obs, pc, writer>> /\ SweepOnly

ActDone(p) ==
  /\ pc[Sweep(p)] = "act" /\ plan[p] \in {"idle", "none"}
  /\ plan' = [plan EXCEPT ![p] = "none"]
  /\ Goto(Sweep(p), "evrelease")
  /\ SweepOnly /\ UNCHANGED <<obs, writer, durable>>

EventRelease(p) ==
  /\ pc[Sweep(p)] = "evrelease"
  /\ writer' = IF writer = Owner(p) THEN None ELSE writer
  /\ Goto(Sweep(p), "release")
  /\ SweepOnly /\ UNCHANGED <<obs, durable, plan>>

-----------------------------------------------------------------------------
(* SessionRunner.run inside the drain.                                       *)

DrainOnly == UNCHANGED <<procVars, lock, exec, writer, obs, tries, demand, plan, stalls>>

(* failInterruptedTools, before the eligible-input guard. *)
Reconcile(p) ==
  /\ pc[Drain(p)] = "reconcile"
  /\ work' = IF work = "tool" THEN "settled" ELSE work
  /\ Goto(Drain(p), "guard")
  /\ DrainOnly /\ UNCHANGED <<retry, blocked, noted, inbox, cause, stop>>

Forced(p) == cause[p] \in {"resume", "recover"}

(* A persisted retry whose window elapsed is given up without a turn. *)
GuardElapsed(p) ==
  /\ pc[Drain(p)] = "guard" /\ retry
  /\ retry' = FALSE
  /\ Goto(Drain(p), "release")
  /\ DrainOnly /\ UNCHANGED <<work, blocked, noted, inbox, cause, stop>>

MutGuardIgnoresInbox(p) ==
  /\ pc[Drain(p)] = "guard"
  /\ Goto(Drain(p), IF Forced(p) \/ retry THEN "promote" ELSE "release")
  /\ DrainOnly /\ UNCHANGED <<durable, cause, stop>>

Guard(p) ==
  /\ pc[Drain(p)] = "guard"
  /\ Goto(Drain(p), IF Forced(p) \/ inbox \/ retry THEN "promote" ELSE "release")
  /\ DrainOnly /\ UNCHANGED <<durable, cause, stop>>

Promote(p) ==
  /\ pc[Drain(p)] = "promote"
  /\ inbox' = FALSE
  /\ Goto(Drain(p), "dispatch")
  /\ DrainOnly /\ UNCHANGED <<work, retry, blocked, noted, cause, stop>>

(* startAssistant: the durable marker that precedes the provider stream. It *)
(* completes an assistant message that was left incomplete.                 *)
Dispatch(p) ==
  /\ pc[Drain(p)] = "dispatch"
  /\ work' = "provider"
  /\ noted' = FALSE
  /\ Goto(Drain(p), "stream")
  /\ DrainOnly /\ UNCHANGED <<retry, blocked, inbox, cause, stop>>

(* The stream ends the step, fails it, or fails before any output and may   *)
(* be retried; or it calls a tool; or it ends after output without saying    *)
(* that the step is over, and the message stays open.                         *)
StreamEnds(p) ==
  /\ pc[Drain(p)] = "stream"
  /\ \/ work' = "idle" /\ UNCHANGED retry /\ \E l \in {"ended", "failed"} : Goto(Drain(p), l)
     \/ work' = "idle" /\ retry' = TRUE /\ Goto(Drain(p), "backoff")
     \/ work' = "tool" /\ UNCHANGED retry /\ Goto(Drain(p), "tools")
     \/ UNCHANGED <<work, retry>> /\ Goto(Drain(p), "ended")
  /\ DrainOnly /\ UNCHANGED <<blocked, noted, inbox, cause, stop>>

Backoff(p) ==
  /\ pc[Drain(p)] = "backoff"
  /\ Goto(Drain(p), "dispatch")
  /\ DrainOnly /\ UNCHANGED <<durable, cause, stop>>

ToolSettles(p) ==
  /\ pc[Drain(p)] = "tools"
  /\ work' = "settled"
  /\ Goto(Drain(p), "wrapup")
  /\ DrainOnly /\ UNCHANGED <<retry, blocked, noted, inbox, cause, stop>>

(* The user declined the tool: the loop halts and the step is not ended. *)
ToolDeclined(p) ==
  /\ pc[Drain(p)] = "tools"
  /\ work' = "settled"
  /\ Goto(Drain(p), "release")
  /\ DrainOnly /\ UNCHANGED <<retry, blocked, noted, inbox, cause, stop>>

(* Without the word of the stream that the step is over, its message stays   *)
(* open here, too.                                                            *)
StepEnds(p) ==
  /\ pc[Drain(p)] = "wrapup"
  /\ work' \in {"idle", work}
  /\ Goto(Drain(p), "continues")
  /\ DrainOnly /\ UNCHANGED <<retry, blocked, noted, inbox, cause, stop>>

(* After a turn the retry columns are cleared; the drain goes on while a    *)
(* tool continuation or an input asks for another turn.                     *)
AfterTurn(p) ==
  /\ pc[Drain(p)] \in {"ended", "continues", "failed"}
  /\ retry' = FALSE
  /\ Goto(Drain(p), IF pc[Drain(p)] = "continues" \/ (pc[Drain(p)] = "ended" /\ inbox)
                    THEN "promote" ELSE "release")
  /\ DrainOnly /\ UNCHANGED <<work, blocked, noted, inbox, cause, stop>>

(* Where an interrupt takes effect.  The wait for the lock is not           *)
(* interruptible; claim and release of the owner are single statements.     *)
Stopped(p) ==
  LET d == Drain(p) IN
  /\ stop[p]
  /\ \/ /\ pc[d] \in {"read", "judge"}
        /\ Goto(d, "unlock") /\ obs' = [obs EXCEPT ![d] = None]
        /\ tries' = [tries EXCEPT ![d] = 0]
        /\ UNCHANGED work
     \/ /\ pc[d] \in {"reconcile", "guard", "promote", "dispatch", "backoff", "ended", "continues"}
        /\ Goto(d, "release") /\ UNCHANGED <<work, obs, tries>>
     \/ /\ pc[d] \in {"stream", "wrapup"}
        /\ Goto(d, "release") /\ work' = "idle" /\ UNCHANGED <<obs, tries>>
     \/ /\ pc[d] = "tools"
        /\ Goto(d, "wrapup") /\ work' = "settled" /\ UNCHANGED <<obs, tries>>
  /\ UNCHANGED <<procVars, lock, exec, writer, retry, blocked, noted, inbox, drainVars, plan, stalls>>

-----------------------------------------------------------------------------
(* What clients ask of a process.                                            *)

Asked == UNCHANGED <<procVars, lock, exec, writer, work, retry, noted, obs, tries, plan, stalls>>

Serving(p) == up[p] /\ pc[Sweep(p)] = "done"

(* prompt: admit the input, then wake the Session. *)
Prompt(p) ==
  /\ Serving(p)
  /\ inbox' = TRUE
  /\ Wakes(p, "wake")
  /\ Asked /\ UNCHANGED <<blocked, stop>>

(* prompt with resume: false, or a crash between the two. *)
AdmitOnly(p) ==
  /\ Serving(p)
  /\ inbox' = TRUE
  /\ Asked /\ UNCHANGED <<blocked, cause, demand, stop, pc>>

(* resume joins a drain in progress and starts a forced one while idle. *)
Resume(p) ==
  /\ Serving(p) /\ pc[Drain(p)] = "idle"
  /\ Goto(Drain(p), "lock")
  /\ cause' = [cause EXCEPT ![p] = "resume"]
  /\ Asked /\ UNCHANGED <<inbox, blocked, demand, stop>>

Interrupt(p) ==
  /\ Serving(p) /\ pc[Drain(p)] # "idle"
  /\ stop' = [stop EXCEPT ![p] = TRUE]
  /\ demand' = [demand EXCEPT ![p] = "none"]
  /\ Asked /\ UNCHANGED <<inbox, blocked, cause, pc>>

(* resolveBlocker records the disposition and dispatches nothing. *)
ResolveBlocker(p) ==
  /\ Serving(p) /\ blocked
  /\ blocked' = FALSE
  /\ Asked /\ UNCHANGED <<inbox, cause, demand, stop, pc>>

-----------------------------------------------------------------------------
Claim(t) == ClaimRead(t) \/ ClaimJudge(t) \/ ClaimWrite(t)
TaskStep(t) == Lock(t) \/ LockTimeout(t) \/ Claim(t) \/ Release(t) \/ Unlock(t)

Recover(p) ==
  \/ EventOwnerRead(p) \/ EventOwnerJudge(p) \/ EventClaim(p) \/ Decide(p)
  \/ ActWake(p) \/ ActBlock(p) \/ ActDone(p) \/ EventRelease(p)

Run(p) ==
  \/ Reconcile(p) \/ GuardElapsed(p) \/ Guard(p) \/ Promote(p) \/ Dispatch(p)
  \/ StreamEnds(p) \/ Backoff(p) \/ ToolSettles(p) \/ ToolDeclined(p) \/ StepEnds(p)
  \/ AfterTurn(p)

Client(p) == Prompt(p) \/ AdmitOnly(p) \/ Resume(p) \/ Interrupt(p) \/ ResolveBlocker(p)

Next ==
  \/ \E t \in Task : TaskStep(t)
  \/ \E p \in Procs : Boot(p) \/ Crash(p) \/ Recover(p) \/ Run(p) \/ Stopped(p) \/ Client(p)

Spec == Init /\ [][Next]_vars

(* Fairness: a live process goes on with its tasks; the provider stream and *)
(* the tools end (the drain is assumed to terminate, as in RunCoordinator),  *)
(* and the window for retries of one turn does, too (provider-retry.ts:110);  *)
(* a crashed server is started again.  No waiter is sure to get the lock.      *)
Fairness ==
  \A p \in Procs :
    /\ WF_vars(TaskStep(Sweep(p)) \/ Recover(p))
    /\ WF_vars(TaskStep(Drain(p)) \/ Run(p))
    /\ SF_vars(StreamEnds(p) /\ pc'[Drain(p)] # "backoff")
    /\ WF_vars(Boot(p))

FairSpec == Spec /\ Fairness

-----------------------------------------------------------------------------
(* Properties.                                                               *)

(* As long as no live holder lost its lock, at most one of all drains and   *)
(* sweeps of all processes is past its claim (execution/local.ts:24,        *)
(* reconcile.ts:35): no turn runs twice, and no recovery looks at evidence  *)
(* a runner is still writing.                                               *)
OneCritical == stalls = 0 =>
  \A t, u \in Task : pc[t] \in Claimed /\ pc[u] \in Claimed => t = u

(* Whoever is past its claim is the recorded owner until it releases. *)
ClaimHolds == \A t \in Task : pc[t] \in Claimed => exec = Owner(t[1])

(* "owner is live while busy and cleared after idle": a live process is not *)
(* left as owner, or as event writer, by any way out of its tasks, while    *)
(* locks are kept.                                                          *)
NoIdleOwner ==
  \A p \in Procs : up[p] =>
    /\ exec = Owner(p) => pc[Drain(p)] \in Claimed \/ pc[Sweep(p)] \in Claimed
    /\ writer = Owner(p) => pc[Sweep(p)] \in Sweeping

OwnerIsBusy == stalls = 0 => NoIdleOwner

(* No way out of a drain or a sweep, refused, timed out, interrupted or         *)
(* displaced, leaves the lock of a live process behind, which nobody could take  *)
(* (execution/local.ts:24-33).                                                    *)
LockInUse ==
  lock # None => /\ lock.boot <= boot[lock.task[1]]
                 /\ ~Stale(lock) => pc[lock.task] \in Locking \cup Claimed

(* The recorded owner changes only when it releases or is gone. *)
OwnershipNeverStolen ==
  [][exec # exec' /\ exec # None /\ IsLive(exec) =>
       exec' = None /\ \E k \in {"drain", "sweep"} : pc[<<exec[1], k>>] = "release"]_vars

(* No two processes are inside the runner at once, even when the lock of a  *)
(* live holder was broken: "a second live process is refused".  When it     *)
(* happened twice, the sweep and the drain of one process, which are one    *)
(* owner, may have lost it to each other and then to another process.       *)
OneRunner == stalls <= 1 =>
  \A p, q \in Procs : pc[Drain(p)] \in Running /\ pc[Drain(q)] \in Running => p = q

(* The drain of p passes the eligible-input guard of run. *)
PassesGuard(p) == pc[Drain(p)] = "guard" /\ pc'[Drain(p)] = "promote"

(* A provider turn without terminal evidence is never retried on the        *)
(* system's own account: only a new input or an explicit resume goes past   *)
(* it.                                                                      *)
NoBlindRedispatch ==
  [][\A p \in Procs : PassesGuard(p) /\ work = "provider" => inbox \/ cause[p] = "resume"]_vars

(* Recovery acts on evidence that is still true when it acts: nobody wrote  *)
(* to the Session between its decision (reconcile.ts:68) and its event,     *)
(* blocker or wake, as long as no live holder lost its lock.                *)
PlanCurrent ==
  \A p \in Procs : pc[Sweep(p)] = "act" =>
    /\ plan[p] = "tool" => work = "tool" /\ writer = Owner(p)
    /\ plan[p] = "provider" => work = "provider"
    /\ plan[p] = "continue" => work = "settled"
    /\ plan[p] = "retry" => work = "idle" /\ retry

PlanStillTrue == stalls = 0 => PlanCurrent

(* Nobody interrupts drains for ever.  Waiters are not queued, so each drain   *)
(* that is interrupted before it has written its claim could be the one that     *)
(* got the lock.                                                                  *)
Calm == <>[](\A p \in Procs : ~stop[p])

(* The claim of a crashed process is taken over and does not fence the      *)
(* Session for ever, whichever of the others gets the lock.                  *)
DeadOwnerReplaced ==
  LET dead == exec # None /\ ~(up[exec[1]] /\ boot[exec[1]] = exec[2]) IN
  Calm => (dead ~> ~dead)

AllDown == \A p \in Procs : ~up[p]

(* When every process died, the next sweep does not leave a tool running    *)
(* or a provider turn in flight without a blocker; an older unresolved      *)
(* blocker wins (recovery.ts:35).                                           *)
AmbiguitySurfaces ==
  LET ambiguous == work \in {"tool", "provider"} IN
  AllDown /\ ~blocked /\ ambiguous ~> ~ambiguous \/ blocked \/ noted

(* A persisted retry survives the death of every process: it is attempted   *)
(* again, given up because its window elapsed, or stopped by the user.      *)
RetrySurvives ==
  AllDown /\ ~blocked /\ retry /\ work = "idle"
    ~> ~retry \/ work # "idle" \/ blocked \/ \E p \in Procs : stop[p]

(* Wherever in a turn the last process died, the evidence it left is acted  *)
(* on (recovery.ts:28).                                                     *)
CrashIsRecovered == AmbiguitySurfaces /\ RetrySurvives

(* A drain of p is about to look at the inbox: it waits for the lock, or one  *)
(* follows the drain in progress.                                             *)
Woken(p) == pc[Drain(p)] = "lock" \/ demand[p] # "none"

(* An admitted input whose wake reached a process is promoted, also while      *)
(* another process holds the Session, and whoever gets the lock next: it may    *)
(* be that process which promotes it (execution/local.ts:22).  Excused are a      *)
(* wake whose process dies or is interrupted, and, as nothing repeats the wake,    *)
(* a drain of p that comes to the guard with a persisted retry, where it may        *)
(* return before it looks at the inbox (llm.ts:841).  No waiter is assumed to get    *)
(* the lock, but none gives up and every holder keeps its heartbeat.                  *)
WokenInputServed ==
  Calm => \A p \in Procs :
            inbox /\ Woken(p)
              ~> \/ ~inbox \/ ~up[p] \/ stop[p]
                 \/ pc[Drain(p)] = "guard" /\ retry

-----------------------------------------------------------------------------
(* What the properties rest on: the parts of the inductive invariant of      *)
(* ExecutionFenceProofs.                                                     *)

Holding(t) == pc[t] \in Locking \cup Claimed

(* As long as no live holder's lock is broken, whoever is between acquire    *)
(* and release of the lock has it.                                          *)
LockHeld == \A t \in Task : Holding(t) => lock = Mine(t)

(* Nobody has read or written an owner that has not booted yet. *)
Known(o) == o # None => o[2] <= boot[o[1]]
KnownOwners == Known(exec) /\ Known(writer) /\ \A t \in Task : Known(obs[t])

(* What a claim is about to replace is free, its own, or gone for good. *)
JudgedGone ==
  \A t \in Task : pc[t] = "cas" => obs[t] \in {None, Owner(t[1])} \/ ~IsLive(obs[t])

(* A sweep is the event writer while it decides and acts. *)
WriterHeld == \A p \in Procs : pc[Sweep(p)] \in {"decide", "act"} => writer = Owner(p)

(* A task that goes on between acquire and release without the lock. *)
Displaced(t) == Holding(t) /\ lock # Mine(t)

(* One broken lock displaces one task. *)
OneDisplaced == \A t, u \in Task : Displaced(t) /\ Displaced(u) => t = u

(* Nothing runs in a process until its sweep has acted (the Session service  *)
(* is built after it), so that its sweep never takes the lock from its drain *)
(* and a recover wake finds the drain idle.                                  *)
SweepFirst ==
  \A p \in Procs :
    /\ pc[Sweep(p)] \in {"lock", "read", "judge", "cas", "evread", "evjudge", "evclaim", "decide"}
         => pc[Drain(p)] = "idle"
    /\ plan[p] # "none" => pc[Sweep(p)] = "act" /\ pc[Drain(p)] = "idle"
    /\ demand[p] # "recover"

SweepYields == \A p \in Procs : Holding(Drain(p)) => lock # Mine(Sweep(p))

(* The drain of p has the lock and no other task can claim: all that is left *)
(* of the displaced one is the sweep of p, past its release.                 *)
Undisturbed(p) ==
  /\ stalls > 0 /\ lock = Mine(Drain(p))
  /\ \A t \in Task : Holding(t) => t = Drain(p) \/ (t = Sweep(p) /\ pc[t] = "unlock")

(* A drain past its claim is the recorded owner, or its own sweep, which it  *)
(* took the lock from, has released the name that both go by.                *)
RunnerOwns == \A p \in Procs : pc[Drain(p)] \in Claimed => exec = Owner(p) \/ Undisturbed(p)

LockInv  == TypeOK /\ LockHeld /\ ClaimHolds /\ WriterHeld /\ PlanCurrent
OwnerInv == TypeOK /\ KnownOwners /\ JudgedGone

-----------------------------------------------------------------------------
(* The lock as FileLock promises it, which is what Flock is shown to keep.    *)
FL == INSTANCE FileLock WITH User <- Task,
                             holder <- {t \in Task : Holding(t) /\ lock = Mine(t)},
                             orphan <- lock # None /\ Stale(lock)

(* Except where a live holder's lock is broken, all that drains, sweeps and   *)
(* crashes do to the lock are steps of the abstract lock: the fence asks no    *)
(* more of it than the lock directory gives (execution/local.ts:24,            *)
(* reconcile.ts:35).                                                           *)
UsesLock == FL!Init /\ [][stalls' = stalls => [FL!Next]_(FL!vars)]_vars

=============================================================================

------------------------ MODULE ExecutionFenceProofs ------------------------
(***************************************************************************)
(* Proofs about ExecutionFence.                                             *)
(***************************************************************************)
EXTENDS ExecutionFence, TLAPS

(* Every process has two tasks, and every task is one of them. *)
LEMMA TaskForms ==
  /\ \A p \in Procs : Drain(p) \in Task /\ Sweep(p) \in Task
  /\ \A t \in Task : /\ t[1] \in Procs
                     /\ t = Drain(t[1]) \/ t = Sweep(t[1])
                     /\ t[2] = "drain" <=> t = Drain(t[1])
  /\ \A p, q \in Procs : /\ Drain(p) # Sweep(q)
                         /\ Drain(p) = Drain(q) => p = q
                         /\ Sweep(p) = Sweep(q) => p = q
                         /\ Drain(p)[1] = p /\ Sweep(p)[1] = p
                         /\ Drain(p)[2] = "drain" /\ Sweep(p)[2] = "sweep"
  BY DEF Drain, Sweep, Task

LEMMA InitType == Init => TypeOK
<1> SUFFICES ASSUME Init PROVE TypeOK
  OBVIOUS
<1>1. PlacesOK
  BY TaskForms DEF Init, PlacesOK, DrainPlaces, SweepPlaces
<1>2. /\ obs \in [Task -> Owners \cup {None}] /\ tries \in [Task -> 0..(MaxClaims - 1)]
      /\ stalls \in 0..MaxStalls /\ boot \in [Procs -> 0..MaxBoots]
  BY FenceAssumption DEF Init
<1> QED
  BY <1>1, <1>2 DEF Init, TypeOK, Work, Decision

(* Moving one task of a running process keeps the places typed. *)
LEMMA GotoPlaces ==
  ASSUME PlacesOK, NEW t \in Task, NEW l, Goto(t, l), UNCHANGED procVars,
         l # "off", pc[t] # "off",
         t[2] = "drain" => l \in DrainPlaces,
         t[2] = "sweep" => l \in SweepPlaces
  PROVE  PlacesOK'
<1>1. t[2] = "drain" \/ t[2] = "sweep"
  BY DEF Task
<1>2. \A u \in Task : pc'[u] = IF u = t THEN l ELSE pc[u]
  BY DEF Goto, PlacesOK
<1>3. pc' \in [Task -> DrainPlaces \cup SweepPlaces]
  BY <1>1 DEF Goto, PlacesOK
<1>4. ASSUME NEW p \in Procs
      PROVE  /\ pc'[Drain(p)] \in DrainPlaces /\ pc'[Sweep(p)] \in SweepPlaces
             /\ up'[p] <=> pc'[Drain(p)] # "off"
             /\ up'[p] <=> pc'[Sweep(p)] # "off"
             /\ up'[p] => boot'[p] > 0
  BY <1>1, <1>2, TaskForms DEF PlacesOK, procVars
<1> QED
  BY <1>3, <1>4 DEF PlacesOK

LEMMA OwnerTyped ==
  ASSUME TypeOK, NEW t \in Task
  PROVE  Owner(t[1]) \in Owners /\ Mine(t) \in Locks /\ t[1] \in Procs
  BY TaskForms, FenceAssumption DEF Owner, Owners, Locks, Mine, TypeOK

(* The steps of any task on the lock and the owner column. *)
LEMMA LockingType ==
  ASSUME TypeOK, NEW t \in Task,
         Lock(t) \/ ClaimRead(t) \/ ClaimJudge(t) \/ ClaimWrite(t) \/ Release(t)
  PROVE  TypeOK'
<1>0. /\ Owner(t[1]) \in Owners /\ Mine(t) \in Locks
      /\ t[2] = "drain" \/ t[2] = "sweep"
      /\ PlacesOK
  BY OwnerTyped DEF Task, TypeOK
<1>1. CASE Lock(t)
  <2>1. PlacesOK'
    BY <1>0, <1>1, GotoPlaces DEF Lock, DrainPlaces, SweepPlaces, Locking, Running, Sweeping, procVars
  <2> QED
    BY <1>0, <1>1, <2>1, FenceAssumption DEF Lock, TypeOK, procVars, durable, drainVars
<1>2. CASE ClaimRead(t)
  <2>1. PlacesOK'
    BY <1>0, <1>2, GotoPlaces DEF ClaimRead, DrainPlaces, SweepPlaces, Locking, Running, Sweeping, procVars
  <2> QED
    BY <1>0, <1>2, <2>1, FenceAssumption DEF ClaimRead, TypeOK, procVars, durable, drainVars
<1>3. CASE ClaimJudge(t)
  <2>1. PlacesOK'
    BY <1>0, <1>3, GotoPlaces DEF ClaimJudge, DrainPlaces, SweepPlaces, Locking, Running, Sweeping, procVars
  <2> QED
    BY <1>0, <1>3, <2>1, FenceAssumption DEF ClaimJudge, TypeOK, procVars, durable, drainVars
<1>4. CASE ClaimWrite(t)
  <2>1. PlacesOK'
    BY <1>0, <1>4, GotoPlaces DEF ClaimWrite, DrainPlaces, SweepPlaces, Locking, Running, Sweeping, procVars
  <2>2. /\ tries' \in [Task -> 0..(MaxClaims - 1)] /\ obs' \in [Task -> Owners \cup {None}]
        /\ exec' \in Owners \cup {None}
    <3>1. tries[t] \in 0..(MaxClaims - 1) /\ 0 \in 0..(MaxClaims - 1)
      BY FenceAssumption DEF TypeOK
    <3>2. CASE tries' = [tries EXCEPT ![t] = 0]
      <4>1. tries' \in [Task -> 0..(MaxClaims - 1)]
        BY <3>1, <3>2 DEF TypeOK
      <4> QED
        BY <1>0, <1>4, <4>1 DEF ClaimWrite, TypeOK
    <3>3. CASE tries' = [tries EXCEPT ![t] = @ + 1] /\ tries[t] + 1 # MaxClaims /\ exec' = exec
      <4>1. tries[t] + 1 \in 0..(MaxClaims - 1)
        BY <3>1, <3>3, FenceAssumption
      <4> QED
        BY <1>0, <1>4, <3>3, <4>1 DEF ClaimWrite, TypeOK
    <3> QED
      BY <1>4, <3>2, <3>3 DEF ClaimWrite
  <2> QED
    BY <1>4, <2>1, <2>2 DEF ClaimWrite, TypeOK, procVars, durable, drainVars
<1>5. CASE Release(t)
  <2>1. PlacesOK'
    BY <1>0, <1>5, GotoPlaces DEF Release, DrainPlaces, SweepPlaces, Locking, Running, Sweeping, procVars
  <2> QED
    BY <1>0, <1>5, <2>1, FenceAssumption DEF Release, TypeOK, procVars, durable, drainVars
<1> QED
  BY <1>1, <1>2, <1>3, <1>4, <1>5

LEMMA EndsType ==
  ASSUME TypeOK, NEW t \in Task, LockTimeout(t) \/ Unlock(t)
  PROVE  TypeOK'
<1>0. PlacesOK /\ t[1] \in Procs /\ pc[t] \in {"lock", "unlock"} /\ UNCHANGED procVars
  BY TaskForms DEF TypeOK, LockTimeout, Unlock, procVars
<1>1. CASE t[2] = "drain"
  <2>1. DrainEnds(t[1]) /\ Drain(t[1]) = t
    BY <1>1, TaskForms DEF LockTimeout, Unlock, TaskEnds
  <2>2. PlacesOK'
    BY <1>0, <1>1, <2>1, GotoPlaces DEF DrainEnds, DrainPlaces, Locking
  <2> QED
    BY <1>0, <2>1, <2>2 DEF DrainEnds, LockTimeout, Unlock, TypeOK, procVars, durable
<1>2. CASE t[2] = "sweep"
  <2>1. SweepEnds(t[1]) /\ Sweep(t[1]) = t
    BY <1>2, TaskForms DEF LockTimeout, Unlock, TaskEnds
  <2>2. PlacesOK'
    BY <1>0, <1>2, <2>1, GotoPlaces DEF SweepEnds, SweepPlaces
  <2> QED
    BY <1>0, <2>1, <2>2 DEF SweepEnds, LockTimeout, Unlock, TypeOK, procVars, durable, drainVars, Decision
<1> QED
  BY <1>1, <1>2 DEF Task

LEMMA RecoverType ==
  ASSUME TypeOK, NEW p \in Procs, Recover(p)
  PROVE  TypeOK'
<1>0. /\ PlacesOK /\ Sweep(p) \in Task /\ Drain(p) \in Task /\ Owner(p) \in Owners
      /\ Sweep(p)[2] = "sweep" /\ Drain(p)[2] = "drain"
  BY TaskForms, OwnerTyped DEF TypeOK
<1>1. CASE EventOwnerRead(p)
  <2>1. PlacesOK'
    BY <1>0, <1>1, GotoPlaces DEF EventOwnerRead, DrainPlaces, SweepPlaces, Locking, Running, Sweeping, SweepOnly, procVars
  <2> QED
    BY <1>0, <1>1, <2>1 DEF EventOwnerRead, TypeOK, SweepOnly, procVars, durable, drainVars, Classify, Decision, Work
<1>2. CASE EventOwnerJudge(p)
  <2>1. PlacesOK'
    BY <1>0, <1>2, GotoPlaces DEF EventOwnerJudge, DrainPlaces, SweepPlaces, Locking, Running, Sweeping, SweepOnly, procVars
  <2> QED
    BY <1>0, <1>2, <2>1 DEF EventOwnerJudge, TypeOK, SweepOnly, procVars, durable, drainVars, Classify, Decision, Work
<1>3. CASE EventClaim(p)
  <2>1. PlacesOK'
    BY <1>0, <1>3, GotoPlaces DEF EventClaim, DrainPlaces, SweepPlaces, Locking, Running, Sweeping, SweepOnly, procVars
  <2> QED
    BY <1>0, <1>3, <2>1 DEF EventClaim, TypeOK, SweepOnly, procVars, durable, drainVars, Classify, Decision, Work
<1>4. CASE Decide(p)
  <2>1. PlacesOK'
    BY <1>0, <1>4, GotoPlaces DEF Decide, DrainPlaces, SweepPlaces, Locking, Running, Sweeping, SweepOnly, procVars
  <2> QED
    BY <1>0, <1>4, <2>1 DEF Decide, TypeOK, SweepOnly, procVars, durable, drainVars, Classify, Decision, Work
<1>5. CASE ActDone(p)
  <2>1. PlacesOK'
    BY <1>0, <1>5, GotoPlaces DEF ActDone, DrainPlaces, SweepPlaces, Locking, Running, Sweeping, SweepOnly, procVars
  <2> QED
    BY <1>0, <1>5, <2>1 DEF ActDone, TypeOK, SweepOnly, procVars, durable, drainVars, Classify, Decision, Work
<1>6. CASE EventRelease(p)
  <2>1. PlacesOK'
    BY <1>0, <1>6, GotoPlaces DEF EventRelease, DrainPlaces, SweepPlaces, Locking, Running, Sweeping, SweepOnly, procVars
  <2> QED
    BY <1>0, <1>6, <2>1 DEF EventRelease, TypeOK, SweepOnly, procVars, durable, drainVars, Classify, Decision, Work
<1>7. CASE ActWake(p)
  <2>1. PlacesOK'
    BY <1>0, <1>7, GotoPlaces DEF ActWake, Wakes, Goto, DrainPlaces, SweepPlaces, Locking, Running, Sweeping, procVars, PlacesOK
  <2> QED
    BY <1>0, <1>7, <2>1 DEF ActWake, Wakes, Stronger, TypeOK, procVars, durable, drainVars, Decision
<1>8. CASE ActBlock(p)
  <2>1. PlacesOK'
    BY <1>0, <1>8 DEF ActBlock, SweepOnly, procVars, PlacesOK
  <2> QED
    BY <1>0, <1>8, <2>1 DEF ActBlock, SweepOnly, TypeOK, procVars, durable, drainVars, Decision, Work
<1> QED
  BY <1>1, <1>2, <1>3, <1>4, <1>5, <1>6, <1>7, <1>8 DEF Recover

LEMMA RunType ==
  ASSUME TypeOK, NEW p \in Procs, Run(p) \/ Stopped(p)
  PROVE  TypeOK'
<1>0. PlacesOK /\ Drain(p) \in Task /\ Drain(p)[2] = "drain"
  BY TaskForms DEF TypeOK
<1>1. CASE Reconcile(p)
  <2>1. PlacesOK'
    BY <1>0, <1>1, GotoPlaces DEF Reconcile, DrainPlaces, SweepPlaces, Locking, Running, Sweeping, DrainOnly, procVars
  <2> QED
    BY <1>0, <1>1, <2>1, FenceAssumption DEF Reconcile, TypeOK, DrainOnly, procVars, durable, drainVars, Work
<1>2. CASE GuardElapsed(p)
  <2>1. PlacesOK'
    BY <1>0, <1>2, GotoPlaces DEF GuardElapsed, DrainPlaces, SweepPlaces, Locking, Running, Sweeping, DrainOnly, procVars
  <2> QED
    BY <1>0, <1>2, <2>1, FenceAssumption DEF GuardElapsed, TypeOK, DrainOnly, procVars, durable, drainVars, Work
<1>3. CASE Guard(p)
  <2>1. PlacesOK'
    BY <1>0, <1>3, GotoPlaces DEF Guard, DrainPlaces, SweepPlaces, Locking, Running, Sweeping, DrainOnly, procVars
  <2> QED
    BY <1>0, <1>3, <2>1, FenceAssumption DEF Guard, TypeOK, DrainOnly, procVars, durable, drainVars, Work
<1>4. CASE Promote(p)
  <2>1. PlacesOK'
    BY <1>0, <1>4, GotoPlaces DEF Promote, DrainPlaces, SweepPlaces, Locking, Running, Sweeping, DrainOnly, procVars
  <2> QED
    BY <1>0, <1>4, <2>1, FenceAssumption DEF Promote, TypeOK, DrainOnly, procVars, durable, drainVars, Work
<1>5. CASE Dispatch(p)
  <2>1. PlacesOK'
    BY <1>0, <1>5, GotoPlaces DEF Dispatch, DrainPlaces, SweepPlaces, Locking, Running, Sweeping, DrainOnly, procVars
  <2> QED
    BY <1>0, <1>5, <2>1, FenceAssumption DEF Dispatch, TypeOK, DrainOnly, procVars, durable, drainVars, Work
<1>6. CASE StreamEnds(p)
  <2>1. PlacesOK'
    BY <1>0, <1>6, GotoPlaces DEF StreamEnds, DrainPlaces, SweepPlaces, Locking, Running, Sweeping, DrainOnly, procVars
  <2> QED
    BY <1>0, <1>6, <2>1, FenceAssumption DEF StreamEnds, TypeOK, DrainOnly, procVars, durable, drainVars, Work
<1>7. CASE Backoff(p)
  <2>1. PlacesOK'
    BY <1>0, <1>7, GotoPlaces DEF Backoff, DrainPlaces, SweepPlaces, Locking, Running, Sweeping, DrainOnly, procVars
  <2> QED
    BY <1>0, <1>7, <2>1, FenceAssumption DEF Backoff, TypeOK, DrainOnly, procVars, durable, drainVars, Work
<1>8. CASE ToolSettles(p)
  <2>1. PlacesOK'
    BY <1>0, <1>8, GotoPlaces DEF ToolSettles, DrainPlaces, SweepPlaces, Locking, Running, Sweeping, DrainOnly, procVars
  <2> QED
    BY <1>0, <1>8, <2>1, FenceAssumption DEF ToolSettles, TypeOK, DrainOnly, procVars, durable, drainVars, Work
<1>9. CASE ToolDeclined(p)
  <2>1. PlacesOK'
    BY <1>0, <1>9, GotoPlaces DEF ToolDeclined, DrainPlaces, SweepPlaces, Locking, Running, Sweeping, DrainOnly, procVars
  <2> QED
    BY <1>0, <1>9, <2>1, FenceAssumption DEF ToolDeclined, TypeOK, DrainOnly, procVars, durable, drainVars, Work
<1>10. CASE StepEnds(p)
  <2>1. PlacesOK'
    BY <1>0, <1>10, GotoPlaces DEF StepEnds, DrainPlaces, SweepPlaces, Locking, Running, Sweeping, DrainOnly, procVars
  <2> QED
    BY <1>0, <1>10, <2>1, FenceAssumption DEF StepEnds, TypeOK, DrainOnly, procVars, durable, drainVars, Work
<1>11. CASE AfterTurn(p)
  <2>1. PlacesOK'
    BY <1>0, <1>11, GotoPlaces DEF AfterTurn, DrainPlaces, SweepPlaces, Locking, Running, Sweeping, DrainOnly, procVars
  <2> QED
    BY <1>0, <1>11, <2>1, FenceAssumption DEF AfterTurn, TypeOK, DrainOnly, procVars, durable, drainVars, Work
<1>12. CASE Stopped(p)
  <2>1. PlacesOK'
    BY <1>0, <1>12, GotoPlaces DEF Stopped, DrainPlaces, SweepPlaces, Locking, Running, Sweeping, DrainOnly, procVars
  <2> QED
    BY <1>0, <1>12, <2>1, FenceAssumption DEF Stopped, TypeOK, DrainOnly, procVars, durable, drainVars, Work
<1> QED
  BY <1>1, <1>2, <1>3, <1>4, <1>5, <1>6, <1>7, <1>8, <1>9, <1>10, <1>11, <1>12 DEF Run

LEMMA ClientType ==
  ASSUME TypeOK, NEW p \in Procs, Client(p)
  PROVE  TypeOK'
<1>0. PlacesOK /\ Drain(p) \in Task /\ Drain(p)[2] = "drain"
  BY TaskForms DEF TypeOK
<1>1. CASE Prompt(p)
  <2>1. PlacesOK'
    BY <1>0, <1>1, GotoPlaces DEF Prompt, Wakes, Asked, Goto, DrainPlaces, SweepPlaces, Locking, Running, Sweeping, procVars, PlacesOK
  <2> QED
    BY <1>0, <1>1, <2>1 DEF Prompt, Wakes, Stronger, Asked, TypeOK, procVars, durable, drainVars
<1>2. CASE AdmitOnly(p)
  <2>1. PlacesOK'
    BY <1>0, <1>2, GotoPlaces DEF AdmitOnly, Wakes, Asked, Goto, DrainPlaces, SweepPlaces, Locking, Running, Sweeping, procVars, PlacesOK
  <2> QED
    BY <1>0, <1>2, <2>1 DEF AdmitOnly, Wakes, Stronger, Asked, TypeOK, procVars, durable, drainVars
<1>3. CASE Resume(p)
  <2>1. PlacesOK'
    BY <1>0, <1>3, GotoPlaces DEF Resume, Wakes, Asked, Goto, DrainPlaces, SweepPlaces, Locking, Running, Sweeping, procVars, PlacesOK
  <2> QED
    BY <1>0, <1>3, <2>1 DEF Resume, Wakes, Stronger, Asked, TypeOK, procVars, durable, drainVars
<1>4. CASE Interrupt(p)
  <2>1. PlacesOK'
    BY <1>0, <1>4, GotoPlaces DEF Interrupt, Wakes, Asked, Goto, DrainPlaces, SweepPlaces, Locking, Running, Sweeping, procVars, PlacesOK
  <2> QED
    BY <1>0, <1>4, <2>1 DEF Interrupt, Wakes, Stronger, Asked, TypeOK, procVars, durable, drainVars
<1>5. CASE ResolveBlocker(p)
  <2>1. PlacesOK'
    BY <1>0, <1>5, GotoPlaces DEF ResolveBlocker, Wakes, Asked, Goto, DrainPlaces, SweepPlaces, Locking, Running, Sweeping, procVars, PlacesOK
  <2> QED
    BY <1>0, <1>5, <2>1 DEF ResolveBlocker, Wakes, Stronger, Asked, TypeOK, procVars, durable, drainVars
<1> QED
  BY <1>1, <1>2, <1>3, <1>4, <1>5 DEF Client

LEMMA ProcessType ==
  ASSUME TypeOK, NEW p \in Procs, Boot(p) \/ Crash(p)
  PROVE  TypeOK'
<1>0. PlacesOK /\ Drain(p) \in Task /\ Sweep(p) \in Task
  BY TaskForms DEF TypeOK
<1>1. CASE Boot(p)
  <2>1. boot' \in [Procs -> 0..MaxBoots] /\ up' \in [Procs -> BOOLEAN]
    BY <1>1, FenceAssumption DEF Boot, TypeOK
  <2>2. PlacesOK'
    <3>1. /\ pc' \in [Task -> DrainPlaces \cup SweepPlaces]
          /\ \A t \in Task : pc'[t] = IF t = Drain(p) THEN "idle" ELSE IF t = Sweep(p) THEN "lock" ELSE pc[t]
      BY <1>0, <1>1, TaskForms DEF Boot, PlacesOK, DrainPlaces, SweepPlaces
    <3>2. \A q \in Procs : /\ pc'[Drain(q)] = IF q = p THEN "idle" ELSE pc[Drain(q)]
                           /\ pc'[Sweep(q)] = IF q = p THEN "lock" ELSE pc[Sweep(q)]
      BY <3>1, TaskForms
    <3>3. \A q \in Procs : /\ q # p => (up'[q] <=> up[q])
                           /\ q = p => up'[q]
                           /\ up'[q] => boot'[q] > 0
      BY <1>0, <1>1 DEF Boot, TypeOK, PlacesOK
    <3>4. "idle" \in DrainPlaces /\ "lock" \in SweepPlaces
      BY DEF DrainPlaces, SweepPlaces
    <3>5. ASSUME NEW q \in Procs
          PROVE  /\ pc'[Drain(q)] \in DrainPlaces /\ pc'[Sweep(q)] \in SweepPlaces
                 /\ up'[q] <=> pc'[Drain(q)] # "off"
                 /\ up'[q] <=> pc'[Sweep(q)] # "off"
                 /\ up'[q] => boot'[q] > 0
      <4>1. CASE q = p
        BY <3>2, <3>3, <3>4, <4>1
      <4>2. CASE q # p
        BY <1>0, <3>2, <3>3, <4>2 DEF PlacesOK
      <4> QED
        BY <4>1, <4>2
    <3>6. pc' \in [Task -> DrainPlaces \cup SweepPlaces]
      BY <3>1
    <3> QED
      BY <3>5, <3>6, Zenon DEF PlacesOK
  <2> QED
    BY <1>1, <2>1, <2>2 DEF Boot, TypeOK, durable, drainVars
<1>2. CASE Crash(p)
  <2>1. PlacesOK'
    <3>1. /\ pc' \in [Task -> DrainPlaces \cup SweepPlaces]
          /\ \A t \in Task : pc'[t] = IF t = Drain(p) THEN "off" ELSE IF t = Sweep(p) THEN "off" ELSE pc[t]
      BY <1>0, <1>2, TaskForms DEF Crash, PlacesOK, DrainPlaces, SweepPlaces
    <3>2. \A q \in Procs : /\ pc'[Drain(q)] = IF q = p THEN "off" ELSE pc[Drain(q)]
                           /\ pc'[Sweep(q)] = IF q = p THEN "off" ELSE pc[Sweep(q)]
      BY <3>1, TaskForms
    <3>3. \A q \in Procs : /\ q # p => (up'[q] <=> up[q])
                           /\ q = p => ~up'[q]
                           /\ up'[q] => boot'[q] > 0
      BY <1>0, <1>2 DEF Crash, TypeOK, PlacesOK
    <3>4. "off" \in DrainPlaces /\ "off" \in SweepPlaces
      BY DEF DrainPlaces, SweepPlaces
    <3>5. ASSUME NEW q \in Procs
          PROVE  /\ pc'[Drain(q)] \in DrainPlaces /\ pc'[Sweep(q)] \in SweepPlaces
                 /\ up'[q] <=> pc'[Drain(q)] # "off"
                 /\ up'[q] <=> pc'[Sweep(q)] # "off"
                 /\ up'[q] => boot'[q] > 0
      <4>1. CASE q = p
        BY <3>2, <3>3, <3>4, <4>1
      <4>2. CASE q # p
        BY <1>0, <3>2, <3>3, <4>2 DEF PlacesOK
      <4> QED
        BY <4>1, <4>2
    <3>6. pc' \in [Task -> DrainPlaces \cup SweepPlaces]
      BY <3>1
    <3> QED
      BY <3>5, <3>6, Zenon DEF PlacesOK
  <2>2. obs' \in [Task -> Owners \cup {None}] /\ tries' \in [Task -> 0..(MaxClaims - 1)]
    BY <1>0, <1>2, FenceAssumption DEF Crash, TypeOK
  <2> QED
    BY <1>2, <2>1, <2>2 DEF Crash, TypeOK, durable, Decision
<1> QED
  BY <1>1, <1>2

LEMMA TypeStep == TypeOK /\ [Next]_vars => TypeOK'
<1> SUFFICES ASSUME TypeOK, [Next]_vars PROVE TypeOK'
  OBVIOUS
<1>1. CASE UNCHANGED vars
  BY <1>1 DEF vars, procVars, durable, drainVars, TypeOK, PlacesOK
<1>2. CASE Next
  BY <1>2, LockingType, EndsType, RecoverType, RunType, ClientType, ProcessType
  DEF Next, TaskStep, Claim
<1> QED
  BY <1>1, <1>2

(* TypeOK of ExecutionFence: the columns, the lock and the places of all    *)
(* tasks stay typed, for any set of pids and any bounds.                    *)
THEOREM FenceTypeCorrect == Spec => []TypeOK
  BY InitType, TypeStep, PTL DEF Spec

-----------------------------------------------------------------------------
(* What each group of actions leaves alone.                                  *)

(* Going to l is a move of one task. *)
LEMMA GotoMoves ==
  ASSUME TypeOK, NEW t \in Task, NEW l, Goto(t, l)
  PROVE  \A u \in Task : pc'[u] = IF u = t THEN l ELSE pc[u]
  BY DEF Goto, TypeOK, PlacesOK

LEMMA RunFrame ==
  ASSUME TypeOK, NEW p \in Procs, Run(p) \/ Stopped(p)
  PROVE  /\ \A u \in Task : u # Drain(p) => pc'[u] = pc[u]
         /\ pc[Drain(p)] \in {"read", "judge"} \cup Running
         /\ pc'[Drain(p)] \in {"unlock", "release"} \cup Running
         /\ pc'[Drain(p)] \in Claimed <=> pc[Drain(p)] \in Running
         /\ \A u \in Task : /\ obs'[u] = obs[u] \/ obs'[u] = None
                            /\ u # Drain(p) => obs'[u] = obs[u]
         /\ UNCHANGED <<up, boot, lock, exec, writer, plan>>
<1>1. CASE Reconcile(p)
  BY <1>1, TaskForms, GotoMoves
  DEF Reconcile, DrainOnly, procVars, durable, drainVars, Running, Claimed, Sweeping, TypeOK
<1>2. CASE GuardElapsed(p)
  BY <1>2, TaskForms, GotoMoves
  DEF GuardElapsed, DrainOnly, procVars, durable, drainVars, Running, Claimed, Sweeping, TypeOK
<1>3. CASE Guard(p)
  BY <1>3, TaskForms, GotoMoves
  DEF Guard, DrainOnly, procVars, durable, drainVars, Running, Claimed, Sweeping, TypeOK
<1>4. CASE Promote(p)
  BY <1>4, TaskForms, GotoMoves
  DEF Promote, DrainOnly, procVars, durable, drainVars, Running, Claimed, Sweeping, TypeOK
<1>5. CASE Dispatch(p)
  BY <1>5, TaskForms, GotoMoves
  DEF Dispatch, DrainOnly, procVars, durable, drainVars, Running, Claimed, Sweeping, TypeOK
<1>6. CASE StreamEnds(p)
  BY <1>6, TaskForms, GotoMoves
  DEF StreamEnds, DrainOnly, procVars, durable, drainVars, Running, Claimed, Sweeping, TypeOK
<1>7. CASE Backoff(p)
  BY <1>7, TaskForms, GotoMoves
  DEF Backoff, DrainOnly, procVars, durable, drainVars, Running, Claimed, Sweeping, TypeOK
<1>8. CASE ToolSettles(p)
  BY <1>8, TaskForms, GotoMoves
  DEF ToolSettles, DrainOnly, procVars, durable, drainVars, Running, Claimed, Sweeping, TypeOK
<1>9. CASE ToolDeclined(p)
  BY <1>9, TaskForms, GotoMoves
  DEF ToolDeclined, DrainOnly, procVars, durable, drainVars, Running, Claimed, Sweeping, TypeOK
<1>10. CASE StepEnds(p)
  BY <1>10, TaskForms, GotoMoves
  DEF StepEnds, DrainOnly, procVars, durable, drainVars, Running, Claimed, Sweeping, TypeOK
<1>11. CASE AfterTurn(p)
  BY <1>11, TaskForms, GotoMoves
  DEF AfterTurn, DrainOnly, procVars, durable, drainVars, Running, Claimed, Sweeping, TypeOK
<1>12. CASE Stopped(p)
  BY <1>12, TaskForms, GotoMoves
  DEF Stopped, DrainOnly, procVars, durable, drainVars, Running, Claimed, Sweeping, TypeOK
<1> QED
  BY <1>1, <1>2, <1>3, <1>4, <1>5, <1>6, <1>7, <1>8, <1>9, <1>10, <1>11, <1>12 DEF Run

LEMMA RecoverFrame ==
  ASSUME TypeOK, NEW p \in Procs, Recover(p)
  PROVE  /\ \A u \in Task : u # Sweep(p) => pc'[u] = pc[u] \/ (pc[u] = "idle" /\ pc'[u] = "lock")
         /\ pc[Sweep(p)] \in Sweeping
         /\ pc'[Sweep(p)] \in Sweeping \cup {"release"}
         /\ \A u \in Task : /\ obs'[u] \in {obs[u], None, writer}
                            /\ u # Sweep(p) => obs'[u] = obs[u]
         /\ writer' \in {writer, Owner(p), None}
         /\ UNCHANGED <<up, boot, lock, exec>>
<1>1. CASE EventOwnerRead(p)
  BY <1>1, TaskForms, GotoMoves
  DEF EventOwnerRead, SweepOnly, procVars, durable, drainVars, Sweeping, TypeOK
<1>2. CASE EventOwnerJudge(p)
  BY <1>2, TaskForms, GotoMoves
  DEF EventOwnerJudge, SweepOnly, procVars, durable, drainVars, Sweeping, TypeOK
<1>3. CASE EventClaim(p)
  BY <1>3, TaskForms, GotoMoves
  DEF EventClaim, SweepOnly, procVars, durable, drainVars, Sweeping, TypeOK
<1>4. CASE Decide(p)
  BY <1>4, TaskForms, GotoMoves
  DEF Decide, SweepOnly, procVars, durable, drainVars, Sweeping, TypeOK
<1>5. CASE ActWake(p)
  BY <1>5, TaskForms, GotoMoves
  DEF ActWake, SweepOnly, Wakes, procVars, durable, drainVars, Sweeping, TypeOK, PlacesOK
<1>6. CASE ActBlock(p)
  BY <1>6, TaskForms, GotoMoves
  DEF ActBlock, SweepOnly, procVars, durable, drainVars, Sweeping, TypeOK
<1>7. CASE ActDone(p)
  BY <1>7, TaskForms, GotoMoves
  DEF ActDone, SweepOnly, procVars, durable, drainVars, Sweeping, TypeOK
<1>8. CASE EventRelease(p)
  BY <1>8, TaskForms, GotoMoves
  DEF EventRelease, SweepOnly, procVars, durable, drainVars, Sweeping, TypeOK
<1> QED
  BY <1>1, <1>2, <1>3, <1>4, <1>5, <1>6, <1>7, <1>8 DEF Recover

LEMMA ClientFrame ==
  ASSUME TypeOK, NEW p \in Procs, Client(p)
  PROVE  /\ \A u \in Task : pc'[u] = pc[u] \/ (pc[u] = "idle" /\ pc'[u] = "lock")
         /\ UNCHANGED <<up, boot, lock, exec, writer, work, retry, obs, plan>>
<1>1. CASE Prompt(p)
  BY <1>1, TaskForms, GotoMoves DEF Prompt, Wakes, Asked, procVars, TypeOK, PlacesOK
<1>2. CASE AdmitOnly(p)
  BY <1>2, TaskForms, GotoMoves DEF AdmitOnly, Wakes, Asked, procVars, TypeOK, PlacesOK
<1>3. CASE Resume(p)
  BY <1>3, TaskForms, GotoMoves DEF Resume, Wakes, Asked, procVars, TypeOK, PlacesOK
<1>4. CASE Interrupt(p)
  BY <1>4, TaskForms, GotoMoves DEF Interrupt, Wakes, Asked, procVars, TypeOK, PlacesOK
<1>5. CASE ResolveBlocker(p)
  BY <1>5, TaskForms, GotoMoves DEF ResolveBlocker, Wakes, Asked, procVars, TypeOK, PlacesOK
<1> QED
  BY <1>1, <1>2, <1>3, <1>4, <1>5 DEF Client

LEMMA EndsFrame ==
  ASSUME TypeOK, NEW t \in Task, LockTimeout(t) \/ Unlock(t)
  PROVE  /\ \A u \in Task : u # t => pc'[u] = pc[u]
         /\ pc[t] \in {"lock", "unlock"} /\ pc'[t] \in {"idle", "lock", "done"}
         /\ lock' = lock \/ (pc[t] = "unlock" /\ lock = Mine(t))
         /\ \A q \in Procs : plan'[q] = plan[q] \/ plan'[q] = "none"
         /\ UNCHANGED <<up, boot, exec, writer, work, retry, obs>>
<1>1. CASE t[2] = "drain"
  BY <1>1, TaskForms, GotoMoves
  DEF LockTimeout, Unlock, TaskEnds, DrainEnds, procVars, durable, TypeOK
<1>2. CASE t[2] = "sweep"
  BY <1>2, TaskForms, GotoMoves
  DEF LockTimeout, Unlock, TaskEnds, SweepEnds, procVars, durable, TypeOK
<1> QED
  BY <1>1, <1>2 DEF Task

LEMMA ClaimFrame ==
  ASSUME TypeOK, NEW t \in Task, Claim(t) \/ Release(t)
  PROVE  /\ \A u \in Task : u # t => pc'[u] = pc[u] /\ obs'[u] = obs[u]
         /\ pc[t] \in Locking \cup {"release"}
         /\ pc'[t] \in Claimed => ClaimWrite(t) /\ exec' = Owner(t[1])
         /\ pc'[t] \notin {"decide", "act"}
         /\ pc'[t] = "cas" => ClaimJudge(t) /\ obs'[t] = obs[t]
         /\ exec' \in {exec, Owner(t[1]), None}
         /\ obs'[t] \in {obs[t], exec, None}
         /\ UNCHANGED <<up, boot, lock, writer, work, retry, plan>>
<1>1. CASE ClaimRead(t)
  BY <1>1, GotoMoves DEF ClaimRead, TypeOK, Locking, Claimed, Running, Sweeping, procVars, durable
<1>2. CASE ClaimJudge(t)
  BY <1>2, GotoMoves DEF ClaimJudge, TypeOK, Locking, Claimed, Running, Sweeping, procVars, durable
<1>3. CASE ClaimWrite(t)
  BY <1>3, GotoMoves DEF ClaimWrite, TypeOK, Locking, Claimed, Running, Sweeping, procVars, durable
<1>4. CASE Release(t)
  BY <1>4, GotoMoves DEF Release, TypeOK, Locking, Claimed, Running, Sweeping, procVars, durable
<1> QED
  BY <1>1, <1>2, <1>3, <1>4 DEF Claim

LEMMA LockFrame ==
  ASSUME TypeOK, NEW t \in Task, Lock(t)
  PROVE  /\ \A u \in Task : u # t => pc'[u] = pc[u]
         /\ pc[t] = "lock" /\ pc'[t] = "read" /\ lock' = Mine(t)
         /\ UNCHANGED <<up, boot, exec, writer, work, retry, plan, obs>>
  BY GotoMoves DEF Lock, procVars, durable

LEMMA ProcessFrame ==
  ASSUME TypeOK, NEW p \in Procs, Boot(p) \/ Crash(p)
  PROVE  /\ \A u \in Task : /\ u[1] # p => pc'[u] = pc[u] /\ obs'[u] = obs[u]
                            /\ u[1] = p => pc'[u] \in {"idle", "lock", "off"}
                            /\ obs'[u] \in {obs[u], None}
         /\ \A q \in Procs : /\ q # p => boot'[q] = boot[q] /\ (up'[q] <=> up[q])
                             /\ boot'[q] >= boot[q]
                             /\ q # p => plan'[q] = plan[q]
                             /\ (up'[q] /\ ~up[q]) => boot'[q] > boot[q]
         /\ UNCHANGED <<lock, exec, writer, work, retry>>
<1>0. \A u \in Task : /\ u = Drain(p) \/ u = Sweep(p) => u[1] = p
                     /\ u[1] = p => u = Drain(p) \/ u = Sweep(p)
  BY TaskForms
<1>1. CASE Boot(p)
  BY <1>0, <1>1, TaskForms, FenceAssumption DEF Boot, TypeOK, PlacesOK, durable
<1>2. CASE Crash(p)
  BY <1>0, <1>2, TaskForms, FenceAssumption DEF Crash, TypeOK, PlacesOK, durable
<1> QED
  BY <1>1, <1>2

-----------------------------------------------------------------------------
(* What any step does to one task, and to the owner columns.                 *)

LEMMA TaskFrame ==
  ASSUME TypeOK, Next, NEW u \in Task
  PROVE  /\ Holding(u)' => (Holding(u) \/ Lock(u)) /\ boot'[u[1]] = boot[u[1]]
         /\ pc'[u] \in Claimed => pc[u] \in Claimed \/ (ClaimWrite(u) /\ exec' = Owner(u[1]))
         /\ pc'[u] \in {"decide", "act"} =>
              pc[u] \in {"decide", "act"} \/ \E p \in Procs : u = Sweep(p) /\ EventClaim(p)
         /\ pc'[u] = "cas" => obs'[u] = obs[u] /\ (pc[u] = "cas" \/ ClaimJudge(u))
<1>0. u[1] \in Procs /\ PlacesOK
  BY TaskForms DEF TypeOK
<1>1. CASE \E t \in Task : Lock(t)
  BY <1>1, LockFrame DEF Holding, Locking, Claimed, Running, Sweeping
<1>2. CASE \E t \in Task : LockTimeout(t) \/ Unlock(t)
  BY <1>2, EndsFrame DEF Holding, Locking, Claimed, Running, Sweeping
<1>3. CASE \E t \in Task : Claim(t) \/ Release(t)
  BY <1>3, ClaimFrame DEF Holding, Locking, Claimed, Running, Sweeping
<1>4. CASE \E p \in Procs : Run(p) \/ Stopped(p)
  BY <1>4, RunFrame, TaskForms DEF Holding, Locking, Claimed, Running, Sweeping
<1>5. CASE \E p \in Procs : Recover(p)
  <2>1. PICK p \in Procs : Recover(p)
    BY <1>5
  <2>2. Sweep(p) \in Task
    BY TaskForms
  <2>3. pc'[Sweep(p)] \in {"decide", "act"} => pc[Sweep(p)] \in {"decide", "act"} \/ EventClaim(p)
    BY <2>1, <2>2, GotoMoves DEF Recover, EventOwnerRead, EventOwnerJudge, Decide,
       ActWake, ActBlock, ActDone, EventRelease
  <2> QED
    BY <2>1, <2>2, <2>3, RecoverFrame DEF Holding, Locking, Claimed, Running, Sweeping
<1>6. CASE \E p \in Procs : Client(p)
  BY <1>6, ClientFrame DEF Holding, Locking, Claimed, Running, Sweeping
<1>7. CASE \E p \in Procs : Boot(p) \/ Crash(p)
  BY <1>0, <1>7, ProcessFrame DEF Holding, Locking, Claimed, Running, Sweeping
<1> QED
  BY <1>1, <1>2, <1>3, <1>4, <1>5, <1>6, <1>7 DEF Next, TaskStep

LEMMA ColumnFrame ==
  ASSUME TypeOK, Next
  PROVE  /\ exec' = exec \/ \E t \in Task : ClaimWrite(t) \/ Release(t)
         /\ writer' = writer \/ \E p \in Procs : EventClaim(p) \/ EventRelease(p)
         /\ lock' = lock \/ \E t \in Task : Lock(t) \/ (Unlock(t) /\ lock = Mine(t))
<1>1. CASE \E t \in Task : TaskStep(t)
  <2>1. PICK t \in Task : TaskStep(t)
    BY <1>1
  <2>2. CASE Lock(t)
    BY <2>2, LockFrame
  <2>3. CASE LockTimeout(t) \/ Unlock(t)
    BY <2>3, EndsFrame DEF LockTimeout, Unlock
  <2>4. CASE Claim(t) \/ Release(t)
    BY <2>4, ClaimFrame DEF Claim, ClaimRead, ClaimJudge
  <2> QED
    BY <2>1, <2>2, <2>3, <2>4 DEF TaskStep
<1>2. CASE \E p \in Procs : Recover(p)
  BY <1>2, RecoverFrame DEF Recover, EventOwnerRead, EventOwnerJudge, Decide,
     ActWake, ActBlock, ActDone, SweepOnly
<1>3. CASE \E p \in Procs : Run(p) \/ Stopped(p) \/ Client(p) \/ Boot(p) \/ Crash(p)
  BY <1>3, RunFrame, ClientFrame, ProcessFrame
<1> QED
  BY <1>1, <1>2, <1>3 DEF Next

-----------------------------------------------------------------------------
(* Mutual exclusion, as long as no live holder's lock is broken.             *)

LEMMA Exclusive ==
  ASSUME LockHeld, NEW t \in Task, NEW u \in Task, Holding(t), Holding(u)
  PROVE  t = u
<1>1. Mine(t) = Mine(u)
  BY DEF LockHeld
<1> QED
  BY <1>1 DEF Mine

(* A broken lock is counted, and nothing else changes the count. *)
LEMMA StallsGrow ==
  ASSUME TypeOK, Next
  PROVE  /\ stalls \in Nat /\ stalls' \in {stalls, stalls + 1}
         /\ stalls' = stalls => \A t \in Task : Lock(t) => lock = None \/ Stale(lock)
<1>1. stalls \in Nat
  BY FenceAssumption DEF TypeOK
<1>2. stalls' \in {stalls, stalls + 1}
  <2>1. ASSUME NEW t \in Task, TaskStep(t) PROVE stalls' \in {stalls, stalls + 1}
    BY <2>1 DEF TaskStep, Lock, LockTimeout, Claim, ClaimRead, ClaimJudge, ClaimWrite,
       Release, Unlock, drainVars
  <2>2. ASSUME NEW p \in Procs, Boot(p) \/ Crash(p) \/ Stopped(p) PROVE stalls' = stalls
    BY <2>2 DEF Boot, Crash, Stopped
  <2>3. ASSUME NEW p \in Procs, Recover(p) PROVE stalls' = stalls
    BY <2>3 DEF Recover, EventOwnerRead, EventOwnerJudge, EventClaim, Decide, ActWake, ActBlock,
       ActDone, EventRelease, SweepOnly
  <2>4. ASSUME NEW p \in Procs, Run(p) PROVE stalls' = stalls
    BY <2>4 DEF Run, Reconcile, GuardElapsed, Guard, Promote, Dispatch, StreamEnds, Backoff,
       ToolSettles, ToolDeclined, StepEnds, AfterTurn, DrainOnly
  <2>5. ASSUME NEW p \in Procs, Client(p) PROVE stalls' = stalls
    BY <2>5 DEF Client, Prompt, AdmitOnly, Resume, Interrupt, ResolveBlocker, Asked
  <2> QED
    BY <2>1, <2>2, <2>3, <2>4, <2>5 DEF Next
<1>3. ASSUME stalls' = stalls, NEW t \in Task, Lock(t) PROVE lock = None \/ Stale(lock)
  BY <1>1, <1>3 DEF Lock
<1> QED
  BY <1>1, <1>2, <1>3

LEMMA StallsStay ==
  ASSUME TypeOK, Next, stalls' = 0
  PROVE  stalls = 0
  BY StallsGrow

LEMMA LockHeldStep ==
  ASSUME stalls' = 0, TypeOK, LockHeld, Next
  PROVE  LockHeld'
<1> SUFFICES ASSUME NEW u \in Task, Holding(u)' PROVE lock' = Mine(u)'
  BY DEF LockHeld
<1>0. stalls \in Nat /\ stalls + 1 # 0
  BY FenceAssumption DEF TypeOK
<1>1. (Holding(u) \/ Lock(u)) /\ Mine(u)' = Mine(u)
  BY TaskFrame DEF Mine
<1>2. CASE Lock(u)
  BY <1>1, <1>2, LockFrame
<1>3. CASE Holding(u)
  <2>1. lock = Mine(u) /\ Mine(u) # None /\ ~Stale(Mine(u))
    <3>1. u[1] \in Procs /\ up[u[1]]
      BY <1>3, TaskForms DEF TypeOK, PlacesOK, Holding, Locking, Claimed, Running, Sweeping
    <3>2. Mine(u) # None
      BY FenceAssumption, OwnerTyped DEF Locks, Task
    <3> QED
      BY <1>3, <3>1, <3>2 DEF LockHeld, Stale, Mine
  <2>2. ~ \E t \in Task : Lock(t)
    BY <2>1, <1>0 DEF Lock
  <2>3. ASSUME NEW t \in Task, Unlock(t), lock = Mine(t) PROVE FALSE
    <3>1. t = u
      BY <1>3, <2>3, Exclusive DEF Holding, Locking, Unlock
    <3> QED
      BY <2>3, <3>1, EndsFrame DEF Holding, Locking, Claimed, Running, Sweeping
  <2> QED
    BY <1>1, <2>1, <2>2, <2>3, ColumnFrame
<1> QED
  BY <1>1, <1>2, <1>3

LEMMA ClaimHoldsStep ==
  ASSUME TypeOK, LockHeld, ClaimHolds, Next
  PROVE  ClaimHolds'
<1> SUFFICES ASSUME NEW u \in Task, pc'[u] \in Claimed PROVE exec' = Owner(u[1])'
  BY DEF ClaimHolds
<1>1. Owner(u[1])' = Owner(u[1])
  BY TaskFrame DEF Owner, Holding
<1>2. CASE ClaimWrite(u) /\ exec' = Owner(u[1])
  BY <1>1, <1>2
<1>3. CASE pc[u] \in Claimed
  <2>1. ASSUME NEW t \in Task, ClaimWrite(t) \/ Release(t) PROVE FALSE
    <3>1. t = u
      BY <1>3, <2>1, Exclusive DEF Holding, Locking, Claimed, ClaimWrite, Release
    <3> QED
      BY <1>3, <2>1, <3>1, GotoMoves DEF ClaimWrite, Release, Claimed, Running, Sweeping
  <2> QED
    BY <1>1, <1>3, <2>1, ColumnFrame DEF ClaimHolds
<1> QED
  BY <1>2, <1>3, TaskFrame

LEMMA WriterHeldStep ==
  ASSUME TypeOK, LockHeld, WriterHeld, Next
  PROVE  WriterHeld'
<1> SUFFICES ASSUME NEW p \in Procs, pc'[Sweep(p)] \in {"decide", "act"} PROVE writer' = Owner(p)'
  BY DEF WriterHeld
<1>0. Sweep(p) \in Task /\ Sweep(p)[1] = p
  BY TaskForms
<1>1. Owner(p)' = Owner(p)
  BY <1>0, TaskFrame DEF Owner, Holding, Claimed, Sweeping
<1>2. CASE EventClaim(p)
  BY <1>0, <1>1, <1>2, GotoMoves DEF EventClaim
<1>3. CASE pc[Sweep(p)] \in {"decide", "act"}
  <2>1. ASSUME NEW q \in Procs, EventClaim(q) \/ EventRelease(q) PROVE FALSE
    <3>1. Sweep(q) = Sweep(p)
      BY <1>0, <1>3, <2>1, Exclusive, TaskForms
      DEF Holding, Claimed, Sweeping, EventClaim, EventRelease
    <3> QED
      BY <1>3, <2>1, <3>1 DEF EventClaim, EventRelease
  <2> QED
    BY <1>1, <1>3, <2>1, ColumnFrame DEF WriterHeld
<1> QED
  BY <1>0, <1>2, <1>3, TaskFrame, TaskForms

(* What the plan of p claims of the Session. *)
LEMMA PlanStep ==
  ASSUME TypeOK, LockHeld, WriterHeld, PlanCurrent, Next
  PROVE  PlanCurrent'
<1> SUFFICES ASSUME NEW p \in Procs, pc'[Sweep(p)] = "act"
             PROVE  (/\ plan[p] = "tool" => work = "tool" /\ writer = Owner(p)
                     /\ plan[p] = "provider" => work = "provider"
                     /\ plan[p] = "continue" => work = "settled"
                     /\ plan[p] = "retry" => work = "idle" /\ retry)'
  BY DEF PlanCurrent
<1>0. Sweep(p) \in Task /\ Sweep(p)[1] = p /\ Drain(p) \in Task
  BY TaskForms
<1>1. Owner(p)' = Owner(p)
  BY <1>0, TaskFrame DEF Owner, Holding, Claimed, Sweeping
<1>2. CASE Decide(p)
  <2>1. plan'[p] = Classify /\ writer = Owner(p) /\ UNCHANGED <<work, retry, writer>>
    BY <1>0, <1>2 DEF Decide, SweepOnly, WriterHeld, durable, TypeOK
  <2>2. /\ Classify = "tool" => work = "tool"
        /\ Classify = "provider" => work = "provider"
        /\ Classify = "continue" => work = "settled"
        /\ Classify = "retry" => work = "idle" /\ retry
    BY DEF Classify, TypeOK, Work
  <2> QED
    BY <1>1, <2>1, <2>2
<1>3. CASE pc[Sweep(p)] = "act" /\ plan'[p] = "none"
  BY <1>3
<1>4. CASE pc[Sweep(p)] = "act" /\ plan'[p] = plan[p] /\ UNCHANGED <<work, retry, writer>>
  BY <1>1, <1>4 DEF PlanCurrent
<1>5. Decide(p) \/ (pc[Sweep(p)] = "act" /\ (plan'[p] = "none" \/
        (plan'[p] = plan[p] /\ UNCHANGED <<work, retry, writer>>)))
  <2>1. CASE \E t \in Task : TaskStep(t)
    <3>1. PICK t \in Task : TaskStep(t)
      BY <2>1
    <3>2. CASE Lock(t)
      BY <1>0, <3>2, LockFrame
    <3>3. CASE LockTimeout(t) \/ Unlock(t)
      BY <1>0, <3>3, EndsFrame
    <3>4. CASE Claim(t) \/ Release(t)
      BY <1>0, <3>4, ClaimFrame DEF Locking
    <3> QED
      BY <3>1, <3>2, <3>3, <3>4 DEF TaskStep
  <2>2. CASE \E q \in Procs : Recover(q)
    <3>1. PICK q \in Procs : Recover(q)
      BY <2>2
    <3>2. CASE q = p
      BY <1>0, <3>1, <3>2, GotoMoves
      DEF Recover, EventOwnerRead, EventOwnerJudge, EventClaim, ActWake, ActBlock, ActDone,
          EventRelease, TypeOK
    <3>3. CASE q # p
      <4>1. pc[Sweep(p)] = "act" /\ Holding(Sweep(p)) /\ Holding(Sweep(q)) /\ Sweep(q) \in Task
        BY <1>0, <3>1, <3>3, RecoverFrame, TaskForms DEF Holding, Claimed, Sweeping
      <4> QED
        BY <1>0, <3>3, <4>1, Exclusive, TaskForms
    <3> QED
      BY <3>2, <3>3
  <2>3. CASE \E q \in Procs : Run(q) \/ Stopped(q)
    <3>1. PICK q \in Procs : Run(q) \/ Stopped(q)
      BY <2>3
    <3>2. pc[Sweep(p)] = "act" /\ Holding(Sweep(p)) /\ Holding(Drain(q)) /\ Drain(q) \in Task
      BY <1>0, <3>1, RunFrame, TaskForms DEF Holding, Locking, Claimed, Sweeping
    <3> QED
      BY <1>0, <3>2, Exclusive, TaskForms
  <2>4. CASE \E q \in Procs : Client(q)
    BY <1>0, <2>4, ClientFrame
  <2>5. CASE \E q \in Procs : Boot(q) \/ Crash(q)
    BY <1>0, <2>5, ProcessFrame
  <2> QED
    BY <2>1, <2>2, <2>3, <2>4, <2>5 DEF Next
<1> QED
  BY <1>2, <1>3, <1>4, <1>5

(* The inductive invariant of the fences, until the lock of a live holder    *)
(* is broken: the lock is with whoever is inside it, the owner column with   *)
(* whoever passed its claim, and recovery acts on evidence that is still     *)
(* true.                                                                     *)
THEOREM FenceInvariance == Spec => [](TypeOK /\ (stalls = 0 => LockInv))
<1> DEFINE Inv == TypeOK /\ (stalls = 0 => LockInv)
<1>1. Init => Inv
  BY InitType, TaskForms DEF LockInv, LockHeld, ClaimHolds, WriterHeld, PlanCurrent, Init,
     Holding, Locking, Claimed, Running, Sweeping
<1>2. Inv /\ [Next]_vars => Inv'
  <2> SUFFICES ASSUME TypeOK, stalls = 0 => LockInv, [Next]_vars
               PROVE  TypeOK' /\ (stalls' = 0 => LockInv')
    OBVIOUS
  <2>1. TypeOK'
    BY TypeStep
  <2>2. ASSUME UNCHANGED vars, stalls' = 0 PROVE LockInv'
    BY <2>1, <2>2 DEF LockInv, LockHeld, ClaimHolds, WriterHeld, PlanCurrent, Holding, Mine,
       Owner, vars, procVars, durable
  <2>3. ASSUME Next, stalls' = 0 PROVE LockInv'
    <3>1. stalls = 0
      BY <2>3, StallsStay
    <3> QED
      BY <2>1, <2>3, <3>1, LockHeldStep, ClaimHoldsStep, WriterHeldStep, PlanStep DEF LockInv
  <2> QED
    BY <2>1, <2>2, <2>3
<1> QED
  BY <1>1, <1>2, PTL DEF Spec

(* OneCritical: no two drains or sweeps of any processes are past their     *)
(* claims, so no turn runs twice and none runs during recovery.             *)
THEOREM MutualExclusion == Spec => []OneCritical
<1>1. (stalls = 0 => LockInv) => OneCritical
  BY Exclusive DEF LockInv, OneCritical, Holding
<1> QED
  BY <1>1, FenceInvariance, PTL

(* ClaimHolds: whoever is past its claim is the recorded owner, as long as  *)
(* no live holder lost its lock.                                            *)
THEOREM ClaimIsRecorded == Spec => [](stalls = 0 => ClaimHolds)
<1>1. (stalls = 0 => LockInv) => (stalls = 0 => ClaimHolds)
  BY DEF LockInv
<1> QED
  BY <1>1, FenceInvariance, PTL

(* PlanStillTrue: recovery acts on evidence that is still true. *)
THEOREM RecoveryIsCurrent == Spec => []PlanStillTrue
<1>1. (stalls = 0 => LockInv) => PlanStillTrue
  BY DEF LockInv, PlanStillTrue
<1> QED
  BY <1>1, FenceInvariance, PTL

-----------------------------------------------------------------------------
(* Ownership, whatever happens to the lock.                                  *)

LEMMA OwnerStep ==
  ASSUME OwnerInv, Next
  PROVE  OwnerInv'
<1>0. TypeOK /\ TypeOK' /\ KnownOwners /\ JudgedGone
  BY TypeStep DEF OwnerInv
<1>1. \A q \in Procs : boot[q] \in Nat /\ boot'[q] \in Nat /\ boot'[q] >= boot[q]
  <2>1. \A q \in Procs : boot'[q] = boot[q] \/ boot'[q] >= boot[q]
    <3>1. CASE \E p \in Procs : Boot(p) \/ Crash(p)
      BY <1>0, <3>1, ProcessFrame
    <3>2. CASE \E t \in Task : TaskStep(t)
      BY <1>0, <3>2, LockFrame, EndsFrame, ClaimFrame DEF TaskStep
    <3>3. CASE \E p \in Procs : Recover(p) \/ Run(p) \/ Stopped(p) \/ Client(p)
      BY <1>0, <3>3, RecoverFrame, RunFrame, ClientFrame
    <3> QED
      BY <3>1, <3>2, <3>3 DEF Next
  <2> QED
    BY <1>0, <2>1, FenceAssumption DEF TypeOK
<1>2. \A o : o \in Owners /\ Known(o) => Known(o)'
  BY <1>1, FenceAssumption DEF Known, Owners
<1>3. ASSUME NEW q \in Procs PROVE Known(Owner(q)) /\ Owner(q) \in Owners
  BY <1>0, <1>1, <1>3, FenceAssumption DEF Known, Owner, Owners, TypeOK
<1>4. \A t \in Task : obs'[t] \in {obs[t], exec, writer, None}
  <2>1. CASE \E t \in Task : TaskStep(t)
    BY <1>0, <2>1, LockFrame, EndsFrame, ClaimFrame DEF TaskStep
  <2>2. CASE \E p \in Procs : Recover(p) \/ Run(p) \/ Stopped(p) \/ Client(p) \/ Boot(p) \/ Crash(p)
    BY <1>0, <2>2, RecoverFrame, RunFrame, ClientFrame, ProcessFrame
  <2> QED
    BY <2>1, <2>2 DEF Next
<1>5. \E q \in Procs : exec' \in {exec, Owner(q), None} /\ writer' \in {writer, Owner(q), None}
  <2>1. CASE \E t \in Task : TaskStep(t)
    BY <1>0, <2>1, LockFrame, EndsFrame, ClaimFrame, TaskForms DEF TaskStep
  <2>2. CASE \E p \in Procs : Recover(p) \/ Run(p) \/ Stopped(p) \/ Client(p) \/ Boot(p) \/ Crash(p)
    BY <1>0, <2>2, RecoverFrame, RunFrame, ClientFrame, ProcessFrame
  <2> QED
    BY <2>1, <2>2 DEF Next
<1>6. KnownOwners'
  <2>1. \A o : o \in Owners \cup {None} /\ Known(o) => Known(o)'
    BY <1>2 DEF Known
  <2>2. Known(None)
    BY DEF Known
  <2>3. /\ exec \in Owners \cup {None} /\ writer \in Owners \cup {None}
        /\ \A t \in Task : obs[t] \in Owners \cup {None}
    BY <1>0 DEF TypeOK
  <2>4. Known(exec)' /\ Known(writer)'
    <3>1. PICK q \in Procs : exec' \in {exec, Owner(q), None} /\ writer' \in {writer, Owner(q), None}
      BY <1>5
    <3>2. ASSUME NEW o \in Owners \cup {None}, Known(o) PROVE o # None => o[2] <= boot'[o[1]]
      BY <2>1, <3>2 DEF Known
    <3> QED
      BY <1>0, <1>3, <2>2, <2>3, <3>1, <3>2 DEF Known, KnownOwners
  <2>5. \A t \in Task : Known(obs[t])'
    <3>1. ASSUME NEW o \in Owners \cup {None}, Known(o) PROVE o # None => o[2] <= boot'[o[1]]
      BY <2>1, <3>1 DEF Known
    <3> QED
      BY <1>0, <1>4, <2>2, <2>3, <3>1 DEF Known, KnownOwners
  <2> QED
    BY <2>4, <2>5 DEF KnownOwners
<1>7. JudgedGone'
  <2> SUFFICES ASSUME NEW u \in Task, pc'[u] = "cas"
               PROVE  (obs[u] \in {None, Owner(u[1])} \/ ~IsLive(obs[u]))'
    BY DEF JudgedGone
  <2>1. obs'[u] = obs[u] /\ (pc[u] = "cas" \/ ClaimJudge(u)) /\ Owner(u[1])' = Owner(u[1])
    BY <1>0, TaskFrame DEF Owner, Holding, Locking
  <2>2. obs[u] \in {None, Owner(u[1])} \/ ~IsLive(obs[u])
    BY <1>0, <2>1, GotoMoves DEF JudgedGone, ClaimJudge
  <2>3. ASSUME obs[u] # None, ~IsLive(obs[u]) PROVE ~IsLive(obs[u])'
    <3>1. obs[u] \in Owners /\ obs[u][2] <= boot[obs[u][1]]
      BY <1>0, <2>3 DEF TypeOK, KnownOwners, Known
    <3>2. ASSUME NEW q \in Procs, boot'[q] = obs[u][2], boot[q] >= obs[u][2], up'[q]
          PROVE  boot[q] = obs[u][2] /\ up[q]
      <4>1. boot'[q] = boot[q]
        BY <1>1, <3>1, <3>2 DEF Owners
      <4>2. CASE \E p \in Procs : Boot(p) \/ Crash(p)
        BY <1>0, <1>1, <3>2, <4>1, <4>2, ProcessFrame
      <4>3. CASE up' = up
        BY <3>2, <4>1, <4>3
      <4>4. up' = up \/ \E p \in Procs : Boot(p) \/ Crash(p)
        BY <1>0, LockFrame, EndsFrame, ClaimFrame, RecoverFrame, RunFrame, ClientFrame
        DEF Next, TaskStep
      <4> QED
        BY <3>2, <4>1, <4>2, <4>3, <4>4
    <3>3. obs[u][1] \in Procs /\ ProcIdentity /\ ~(up[obs[u][1]] /\ boot[obs[u][1]] = obs[u][2])
      BY <2>3, <3>1 DEF IsLive, Owners
    <3>4. ~(up'[obs[u][1]] /\ boot'[obs[u][1]] = obs[u][2])
      BY <3>1, <3>2, <3>3
    <3> QED
      BY <2>1, <3>3, <3>4 DEF IsLive
  <2> QED
    BY <2>1, <2>2, <2>3
<1> QED
  BY <1>0, <1>6, <1>7 DEF OwnerInv

THEOREM OwnerInvariance == Spec => []OwnerInv
<1>1. Init => OwnerInv
  BY InitType DEF OwnerInv, KnownOwners, Known, JudgedGone, Init
<1>2. OwnerInv /\ [Next]_vars => OwnerInv'
  <2> SUFFICES ASSUME OwnerInv, [Next]_vars PROVE OwnerInv'
    OBVIOUS
  <2>1. CASE UNCHANGED vars
    BY <2>1, TypeStep DEF OwnerInv, KnownOwners, Known, JudgedGone, IsLive, Owner, vars, procVars
  <2> QED
    BY <2>1, OwnerStep
<1> QED
  BY <1>1, <1>2, PTL DEF Spec

(* OwnershipNeverStolen: a recorded owner that is live loses the claim only *)
(* by its own release, even when locks of live holders are broken.          *)
THEOREM NeverStolen == Spec => OwnershipNeverStolen
<1>1. OwnerInv /\ [Next]_vars =>
        [exec # exec' /\ exec # None /\ IsLive(exec) =>
           exec' = None /\ \E k \in {"drain", "sweep"} : pc[<<exec[1], k>>] = "release"]_vars
  <2> SUFFICES ASSUME OwnerInv, Next, exec # exec', exec # None, IsLive(exec)
               PROVE  exec' = None /\ \E k \in {"drain", "sweep"} : pc[<<exec[1], k>>] = "release"
    OBVIOUS
  <2>0. TypeOK /\ JudgedGone
    BY DEF OwnerInv
  <2>1. PICK t \in Task : ClaimWrite(t) \/ Release(t)
    BY <2>0, ColumnFrame
  <2>2. CASE ClaimWrite(t)
    BY <2>0, <2>2 DEF ClaimWrite, JudgedGone
  <2>3. CASE Release(t)
    BY <2>3 DEF Release, Owner, Task
  <2> QED
    BY <2>1, <2>2, <2>3
<1> QED
  BY <1>1, OwnerInvariance, PTL DEF Spec, OwnershipNeverStolen

-----------------------------------------------------------------------------
(* No live process is left as owner.                                         *)

(* The only ways out of a claim and out of recovery. *)
LEMMA LeaveFrame ==
  ASSUME TypeOK, Next, NEW u \in Task, ~ \E p \in Procs : u[1] = p /\ (Boot(p) \/ Crash(p))
  PROVE  /\ boot'[u[1]] = boot[u[1]] /\ (up'[u[1]] <=> up[u[1]])
         /\ pc[u] \in Claimed => pc'[u] \in Claimed \/ Release(u)
         /\ pc[u] \in Sweeping => pc'[u] \in Sweeping \/ \E p \in Procs : u = Sweep(p) /\ EventRelease(p)
<1>0. u[1] \in Procs
  BY TaskForms
<1>1. CASE \E t \in Task : TaskStep(t)
  <2>1. PICK t \in Task : TaskStep(t)
    BY <1>1
  <2>2. CASE Lock(t)
    BY <2>2, LockFrame DEF Claimed, Running, Sweeping
  <2>3. CASE LockTimeout(t) \/ Unlock(t)
    BY <2>3, EndsFrame DEF Claimed, Running, Sweeping
  <2>4. CASE Claim(t) \/ Release(t)
    <3>1. CASE u = t
      <4>1. pc[t] \in Locking \cup {"release"} /\ UNCHANGED <<up, boot>>
        BY <2>4, ClaimFrame
      <4>2. pc[t] \in Claimed => Release(t)
        BY <2>4 DEF Claim, ClaimRead, ClaimJudge, ClaimWrite, Claimed, Running, Sweeping
      <4> QED
        BY <3>1, <4>1, <4>2 DEF Locking, Sweeping
    <3>2. CASE u # t
      <4>1. pc'[u] = pc[u] /\ UNCHANGED <<up, boot>>
        BY <2>4, <3>2, ClaimFrame
      <4> QED
        BY <4>1
    <3> QED
      BY <3>1, <3>2
  <2> QED
    BY <2>1, <2>2, <2>3, <2>4 DEF TaskStep
<1>2. CASE \E p \in Procs : Run(p) \/ Stopped(p)
  BY <1>2, RunFrame, TaskForms DEF Claimed, Running, Sweeping
<1>3. CASE \E p \in Procs : Recover(p)
  <2>1. PICK p \in Procs : Recover(p)
    BY <1>3
  <2>2. Sweep(p) \in Task
    BY TaskForms
  <2>3. pc'[Sweep(p)] \in Sweeping \/ EventRelease(p)
    <3>1. CASE ActWake(p)
      BY <2>2, <3>1, TaskForms DEF ActWake, Wakes, Sweeping, TypeOK, PlacesOK
    <3>2. CASE ~ActWake(p) /\ ~EventRelease(p)
      BY <2>1, <2>2, <3>2, GotoMoves DEF Recover, EventOwnerRead, EventOwnerJudge, EventClaim,
         Decide, ActBlock, ActDone, Sweeping
    <3> QED
      BY <3>1, <3>2
  <2>4. pc[Sweep(p)] \in Claimed /\ pc'[Sweep(p)] \in Claimed
    BY <2>1, RecoverFrame DEF Claimed
  <2> QED
    BY <2>1, <2>2, <2>3, <2>4, RecoverFrame DEF Claimed, Running, Sweeping
<1>4. CASE \E p \in Procs : Client(p)
  BY <1>4, ClientFrame DEF Claimed, Running, Sweeping
<1>5. CASE \E p \in Procs : Boot(p) \/ Crash(p)
  BY <1>0, <1>5, ProcessFrame
<1> QED
  BY <1>1, <1>2, <1>3, <1>4, <1>5 DEF Next

LEMMA BusyStep ==
  ASSUME ProcIdentity, OwnerInv, LockHeld, NoIdleOwner, Next
  PROVE  NoIdleOwner'
<1> SUFFICES ASSUME NEW p \in Procs, up'[p]
             PROVE  /\ exec' = Owner(p)' => pc'[Drain(p)] \in Claimed \/ pc'[Sweep(p)] \in Claimed
                    /\ writer' = Owner(p)' => pc'[Sweep(p)] \in Sweeping
  BY DEF NoIdleOwner
<1>0. /\ TypeOK /\ KnownOwners
      /\ Drain(p) \in Task /\ Sweep(p) \in Task /\ Drain(p)[1] = p /\ Sweep(p)[1] = p
  BY TaskForms DEF OwnerInv
<1>1. CASE Boot(p)
  <2>1. /\ boot'[p] > boot[p] /\ Owner(p)' = <<p, boot'[p]>>
        /\ exec' = exec /\ writer' = writer /\ boot[p] \in Nat /\ boot'[p] \in Nat
    <3>1. boot' = [boot EXCEPT ![p] = boot[p] + 1] /\ boot[p] \in Nat /\ exec' = exec /\ writer' = writer
      BY <1>0, <1>1, FenceAssumption DEF Boot, TypeOK
    <3>2. boot'[p] = boot[p] + 1
      BY <1>0, <3>1 DEF TypeOK
    <3> QED
      BY <3>1, <3>2 DEF Owner
  <2>2. Owner(p)' # None
    BY <2>1, FenceAssumption
  <2> QED
    BY <1>0, <2>1, <2>2 DEF KnownOwners, Known
<1>2. ~Crash(p)
  BY <1>0 DEF Crash, TypeOK
<1>3. CASE ~Boot(p)
  <2>1. /\ boot'[p] = boot[p] /\ up[p] /\ Owner(p)' = Owner(p)
        /\ \A u \in {Drain(p), Sweep(p)} : pc[u] \in Claimed => pc'[u] \in Claimed \/ Release(u)
        /\ pc[Sweep(p)] \in Sweeping => pc'[Sweep(p)] \in Sweeping \/ EventRelease(p)
    <3>1. \A u \in {Drain(p), Sweep(p)} : ~ \E q \in Procs : u[1] = q /\ (Boot(q) \/ Crash(q))
      BY <1>0, <1>2, <1>3
    <3> QED
      BY <1>0, <3>1, LeaveFrame, TaskForms DEF Owner
  <2>2. ASSUME exec' = Owner(p) PROVE pc'[Drain(p)] \in Claimed \/ pc'[Sweep(p)] \in Claimed
    <3>1. CASE exec = Owner(p)
      <4>1. \A t \in Task : t[1] = p => ~Release(t)
        <5>1. Owner(p) # None
          BY FenceAssumption, <1>0 DEF Owner, TypeOK
        <5> QED
          BY <2>2, <3>1, <5>1 DEF Release
      <4> QED
        BY <1>0, <2>1, <3>1, <4>1 DEF NoIdleOwner
    <3>2. CASE exec # Owner(p)
      <4>1. PICK t \in Task : ClaimWrite(t) \/ Release(t)
        BY <1>0, <2>2, <3>2, ColumnFrame
      <4>2. ClaimWrite(t) /\ exec' = Owner(t[1]) /\ exec' # exec
        BY <2>2, <3>2, <4>1, FenceAssumption, <1>0 DEF ClaimWrite, Release, Owner, TypeOK
      <4>3. t[1] = p /\ pc'[t] \in Claimed
        BY <1>0, <2>2, <4>2, GotoMoves DEF Owner, ClaimWrite, Claimed, Running, Sweeping
      <4> QED
        BY <4>3, TaskForms
    <3> QED
      BY <3>1, <3>2
  <2>3. ASSUME writer' = Owner(p) PROVE pc'[Sweep(p)] \in Sweeping
    <3>1. CASE writer = Owner(p)
      <4>1. ~EventRelease(p)
        <5>1. Owner(p) # None
          BY FenceAssumption, <1>0 DEF Owner, TypeOK
        <5> QED
          BY <2>3, <3>1, <5>1 DEF EventRelease
      <4> QED
        BY <2>1, <3>1, <4>1 DEF NoIdleOwner
    <3>2. CASE writer # Owner(p)
      <4>1. PICK q \in Procs : EventClaim(q) \/ EventRelease(q)
        BY <1>0, <2>3, <3>2, ColumnFrame
      <4>2. Owner(p) # None
        BY FenceAssumption, <1>0 DEF Owner, TypeOK
      <4>3. EventClaim(q) /\ writer' = Owner(q) /\ pc'[Sweep(q)] = "decide"
        BY <1>0, <2>3, <3>2, <4>1, <4>2, GotoMoves, TaskForms DEF EventClaim, EventRelease
      <4> QED
        BY <2>3, <4>3 DEF Owner, Sweeping
    <3> QED
      BY <3>1, <3>2
  <2> QED
    BY <2>1, <2>2, <2>3
<1> QED
  BY <1>1, <1>3

(* OwnerIsBusy: where processes can be told apart and no live holder lost   *)
(* its lock, no way out of a drain or a sweep leaves a live process as      *)
(* owner.                                                                   *)
THEOREM NoOwnerLeftBehind ==
  ASSUME ProcIdentity
  PROVE  Spec => []OwnerIsBusy
<1> DEFINE Kept == TypeOK /\ (stalls = 0 => LockInv)
<1>1. Init => OwnerIsBusy
  BY DEF Init, OwnerIsBusy, NoIdleOwner
<1>2. Kept /\ OwnerInv /\ OwnerIsBusy /\ [Next]_vars => OwnerIsBusy'
  <2> SUFFICES ASSUME Kept, OwnerInv, OwnerIsBusy, [Next]_vars, stalls' = 0
               PROVE  NoIdleOwner'
    BY DEF OwnerIsBusy
  <2>1. CASE UNCHANGED vars
    BY <2>1 DEF OwnerIsBusy, NoIdleOwner, Owner, vars, procVars
  <2>2. CASE Next
    <3>1. stalls = 0
      BY <2>2, StallsStay
    <3> QED
      BY <2>2, <3>1, BusyStep DEF LockInv, OwnerIsBusy
  <2> QED
    BY <2>1, <2>2
<1> QED
  BY <1>1, <1>2, FenceInvariance, OwnerInvariance, PTL DEF Spec

-----------------------------------------------------------------------------
(* One runner, with one broken lock.                                         *)

LEMMA SweepFirstStep ==
  ASSUME TypeOK, SweepFirst, Next
  PROVE  SweepFirst'
<1> SUFFICES ASSUME NEW p \in Procs
    PROVE (/\ pc[Sweep(p)] \in {"lock", "read", "judge", "cas", "evread", "evjudge", "evclaim", "decide"}
                => pc[Drain(p)] = "idle"
           /\ plan[p] # "none" => pc[Sweep(p)] = "act" /\ pc[Drain(p)] = "idle"
           /\ demand[p] # "recover")'
  BY DEF SweepFirst
<1>0. /\ Drain(p) \in Task /\ Sweep(p) \in Task /\ Drain(p) # Sweep(p)
      /\ pc[Sweep(p)] \in {"lock", "read", "judge", "cas", "evread", "evjudge", "evclaim", "decide"}
                => pc[Drain(p)] = "idle"
      /\ plan[p] # "none" => pc[Sweep(p)] = "act" /\ pc[Drain(p)] = "idle"
      /\ demand[p] # "recover"
      /\ pc[Drain(p)] \in DrainPlaces /\ pc[Sweep(p)] \in SweepPlaces
  BY TaskForms DEF SweepFirst, TypeOK, PlacesOK
<1>1. CASE \E t \in Task : Lock(t)
  BY <1>0, <1>1, LockFrame DEF Lock, drainVars
<1>2. CASE \E t \in Task : LockTimeout(t) \/ Unlock(t)
  <2>1. PICK t \in Task : LockTimeout(t) \/ Unlock(t)
    BY <1>2
  <2>2. t[1] \in Procs /\ pc[t] \in {"lock", "unlock"} /\ TaskEnds(t)
    BY <2>1, TaskForms DEF LockTimeout, Unlock
  <2>3. CASE t[2] = "drain"
    <3>1. DrainEnds(t[1]) /\ Drain(t[1]) = t
      BY <2>2, <2>3, TaskForms DEF TaskEnds
    <3>2. UNCHANGED plan /\ demand' = [demand EXCEPT ![t[1]] = "none"]
      BY <3>1 DEF DrainEnds
    <3>3. t # Sweep(p) /\ pc'[Sweep(p)] = pc[Sweep(p)]
      BY <1>0, <2>1, <2>3, EndsFrame, TaskForms
    <3>4. pc[Drain(p)] = "idle" => pc'[Drain(p)] = "idle"
      BY <1>0, <2>1, <2>2, EndsFrame
    <3>5. demand'[p] \in {"none", demand[p]}
      BY <2>2, <3>2 DEF TypeOK
    <3> QED
      BY <1>0, <3>2, <3>3, <3>4, <3>5
  <2>4. CASE t[2] = "sweep"
    <3>1. SweepEnds(t[1]) /\ Sweep(t[1]) = t
      BY <2>2, <2>4, TaskForms DEF TaskEnds
    <3>2. pc' = [pc EXCEPT ![t] = "done"] /\ demand' = demand /\ plan' = [plan EXCEPT ![t[1]] = "none"]
      BY <3>1 DEF SweepEnds, Goto, drainVars
    <3> QED
      BY <1>0, <2>2, <3>1, <3>2, TaskForms DEF TypeOK, PlacesOK
  <2> QED
    BY <2>3, <2>4 DEF Task
<1>3. CASE \E t \in Task : Claim(t) \/ Release(t)
  <2>1. PICK t \in Task : Claim(t) \/ Release(t)
    BY <1>3
  <2>2. plan' = plan /\ demand' = demand
    BY <2>1 DEF Claim, ClaimRead, ClaimJudge, ClaimWrite, Release, drainVars
  <2>3. CASE t = Sweep(p)
    <3>1. pc[t] \in {"read", "judge", "cas"} \/ pc'[t] = "unlock"
      BY <2>1, GotoMoves DEF Claim, ClaimRead, ClaimJudge, ClaimWrite, Release
    <3>2. pc'[Drain(p)] = pc[Drain(p)] /\ pc[t] \in Locking \cup {"release"}
      BY <1>0, <2>1, <2>3, ClaimFrame
    <3> QED
      BY <1>0, <2>2, <2>3, <3>1, <3>2 DEF Locking
  <2>4. CASE t # Sweep(p)
    BY <1>0, <2>1, <2>2, <2>4, ClaimFrame DEF Locking
  <2> QED
    BY <2>3, <2>4
<1>4. CASE \E q \in Procs : Run(q) \/ Stopped(q)
  <2>1. PICK q \in Procs : Run(q) \/ Stopped(q)
    BY <1>4
  <2>2. plan' = plan /\ demand' = demand
    BY <2>1 DEF Run, Reconcile, GuardElapsed, Guard, Promote, Dispatch, StreamEnds, Backoff,
       ToolSettles, ToolDeclined, StepEnds, AfterTurn, DrainOnly, Stopped, drainVars
  <2> QED
    BY <1>0, <2>1, <2>2, RunFrame, TaskForms DEF Running
<1>5. CASE \E q \in Procs : Recover(q)
  <2>1. PICK q \in Procs : Recover(q)
    BY <1>5
  <2>2. CASE q # p
    <3>1. /\ pc'[Sweep(p)] = pc[Sweep(p)] /\ pc'[Drain(p)] = pc[Drain(p)]
          /\ plan'[p] = plan[p] /\ demand'[p] = demand[p]
      BY <1>0, <2>1, <2>2, TaskForms DEF Recover, EventOwnerRead, EventOwnerJudge, EventClaim, Decide,
         ActWake, Wakes, ActBlock, ActDone, EventRelease, SweepOnly, drainVars, Goto, TypeOK, PlacesOK
    <3> QED
      BY <1>0, <3>1
  <2>3. CASE q = p /\ ActWake(p)
    <3>1. /\ pc[Sweep(p)] = "act" /\ pc[Drain(p)] = "idle" /\ plan'[p] = "none"
      BY <1>0, <2>3 DEF ActWake, TypeOK
    <3>2. demand' = demand /\ pc'[Sweep(p)] = "act"
      BY <1>0, <2>3, <3>1 DEF ActWake, Wakes, TypeOK, PlacesOK
    <3> QED
      BY <1>0, <3>1, <3>2
  <2>4. CASE q = p /\ ~ActWake(p)
    <3>1. /\ \A u \in Task : u # Sweep(p) => pc'[u] = pc[u]
          /\ demand' = demand
          /\ pc[Sweep(p)] \in {"evread", "evjudge", "evclaim", "decide"} \/ plan'[p] = "none"
          /\ \/ pc'[Sweep(p)] \notin {"lock", "read", "judge", "cas", "evread", "evjudge", "evclaim", "decide"}
             \/ pc[Sweep(p)] \in {"evread", "evjudge", "evclaim", "decide"}
          /\ plan'[p] # "none" => (plan'[p] = plan[p] /\ pc[Sweep(p)] # "act") \/ pc'[Sweep(p)] = "act"
      BY <1>0, <2>1, <2>4, GotoMoves DEF Recover, EventOwnerRead, EventOwnerJudge, EventClaim, Decide,
         ActBlock, ActDone, EventRelease, SweepOnly, drainVars, TypeOK
    <3> QED
      BY <1>0, <3>1
  <2> QED
    BY <2>2, <2>3, <2>4
<1>6. CASE \E q \in Procs : Client(q)
  <2>1. PICK q \in Procs : Client(q)
    BY <1>6
  <2>2. plan' = plan
    BY <2>1 DEF Client, Prompt, AdmitOnly, Resume, Interrupt, ResolveBlocker, Asked
  <2>3. /\ demand'[p] # "recover"
        /\ pc'[Sweep(p)] = pc[Sweep(p)]
        /\ pc'[Drain(p)] = pc[Drain(p)] \/ (q = p /\ pc[Sweep(p)] = "done")
    BY <1>0, <2>1, TaskForms DEF Client, Prompt, AdmitOnly, Resume, Interrupt, ResolveBlocker, Asked,
       Serving, Wakes, Stronger, Goto, TypeOK, PlacesOK
  <2> QED
    BY <1>0, <2>2, <2>3
<1>7. CASE \E q \in Procs : Boot(q) \/ Crash(q)
  BY <1>0, <1>7, TaskForms DEF Boot, Crash, TypeOK, PlacesOK, drainVars
<1> QED
  BY <1>1, <1>2, <1>3, <1>4, <1>5, <1>6, <1>7 DEF Next, TaskStep

LEMMA SweepYieldsStep ==
  ASSUME TypeOK, SweepFirst, SweepYields, Next
  PROVE  SweepYields'
<1> SUFFICES ASSUME NEW p \in Procs, Holding(Drain(p))' PROVE lock' # Mine(Sweep(p))'
  BY DEF SweepYields
<1>0. Drain(p) \in Task /\ Sweep(p) \in Task /\ Drain(p) # Sweep(p) /\ Drain(p)[1] = p /\ Sweep(p)[1] = p
  BY TaskForms
<1>1. (Holding(Drain(p)) \/ Lock(Drain(p))) /\ Mine(Sweep(p))' = Mine(Sweep(p))
  BY <1>0, TaskFrame DEF Mine
<1>2. CASE Lock(Drain(p))
  <2>1. lock' = Mine(Drain(p)) /\ Mine(Drain(p)).task = Drain(p) /\ Mine(Sweep(p)).task = Sweep(p)
    BY <1>2 DEF Lock, Mine
  <2> QED
    BY <1>0, <1>1, <2>1
<1>3. CASE Holding(Drain(p))
  <2>1. lock # Mine(Sweep(p))
    BY <1>3 DEF SweepYields
  <2>2. ~Lock(Sweep(p))
    BY <1>3 DEF SweepFirst, Lock, Holding, Locking, Claimed, Running, Sweeping
  <2>3. ASSUME NEW t \in Task, Lock(t) PROVE lock' # Mine(Sweep(p))
    BY <2>2, <2>3 DEF Lock, Mine
  <2>4. ASSUME NEW t \in Task, Unlock(t), lock = Mine(t) PROVE lock' # Mine(Sweep(p))
    <3>1. lock' = None /\ Mine(Sweep(p)) # None
      BY <1>0, <2>4, FenceAssumption, OwnerTyped DEF Unlock, Locks, Task
    <3> QED
      BY <3>1
  <2> QED
    BY <1>1, <2>1, <2>3, <2>4, ColumnFrame
<1> QED
  BY <1>1, <1>2, <1>3

(* Who holds the lock is alive, so that its lock is not stale. *)
LEMMA HeldIsFresh ==
  ASSUME TypeOK, NEW u \in Task, Holding(u)
  PROVE  Mine(u) # None /\ ~Stale(Mine(u))
<1>1. u[1] \in Procs /\ up[u[1]]
  BY TaskForms DEF TypeOK, PlacesOK, Holding, Locking, Claimed, Running, Sweeping
<1>2. Mine(u) # None
  BY FenceAssumption, OwnerTyped DEF Locks, Task
<1> QED
  BY <1>1, <1>2 DEF Stale, Mine

(* A task loses its lock only to one that breaks it. *)
LEMMA DisplacedFrame ==
  ASSUME TypeOK, Next, NEW u \in Task, Displaced(u)'
  PROVE  Displaced(u) \/ (stalls' = stalls + 1 /\ Holding(u) /\ lock = Mine(u))
<1>1. Holding(u)' /\ lock' # Mine(u)' /\ Mine(u)' = Mine(u) /\ (Holding(u) \/ Lock(u))
  BY TaskFrame DEF Displaced, Mine
<1>2. ~Lock(u) /\ Holding(u)
  BY <1>1, LockFrame
<1>3. ASSUME lock = Mine(u), stalls' = stalls PROVE FALSE
  <2>1. \A t \in Task : ~Lock(t)
    BY <1>2, <1>3, StallsGrow, HeldIsFresh
  <2>2. PICK t \in Task : Unlock(t) /\ Mine(t) = Mine(u)
    BY <1>1, <1>3, <2>1, ColumnFrame
  <2>3. t = u
    BY <2>2 DEF Mine
  <2> QED
    BY <1>1, <2>2, <2>3, EndsFrame DEF Holding, Locking, Claimed, Running, Sweeping
<1> QED
  BY <1>1, <1>2, <1>3, StallsGrow DEF Displaced

LEMMA OneDisplacedStep ==
  ASSUME TypeOK, Next, stalls' <= 1, OneDisplaced, stalls = 0 => LockHeld
  PROVE  OneDisplaced'
<1> SUFFICES ASSUME NEW t \in Task, NEW u \in Task, Displaced(t)', Displaced(u)'
             PROVE  t = u
  BY DEF OneDisplaced
<1>1. stalls \in Nat /\ stalls' \in {stalls, stalls + 1}
  BY StallsGrow
<1>2. CASE stalls' = stalls
  BY <1>1, <1>2, DisplacedFrame DEF OneDisplaced
<1>3. CASE stalls = 0
  BY <1>3, DisplacedFrame, Exclusive DEF LockHeld, Displaced
<1> QED
  BY <1>1, <1>2, <1>3

(* The last step of a task before it gives the lock back. *)
LEMMA UnlockFrame ==
  ASSUME TypeOK, Next, NEW u \in Task, pc[u] = "unlock", Holding(u)'
  PROVE  pc'[u] = "unlock"
<1>0. u[1] \in Procs /\ pc'[u] \in Locking \cup Claimed
  BY TaskForms DEF Holding
<1>1. CASE \E t \in Task : Lock(t)
  BY <1>1, LockFrame
<1>2. CASE \E t \in Task : LockTimeout(t) \/ Unlock(t)
  BY <1>0, <1>2, EndsFrame DEF Locking, Claimed, Running, Sweeping
<1>3. CASE \E t \in Task : Claim(t) \/ Release(t)
  BY <1>3, ClaimFrame DEF Claim, ClaimRead, ClaimJudge, ClaimWrite, Release
<1>4. CASE \E p \in Procs : Run(p) \/ Stopped(p)
  BY <1>4, RunFrame DEF Running
<1>5. CASE \E p \in Procs : Recover(p)
  BY <1>5, RecoverFrame DEF Sweeping
<1>6. CASE \E p \in Procs : Client(p)
  BY <1>6, ClientFrame
<1>7. CASE \E p \in Procs : Boot(p) \/ Crash(p)
  BY <1>0, <1>7, ProcessFrame DEF Locking, Claimed, Running, Sweeping
<1> QED
  BY <1>1, <1>2, <1>3, <1>4, <1>5, <1>6, <1>7 DEF Next, TaskStep

(* Once a drain is undisturbed it stays so until it releases. *)
LEMMA UndisturbedStep ==
  ASSUME TypeOK, Next, stalls' <= 1, NEW p \in Procs,
         Undisturbed(p), pc[Drain(p)] \in Claimed, pc'[Drain(p)] \in Claimed
  PROVE  Undisturbed(p)'
<1>0. Drain(p) \in Task /\ Sweep(p) \in Task /\ Holding(Drain(p)) /\ Holding(Drain(p))'
  BY TaskForms DEF Holding
<1>1. stalls' = stalls /\ stalls' > 0
  BY StallsGrow DEF Undisturbed
<1>2. \A t \in Task : ~Lock(t)
  BY <1>0, <1>1, StallsGrow, HeldIsFresh DEF Undisturbed
<1>3. lock' = Mine(Drain(p))' /\ Mine(Drain(p))' = Mine(Drain(p))
  <2>1. Mine(Drain(p))' = Mine(Drain(p))
    BY <1>0, TaskFrame DEF Mine
  <2>2. ASSUME NEW t \in Task, Unlock(t), lock = Mine(t) PROVE FALSE
    <3>1. t = Drain(p)
      BY <2>2 DEF Undisturbed, Mine
    <3> QED
      BY <2>2, <3>1 DEF Unlock, Claimed, Running, Sweeping
  <2> QED
    BY <1>2, <2>1, <2>2, ColumnFrame DEF Undisturbed
<1>4. ASSUME NEW t \in Task, Holding(t)'
      PROVE  t = Drain(p) \/ (t = Sweep(p) /\ pc'[t] = "unlock")
  BY <1>2, <1>4, TaskFrame, UnlockFrame DEF Undisturbed
<1> QED
  BY <1>1, <1>3, <1>4 DEF Undisturbed

LEMMA RunnerOwnsStep ==
  ASSUME OwnerInv, SweepYields, OneDisplaced, RunnerOwns, stalls = 0 => LockHeld,
         Next, stalls' <= 1
  PROVE  RunnerOwns'
<1> SUFFICES ASSUME NEW p \in Procs, pc'[Drain(p)] \in Claimed
             PROVE  exec' = Owner(p)' \/ Undisturbed(p)'
  BY DEF RunnerOwns
<1>0. TypeOK /\ JudgedGone /\ Drain(p) \in Task /\ Sweep(p) \in Task /\ Drain(p)[1] = p /\ Sweep(p)[1] = p
  BY TaskForms DEF OwnerInv
<1>1. /\ Owner(p)' = Owner(p)
      /\ pc[Drain(p)] \in Claimed \/ (ClaimWrite(Drain(p)) /\ exec' = Owner(p))
  BY <1>0, TaskFrame DEF Owner, Holding
<1>2. CASE pc[Drain(p)] \in Claimed /\ Undisturbed(p)
  BY <1>0, <1>2, UndisturbedStep
<1>3. CASE pc[Drain(p)] \in Claimed /\ exec = Owner(p) /\ exec' # exec
  <2>1. PICK t \in Task : ClaimWrite(t) \/ Release(t)
    BY <1>0, <1>3, ColumnFrame
  <2>2. up[p] /\ IsLive(Owner(p)) /\ Owner(p) # None
    <3>1. up[p]
      BY <1>0, <1>3 DEF TypeOK, PlacesOK, Claimed, Running, Sweeping
    <3>2. Owner(p) # None
      BY <1>0, FenceAssumption DEF Owner, TypeOK
    <3> QED
      BY <3>1, <3>2 DEF IsLive, Owner
  <2>3. ~ClaimWrite(t)
    BY <1>0, <1>3, <2>2 DEF ClaimWrite, JudgedGone
  <2>4. Release(t) /\ t = Sweep(p)
    <3>1. Release(t) /\ t[1] = p
      BY <1>3, <2>1, <2>3 DEF Release, Owner
    <3>2. t # Drain(p)
      BY <1>0, <3>1, GotoMoves DEF Release, Claimed, Running, Sweeping
    <3> QED
      BY <3>1, <3>2, TaskForms
  <2>5. Holding(Sweep(p)) /\ Holding(Drain(p)) /\ Displaced(Sweep(p))
    BY <1>3, <2>4 DEF Release, Holding, Claimed, SweepYields, Displaced
  <2>6. lock = Mine(Drain(p)) /\ Drain(p) # Sweep(p)
    BY <1>0, <2>5, TaskForms DEF OneDisplaced, Displaced
  <2>7. \A u \in Task : Holding(u) => u = Drain(p) \/ u = Sweep(p)
    <3>1. ASSUME NEW u \in Task, Holding(u), lock = Mine(u) PROVE u = Drain(p)
      BY <2>6, <3>1 DEF Mine
    <3> QED
      BY <1>0, <2>5, <3>1 DEF OneDisplaced, Displaced
  <2>8. stalls > 0
    BY <1>0, <2>5, StallsGrow DEF LockHeld, Displaced
  <2>9. /\ stalls' = stalls /\ lock' = lock /\ boot' = boot
        /\ \A u \in Task : pc'[u] = IF u = Sweep(p) THEN "unlock" ELSE pc[u]
    BY <1>0, <2>4, GotoMoves DEF Release, procVars
  <2> QED
    BY <2>6, <2>7, <2>8, <2>9 DEF Undisturbed, Holding, Mine
<1> QED
  BY <1>0, <1>1, <1>2, <1>3 DEF RunnerOwns

RunnerInv ==
  /\ OwnerInv /\ SweepFirst /\ SweepYields
  /\ stalls <= 1 => OneDisplaced /\ RunnerOwns

THEOREM RunnerInvariance == Spec => []RunnerInv
<1> DEFINE Kept == stalls = 0 => LockInv
<1>1. Init => RunnerInv
  <2>1. ASSUME Init PROVE \A t \in Task : ~Holding(t)
    BY <2>1 DEF Init, Holding, Locking, Claimed, Running, Sweeping
  <2>2. ASSUME Init PROVE OneDisplaced /\ RunnerOwns /\ SweepFirst /\ SweepYields
    BY <2>1, <2>2, TaskForms DEF Init, OneDisplaced, RunnerOwns, SweepFirst, SweepYields, Displaced, Holding
  <2>3. Init => OwnerInv
    BY InitType DEF OwnerInv, KnownOwners, Known, JudgedGone, Init
  <2> QED
    BY <2>2, <2>3 DEF RunnerInv
<1>2. Kept /\ OwnerInv' /\ RunnerInv /\ [Next]_vars => RunnerInv'
  <2> SUFFICES ASSUME Kept, OwnerInv', RunnerInv, [Next]_vars PROVE RunnerInv'
    OBVIOUS
  <2>0. TypeOK /\ OwnerInv /\ SweepFirst /\ SweepYields
    BY DEF RunnerInv, OwnerInv
  <2>1. CASE UNCHANGED vars
    <3>1. SweepFirst' /\ SweepYields'
      BY <2>0, <2>1 DEF SweepFirst, SweepYields, Holding, Mine, vars, procVars, drainVars
    <3>2. stalls' <= 1 => OneDisplaced' /\ RunnerOwns'
      BY <2>1 DEF RunnerInv, OneDisplaced, RunnerOwns, Displaced, Undisturbed, Holding, Mine, Owner,
         vars, procVars
    <3> QED
      BY <3>1, <3>2 DEF RunnerInv
  <2>2. CASE Next
    <3>1. SweepFirst' /\ SweepYields'
      BY <2>0, <2>2, SweepFirstStep, SweepYieldsStep
    <3>2. ASSUME stalls' <= 1 PROVE OneDisplaced' /\ RunnerOwns'
      <4>1. stalls <= 1 /\ (stalls = 0 => LockHeld)
        BY <2>0, <2>2, <3>2, StallsGrow DEF LockInv
      <4> QED
        BY <2>0, <2>2, <3>2, <4>1, OneDisplacedStep, RunnerOwnsStep DEF RunnerInv
    <3> QED
      BY <3>1, <3>2 DEF RunnerInv
  <2> QED
    BY <2>1, <2>2
<1> QED
  BY <1>1, <1>2, FenceInvariance, OwnerInvariance, PTL DEF Spec

(* OneRunner: two processes are not in the runner of one Session at once,   *)
(* also after a live holder lost its lock once.                             *)
THEOREM OneRunnerAtATime == Spec => []OneRunner
<1>1. RunnerInv => OneRunner
  <2> SUFFICES ASSUME RunnerInv, stalls <= 1, NEW p \in Procs, NEW q \in Procs,
                      pc[Drain(p)] \in Running, pc[Drain(q)] \in Running
               PROVE  p = q
    BY DEF OneRunner
  <2>1. /\ exec = Owner(p) \/ Undisturbed(p)
        /\ exec = Owner(q) \/ Undisturbed(q)
    BY DEF RunnerInv, RunnerOwns, Claimed
  <2>2. Holding(Drain(p)) /\ Holding(Drain(q)) /\ Drain(p) \in Task /\ Drain(q) \in Task
    BY TaskForms DEF Holding, Claimed
  <2>3. CASE exec = Owner(p) /\ exec = Owner(q)
    BY <2>3 DEF Owner
  <2>4. CASE Undisturbed(p)
    BY <2>2, <2>4, TaskForms DEF Undisturbed
  <2>5. CASE Undisturbed(q)
    BY <2>2, <2>5, TaskForms DEF Undisturbed
  <2> QED
    BY <2>1, <2>3, <2>4, <2>5
<1> QED
  BY <1>1, RunnerInvariance, PTL

-----------------------------------------------------------------------------
(* The lock as an abstract lock.                                             *)

(* The only way out of the lock of a process that goes on is to unlock. *)
LEMMA HoldFrame ==
  ASSUME TypeOK, Next, NEW u \in Task, Holding(u),
         ~ \E p \in Procs : u[1] = p /\ (Boot(p) \/ Crash(p))
  PROVE  Holding(u)' \/ Unlock(u)
<1>0. pc[u] \in Locking \cup Claimed /\ (pc'[u] \in Locking \cup Claimed => Holding(u)')
  BY DEF Holding
<1>1. CASE \E t \in Task : Lock(t)
  BY <1>0, <1>1, LockFrame DEF Locking
<1>2. CASE \E t \in Task : LockTimeout(t)
  BY <1>0, <1>2, EndsFrame DEF LockTimeout, Locking, Claimed, Running, Sweeping
<1>3. CASE \E t \in Task : Unlock(t)
  BY <1>0, <1>3, EndsFrame
<1>4. CASE \E t \in Task : Claim(t) \/ Release(t)
  <2>1. PICK t \in Task : Claim(t) \/ Release(t)
    BY <1>4
  <2>2. pc'[t] \in Locking \cup Claimed
    <3>1. CASE ClaimRead(t)
      BY <3>1, GotoMoves DEF ClaimRead, Locking
    <3>2. CASE ClaimJudge(t)
      BY <3>2, GotoMoves DEF ClaimJudge, Locking
    <3>3. CASE ClaimWrite(t)
      BY <3>3, GotoMoves DEF ClaimWrite, Locking, Claimed, Running, Sweeping
    <3>4. CASE Release(t)
      BY <3>4, GotoMoves DEF Release, Locking
    <3> QED
      BY <2>1, <3>1, <3>2, <3>3, <3>4 DEF Claim
  <2> QED
    BY <1>0, <2>1, <2>2, ClaimFrame
<1>5. CASE \E p \in Procs : Run(p) \/ Stopped(p)
  BY <1>0, <1>5, RunFrame DEF Locking, Claimed
<1>6. CASE \E p \in Procs : Recover(p)
  BY <1>0, <1>6, RecoverFrame DEF Locking, Claimed, Running, Sweeping
<1>7. CASE \E p \in Procs : Client(p)
  BY <1>0, <1>7, ClientFrame DEF Locking, Claimed, Running, Sweeping
<1>8. CASE \E p \in Procs : Boot(p) \/ Crash(p)
  <2>1. PICK p \in Procs : (Boot(p) \/ Crash(p)) /\ u[1] # p
    BY <1>8
  <2> QED
    BY <1>0, <2>1, ProcessFrame
<1> QED
  BY <1>1, <1>2, <1>3, <1>4, <1>5, <1>6, <1>7, <1>8 DEF Next, TaskStep

(* A process that is gone does not come back, nor does its lock get fresh. *)
LEMMA StaleStays ==
  ASSUME TypeOK, Next, NEW l \in Locks, l.boot <= boot[l.task[1]]
  PROVE  /\ l.boot <= boot'[l.task[1]] /\ (Stale(l) => Stale(l)')
         /\ ~Stale(l)' => ~ \E p \in Procs : l.task[1] = p /\ (Boot(p) \/ Crash(p))
         /\ Stale(l)' => Stale(l) \/ Crash(l.task[1])
<1> DEFINE q == l.task[1]
<1>0. /\ q \in Procs /\ l.boot \in Nat /\ boot[q] \in Nat /\ up[q] \in BOOLEAN
  BY FenceAssumption, TaskForms DEF Locks, TypeOK
<1>1. CASE Boot(q)
  <2>1. boot'[q] = boot[q] + 1 /\ ~up[q] /\ up'[q]
    BY <1>0, <1>1 DEF Boot, TypeOK
  <2> QED
    BY <1>0, <2>1 DEF Stale
<1>2. CASE Crash(q)
  <2>1. boot'[q] = boot[q] /\ ~up'[q]
    BY <1>0, <1>2 DEF Crash, TypeOK
  <2> QED
    BY <1>0, <1>2, <2>1 DEF Stale
<1>3. CASE ~Boot(q) /\ ~Crash(q)
  <2>1. boot'[q] = boot[q] /\ up'[q] = up[q]
    <3>1. CASE \E p \in Procs : Boot(p) \/ Crash(p)
      BY <1>0, <1>3, <3>1 DEF Boot, Crash, TypeOK
    <3>2. CASE \E t \in Task : TaskStep(t)
      BY <3>2, LockFrame, EndsFrame, ClaimFrame DEF TaskStep
    <3>3. CASE \E p \in Procs : Recover(p) \/ Run(p) \/ Stopped(p) \/ Client(p)
      BY <3>3, RecoverFrame, RunFrame, ClientFrame
    <3> QED
      BY <3>1, <3>2, <3>3 DEF Next
  <2> QED
    BY <1>0, <1>3, <2>1 DEF Stale
<1> QED
  BY <1>1, <1>2, <1>3

LEMMA LockInUseStep ==
  ASSUME TypeOK, LockInUse, Next
  PROVE  LockInUse'
<1>1. CASE \E t \in Task : Lock(t)
  <2>1. PICK t \in Task : Lock(t)
    BY <1>1
  <2>2. lock' = Mine(t) /\ pc'[t] = "read" /\ boot' = boot /\ boot[t[1]] \in Nat
    BY <2>1, LockFrame, FenceAssumption, TaskForms DEF TypeOK
  <2> QED
    BY <2>2 DEF LockInUse, Mine, Holding, Locking
<1>2. CASE \E t \in Task : Unlock(t) /\ lock = Mine(t)
  BY <1>2 DEF Unlock, LockInUse
<1>3. CASE lock' = lock /\ lock # None
  <2>1. lock \in Locks /\ lock.task \in Task /\ lock = [task |-> lock.task, boot |-> lock.boot]
    BY <1>3 DEF TypeOK, Locks
  <2>2. /\ lock.boot <= boot'[lock.task[1]]
        /\ Stale(lock) => Stale(lock)'
        /\ ~Stale(lock)' => ~ \E p \in Procs : lock.task[1] = p /\ (Boot(p) \/ Crash(p))
    <3> DEFINE l == lock
    <3>1. l \in Locks /\ l.boot <= boot[l.task[1]]
      BY <1>3, <2>1 DEF LockInUse
    <3>2. ASSUME NEW k \in Locks, k = lock, k.boot <= boot[k.task[1]]
          PROVE  /\ k.boot <= boot'[k.task[1]] /\ (Stale(k) => Stale(k)')
                 /\ ~Stale(k)' => ~ \E p \in Procs : k.task[1] = p /\ (Boot(p) \/ Crash(p))
      BY <3>2, StaleStays
    <3> QED
      BY <1>3, <3>1, <3>2 DEF Stale
  <2>3. ASSUME ~Stale(lock)' PROVE Holding(lock.task)'
    <3>1. Holding(lock.task) /\ ~Stale(lock)
      BY <1>3, <2>2, <2>3 DEF LockInUse, Holding
    <3>2. lock = Mine(lock.task)
      BY <2>1, <3>1 DEF Mine, Stale
    <3>3. ~Unlock(lock.task)
      BY <1>3, <3>2 DEF Unlock
    <3>4. ASSUME NEW u \in Task, u = lock.task PROVE Holding(u)'
      BY <2>2, <2>3, <3>1, <3>3, <3>4, HoldFrame
    <3> QED
      BY <1>3, <2>1, <3>4 DEF Holding
  <2> QED
    BY <1>3, <2>2, <2>3 DEF LockInUse, Holding
<1>4. CASE lock' = None
  BY <1>4 DEF LockInUse
<1> QED
  BY <1>1, <1>2, <1>3, <1>4, ColumnFrame

(* LockInUse: the lock of a live process is in use; whatever ends a drain or *)
(* a sweep of a process that goes on gives its lock back.                    *)
THEOREM NoLockLeftBehind == Spec => []LockInUse
<1>1. Init => LockInUse
  BY DEF Init, LockInUse
<1>2. TypeOK /\ LockInUse /\ [Next]_vars => LockInUse'
  <2> SUFFICES ASSUME TypeOK, LockInUse, [Next]_vars PROVE LockInUse'
    OBVIOUS
  <2>1. CASE UNCHANGED vars
    BY <2>1 DEF LockInUse, Stale, Holding, vars, procVars
  <2> QED
    BY <2>1, LockInUseStep
<1> QED
  BY <1>1, <1>2, FenceTypeCorrect, PTL DEF Spec

Has(t) == Holding(t) /\ lock = Mine(t)
Orphan == lock # None /\ Stale(lock)

LEMMA OneHas ==
  ASSUME NEW t \in Task, NEW u \in Task, Has(t), Has(u)
  PROVE  t = u
  BY DEF Has, Mine

(* A crash takes the lock of the task it ends, and no other's. *)
LEMMA CrashMaps ==
  ASSUME TypeOK, LockInUse, NEW p \in Procs, Crash(p)
  PROVE  \/ \E t \in Task : Has(t) /\ ~Orphan /\ Orphan' /\ \A u \in Task : ~Has(u)'
         \/ (\A u \in Task : Has(u)' <=> Has(u)) /\ (Orphan' <=> Orphan)
<1>0. /\ lock' = lock /\ boot' = boot /\ ~up'[p] /\ up[p]
      /\ \A q \in Procs : q # p => up'[q] = up[q]
      /\ \A u \in Task : /\ u[1] \in Procs
                         /\ u[1] = p => ~Holding(u)'
                         /\ u[1] # p => (Holding(u)' <=> Holding(u))
  <2>1. \A u \in Task : /\ u[1] # p => pc'[u] = pc[u]
                        /\ u[1] = p => pc'[u] \in {"idle", "lock", "off"}
    BY ProcessFrame
  <2>2. \A u \in Task : u[1] \in Procs
    BY TaskForms
  <2> QED
    BY <2>1, <2>2 DEF Crash, TypeOK, Holding, Locking, Claimed, Running, Sweeping
<1>1. \A u \in Task : Mine(u)' = Mine(u)
  BY <1>0 DEF Mine
<1>2. CASE \E t \in Task : t[1] = p /\ Has(t)
  <2>1. PICK t \in Task : t[1] = p /\ Has(t)
    BY <1>2
  <2>2. lock = Mine(t) /\ lock # None /\ lock.task = t /\ lock.boot = boot[p]
    BY <2>1, HeldIsFresh DEF Has, Mine
  <2>3. ~Orphan /\ Orphan'
    BY <1>0, <2>1, <2>2 DEF Orphan, Stale
  <2>4. \A u \in Task : ~Has(u)'
    BY <1>0, <1>1, <2>1, <2>2, OneHas DEF Has
  <2> QED
    BY <2>1, <2>3, <2>4
<1>3. CASE ~ \E t \in Task : t[1] = p /\ Has(t)
  <2>1. \A u \in Task : Has(u)' <=> Has(u)
    BY <1>0, <1>1, <1>3 DEF Has
  <2>2. ASSUME lock # None PROVE Stale(lock)' <=> Stale(lock)
    <3>1. lock.task \in Task /\ lock = [task |-> lock.task, boot |-> lock.boot]
      BY <2>2 DEF TypeOK, Locks
    <3>2. CASE lock.task[1] = p
      <4>1. ASSUME ~Stale(lock) PROVE FALSE
        <5>1. Holding(lock.task) /\ lock = Mine(lock.task)
          BY <2>2, <3>1, <4>1 DEF LockInUse, Holding, Stale, Mine
        <5> QED
          BY <1>3, <3>1, <3>2, <5>1 DEF Has
      <4> QED
        BY <1>0, <3>2, <4>1 DEF Stale
    <3>3. CASE lock.task[1] # p
      BY <1>0, <3>1, <3>3 DEF Stale
    <3> QED
      BY <3>2, <3>3
  <2> QED
    BY <1>0, <2>1, <2>2 DEF Orphan
<1> QED
  BY <1>2, <1>3

LEMMA BootMaps ==
  ASSUME TypeOK, LockInUse, NEW p \in Procs, Boot(p)
  PROVE  (\A u \in Task : Has(u)' <=> Has(u)) /\ (Orphan' <=> Orphan)
<1>0. /\ lock' = lock /\ ~up[p] /\ boot'[p] = boot[p] + 1 /\ boot[p] \in Nat
      /\ \A q \in Procs : q # p => up'[q] = up[q] /\ boot'[q] = boot[q]
  BY FenceAssumption DEF Boot, TypeOK
<1>1. \A u \in Task : /\ u[1] \in Procs
                      /\ u[1] = p => ~Holding(u) /\ ~Holding(u)'
                      /\ u[1] # p => (Holding(u)' <=> Holding(u)) /\ Mine(u)' = Mine(u)
  <2>1. \A u \in Task : /\ u[1] # p => pc'[u] = pc[u]
                        /\ u[1] = p => pc'[u] \in {"idle", "lock", "off"}
    BY ProcessFrame
  <2>2. \A u \in Task : u[1] \in Procs /\ (u[1] = p => pc[u] = "off")
    BY <1>0, TaskForms DEF TypeOK, PlacesOK
  <2> QED
    BY <1>0, <2>1, <2>2 DEF Mine, Holding, Locking, Claimed, Running, Sweeping
<1>2. \A u \in Task : Has(u)' <=> Has(u)
  BY <1>0, <1>1 DEF Has
<1>3. ASSUME lock # None PROVE Stale(lock)' <=> Stale(lock)
  <2>1. lock.task[1] \in Procs /\ lock.boot \in Nat /\ lock.boot <= boot[lock.task[1]]
    BY <1>3, TaskForms, FenceAssumption DEF TypeOK, Locks, LockInUse
  <2>2. CASE lock.task[1] = p
    BY <1>0, <2>1, <2>2 DEF Stale
  <2>3. CASE lock.task[1] # p
    BY <1>0, <2>1, <2>3 DEF Stale
  <2> QED
    BY <2>2, <2>3
<1> QED
  BY <1>0, <1>2, <1>3 DEF Orphan

(* What any step but the breaking of a live holder's lock does to the lock. *)
LEMMA LockMaps ==
  ASSUME TypeOK, LockInUse, Next, stalls' = stalls
  PROVE  \/ (\A u \in Task : Has(u)' <=> Has(u)) /\ (Orphan' <=> Orphan)
         \/ \E t \in Task : /\ \A u \in Task : ~Has(u) /\ (Has(u)' <=> u = t)
                            /\ ~Orphan'
         \/ \E t \in Task : Has(t) /\ ~Orphan /\ \A u \in Task : ~Has(u)'
<1>1. CASE \E t \in Task : Lock(t)
  <2>1. PICK t \in Task : Lock(t)
    BY <1>1
  <2>2. lock = None \/ Stale(lock)
    BY <2>1, StallsGrow
  <2>3. \A u \in Task : ~Has(u)
    BY <2>2, HeldIsFresh DEF Has
  <2>4. /\ lock' = Mine(t) /\ Holding(t)' /\ \A u \in Task : Mine(u)' = Mine(u)
        /\ Mine(t)' # None /\ ~Stale(Mine(t))'
    <3>1. lock' = Mine(t) /\ pc'[t] = "read" /\ boot' = boot /\ up' = up
      BY <2>1, LockFrame
    <3>2. TypeOK' /\ Holding(t)'
      BY <3>1, TypeStep DEF Holding, Locking
    <3>3. Mine(t) # None /\ up[t[1]]
      <4>1. up[t[1]]
        BY <2>1, TaskForms DEF Lock, TypeOK, PlacesOK
      <4> QED
        BY <4>1, FenceAssumption, OwnerTyped DEF Locks, Task
    <3> QED
      BY <3>1, <3>2, <3>3 DEF Mine, Stale
  <2>5. \A u \in Task : Has(u)' <=> u = t
    BY <2>4 DEF Has, Mine
  <2>6. ~Orphan'
    BY <2>4 DEF Orphan
  <2> QED
    BY <2>1, <2>3, <2>5, <2>6
<1>2. CASE \E t \in Task : Unlock(t) /\ lock = Mine(t)
  <2>1. PICK t \in Task : Unlock(t) /\ lock = Mine(t)
    BY <1>2
  <2>2. Has(t)
    BY <2>1 DEF Has, Holding, Locking, Unlock
  <2>3. lock' = None /\ UNCHANGED procVars
    BY <2>1 DEF Unlock
  <2>4. ~Orphan
    BY <2>1, <2>2, HeldIsFresh DEF Orphan, Has
  <2>5. ASSUME NEW u \in Task PROVE ~Has(u)'
    <3>1. Mine(u)' = Mine(u) /\ Mine(u) # None
      BY <2>3, FenceAssumption, OwnerTyped DEF Mine, procVars, Locks, Task
    <3> QED
      BY <2>3, <3>1 DEF Has
  <2> QED
    BY <2>2, <2>4, <2>5
<1>3. CASE \E p \in Procs : Crash(p)
  BY <1>3, CrashMaps
<1>4. CASE \E p \in Procs : Boot(p)
  BY <1>4, BootMaps
<1>5. CASE /\ ~ \E t \in Task : Lock(t) \/ (Unlock(t) /\ lock = Mine(t))
           /\ ~ \E p \in Procs : Boot(p) \/ Crash(p)
  <2>1. lock' = lock
    BY <1>5, ColumnFrame
  <2>2. up' = up /\ boot' = boot
    BY <1>5, LockFrame, EndsFrame, ClaimFrame, RecoverFrame, RunFrame, ClientFrame
    DEF Next, TaskStep
  <2>3. ASSUME NEW u \in Task PROVE Has(u)' <=> Has(u)
    <3>1. Mine(u)' = Mine(u)
      BY <2>2 DEF Mine
    <3>2. ASSUME Has(u) PROVE Holding(u)'
      BY <1>5, <3>2, HoldFrame DEF Has
    <3>3. ASSUME Has(u)' PROVE Holding(u)
      BY <1>5, <3>3, TaskFrame DEF Has
    <3> QED
      BY <2>1, <3>1, <3>2, <3>3 DEF Has
  <2>4. Orphan' <=> Orphan
    BY <2>1, <2>2 DEF Orphan, Stale
  <2> QED
    BY <2>3, <2>4
<1> QED
  BY <1>1, <1>2, <1>3, <1>4, <1>5

(* UsesLock: drains, sweeps, timeouts, interrupts, crashes and boots of any   *)
(* number of processes take, give back and lose the lock as an abstract lock  *)
(* allows, but for the breaking of a live holder's lock.                      *)
THEOREM FenceUsesLock == Spec => UsesLock
<1>1. Init => FL!Init
  BY DEF Init, FL!Init, Holding, Locking, Claimed, Running, Sweeping
<1>2. TypeOK /\ LockInUse /\ [Next]_vars => [stalls' = stalls => [FL!Next]_(FL!vars)]_vars
  <2> SUFFICES ASSUME TypeOK, LockInUse, Next, stalls' = stalls
               PROVE  [FL!Next]_(FL!vars)
    OBVIOUS
  <2> DEFINE H == {t \in Task : Holding(t) /\ lock = Mine(t)}
  <2>0. H = {t \in Task : Has(t)} /\ Orphan \in BOOLEAN /\ Orphan' \in BOOLEAN
    BY DEF Has, Orphan, Stale
  <2>1. CASE (\A u \in Task : Has(u)' <=> Has(u)) /\ (Orphan' <=> Orphan)
    <3>1. H' = H /\ Orphan' = Orphan
      BY <2>0, <2>1 DEF Has
    <3> QED
      BY <3>1 DEF FL!vars, Orphan
  <2>2. CASE \E t \in Task : (\A u \in Task : ~Has(u) /\ (Has(u)' <=> u = t)) /\ ~Orphan'
    <3>1. PICK t \in Task : (\A u \in Task : ~Has(u) /\ (Has(u)' <=> u = t)) /\ ~Orphan'
      BY <2>2
    <3>2. H = {} /\ H' = {t} /\ Orphan' = FALSE
      BY <2>0, <3>1 DEF Has
    <3>3. FL!Acquire(t)
      BY <3>2 DEF FL!Acquire, Orphan
    <3> QED
      BY <3>3 DEF FL!Next
  <2>3. CASE \E t \in Task : Has(t) /\ ~Orphan /\ \A u \in Task : ~Has(u)'
    <3>1. PICK t \in Task : Has(t) /\ ~Orphan /\ \A u \in Task : ~Has(u)'
      BY <2>3
    <3>2. H = {t} /\ H' = {} /\ Orphan = FALSE
      BY <2>0, <3>1, OneHas DEF Has
    <3>3. FL!Release(t) \/ FL!Die(t)
      BY <2>0, <3>2 DEF FL!Release, FL!Die, Orphan
    <3> QED
      BY <3>3 DEF FL!Next
  <2> QED
    BY <2>1, <2>2, <2>3, LockMaps
<1> QED
  BY <1>1, <1>2, NoLockLeftBehind, FenceTypeCorrect, PTL DEF Spec, UsesLock

=============================================================================

------------------------ MODULE RunCoordinatorProofs ------------------------
(***************************************************************************)
(* Proofs about RunCoordinator for any set of Sessions, callers, entries    *)
(* and fibers: type correctness, the inductive invariant behind the safety  *)
(* properties the runs check, the action properties, and the refinement of  *)
(* SerialExecution without its fairness.                                    *)
(***************************************************************************)
EXTENDS RunCoordinator, TLAPS

EntryTypes ==
  /\ pendingWake \in [Entry -> BOOLEAN]
  /\ pendingWakeForce \in [Entry -> BOOLEAN]
  /\ stopping \in [Entry -> BOOLEAN]
  /\ owner \in [Entry -> Fiber \cup {NoFiber}]

FiberTypes ==
  /\ phase \in [Fiber -> {"free", "forked", "draining"}]
  /\ keyOf \in [Fiber -> Key \cup {NoKey}]
  /\ entryOf \in [Fiber -> Entry \cup {NoEntry}]
  /\ forced \in [Fiber -> BOOLEAN]
  /\ interrupted \in [Fiber -> BOOLEAN]
  /\ \A f \in Fiber : phase[f] # "free" => keyOf[f] \in Key /\ entryOf[f] \in Entry

CallerTypes ==
  /\ call \in [Caller -> {"idle", "joined", "afterStop", "again", "interrupting"}]
  /\ callEntry \in [Caller -> Entry \cup {NoEntry}]
  /\ callFiber \in [Caller -> Fiber \cup {NoFiber}]
  /\ callKey \in [Caller -> Key \cup {NoKey}]

\* What each building block of the actions leaves well typed.
LEMMA ForkTypes ==
  ASSUME NEW g \in Fiber, NEW k \in Key, NEW e \in Entry, NEW force \in BOOLEAN,
         NEW ended, FiberTypes, Fork(g, k, e, force, ended)
  PROVE  FiberTypes'
<1>1. phase' \in [Fiber -> {"free", "forked", "draining"}]
  BY DEF FiberTypes, Fork
<1>2. keyOf' \in [Fiber -> Key \cup {NoKey}]
  BY DEF FiberTypes, Fork
<1>3. entryOf' \in [Fiber -> Entry \cup {NoEntry}]
  BY DEF FiberTypes, Fork
<1>4. forced' \in [Fiber -> BOOLEAN] /\ interrupted' \in [Fiber -> BOOLEAN]
  BY DEF FiberTypes, Fork
<1>5. \A f \in Fiber : phase'[f] # "free" => keyOf'[f] \in Key /\ entryOf'[f] \in Entry
  BY DEF FiberTypes, Fork
<1>6. QED
  BY <1>1, <1>2, <1>3, <1>4, <1>5 DEF FiberTypes

LEMMA NoForkTypes ==
  ASSUME NEW ended, FiberTypes, NoFork(ended)
  PROVE  FiberTypes'
<1>1. phase' \in [Fiber -> {"free", "forked", "draining"}]
  BY DEF FiberTypes, NoFork
<1>2. keyOf' \in [Fiber -> Key \cup {NoKey}]
  BY DEF FiberTypes, NoFork
<1>3. entryOf' \in [Fiber -> Entry \cup {NoEntry}]
  BY DEF FiberTypes, NoFork
<1>4. forced' \in [Fiber -> BOOLEAN] /\ interrupted' \in [Fiber -> BOOLEAN]
  BY DEF FiberTypes, NoFork
<1>5. \A f \in Fiber : phase'[f] # "free" => keyOf'[f] \in Key /\ entryOf'[f] \in Entry
  BY DEF FiberTypes, NoFork
<1>6. QED
  BY <1>1, <1>2, <1>3, <1>4, <1>5 DEF FiberTypes

LEMMA MakeEntryTypes ==
  ASSUME NEW e \in Entry, NEW f \in Fiber \cup {NoFiber}, NEW dropped,
         EntryTypes, MakeEntry(e, f, dropped)
  PROVE  EntryTypes'
<1>1. /\ pendingWake' \in [Entry -> BOOLEAN]
      /\ pendingWakeForce' \in [Entry -> BOOLEAN]
      /\ stopping' \in [Entry -> BOOLEAN]
  BY DEF EntryTypes, MakeEntry
<1>2. owner' \in [Entry -> Fiber \cup {NoFiber}]
  BY DEF EntryTypes, MakeEntry
<1>3. QED
  BY <1>1, <1>2 DEF EntryTypes

LEMMA StartEntryTypes ==
  ASSUME NEW k \in Key, NEW force \in BOOLEAN, NEW dropped, NEW ended,
         active \in [Key -> Entry \cup {NoEntry}], EntryTypes, FiberTypes,
         StartEntry(k, force, dropped, ended)
  PROVE  active' \in [Key -> Entry \cup {NoEntry}] /\ EntryTypes' /\ FiberTypes'
<1>1. PICK e \in Entry :
        /\ active' = [active EXCEPT ![k] = e]
        /\ \/ \E g \in Fiber : MakeEntry(e, g, dropped) /\ Fork(g, k, e, force, ended)
           \/ MakeEntry(e, NoFiber, dropped) /\ NoFork(ended)
  BY DEF StartEntry
<1>2. CASE \E g \in Fiber : MakeEntry(e, g, dropped) /\ Fork(g, k, e, force, ended)
  BY <1>1, <1>2, ForkTypes, MakeEntryTypes
<1>3. CASE MakeEntry(e, NoFiber, dropped) /\ NoFork(ended)
  BY <1>1, <1>3, NoForkTypes, MakeEntryTypes
<1>4. QED
  BY <1>1, <1>2, <1>3

LEMMA CompleteTypes ==
  ASSUME NEW e, NEW f, NEW exit, CallerTypes, Complete(e, f, exit)
  PROVE  CallerTypes'
<1>1. call' \in [Caller -> {"idle", "joined", "afterStop", "again", "interrupting"}]
  BY DEF CallerTypes, Complete
<1>2. callEntry' \in [Caller -> Entry \cup {NoEntry}]
  BY DEF CallerTypes, Complete
<1>3. callFiber' \in [Caller -> Fiber \cup {NoFiber}]
  BY DEF CallerTypes, Complete
<1>4. callKey' \in [Caller -> Key \cup {NoKey}]
  BY DEF CallerTypes, Complete
<1>5. QED
  BY <1>1, <1>2, <1>3, <1>4 DEF CallerTypes

LEMMA TypeInit == Init => TypeOK
BY NoneAssumption DEF Init, TypeOK

LEMMA TypeNext == TypeOK /\ [Next]_vars => TypeOK'
<1> SUFFICES ASSUME TypeOK, [Next]_vars PROVE TypeOK'
  OBVIOUS
<1> DEFINE HistoryTypes == /\ owedWake \in [Key -> BOOLEAN]
                           /\ owedForce \in [Key -> BOOLEAN]
                           /\ halted \in [Key -> BOOLEAN]
           Parts == /\ active \in [Key -> Entry \cup {NoEntry}]
                    /\ EntryTypes /\ FiberTypes /\ CallerTypes
                    /\ open \in BOOLEAN /\ HistoryTypes
<1>a. Parts
  BY DEF TypeOK, EntryTypes, FiberTypes, CallerTypes
<1>b. ASSUME Parts' PROVE TypeOK'
  BY <1>b DEF TypeOK, EntryTypes, FiberTypes, CallerTypes
<1>c. ASSUME UNCHANGED entryVars PROVE EntryTypes'
  BY <1>a, <1>c DEF entryVars, EntryTypes
<1>d. ASSUME UNCHANGED fiberVars PROVE FiberTypes'
  BY <1>a, <1>d DEF fiberVars, FiberTypes
<1>e. ASSUME UNCHANGED callerVars PROVE CallerTypes'
  BY <1>a, <1>e DEF callerVars, CallerTypes
<1>f. ASSUME UNCHANGED history PROVE HistoryTypes'
  BY <1>a, <1>f DEF history
<1>g. ASSUME NEW k \in Key, NEW force \in BOOLEAN, Owe(k, force) PROVE HistoryTypes'
  <2>1. owedWake' \in [Key -> BOOLEAN] /\ halted' \in [Key -> BOOLEAN]
    BY <1>a, <1>g DEF Owe
  <2>2. owedForce' \in [Key -> BOOLEAN]
    BY <1>a, <1>g DEF Owe
  <2>3. QED
    BY <2>1, <2>2
<1> HIDE DEF HistoryTypes
<1>1. ASSUME NEW c \in Caller, NEW k \in Key, NEW e \in Entry, Join(c, k, e)
      PROVE TypeOK'
  BY <1>1, <1>a, <1>b, <1>c, <1>d, <1>f DEF Join, CallerTypes
<1>2. ASSUME NEW c \in Caller, NEW k \in Key, RunIdle(c, k)
      PROVE TypeOK'
  <2>1. active' \in [Key -> Entry \cup {NoEntry}] /\ EntryTypes' /\ FiberTypes'
    BY <1>2, <1>a, StartEntryTypes DEF RunIdle
  <2>2. CallerTypes'
    BY <1>2, <1>a, <2>1 DEF RunIdle, CallerTypes
  <2>3. HistoryTypes'
    BY <1>2, <1>g DEF RunIdle
  <2>4. QED
    BY <1>2, <1>a, <1>b, <2>1, <2>2, <2>3 DEF RunIdle
<1>3. ASSUME NEW c \in Caller, NEW k \in Key, Interrupt(c, k)
      PROVE TypeOK'
  BY <1>3 DEF Interrupt, TypeOK
<1>4. ASSUME NEW c \in Caller, Abandon(c)
      PROVE TypeOK'
  BY <1>4, <1>a, <1>b, <1>c, <1>d, <1>f DEF Abandon, CallerTypes
<1>5. ASSUME NEW k \in Key, NEW force \in BOOLEAN, Wake(k, force)
      PROVE TypeOK'
  <2>1. CASE active[k] = NoEntry
    <3>1. active' \in [Key -> Entry \cup {NoEntry}] /\ EntryTypes' /\ FiberTypes'
      BY <1>5, <2>1, <1>a, StartEntryTypes, NoneAssumption DEF Wake
    <3>2. QED
      BY <1>5, <2>1, <1>a, <1>b, <1>e, <1>g, <3>1, NoneAssumption DEF Wake
  <2>2. CASE active[k] # NoEntry
    <3>1. PICK e \in Entry :
            /\ pendingWake' = [pendingWake EXCEPT ![e] = TRUE]
            /\ pendingWakeForce' = [pendingWakeForce EXCEPT ![e] = @ \/ force]
            /\ UNCHANGED <<active, stopping, owner, fiberVars, callerVars, open>>
            /\ Owe(k, force)
      BY <1>5, <2>2 DEF Wake
    <3>2. pendingWakeForce' \in [Entry -> BOOLEAN]
      BY <3>1, <1>a DEF EntryTypes
    <3>3. EntryTypes'
      BY <3>1, <3>2, <1>a DEF EntryTypes
    <3>4. QED
      BY <3>1, <3>3, <1>a, <1>b, <1>d, <1>e, <1>g
  <2>3. QED
    BY <2>1, <2>2
<1>6. ASSUME NEW f \in Fiber, BeginDrain(f)
      PROVE TypeOK'
  <2>1. FiberTypes'
    BY <1>6, <1>a DEF BeginDrain, FiberTypes
  <2>2. owedWake' \in [Key -> BOOLEAN] /\ halted' \in [Key -> BOOLEAN]
    BY <1>6, <1>a DEF BeginDrain, HistoryTypes
  <2>3. owedForce' \in [Key -> BOOLEAN]
    BY <1>6, <1>a DEF BeginDrain, HistoryTypes
  <2>4. QED
    BY <1>6, <1>a, <1>b, <1>c, <1>e, <2>1, <2>2, <2>3 DEF BeginDrain, HistoryTypes
<1>7. ASSUME NEW f \in Fiber, NEW exit \in Exits, Settle(f, exit)
      PROVE TypeOK'
  <2>0. entryOf[f] \in Entry /\ keyOf[f] \in Key
    BY <1>7, <1>a DEF Settle, MayExit, FiberTypes
  <2>1. CASE SettleContinue(f, exit)
    <3>1. pendingWakeForce[entryOf[f]] \in BOOLEAN
      BY <2>0, <1>a DEF EntryTypes
    <3>2. \/ \E g \in Fiber :
               /\ Fork(g, keyOf[f], entryOf[f], pendingWakeForce[entryOf[f]], {f})
               /\ owner' = [owner EXCEPT ![entryOf[f]] = g]
          \/ NoFork({f}) /\ owner' = [owner EXCEPT ![entryOf[f]] = NoFiber]
      BY <2>1 DEF SettleContinue
    <3>3. FiberTypes'
      BY <2>0, <3>1, <3>2, <1>a, ForkTypes, NoForkTypes
    <3>4. EntryTypes'
      BY <2>0, <2>1, <3>2, <1>a DEF SettleContinue, EntryTypes
    <3>5. CallerTypes'
      BY <2>1, <1>a DEF SettleContinue, CallerTypes
    <3>6. QED
      BY <1>7, <2>1, <3>3, <3>4, <3>5, <1>a, <1>b, <1>f DEF Settle, SettleContinue
  <2>2. CASE SettleSuccessor(f, exit)
    <3>1. active' \in [Key -> Entry \cup {NoEntry}] /\ EntryTypes' /\ FiberTypes'
      <4>1. pendingWakeForce[entryOf[f]] \in BOOLEAN
        BY <2>0, <1>a DEF EntryTypes
      <4>2. StartEntry(keyOf[f], pendingWakeForce[entryOf[f]], {entryOf[f]}, {f})
        BY <2>2 DEF SettleSuccessor
      <4>3. QED
        BY <2>0, <1>a, <4>1, <4>2, StartEntryTypes
    <3>2. CallerTypes'
      BY <2>2, <1>a, CompleteTypes DEF SettleSuccessor
    <3>3. QED
      BY <1>7, <3>1, <3>2, <1>a, <1>b, <1>f DEF Settle
  <2>3. CASE SettleIdle(f, exit)
    <3>1. FiberTypes' /\ CallerTypes'
      BY <2>3, <1>a, NoForkTypes, CompleteTypes DEF SettleIdle
    <3>2. EntryTypes' /\ active' \in [Key -> Entry \cup {NoEntry}]
      BY <2>3, <1>a DEF SettleIdle, DropEntry, EntryTypes
    <3>3. QED
      BY <1>7, <3>1, <3>2, <1>a, <1>b, <1>f DEF Settle
  <2>4. QED
    BY <1>7, <2>1, <2>2, <2>3 DEF Settle
<1>8. CASE Close
  BY <1>8 DEF Close, TypeOK, entryVars, callerVars, history
<1>9. CASE UNCHANGED vars
  BY <1>9 DEF vars, TypeOK, entryVars, fiberVars, callerVars, history
<1>10. QED
  BY <1>1, <1>2, <1>3, <1>4, <1>5, <1>6, <1>7, <1>8, <1>9 DEF Next, Run

\* Every reachable state is well typed.
THEOREM TypeCorrect == Spec => []TypeOK
BY TypeInit, TypeNext, PTL DEF Spec
-----------------------------------------------------------------------------
\* What the execution of key l looks like is the same after the step.
SameExecution(l) ==
  /\ active'[l] = active[l]
  /\ active[l] # NoEntry =>
       /\ pendingWake'[active[l]] = pendingWake[active[l]]
       /\ pendingWakeForce'[active[l]] = pendingWakeForce[active[l]]
       /\ owner'[active[l]] = owner[active[l]]
       /\ owner[active[l]] # NoFiber =>
            /\ phase'[owner[active[l]]] = phase[owner[active[l]]]
            /\ interrupted'[owner[active[l]]] = interrupted[owner[active[l]]]
            /\ forced'[owner[active[l]]] = forced[owner[active[l]]]

\* Two keys never share an entry that has an owner.
LEMMA EntryOfOneKey ==
  ASSUME TypeOK, OwnerAgrees, NEW f \in Fiber, Live(f), NEW l \in Key,
         l # keyOf[f], OwnerLive
  PROVE  active[l] # entryOf[f]
BY NoneAssumption DEF TypeOK, OwnerAgrees, OwnerLive, Live

\* Starting an entry for key k, when no other live fiber runs k, gives k an
\* owned execution that is about to drain and leaves every other key alone.
LEMMA StartEntryOwns ==
  ASSUME TypeOK, OwnerAgrees, OwnerLive, OpenOwned, UNCHANGED open,
         NEW k \in Key, NEW force \in BOOLEAN,
         NEW dropped, NEW ended, StartEntry(k, force, dropped, ended),
         \A h \in Fiber : Live(h) /\ h \notin ended => keyOf[h] # k /\ entryOf[h] \notin dropped,
         \A l \in Key : l # k /\ active[l] # NoEntry =>
           active[l] \notin dropped /\ owner[active[l]] \notin ended
  PROVE  /\ OwnerAgrees' /\ OwnerLive' /\ OpenOwned'
         /\ \A l \in Key : l # k => SameExecution(l)
         /\ active'[k] # NoEntry
         /\ open => About(owner[active[k]])' /\ forced'[owner'[active'[k]]] = force
         /\ \A h \in Fiber : Live(h) /\ h \notin ended => Live(h)'
<1>1. PICK e \in Entry :
        /\ Unreferenced(e)
        /\ active' = [active EXCEPT ![k] = e]
        /\ \/ open /\ \E g \in Fiber : FreeFiber(g) /\ MakeEntry(e, g, dropped)
                                       /\ Fork(g, k, e, force, ended)
           \/ ~open /\ MakeEntry(e, NoFiber, dropped) /\ NoFork(ended)
  BY DEF StartEntry
<1>2. active'[k] = e /\ \A l \in Key : l # k => active'[l] = active[l] /\ active[l] # e
  BY <1>1 DEF TypeOK, Unreferenced
<1>3. CASE ~open
  <2>1. MakeEntry(e, NoFiber, dropped) /\ NoFork(ended)
    BY <1>1, <1>3
  <2>2. \A h \in Fiber : Live(h)' => Live(h) /\ h \notin ended /\ keyOf'[h] = keyOf[h]
                                     /\ entryOf'[h] = entryOf[h] /\ entryOf[h] # e
    BY <2>1, <1>1 DEF NoFork, Live, TypeOK, Unreferenced
  <2>3. \A x \in Entry : x # e /\ x \notin dropped => owner'[x] = owner[x]
    BY <2>1 DEF MakeEntry
  <2>4. OwnerAgrees'
    BY <2>2, <2>3, <1>2 DEF OwnerAgrees, TypeOK, Live
  <2>5. \A l \in Key : l # k => SameExecution(l)
    BY <2>1, <2>3, <1>2 DEF SameExecution, MakeEntry, NoFork, TypeOK
  <2>6. owner'[e] = NoFiber
    BY <2>1 DEF MakeEntry
  <2>7. OwnerLive'
    BY <2>1, <2>3, <2>6, <1>2 DEF OwnerLive, NoFork, Live, TypeOK
  <2>8. \A h \in Fiber : Live(h) /\ h \notin ended => Live(h)'
    BY <2>1 DEF NoFork, Live
  <2>9. QED
    BY <2>4, <2>5, <2>7, <2>8, <1>2, <1>3, NoneAssumption DEF OpenOwned
<1>4. CASE open
  <2>1. PICK g \in Fiber :
          FreeFiber(g) /\ MakeEntry(e, g, dropped) /\ Fork(g, k, e, force, ended)
    BY <1>1, <1>4
  <2>2. \A h \in Fiber : Live(h)' /\ h # g =>
          /\ Live(h) /\ h \notin ended /\ keyOf'[h] = keyOf[h]
          /\ entryOf'[h] = entryOf[h] /\ entryOf[h] # e
    BY <2>1, <1>1 DEF Fork, Live, TypeOK, Unreferenced
  <2>3. \A x \in Entry : x # e /\ x \notin dropped => owner'[x] = owner[x]
    BY <2>1 DEF MakeEntry
  <2>4. /\ owner'[e] = g /\ phase'[g] = "forked" /\ keyOf'[g] = k /\ entryOf'[g] = e
        /\ ~interrupted'[g] /\ forced'[g] = force
    BY <2>1 DEF MakeEntry, Fork
  <2>5. OwnerAgrees'
    <3> SUFFICES ASSUME NEW h \in Fiber, Live(h)'
                 PROVE  active'[keyOf'[h]] = entryOf'[h] /\ owner'[entryOf'[h]] = h
      BY DEF OwnerAgrees
    <3>1. CASE h = g
      BY <3>1, <2>4, <1>2
    <3>2. CASE h # g
      BY <3>2, <2>2, <2>3, <1>2 DEF OwnerAgrees, TypeOK, Live
    <3>3. QED
      BY <3>1, <3>2
  <2>6. \A l \in Key : l # k /\ active[l] # NoEntry /\ owner[active[l]] # NoFiber =>
          owner[active[l]] \in Fiber /\ owner[active[l]] # g
    BY <2>1 DEF OwnerLive, FreeFiber, Live, TypeOK
  <2>7. \A l \in Key : l # k => SameExecution(l)
    BY <2>1, <2>3, <2>6, <1>2 DEF SameExecution, MakeEntry, Fork, TypeOK
  <2>8. OwnerLive'
    <3> SUFFICES ASSUME NEW l \in Key, active'[l] # NoEntry, owner'[active'[l]] # NoFiber
                 PROVE  /\ Live(owner[active[l]])'
                        /\ keyOf'[owner'[active'[l]]] = l
                        /\ entryOf'[owner'[active'[l]]] = active'[l]
      BY DEF OwnerLive
    <3>1. CASE l = k
      BY <3>1, <2>4, <1>2 DEF Live
    <3>2. CASE l # k
      BY <3>2, <2>1, <2>3, <2>6, <1>2 DEF OwnerLive, Fork, Live, TypeOK
    <3>3. QED
      BY <3>1, <3>2
  <2>9. \A h \in Fiber : Live(h) /\ h \notin ended => Live(h)'
    BY <2>1 DEF Fork, Live
  <2>10. OpenOwned'
    BY <2>3, <2>4, <1>2, <1>4, NoneAssumption DEF OpenOwned, TypeOK
  <2>11. QED
    BY <2>4, <2>5, <2>7, <2>8, <2>9, <2>10, <1>2, NoneAssumption DEF About
<1>5. QED
  BY <1>3, <1>4 DEF TypeOK
-----------------------------------------------------------------------------
LEMMA InvInit == Init => IInv
BY TypeInit, NoneAssumption
   DEF Init, IInv, OwnerAgrees, OwnerLive, OpenOwned, OwedWakeKept, OwedForceKept,
       WaitersHeld, Live

\* What is owed to key l stays kept by an execution that does not change.
LEMMA OwedUndisturbed ==
  ASSUME IInv, TypeOK', NEW l \in Key, SameExecution(l), open' => open,
         owedWake'[l] = owedWake[l], owedForce'[l] = owedForce[l]
  PROVE  /\ open' /\ owedWake'[l] => /\ active'[l] # NoEntry
                                     /\ pendingWake'[active'[l]] \/ About(owner[active[l]])'
         /\ open' /\ owedForce'[l] =>
              /\ active'[l] # NoEntry
              /\ \/ pendingWake'[active'[l]] /\ pendingWakeForce'[active'[l]]
                 \/ About(owner[active[l]])' /\ forced'[owner'[active'[l]]]
<1>1. active[l] # NoEntry /\ open => owner[active[l]] # NoFiber
  BY DEF IInv, OpenOwned
<1>2. QED
  BY <1>1 DEF IInv, SameExecution, OwedWakeKept, OwedForceKept, About

\* Completing an entry that leaves the map releases exactly its waiters.
LEMMA WaitersComplete ==
  ASSUME IInv, TypeOK', NEW f \in Fiber, NEW exit, NEW k \in Key, NEW e \in Entry,
         active[k] = e, Complete(e, f, exit),
         \A l \in Key : l # k => active'[l] = active[l],
         \A h \in Fiber : Live(h) /\ h \notin {f} => Live(h)'
  PROVE  WaitersHeld'
<1> SUFFICES ASSUME NEW d \in Caller
             PROVE  /\ call'[d] \in {"joined", "afterStop"} =>
                         callEntry'[d] # NoEntry /\ \E l \in Key : active'[l] = callEntry'[d]
                    /\ call'[d] = "interrupting" => callFiber'[d] # NoFiber /\ Live(callFiber[d])'
  BY DEF WaitersHeld
<1>1. call'[d] \in {"joined", "afterStop"} => call[d] = call'[d] /\ callEntry[d] # e
  BY DEF Complete, Resumes, Returns, IInv, TypeOK
<1>2. call'[d] \in {"joined", "afterStop"} =>
        callEntry'[d] = callEntry[d] /\ callEntry[d] # NoEntry
        /\ \E l \in Key : l # k /\ active[l] = callEntry[d]
  BY <1>1 DEF Complete, IInv, WaitersHeld
<1>3. call'[d] = "interrupting" => call[d] = "interrupting" /\ callFiber[d] # f
  BY DEF Complete, Resumes, Returns, IInv, TypeOK
<1>4. call'[d] = "interrupting" =>
        callFiber'[d] = callFiber[d] /\ callFiber[d] \in Fiber /\ Live(callFiber[d])
  BY <1>3 DEF Complete, IInv, WaitersHeld, TypeOK
<1>5. QED
  BY <1>2, <1>3, <1>4, NoneAssumption DEF Live, TypeOK

LEMMA InvNext == IInv /\ [Next]_vars => IInv'
<1> SUFFICES ASSUME IInv, [Next]_vars PROVE IInv'
  OBVIOUS
<1>t. TypeOK /\ TypeOK'
  BY TypeNext DEF IInv
<1> USE <1>t
<1>1. ASSUME NEW c \in Caller, NEW k \in Key, NEW e \in Entry, active[k] = e, Join(c, k, e)
      PROVE IInv'
  <2>1. UNCHANGED <<active, entryVars, fiberVars, open, history>>
    BY <1>1 DEF Join
  <2>2. OwnerAgrees' /\ OwnerLive' /\ OpenOwned' /\ OwedWakeKept' /\ OwedForceKept'
    BY <2>1 DEF IInv, OwnerAgrees, OwnerLive, OpenOwned, OwedWakeKept, OwedForceKept, Live,
                About, entryVars, fiberVars, history
  <2>3. WaitersHeld'
    BY <1>1, <2>1, NoneAssumption DEF IInv, Join, WaitersHeld, Live, fiberVars, TypeOK
  <2>4. QED
    BY <2>2, <2>3 DEF IInv
<1>2. ASSUME NEW k \in Key, NEW force \in BOOLEAN, active[k] = NoEntry,
             StartEntry(k, force, {}, {}), Owe(k, force), UNCHANGED open
      PROVE  /\ OwnerAgrees' /\ OwnerLive' /\ OpenOwned' /\ OwedWakeKept' /\ OwedForceKept'
             /\ \A l \in Key : l # k => SameExecution(l)
             /\ active'[k] # NoEntry
             /\ \A h \in Fiber : Live(h) => Live(h)'
  <2>1. \A h \in Fiber : Live(h) => keyOf[h] # k
    BY <1>2, NoneAssumption DEF IInv, OwnerAgrees, TypeOK, Live
  <2>2. /\ OwnerAgrees' /\ OwnerLive' /\ OpenOwned'
        /\ \A l \in Key : l # k => SameExecution(l)
        /\ active'[k] # NoEntry
        /\ open => About(owner[active[k]])' /\ forced'[owner'[active'[k]]] = force
        /\ \A h \in Fiber : Live(h) /\ h \notin {} => Live(h)'
    BY <1>2, <2>1, StartEntryOwns DEF IInv
  <2>3. \A l \in Key : l # k => owedWake'[l] = owedWake[l] /\ owedForce'[l] = owedForce[l]
    BY <1>2 DEF Owe, TypeOK
  <2>4. ~owedForce[k] \/ ~open
    BY <1>2 DEF IInv, OwedForceKept
  <2>5. owedForce'[k] => force \/ ~open
    BY <1>2, <2>4 DEF Owe, TypeOK
  <2>6. OwedWakeKept'
    BY <1>2, <2>2, <2>3, OwedUndisturbed DEF OwedWakeKept
  <2>7. OwedForceKept'
    BY <1>2, <2>2, <2>3, <2>5, OwedUndisturbed DEF OwedForceKept
  <2>8. QED
    BY <2>2, <2>6, <2>7
<1>3. ASSUME NEW c \in Caller, NEW k \in Key, RunIdle(c, k)
      PROVE IInv'
  <2>1. /\ OwnerAgrees' /\ OwnerLive' /\ OpenOwned' /\ OwedWakeKept' /\ OwedForceKept'
        /\ \A l \in Key : l # k => SameExecution(l)
        /\ active'[k] # NoEntry
        /\ \A h \in Fiber : Live(h) => Live(h)'
    BY <1>2, <1>3 DEF RunIdle
  <2>2. WaitersHeld'
    <3> SUFFICES ASSUME NEW d \in Caller
                 PROVE  /\ call'[d] \in {"joined", "afterStop"} =>
                             callEntry'[d] # NoEntry /\ \E l \in Key : active'[l] = callEntry'[d]
                        /\ call'[d] = "interrupting" => callFiber'[d] # NoFiber /\ Live(callFiber[d])'
      BY DEF WaitersHeld
    <3>1. CASE d = c
      BY <1>3, <2>1, <3>1 DEF RunIdle, TypeOK
    <3>2. CASE d # c
      <4>1. call'[d] = call[d] /\ callEntry'[d] = callEntry[d] /\ callFiber'[d] = callFiber[d]
        BY <1>3, <3>2 DEF RunIdle, TypeOK
      <4>2. ASSUME call[d] \in {"joined", "afterStop"}
            PROVE  callEntry[d] # NoEntry /\ \E l \in Key : active'[l] = callEntry[d]
        <5>1. PICK l \in Key : callEntry[d] # NoEntry /\ active[l] = callEntry[d]
          BY <4>2 DEF IInv, WaitersHeld
        <5>2. l # k
          BY <1>3, <5>1 DEF RunIdle
        <5>3. QED
          BY <2>1, <5>1, <5>2 DEF SameExecution
      <4>3. call[d] = "interrupting" => callFiber[d] # NoFiber /\ callFiber[d] \in Fiber /\ Live(callFiber[d])
        BY DEF IInv, WaitersHeld, TypeOK
      <4>4. QED
        BY <2>1, <4>1, <4>2, <4>3 DEF Live
    <3>3. QED
      BY <3>1, <3>2
  <2>3. QED
    BY <2>1, <2>2 DEF IInv
<1>4. ASSUME NEW k \in Key, NEW force \in BOOLEAN, Wake(k, force)
      PROVE IInv'
  <2>1. CASE active[k] = NoEntry
    <3>1. StartEntry(k, force, {}, {}) /\ Owe(k, force) /\ UNCHANGED <<callerVars, open>>
      BY <1>4, <2>1, NoneAssumption DEF Wake
    <3>2. /\ OwnerAgrees' /\ OwnerLive' /\ OpenOwned' /\ OwedWakeKept' /\ OwedForceKept'
          /\ \A l \in Key : l # k => SameExecution(l)
          /\ \A h \in Fiber : Live(h) => Live(h)'
      BY <1>2, <2>1, <3>1
    <3>3. \A x \in Entry, l \in Key : active[l] = x => active'[l] = x
      BY <2>1, <3>2, NoneAssumption DEF SameExecution
    <3>4. WaitersHeld'
      BY <3>1, <3>2, <3>3 DEF IInv, WaitersHeld, callerVars, Live, TypeOK
    <3>5. QED
      BY <3>2, <3>4 DEF IInv
  <2>2. CASE active[k] # NoEntry
    <3>1. PICK e \in Entry :
            /\ active[k] = e
            /\ pendingWake' = [pendingWake EXCEPT ![e] = TRUE]
            /\ pendingWakeForce' = [pendingWakeForce EXCEPT ![e] = pendingWakeForce[e] \/ force]
            /\ Owe(k, force)
            /\ UNCHANGED <<active, stopping, owner, fiberVars, callerVars, open>>
      BY <1>4, <2>2 DEF Wake
    <3>2. OwnerAgrees' /\ OwnerLive' /\ OpenOwned' /\ WaitersHeld'
      BY <3>1 DEF IInv, OwnerAgrees, OwnerLive, OpenOwned, WaitersHeld, Live, fiberVars, callerVars
    <3>3. \A x \in Entry : pendingWake[x] => pendingWake'[x]
      BY <3>1 DEF TypeOK
    <3>4. \A x \in Entry : pendingWakeForce[x] => pendingWakeForce'[x]
      BY <3>1 DEF TypeOK
    <3>5. \A l \in Key : l # k => owedWake'[l] = owedWake[l] /\ owedForce'[l] = owedForce[l]
      BY <3>1 DEF Owe, TypeOK
    <3>6. pendingWake'[e] /\ (force => pendingWakeForce'[e])
      BY <3>1 DEF TypeOK
    <3>7. owedForce'[k] => owedForce[k] \/ force
      BY <3>1 DEF Owe, TypeOK
    <3>8. OwedWakeKept'
      BY <3>1, <3>3, <3>5, <3>6, <2>2 DEF IInv, OwedWakeKept, About, fiberVars, TypeOK
    <3>9. OwedForceKept'
      <4> SUFFICES ASSUME NEW l \in Key, open, owedForce'[l]
                   PROVE  /\ active[l] # NoEntry
                          /\ \/ pendingWake'[active[l]] /\ pendingWakeForce'[active[l]]
                             \/ About(owner[active[l]]) /\ forced[owner[active[l]]]
        BY <3>1 DEF OwedForceKept, About, fiberVars
      <4>1. CASE l = k /\ force
        BY <3>1, <3>6, <2>2, <4>1
      <4>2. CASE owedForce[l]
        <5>1. active[l] \in Entry
          BY <4>2 DEF IInv, OwedForceKept, TypeOK
        <5>2. QED
          BY <3>3, <3>4, <4>2, <5>1 DEF IInv, OwedForceKept
      <4>3. QED
        BY <3>5, <3>7, <4>1, <4>2
    <3>10. QED
      BY <3>2, <3>8, <3>9 DEF IInv
  <2>3. QED
    BY <2>1, <2>2
<1>5. ASSUME NEW c \in Caller, NEW k \in Key, Interrupt(c, k)
      PROVE IInv'
  <2>1. PICK e \in Entry :
          /\ active[k] = e
          /\ pendingWake' = [pendingWake EXCEPT ![e] = FALSE]
          /\ pendingWakeForce' = [pendingWakeForce EXCEPT ![e] = FALSE]
          /\ interrupted' = [f \in Fiber |-> f = owner[e] \/ interrupted[f]]
          /\ call' = [call EXCEPT ![c] = IF owner[e] = NoFiber THEN "idle" ELSE "interrupting"]
          /\ callFiber' = [callFiber EXCEPT ![c] = owner[e]]
    BY <1>5 DEF Interrupt
  <2>2. /\ UNCHANGED <<active, owner, phase, keyOf, entryOf, forced, callEntry, callKey, open>>
        /\ owedWake' = [owedWake EXCEPT ![k] = FALSE]
        /\ owedForce' = [owedForce EXCEPT ![k] = FALSE]
    BY <1>5 DEF Interrupt
  <2>3. OwnerAgrees' /\ OwnerLive' /\ OpenOwned'
    BY <2>2 DEF IInv, OwnerAgrees, OwnerLive, OpenOwned, Live
  <2>4. \A l \in Key : l # k /\ open /\ active[l] # NoEntry =>
          active[l] # e /\ owner[active[l]] # owner[e] /\ owner[active[l]] \in Fiber
    BY <2>1, NoneAssumption DEF IInv, OwnerLive, OpenOwned, TypeOK
  <2>5. \A l \in Key : l # k /\ open => SameExecution(l)
    <3> SUFFICES ASSUME NEW l \in Key, l # k, open, active[l] # NoEntry
                 PROVE  SameExecution(l)
      BY <2>2 DEF SameExecution
    <3>1. active[l] \in Entry
      BY DEF TypeOK
    <3>2. /\ pendingWake'[active[l]] = pendingWake[active[l]]
          /\ pendingWakeForce'[active[l]] = pendingWakeForce[active[l]]
      BY <2>1, <2>4, <3>1 DEF TypeOK
    <3>3. interrupted'[owner[active[l]]] = interrupted[owner[active[l]]]
      BY <2>1, <2>4 DEF TypeOK
    <3>4. QED
      BY <2>2, <3>2, <3>3 DEF SameExecution
  <2>6. /\ \A l \in Key : l # k => owedWake'[l] = owedWake[l] /\ owedForce'[l] = owedForce[l]
        /\ ~owedWake'[k] /\ ~owedForce'[k]
    BY <2>2 DEF TypeOK
  <2>9. OwedWakeKept'
    BY <2>2, <2>5, <2>6, OwedUndisturbed DEF OwedWakeKept
  <2>10. OwedForceKept'
    BY <2>2, <2>5, <2>6, OwedUndisturbed DEF OwedForceKept
  <2>7. WaitersHeld'
    <3> SUFFICES ASSUME NEW d \in Caller
                 PROVE  /\ call'[d] \in {"joined", "afterStop"} =>
                             callEntry'[d] # NoEntry /\ \E l \in Key : active'[l] = callEntry'[d]
                        /\ call'[d] = "interrupting" => callFiber'[d] # NoFiber /\ Live(callFiber[d])'
      BY DEF WaitersHeld
    <3>1. CASE d = c
      BY <2>1, <2>2, <3>1, NoneAssumption DEF IInv, OwnerLive, Live, TypeOK
    <3>2. CASE d # c
      BY <2>1, <2>2, <3>2 DEF IInv, WaitersHeld, Live, TypeOK
    <3>3. QED
      BY <3>1, <3>2
  <2>8. QED
    BY <2>3, <2>9, <2>10, <2>7 DEF IInv
<1>6. ASSUME NEW c \in Caller, Abandon(c)
      PROVE IInv'
  <2>1. UNCHANGED <<active, entryVars, fiberVars, open, history>>
    BY <1>6 DEF Abandon
  <2>2. OwnerAgrees' /\ OwnerLive' /\ OpenOwned' /\ OwedWakeKept' /\ OwedForceKept'
    BY <2>1 DEF IInv, OwnerAgrees, OwnerLive, OpenOwned, OwedWakeKept, OwedForceKept, Live,
                About, entryVars, fiberVars, history
  <2>3. WaitersHeld'
    BY <1>6, <2>1 DEF IInv, Abandon, WaitersHeld, Live, fiberVars, TypeOK
  <2>4. QED
    BY <2>2, <2>3 DEF IInv
<1>7. ASSUME NEW f \in Fiber, BeginDrain(f)
      PROVE IInv'
  <2> DEFINE k == keyOf[f]
  <2>1. /\ phase[f] = "forked" /\ ~interrupted[f]
        /\ phase' = [phase EXCEPT ![f] = "draining"]
        /\ owedWake' = [owedWake EXCEPT ![k] = FALSE]
        /\ owedForce' = [owedForce EXCEPT ![k] = owedForce[k] /\ ~forced[f]]
        /\ UNCHANGED <<active, entryVars, keyOf, entryOf, forced, interrupted, callerVars, open>>
    BY <1>7 DEF BeginDrain
  <2>2. k \in Key /\ \A h \in Fiber : Live(h)' <=> Live(h)
    BY <2>1 DEF Live, TypeOK
  <2>3. OwnerAgrees' /\ OwnerLive' /\ OpenOwned' /\ WaitersHeld'
    BY <2>1, <2>2 DEF IInv, OwnerAgrees, OwnerLive, OpenOwned, WaitersHeld, entryVars, callerVars,
                      TypeOK
  <2>4. \A l \in Key : l # k /\ active[l] # NoEntry /\ owner[active[l]] # NoFiber =>
          owner[active[l]] # f
    BY DEF IInv, OwnerLive
  <2>5. \A l \in Key : l # k => SameExecution(l)
    BY <2>1, <2>4 DEF SameExecution, entryVars, TypeOK
  <2>6. OwedWakeKept'
    BY <2>1, <2>2, <2>5, OwedUndisturbed DEF OwedWakeKept, TypeOK
  <2>7. active[k] = entryOf[f] /\ owner[active[k]] = f
    BY <2>1 DEF IInv, OwnerAgrees, Live
  <2>8. open /\ owedForce'[k] => /\ active[k] # NoEntry
                                 /\ pendingWake[active[k]] /\ pendingWakeForce[active[k]]
    BY <2>1, <2>2, <2>7 DEF IInv, OwedForceKept, TypeOK
  <2>9. OwedForceKept'
    <3> SUFFICES ASSUME NEW l \in Key, open', owedForce'[l]
                 PROVE  /\ active'[l] # NoEntry
                        /\ \/ pendingWake'[active'[l]] /\ pendingWakeForce'[active'[l]]
                           \/ About(owner[active[l]])' /\ forced'[owner'[active'[l]]]
      BY DEF OwedForceKept
    <3>1. CASE l = k
      BY <2>1, <2>8, <3>1 DEF entryVars
    <3>2. CASE l # k
      BY <2>1, <2>2, <2>5, <3>2, OwedUndisturbed DEF TypeOK
    <3>3. QED
      BY <3>1, <3>2
  <2>10. QED
    BY <2>3, <2>6, <2>9 DEF IInv
<1>8. ASSUME NEW f \in Fiber, NEW exit \in Exits, Settle(f, exit)
      PROVE IInv'
  <2>0. PICK k \in Key, e \in Entry :
          /\ keyOf[f] = k /\ entryOf[f] = e
          /\ Live(f) /\ active[k] = e /\ owner[e] = f
          /\ UNCHANGED <<open, history>>
    BY <1>8 DEF IInv, Settle, MayExit, OwnerAgrees, Live, TypeOK
  <2>1. \A l \in Key : l # k /\ active[l] # NoEntry =>
          active[l] # e /\ owner[active[l]] # f
    BY <2>0, NoneAssumption DEF IInv, OwnerLive, TypeOK
  <2>2. \A h \in Fiber : Live(h) /\ h # f => keyOf[h] # k /\ entryOf[h] # e
    BY <2>0 DEF IInv, OwnerAgrees
  <2>3. open /\ owedWake[k] => pendingWake[e]
    BY <1>8, <2>0 DEF IInv, OwedWakeKept, About, Settle, MayExit
  <2>4. open /\ owedForce[k] => pendingWake[e] /\ pendingWakeForce[e]
    BY <1>8, <2>0 DEF IInv, OwedForceKept, About, Settle, MayExit
  <2>5. \A l \in Key : owedWake'[l] = owedWake[l] /\ owedForce'[l] = owedForce[l]
    BY <2>0 DEF history
  <2>6. CASE SettleContinue(f, exit)
    <3>1. /\ pendingWake' = [pendingWake EXCEPT ![e] = FALSE]
          /\ pendingWakeForce' = [pendingWakeForce EXCEPT ![e] = FALSE]
          /\ \/ /\ open
                /\ \E g \in Fiber : /\ FreeFiber(g)
                                    /\ Fork(g, k, e, pendingWakeForce[e], {f})
                                    /\ owner' = [owner EXCEPT ![e] = g]
             \/ ~open /\ NoFork({f}) /\ owner' = [owner EXCEPT ![e] = NoFiber]
          /\ UNCHANGED <<active, callEntry>>
      BY <2>0, <2>6 DEF SettleContinue
    <3>2. CASE ~open
      <4>1. NoFork({f}) /\ owner' = [owner EXCEPT ![e] = NoFiber]
        BY <3>1, <3>2
      <4>2. OwnerAgrees'
        BY <2>0, <2>2, <3>1, <4>1 DEF IInv, OwnerAgrees, NoFork, Live, TypeOK
      <4>3. OwnerLive'
        BY <2>0, <2>1, <3>1, <4>1 DEF IInv, OwnerLive, NoFork, Live, TypeOK
      <4>4. \A h \in Fiber : Live(h) /\ h # f => Live(h)'
        BY <4>1 DEF NoFork, Live
      <4>5. WaitersHeld'
        BY <2>6, <3>1, <4>4 DEF IInv, SettleContinue, WaitersHeld, TypeOK
      <4>6. QED
        BY <2>0, <3>2, <4>2, <4>3, <4>5
           DEF IInv, OpenOwned, OwedWakeKept, OwedForceKept
    <3>3. CASE open
      <4>1. PICK g \in Fiber : /\ FreeFiber(g)
                              /\ Fork(g, k, e, pendingWakeForce[e], {f})
                              /\ owner' = [owner EXCEPT ![e] = g]
        BY <3>1, <3>3
      <4>2. /\ g # f /\ owner'[e] = g /\ phase'[g] = "forked" /\ keyOf'[g] = k
            /\ entryOf'[g] = e /\ ~interrupted'[g] /\ forced'[g] = pendingWakeForce[e]
        BY <2>0, <4>1 DEF Fork, FreeFiber, Live, TypeOK
      <4>3. \A h \in Fiber : Live(h)' /\ h # g =>
              Live(h) /\ h # f /\ keyOf'[h] = keyOf[h] /\ entryOf'[h] = entryOf[h]
        BY <4>1 DEF Fork, Live
      <4>4. OwnerAgrees'
        <5> SUFFICES ASSUME NEW h \in Fiber, Live(h)'
                     PROVE  active'[keyOf'[h]] = entryOf'[h] /\ owner'[entryOf'[h]] = h
          BY DEF OwnerAgrees
        <5>1. CASE h = g
          BY <2>0, <3>1, <4>2, <5>1
        <5>2. CASE h # g
          BY <2>2, <3>1, <4>1, <4>3, <5>2 DEF IInv, OwnerAgrees, Live, TypeOK
        <5>3. QED
          BY <5>1, <5>2
      <4>5. \A l \in Key : l # k /\ active[l] # NoEntry =>
              /\ active[l] \in Entry /\ active[l] # e
              /\ owner[active[l]] \in Fiber /\ owner[active[l]] # f /\ owner[active[l]] # g
              /\ Live(owner[active[l]])
        BY <2>1, <3>3, <4>1 DEF IInv, OpenOwned, OwnerLive, FreeFiber, Live, TypeOK
      <4>6. \A l \in Key : l # k => SameExecution(l)
        <5> SUFFICES ASSUME NEW l \in Key, l # k, active[l] # NoEntry
                     PROVE  SameExecution(l)
          BY <3>1 DEF SameExecution
        <5>1. /\ pendingWake'[active[l]] = pendingWake[active[l]]
              /\ pendingWakeForce'[active[l]] = pendingWakeForce[active[l]]
              /\ owner'[active[l]] = owner[active[l]]
          BY <3>1, <4>1, <4>5 DEF TypeOK
        <5>2. /\ phase'[owner[active[l]]] = phase[owner[active[l]]]
              /\ interrupted'[owner[active[l]]] = interrupted[owner[active[l]]]
              /\ forced'[owner[active[l]]] = forced[owner[active[l]]]
          BY <4>1, <4>5 DEF Fork, TypeOK
        <5>3. QED
          BY <3>1, <5>1, <5>2 DEF SameExecution
      <4>7. OwnerLive'
        <5> SUFFICES ASSUME NEW l \in Key, active'[l] # NoEntry, owner'[active'[l]] # NoFiber
                     PROVE  /\ Live(owner[active[l]])'
                            /\ keyOf'[owner'[active'[l]]] = l
                            /\ entryOf'[owner'[active'[l]]] = active'[l]
          BY DEF OwnerLive
        <5>1. CASE l = k
          BY <2>0, <3>1, <4>2, <5>1 DEF Live
        <5>2. CASE l # k
          <6>1. active[l] # NoEntry /\ active'[l] = active[l]
            BY <3>1
          <6>2. owner'[active[l]] = owner[active[l]]
            BY <4>6, <5>2, <6>1 DEF SameExecution
          <6>3. /\ keyOf[owner[active[l]]] = l /\ entryOf[owner[active[l]]] = active[l]
                /\ owner[active[l]] # NoFiber
            BY <4>5, <5>2, <6>1, NoneAssumption DEF IInv, OwnerLive
          <6>4. QED
            BY <4>1, <4>5, <5>2, <6>1, <6>2, <6>3 DEF Fork, Live
        <5>3. QED
          BY <5>1, <5>2
      <4>8. OpenOwned'
        <5>1. ASSUME NEW l \in Key, active[l] # NoEntry PROVE owner'[active[l]] # NoFiber
          BY <2>0, <4>2, <4>5, <4>6, <5>1, NoneAssumption DEF SameExecution
        <5>2. QED
          BY <3>1, <5>1 DEF OpenOwned
      <4>9. About(owner[active[k]])' /\ active'[k] # NoEntry
        BY <2>0, <3>1, <4>2, NoneAssumption DEF About
      <4>10. OwedWakeKept'
        <5>1. \A l \in Key : l # k /\ open' /\ owedWake'[l] =>
                /\ active'[l] # NoEntry
                /\ pendingWake'[active'[l]] \/ About(owner[active[l]])'
          BY <2>0, <2>5, <4>6, OwedUndisturbed
        <5>2. QED
          BY <4>9, <5>1 DEF OwedWakeKept
      <4>11. OwedForceKept'
        <5>1. \A l \in Key : l # k /\ open' /\ owedForce'[l] =>
                /\ active'[l] # NoEntry
                /\ \/ pendingWake'[active'[l]] /\ pendingWakeForce'[active'[l]]
                   \/ About(owner[active[l]])' /\ forced'[owner'[active'[l]]]
          BY <2>0, <2>5, <4>6, OwedUndisturbed
        <5>2. owedForce'[k] => forced'[owner'[active'[k]]]
          BY <2>0, <2>4, <2>5, <3>1, <3>3, <4>2
        <5>3. QED
          BY <4>9, <5>1, <5>2 DEF OwedForceKept
      <4>12. \A h \in Fiber : Live(h) /\ h # f => Live(h)'
        BY <4>1 DEF Fork, Live
      <4>13. WaitersHeld'
        BY <2>6, <3>1, <4>12 DEF IInv, SettleContinue, WaitersHeld, TypeOK
      <4>14. QED
        BY <4>4, <4>7, <4>8, <4>10, <4>11, <4>13 DEF IInv
    <3>4. QED
      BY <3>2, <3>3 DEF TypeOK
  <2>7. CASE SettleSuccessor(f, exit)
    <3>1. StartEntry(k, pendingWakeForce[e], {e}, {f}) /\ Complete(e, f, exit) /\ pendingWake[e]
      BY <2>0, <2>7 DEF SettleSuccessor
    <3>2. /\ OwnerAgrees' /\ OwnerLive' /\ OpenOwned'
          /\ \A l \in Key : l # k => SameExecution(l)
          /\ active'[k] # NoEntry
          /\ open => About(owner[active[k]])' /\ forced'[owner'[active'[k]]] = pendingWakeForce[e]
          /\ \A h \in Fiber : Live(h) /\ h \notin {f} => Live(h)'
      <4>1. pendingWakeForce[e] \in BOOLEAN
        BY <2>0 DEF TypeOK
      <4>2. \A h \in Fiber : Live(h) /\ h \notin {f} => keyOf[h] # k /\ entryOf[h] \notin {e}
        BY <2>2
      <4>3. \A l \in Key : l # k /\ active[l] # NoEntry =>
              active[l] \notin {e} /\ owner[active[l]] \notin {f}
        BY <2>1
      <4>4. TypeOK /\ OwnerAgrees /\ OwnerLive /\ OpenOwned /\ UNCHANGED open
        BY <2>0 DEF IInv
      <4>5. QED
        BY <2>0, <3>1, <4>1, <4>2, <4>3, <4>4, StartEntryOwns
    <3>3. OwedWakeKept'
      <4>1. \A l \in Key : l # k /\ open' /\ owedWake'[l] =>
              /\ active'[l] # NoEntry
              /\ pendingWake'[active'[l]] \/ About(owner[active[l]])'
        BY <2>0, <2>5, <3>2, OwedUndisturbed
      <4>2. QED
        BY <2>0, <3>2, <4>1 DEF OwedWakeKept
    <3>4. OwedForceKept'
      <4>1. \A l \in Key : l # k /\ open' /\ owedForce'[l] =>
              /\ active'[l] # NoEntry
              /\ \/ pendingWake'[active'[l]] /\ pendingWakeForce'[active'[l]]
                 \/ About(owner[active[l]])' /\ forced'[owner'[active'[l]]]
        BY <2>0, <2>5, <3>2, OwedUndisturbed
      <4>2. open' /\ owedForce'[k] => forced'[owner'[active'[k]]]
        BY <2>0, <2>4, <2>5, <3>2
      <4>3. QED
        BY <2>0, <3>2, <4>1, <4>2 DEF OwedForceKept
    <3>5. \A l \in Key : l # k => active'[l] = active[l]
      BY <3>2 DEF SameExecution
    <3>6. WaitersHeld'
      BY <2>0, <3>1, <3>2, <3>5, WaitersComplete
    <3>7. QED
      BY <3>2, <3>3, <3>4, <3>6 DEF IInv
  <2>8. CASE SettleIdle(f, exit)
    <3>1. /\ ~pendingWake[e] /\ active' = [active EXCEPT ![k] = NoEntry]
          /\ NoFork({f}) /\ DropEntry(e) /\ Complete(e, f, exit)
      BY <2>0, <2>8 DEF SettleIdle
    <3>2. active'[k] = NoEntry /\ \A l \in Key : l # k => active'[l] = active[l]
      BY <2>0, <3>1 DEF TypeOK
    <3>3. \A h \in Fiber : Live(h)' <=> Live(h) /\ h # f
      BY <3>1 DEF NoFork, Live
    <3>4. \A l \in Key : l # k => SameExecution(l)
      <4> SUFFICES ASSUME NEW l \in Key, l # k, active[l] # NoEntry
                   PROVE  SameExecution(l)
        BY <3>2 DEF SameExecution
      <4>1. active[l] \in Entry /\ active[l] # e /\ owner[active[l]] # f
        BY <2>1 DEF TypeOK
      <4>2. owner[active[l]] # NoFiber => owner[active[l]] \in Fiber
        BY <4>1 DEF TypeOK
      <4>3. /\ pendingWake'[active[l]] = pendingWake[active[l]]
            /\ pendingWakeForce'[active[l]] = pendingWakeForce[active[l]]
            /\ owner'[active[l]] = owner[active[l]]
        BY <3>1, <4>1 DEF DropEntry, TypeOK
      <4>4. owner[active[l]] # NoFiber =>
              /\ phase'[owner[active[l]]] = phase[owner[active[l]]]
              /\ interrupted'[owner[active[l]]] = interrupted[owner[active[l]]]
              /\ forced'[owner[active[l]]] = forced[owner[active[l]]]
        BY <3>1, <4>1, <4>2 DEF NoFork, TypeOK
      <4>5. QED
        BY <3>2, <4>3, <4>4 DEF SameExecution
    <3>5. OwnerAgrees'
      BY <2>0, <2>2, <3>1, <3>2, <3>3 DEF IInv, OwnerAgrees, NoFork, DropEntry, Live, TypeOK
    <3>6. OwnerLive'
      BY <2>1, <3>1, <3>2, <3>3 DEF IInv, OwnerLive, NoFork, DropEntry, Live, TypeOK
    <3>7. OpenOwned'
      BY <2>0, <3>2, <3>4 DEF IInv, OpenOwned, SameExecution
    <3>8. OwedWakeKept'
      <4>1. \A l \in Key : l # k /\ open' /\ owedWake'[l] =>
              /\ active'[l] # NoEntry
              /\ pendingWake'[active'[l]] \/ About(owner[active[l]])'
        BY <2>0, <2>5, <3>4, OwedUndisturbed
      <4>2. ~(open' /\ owedWake'[k])
        BY <2>0, <2>3, <2>5, <3>1
      <4>3. QED
        BY <4>1, <4>2 DEF OwedWakeKept
    <3>9. OwedForceKept'
      <4>1. \A l \in Key : l # k /\ open' /\ owedForce'[l] =>
              /\ active'[l] # NoEntry
              /\ \/ pendingWake'[active'[l]] /\ pendingWakeForce'[active'[l]]
                 \/ About(owner[active[l]])' /\ forced'[owner'[active'[l]]]
        BY <2>0, <2>5, <3>4, OwedUndisturbed
      <4>2. ~(open' /\ owedForce'[k])
        BY <2>0, <2>4, <2>5, <3>1
      <4>3. QED
        BY <4>1, <4>2 DEF OwedForceKept
    <3>10. WaitersHeld'
      BY <2>0, <3>1, <3>2, <3>3, WaitersComplete
    <3>11. QED
      BY <3>5, <3>6, <3>7, <3>8, <3>9, <3>10 DEF IInv
  <2>9. QED
    BY <1>8, <2>6, <2>7, <2>8 DEF Settle
<1>9. CASE Close
  <2>1. /\ open' = FALSE
        /\ UNCHANGED <<active, entryVars, phase, keyOf, entryOf, forced, callerVars, history>>
    BY <1>9 DEF Close
  <2>2. QED
    BY <2>1 DEF IInv, OwnerAgrees, OwnerLive, OpenOwned, OwedWakeKept, OwedForceKept,
                WaitersHeld, Live, entryVars, callerVars
<1>10. CASE UNCHANGED vars
  BY <1>10 DEF vars, IInv, OwnerAgrees, OwnerLive, OpenOwned, OwedWakeKept, OwedForceKept,
               WaitersHeld, Live, About, entryVars, fiberVars, callerVars, history
<1>11. QED
  BY <1>1, <1>3, <1>4, <1>5, <1>6, <1>7, <1>8, <1>9, <1>10 DEF Next, Run

-----------------------------------------------------------------------------
\* The inductive invariant holds in every reachable state.
THEOREM Invariance == Spec => []IInv
BY InvInit, InvNext, PTL DEF Spec

\* Drains of one Session never overlap in this process, and the active map,
\* the entries and the running fibers agree.
THEOREM Serialized == Spec => [](SingleDrain /\ OwnerAgrees)
<1>1. IInv => SingleDrain /\ OwnerAgrees
  BY DEF IInv, OwnerAgrees, SingleDrain
<1>2. QED
  BY <1>1, Invariance, PTL

\* While the scope is open every entry of the map has a live fiber that will
\* settle it.
THEOREM EveryEntryOwned == Spec => []EntryHasOwner
<1>1. IInv => EntryHasOwner
  BY DEF IInv, OpenOwned, OwnerLive, EntryHasOwner
<1>2. QED
  BY <1>1, Invariance, PTL

\* No wake recorded since the last drain began is lost, and no force.
THEOREM NothingLost == Spec => []NoLostRequest
<1>1. ASSUME IInv PROVE NoLostWake
  <2> SUFFICES ASSUME NEW k \in Key, open, owedWake[k]
               PROVE \E f \in Fiber :
                       /\ Live(f) /\ keyOf[f] = k
                       /\ pendingWake[entryOf[f]] \/ About(f)
    BY DEF NoLostWake, About
  <2>1. active[k] # NoEntry /\ (pendingWake[active[k]] \/ About(owner[active[k]]))
    BY <1>1 DEF IInv, OwedWakeKept
  <2>2. /\ owner[active[k]] \in Fiber
        /\ Live(owner[active[k]]) /\ keyOf[owner[active[k]]] = k
        /\ entryOf[owner[active[k]]] = active[k]
    BY <1>1, <2>1 DEF IInv, OpenOwned, OwnerLive, TypeOK
  <2>3. QED
    BY <2>1, <2>2
<1>2. ASSUME IInv PROVE NoLostForce
  <2> SUFFICES ASSUME NEW k \in Key, open, owedForce[k]
               PROVE \E f \in Fiber :
                       /\ Live(f) /\ keyOf[f] = k
                       /\ \/ pendingWake[entryOf[f]] /\ pendingWakeForce[entryOf[f]]
                          \/ About(f) /\ forced[f]
    BY DEF NoLostForce, About
  <2>1. /\ active[k] # NoEntry
        /\ \/ pendingWake[active[k]] /\ pendingWakeForce[active[k]]
           \/ About(owner[active[k]]) /\ forced[owner[active[k]]]
    BY <1>2 DEF IInv, OwedForceKept
  <2>2. /\ owner[active[k]] \in Fiber
        /\ Live(owner[active[k]]) /\ keyOf[owner[active[k]]] = k
        /\ entryOf[owner[active[k]]] = active[k]
    BY <1>2, <2>1 DEF IInv, OpenOwned, OwnerLive, TypeOK
  <2>3. QED
    BY <2>1, <2>2
<1>3. QED
  <2>1. IInv => NoLostRequest
    BY <1>1, <1>2 DEF NoLostRequest
  <2>2. QED
    BY <2>1, Invariance, PTL

\* Whoever waits, waits for an execution that is still current.
THEOREM NobodyStranded == Spec => []WaitersAttached
<1>1. IInv => WaitersAttached
  BY DEF IInv, WaitersHeld, WaitersAttached, TypeOK
<1>2. QED
  BY <1>1, Invariance, PTL

-----------------------------------------------------------------------------
\* What a step does to a fiber, as far as its execution goes.

\* Nothing.
Same(h) ==
  /\ phase'[h] = phase[h] /\ keyOf'[h] = keyOf[h] /\ entryOf'[h] = entryOf[h]
  /\ interrupted'[h] = interrupted[h]
  /\ Live(h) => pendingWake'[entryOf[h]] = pendingWake[entryOf[h]]

Gone(h) == phase'[h] = "free"

\* It was forked for key k, with nothing registered behind it.
Forked(h, k) ==
  /\ phase[h] = "free" /\ phase'[h] = "forked" /\ keyOf'[h] = k
  /\ ~interrupted'[h] /\ ~pendingWake'[entryOf'[h]]

\* Neither before nor after the step does it run for key l.
Apart(h, l) == /\ Live(h) => keyOf[h] # l
               /\ phase'[h] # "free" => keyOf'[h] # l

LEMMA OneFiber ==
  ASSUME IInv, NEW f \in Fiber, Live(f), NEW h \in Fiber, Live(h),
         keyOf[h] = keyOf[f] \/ entryOf[h] = entryOf[f]
  PROVE  h = f
BY DEF IInv, OwnerAgrees

\* A new entry and its fiber disturb no other.
LEMMA StartEntryForks ==
  ASSUME TypeOK, NEW k \in Key, NEW force \in BOOLEAN, NEW dropped, NEW ended,
         StartEntry(k, force, dropped, ended),
         \A h \in ended : Live(h),
         \A h \in Fiber : Live(h) /\ h \notin ended => entryOf[h] \notin dropped
  PROVE  \E e \in Entry :
           /\ Unreferenced(e) /\ active' = [active EXCEPT ![k] = e]
           /\ \A h \in Fiber : Same(h) \/ (h \in ended /\ Gone(h)) \/ (open /\ Forked(h, k))
           /\ open => \E g \in Fiber : Forked(g, k)
           /\ \A h \in Fiber : h \in ended => Gone(h)
<1>1. PICK e \in Entry :
        /\ Unreferenced(e) /\ active' = [active EXCEPT ![k] = e]
        /\ \/ /\ open
              /\ \E g \in Fiber : FreeFiber(g) /\ MakeEntry(e, g, dropped) /\ Fork(g, k, e, force, ended)
           \/ ~open /\ MakeEntry(e, NoFiber, dropped) /\ NoFork(ended)
  BY DEF StartEntry
<1>2. ASSUME NEW h \in Fiber, Live(h), h \notin ended, NEW w \in Fiber \cup {NoFiber},
             MakeEntry(e, w, dropped)
      PROVE  pendingWake'[entryOf[h]] = pendingWake[entryOf[h]]
  <2>1. entryOf[h] # e /\ entryOf[h] \in Entry /\ entryOf[h] \notin dropped
    BY <1>1, <1>2 DEF Unreferenced, TypeOK, Live
  <2>2. pendingWake' = [x \in Entry |-> x # e /\ x \notin dropped /\ pendingWake[x]]
    BY <1>2 DEF MakeEntry
  <2>3. pendingWake[entryOf[h]] \in BOOLEAN
    BY <2>1 DEF TypeOK
  <2> QED BY <2>1, <2>2, <2>3
<1>3. CASE open
  <2>1. PICK g \in Fiber : FreeFiber(g) /\ MakeEntry(e, g, dropped) /\ Fork(g, k, e, force, ended)
    BY <1>1, <1>3
  <2>2. Forked(g, k)
    BY <2>1 DEF FreeFiber, MakeEntry, Fork, Forked
  <2>3. ASSUME NEW h \in Fiber, h # g, h \notin ended PROVE Same(h)
    <3>1. /\ phase'[h] = phase[h] /\ keyOf'[h] = keyOf[h] /\ entryOf'[h] = entryOf[h]
          /\ interrupted'[h] = interrupted[h]
      BY <2>1, <2>3 DEF Fork, TypeOK
    <3> QED BY <1>2, <2>1, <2>3, <3>1 DEF Same
  <2>4. ASSUME NEW h \in Fiber, h \in ended PROVE Gone(h)
    <3>1. h # g
      BY <2>1, <2>4 DEF FreeFiber, Live
    <3> QED BY <2>1, <2>4, <3>1 DEF Fork, Gone
  <2> QED BY <1>1, <1>3, <2>2, <2>3, <2>4
<1>4. CASE ~open
  <2>1. MakeEntry(e, NoFiber, dropped) /\ NoFork(ended)
    BY <1>1, <1>4
  <2>2. ASSUME NEW h \in Fiber, h \notin ended PROVE Same(h)
    <3>1. /\ phase'[h] = phase[h] /\ keyOf'[h] = keyOf[h] /\ entryOf'[h] = entryOf[h]
          /\ interrupted'[h] = interrupted[h]
      BY <2>1, <2>2 DEF NoFork, TypeOK
    <3> QED BY <1>2, <2>1, <2>2, <3>1 DEF Same
  <2>3. ASSUME NEW h \in Fiber, h \in ended PROVE Gone(h)
    BY <2>1, <2>3 DEF NoFork, Gone
  <2> QED BY <1>1, <1>4, <2>2, <2>3
<1> QED BY <1>3, <1>4

\* The end of fiber f: what is left, and the follow-up if one was registered.
LEMMA SettleForks ==
  ASSUME IInv, NEW f \in Fiber, NEW exit \in Exits, Settle(f, exit)
  PROVE  /\ Live(f) /\ keyOf[f] \in Key /\ MayExit(f, exit) /\ UNCHANGED <<open, history>>
         /\ \A h \in Fiber : \/ h # f /\ Same(h)
                             \/ h = f /\ Gone(h)
                             \/ open /\ pendingWake[entryOf[f]] /\ Forked(h, keyOf[f])
         /\ open /\ pendingWake[entryOf[f]] => \E g \in Fiber : Forked(g, keyOf[f])
<1> DEFINE k == keyOf[f]  e == entryOf[f]
<1>1. Live(f) /\ k \in Key /\ e \in Entry /\ MayExit(f, exit) /\ UNCHANGED <<open, history>>
  BY DEF Settle, MayExit, Live, IInv, TypeOK
<1>2. \A h \in Fiber : Live(h) /\ h # f => entryOf[h] # e
  BY <1>1, OneFiber
<1>3. CASE SettleContinue(f, exit)
  <2>1. pendingWake[e] /\ pendingWake' = [pendingWake EXCEPT ![e] = FALSE]
    BY <1>3 DEF SettleContinue
  <2>2. ASSUME NEW h \in Fiber, h # f, Live(h) PROVE pendingWake'[entryOf[h]] = pendingWake[entryOf[h]]
    BY <1>2, <2>1, <2>2 DEF IInv, TypeOK, Live
  <2>3. CASE open
    <3>1. PICK g \in Fiber : FreeFiber(g) /\ Fork(g, k, e, pendingWakeForce[e], {f})
      BY <1>3, <2>3 DEF SettleContinue
    <3>2. Forked(g, k)
      BY <1>1, <2>1, <3>1 DEF FreeFiber, Fork, Forked, IInv, TypeOK
    <3>3. ASSUME NEW h \in Fiber, h # g, h # f PROVE Same(h)
      <4>1. /\ phase'[h] = phase[h] /\ keyOf'[h] = keyOf[h] /\ entryOf'[h] = entryOf[h]
            /\ interrupted'[h] = interrupted[h]
        BY <3>1, <3>3 DEF Fork, IInv, TypeOK
      <4> QED BY <2>2, <3>3, <4>1 DEF Same
    <3>4. Gone(f)
      <4>1. f # g
        BY <1>1, <3>1 DEF FreeFiber, Live
      <4> QED BY <3>1, <4>1 DEF Fork, Gone
    <3> QED BY <1>1, <2>1, <2>3, <3>2, <3>3, <3>4
  <2>4. CASE ~open
    <3>1. NoFork({f})
      BY <1>3, <2>4 DEF SettleContinue
    <3>2. ASSUME NEW h \in Fiber, h # f PROVE Same(h)
      <4>1. /\ phase'[h] = phase[h] /\ keyOf'[h] = keyOf[h] /\ entryOf'[h] = entryOf[h]
            /\ interrupted'[h] = interrupted[h]
        BY <3>1, <3>2 DEF NoFork, IInv, TypeOK
      <4> QED BY <2>2, <3>2, <4>1 DEF Same
    <3>3. Gone(f)
      BY <3>1 DEF NoFork, Gone
    <3> QED BY <1>1, <2>4, <3>2, <3>3
  <2> QED BY <2>3, <2>4
<1>4. CASE SettleSuccessor(f, exit)
  <2>1. pendingWake[e] /\ StartEntry(k, pendingWakeForce[e], {e}, {f})
    BY <1>4 DEF SettleSuccessor
  <2>2. pendingWakeForce[e] \in BOOLEAN
    BY <1>1 DEF IInv, TypeOK
  <2>3. /\ \A h \in Fiber : Same(h) \/ (h \in {f} /\ Gone(h)) \/ (open /\ Forked(h, k))
        /\ open => \E g \in Fiber : Forked(g, k)
        /\ Gone(f)
    BY <1>1, <1>2, <2>1, <2>2, StartEntryForks DEF IInv
  <2>4. ASSUME NEW h \in Fiber, Same(h) PROVE h # f
    BY <1>1, <2>3, <2>4 DEF Same, Gone, Live
  <2> QED BY <1>1, <2>1, <2>3, <2>4
<1>5. CASE SettleIdle(f, exit)
  <2>1. ~pendingWake[e] /\ pendingWake' = [pendingWake EXCEPT ![e] = FALSE] /\ NoFork({f})
    BY <1>5 DEF SettleIdle, DropEntry
  <2>2. ASSUME NEW h \in Fiber, h # f PROVE Same(h)
    <3>1. /\ phase'[h] = phase[h] /\ keyOf'[h] = keyOf[h] /\ entryOf'[h] = entryOf[h]
          /\ interrupted'[h] = interrupted[h]
      BY <2>1, <2>2 DEF NoFork, IInv, TypeOK
    <3>2. Live(h) => pendingWake'[entryOf[h]] = pendingWake[entryOf[h]]
      BY <1>2, <2>1, <2>2 DEF IInv, TypeOK, Live
    <3> QED BY <3>1, <3>2 DEF Same
  <2>3. Gone(f)
    BY <2>1 DEF NoFork, Gone
  <2> QED BY <1>1, <2>1, <2>2, <2>3
<1> QED BY <1>3, <1>4, <1>5 DEF Settle

-----------------------------------------------------------------------------
\* What an interrupt and the end of the scope leave.

LEMMA KeyOfEntry ==
  ASSUME IInv, NEW k \in Key, NEW h \in Fiber, Live(h), entryOf[h] = active[k]
  PROVE  keyOf[h] = k /\ owner[active[k]] = h
BY NoneAssumption DEF IInv, TypeOK, OwnerAgrees, OwnerLive, Live

\* The fibers and what is registered for them, as calls that only wait leave them.
LEMMA WaitingIsSame ==
  ASSUME UNCHANGED <<fiberVars, pendingWake>>
  PROVE  \A h \in Fiber : Same(h)
BY DEF fiberVars, Same

LEMMA WakeEntry ==
  ASSUME IInv, NEW k \in Key, NEW e \in Entry, active[k] = e,
         pendingWake' = [pendingWake EXCEPT ![e] = TRUE], UNCHANGED fiberVars
  PROVE  \A h \in Fiber : Same(h) \/ (Live(h) /\ keyOf[h] = k)
<1> SUFFICES ASSUME NEW h \in Fiber, ~(Live(h) /\ keyOf[h] = k) PROVE Same(h)
  OBVIOUS
<1>1. Live(h) => entryOf[h] # e /\ entryOf[h] \in Entry
  BY KeyOfEntry DEF IInv, TypeOK, Live
<1> QED BY <1>1 DEF Same, fiberVars, IInv, TypeOK

LEMMA InterruptEntry ==
  ASSUME IInv, NEW c \in Caller, NEW k \in Key, Interrupt(c, k)
  PROVE  \A h \in Fiber : \/ Same(h) /\ (Live(h) => keyOf[h] # k)
                          \/ /\ Live(h) /\ keyOf[h] = k /\ interrupted'[h] /\ phase'[h] = phase[h]
                             /\ keyOf'[h] = k /\ ~pendingWake'[entryOf'[h]]
<1> SUFFICES ASSUME NEW h \in Fiber
             PROVE \/ Same(h) /\ (Live(h) => keyOf[h] # k)
                   \/ /\ Live(h) /\ keyOf[h] = k /\ interrupted'[h] /\ phase'[h] = phase[h]
                      /\ keyOf'[h] = k /\ ~pendingWake'[entryOf'[h]]
  OBVIOUS
<1>1. PICK e \in Entry :
        /\ active[k] = e /\ pendingWake' = [pendingWake EXCEPT ![e] = FALSE]
        /\ interrupted' = [x \in Fiber |-> x = owner[e] \/ interrupted[x]]
  BY DEF Interrupt
<1>2. UNCHANGED <<phase, keyOf, entryOf>>
  BY DEF Interrupt
<1>3. CASE Live(h) /\ keyOf[h] = k
  <2>1. entryOf[h] = e /\ owner[e] = h
    BY <1>1, <1>3 DEF IInv, OwnerAgrees
  <2>2. interrupted'[h] /\ ~pendingWake'[e]
    BY <1>1, <2>1 DEF IInv, TypeOK
  <2> QED BY <1>2, <1>3, <2>1, <2>2
<1>4. CASE ~(Live(h) /\ keyOf[h] = k)
  <2>1. Live(h) => entryOf[h] # e /\ entryOf[h] \in Entry
    BY <1>1, <1>4, KeyOfEntry DEF IInv, TypeOK, Live
  <2>2. h # owner[e]
    BY <1>1, <1>4, NoneAssumption DEF IInv, OwnerLive, TypeOK
  <2>3. interrupted'[h] = interrupted[h]
    BY <1>1, <2>2 DEF IInv, TypeOK
  <2> QED BY <1>1, <1>2, <1>4, <2>1, <2>3 DEF Same, IInv, TypeOK
<1> QED BY <1>3, <1>4

LEMMA BeginForks ==
  ASSUME IInv, NEW f \in Fiber, BeginDrain(f)
  PROVE  /\ Live(f) /\ keyOf[f] \in Key /\ About(f)
         /\ phase'[f] = "draining" /\ keyOf'[f] = keyOf[f] /\ entryOf'[f] = entryOf[f]
         /\ UNCHANGED <<pendingWake, open, halted>>
         /\ \A h \in Fiber : h # f => Same(h)
<1>1. /\ Live(f) /\ keyOf[f] \in Key /\ About(f)
  BY DEF BeginDrain, IInv, TypeOK, Live, About
<1>2. UNCHANGED <<pendingWake, open, halted, keyOf, entryOf, interrupted>>
  BY DEF BeginDrain, entryVars
<1>3. phase' = [phase EXCEPT ![f] = "draining"]
  BY DEF BeginDrain
<1> QED BY <1>1, <1>2, <1>3 DEF Same, IInv, TypeOK

\* A new entry for an idle key.
LEMMA IdleForks ==
  ASSUME IInv, NEW k \in Key, NEW force \in BOOLEAN, active[k] = NoEntry, StartEntry(k, force, {}, {})
  PROVE  /\ \A h \in Fiber : (Same(h) /\ (Live(h) => keyOf[h] # k)) \/ (open /\ Forked(h, k))
         /\ open => \E g \in Fiber : Forked(g, k)
<1>1. /\ \A h \in Fiber : Same(h) \/ (h \in {} /\ Gone(h)) \/ (open /\ Forked(h, k))
      /\ open => \E g \in Fiber : Forked(g, k)
  BY StartEntryForks DEF IInv
<1>2. ASSUME NEW h \in Fiber, Live(h) PROVE keyOf[h] # k
  BY <1>2, NoneAssumption DEF IInv, TypeOK, OwnerAgrees, Live
<1> QED BY <1>1, <1>2

\* Every step, by what it does to fibers and requests.
Quietly == UNCHANGED <<halted, open>> /\ \A h \in Fiber : Same(h)
Starts(k) == /\ UNCHANGED open /\ halted' = [halted EXCEPT ![k] = FALSE]
             /\ \A h \in Fiber : (Same(h) /\ (Live(h) => keyOf[h] # k)) \/ (open /\ Forked(h, k))
             /\ open => \E g \in Fiber : Forked(g, k)
Registers(k) ==
  /\ UNCHANGED <<open, phase, keyOf, entryOf, interrupted>>
  /\ active[k] # NoEntry /\ halted' = [halted EXCEPT ![k] = FALSE]
  /\ pendingWake' = [pendingWake EXCEPT ![active[k]] = TRUE]
  /\ \A h \in Fiber : Same(h) \/ (Live(h) /\ keyOf[h] = k)

LEMMA Steps ==
  ASSUME IInv, [Next]_vars
  PROVE  \/ Quietly
         \/ \E k \in Key : Starts(k) \/ Registers(k)
         \/ \E c \in Caller, k \in Key : Interrupt(c, k)
         \/ \E f \in Fiber : BeginDrain(f) \/ \E exit \in Exits : Settle(f, exit)
         \/ Close
<1>1. CASE UNCHANGED vars
  BY <1>1, WaitingIsSame DEF vars, entryVars, history, Quietly
<1>2. ASSUME NEW c \in Caller, NEW k \in Key, NEW e \in Entry, Join(c, k, e) PROVE Quietly
  BY <1>2, WaitingIsSame DEF Join, entryVars, history, Quietly
<1>3. ASSUME NEW c \in Caller, NEW k \in Key, RunIdle(c, k) PROVE Starts(k)
  BY <1>3, IdleForks DEF RunIdle, Owe, Starts
<1>4. ASSUME NEW c \in Caller, Abandon(c) PROVE Quietly
  BY <1>4, WaitingIsSame DEF Abandon, entryVars, history, Quietly
<1>5. ASSUME NEW k \in Key, NEW force \in BOOLEAN, Wake(k, force) PROVE Starts(k) \/ Registers(k)
  <2>1. CASE active[k] = NoEntry
    <3>1. StartEntry(k, force, {}, {}) /\ Owe(k, force) /\ UNCHANGED open
      BY <1>5, <2>1, NoneAssumption DEF Wake
    <3> QED BY <2>1, <3>1, IdleForks DEF Owe, Starts
  <2>2. CASE active[k] # NoEntry
    <3>1. PICK e \in Entry :
            /\ active[k] = e /\ pendingWake' = [pendingWake EXCEPT ![e] = TRUE]
            /\ Owe(k, force) /\ UNCHANGED <<open, fiberVars>>
      BY <1>5, <2>2 DEF Wake
    <3> QED BY <2>2, <3>1, WakeEntry DEF Owe, Registers, fiberVars
  <2> QED BY <2>1, <2>2
<1> QED BY <1>1, <1>2, <1>3, <1>4, <1>5 DEF Next, Run

LEMMA HaltStep == IInv /\ HaltKept /\ [Next]_vars => HaltKept'
<1> SUFFICES ASSUME IInv, HaltKept, [Next]_vars, NEW h \in Fiber, Live(h)', halted'[keyOf'[h]]
             PROVE  ~About(h)' /\ ~pendingWake'[entryOf'[h]]
  BY DEF HaltKept
<1>t. TypeOK /\ TypeOK'
  BY InvNext DEF IInv
<1>1. ASSUME Same(h), halted[keyOf[h]] PROVE ~About(h)' /\ ~pendingWake'[entryOf'[h]]
  <2>1. Live(h) /\ ~About(h) /\ ~pendingWake[entryOf[h]]
    BY <1>1 DEF Same, Live, HaltKept
  <2> QED BY <1>1, <2>1 DEF Same, About
<1>2. CASE Quietly
  BY <1>1, <1>2 DEF Quietly, Same
<1>3. ASSUME NEW k \in Key, Starts(k) PROVE ~About(h)' /\ ~pendingWake'[entryOf'[h]]
  <2>1. keyOf'[h] # k /\ halted[keyOf'[h]]
    BY <1>t, <1>3 DEF Starts, TypeOK, Live
  <2> QED BY <1>1, <1>3, <2>1 DEF Starts, Forked, Same
<1>4. ASSUME NEW k \in Key, Registers(k) PROVE ~About(h)' /\ ~pendingWake'[entryOf'[h]]
  <2>1. keyOf'[h] # k /\ halted[keyOf'[h]]
    BY <1>t, <1>4 DEF Registers, TypeOK, Live
  <2> QED BY <1>1, <1>4, <2>1 DEF Registers, Same
<1>5. ASSUME NEW c \in Caller, NEW k \in Key, Interrupt(c, k)
      PROVE ~About(h)' /\ ~pendingWake'[entryOf'[h]]
  <2>1. halted' = [halted EXCEPT ![k] = TRUE]
    BY <1>5 DEF Interrupt
  <2>2. CASE Same(h) /\ (Live(h) => keyOf[h] # k)
    <3>1. Live(h) /\ keyOf'[h] = keyOf[h]
      BY <2>2 DEF Same, Live
    <3>2. halted[keyOf[h]]
      BY <1>t, <2>1, <2>2, <3>1 DEF TypeOK, Live
    <3> QED BY <1>1, <2>2, <3>2
  <2>3. CASE interrupted'[h] /\ ~pendingWake'[entryOf'[h]]
    BY <2>3 DEF About
  <2> QED BY <1>5, <2>2, <2>3, InterruptEntry
<1>6. ASSUME NEW f \in Fiber, BeginDrain(f) PROVE ~About(h)' /\ ~pendingWake'[entryOf'[h]]
  <2>1. CASE h = f
    <3>1. phase'[f] = "draining" /\ keyOf'[f] = keyOf[f] /\ entryOf'[f] = entryOf[f]
          /\ pendingWake' = pendingWake /\ halted' = halted /\ Live(f)
      BY <1>6, BeginForks
    <3> QED BY <2>1, <3>1 DEF HaltKept, About
  <2>2. CASE h # f
    BY <1>1, <1>6, <2>2, BeginForks DEF Same
  <2> QED BY <2>1, <2>2
<1>7. ASSUME NEW f \in Fiber, NEW exit \in Exits, Settle(f, exit)
      PROVE ~About(h)' /\ ~pendingWake'[entryOf'[h]]
  <2>1. halted' = halted /\ Live(f)
    BY <1>7, SettleForks DEF history
  <2>2. CASE Same(h)
    BY <1>1, <2>1, <2>2 DEF Same
  <2>3. CASE pendingWake[entryOf[f]] /\ Forked(h, keyOf[f])
    BY <2>1, <2>3 DEF HaltKept, Forked
  <2> QED BY <1>7, <2>2, <2>3, SettleForks DEF Gone, Live
<1>8. CASE Close
  <2>1. interrupted'[h] /\ UNCHANGED <<phase, keyOf, entryOf, pendingWake, halted>>
    BY <1>8 DEF Close, Live, entryVars, history
  <2>2. ~pendingWake[entryOf[h]]
    BY <2>1 DEF HaltKept, Live
  <2> QED BY <2>1, <2>2 DEF About
<1> QED BY <1>2, <1>3, <1>4, <1>5, <1>6, <1>7, <1>8, Steps

LEMMA ClosedStep == IInv /\ ClosedStops /\ [Next]_vars => ClosedStops'
<1> SUFFICES ASSUME IInv, ClosedStops, [Next]_vars, ~open', NEW h \in Fiber, Live(h)'
             PROVE  interrupted'[h]
  BY DEF ClosedStops
<1>1. ASSUME Same(h), ~open PROVE interrupted'[h]
  BY <1>1 DEF Same, Live, ClosedStops
<1>2. CASE Quietly
  BY <1>1, <1>2 DEF Quietly
<1>3. ASSUME NEW k \in Key, Starts(k) \/ Registers(k) PROVE interrupted'[h]
  <2>1. CASE Starts(k)
    BY <1>1, <2>1 DEF Starts
  <2>2. CASE Registers(k)
    BY <2>2 DEF Registers, Live, ClosedStops
  <2> QED BY <1>3, <2>1, <2>2
<1>4. ASSUME NEW c \in Caller, NEW k \in Key, Interrupt(c, k) PROVE interrupted'[h]
  <2>1. open' = open
    BY <1>4 DEF Interrupt
  <2> QED BY <1>1, <1>4, <2>1, InterruptEntry
<1>5. ASSUME NEW f \in Fiber, BeginDrain(f) PROVE interrupted'[h]
  <2>1. interrupted' = interrupted /\ open' = open /\ Live(h)
    BY <1>5, BeginForks DEF BeginDrain, Same, Live
  <2> QED BY <2>1 DEF ClosedStops
<1>6. ASSUME NEW f \in Fiber, NEW exit \in Exits, Settle(f, exit) PROVE interrupted'[h]
  BY <1>1, <1>6, SettleForks DEF Gone, Live
<1>7. CASE Close
  BY <1>7 DEF Close, Live
<1> QED BY <1>2, <1>3, <1>4, <1>5, <1>6, <1>7, Steps

LEMMA HaltInvariance == Spec => [](IInv /\ HaltKept /\ ClosedStops)
<1>1. Init => HaltKept /\ ClosedStops
  BY DEF Init, HaltKept, ClosedStops, Live
<1> QED BY <1>1, InvInit, InvNext, HaltStep, ClosedStep, PTL DEF Spec

\* An interrupt is final until somebody asks again (run-coordinator.ts:98-105).
THEOREM InterruptIsFinal == Spec => StopIsFinal
<1>1. HaltKept => \A f \in Fiber : phase[f] = "forked" /\ halted[keyOf[f]] => interrupted[f]
  BY DEF HaltKept, Live, About
<1>2. IInv /\ HaltKept /\ [Next]_vars =>
        [\A f \in Fiber : phase[f] = "forked" /\ phase'[f] = "draining" => ~halted[keyOf[f]]]_vars
  <2> SUFFICES ASSUME IInv, HaltKept, [Next]_vars, NEW f \in Fiber,
                      phase[f] = "forked", phase'[f] = "draining"
               PROVE  ~halted[keyOf[f]]
    OBVIOUS
  <2>1. BeginDrain(f)
    <3>1. ~Same(f) /\ Live(f) /\ ~Gone(f) /\ \A k \in Key : ~Forked(f, k)
      BY DEF Same, Live, Gone, Forked
    <3>2. ASSUME NEW g \in Fiber, BeginDrain(g) PROVE g = f
      BY <3>1, <3>2, BeginForks
    <3>3. ASSUME NEW g \in Fiber, NEW exit \in Exits, Settle(g, exit) PROVE FALSE
      BY <3>1, <3>3, SettleForks
    <3>4. ASSUME NEW c \in Caller, NEW k \in Key, Interrupt(c, k) PROVE FALSE
      BY <3>4 DEF Interrupt
    <3>5. ~Close
      BY DEF Close
    <3>6. ~Quietly /\ \A k \in Key : ~Starts(k) /\ ~Registers(k)
      BY <3>1 DEF Quietly, Starts, Registers
    <3> QED BY <3>2, <3>3, <3>4, <3>5, <3>6, Steps
  <2> QED BY <1>1, <2>1 DEF BeginDrain
<1> QED BY <1>2, HaltInvariance, PTL DEF Spec, StopIsFinal

\* Joined resumes are answered when the whole chain of drains is over
\* (run-coordinator.ts:47-63).
THEOREM JoinsLastTheChain == Spec => JoinedUntilIdle
<1>1. ASSUME IInv, [Next]_vars, NEW c \in Caller, call[c] = "joined", call'[c] = "idle"
      PROVE  UNCHANGED phase \/ \A k \in Key : active'[k] # callEntry[c]
  <2>1. CASE UNCHANGED vars
    BY <1>1, <2>1 DEF vars, callerVars
  <2>2. ASSUME NEW d \in Caller, NEW k \in Key, Run(d, k) PROVE FALSE
    <3>1. d # c
      BY <1>1, <2>2 DEF Run
    <3>2. call'[c] = call[c]
      <4>1. (\E e \in Entry : Join(d, k, e)) \/ RunIdle(d, k)
        BY <2>2 DEF Run
      <4>2. \E x : call' = [call EXCEPT ![d] = x]
        BY <4>1 DEF Join, RunIdle
      <4> QED BY <3>1, <4>2 DEF IInv, TypeOK
    <3> QED BY <1>1, <3>2
  <2>3. ASSUME NEW d \in Caller, NEW k \in Key, Interrupt(d, k) PROVE UNCHANGED phase
    BY <2>3 DEF Interrupt
  <2>4. ASSUME NEW d \in Caller, Abandon(d) PROVE UNCHANGED phase
    BY <2>4 DEF Abandon, fiberVars
  <2>5. ASSUME NEW k \in Key, NEW force \in BOOLEAN, Wake(k, force) PROVE FALSE
    BY <1>1, <2>5 DEF Wake, callerVars
  <2>6. ASSUME NEW f \in Fiber, BeginDrain(f) PROVE FALSE
    BY <1>1, <2>6 DEF BeginDrain, callerVars
  <2>7. CASE Close
    BY <1>1, <2>7 DEF Close, callerVars
  <2>8. ASSUME NEW f \in Fiber, NEW exit \in Exits, Settle(f, exit)
        PROVE  \A k \in Key : active'[k] # callEntry[c]
    <3> DEFINE e == entryOf[f]  l == keyOf[f]
    <3>1. Live(f) /\ l \in Key /\ e \in Entry /\ active[l] = e
      <4>1. Live(f) /\ l \in Key
        BY <1>1, <2>8, SettleForks
      <4>2. e \in Entry /\ active[l] = e
        BY <1>1, <4>1 DEF IInv, TypeOK, OwnerAgrees, Live
      <4> QED BY <4>1, <4>2
    <3>2. \A k \in Key : k # l => active[k] # e
      BY <1>1, <3>1, EntryOfOneKey DEF IInv
    <3>3. ~SettleContinue(f, exit)
      BY <1>1 DEF SettleContinue, IInv, TypeOK
    <3>4. Complete(e, f, exit) /\ (SettleSuccessor(f, exit) \/ SettleIdle(f, exit))
      BY <2>8, <3>3 DEF Settle, SettleSuccessor, SettleIdle
    <3>5. callEntry[c] = e
      BY <1>1, <3>4 DEF Complete, Resumes, Returns
    <3>6. \E x \in (Entry \cup {NoEntry}) \ {e} : active' = [active EXCEPT ![l] = x]
      <4>1. CASE SettleSuccessor(f, exit)
        <5>1. PICK x \in Entry : Unreferenced(x) /\ active' = [active EXCEPT ![l] = x]
          BY <4>1 DEF SettleSuccessor, StartEntry
        <5> QED BY <3>1, <5>1 DEF Unreferenced
      <4>2. CASE SettleIdle(f, exit)
        BY <3>1, <4>2, NoneAssumption DEF SettleIdle
      <4> QED BY <3>4, <4>1, <4>2
    <3>7. PICK x \in (Entry \cup {NoEntry}) \ {e} : active' = [active EXCEPT ![l] = x]
      BY <3>6
    <3>8. active \in [Key -> Entry \cup {NoEntry}]
      BY <1>1 DEF IInv, TypeOK
    <3> HIDE DEF e, l
    <3> QED BY <3>1, <3>2, <3>5, <3>7, <3>8
  <2> QED BY <1>1, <2>1, <2>2, <2>3, <2>4, <2>5, <2>6, <2>7, <2>8 DEF Next
<1>2. IInv /\ [Next]_vars =>
        [\A c \in Caller : call[c] = "joined" /\ call'[c] = "idle"
           => UNCHANGED phase \/ \A k \in Key : active'[k] # callEntry[c]]_vars
  BY <1>1
<1> QED BY <1>2, Invariance, PTL DEF Spec, JoinedUntilIdle

-----------------------------------------------------------------------------
\* The coordinator implements the safety part of SerialExecution.

Req == [k \in Key |-> Requested(k)]
Exec == [k \in Key |-> Running(k)]

\* A key whose fibers a step leaves alone.
LEMMA OtherKey ==
  ASSUME NEW l \in Key, open' = open, \A h \in Fiber : Same(h) \/ Apart(h, l)
  PROVE  Requested(l)' = Requested(l) /\ Running(l)' = Running(l)
<1> DEFINE R(h) == /\ keyOf[h] = l
                   /\ \/ phase[h] = "forked" /\ ~interrupted[h]
                      \/ Live(h) /\ pendingWake[entryOf[h]]
           S(h) == /\ keyOf'[h] = l
                   /\ \/ phase'[h] = "forked" /\ ~interrupted'[h]
                      \/ phase'[h] # "free" /\ pendingWake'[entryOf'[h]]
<1>1. \A h \in Fiber : S(h) <=> R(h)
  BY DEF Same, Apart, Live
<1>2. \A h \in Fiber : keyOf'[h] = l /\ phase'[h] = "draining" <=> keyOf[h] = l /\ phase[h] = "draining"
  BY DEF Same, Apart, Live
<1>3. Requested(l) <=> \E h \in Fiber : open /\ R(h)
  BY DEF Requested
<1>4. Requested(l)' <=> \E h \in Fiber : open' /\ S(h)
  BY DEF Requested, Live
<1> HIDE DEF R, S
<1>5. Requested(l)' <=> Requested(l)
  BY <1>1, <1>3, <1>4
<1>6. Running(l)' <=> Running(l)
  BY <1>2 DEF Running
<1>7. /\ Requested(l) \in BOOLEAN /\ Requested(l)' \in BOOLEAN
      /\ Running(l) \in BOOLEAN /\ Running(l)' \in BOOLEAN
  BY DEF Requested, Running
<1> QED BY <1>5, <1>6, <1>7

\* What the functions of the abstraction do when one key changes.
LEMMA OneKeyChanges ==
  ASSUME NEW k \in Key, open' = open,
         \A l \in Key : l # k => \A h \in Fiber : Same(h) \/ Apart(h, l)
  PROVE  /\ Req' = [Req EXCEPT ![k] = Requested(k)']
         /\ Exec' = [Exec EXCEPT ![k] = Running(k)']
<1>1. \A l \in Key : l # k => Requested(l)' = Requested(l) /\ Running(l)' = Running(l)
  BY OtherKey
<1>2. Req' = [l \in Key |-> Requested(l)'] /\ Exec' = [l \in Key |-> Running(l)']
  BY DEF Req, Exec
<1>3. Req = [l \in Key |-> Requested(l)] /\ Exec = [l \in Key |-> Running(l)]
  BY DEF Req, Exec
<1> QED BY <1>1, <1>2, <1>3

LEMMA Unchanged ==
  ASSUME NEW k \in Key
  PROVE  /\ (Requested(k)' = Requested(k)) => [Req EXCEPT ![k] = Requested(k)'] = Req
         /\ (Running(k)' = Running(k)) => [Exec EXCEPT ![k] = Running(k)'] = Exec
  BY DEF Req, Exec

\* The steps of SerialExecution in these terms.
Abstractly ==
  \/ UNCHANGED <<Req, Exec, open>>
  \/ \E k \in Key :
       \/ open /\ Req' = [Req EXCEPT ![k] = TRUE] /\ UNCHANGED <<Exec, open>>
       \/ /\ Req[k] /\ ~Exec[k] /\ Req' \in {Req, [Req EXCEPT ![k] = FALSE]}
          /\ Exec' = [Exec EXCEPT ![k] = TRUE] /\ UNCHANGED open
       \/ Exec[k] /\ Exec' = [Exec EXCEPT ![k] = FALSE] /\ UNCHANGED <<Req, open>>
       \/ Req' = [Req EXCEPT ![k] = FALSE] /\ UNCHANGED <<Exec, open>>
  \/ open' = FALSE /\ Req' = [k \in Key |-> FALSE] /\ UNCHANGED Exec

LEMMA Abstracted == Abstractly => [Serial!Next]_Serial!vars
  BY DEF Abstractly, Req, Exec, Serial!Next, Serial!vars, Serial!Request, Serial!Begin, Serial!End,
         Serial!Interrupt, Serial!Shutdown

LEMMA QuietSteps ==
  ASSUME Quietly
  PROVE  Abstractly
<1>1. \A k \in Key : Requested(k)' = Requested(k) /\ Running(k)' = Running(k)
  BY OtherKey DEF Quietly
<1>2. Req' = [l \in Key |-> Requested(l)'] /\ Exec' = [l \in Key |-> Running(l)']
  BY DEF Req, Exec
<1>3. Req' = Req /\ Exec' = Exec
  BY <1>1, <1>2 DEF Req, Exec
<1> QED BY <1>3 DEF Quietly, Abstractly

LEMMA StartSteps ==
  ASSUME IInv, NEW k \in Key, Starts(k)
  PROVE  Abstractly
<1>1. ASSUME NEW l \in Key, l # k, NEW h \in Fiber PROVE Same(h) \/ Apart(h, l)
  BY <1>1 DEF Starts, Forked, Apart, Live
<1>2. Req' = [Req EXCEPT ![k] = Requested(k)'] /\ Exec' = [Exec EXCEPT ![k] = Running(k)']
  BY <1>1, OneKeyChanges DEF Starts
<1>3. \A h \in Fiber : /\ keyOf[h] = k => phase[h] # "draining"
                       /\ keyOf'[h] = k => phase'[h] # "draining"
  BY DEF Starts, Same, Forked, Live
<1>4. Running(k)' = FALSE /\ Running(k) = FALSE
  BY <1>3 DEF Running
<1>5. CASE open
  <2>1. PICK g \in Fiber : Forked(g, k)
    BY <1>5 DEF Starts
  <2>2. Requested(k)' = TRUE
    BY <1>5, <2>1 DEF Starts, Forked, Requested
  <2> QED BY <1>2, <1>4, <1>5, <2>2, Unchanged DEF Starts, Abstractly
<1>6. CASE ~open
  <2>1. Requested(k)' = FALSE /\ Requested(k) = FALSE
    BY <1>6 DEF Starts, Requested
  <2> QED BY <1>2, <1>4, <2>1, Unchanged DEF Starts, Abstractly
<1> QED BY <1>5, <1>6

LEMMA RegisterSteps ==
  ASSUME IInv, NEW k \in Key, Registers(k)
  PROVE  Abstractly
<1>1. ASSUME NEW l \in Key, l # k, NEW h \in Fiber PROVE Same(h) \/ Apart(h, l)
  BY <1>1 DEF Registers, Apart, Live
<1>2. Req' = [Req EXCEPT ![k] = Requested(k)'] /\ Exec' = [Exec EXCEPT ![k] = Running(k)']
  BY <1>1, OneKeyChanges DEF Registers
<1>3. Running(k)' = Running(k)
  BY DEF Registers, Running
<1>4. CASE open
  <2> DEFINE f == owner[active[k]]
  <2>1. f \in Fiber /\ Live(f) /\ keyOf[f] = k /\ entryOf[f] = active[k] /\ active[k] \in Entry
    BY <1>4 DEF IInv, OpenOwned, OwnerLive, TypeOK, Registers
  <2>2. phase'[f] # "free" /\ keyOf'[f] = k /\ pendingWake'[entryOf'[f]]
    BY <2>1 DEF Registers, Live, IInv, TypeOK
  <2> HIDE DEF f
  <2>3. Requested(k)' = TRUE
    BY <1>4, <2>1, <2>2 DEF Registers, Requested, Live
  <2> QED BY <1>2, <1>3, <1>4, <2>3, Unchanged DEF Registers, Abstractly
<1>5. CASE ~open
  <2>1. Requested(k)' = FALSE /\ Requested(k) = FALSE
    BY <1>5 DEF Registers, Requested
  <2> QED BY <1>2, <1>3, <2>1, Unchanged DEF Registers, Abstractly
<1> QED BY <1>4, <1>5

LEMMA InterruptSteps ==
  ASSUME IInv, NEW c \in Caller, NEW k \in Key, Interrupt(c, k)
  PROVE  Abstractly
<1>1. ASSUME NEW l \in Key, l # k, NEW h \in Fiber PROVE Same(h) \/ Apart(h, l)
  BY <1>1, InterruptEntry DEF Apart
<1>2. UNCHANGED <<open, phase, keyOf>>
  BY DEF Interrupt
<1>3. Req' = [Req EXCEPT ![k] = Requested(k)'] /\ Exec' = [Exec EXCEPT ![k] = Running(k)']
  BY <1>1, <1>2, OneKeyChanges
<1>4. Running(k)' = Running(k)
  BY <1>2 DEF Running
<1>5. Requested(k)' = FALSE
  <2>1. \A h \in Fiber : phase'[h] # "free" /\ keyOf'[h] = k => interrupted'[h] /\ ~pendingWake'[entryOf'[h]]
    BY InterruptEntry DEF Same, Live
  <2> QED BY <2>1 DEF Requested, Live
<1> QED BY <1>2, <1>3, <1>4, <1>5, Unchanged DEF Abstractly

LEMMA BeginSteps ==
  ASSUME IInv, ClosedStops, NEW f \in Fiber, BeginDrain(f)
  PROVE  Abstractly
<1> DEFINE k == keyOf[f]
<1>1. /\ Live(f) /\ k \in Key /\ About(f) /\ phase'[f] = "draining" /\ keyOf'[f] = k
      /\ open' = open /\ \A h \in Fiber : h # f => Same(h)
  BY BeginForks
<1>2. open
  BY <1>1 DEF ClosedStops, About
<1>3. ASSUME NEW l \in Key, l # k, NEW h \in Fiber PROVE Same(h) \/ Apart(h, l)
  BY <1>1, <1>3 DEF Apart
<1>4. Req' = [Req EXCEPT ![k] = Requested(k)'] /\ Exec' = [Exec EXCEPT ![k] = Running(k)']
  BY <1>1, <1>3, OneKeyChanges
<1>5. Requested(k) = TRUE
  BY <1>1, <1>2 DEF Requested, About
<1>6. Running(k)' = TRUE
  BY <1>1 DEF Running
<1>7. Running(k) = FALSE
  <2>1. \A h \in Fiber : keyOf[h] = k => phase[h] # "draining"
    BY <1>1, OneFiber DEF About, Live
  <2> QED BY <2>1 DEF Running
<1>8. Requested(k)' = TRUE \/ Requested(k)' = FALSE
  BY DEF Requested
<1>9. Req[k] = Requested(k) /\ Exec[k] = Running(k)
  BY <1>1 DEF Req, Exec
<1>10. Req' \in {Req, [Req EXCEPT ![k] = FALSE]}
  BY <1>1, <1>4, <1>5, <1>8, Unchanged
<1> HIDE DEF k
<1> QED BY <1>1, <1>4, <1>5, <1>6, <1>7, <1>9, <1>10 DEF Abstractly

LEMMA SettleSteps ==
  ASSUME IInv, NEW f \in Fiber, NEW exit \in Exits, Settle(f, exit), NEW k \in Key, k = keyOf[f]
  PROVE  Abstractly
<1> DEFINE w == pendingWake[entryOf[f]]
<1>1. /\ Live(f) /\ k \in Key /\ MayExit(f, exit) /\ open' = open
      /\ \A h \in Fiber : (h # f /\ Same(h)) \/ (h = f /\ Gone(h)) \/ (open /\ w /\ Forked(h, k))
      /\ open /\ w => \E g \in Fiber : Forked(g, k)
  BY SettleForks
<1>2. ASSUME NEW l \in Key, l # k, NEW h \in Fiber PROVE Same(h) \/ Apart(h, l)
  BY <1>1, <1>2 DEF Apart, Gone, Forked, Live
<1>3. Req' = [Req EXCEPT ![k] = Requested(k)'] /\ Exec' = [Exec EXCEPT ![k] = Running(k)']
  BY <1>1, <1>2, OneKeyChanges
<1>4. \A h \in Fiber : h # f /\ Same(h) /\ keyOf'[h] = k => phase'[h] = "free"
  BY <1>1, OneFiber DEF Same, Live
<1>5. \A h \in Fiber : keyOf'[h] = k => phase'[h] = "free" \/ (open /\ w /\ Forked(h, k))
  BY <1>1, <1>4 DEF Gone
<1>6. Running(k)' = FALSE
  BY <1>5 DEF Running, Forked
<1>7. Requested(k)' <=> open /\ w
  <2>1. ASSUME open, w PROVE Requested(k)'
    BY <1>1, <2>1 DEF Requested, Forked
  <2>2. ASSUME Requested(k)' PROVE open /\ w
    BY <1>1, <1>5, <2>2 DEF Requested, Live
  <2> QED BY <2>1, <2>2
<1>8. ~About(f)
  BY <1>1 DEF MayExit, About
<1>9. Requested(k) <=> open /\ w
  <2>1. ASSUME open, w PROVE Requested(k)
    BY <1>1, <2>1 DEF Requested
  <2>2. ASSUME Requested(k) PROVE open /\ w
    BY <1>1, <1>8, <2>2, OneFiber DEF Requested, Live, About
  <2> QED BY <2>1, <2>2
<1>10. Requested(k)' = Requested(k)
  <2>1. Requested(k) \in BOOLEAN /\ Requested(k)' \in BOOLEAN
    BY DEF Requested
  <2> HIDE DEF w
  <2> QED BY <1>7, <1>9, <2>1
<1>11. Req' = Req
  BY <1>1, <1>3, <1>10, Unchanged
<1>12. Exec[k] = Running(k) /\ (Running(k) = TRUE \/ Running(k) = FALSE)
  BY <1>1 DEF Exec, Running
<1> HIDE DEF w
<1>13. CASE Running(k) = TRUE
  BY <1>1, <1>3, <1>6, <1>11, <1>12, <1>13 DEF Abstractly
<1>14. CASE Running(k) = FALSE
  BY <1>1, <1>3, <1>6, <1>11, <1>14, Unchanged DEF Abstractly
<1> QED BY <1>12, <1>13, <1>14

LEMMA CloseSteps ==
  ASSUME Close
  PROVE  Abstractly
<1>1. open' = FALSE /\ UNCHANGED <<phase, keyOf>>
  BY DEF Close
<1>2. \A k \in Key : Requested(k)' = FALSE /\ Running(k)' = Running(k)
  BY <1>1 DEF Requested, Running
<1>3. Req' = [l \in Key |-> Requested(l)'] /\ Exec' = [l \in Key |-> Running(l)']
  BY DEF Req, Exec
<1>4. Req' = [k \in Key |-> FALSE] /\ Exec' = Exec
  BY <1>2, <1>3 DEF Exec
<1> QED BY <1>1, <1>4 DEF Abstractly

\* Executions of a key never overlap, and a request is forgotten only by an
\* interrupt or the end of the scope, for any callers, entries and fibers: the
\* coordinator implements SerialExecution, but for its fairness.
THEOREM SerialSafety == Spec => Serial!SafetySpec
<1>1. Init => Serial!Init
  <2> SUFFICES ASSUME Init PROVE Serial!Init
    OBVIOUS
  <2>1. \A k \in Key : Requested(k) = FALSE /\ Running(k) = FALSE
    BY DEF Init, Requested, Running, Live
  <2> QED BY <2>1 DEF Init, Serial!Init
<1>2. IInv /\ ClosedStops /\ [Next]_vars => [Serial!Next]_Serial!vars
  <2> SUFFICES ASSUME IInv, ClosedStops, [Next]_vars PROVE Abstractly
    BY Abstracted
  <2>1. ASSUME NEW f \in Fiber, NEW exit \in Exits, Settle(f, exit) PROVE Abstractly
    BY <2>1, SettleForks, SettleSteps
  <2> QED BY <2>1, Steps, QuietSteps, StartSteps, RegisterSteps, InterruptSteps, BeginSteps,
             CloseSteps
<1> QED BY <1>1, <1>2, HaltInvariance, PTL DEF Spec, Serial!SafetySpec
=============================================================================

--------------------------- MODULE RunCoordinator ---------------------------
(***************************************************************************)
(* The per-process coordinator of Session execution,                       *)
(* session/run-coordinator.ts: it serializes the drains of one key, joins   *)
(* resumes to the drain in progress, coalesces wakes into one follow-up and *)
(* interrupts a drain while new wakes keep arriving.                        *)
(*                                                                          *)
(* A JavaScript turn is atomic, so run, wake, interrupt and settle are one  *)
(* action each; everything between two turns interleaves.  The drain is a   *)
(* parameter of the coordinator: here it may succeed, fail, interrupt       *)
(* itself, or be interrupted, whenever it likes.                            *)
(***************************************************************************)
EXTENDS Naturals, FiniteSets

CONSTANTS Key,      \* Session IDs
          Entry,    \* identities of Entry objects, reused once unreferenced
          Fiber,    \* identities of owner fibers, reused once they ended
          Caller,   \* fibers that call run and interrupt
          NoKey, NoEntry, NoFiber

ASSUME NoneAssumption ==
  NoKey \notin Key /\ NoEntry \notin Entry /\ NoFiber \notin Fiber

VARIABLES
  active,           \* [Key -> Entry \cup {NoEntry}]: the active Map
  pendingWake, pendingWakeForce, stopping,      \* fields of each Entry
  owner,            \* [Entry -> Fiber \cup {NoFiber}]: Entry.owner
  phase,            \* [Fiber -> "free" | "forked" | "draining"]
  keyOf, entryOf,   \* what the fiber's closure captured
  forced,           \* the force argument its drain is called with
  interrupted,      \* Fiber.interrupt was requested on it
  call, callEntry, callFiber, callKey,  \* the callers
  open,             \* the FiberSet's scope has not been closed
  owedWake, owedForce, halted                   \* history, see below

entryVars  == <<pendingWake, pendingWakeForce, stopping, owner>>
fiberVars  == <<phase, keyOf, entryOf, forced, interrupted>>
callerVars == <<call, callEntry, callFiber, callKey>>
history    == <<owedWake, owedForce, halted>>
vars == <<active, entryVars, fiberVars, callerVars, open, history>>

Exits == {"success", "failure", "interrupt"}

TypeOK ==
  /\ active \in [Key -> Entry \cup {NoEntry}]
  /\ pendingWake \in [Entry -> BOOLEAN]
  /\ pendingWakeForce \in [Entry -> BOOLEAN]
  /\ stopping \in [Entry -> BOOLEAN]
  /\ owner \in [Entry -> Fiber \cup {NoFiber}]
  /\ phase \in [Fiber -> {"free", "forked", "draining"}]
  /\ keyOf \in [Fiber -> Key \cup {NoKey}]
  /\ entryOf \in [Fiber -> Entry \cup {NoEntry}]
  /\ forced \in [Fiber -> BOOLEAN]
  /\ interrupted \in [Fiber -> BOOLEAN]
  /\ \A f \in Fiber : phase[f] # "free" => keyOf[f] \in Key /\ entryOf[f] \in Entry
  /\ call \in [Caller -> {"idle", "joined", "afterStop", "again", "interrupting"}]
  /\ callEntry \in [Caller -> Entry \cup {NoEntry}]
  /\ callFiber \in [Caller -> Fiber \cup {NoFiber}]
  /\ callKey \in [Caller -> Key \cup {NoKey}]
  /\ open \in BOOLEAN
  /\ owedWake \in [Key -> BOOLEAN]
  /\ owedForce \in [Key -> BOOLEAN]
  /\ halted \in [Key -> BOOLEAN]

Init ==
  /\ active = [k \in Key |-> NoEntry]
  /\ pendingWake = [e \in Entry |-> FALSE]
  /\ pendingWakeForce = [e \in Entry |-> FALSE]
  /\ stopping = [e \in Entry |-> FALSE]
  /\ owner = [e \in Entry |-> NoFiber]
  /\ phase = [f \in Fiber |-> "free"]
  /\ keyOf = [f \in Fiber |-> NoKey]
  /\ entryOf = [f \in Fiber |-> NoEntry]
  /\ forced = [f \in Fiber |-> FALSE]
  /\ interrupted = [f \in Fiber |-> FALSE]
  /\ call = [c \in Caller |-> "idle"]
  /\ callEntry = [c \in Caller |-> NoEntry]
  /\ callFiber = [c \in Caller |-> NoFiber]
  /\ callKey = [c \in Caller |-> NoKey]
  /\ open = TRUE
  /\ owedWake = [k \in Key |-> FALSE]
  /\ owedForce = [k \in Key |-> FALSE]
  /\ halted = [k \in Key |-> FALSE]

-----------------------------------------------------------------------------
Live(f) == phase[f] # "free"

\* Object identities nothing refers to any more.
Unreferenced(e) ==
  /\ \A k \in Key : active[k] # e
  /\ \A f \in Fiber : Live(f) => entryOf[f] # e
  /\ \A c \in Caller : callEntry[c] # e

FreeFiber(f) ==
  /\ phase[f] = "free"
  /\ \A c \in Caller : callFiber[c] # f

\* The entry e becomes a fresh Entry object (makeEntry) owned by f; the
\* entries of `dropped` are no longer referenced and leave no trace.
MakeEntry(e, f, dropped) ==
  /\ pendingWake' = [x \in Entry |-> x # e /\ x \notin dropped /\ pendingWake[x]]
  /\ pendingWakeForce' = [x \in Entry |-> x # e /\ x \notin dropped /\ pendingWakeForce[x]]
  /\ stopping' = [x \in Entry |-> x # e /\ x \notin dropped /\ stopping[x]]
  /\ owner' = [x \in Entry |-> IF x = e THEN f ELSE IF x \in dropped THEN NoFiber ELSE owner[x]]

DropEntry(e) ==
  /\ pendingWake' = [pendingWake EXCEPT ![e] = FALSE]
  /\ pendingWakeForce' = [pendingWakeForce EXCEPT ![e] = FALSE]
  /\ stopping' = [stopping EXCEPT ![e] = FALSE]
  /\ owner' = [owner EXCEPT ![e] = NoFiber]

\* FiberSet's fork: an owner fiber g for entry e, its drain not yet called.
\* The fibers of `ended` have just ended and leave no trace.
Fork(g, k, e, force, ended) ==
  /\ phase' = [f \in Fiber |-> IF f = g THEN "forked"
                               ELSE IF f \in ended THEN "free" ELSE phase[f]]
  /\ keyOf' = [f \in Fiber |-> IF f = g THEN k ELSE IF f \in ended THEN NoKey ELSE keyOf[f]]
  /\ entryOf' = [f \in Fiber |-> IF f = g THEN e
                                 ELSE IF f \in ended THEN NoEntry ELSE entryOf[f]]
  /\ forced' = [f \in Fiber |-> IF f = g THEN force ELSE f \notin ended /\ forced[f]]
  /\ interrupted' = [f \in Fiber |-> f # g /\ f \notin ended /\ interrupted[f]]

\* No fork: nothing to run, or the scope is closed and FiberSet's fork hands
\* out an already interrupted fiber that runs nothing (NoFiber stands for it).
NoFork(ended) ==
  /\ phase' = [f \in Fiber |-> IF f \in ended THEN "free" ELSE phase[f]]
  /\ keyOf' = [f \in Fiber |-> IF f \in ended THEN NoKey ELSE keyOf[f]]
  /\ entryOf' = [f \in Fiber |-> IF f \in ended THEN NoEntry ELSE entryOf[f]]
  /\ forced' = [f \in Fiber |-> f \notin ended /\ forced[f]]
  /\ interrupted' = [f \in Fiber |-> f \notin ended /\ interrupted[f]]

\* A new Entry for an idle key or a successor: active.set and start.
StartEntry(k, force, dropped, ended) ==
  \E e \in Entry :
    /\ Unreferenced(e)
    /\ active' = [active EXCEPT ![k] = e]
    /\ \/ /\ open
          /\ \E g \in Fiber : FreeFiber(g) /\ MakeEntry(e, g, dropped) /\ Fork(g, k, e, force, ended)
       \/ ~open /\ MakeEntry(e, NoFiber, dropped) /\ NoFork(ended)

\* What completing the Deferred of entry e with `exit`, and ending fiber f,
\* does to whoever waits for them.  A run that found the entry stopping goes
\* on to call run again only when the Deferred succeeded (Effect.andThen).
Resumes(c, e, exit) == call[c] = "afterStop" /\ callEntry[c] = e /\ exit = "success"
Returns(c, e, f, exit) ==
  \/ call[c] = "joined" /\ callEntry[c] = e
  \/ call[c] = "afterStop" /\ callEntry[c] = e /\ exit # "success"
  \/ call[c] = "interrupting" /\ callFiber[c] = f

\* Mutant: the Deferred of the entry is never completed.
MutCompleteNobody(e, f, exit) == UNCHANGED callerVars

Complete(e, f, exit) ==
  /\ call' = [c \in Caller |-> IF Resumes(c, e, exit) THEN "again"
                               ELSE IF Returns(c, e, f, exit) THEN "idle" ELSE call[c]]
  /\ callEntry' = [c \in Caller |-> IF callEntry[c] = e THEN NoEntry ELSE callEntry[c]]
  /\ callFiber' = [c \in Caller |-> IF callFiber[c] = f THEN NoFiber ELSE callFiber[c]]
  /\ callKey' = [c \in Caller |-> IF Returns(c, e, f, exit) THEN NoKey ELSE callKey[c]]

-----------------------------------------------------------------------------
\* history: a drain of k is owed since the last request; a forced one is;
\* k was interrupted and nothing was requested since.
Owe(k, force) ==
  /\ owedWake' = [owedWake EXCEPT ![k] = TRUE]
  /\ owedForce' = [owedForce EXCEPT ![k] = @ \/ force]
  /\ halted' = [halted EXCEPT ![k] = FALSE]

\* run found key k active with entry e: join it, or wait for it to stop.
Join(c, k, e) ==
  /\ call' = [call EXCEPT ![c] = IF stopping[e] THEN "afterStop" ELSE "joined"]
  /\ callEntry' = [callEntry EXCEPT ![c] = e]
  /\ callKey' = [callKey EXCEPT ![c] = k]
  /\ UNCHANGED <<active, entryVars, fiberVars, callFiber, open, history>>

\* run found key k idle: start a forced drain and join it.
RunIdle(c, k) ==
  /\ active[k] = NoEntry
  /\ StartEntry(k, TRUE, {}, {})
  /\ call' = [call EXCEPT ![c] = "joined"]
  /\ callEntry' = [callEntry EXCEPT ![c] = active'[k]]
  /\ callKey' = [callKey EXCEPT ![c] = k]
  /\ Owe(k, TRUE)
  /\ UNCHANGED <<callFiber, open>>

Run(c, k) ==
  /\ call[c] = "idle" \/ (call[c] = "again" /\ callKey[c] = k)
  /\ \/ RunIdle(c, k)
     \/ \E e \in Entry : active[k] = e /\ Join(c, k, e)

\* Mutant: a wake does not look for an active entry.
MutWakeAlwaysStarts(k, force) ==
  StartEntry(k, force, {}, {}) /\ Owe(k, force) /\ UNCHANGED <<callerVars, open>>

\* Mutant: the force of an earlier pending wake is overwritten.
MutWakeOverwritesForce(k, force) ==
  \/ \E e \in Entry :
       /\ active[k] = e
       /\ pendingWake' = [pendingWake EXCEPT ![e] = TRUE]
       /\ pendingWakeForce' = [pendingWakeForce EXCEPT ![e] = force]
       /\ Owe(k, force)
       /\ UNCHANGED <<active, stopping, owner, fiberVars, callerVars, open>>
  \/ /\ active[k] = NoEntry
     /\ StartEntry(k, force, {}, {})
     /\ Owe(k, force)
     /\ UNCHANGED <<callerVars, open>>

Wake(k, force) ==
  \/ \E e \in Entry :
       /\ active[k] = e
       /\ pendingWake' = [pendingWake EXCEPT ![e] = TRUE]
       /\ pendingWakeForce' = [pendingWakeForce EXCEPT ![e] = @ \/ force]
       /\ Owe(k, force)
       /\ UNCHANGED <<active, stopping, owner, fiberVars, callerVars, open>>
  \/ /\ active[k] = NoEntry
     /\ StartEntry(k, force, {}, {})
     /\ Owe(k, force)
     /\ UNCHANGED <<callerVars, open>>

\* Mutant: interrupt leaves an earlier wake registered.
MutInterruptKeepsWake(c, k) ==
  /\ call[c] = "idle"
  /\ \E e \in Entry :
       /\ active[k] = e
       /\ stopping' = [stopping EXCEPT ![e] = TRUE]
       /\ interrupted' = [f \in Fiber |-> f = owner[e] \/ interrupted[f]]
       /\ call' = [call EXCEPT ![c] = IF owner[e] = NoFiber THEN "idle" ELSE "interrupting"]
       /\ callFiber' = [callFiber EXCEPT ![c] = owner[e]]
  /\ owedWake' = [owedWake EXCEPT ![k] = FALSE]
  /\ owedForce' = [owedForce EXCEPT ![k] = FALSE]
  /\ halted' = [halted EXCEPT ![k] = TRUE]
  /\ UNCHANGED <<active, pendingWake, pendingWakeForce, owner, phase, keyOf, entryOf, forced,
                 callEntry, callKey, open>>

\* interrupt: clear what was requested, interrupt the owner, wait for it.
Interrupt(c, k) ==
  /\ call[c] = "idle"
  /\ \E e \in Entry :
       /\ active[k] = e
       /\ stopping' = [stopping EXCEPT ![e] = TRUE]
       /\ pendingWake' = [pendingWake EXCEPT ![e] = FALSE]
       /\ pendingWakeForce' = [pendingWakeForce EXCEPT ![e] = FALSE]
       /\ interrupted' = [f \in Fiber |-> f = owner[e] \/ interrupted[f]]
       /\ call' = [call EXCEPT ![c] = IF owner[e] = NoFiber THEN "idle" ELSE "interrupting"]
       /\ callFiber' = [callFiber EXCEPT ![c] = owner[e]]
  /\ owedWake' = [owedWake EXCEPT ![k] = FALSE]
  /\ owedForce' = [owedForce EXCEPT ![k] = FALSE]
  /\ halted' = [halted EXCEPT ![k] = TRUE]
  /\ UNCHANGED <<active, owner, phase, keyOf, entryOf, forced, callEntry, callKey, open>>

\* A waiting caller is itself interrupted: run's wait is restored interruptible.
Abandon(c) ==
  /\ call[c] \in {"joined", "afterStop", "again", "interrupting"}
  /\ call' = [call EXCEPT ![c] = "idle"]
  /\ callEntry' = [callEntry EXCEPT ![c] = NoEntry]
  /\ callFiber' = [callFiber EXCEPT ![c] = NoFiber]
  /\ callKey' = [callKey EXCEPT ![c] = NoKey]
  /\ UNCHANGED <<active, entryVars, fiberVars, open, history>>

\* The forked fiber passes yieldNow (or ready) and calls drain(key, force).
BeginDrain(f) ==
  /\ phase[f] = "forked"
  /\ ~interrupted[f]
  /\ phase' = [phase EXCEPT ![f] = "draining"]
  /\ owedWake' = [owedWake EXCEPT ![keyOf[f]] = FALSE]
  /\ owedForce' = [owedForce EXCEPT ![keyOf[f]] = @ /\ ~forced[f]]
  /\ UNCHANGED <<active, entryVars, keyOf, entryOf, forced, interrupted, callerVars, open, halted>>

-----------------------------------------------------------------------------
\* How the fiber's effect may exit.  An interrupt takes effect at once before
\* the drain was called; a drain may finish in an uninterruptible region.
MayExit(f, exit) ==
  \/ phase[f] = "draining" /\ exit \in Exits
  \/ phase[f] = "forked" /\ interrupted[f] /\ exit = "interrupt"

\* Mutant: joined resumes return after the first drain of a chain.
MutContinueCompletes(f, exit) ==
  LET e == entryOf[f]
  IN /\ open /\ exit = "success" /\ ~stopping[e] /\ pendingWake[e]
     /\ \E g \in Fiber :
          /\ FreeFiber(g)
          /\ Fork(g, keyOf[f], e, pendingWakeForce[e], {f})
          /\ MakeEntry(e, g, {})
     /\ Complete(e, f, exit)
     /\ UNCHANGED active

\* settle, first branch: the same entry runs one follow-up.
SettleContinue(f, exit) ==
  LET k == keyOf[f]
      e == entryOf[f]
  IN /\ exit = "success" /\ ~stopping[e] /\ pendingWake[e]
     /\ pendingWake' = [pendingWake EXCEPT ![e] = FALSE]
     /\ pendingWakeForce' = [pendingWakeForce EXCEPT ![e] = FALSE]
     /\ \/ /\ open
           /\ \E g \in Fiber :
                /\ FreeFiber(g)
                /\ Fork(g, k, e, pendingWakeForce[e], {f})
                /\ owner' = [owner EXCEPT ![e] = g]
        \/ /\ ~open
           /\ NoFork({f})
           /\ owner' = [owner EXCEPT ![e] = NoFiber]
     /\ call' = [c \in Caller |->
                   IF call[c] = "interrupting" /\ callFiber[c] = f THEN "idle" ELSE call[c]]
     /\ callFiber' = [c \in Caller |-> IF callFiber[c] = f THEN NoFiber ELSE callFiber[c]]
     /\ UNCHANGED <<active, stopping, callEntry, callKey>>

\* settle, a wake left on an entry that failed or was stopped: a successor.
SettleSuccessor(f, exit) ==
  LET k == keyOf[f]
      e == entryOf[f]
  IN /\ ~(exit = "success" /\ ~stopping[e])
     /\ pendingWake[e]
     /\ StartEntry(k, pendingWakeForce[e], {e}, {f})
     /\ Complete(e, f, exit)

\* Mutant: settle retires the entry without looking at its pendingWake.
MutIdleDropsWake(f, exit) ==
  LET e == entryOf[f]
  IN /\ active' = [active EXCEPT ![keyOf[f]] = NoEntry]
     /\ NoFork({f})
     /\ DropEntry(e)
     /\ Complete(e, f, exit)

\* settle, nothing left to do: the key becomes idle.
SettleIdle(f, exit) ==
  LET e == entryOf[f]
  IN /\ ~pendingWake[e]
     /\ active' = [active EXCEPT ![keyOf[f]] = NoEntry]
     /\ NoFork({f})
     /\ DropEntry(e)
     /\ Complete(e, f, exit)

Settle(f, exit) ==
  /\ MayExit(f, exit)
  /\ SettleContinue(f, exit) \/ SettleSuccessor(f, exit) \/ SettleIdle(f, exit)
  /\ UNCHANGED <<open, history>>

\* The scope of the coordinator closes: every fiber is interrupted.
Close ==
  /\ open
  /\ open' = FALSE
  /\ interrupted' = [f \in Fiber |-> Live(f) \/ interrupted[f]]
  /\ UNCHANGED <<active, entryVars, phase, keyOf, entryOf, forced, callerVars, history>>

-----------------------------------------------------------------------------
Next ==
  \/ \E c \in Caller, k \in Key : Run(c, k) \/ Interrupt(c, k)
  \/ \E c \in Caller : Abandon(c)
  \/ \E k \in Key, force \in BOOLEAN : Wake(k, force)
  \/ \E f \in Fiber : BeginDrain(f) \/ \E exit \in Exits : Settle(f, exit)
  \/ Close

Spec == Init /\ [][Next]_vars

\* A forked fiber is scheduled, a drain ends, a resumed run goes on.  That the
\* drain ends is an assumption about the coordinator's parameter.
Fairness ==
  /\ \A f \in Fiber : WF_vars(BeginDrain(f)) /\ WF_vars(\E exit \in Exits : Settle(f, exit))
  /\ \A c \in Caller : WF_vars(call[c] = "again" /\ \E k \in Key : Run(c, k))

FairSpec == Spec /\ Fairness

-----------------------------------------------------------------------------
\* At most one fiber is forked or draining per key: the serialization the
\* coordinator exists for.
SingleDrain ==
  \A f, g \in Fiber : Live(f) /\ Live(g) /\ keyOf[f] = keyOf[g] => f = g

\* The active map, Entry.owner and the closure of the running fiber agree, so
\* settle never removes another execution's entry and interrupt reaches the
\* fiber that is running.
OwnerAgrees ==
  \A f \in Fiber : Live(f) => active[keyOf[f]] = entryOf[f] /\ owner[entryOf[f]] = f

\* An entry never stays in the map without a fiber that will settle it, so
\* neither a wake nor a join is left on an entry nothing will run again.
EntryHasOwner ==
  open => \A k \in Key : active[k] # NoEntry =>
            /\ owner[active[k]] # NoFiber
            /\ Live(owner[active[k]])
            /\ keyOf[owner[active[k]]] = k

\* A wake recorded after the last drain began (and not interrupted since) is
\* still registered: as a fiber about to drain, or as the entry's pendingWake.
NoLostWake ==
  \A k \in Key : open /\ owedWake[k] =>
    \E f \in Fiber :
      /\ Live(f) /\ keyOf[f] = k
      /\ pendingWake[entryOf[f]] \/ (phase[f] = "forked" /\ ~interrupted[f])

\* A forced request is answered by a forced drain, never by a plain one.
NoLostForce ==
  \A k \in Key : open /\ owedForce[k] =>
    \E f \in Fiber :
      /\ Live(f) /\ keyOf[f] = k
      /\ \/ pendingWake[entryOf[f]] /\ pendingWakeForce[entryOf[f]]
         \/ phase[f] = "forked" /\ ~interrupted[f] /\ forced[f]

\* settle, wake and interrupt lose no request that was made since the last
\* drain began (run-coordinator.ts:54-60, 88-95).
NoLostRequest == NoLostWake /\ NoLostForce

\* A caller only ever waits for an entry or a fiber that is still current.
WaitersAttached ==
  \A c \in Caller :
    /\ call[c] \in {"joined", "afterStop"} => \E k \in Key : active[k] = callEntry[c]
    /\ call[c] = "interrupting" => callFiber[c] \in Fiber /\ Live(callFiber[c])

\* The inductive invariant behind them.  An owner recorded in an entry of the
\* map is that entry's live fiber even after the scope closed, and what is owed
\* is found in the entry the map holds.
OwnerLive ==
  \A k \in Key : active[k] # NoEntry /\ owner[active[k]] # NoFiber =>
    /\ Live(owner[active[k]])
    /\ keyOf[owner[active[k]]] = k
    /\ entryOf[owner[active[k]]] = active[k]

OpenOwned == open => \A k \in Key : active[k] # NoEntry => owner[active[k]] # NoFiber

About(f) == phase[f] = "forked" /\ ~interrupted[f]

OwedWakeKept ==
  \A k \in Key : open /\ owedWake[k] =>
    /\ active[k] # NoEntry
    /\ pendingWake[active[k]] \/ About(owner[active[k]])

OwedForceKept ==
  \A k \in Key : open /\ owedForce[k] =>
    /\ active[k] # NoEntry
    /\ \/ pendingWake[active[k]] /\ pendingWakeForce[active[k]]
       \/ About(owner[active[k]]) /\ forced[owner[active[k]]]

WaitersHeld ==
  \A c \in Caller :
    /\ call[c] \in {"joined", "afterStop"} =>
         callEntry[c] # NoEntry /\ \E k \in Key : active[k] = callEntry[c]
    /\ call[c] = "interrupting" => callFiber[c] # NoFiber /\ Live(callFiber[c])

IInv == TypeOK /\ OwnerAgrees /\ OwnerLive /\ OpenOwned /\ OwedWakeKept /\ OwedForceKept
        /\ WaitersHeld

\* Nothing is registered for a Session that was interrupted, and nothing runs
\* on undisturbed once the scope is closed.
HaltKept ==
  \A f \in Fiber : Live(f) /\ halted[keyOf[f]] => ~About(f) /\ ~pendingWake[entryOf[f]]

ClosedStops == ~open => \A f \in Fiber : Live(f) => interrupted[f]

\* After an interrupt no drain begins until something new was requested.
StopIsFinal ==
  [][\A f \in Fiber : phase[f] = "forked" /\ phase'[f] = "draining" => ~halted[keyOf[f]]]_vars

\* A drain that follows another in the same execution leaves the joined
\* resumes waiting: they return only when the whole chain of drains is over.
JoinedUntilIdle ==
  [][\A c \in Caller : call[c] = "joined" /\ call'[c] = "idle"
       => UNCHANGED phase \/ \A k \in Key : active'[k] # callEntry[c]]_vars

\* interrupt returns once the drain it interrupted has cleaned up.
InterruptReturns == \A c \in Caller : call[c] = "interrupting" ~> call[c] # "interrupting"

\* A joined resume returns, unless the scope closes or wakes keep coming.
NoMoreWakes == \A e \in Entry : ~pendingWake[e]
JoinReturns ==
  <>[](open /\ NoMoreWakes) =>
    \A c \in Caller : call[c] \in {"joined", "afterStop"} ~> call[c] \in {"idle", "again"}

\* Whoever waits for an execution returns (run-coordinator.ts:68, 76, 104).
CallersReturn == InterruptReturns /\ JoinReturns

-----------------------------------------------------------------------------
\* The coordinator implements SerialExecution: a request is a pendingWake or a
\* fiber about to drain, and an execution is a draining fiber.
Requested(k) ==
  \E f \in Fiber :
    /\ open /\ keyOf[f] = k
    /\ \/ phase[f] = "forked" /\ ~interrupted[f]
       \/ Live(f) /\ pendingWake[entryOf[f]]

Running(k) == \E f \in Fiber : keyOf[f] = k /\ phase[f] = "draining"

Serial == INSTANCE SerialExecution WITH
            requested <- [k \in Key |-> Requested(k)],
            running <- [k \in Key |-> Running(k)]

\* Every behaviour of the coordinator is one of SerialExecution: executions of
\* a key never overlap and no settle forgets a request.
ImplementsSerial == Serial!Spec

-----------------------------------------------------------------------------
=============================================================================

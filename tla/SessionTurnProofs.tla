--------------------------- MODULE SessionTurnProofs ---------------------------
(* Proofs about SessionTurn, for any calls, models, failover chain, inputs and *)
(* bounds: no call is sent unanswered, no tool works unseen, only attempts that *)
(* left nothing are repeated, a decline halts the drain, and no input is left. *)
EXTENDS SessionTurn, FiniteSetTheorems, TLAPS

USE TurnAssumption

-----------------------------------------------------------------------------
(* Types.                                                                    *)

LEMMA ChainEntry == \A i \in 1..Len(Chain) : Chain[i] \in Entries
  BY DEF Entries

LEMMA OffType == Off \in Drain /\ Fresh \in Attempt
<1>1. Off \in Drain
  BY DEF Off, Drain, Places, Models
<1>2. Fresh \in Attempt
  BY DEF Fresh, Attempt, Whys
<1> QED BY <1>1, <1>2

Fibs == [Calls -> {"none", "run", "publish", "failed", "declined"}]

LEMMA InitType == Init => TypeOK
<1> SUFFICES ASSUME Init PROVE TypeOK
  OBVIOUS
<1>1. drain \in Drain /\ drain.pc = "idle" /\ turn \in Attempt
  <2>1. drain = Off /\ turn = Fresh /\ Off.pc = "idle"
    BY DEF Init, Off
  <2> QED BY <2>1, OffType
<1>2. msg \in Message
  BY DEF Init, Message, NoTools
<1>3. fib \in Fibs
  BY DEF Init, NoFibers, Fibs
<1>4. /\ inbox \in [steer : Nat, queue : Nat] /\ inbox.steer + inbox.queue <= admitted
      /\ admitted \in 0..MaxInputs /\ runs \in 0..MaxRuns
  BY DEF Init
<1> QED BY <1>1, <1>2, <1>3, <1>4 DEF Init, TypeOK, Fibs

(* The drain is where it was told to go. *)
LEMMA GotoType ==
  ASSUME TypeOK, NEW pc \in Places, Goto(pc)
  PROVE  drain' \in Drain /\ drain'.pc = pc /\ drain'.attempt = drain.attempt
  BY DEF TypeOK, Goto, Drain

LEMMA EndType ==
  ASSUME TypeOK, NEW exit \in {"ok", "fail", "interrupt", "elapsed"}, End(exit)
  PROVE  /\ drain' \in Drain /\ drain'.pc = "idle" /\ turn' \in Attempt
         /\ fib' \in Fibs /\ spent' \in Nat /\ declined' = declined
<1>1. ASSUME NEW d \in Drain PROVE [d EXCEPT !.exit = exit] \in Drain /\ [d EXCEPT !.exit = exit].pc = d.pc
  BY DEF Drain
<1>2. [Off EXCEPT !.exit = exit] \in Drain /\ [Off EXCEPT !.exit = exit].pc = "idle"
  <2>1. Off.pc = "idle"
    BY DEF Off
  <2> QED BY <1>1, <2>1, OffType
<1> QED BY <1>2, OffType DEF End, NoFibers, Fibs

LEMMA MessageType ==
  ASSUME NEW m \in Message, NEW C
  PROVE  Closing(m) \in Message /\ Failing(m, C) \in Message
  BY DEF Message, Closing, Failing, Unsettled

LEMMA ClearedType == TypeOK => Cleared \in Fibs
  BY DEF TypeOK, Cleared, Fibs

(* The locals that the properties rest on. *)
Kept(t, u) ==
  /\ t.step = u.step /\ t.why = u.why /\ t.out = u.out /\ t.recovered = u.recovered
  /\ t.hosted = u.hosted /\ t.first = u.first

(* What recording a provider error does to them. *)
LEMMA JudgeType ==
  ASSUME NEW t \in Attempt
  PROVE  /\ [t EXCEPT !.perr = TRUE, !.active = FALSE] \in Attempt
         /\ Kept([t EXCEPT !.perr = TRUE, !.active = FALSE], t)
         /\ [t EXCEPT !.perr = TRUE, !.active = FALSE].call = t.call
         /\ [t EXCEPT !.over = TRUE] \in Attempt
         /\ Kept([t EXCEPT !.over = TRUE], t) /\ [t EXCEPT !.over = TRUE].call = t.call
  BY DEF Attempt, Kept

LEMMA PromptType ==
  ASSUME TypeOK, NEW d \in {"steer", "queue"}, Prompt(d)
  PROVE  TypeOK'
<1>1. UNCHANGED <<drain, turn, fib, msg, stray, retry, declined, runs, spent>>
  BY DEF Prompt, memory
<1>2. /\ inbox' \in [steer : Nat, queue : Nat] /\ inbox'.steer + inbox'.queue <= admitted'
      /\ admitted' \in 0..MaxInputs
  BY DEF TypeOK, Prompt
<1>3. woken' \in BOOLEAN
  BY DEF TypeOK, Prompt
<1> QED BY <1>1, <1>2, <1>3 DEF TypeOK, Fibs

LEMMA StartType ==
  ASSUME TypeOK, NEW force \in BOOLEAN, Start(force)
  PROVE  TypeOK'
<1>1. UNCHANGED <<inbox, admitted>>
  BY DEF Start, End
<1>2. drain' \in Drain /\ (drain'.pc = "backoff" => drain'.attempt + 1 < MaxAttempts)
  <2> DEFINE n == IF retry = None THEN 0 ELSE retry + 1
  <2>1. n \in 0..(MaxAttempts - 1) /\ Off \in Drain
    BY OffType DEF TypeOK
  <2>2. End("elapsed") \/ drain' = [Off EXCEPT !.pc = "guard", !.force = force, !.attempt = n]
    BY DEF Start
  <2> HIDE DEF n
  <2>3. CASE drain' = [Off EXCEPT !.pc = "guard", !.force = force, !.attempt = n]
    <3>1. ASSUME NEW d \in Drain, NEW k \in 0..(MaxAttempts - 1)
          PROVE  /\ [d EXCEPT !.pc = "guard", !.force = force, !.attempt = k] \in Drain
                 /\ [d EXCEPT !.pc = "guard", !.force = force, !.attempt = k].pc = "guard"
      BY DEF Drain, Places
    <3> QED BY <2>1, <2>3, <3>1
  <2> QED BY <2>2, <2>3, EndType
<1>3. turn' \in Attempt
  BY EndType, OffType DEF TypeOK, Attempt, Whys, Start
<1>4. fib' \in Fibs
  BY EndType DEF TypeOK, Fibs, Start
<1>5. msg' \in Message
  BY MessageType DEF TypeOK, Start
<1>6. /\ stray' \subseteq Unsettled /\ retry' \in (0..(MaxAttempts - 2)) \cup {None}
      /\ woken' \in BOOLEAN /\ declined' \in BOOLEAN /\ runs' \in 0..MaxRuns /\ spent' \in Nat
  <2>1. /\ stray' \subseteq stray /\ (retry' = None \/ retry' = retry)
        /\ woken' \in {woken, FALSE} /\ declined' \in {declined, FALSE}
    BY DEF Start, End
  <2>2. runs' \in 0..MaxRuns
    <3>1. runs' = runs \/ (runs < MaxRuns /\ runs' = runs + 1)
      BY DEF Start
    <3> QED BY <3>1 DEF TypeOK
  <2>3. spent' \in Nat
    BY DEF Start, End, TypeOK
  <2> QED BY <2>1, <2>2, <2>3 DEF TypeOK
<1> QED BY <1>1, <1>2, <1>3, <1>4, <1>5, <1>6 DEF TypeOK, Fibs

LEMMA GuardType ==
  ASSUME TypeOK, Guard
  PROVE  TypeOK'
<1>1. UNCHANGED <<msg, inbox, admitted, stray, retry, woken, declined, runs>>
  BY DEF Guard, End, Outside, durable
<1>2. drain' \in Drain /\ (drain'.pc = "backoff" => drain'.attempt + 1 < MaxAttempts)
  <2> DEFINE p == Delivery
  <2>1. p \in {"steer", "queue", None}
    BY DEF Delivery
  <2>2. End("ok") \/ drain' = [drain EXCEPT !.pc = "turn", !.promo = p, !.force = FALSE]
    BY DEF Guard
  <2> HIDE DEF p
  <2>3. CASE drain' = [drain EXCEPT !.pc = "turn", !.promo = p, !.force = FALSE]
    <3>1. ASSUME NEW d \in Drain
          PROVE  /\ [d EXCEPT !.pc = "turn", !.promo = p, !.force = FALSE] \in Drain
                 /\ [d EXCEPT !.pc = "turn", !.promo = p, !.force = FALSE].pc = "turn"
      BY <2>1 DEF Drain, Places
    <3> QED BY <2>3, <3>1 DEF TypeOK
  <2> QED BY <2>2, <2>3, EndType
<1>3. turn' \in Attempt
  BY EndType, OffType DEF TypeOK, Attempt, Whys, Guard
<1>4. fib' \in Fibs
  BY EndType DEF TypeOK, Fibs, Guard
<1>5. spent' \in Nat
  BY EndType DEF TypeOK, Guard
<1> QED BY <1>1, <1>2, <1>3, <1>4, <1>5 DEF TypeOK, Fibs

LEMMA CrashType ==
  ASSUME TypeOK, Crash
  PROVE  TypeOK'
<1>1. UNCHANGED <<msg, inbox, admitted, stray, retry>>
  BY DEF Crash, durable
<1>2. drain' \in Drain /\ (drain'.pc = "backoff" => drain'.attempt + 1 < MaxAttempts)
  <2>1. ASSUME NEW d \in Drain, d.pc = "idle"
        PROVE  [d EXCEPT !.exit = "interrupt"] \in Drain /\ [d EXCEPT !.exit = "interrupt"].pc = "idle"
    BY <2>1 DEF Drain
  <2>2. Off.pc = "idle"
    BY DEF Off
  <2> QED BY <2>1, <2>2, OffType DEF Crash
<1>3. turn' \in Attempt
  BY OffType DEF TypeOK, Attempt, Whys, Crash
<1>4. fib' \in Fibs
  BY DEF TypeOK, Fibs, Crash, NoFibers
<1>5. woken' \in BOOLEAN /\ declined' \in BOOLEAN /\ spent' \in Nat
  BY DEF Crash
<1>6. runs' \in 0..MaxRuns
  BY DEF TypeOK, Crash
<1> QED BY <1>1, <1>2, <1>3, <1>4, <1>5, <1>6 DEF TypeOK, Fibs

LEMMA InterruptType ==
  ASSUME TypeOK, Interrupt
  PROVE  TypeOK'
<1>1. UNCHANGED <<msg, inbox, admitted, stray, retry, declined, runs>>
  BY DEF Interrupt, End, Goto, durable
<1>2. drain' \in Drain /\ (drain'.pc = "backoff" => drain'.attempt + 1 < MaxAttempts)
  BY GotoType, EndType DEF TypeOK, Places, Interrupt
<1>3. turn' \in Attempt
  <2>1. \/ End("interrupt") \/ turn' = [turn EXCEPT !.why = "interrupt", !.call = None]
        \/ turn' = [turn EXCEPT !.why = "interrupt"]
    BY DEF Interrupt
  <2>2. turn \in Attempt /\ "interrupt" \in Whys
    BY DEF TypeOK, Whys
  <2>3. ASSUME NEW t \in Attempt, NEW w \in Whys
        PROVE  [t EXCEPT !.why = w, !.call = None] \in Attempt /\ [t EXCEPT !.why = w] \in Attempt
    BY DEF Attempt
  <2>4. CASE End("interrupt")
    BY <2>4, EndType
  <2>5. CASE turn' = [turn EXCEPT !.why = "interrupt", !.call = None]
    BY <2>2, <2>3, <2>5
  <2>6. CASE turn' = [turn EXCEPT !.why = "interrupt"]
    BY <2>2, <2>3, <2>6
  <2> QED BY <2>1, <2>4, <2>5, <2>6
<1>4. fib' \in Fibs
  BY EndType, ClearedType DEF TypeOK, Fibs, Interrupt
<1>5. woken' \in BOOLEAN /\ spent' \in Nat
  BY EndType DEF TypeOK, Interrupt
<1> QED BY <1>1, <1>2, <1>3, <1>4, <1>5 DEF TypeOK, Fibs

LEMMA PromoteType ==
  ASSUME TypeOK, Promote
  PROVE  TypeOK'
<1>1. UNCHANGED <<fib, msg, stray, retry, woken, declined, runs, spent>>
  BY DEF Promote, Outside
<1>2. drain' \in Drain /\ (drain'.pc = "backoff" => drain'.attempt + 1 < MaxAttempts)
  <2>1. ASSUME NEW d \in Drain
        PROVE  /\ [d EXCEPT !.pc = "ready", !.promo = None] \in Drain
               /\ [d EXCEPT !.pc = "ready", !.promo = None].pc = "ready"
    BY DEF Drain, Places
  <2>2. drain' = [drain EXCEPT !.pc = "ready", !.promo = None]
    BY DEF Promote
  <2> QED BY <2>1, <2>2 DEF TypeOK
<1>3. turn' \in Attempt
  <2> DEFINE n == IF inbox' = inbox THEN drain.step ELSE 1
  <2>1. turn' = [turn EXCEPT !.step = n] /\ n \in Nat \ {0} /\ turn \in Attempt
    BY DEF TypeOK, Promote, Drain
  <2>2. ASSUME NEW t \in Attempt, NEW k \in Nat \ {0} PROVE [t EXCEPT !.step = k] \in Attempt
    BY DEF Attempt
  <2> HIDE DEF n
  <2> QED BY <2>1, <2>2
<1>4. /\ inbox' \in [steer : Nat, queue : Nat] /\ inbox'.steer + inbox'.queue <= admitted'
      /\ admitted' \in 0..MaxInputs
  BY DEF TypeOK, Promote, Left, Outside
<1> QED BY <1>1, <1>2, <1>3, <1>4 DEF TypeOK, Fibs

LEMMA DispatchType ==
  ASSUME TypeOK, Dispatch
  PROVE  TypeOK'
<1>1. UNCHANGED <<fib, inbox, admitted, retry, woken, declined, runs>>
  BY DEF Dispatch, Goto, Outside
<1>2. drain' \in Drain /\ (drain'.pc = "backoff" => drain'.attempt + 1 < MaxAttempts)
  BY GotoType DEF TypeOK, Places, Dispatch
<1>3. turn' \in Attempt
  BY OffType DEF TypeOK, Attempt, Whys, Dispatch
<1>4. msg' \in Message
  BY DEF TypeOK, Message, Unsettled, Dispatch, NoTools
<1>5. stray' \subseteq Unsettled /\ spent' \in Nat
  BY DEF TypeOK, Unsettled, Dispatch
<1> QED BY <1>1, <1>2, <1>3, <1>4, <1>5 DEF TypeOK, Fibs

LEMMA NoModelType ==
  ASSUME TypeOK, NoModel
  PROVE  TypeOK'
<1>1. UNCHANGED <<msg, inbox, admitted, stray, woken, declined, runs>>
  BY DEF NoModel, End, Outside
<1>2. drain' \in Drain /\ (drain'.pc = "backoff" => drain'.attempt + 1 < MaxAttempts)
  BY EndType DEF TypeOK, NoModel
<1>3. turn' \in Attempt
  BY EndType, OffType DEF TypeOK, Attempt, Whys, NoModel
<1>4. fib' \in Fibs
  BY EndType DEF TypeOK, Fibs, NoModel
<1>5. retry' \in (0..(MaxAttempts - 2)) \cup {None} /\ spent' \in Nat
  BY EndType DEF TypeOK, NoModel
<1> QED BY <1>1, <1>2, <1>3, <1>4, <1>5 DEF TypeOK, Fibs

LEMMA TextType ==
  ASSUME TypeOK, Text
  PROVE  TypeOK'
<1>1. UNCHANGED <<drain, fib, inbox, admitted, stray, retry, woken, declined, runs, spent>>
  BY DEF Text, StreamOnly, Outside
<1>2. turn' \in Attempt
  BY DEF TypeOK, Attempt, Whys, Text, Listening
<1>3. msg' \in Message
  BY DEF TypeOK, Message, Unsettled, Text, Listening
<1> QED BY <1>1, <1>2, <1>3 DEF TypeOK, Fibs

LEMMA ToolInputType ==
  ASSUME TypeOK, NEW c \in Calls, ToolInput(c)
  PROVE  TypeOK'
<1>1. UNCHANGED <<drain, fib, inbox, admitted, stray, retry, woken, declined, runs, spent>>
  BY DEF ToolInput, StreamOnly, Outside
<1>2. turn' \in Attempt
  BY DEF TypeOK, Attempt, Whys, ToolInput, Listening
<1>3. msg' \in Message
  BY DEF TypeOK, Message, Unsettled, ToolInput, Listening
<1> QED BY <1>1, <1>2, <1>3 DEF TypeOK, Fibs

LEMMA ToolCallType ==
  ASSUME TypeOK, NEW c \in Calls, NEW h \in BOOLEAN, ToolCall(c, h)
  PROVE  TypeOK'
<1>1. UNCHANGED <<fib, inbox, admitted, stray, retry, woken, declined, runs, spent>>
  BY DEF ToolCall, Goto, StreamOnly, Outside
<1>2. drain' \in Drain /\ (drain'.pc = "backoff" => drain'.attempt + 1 < MaxAttempts)
  BY GotoType DEF TypeOK, Places, ToolCall, Listening
<1>3. turn' \in Attempt
  <2> DEFINE H == turn.hosted \cup {c}
  <2>1. turn \in Attempt /\ H \in SUBSET Calls
    BY DEF TypeOK, Attempt
  <2>2. turn' = [turn EXCEPT !.out = TRUE, !.hosted = H] \/ turn' = [turn EXCEPT !.out = TRUE, !.call = c]
    BY DEF ToolCall
  <2> HIDE DEF H
  <2>3. ASSUME NEW t \in Attempt
        PROVE  /\ [t EXCEPT !.out = TRUE, !.hosted = H] \in Attempt
               /\ [t EXCEPT !.out = TRUE, !.call = c] \in Attempt
    BY <2>1 DEF Attempt
  <2> QED BY <2>1, <2>2, <2>3
<1>4. msg' \in Message
  BY DEF TypeOK, Message, Unsettled, ToolCall, Listening
<1> QED BY <1>1, <1>2, <1>3, <1>4 DEF TypeOK, Fibs

LEMMA ForkType ==
  ASSUME TypeOK, Fork
  PROVE  TypeOK'
<1>1. UNCHANGED <<inbox, admitted, stray, retry, woken, declined, runs, spent>>
  BY DEF Fork, Goto, StreamOnly, Outside
<1>2. drain' \in Drain /\ (drain'.pc = "backoff" => drain'.attempt + 1 < MaxAttempts)
  BY GotoType DEF TypeOK, Places, Fork
<1>3. turn' \in Attempt
  <2>1. turn \in Attempt
    BY DEF TypeOK
  <2>2. turn' = [turn EXCEPT !.call = None] \/ turn' = [turn EXCEPT !.call = None, !.cont = TRUE]
    BY DEF Fork
  <2>3. ASSUME NEW t \in Attempt
        PROVE  /\ [t EXCEPT !.call = None] \in Attempt
               /\ [t EXCEPT !.call = None, !.cont = TRUE] \in Attempt
    BY DEF Attempt
  <2> QED BY <2>1, <2>2, <2>3
<1>4. fib' \in Fibs
  BY DEF TypeOK, Fibs, Fork
<1>5. msg' \in Message
  <2>1. msg \in Message /\ (msg' = msg \/ msg' = Failing(msg, Calls))
    BY DEF TypeOK, Fork
  <2> QED BY <2>1, MessageType
<1> QED BY <1>1, <1>2, <1>3, <1>4, <1>5 DEF TypeOK, Fibs

LEMMA HostedResultType ==
  ASSUME TypeOK, NEW c \in Calls, HostedResult(c)
  PROVE  TypeOK'
<1>1. UNCHANGED <<drain, fib, inbox, admitted, stray, retry, woken, declined, runs, spent>>
  BY DEF HostedResult, StreamOnly, Outside
<1>2. turn' \in Attempt
  BY DEF TypeOK, Attempt, Whys, HostedResult, Listening
<1>3. msg' \in Message
  BY DEF TypeOK, Message, Unsettled, HostedResult, Listening
<1> QED BY <1>1, <1>2, <1>3 DEF TypeOK, Fibs

LEMMA StepFinishType ==
  ASSUME TypeOK, StepFinish
  PROVE  TypeOK'
<1>1. UNCHANGED <<drain, fib, msg, inbox, admitted, stray, retry, woken, declined, runs, spent>>
  BY DEF StepFinish, StreamOnly, Outside
<1>2. turn' \in Attempt
  BY DEF TypeOK, Attempt, Whys, StepFinish, Listening
<1> QED BY <1>1, <1>2 DEF TypeOK, Fibs

LEMMA ProviderErrorType ==
  ASSUME TypeOK, NEW o \in BOOLEAN, ProviderError(o)
  PROVE  TypeOK'
<1>1. UNCHANGED <<drain, fib, inbox, admitted, stray, retry, woken, declined, runs, spent>>
  BY DEF ProviderError, StreamOnly, Outside
<1>2. turn' \in Attempt
  <2>1. turn \in Attempt
    BY DEF TypeOK
  <2>2. turn' = [turn EXCEPT !.over = TRUE] \/ turn' = [turn EXCEPT !.perr = TRUE, !.active = FALSE]
    BY DEF ProviderError
  <2> QED BY <2>1, <2>2, JudgeType
<1>3. msg' \in Message
  BY MessageType DEF TypeOK, ProviderError
<1> QED BY <1>1, <1>2, <1>3 DEF TypeOK, Fibs

LEMMA StreamEndsType ==
  ASSUME TypeOK, NEW why \in Whys \ {"interrupt", "declined"}, StreamEnds(why)
  PROVE  TypeOK'
<1>1. UNCHANGED <<fib, msg, inbox, admitted, stray, retry, woken, declined, runs, spent>>
  BY DEF StreamEnds, Goto, StreamOnly, Outside
<1>2. drain' \in Drain /\ (drain'.pc = "backoff" => drain'.attempt + 1 < MaxAttempts)
  BY GotoType DEF TypeOK, Places, StreamEnds
<1>3. turn' \in Attempt
  BY DEF TypeOK, Attempt, Whys, StreamEnds
<1> QED BY <1>1, <1>2, <1>3 DEF TypeOK, Fibs

LEMMA ToolReturnsType ==
  ASSUME TypeOK, NEW c \in Calls, ToolReturns(c)
  PROVE  TypeOK'
<1>1. UNCHANGED <<drain, turn, msg, inbox, admitted, stray, retry, woken, declined, runs, spent>>
  BY DEF ToolReturns, ToolOnly
<1>2. fib' \in Fibs
  BY DEF TypeOK, Fibs, ToolReturns
<1> QED BY <1>1, <1>2 DEF TypeOK, Fibs

LEMMA ToolSettlesType ==
  ASSUME TypeOK, NEW c \in Calls, ToolSettles(c)
  PROVE  TypeOK'
<1>1. UNCHANGED <<drain, turn, inbox, admitted, stray, retry, woken, declined, runs, spent>>
  BY DEF ToolSettles, ToolOnly
<1>2. fib' \in Fibs
  BY DEF TypeOK, Fibs, ToolSettles
<1>3. msg' \in Message
  BY DEF TypeOK, Message, Unsettled, ToolSettles
<1> QED BY <1>1, <1>2, <1>3 DEF TypeOK, Fibs

LEMMA ToolFailsType ==
  ASSUME TypeOK, NEW c \in Calls, NEW how \in {"failed", "declined"}, ToolFails(c, how)
  PROVE  TypeOK'
<1>1. UNCHANGED <<drain, msg, inbox, admitted, stray, retry, woken, runs, spent>>
  BY DEF ToolFails, ToolOnly
<1>2. turn' \in Attempt
  BY DEF TypeOK, Attempt, Whys, ToolFails
<1>3. fib' \in Fibs
  BY DEF TypeOK, Fibs, ToolFails
<1>4. declined' \in BOOLEAN
  BY DEF TypeOK, ToolFails
<1> QED BY <1>1, <1>2, <1>3, <1>4 DEF TypeOK, Fibs

LEMMA AfterType ==
  ASSUME TypeOK, After
  PROVE  TypeOK'
<1>1. UNCHANGED <<fib, inbox, admitted, stray, retry, woken, declined, runs, spent>>
  BY DEF After, Goto, Judge, AfterOnly, Outside
<1>2. drain' \in Drain /\ (drain'.pc = "backoff" => drain'.attempt + 1 < MaxAttempts)
  BY GotoType DEF TypeOK, Places, After, Judge
<1>3. turn' \in Attempt
  <2>1. turn \in Attempt
    BY DEF TypeOK
  <2>2. turn' = turn \/ turn' = [turn EXCEPT !.perr = TRUE, !.active = FALSE]
    BY DEF After, Judge
  <2> QED BY <2>1, <2>2, JudgeType
<1>4. msg' \in Message
  BY MessageType DEF TypeOK, After, Judge
<1> QED BY <1>1, <1>2, <1>3, <1>4 DEF TypeOK, Fibs

LEMMA ShrinkType ==
  ASSUME TypeOK, NEW done \in BOOLEAN, Shrink(done)
  PROVE  TypeOK'
<1>1. UNCHANGED <<fib, inbox, admitted, stray, retry, woken, declined, runs, spent>>
  BY DEF Shrink, Judge, AfterOnly, Goto, Outside
<1>2. drain' \in Drain /\ (drain'.pc = "backoff" => drain'.attempt + 1 < MaxAttempts)
  <2>1. Goto("judge") \/ drain' = [drain EXCEPT !.pc = "turn", !.roomy = FALSE, !.step = turn.step]
    BY DEF Shrink, Judge
  <2>2. turn.step \in Nat \ {0} /\ drain \in Drain /\ "judge" \in Places
    BY DEF TypeOK, Attempt, Places
  <2>3. CASE drain' = [drain EXCEPT !.pc = "turn", !.roomy = FALSE, !.step = turn.step]
    <3>1. ASSUME NEW d \in Drain, NEW k \in Nat \ {0}
          PROVE  /\ [d EXCEPT !.pc = "turn", !.roomy = FALSE, !.step = k] \in Drain
                 /\ [d EXCEPT !.pc = "turn", !.roomy = FALSE, !.step = k].pc = "turn"
      BY DEF Drain, Places
    <3> QED BY <2>2, <2>3, <3>1
  <2> QED BY <2>1, <2>2, <2>3, GotoType
<1>3. turn' \in Attempt
  <2>1. turn \in Attempt
    BY DEF TypeOK
  <2>2. turn' = turn \/ turn' = [turn EXCEPT !.perr = TRUE, !.active = FALSE]
    BY DEF Shrink, Judge
  <2> QED BY <2>1, <2>2, JudgeType
<1>4. msg' \in Message
  BY MessageType DEF TypeOK, Shrink, Judge
<1> QED BY <1>1, <1>2, <1>3, <1>4 DEF TypeOK, Fibs

LEMMA RecoverType ==
  ASSUME TypeOK, NEW c \in Calls, Recover(c)
  PROVE  TypeOK'
<1>1. UNCHANGED <<fib, inbox, admitted, stray, retry, woken, declined, runs, spent>>
  BY DEF Recover, Goto, AfterOnly, Outside
<1>2. drain' \in Drain /\ (drain'.pc = "backoff" => drain'.attempt + 1 < MaxAttempts)
  BY GotoType DEF TypeOK, Places, Recover
<1>3. turn' \in Attempt
  BY DEF TypeOK, Attempt, Whys, Recover
<1>4. msg' \in Message
  BY MessageType DEF TypeOK, Recover
<1> QED BY <1>1, <1>2, <1>3, <1>4 DEF TypeOK, Fibs

LEMMA RetryType ==
  ASSUME TypeOK, Retry
  PROVE  TypeOK'
<1>1. UNCHANGED <<turn, fib, inbox, admitted, stray, woken, declined, runs, spent>>
  BY DEF Retry, Goto, AfterOnly, Outside
<1>2. drain' \in Drain /\ (drain'.pc = "backoff" => drain'.attempt + 1 < MaxAttempts)
  BY GotoType DEF TypeOK, Places, Retry, MayRetry
<1>3. msg' \in Message
  BY MessageType DEF TypeOK, Retry, MayRetry
<1>4. retry' \in (0..(MaxAttempts - 2)) \cup {None}
  BY DEF TypeOK, Drain, MayRetry, Redo, Retry
<1> QED BY <1>1, <1>2, <1>3, <1>4 DEF TypeOK, Fibs

LEMMA BackoffType ==
  ASSUME TypeOK, Backoff
  PROVE  TypeOK'
<1>1. UNCHANGED <<turn, fib, msg, inbox, admitted, stray, retry, woken, declined, runs, spent>>
  BY DEF Backoff, AfterOnly, Outside
<1>2. drain' \in Drain /\ (drain'.pc = "backoff" => drain'.attempt + 1 < MaxAttempts)
  <2>1. drain' = [drain EXCEPT !.pc = "turn", !.attempt = drain.attempt + 1]
    BY DEF Backoff
  <2>2. drain.attempt + 1 \in 0..(MaxAttempts - 1)
    BY DEF TypeOK, Drain, Backoff
  <2>3. drain \in Drain
    BY DEF TypeOK
  <2>4. ASSUME NEW d \in Drain, NEW k \in 0..(MaxAttempts - 1)
        PROVE  /\ [d EXCEPT !.pc = "turn", !.attempt = k] \in Drain
               /\ [d EXCEPT !.pc = "turn", !.attempt = k].pc = "turn"
    BY DEF Drain, Places
  <2> QED BY <2>1, <2>2, <2>3, <2>4
<1> QED BY <1>1, <1>2 DEF TypeOK, Fibs

LEMMA FailOverType ==
  ASSUME TypeOK, NEW i \in 1..Len(Chain), FailOver(i)
  PROVE  TypeOK'
<1>1. UNCHANGED <<turn, fib, msg, inbox, admitted, stray, woken, declined, runs, spent>>
  BY DEF FailOver, AfterOnly, Outside
<1>2. drain' \in Drain /\ (drain'.pc = "backoff" => drain'.attempt + 1 < MaxAttempts)
  <2> DEFINE X == drain.used \cup {m \in {Chain[j] : j \in 1..i} : Untried(m)}
  <2>1. drain' = [drain EXCEPT !.pc = "turn", !.attempt = 0, !.model = Chain[i], !.used = X]
    BY DEF FailOver
  <2>2. X \in SUBSET Entries
    <3>1. \A j \in 1..i : Chain[j] \in Entries
      BY ChainEntry
    <3> QED BY <3>1 DEF TypeOK, Drain
  <2>3. Chain[i] \in Models /\ 0 \in 0..(MaxAttempts - 1) /\ drain \in Drain
    BY ChainEntry DEF Models, TypeOK
  <2> HIDE DEF X
  <2>4. ASSUME NEW d \in Drain, NEW m \in Models
        PROVE  /\ [d EXCEPT !.pc = "turn", !.attempt = 0, !.model = m, !.used = X] \in Drain
               /\ [d EXCEPT !.pc = "turn", !.attempt = 0, !.model = m, !.used = X].pc = "turn"
    BY <2>2, <2>3 DEF Drain, Places
  <2> QED BY <2>1, <2>3, <2>4
<1>3. retry' \in (0..(MaxAttempts - 2)) \cup {None}
  BY DEF TypeOK, FailOver
<1> QED BY <1>1, <1>2, <1>3 DEF TypeOK, Fibs

LEMMA ExhaustedType ==
  ASSUME TypeOK, Exhausted
  PROVE  TypeOK'
<1>1. UNCHANGED <<inbox, admitted, stray, woken, declined, runs>>
  BY DEF Exhausted, End, Outside
<1>2. drain' \in Drain /\ (drain'.pc = "backoff" => drain'.attempt + 1 < MaxAttempts)
  BY EndType DEF TypeOK, Exhausted
<1>3. turn' \in Attempt
  BY EndType, OffType DEF TypeOK, Attempt, Whys, Exhausted
<1>4. fib' \in Fibs
  BY EndType DEF TypeOK, Fibs, Exhausted
<1>5. msg' \in Message
  BY MessageType DEF TypeOK, Exhausted
<1>6. retry' \in (0..(MaxAttempts - 2)) \cup {None} /\ spent' \in Nat
  BY EndType DEF TypeOK, Exhausted
<1> QED BY <1>1, <1>2, <1>3, <1>4, <1>5, <1>6 DEF TypeOK, Fibs

LEMMA FailTurnType ==
  ASSUME TypeOK, FailTurn
  PROVE  TypeOK'
<1>1. UNCHANGED <<fib, inbox, admitted, stray, retry, woken, declined, runs, spent>>
  BY DEF FailTurn, Goto, AfterOnly, Outside
<1>2. drain' \in Drain /\ (drain'.pc = "backoff" => drain'.attempt + 1 < MaxAttempts)
  BY GotoType DEF TypeOK, Places, FailTurn
<1>3. turn' \in Attempt
  BY DEF TypeOK, Attempt, Whys, FailTurn
<1>4. msg' \in Message
  BY MessageType DEF TypeOK, FailTurn
<1> QED BY <1>1, <1>2, <1>3, <1>4 DEF TypeOK, Fibs

LEMMA PassType ==
  ASSUME TypeOK, Pass
  PROVE  TypeOK'
<1>1. UNCHANGED <<turn, msg, inbox, admitted, stray, retry, woken, declined, runs, spent>>
  BY DEF Pass, Goto, AfterOnly, Outside
<1>2. drain' \in Drain /\ (drain'.pc = "backoff" => drain'.attempt + 1 < MaxAttempts)
  BY GotoType DEF TypeOK, Places, Pass
<1>3. fib' \in Fibs
  BY ClearedType DEF TypeOK, Fibs, Pass
<1> QED BY <1>1, <1>2, <1>3 DEF TypeOK, Fibs

LEMMA SettleType ==
  ASSUME TypeOK, Settle
  PROVE  TypeOK'
<1>1. UNCHANGED <<turn, fib, inbox, admitted, stray, retry, woken, declined, runs, spent>>
  BY DEF Settle, Goto, AfterOnly, Outside
<1>2. drain' \in Drain /\ (drain'.pc = "backoff" => drain'.attempt + 1 < MaxAttempts)
  BY GotoType DEF TypeOK, Places, Settle
<1>3. msg' \in Message
  <2>1. msg \in Message /\ (msg' = msg \/ msg' = Failing(msg, Calls))
    BY DEF TypeOK, Settle
  <2> QED BY <2>1, MessageType
<1> QED BY <1>1, <1>2, <1>3 DEF TypeOK, Fibs

LEMMA DeclineType ==
  ASSUME TypeOK, Decline
  PROVE  TypeOK'
<1>1. UNCHANGED <<msg, inbox, admitted, stray, retry, woken, declined, runs, spent>>
  BY DEF Decline, Goto, AfterOnly, Outside
<1>2. drain' \in Drain /\ (drain'.pc = "backoff" => drain'.attempt + 1 < MaxAttempts)
  BY GotoType DEF TypeOK, Places, Decline
<1>3. turn' \in Attempt
  BY DEF TypeOK, Attempt, Whys, Decline
<1>4. fib' \in Fibs
  BY ClearedType DEF TypeOK, Fibs, Decline
<1> QED BY <1>1, <1>2, <1>3, <1>4 DEF TypeOK, Fibs

LEMMA OverdueType ==
  ASSUME TypeOK, Overdue
  PROVE  TypeOK'
<1>1. UNCHANGED <<turn, msg, inbox, admitted, stray, retry, woken, declined, runs, spent>>
  BY DEF Overdue, Goto, AfterOnly, Outside
<1>2. drain' \in Drain /\ (drain'.pc = "backoff" => drain'.attempt + 1 < MaxAttempts)
  BY GotoType DEF TypeOK, Places, Overdue
<1>3. fib' \in Fibs
  BY ClearedType DEF TypeOK, Fibs, Overdue
<1> QED BY <1>1, <1>2, <1>3 DEF TypeOK, Fibs

LEMMA ClearDoneType ==
  ASSUME TypeOK, ClearDone
  PROVE  TypeOK'
<1>1. UNCHANGED <<inbox, admitted, stray, retry, woken, declined, runs>>
  BY DEF ClearDone, End, Goto, Outside
<1>2. drain' \in Drain /\ (drain'.pc = "backoff" => drain'.attempt + 1 < MaxAttempts)
  BY GotoType, EndType DEF TypeOK, Places, ClearDone
<1>3. turn' \in Attempt
  BY EndType, OffType DEF TypeOK, Attempt, Whys, ClearDone
<1>4. fib' \in Fibs
  BY EndType DEF TypeOK, Fibs, ClearDone
<1>5. msg' \in Message
  BY MessageType DEF TypeOK, ClearDone, Cut
<1>6. spent' \in Nat
  BY EndType DEF TypeOK, ClearDone
<1> QED BY <1>1, <1>2, <1>3, <1>4, <1>5, <1>6 DEF TypeOK, Fibs

LEMMA ConcludeType ==
  ASSUME TypeOK, Conclude
  PROVE  TypeOK'
<1>1. UNCHANGED <<inbox, admitted, stray, retry, woken, declined, runs>>
  BY DEF Conclude, End, Goto, Outside
<1>2. drain' \in Drain /\ (drain'.pc = "backoff" => drain'.attempt + 1 < MaxAttempts)
  BY GotoType, EndType DEF TypeOK, Places, Conclude
<1>3. turn' \in Attempt
  BY EndType, OffType DEF TypeOK, Attempt, Whys, Conclude
<1>4. fib' \in Fibs
  BY EndType DEF TypeOK, Fibs, Conclude, NoFibers
<1>5. msg' \in Message
  BY MessageType DEF TypeOK, Conclude
<1>6. spent' \in Nat
  BY EndType DEF TypeOK, Conclude
<1> QED BY <1>1, <1>2, <1>3, <1>4, <1>5, <1>6 DEF TypeOK, Fibs

LEMMA NextTurnType ==
  ASSUME TypeOK, NextTurn
  PROVE  TypeOK'
<1>1. UNCHANGED <<msg, inbox, admitted, stray, woken, declined, runs>>
  BY DEF NextTurn, End, Outside
<1>2. drain' \in Drain /\ (drain'.pc = "backoff" => drain'.attempt + 1 < MaxAttempts)
  <2> DEFINE n == turn.step + 1  k == IF turn.recovered THEN 1 ELSE drain.recov
  <2>1. /\ n \in Nat \ {0} /\ k \in 0..1 /\ 0 \in 0..(MaxAttempts - 1)
        /\ Primary \in Models /\ drain \in Drain /\ Off \in Drain
    BY OffType DEF TypeOK, Attempt, Drain, Models
  <2>2. \/ End("fail") \/ End("ok")
        \/ drain' = [drain EXCEPT !.pc = "turn", !.promo = "steer", !.step = n, !.attempt = 0,
                                  !.roomy = TRUE, !.model = Primary, !.recov = k]
        \/ drain' = [Off EXCEPT !.pc = "turn", !.promo = "queue"]
    BY DEF NextTurn
  <2> HIDE DEF n, k
  <2>3. ASSUME NEW d \in Drain, NEW step \in Nat \ {0}, NEW recov \in 0..1
        PROVE  [d EXCEPT !.pc = "turn", !.promo = "steer", !.step = step, !.attempt = 0,
                         !.roomy = TRUE, !.model = Primary, !.recov = recov]
                 \in {e \in Drain : e.pc = "turn"}
    BY <2>1 DEF Drain, Places
  <2>4. ASSUME NEW d \in Drain
        PROVE  [d EXCEPT !.pc = "turn", !.promo = "queue"] \in {e \in Drain : e.pc = "turn"}
    BY DEF Drain, Places
  <2>5. CASE drain' = [drain EXCEPT !.pc = "turn", !.promo = "steer", !.step = n, !.attempt = 0,
                                    !.roomy = TRUE, !.model = Primary, !.recov = k]
    <3>1. drain' \in {e \in Drain : e.pc = "turn"}
      BY <2>1, <2>3, <2>5
    <3> QED BY <3>1
  <2>6. CASE drain' = [Off EXCEPT !.pc = "turn", !.promo = "queue"]
    <3>1. drain' \in {e \in Drain : e.pc = "turn"}
      BY <2>1, <2>4, <2>6
    <3> QED BY <3>1
  <2> QED BY <2>2, <2>5, <2>6, EndType
<1>3. turn' \in Attempt
  BY EndType, OffType DEF TypeOK, Attempt, Whys, NextTurn
<1>4. fib' \in Fibs
  BY EndType DEF TypeOK, Fibs, NextTurn
<1>5. retry' \in (0..(MaxAttempts - 2)) \cup {None} /\ spent' \in Nat
  BY EndType DEF TypeOK, NextTurn
<1> QED BY <1>1, <1>2, <1>3, <1>4, <1>5 DEF TypeOK, Fibs

-----------------------------------------------------------------------------
(* The invariant, action by action: first what the step does to the parts    *)
(* that the invariant speaks of, then the invariant.                         *)

LEMMA IdleInv ==
  ASSUME drain'.pc = "idle", turn' = Fresh, fib' = NoFibers, spent' = 0
  PROVE  TurnInv'
<1>1. turn'.hosted = {} /\ ~turn'.recovered
  BY DEF Fresh
<1> QED BY <1>1 DEF NoFibers, TurnInv, EffectIsVisible, Workers, Live, LastStep,
         Quiet, Blank, InTurn,
                   Answered, Owed, Halting

(* Wherever the drain ends, it leaves no fiber and no locals. *)
LEMMA EndInv ==
  ASSUME NEW exit, End(exit)
  PROVE  TurnInv'
<1>1. drain'.pc = "idle"
  BY DEF End, Off
<1> QED BY <1>1, IdleInv DEF End

LEMMA PromptInv ==
  ASSUME TypeOK, TypeOK', TurnInv, NEW d \in {"steer", "queue"}, Prompt(d)
  PROVE  TurnInv'
<1>1. /\ UNCHANGED <<msg, stray, drain, turn, fib, spent, declined>>
  BY DEF TypeOK, Message, Drain, Attempt, Unsettled, Prompt, memory
<1> QED BY <1>1 DEF TypeOK, Message, Drain, Attempt, Unsettled, Whys, TurnInv,
         EffectIsVisible, Workers, Live, LastStep, Quiet, Blank, InTurn, Answered,
         Owed, Halting

LEMMA StartInv ==
  ASSUME TypeOK, TypeOK', TurnInv, NEW force \in BOOLEAN, Start(force)
  PROVE  TurnInv'
<1>1. CASE End("elapsed")
  BY <1>1, EndInv
<1>2. CASE drain'.pc = "guard" /\ declined' = FALSE /\ UNCHANGED <<turn, fib, spent>>
  <2>1. /\ drain.pc = "idle" /\ stray' = stray \ {"running"}
        /\ \A x \in Calls : msg'.tool[x] = IF msg.tool[x] = "running" THEN "settled" ELSE msg.tool[x]
    BY DEF Start, Failing, TypeOK, Message, Unsettled
  <2> QED BY <1>2, <2>1 DEF TypeOK, Message, Drain, Attempt, Unsettled, Whys, TurnInv,
           EffectIsVisible, Workers, Live, LastStep, Quiet, Blank, InTurn, Answered,
           Owed, Halting
<1> QED BY <1>1, <1>2 DEF Start, Off

LEMMA GuardInv ==
  ASSUME TypeOK, TypeOK', TurnInv, Guard
  PROVE  TurnInv'
<1>1. CASE End("ok")
  BY <1>1, EndInv
<1>2. CASE drain' = [drain EXCEPT !.pc = "turn", !.promo = Delivery, !.force = FALSE]
  <2>1. drain.pc = "guard" /\ drain'.pc = "turn"
    BY <1>2 DEF Guard, TypeOK, Drain
  <2>2. UNCHANGED <<turn, fib, spent, declined, msg, stray>>
    BY <1>2, <2>1 DEF Guard, durable, End, Off
  <2> QED BY <2>1, <2>2 DEF TypeOK, Message, Drain, Attempt, Unsettled, Whys, TurnInv,
           EffectIsVisible, Workers, Live, LastStep, Quiet, Blank, InTurn, Answered,
           Owed, Halting
<1> QED BY <1>1, <1>2 DEF Guard

LEMMA CrashInv ==
  ASSUME TypeOK, TypeOK', TurnInv, Crash
  PROVE  TurnInv'
<1>1. drain'.pc = "idle" /\ turn' = Fresh /\ fib' = NoFibers /\ spent' = 0
  BY DEF Crash, Off
<1> QED BY <1>1, IdleInv

LEMMA InterruptInv ==
  ASSUME TypeOK, TypeOK', TurnInv, Interrupt
  PROVE  TurnInv'
<1>1. UNCHANGED <<msg, stray>>
  BY DEF Interrupt, durable
<1>2. CASE End("interrupt")
  BY <1>2, EndInv
<1>3. CASE /\ drain.pc \in {"stream", "call"} /\ turn' = [turn EXCEPT !.why = "interrupt", !.call = None]
           /\ Goto("after") /\ UNCHANGED <<fib, spent, declined>>
  <2>1. drain'.pc = "after"
    BY <1>3 DEF Goto, TypeOK, Drain
  <2>2. /\ turn'.why = "interrupt" /\ turn'.call = None
        /\ UNCHANGED <<turn.out, turn.hosted, turn.recovered, turn.first, turn.step>>
    BY <1>3 DEF TypeOK, Attempt
  <2> QED BY <1>1, <1>3, <2>1, <2>2 DEF TypeOK, Message, Drain, Attempt, Unsettled,
           Whys, TurnInv, EffectIsVisible, Workers, Live, LastStep, Quiet, Blank,
           InTurn, Answered, Owed, Halting
<1>4. CASE /\ drain.pc = "settle" /\ turn' = [turn EXCEPT !.why = "interrupt"]
           /\ Goto("clear") /\ fib' = Cleared /\ UNCHANGED <<spent, declined>>
  <2>1. drain'.pc = "clear"
    BY <1>4 DEF Goto, TypeOK, Drain
  <2>2. /\ turn'.why = "interrupt"
        /\ UNCHANGED <<turn.out, turn.hosted, turn.recovered, turn.first, turn.step, turn.call>>
    BY <1>4 DEF TypeOK, Attempt
  <2> QED BY <1>1, <1>4, <2>1, <2>2 DEF TypeOK, Message, Drain, Attempt, Unsettled,
           Whys, TurnInv, EffectIsVisible, Workers, Live, LastStep, Quiet, Blank,
           InTurn, Answered, Owed, Halting, Cleared
<1> QED BY <1>2, <1>3, <1>4 DEF Interrupt

LEMMA PromoteInv ==
  ASSUME TypeOK, TypeOK', TurnInv, Promote
  PROVE  TurnInv'
<1>1. /\ drain.pc = "turn" /\ drain'.pc = "ready"
      /\ UNCHANGED <<msg, stray, fib, spent, declined>>
      /\ UNCHANGED <<turn.why, turn.out, turn.hosted, turn.recovered, turn.first, turn.call>>
  BY DEF TypeOK, Message, Drain, Attempt, Unsettled, Promote, Left, Outside
<1> QED BY <1>1 DEF TypeOK, Message, Drain, Attempt, Unsettled, Whys, TurnInv,
         EffectIsVisible, Workers, Live, LastStep, Quiet, Blank, InTurn, Answered,
         Owed, Halting

LEMMA DispatchInv ==
  ASSUME TypeOK, TypeOK', TurnInv, Dispatch
  PROVE  TurnInv'
<1>1. /\ drain.pc = "ready" /\ drain'.pc = "stream"
      /\ UNCHANGED <<fib, declined>>
      /\ spent' = spent + 1
      /\ stray' = stray \cup ({msg.tool[x] : x \in Calls} \cap Unsettled)
      /\ msg'.text = FALSE
      /\ \A x \in Calls : msg'.tool[x] = "none"
      /\ turn'.why = None
      /\ turn'.out = FALSE
      /\ turn'.hosted = {}
      /\ turn'.recovered = FALSE
      /\ turn'.first = None
      /\ turn'.call = None
      /\ UNCHANGED <<turn.step>>
  BY DEF TypeOK, Message, Drain, Attempt, Unsettled, Dispatch, NoTools, Fresh, Goto, Outside
<1> QED BY <1>1 DEF TypeOK, Message, Drain, Attempt, Unsettled, Whys, TurnInv,
         EffectIsVisible, Workers, Live, LastStep, Quiet, Blank, InTurn, Answered,
         Owed, Halting

LEMMA NoModelInv ==
  ASSUME TypeOK, TypeOK', TurnInv, NoModel
  PROVE  TurnInv'
  BY EndInv DEF NoModel

LEMMA TextInv ==
  ASSUME TypeOK, TypeOK', TurnInv, Text
  PROVE  TurnInv'
<1>1. /\ drain.pc = "stream"
      /\ UNCHANGED <<drain, fib, stray, spent, declined>>
      /\ msg'.tool = msg.tool
      /\ turn'.out = TRUE
      /\ UNCHANGED <<turn.why, turn.hosted, turn.recovered, turn.first, turn.call, turn.step>>
  BY DEF TypeOK, Message, Drain, Attempt, Unsettled, Text, Listening, StreamOnly, Outside
<1> QED BY <1>1 DEF TypeOK, Message, Drain, Attempt, Unsettled, Whys, TurnInv,
         EffectIsVisible, Workers, Live, LastStep, Quiet, Blank, InTurn, Answered,
         Owed, Halting

LEMMA ToolInputInv ==
  ASSUME TypeOK, TypeOK', TurnInv, NEW c \in Calls, ToolInput(c)
  PROVE  TurnInv'
<1>1. /\ drain.pc = "stream" /\ msg.tool[c] = "none"
      /\ UNCHANGED <<drain, fib, stray, spent, declined>>
      /\ \A x \in Calls : msg'.tool[x] = IF x = c THEN "pending" ELSE msg.tool[x]
      /\ turn'.out = TRUE
      /\ UNCHANGED <<turn.why, turn.hosted, turn.recovered, turn.first, turn.call, turn.step>>
  BY DEF TypeOK, Message, Drain, Attempt, Unsettled, ToolInput, Listening, StreamOnly,
       Outside
<1> QED BY <1>1 DEF TypeOK, Message, Drain, Attempt, Unsettled, Whys, TurnInv,
         EffectIsVisible, Workers, Live, LastStep, Quiet, Blank, InTurn, Answered,
         Owed, Halting

LEMMA ToolCallInv ==
  ASSUME TypeOK, TypeOK', TurnInv, NEW c \in Calls, NEW h \in BOOLEAN, ToolCall(c, h)
  PROVE  TurnInv'
<1>1. /\ drain.pc = "stream" /\ msg.tool[c] \in {"none", "pending"}
      /\ UNCHANGED <<fib, stray, spent, declined>>
      /\ \A x \in Calls : msg'.tool[x] = IF x = c THEN "running" ELSE msg.tool[x]
  BY DEF TypeOK, Message, ToolCall, Listening, StreamOnly, Outside
<1>2. CASE h
  <2>1. /\ drain' = drain /\ turn' = [turn EXCEPT !.out = TRUE, !.hosted = turn.hosted \cup {c}]
    BY <1>2 DEF ToolCall
  <2>2. /\ turn'.out /\ turn'.hosted = turn.hosted \cup {c} /\ turn'.recovered = turn.recovered
        /\ turn'.why = turn.why /\ turn'.first = turn.first /\ turn'.call = turn.call /\ turn'.step = turn.step
    BY <2>1 DEF TypeOK, Attempt
  <2> QED BY <1>1, <2>1, <2>2 DEF TypeOK, Message, Drain, Attempt, Unsettled, Whys,
           TurnInv, EffectIsVisible, Workers, Live, LastStep, Quiet, Blank, InTurn,
           Answered, Owed, Halting
<1>3. CASE ~h
  <2>1. /\ drain'.pc = "call" /\ turn' = [turn EXCEPT !.out = TRUE, !.call = c]
    BY <1>3 DEF ToolCall, Goto, TypeOK, Drain
  <2>2. /\ turn'.out /\ turn'.hosted = turn.hosted /\ turn'.recovered = turn.recovered
        /\ turn'.why = turn.why /\ turn'.first = turn.first /\ turn'.call = c /\ turn'.step = turn.step
    BY <2>1 DEF TypeOK, Attempt
  <2> QED BY <1>1, <2>1, <2>2 DEF TypeOK, Message, Drain, Attempt, Unsettled, Whys,
           TurnInv, EffectIsVisible, Workers, Live, LastStep, Quiet, Blank, InTurn,
           Answered, Owed, Halting
<1> QED BY <1>2, <1>3

LEMMA ForkInv ==
  ASSUME TypeOK, TypeOK', TurnInv, Fork
  PROVE  TurnInv'
<1>1. /\ drain.pc = "call" /\ drain'.pc = "stream" /\ UNCHANGED <<stray, spent, declined>>
  BY DEF TypeOK, Drain, Fork, Goto, StreamOnly, Outside
<1>2. turn' = [turn EXCEPT !.call = None] \/ turn' = [turn EXCEPT !.call = None, !.cont = TRUE]
  BY DEF Fork
<1>3. Kept(turn', turn) /\ turn'.call = None
  <2>1. ASSUME NEW t \in Attempt
        PROVE  /\ Kept([t EXCEPT !.call = None], t) /\ [t EXCEPT !.call = None].call = None
               /\ Kept([t EXCEPT !.call = None, !.cont = TRUE], t)
               /\ [t EXCEPT !.call = None, !.cont = TRUE].call = None
    BY DEF Attempt, Kept
  <2> QED BY <1>2, <2>1 DEF TypeOK
<1>4. CASE LastStep
  <2>1. /\ fib' = fib /\ msg'.text = msg.text
        /\ \A x \in Calls : msg'.tool[x] = IF msg.tool[x] \in Unsettled THEN "settled" ELSE msg.tool[x]
    BY <1>4 DEF TypeOK, Message, Fork, Failing
  <2> QED BY <1>1, <1>3, <1>4, <2>1 DEF TypeOK, Message, Drain, Attempt, Unsettled,
           Whys, TurnInv, EffectIsVisible, Workers, Live, LastStep, Quiet, Blank,
           InTurn, Answered, Owed, Halting, Kept
<1>5. CASE ~LastStep
  <2>1. msg' = msg /\ \A x \in Calls : fib'[x] = IF x = turn.call THEN "run" ELSE fib[x]
    BY <1>5 DEF TypeOK, Fork
  <2> QED BY <1>1, <1>3, <1>5, <2>1 DEF TypeOK, Message, Drain, Attempt, Unsettled,
           Whys, TurnInv, EffectIsVisible, Workers, Live, LastStep, Quiet, Blank,
           InTurn, Answered, Owed, Halting, Kept
<1> QED BY <1>4, <1>5

LEMMA HostedResultInv ==
  ASSUME TypeOK, TypeOK', TurnInv, NEW c \in Calls, HostedResult(c)
  PROVE  TurnInv'
<1>1. /\ drain.pc = "stream" /\ msg.tool[c] = "running" /\ c \in turn.hosted
      /\ UNCHANGED <<drain, fib, stray, spent, declined>>
      /\ msg'.text = msg.text
      /\ \A x \in Calls : msg'.tool[x] = IF x = c THEN "settled" ELSE msg.tool[x]
      /\ turn'.hosted = turn.hosted \ {c}
      /\ UNCHANGED <<turn.why, turn.out, turn.recovered, turn.first, turn.call, turn.step>>
  BY DEF TypeOK, Message, Drain, Attempt, Unsettled, HostedResult, Listening,
       StreamOnly, Outside
<1> QED BY <1>1 DEF TypeOK, Message, Drain, Attempt, Unsettled, Whys, TurnInv,
         EffectIsVisible, Workers, Live, LastStep, Quiet, Blank, InTurn, Answered,
         Owed, Halting

LEMMA StepFinishInv ==
  ASSUME TypeOK, TypeOK', TurnInv, StepFinish
  PROVE  TurnInv'
<1>1. /\ drain.pc = "stream"
      /\ UNCHANGED <<drain, msg, fib, stray, spent, declined>>
      /\ UNCHANGED <<turn.why, turn.out, turn.hosted, turn.recovered, turn.first, turn.call, turn.step>>
  BY DEF TypeOK, Message, Drain, Attempt, Unsettled, StepFinish, Listening,
       StreamOnly, Outside
<1> QED BY <1>1 DEF TypeOK, Message, Drain, Attempt, Unsettled, Whys, TurnInv,
         EffectIsVisible, Workers, Live, LastStep, Quiet, Blank, InTurn, Answered,
         Owed, Halting

LEMMA ProviderErrorInv ==
  ASSUME TypeOK, TypeOK', TurnInv, NEW o \in BOOLEAN, ProviderError(o)
  PROVE  TurnInv'
<1>1. /\ drain.pc = "stream" /\ UNCHANGED <<drain, fib, stray, spent, declined>>
      /\ msg'.tool = msg.tool /\ msg'.text = msg.text
  BY DEF TypeOK, Message, ProviderError, Closing, StreamOnly, Outside
<1>2. turn' = [turn EXCEPT !.over = TRUE] \/ turn' = [turn EXCEPT !.perr = TRUE, !.active = FALSE]
  BY DEF ProviderError
<1>3. Kept(turn', turn) /\ turn'.call = turn.call
  <2>1. turn \in Attempt
    BY DEF TypeOK
  <2>2. Kept(turn, turn)
    BY DEF Kept
  <2> QED BY <1>2, <2>1, <2>2, JudgeType
<1> QED BY <1>1, <1>3 DEF TypeOK, Message, Drain, Attempt, Unsettled, Whys, TurnInv,
         EffectIsVisible, Workers, Live, LastStep, Quiet, Blank, InTurn, Answered,
         Owed, Halting, Kept

LEMMA StreamEndsInv ==
  ASSUME TypeOK, TypeOK', TurnInv, NEW why \in Whys \ {"interrupt", "declined"}, StreamEnds(why)
  PROVE  TurnInv'
<1>1. /\ drain.pc \in {"stream", "call"} /\ drain'.pc = "after"
      /\ drain.pc = "call" => why = "watchdog"
      /\ why \in Whys \ {"interrupt", "declined"}
      /\ UNCHANGED <<msg, fib, stray, spent, declined>>
      /\ turn'.why = why
      /\ turn'.call = None
      /\ UNCHANGED <<turn.out, turn.hosted, turn.recovered, turn.first, turn.step>>
  BY DEF TypeOK, Message, Drain, Attempt, Unsettled, StreamEnds, Goto, StreamOnly, Outside
<1> QED BY <1>1 DEF TypeOK, Message, Drain, Attempt, Unsettled, Whys, TurnInv,
         EffectIsVisible, Workers, Live, LastStep, Quiet, Blank, InTurn, Answered,
         Owed, Halting

LEMMA ToolReturnsInv ==
  ASSUME TypeOK, TypeOK', TurnInv, NEW c \in Calls, ToolReturns(c)
  PROVE  TurnInv'
<1>1. /\ UNCHANGED <<drain, msg, turn, stray, spent, declined>>
      /\ fib[c] = "run" /\ \A x \in Calls : fib'[x] = IF x = c THEN "publish" ELSE fib[x]
  BY DEF TypeOK, Message, Drain, Attempt, Unsettled, ToolReturns, ToolOnly
<1> QED BY <1>1 DEF TypeOK, Message, Drain, Attempt, Unsettled, Whys, TurnInv,
         EffectIsVisible, Workers, Live, LastStep, Quiet, Blank, InTurn, Answered,
         Owed, Halting

LEMMA ToolSettlesInv ==
  ASSUME TypeOK, TypeOK', TurnInv, NEW c \in Calls, ToolSettles(c)
  PROVE  TurnInv'
<1>1. /\ UNCHANGED <<drain, turn, stray, spent, declined>>
      /\ msg'.text = msg.text
      /\ fib[c] = "publish" /\ \A x \in Calls : fib'[x] = IF x = c THEN "none" ELSE fib[x]
      /\ \A x \in Calls : msg'.tool[x] = IF x = c /\ msg.tool[x] = "running" THEN "settled" ELSE msg.tool[x]
  BY DEF TypeOK, Message, Drain, Attempt, Unsettled, ToolSettles, ToolOnly
<1> QED BY <1>1 DEF TypeOK, Message, Drain, Attempt, Unsettled, Whys, TurnInv,
         EffectIsVisible, Workers, Live, LastStep, Quiet, Blank, InTurn, Answered,
         Owed, Halting

LEMMA ToolFailsInv ==
  ASSUME TypeOK, TypeOK', TurnInv,
         NEW c \in Calls, NEW how \in {"failed", "declined"}, ToolFails(c, how)
  PROVE  TurnInv'
<1>1. /\ UNCHANGED <<drain, msg, stray, spent>> /\ fib[c] = "run"
      /\ \A x \in Calls : fib'[x] = IF x = c THEN how ELSE fib[x]
      /\ turn'.first = IF turn.first = None THEN how ELSE turn.first
      /\ UNCHANGED <<turn.out, turn.hosted, turn.recovered, turn.why, turn.call, turn.step>>
  BY DEF TypeOK, Attempt, ToolFails, ToolOnly
<1>2. declined' => declined \/ (how = "declined" /\ turn.first = None)
  BY DEF ToolFails
<1>3. EffectIsVisible' /\ Workers' /\ Quiet' /\ Blank' /\ Answered' /\ Owed'
  BY <1>1 DEF TypeOK, Message, Drain, Attempt, Unsettled, Whys, TurnInv,
       EffectIsVisible, Workers, Live, LastStep, Quiet, Blank, InTurn, Answered, Owed,
       Halting
<1>4. CASE declined' /\ ~declined
  <2>1. how = "declined" /\ turn.first = None
    BY <1>2, <1>4
  <2>2. Live(c) /\ None # "failed"
    BY <1>1 DEF Live
  <2>3. drain.pc \in {"stream", "call", "after", "judge", "settle", "clear", "conclude"}
    BY <2>2 DEF Live, TurnInv, EffectIsVisible
  <2>4. drain.pc # "clear"
    BY <1>1 DEF TurnInv, Workers
  <2>5. drain.pc # "conclude"
    BY <2>1, <2>2 DEF TurnInv, Workers
  <2>6. drain.pc \in InTurn
    BY <2>3 DEF InTurn
  <2>7. turn.out
    BY <1>1, <2>6 DEF TurnInv, Blank
  <2> QED BY <1>1, <1>3, <2>1, <2>3, <2>4, <2>5, <2>7 DEF TurnInv, Halting
<1>5. CASE declined
  BY <1>1, <1>5 DEF TypeOK, Message, Drain, Attempt, Unsettled, Whys, TurnInv,
       EffectIsVisible, Workers, Live, LastStep, Quiet, Blank, InTurn, Answered, Owed,
       Halting
<1> QED BY <1>3, <1>4, <1>5 DEF TurnInv, Halting

LEMMA AfterInv ==
  ASSUME TypeOK, TypeOK', TurnInv, After
  PROVE  TurnInv'
<1>1. /\ UNCHANGED <<fib, stray, spent, declined>>
      /\ msg'.tool = msg.tool /\ msg'.text = msg.text
      /\ drain.pc = "after" /\ ((drain'.pc = "shrink" /\ ~turn.out) \/ drain'.pc = "judge")
  BY DEF TypeOK, Message, Drain, After, Judge, Goto, Closing, AfterOnly, Outside, MayShrink
<1>2. turn' = turn \/ turn' = [turn EXCEPT !.perr = TRUE, !.active = FALSE]
  BY DEF After, Judge
<1>3. Kept(turn', turn) /\ turn'.call = turn.call
  <2>1. turn \in Attempt
    BY DEF TypeOK
  <2>2. Kept(turn, turn)
    BY DEF Kept
  <2> QED BY <1>2, <2>1, <2>2, JudgeType
<1> QED BY <1>1, <1>3 DEF TypeOK, Message, Drain, Attempt, Unsettled, Whys, TurnInv,
         EffectIsVisible, Workers, Live, LastStep, Quiet, Blank, InTurn, Answered,
         Owed, Halting, Kept

LEMMA ShrinkInv ==
  ASSUME TypeOK, TypeOK', TurnInv, NEW done \in BOOLEAN, Shrink(done)
  PROVE  TurnInv'
<1>1. /\ UNCHANGED <<fib, stray, spent, declined>> /\ drain.pc = "shrink"
      /\ drain'.pc \in {"turn", "judge"}
  <2>1. /\ UNCHANGED <<fib, stray, spent, declined>> /\ drain.pc = "shrink"
        /\ Goto("judge") \/ drain' = [drain EXCEPT !.pc = "turn", !.roomy = FALSE, !.step = turn.step]
    BY DEF Shrink, Judge, AfterOnly, Outside
  <2>2. drain' = [drain EXCEPT !.pc = "turn", !.roomy = FALSE, !.step = turn.step] => drain'.pc = "turn"
    BY DEF TypeOK, Drain
  <2>3. Goto("judge") => drain'.pc = "judge"
    BY DEF TypeOK, Drain, Goto
  <2> QED BY <2>1, <2>2, <2>3
<1>2. msg'.tool = msg.tool /\ msg'.text = msg.text
  BY DEF TypeOK, Message, Shrink, Judge, Closing
<1>3. turn' = turn \/ turn' = [turn EXCEPT !.perr = TRUE, !.active = FALSE]
  BY DEF Shrink, Judge
<1>4. Kept(turn', turn) /\ turn'.call = turn.call
  <2>1. turn \in Attempt
    BY DEF TypeOK
  <2>2. Kept(turn, turn)
    BY DEF Kept
  <2> QED BY <1>3, <2>1, <2>2, JudgeType
<1> QED BY <1>1, <1>2, <1>4 DEF TypeOK, Message, Drain, Attempt, Unsettled, Whys,
         TurnInv, EffectIsVisible, Workers, Live, LastStep, Quiet, Blank, InTurn,
         Answered, Owed, Halting, Kept

LEMMA RecoverInv ==
  ASSUME TypeOK, TypeOK', TurnInv, NEW c \in Calls, Recover(c)
  PROVE  TurnInv'
<1>1. /\ drain.pc = "judge" /\ drain'.pc = "settle" /\ msg.tool[c] = "pending" /\ turn.why = "arguments"
      /\ \A x \in Calls : msg.tool[x] # "running"
      /\ UNCHANGED <<fib, stray, spent, declined>>
      /\ \A x \in Calls : msg'.tool[x] = IF x = c THEN "settled" ELSE msg.tool[x]
      /\ turn'.recovered = TRUE
      /\ UNCHANGED <<turn.why, turn.out, turn.hosted, turn.first, turn.call, turn.step>>
  BY DEF TypeOK, Message, Drain, Attempt, Unsettled, Recover, Recovers, Failing, Goto,
       AfterOnly, Called, Outside
<1> QED BY <1>1 DEF TypeOK, Message, Drain, Attempt, Unsettled, Whys, TurnInv,
         EffectIsVisible, Workers, Live, LastStep, Quiet, Blank, InTurn, Answered,
         Owed, Halting

LEMMA RetryInv ==
  ASSUME TypeOK, TypeOK', TurnInv, Retry
  PROVE  TurnInv'
<1>1. /\ drain.pc = "judge" /\ ~turn.out /\ drain'.pc = "backoff"
      /\ UNCHANGED <<turn, fib, stray, spent, declined>>
      /\ msg'.tool = msg.tool /\ msg'.text = msg.text
      /\ turn.why \in {"retryable", "watchdog"}
  BY DEF TypeOK, Message, Drain, Attempt, Unsettled, Retry, MayRetry, FailsOver,
       Closing, Goto, AfterOnly, Redo, Outside
<1> QED BY <1>1 DEF TypeOK, Message, Drain, Attempt, Unsettled, Whys, TurnInv,
         EffectIsVisible, Workers, Live, LastStep, Quiet, Blank, InTurn, Answered,
         Owed, Halting

LEMMA BackoffInv ==
  ASSUME TypeOK, TypeOK', TurnInv, Backoff
  PROVE  TurnInv'
<1>1. /\ drain.pc = "backoff" /\ drain'.pc = "turn"
      /\ UNCHANGED <<turn, msg, fib, stray, spent, declined>>
  BY DEF TypeOK, Message, Drain, Attempt, Unsettled, Backoff, AfterOnly, Outside
<1> QED BY <1>1 DEF TypeOK, Message, Drain, Attempt, Unsettled, Whys, TurnInv,
         EffectIsVisible, Workers, Live, LastStep, Quiet, Blank, InTurn, Answered,
         Owed, Halting

LEMMA FailOverInv ==
  ASSUME TypeOK, TypeOK', TurnInv, NEW i \in 1..Len(Chain), FailOver(i)
  PROVE  TurnInv'
<1>1. /\ drain.pc = "judge" /\ ~turn.out /\ drain'.pc = "turn"
      /\ UNCHANGED <<turn, msg, fib, stray, spent, declined>>
      /\ turn.why \in {"retryable", "watchdog"}
  BY DEF TypeOK, Message, Drain, Attempt, Unsettled, FailOver, Redo, FailsOver,
       Untried, AfterOnly, Outside
<1> QED BY <1>1 DEF TypeOK, Message, Drain, Attempt, Unsettled, Whys, TurnInv,
         EffectIsVisible, Workers, Live, LastStep, Quiet, Blank, InTurn, Answered,
         Owed, Halting

LEMMA ExhaustedInv ==
  ASSUME TypeOK, TypeOK', TurnInv, Exhausted
  PROVE  TurnInv'
  BY EndInv DEF Exhausted

LEMMA FailTurnInv ==
  ASSUME TypeOK, TypeOK', TurnInv, FailTurn
  PROVE  TurnInv'
<1>1. /\ drain.pc = "judge" /\ drain'.pc = "settle"
      /\ UNCHANGED <<fib, stray, spent, declined>>
      /\ \A x \in Calls : msg'.tool[x] = msg.tool[x] \/ (x \in turn.hosted /\ msg'.tool[x] = "settled")
      /\ turn'.why = "fatal"
      /\ UNCHANGED <<turn.out, turn.hosted, turn.recovered, turn.first, turn.call, turn.step>>
  BY DEF TypeOK, Message, Drain, Attempt, Unsettled, FailTurn, LLMFailure, Recovers,
       Redo, FailsOver, Closing, Failing, Goto, AfterOnly, Called, Outside
<1> QED BY <1>1 DEF TypeOK, Message, Drain, Attempt, Unsettled, Whys, TurnInv,
         EffectIsVisible, Workers, Live, LastStep, Quiet, Blank, InTurn, Answered,
         Owed, Halting

LEMMA PassInv ==
  ASSUME TypeOK, TypeOK', TurnInv, Pass
  PROVE  TurnInv'
<1>1. drain.pc = "judge" /\ UNCHANGED <<turn, msg, stray, spent, declined>>
  BY DEF Pass, AfterOnly, Outside
<1>2. CASE turn.why = "ok"
  <2>1. drain'.pc = "settle" /\ fib' = fib
    BY <1>2 DEF Pass, Goto, TypeOK, Drain
  <2> QED BY <1>1, <2>1 DEF TypeOK, Message, Drain, Attempt, Unsettled, Whys, TurnInv,
           EffectIsVisible, Workers, Live, LastStep, Quiet, Blank, InTurn, Answered,
           Owed, Halting
<1>3. CASE turn.why # "ok"
  <2>1. turn.why = "interrupt" /\ drain'.pc = "clear" /\ fib' = Cleared
    BY <1>3 DEF Pass, Goto, TypeOK, Drain
  <2> QED BY <1>1, <2>1 DEF TypeOK, Message, Drain, Attempt, Unsettled, Whys, TurnInv,
           EffectIsVisible, Workers, Live, LastStep, Quiet, Blank, InTurn, Answered,
           Owed, Halting, Cleared
<1> QED BY <1>2, <1>3

LEMMA SettleInv ==
  ASSUME TypeOK, TypeOK', TurnInv, Settle
  PROVE  TurnInv'
<1>1. drain.pc = "settle" /\ drain'.pc = "conclude" /\ UNCHANGED <<turn, fib, stray, spent, declined>>
  BY DEF Settle, Goto, AfterOnly, Outside, TypeOK, Drain
<1>2. CASE turn.first = "failed" /\ msg' = Failing(msg, Calls)
  <2>1. \A x \in Calls : msg'.tool[x] = IF msg.tool[x] \in Unsettled THEN "settled" ELSE msg.tool[x]
    BY <1>2 DEF TypeOK, Message, Failing
  <2> QED BY <1>1, <1>2, <2>1 DEF TypeOK, Message, Drain, Attempt, Unsettled, Whys,
           TurnInv, EffectIsVisible, Workers, Live, LastStep, Quiet, Blank, InTurn,
           Answered, Owed, Halting
<1>3. CASE ~Running /\ turn.first = None /\ msg' = msg
  <2>1. \A x \in Calls : ~Live(x)
    BY <1>3 DEF Running, Live
  <2> QED BY <1>1, <1>3, <2>1 DEF TypeOK, Message, Drain, Attempt, Unsettled, Whys,
           TurnInv, EffectIsVisible, Workers, Live, LastStep, Quiet, Blank, InTurn,
           Answered, Owed, Halting
<1> QED BY <1>2, <1>3 DEF Settle

LEMMA DeclineInv ==
  ASSUME TypeOK, TypeOK', TurnInv, Decline
  PROVE  TurnInv'
<1>1. /\ drain.pc = "settle" /\ turn.first = "declined" /\ drain'.pc = "clear" /\ fib' = Cleared
      /\ UNCHANGED <<msg, stray, spent, declined>>
      /\ turn'.why = "declined"
      /\ UNCHANGED <<turn.out, turn.hosted, turn.recovered, turn.first, turn.call, turn.step>>
  BY DEF TypeOK, Message, Drain, Attempt, Unsettled, Decline, Goto, AfterOnly, Outside
<1> QED BY <1>1 DEF TypeOK, Message, Drain, Attempt, Unsettled, Whys, TurnInv,
         EffectIsVisible, Workers, Live, LastStep, Quiet, Blank, InTurn, Answered,
         Owed, Halting, Cleared

LEMMA OverdueInv ==
  ASSUME TypeOK, TypeOK', TurnInv, Overdue
  PROVE  TurnInv'
<1>1. /\ drain.pc = "settle" /\ turn.first = None /\ drain'.pc = "clear" /\ fib' = Cleared
      /\ UNCHANGED <<msg, stray, spent, declined, turn>>
  BY DEF TypeOK, Message, Drain, Attempt, Unsettled, Overdue, LLMFailure, Goto,
       AfterOnly, Outside
<1> QED BY <1>1 DEF TypeOK, Message, Drain, Attempt, Unsettled, Whys, TurnInv,
         EffectIsVisible, Workers, Live, LastStep, Quiet, Blank, InTurn, Answered,
         Owed, Halting, Cleared

LEMMA ClearDoneInv ==
  ASSUME TypeOK, TypeOK', TurnInv, ClearDone
  PROVE  TurnInv'
<1>1. CASE End("interrupt")
  BY <1>1, EndInv
<1>2. CASE /\ drain.pc = "clear" /\ ~Publishing /\ turn.why # "declined" /\ Goto("conclude")
           /\ UNCHANGED <<turn, fib, spent, declined, stray>>
           /\ msg' = IF turn.why = "interrupt" THEN Cut(msg) ELSE Failing(msg, Calls)
  <2>1. drain'.pc = "conclude"
    BY <1>2 DEF Goto, TypeOK, Drain
  <2>2. \A x \in Calls : msg'.tool[x] = IF msg.tool[x] \in Unsettled THEN "settled" ELSE msg.tool[x]
    BY <1>2 DEF Cut, Closing, Failing, TypeOK, Message
  <2>3. \A x \in Calls : ~Live(x)
    BY <1>2 DEF Publishing, Live, TurnInv, Workers
  <2> QED BY <1>2, <2>1, <2>2, <2>3 DEF TypeOK, Message, Drain, Attempt, Unsettled,
           Whys, TurnInv, EffectIsVisible, Workers, Live, LastStep, Quiet, Blank,
           InTurn, Answered, Owed, Halting
<1> QED BY <1>1, <1>2 DEF ClearDone

LEMMA ConcludeInv ==
  ASSUME TypeOK, TypeOK', TurnInv, Conclude
  PROVE  TurnInv'
<1>1. CASE End("interrupt")
  BY <1>1, EndInv
<1>2. CASE turn.why # "interrupt"
  <2>1. /\ drain.pc = "conclude" /\ drain'.pc = "next" /\ fib' = NoFibers
        /\ UNCHANGED <<spent, declined, stray>>
    BY <1>2 DEF Conclude, Goto, TypeOK, Drain
  <2>2. UNCHANGED <<turn.why, turn.out, turn.hosted, turn.recovered, turn.first, turn.step, turn.call>>
    BY <1>2 DEF Conclude, TypeOK, Attempt
  <2>3. \A x \in Calls :
          /\ msg'.tool[x] = msg.tool[x] \/ (msg.tool[x] \in Unsettled /\ msg'.tool[x] = "settled")
          /\ turn.why = "ok" /\ x \in turn.hosted => msg'.tool[x] # "running"
    BY DEF Conclude, Closing, Failing, TypeOK, Message, Unsettled
  <2> QED BY <1>2, <2>1, <2>2, <2>3 DEF TypeOK, Message, Drain, Attempt, Unsettled,
           Whys, TurnInv, EffectIsVisible, Workers, Live, LastStep, Quiet, Blank,
           InTurn, Answered, Owed, Halting, NoFibers
<1> QED BY <1>1, <1>2 DEF Conclude

LEMMA NextTurnInv ==
  ASSUME TypeOK, TypeOK', TurnInv, NextTurn
  PROVE  TurnInv'
<1>1. drain.pc = "next" /\ UNCHANGED <<msg, stray>>
  BY DEF NextTurn
<1>2. CASE \E exit \in {"ok", "fail"} : End(exit)
  BY <1>2, EndInv
<1>3. CASE /\ drain'.pc = "turn" /\ turn' = Fresh /\ spent' = 0 /\ UNCHANGED <<fib, declined>>
           /\ turn.why = "ok" \/ turn.recovered
  <2>1. turn'.hosted = {} /\ ~turn'.recovered /\ turn'.first = None
    BY <1>3 DEF Fresh
  <2> QED BY <1>1, <1>3, <2>1 DEF TypeOK, Message, Drain, Attempt, Unsettled, Whys,
           TurnInv, EffectIsVisible, Workers, Live, LastStep, Quiet, Blank, InTurn,
           Answered, Owed, Halting
<1>4. turn.why = "ok" \/ turn.recovered \/ End("fail")
  BY DEF NextTurn
<1>5. CASE /\ turn.why = "ok" \/ turn.recovered
           /\ turn' = Fresh /\ spent' = 0 /\ UNCHANGED <<fib, declined>>
           /\ drain' = [drain EXCEPT !.pc = "turn", !.promo = "steer", !.step = turn.step + 1,
                                     !.attempt = 0, !.roomy = TRUE, !.model = Primary,
                                     !.recov = IF turn.recovered THEN 1 ELSE drain.recov]
  <2>1. drain'.pc = "turn"
    BY <1>5 DEF TypeOK, Drain
  <2> QED BY <1>3, <1>5, <2>1
<1>6. CASE /\ turn.why = "ok" \/ turn.recovered
           /\ turn' = Fresh /\ spent' = 0 /\ UNCHANGED <<fib, declined>>
           /\ drain' = [Off EXCEPT !.pc = "turn", !.promo = "queue"]
  <2>1. drain'.pc = "turn"
    BY <1>6 DEF Off
  <2> QED BY <1>3, <1>6, <2>1
<1> QED BY <1>2, <1>4, <1>5, <1>6 DEF NextTurn

LEMMA InitInv == Init => TurnInv
<1>1. Init => /\ drain.pc = "idle" /\ fib = NoFibers /\ spent = 0 /\ stray = {} /\ ~declined
              /\ turn.hosted = {} /\ ~turn.recovered
  BY DEF Init, Off, Fresh
<1> QED BY <1>1 DEF NoFibers, TurnInv, EffectIsVisible, Workers, Live, LastStep, Quiet, Blank, InTurn,
                   Answered, Owed, Halting

LEMMA TurnStep ==
  ASSUME TypeOK, TurnInv, Turn
  PROVE  TypeOK' /\ TurnInv'
<1>1. CASE Guard
  BY <1>1, GuardType, GuardInv
<1>2. CASE Promote
  BY <1>2, PromoteType, PromoteInv
<1>3. CASE Dispatch
  BY <1>3, DispatchType, DispatchInv
<1>4. CASE Fork
  BY <1>4, ForkType, ForkInv
<1>5. CASE After
  BY <1>5, AfterType, AfterInv
<1>6. CASE Retry
  BY <1>6, RetryType, RetryInv
<1>7. CASE Backoff
  BY <1>7, BackoffType, BackoffInv
<1>8. CASE Exhausted
  BY <1>8, ExhaustedType, ExhaustedInv
<1>9. CASE FailTurn
  BY <1>9, FailTurnType, FailTurnInv
<1>10. CASE Pass
  BY <1>10, PassType, PassInv
<1>11. CASE Settle
  BY <1>11, SettleType, SettleInv
<1>12. CASE Decline
  BY <1>12, DeclineType, DeclineInv
<1>13. CASE ClearDone
  BY <1>13, ClearDoneType, ClearDoneInv
<1>14. CASE Conclude
  BY <1>14, ConcludeType, ConcludeInv
<1>15. CASE NextTurn
  BY <1>15, NextTurnType, NextTurnInv
<1>16. ASSUME NEW done \in BOOLEAN, Shrink(done) PROVE TypeOK' /\ TurnInv'
  BY <1>16, ShrinkType, ShrinkInv
<1>17. ASSUME NEW c \in Calls, Recover(c) PROVE TypeOK' /\ TurnInv'
  BY <1>17, RecoverType, RecoverInv
<1>18. ASSUME NEW i \in 1..Len(Chain), FailOver(i) PROVE TypeOK' /\ TurnInv'
  BY <1>18, FailOverType, FailOverInv
<1> QED BY <1>1, <1>2, <1>3, <1>4, <1>5, <1>6, <1>7, <1>8, <1>9, <1>10, <1>11,
           <1>12, <1>13, <1>14, <1>15, <1>16, <1>17, <1>18 DEF Turn

LEMMA StreamStep ==
  ASSUME TypeOK, TurnInv, Stream
  PROVE  TypeOK' /\ TurnInv'
<1>1. CASE Text
  BY <1>1, TextType, TextInv
<1>2. CASE StepFinish
  BY <1>2, StepFinishType, StepFinishInv
<1>3. ASSUME NEW o \in BOOLEAN, ProviderError(o) PROVE TypeOK' /\ TurnInv'
  BY <1>3, ProviderErrorType, ProviderErrorInv
<1>4. ASSUME NEW c \in Calls, ToolInput(c) PROVE TypeOK' /\ TurnInv'
  BY <1>4, ToolInputType, ToolInputInv
<1>5. ASSUME NEW c \in Calls, NEW h \in BOOLEAN, ToolCall(c, h) PROVE TypeOK' /\ TurnInv'
  BY <1>5, ToolCallType, ToolCallInv
<1>6. ASSUME NEW c \in Calls, HostedResult(c) PROVE TypeOK' /\ TurnInv'
  BY <1>6, HostedResultType, HostedResultInv
<1> QED BY <1>1, <1>2, <1>3, <1>4, <1>5, <1>6 DEF Stream

LEMMA ToolsStep ==
  ASSUME TypeOK, TurnInv, NEW c \in Calls, Tools(c)
  PROVE  TypeOK' /\ TurnInv'
<1>1. CASE ToolReturns(c)
  BY <1>1, ToolReturnsType, ToolReturnsInv
<1>2. CASE ToolSettles(c)
  BY <1>2, ToolSettlesType, ToolSettlesInv
<1>3. ASSUME NEW how \in {"failed", "declined"}, ToolFails(c, how) PROVE TypeOK' /\ TurnInv'
  BY <1>3, ToolFailsType, ToolFailsInv
<1> QED BY <1>1, <1>2, <1>3 DEF Tools

LEMMA SameStep ==
  ASSUME TypeOK, TurnInv, UNCHANGED vars
  PROVE  TypeOK' /\ TurnInv'
<1>1. UNCHANGED <<inbox, msg, stray, retry, woken, drain, turn, fib, spent, declined, admitted, runs>>
  BY DEF vars, durable, memory
<1>2. TypeOK'
  BY <1>1 DEF TypeOK
<1>3. TurnInv'
  BY <1>1 DEF TurnInv, EffectIsVisible, Workers, Live, LastStep, Quiet, Blank, Answered, Owed, Halting
<1> QED BY <1>2, <1>3

LEMMA StepInv == TypeOK /\ TurnInv /\ [Next]_vars => TypeOK' /\ TurnInv'
<1> SUFFICES ASSUME TypeOK, TurnInv, [Next]_vars PROVE TypeOK' /\ TurnInv'
  OBVIOUS
<1>1. ASSUME NEW d \in {"steer", "queue"}, Prompt(d) PROVE TypeOK' /\ TurnInv'
  BY <1>1, PromptType, PromptInv
<1>2. ASSUME NEW force \in BOOLEAN, Start(force) PROVE TypeOK' /\ TurnInv'
  BY <1>2, StartType, StartInv
<1>3. ASSUME NEW why \in Whys \ {"interrupt", "declined"}, StreamEnds(why) PROVE TypeOK' /\ TurnInv'
  BY <1>3, StreamEndsType, StreamEndsInv
<1>4. CASE NoModel
  BY <1>4, NoModelType, NoModelInv
<1>5. CASE Overdue
  BY <1>5, OverdueType, OverdueInv
<1>6. CASE Interrupt
  BY <1>6, InterruptType, InterruptInv
<1>7. CASE Crash
  BY <1>7, CrashType, CrashInv
<1>8. CASE StreamStops
  BY <1>3, <1>8 DEF StreamStops
<1>9. ASSUME NEW c \in Calls, Tools(c) PROVE TypeOK' /\ TurnInv'
  BY <1>9, ToolsStep
<1> QED BY <1>1, <1>2, <1>3, <1>4, <1>5, <1>6, <1>7, <1>8, <1>9, TurnStep,
           StreamStep, SameStep DEF Next

(* The invariant holds in every reachable state, for any calls, models, chain, *)
(* steps and bounds.                                                           *)
THEOREM TurnInvariance == Spec => [](TypeOK /\ TurnInv)
  BY InitType, InitInv, StepInv, PTL DEF Spec

(* The state of a drain stays typed: counters in range, a persisted attempt    *)
(* below the ceiling, calls of the message settled or not.                     *)
THEOREM TurnTypeCorrect == Spec => []TypeOK
  BY TurnInvariance, PTL

(* Tools execute only inside their turn and while their call is recorded as    *)
(* running, whichever way streams, failures, interrupts and crashes interleave. *)
THEOREM ToolsAreVisible == Spec => []EffectIsVisible
<1>1. TurnInv => EffectIsVisible
  BY DEF TurnInv
<1> QED BY <1>1, TurnInvariance, PTL

(* No provider is ever sent a call without a result or an error.               *)
THEOREM CallsAnswered == Spec => []AnsweredAtDispatch
<1>1. TurnInv => AnsweredAtDispatch
  BY DEF TurnInv, Answered, AnsweredAtDispatch
<1> QED BY <1>1, TurnInvariance, PTL

(* Retry, failover and compaction repeat only attempts that left no text and   *)
(* no call.                                                                    *)
THEOREM RepeatsAreBlank == Spec => RepeatsLeaveNothing
<1>1. ASSUME TypeOK, TurnInv
      PROVE  drain.pc = "ready" /\ spent > 0 => ~msg.text /\ msg.tool = NoTools
  BY <1>1 DEF TypeOK, Message, NoTools, TurnInv, Blank
<1>2. TypeOK /\ TurnInv /\ [Next]_vars =>
        [drain.pc = "ready" /\ drain'.pc = "stream" /\ spent > 0 => ~msg.text /\ msg.tool = NoTools]_vars
  BY <1>1
<1> QED BY <1>2, TurnInvariance, PTL DEF Spec, RepeatsLeaveNothing

(* After a decline that came first, nothing is dispatched in that drain.       *)
THEOREM DeclineEndsDrain == Spec => DeclineHalts
<1>1. TurnInv /\ drain.pc = "ready" => ~declined
  BY DEF TurnInv, Halting
<1>2. TypeOK /\ TurnInv /\ [Next]_vars =>
        [declined => ~(drain.pc = "ready" /\ drain'.pc = "stream")]_vars
  BY <1>1
<1> QED BY <1>2, TurnInvariance, PTL DEF Spec, DeclineHalts

-----------------------------------------------------------------------------
(* A drain that ends by itself leaves nothing admitted behind.               *)

(* What every step but two does: go on, end for another reason, or stand by. *)
Stays == drain'.pc # "idle" \/ drain'.exit # "ok" \/ UNCHANGED <<drain, inbox, woken>>

LEMMA EndStays ==
  ASSUME NEW exit, exit # "ok", End(exit)
  PROVE  Stays
<1>1. drain'.exit = exit
  BY DEF End, Off
<1> QED BY <1>1 DEF Stays

LEMMA TurnStays ==
  ASSUME TypeOK, Turn
  PROVE  Stays \/ Guard \/ NextTurn
<1>1. CASE Promote
  BY <1>1 DEF Promote, Goto, Stays, TypeOK, Drain
<1>2. CASE Dispatch
  BY <1>2 DEF Dispatch, Goto, Stays, TypeOK, Drain
<1>3. CASE Fork
  BY <1>3 DEF Fork, Goto, Stays, TypeOK, Drain
<1>4. CASE After
  BY <1>4 DEF After, Judge, Goto, Stays, TypeOK, Drain
<1>5. CASE Retry
  BY <1>5 DEF Retry, Goto, Stays, TypeOK, Drain
<1>6. CASE Backoff
  BY <1>6 DEF Backoff, Goto, Stays, TypeOK, Drain
<1>7. CASE Exhausted
  BY <1>7, EndStays DEF Exhausted
<1>8. CASE FailTurn
  BY <1>8 DEF FailTurn, Goto, Stays, TypeOK, Drain
<1>9. CASE Pass
  BY <1>9 DEF Pass, Goto, Stays, TypeOK, Drain
<1>10. CASE Settle
  BY <1>10 DEF Settle, Goto, Stays, TypeOK, Drain
<1>11. CASE Decline
  BY <1>11 DEF Decline, Goto, Stays, TypeOK, Drain
<1>12. CASE ClearDone
  BY <1>12, EndStays DEF ClearDone, Goto, Stays, TypeOK, Drain
<1>13. CASE Conclude
  BY <1>13, EndStays DEF Conclude, Goto, Stays, TypeOK, Drain
<1>14. ASSUME NEW done \in BOOLEAN, Shrink(done) PROVE Stays
  BY <1>14 DEF Shrink, Judge, Goto, Stays, TypeOK, Drain
<1>15. ASSUME NEW c \in Calls, Recover(c) PROVE Stays
  BY <1>15 DEF Recover, Goto, Stays, TypeOK, Drain
<1>16. ASSUME NEW i \in 1..Len(Chain), FailOver(i) PROVE Stays
  BY <1>16 DEF FailOver, Goto, Stays, TypeOK, Drain
<1> QED BY <1>1, <1>2, <1>3, <1>4, <1>5, <1>6, <1>7, <1>8, <1>9, <1>10, <1>11,
           <1>12, <1>13, <1>14, <1>15, <1>16 DEF Turn

LEMMA StreamStays ==
  ASSUME TypeOK, Stream
  PROVE  Stays
<1>1. CASE Text
  BY <1>1 DEF Text, StreamOnly, Outside, Goto, Stays, TypeOK, Drain
<1>2. CASE StepFinish
  BY <1>2 DEF StepFinish, StreamOnly, Outside, Goto, Stays, TypeOK, Drain
<1>3. ASSUME NEW o \in BOOLEAN, ProviderError(o) PROVE Stays
  BY <1>3 DEF ProviderError, StreamOnly, Outside, Goto, Stays, TypeOK, Drain
<1>4. ASSUME NEW c \in Calls, ToolInput(c) PROVE Stays
  BY <1>4 DEF ToolInput, StreamOnly, Outside, Goto, Stays, TypeOK, Drain
<1>5. ASSUME NEW c \in Calls, NEW h \in BOOLEAN, ToolCall(c, h) PROVE Stays
  BY <1>5 DEF ToolCall, StreamOnly, Outside, Goto, Stays, TypeOK, Drain
<1>6. ASSUME NEW c \in Calls, HostedResult(c) PROVE Stays
  BY <1>6 DEF HostedResult, StreamOnly, Outside, Goto, Stays, TypeOK, Drain
<1> QED BY <1>1, <1>2, <1>3, <1>4, <1>5, <1>6 DEF Stream

LEMMA ToolsStays ==
  ASSUME TypeOK, NEW c \in Calls, Tools(c)
  PROVE  Stays
  BY DEF Tools, ToolReturns, ToolSettles, ToolFails, ToolOnly, Stays

LEMMA Emptied == TypeOK /\ inbox.steer = 0 /\ inbox.queue = 0 => inbox = [steer |-> 0, queue |-> 0]
  BY DEF TypeOK

LEMMA ServedStep == TypeOK /\ InboxServed /\ [Next]_vars => InboxServed'
<1> SUFFICES ASSUME TypeOK, InboxServed, [Next]_vars PROVE InboxServed'
  OBVIOUS
<1>1. CASE Stays
  BY <1>1 DEF Stays, InboxServed
<1>2. CASE UNCHANGED vars
  BY <1>2 DEF vars, durable, memory, InboxServed
<1>3. ASSUME NEW d \in {"steer", "queue"}, Prompt(d) PROVE InboxServed'
  BY <1>3 DEF Prompt, InboxServed
<1>4. ASSUME NEW force \in BOOLEAN, Start(force) PROVE Stays
  <2>1. CASE End("elapsed")
    BY <2>1, EndStays
  <2>2. ASSUME NEW n, drain' = [Off EXCEPT !.pc = "guard", !.force = force, !.attempt = n] PROVE Stays
    BY <2>2 DEF Off, Stays
  <2> QED BY <1>4, <2>1, <2>2 DEF Start
<1>5. CASE Guard
  <2>1. CASE drain' = [drain EXCEPT !.pc = "turn", !.promo = Delivery, !.force = FALSE]
    BY <2>1 DEF TypeOK, Drain, InboxServed
  <2>2. CASE Delivery = None
    <3>1. inbox.steer = 0 /\ inbox.queue = 0
      BY <2>2 DEF Delivery, TypeOK
    <3> QED BY <1>5, <3>1, Emptied DEF Guard, durable, InboxServed
  <2> QED BY <1>5, <2>1, <2>2 DEF Guard
<1>6. CASE NextTurn
  <2>1. inbox' = inbox
    BY <1>6 DEF NextTurn
  <2>2. CASE inbox.steer > 0 \/ inbox.queue > 0 \/ turn.cont \/ End("fail")
    <3>1. CASE End("fail")
      BY <3>1, EndStays, <1>1
    <3>2. CASE drain' = [drain EXCEPT !.pc = "turn", !.promo = "steer", !.step = turn.step + 1,
                                     !.attempt = 0, !.roomy = TRUE, !.model = Primary,
                                     !.recov = IF turn.recovered THEN 1 ELSE drain.recov]
      BY <3>2 DEF TypeOK, Drain, InboxServed
    <3>3. CASE drain' = [Off EXCEPT !.pc = "turn", !.promo = "queue"]
      BY <3>3 DEF Off, InboxServed
    <3> QED BY <1>6, <2>2, <3>1, <3>2, <3>3 DEF NextTurn
  <2>3. CASE ~(inbox.steer > 0 \/ inbox.queue > 0)
    <3>1. inbox.steer = 0 /\ inbox.queue = 0
      BY <2>3 DEF TypeOK
    <3> QED BY <2>1, <3>1, Emptied DEF InboxServed
  <2> QED BY <2>2, <2>3
<1>7. CASE NoModel
  BY <1>1, <1>7, EndStays DEF NoModel
<1>8. CASE Interrupt
  BY <1>1, <1>8, EndStays DEF Interrupt, Goto, Stays, TypeOK, Drain
<1>9. CASE Crash
  BY <1>1, <1>9 DEF Crash, Off, Stays
<1>10. CASE StreamStops
  BY <1>1, <1>10 DEF StreamStops, StreamEnds, Goto, Stays, TypeOK, Drain
<1>11. CASE Overdue
  BY <1>1, <1>11 DEF Overdue, Goto, Stays, TypeOK, Drain
<1> QED BY <1>1, <1>2, <1>3, <1>4, <1>5, <1>6, <1>7, <1>8, <1>9, <1>10, <1>11,
           TurnStays, StreamStays, ToolsStays DEF Next

(* A drain that ends by itself has promoted every admitted input, or a wake    *)
(* that came meanwhile will start another.                                     *)
THEOREM InboxIsServed == Spec => []InboxServed
<1>1. Init => InboxServed
  BY DEF Init, InboxServed
<1> QED BY <1>1, ServedStep, TurnTypeCorrect, PTL DEF Spec

-----------------------------------------------------------------------------
(* Attempts are used up.                                                     *)

LEMMA UntriedCount ==
  ASSUME NEW A
  PROVE  /\ IsFiniteSet(Entries \ A)
         /\ Cardinality(Entries \ A) \in Nat /\ Cardinality(Entries \ A) <= Len(Chain)
<1>1. Len(Chain) \in Nat /\ Chain \in Surjection(1..Len(Chain), Entries)
  BY ChainAssumption DEF Surjection, Entries
<1>2. IsFiniteSet(1..Len(Chain)) /\ Cardinality(1..Len(Chain)) = Len(Chain)
  BY <1>1, FS_Interval
<1>3. IsFiniteSet(Entries) /\ Cardinality(Entries) <= Len(Chain)
  BY <1>1, <1>2, FS_Surjection
<1>4. IsFiniteSet(Entries \ A) /\ Cardinality(Entries \ A) <= Cardinality(Entries)
  <2>1. (Entries \ A) \in SUBSET Entries
    OBVIOUS
  <2> QED BY <1>3, <2>1, FS_Subset
<1>5. Cardinality(Entries \ A) \in Nat /\ Cardinality(Entries) \in Nat
  BY <1>3, <1>4, FS_CardinalityType
<1> QED BY <1>1, <1>3, <1>4, <1>5

LEMMA UntriedShrinks ==
  ASSUME NEW A, NEW B, A \subseteq B, NEW m \in Entries, m \in B, m \notin A
  PROVE  Cardinality(Entries \ B) + 1 <= Cardinality(Entries \ A)
<1> DEFINE Smaller == (Entries \ A) \ {m}
<1>1. IsFiniteSet(Smaller) /\ Cardinality(Smaller) = Cardinality(Entries \ A) - 1
  <2>1. IsFiniteSet(Entries \ A) /\ m \in Entries \ A
    BY UntriedCount
  <2> QED BY <2>1, FS_RemoveElement
<1>2. (Entries \ B) \in SUBSET Smaller
  OBVIOUS
<1>3. Cardinality(Entries \ B) <= Cardinality(Smaller)
  BY <1>1, <1>2, FS_Subset
<1>4. Cardinality(Entries \ A) \in Nat
  BY UntriedCount
<1>5. Cardinality(Entries \ B) \in Nat
  BY UntriedCount
<1> HIDE DEF Smaller
<1> QED BY <1>1, <1>3, <1>4, <1>5

LEMMA Times ==
  ASSUME NEW v \in Nat, NEW w \in Nat, NEW n \in Nat, w <= v
  PROVE  /\ w * n \in Nat /\ v * n \in Nat /\ w * n <= v * n
         /\ (w + 1) * n = w * n + n
<1>1. w * n \in Nat /\ v * n \in Nat /\ (w + 1) * n = w * n + n
  OBVIOUS
<1>2. PICK d \in Nat : v = w + d
  <2>1. v - w \in Nat /\ v = w + (v - w)
    OBVIOUS
  <2> QED BY <2>1
<1>3. v * n = w * n + d * n /\ d * n \in Nat
  BY <1>2
<1> QED BY <1>1, <1>3

LEMMA LeftProduct ==
  ASSUME NEW A
  PROVE  Cardinality(Entries \ A) * MaxAttempts \in Nat
<1>1. Cardinality(Entries \ A) \in Nat
  BY UntriedCount
<1> QED BY <1>1, Times

LEMMA LeftRange ==
  ASSUME NEW d \in Drain
  PROVE  /\ AttemptsLeft(d) \in Nat /\ 1 <= AttemptsLeft(d)
         /\ AttemptsLeft(d) <= (Len(Chain) + 1) * MaxAttempts + 1
         /\ (Len(Chain) + 1) * MaxAttempts \in Nat
<1> DEFINE v == Len(Chain)
           w == Cardinality(Entries \ d.used)
<1>1. v \in Nat /\ w \in Nat /\ w <= v
  <2>1. v \in Nat
    BY ChainAssumption
  <2>2. w \in Nat /\ w <= v
    BY UntriedCount
  <2> QED BY <2>1, <2>2
<1>2. d.attempt \in 0..(MaxAttempts - 1) /\ d.roomy \in BOOLEAN
  BY DEF Drain
<1>3. AttemptsLeft(d) = w * MaxAttempts + (MaxAttempts - d.attempt) + (IF d.roomy THEN 1 ELSE 0)
  BY DEF AttemptsLeft
<1> HIDE DEF v, w
<1>4. /\ w * MaxAttempts \in Nat /\ v * MaxAttempts \in Nat /\ w * MaxAttempts <= v * MaxAttempts
      /\ (v + 1) * MaxAttempts = v * MaxAttempts + MaxAttempts
  BY <1>1, Times
<1>5. /\ AttemptsLeft(d) \in Nat /\ 1 <= AttemptsLeft(d)
      /\ AttemptsLeft(d) <= (v + 1) * MaxAttempts + 1 /\ (v + 1) * MaxAttempts \in Nat
  BY <1>2, <1>3, <1>4
<1> QED BY <1>5 DEF v

(* Another entry of the chain costs all attempts on one model, of which at     *)
(* least one was left.                                                         *)
LEMMA LeftFalls ==
  ASSUME NEW d \in Drain, NEW e \in Drain, NEW m \in Entries, d.used \subseteq e.used,
         m \in e.used, m \notin d.used, e.attempt = 0, e.roomy = d.roomy
  PROVE  AttemptsLeft(e) + 1 <= AttemptsLeft(d)
<1> DEFINE v == Cardinality(Entries \ d.used)
           w == Cardinality(Entries \ e.used)
<1>1. v \in Nat /\ w \in Nat /\ w + 1 <= v
  BY UntriedCount, UntriedShrinks
<1>2. d.attempt \in 0..(MaxAttempts - 1) /\ d.roomy \in BOOLEAN
  BY DEF Drain
<1>3. /\ AttemptsLeft(d) = v * MaxAttempts + (MaxAttempts - d.attempt) + (IF d.roomy THEN 1 ELSE 0)
      /\ AttemptsLeft(e) = w * MaxAttempts + MaxAttempts + (IF d.roomy THEN 1 ELSE 0)
  BY DEF AttemptsLeft
<1> HIDE DEF v, w
<1>4. /\ w * MaxAttempts \in Nat /\ v * MaxAttempts \in Nat
      /\ w * MaxAttempts + MaxAttempts <= v * MaxAttempts
  BY <1>1, Times
<1> QED BY <1>2, <1>3, <1>4

(* What most steps do to the budget: nothing. *)
Frugal ==
  /\ spent' = spent /\ drain'.used = drain.used /\ drain'.attempt = drain.attempt
  /\ drain'.roomy = drain.roomy /\ (Sent => Sent')
  /\ drain'.pc = "shrink" => drain'.roomy

(* And what the others do: a new turn, or an end. *)
Anew == spent' = 0 /\ drain'.pc # "shrink"

LEMMA KeptBudget ==
  ASSUME TypeOK, TypeOK', Budget, Frugal \/ Anew
  PROVE  Budget'
<1> DEFINE b == (Len(Chain) + 1) * MaxAttempts
<1>1. drain \in Drain /\ drain' \in Drain /\ spent \in Nat
  BY DEF TypeOK
<1>2. b \in Nat /\ AttemptsLeft(drain) \in Nat /\ AttemptsLeft(drain') \in Nat /\ AttemptsLeft(drain') <= b + 1
  BY <1>1, LeftRange
<1>3. CASE Frugal
  <2>1. AttemptsLeft(drain') = AttemptsLeft(drain)
    BY <1>3 DEF Frugal, AttemptsLeft
  <2> HIDE DEF b
  <2>2. spent + AttemptsLeft(drain) <= b + 1 + (IF Sent THEN 1 ELSE 0)
    BY DEF Budget, b
  <2>3. spent' + AttemptsLeft(drain') <= b + 1 + (IF Sent' THEN 1 ELSE 0)
    BY <1>1, <1>2, <1>3, <2>1, <2>2 DEF Frugal
  <2> QED BY <1>3, <2>3 DEF Frugal, Budget, b
<1>4. CASE Anew
  <2> HIDE DEF b
  <2>1. spent' + AttemptsLeft(drain') <= b + 1 + (IF Sent' THEN 1 ELSE 0)
    BY <1>2, <1>4 DEF Anew
  <2> QED BY <1>4, <2>1 DEF Anew, Budget, b
<1> QED BY <1>3, <1>4

(* A dispatch, and what follows one that is repeated. *)
Paid ==
  /\ drain'.pc # "shrink"
  /\ \/ ~Sent /\ Sent' /\ spent' = spent + 1 /\ AttemptsLeft(drain') = AttemptsLeft(drain)
     \/ Sent /\ spent' = spent /\ AttemptsLeft(drain') + 1 <= AttemptsLeft(drain)

LEMMA PaidBudget ==
  ASSUME TypeOK, TypeOK', Budget, Paid
  PROVE  Budget'
<1> DEFINE b == (Len(Chain) + 1) * MaxAttempts
<1>1. drain \in Drain /\ drain' \in Drain /\ spent \in Nat
  BY DEF TypeOK
<1>2. b \in Nat /\ AttemptsLeft(drain) \in Nat /\ AttemptsLeft(drain') \in Nat
  BY <1>1, LeftRange
<1>3. spent + AttemptsLeft(drain) <= b + 1 + (IF Sent THEN 1 ELSE 0)
  BY DEF Budget
<1> HIDE DEF b
<1>4. spent' + AttemptsLeft(drain') <= b + 1 + (IF Sent' THEN 1 ELSE 0)
  BY <1>1, <1>2, <1>3 DEF Paid
<1> QED BY <1>4 DEF Budget, b, Paid

LEMMA EndAnew ==
  ASSUME NEW exit, End(exit)
  PROVE  Anew
  BY DEF End, Off, Anew

LEMMA TurnBudget ==
  ASSUME TypeOK, TypeOK', Budget, Turn
  PROVE  Frugal \/ Anew \/ Paid
<1>0. ASSUME NEW pc \in Places, Goto(pc) PROVE
        /\ drain'.pc = pc /\ drain'.used = drain.used /\ drain'.attempt = drain.attempt
        /\ drain'.roomy = drain.roomy
  BY <1>0 DEF Goto, TypeOK, Drain
<1>1. CASE Guard
  <2>1. ASSUME drain.pc = "guard", spent' = spent, drain' = [drain EXCEPT !.pc = "turn", !.promo = Delivery, !.force = FALSE]
        PROVE Frugal
    BY <2>1 DEF TypeOK, Drain, Frugal, Sent
  <2> QED BY <1>1, <2>1, EndAnew DEF Guard
<1>2. CASE Promote
  BY <1>2 DEF Promote, TypeOK, Drain, Frugal, Sent
<1>3. CASE Dispatch
  <2>1. /\ drain.pc = "ready" /\ drain'.pc = "stream" /\ spent' = spent + 1
        /\ drain'.used = drain.used /\ drain'.attempt = drain.attempt /\ drain'.roomy = drain.roomy
    BY <1>0, <1>3 DEF Dispatch, Places
  <2>2. AttemptsLeft(drain') = AttemptsLeft(drain)
    BY <2>1 DEF AttemptsLeft
  <2> QED BY <2>1, <2>2 DEF Sent, Paid
<1>4. CASE Fork
  BY <1>0, <1>4 DEF Fork, StreamOnly, Places, Frugal, Sent
<1>5. CASE After
  BY <1>0, <1>5 DEF After, Judge, MayShrink, Places, Frugal, Sent
<1>6. CASE Retry
  BY <1>0, <1>6 DEF Retry, MayRetry, Redo, Places, Frugal, Sent
<1>7. CASE Backoff
  <2>1. /\ drain.pc = "backoff" /\ drain'.pc = "turn" /\ spent' = spent /\ drain'.used = drain.used
        /\ drain'.attempt = drain.attempt + 1 /\ drain'.roomy = drain.roomy
    BY <1>7 DEF Backoff, TypeOK, Drain
  <2>2. AttemptsLeft(drain') + 1 = AttemptsLeft(drain)
    <3> DEFINE w == Cardinality(Entries \ drain.used) * MaxAttempts
    <3>1. w \in Nat
      BY LeftProduct
    <3>2. drain.attempt \in Nat /\ drain.roomy \in BOOLEAN
      BY DEF TypeOK, Drain
    <3>3. /\ AttemptsLeft(drain) = w + (MaxAttempts - drain.attempt) + (IF drain.roomy THEN 1 ELSE 0)
          /\ AttemptsLeft(drain') = w + (MaxAttempts - (drain.attempt + 1)) + (IF drain.roomy THEN 1 ELSE 0)
      BY <2>1 DEF AttemptsLeft
    <3> HIDE DEF w
    <3> QED BY <3>1, <3>2, <3>3
  <2>3. AttemptsLeft(drain') + 1 <= AttemptsLeft(drain)
    BY <2>2, LeftRange DEF TypeOK
  <2> QED BY <2>1, <2>3 DEF Sent, Paid
<1>8. CASE Exhausted
  BY <1>8, EndAnew DEF Exhausted
<1>9. CASE FailTurn
  BY <1>0, <1>9 DEF FailTurn, AfterOnly, Places, Frugal, Sent
<1>10. CASE Pass
  BY <1>0, <1>10 DEF Pass, Places, Frugal, Sent
<1>11. CASE Settle
  BY <1>0, <1>11 DEF Settle, Places, Frugal, Sent
<1>12. CASE Decline
  BY <1>0, <1>12 DEF Decline, Places, Frugal, Sent
<1>13. CASE ClearDone
  BY <1>0, <1>13, EndAnew DEF ClearDone, Places, Frugal, Sent
<1>14. CASE Conclude
  BY <1>0, <1>14, EndAnew DEF Conclude, Places, Frugal, Sent
<1>15. CASE NextTurn
  <2>1. CASE drain' = [drain EXCEPT !.pc = "turn", !.promo = "steer", !.step = turn.step + 1,
                                    !.attempt = 0, !.roomy = TRUE, !.model = Primary,
                                    !.recov = IF turn.recovered THEN 1 ELSE drain.recov]
             /\ spent' = 0
    BY <2>1 DEF TypeOK, Drain, Anew
  <2>2. CASE drain' = [Off EXCEPT !.pc = "turn", !.promo = "queue"] /\ spent' = 0
    BY <2>2 DEF Off, Anew
  <2> QED BY <1>15, <2>1, <2>2, EndAnew DEF NextTurn
<1>16. ASSUME NEW done \in BOOLEAN, Shrink(done) PROVE Frugal \/ Paid
  <2>1. CASE done
    <3>1. drain.pc = "shrink" /\ drain.roomy
      BY <1>16 DEF Shrink, Budget
    <3>2. /\ drain'.pc = "turn" /\ spent' = spent /\ drain'.used = drain.used
          /\ drain'.attempt = drain.attempt /\ drain'.roomy = FALSE
      <4>1. drain' = [drain EXCEPT !.pc = "turn", !.roomy = FALSE, !.step = turn.step] /\ spent' = spent
        BY <1>16, <2>1 DEF Shrink
      <4> QED BY <4>1 DEF TypeOK, Drain
    <3>3. AttemptsLeft(drain') + 1 = AttemptsLeft(drain)
      <4> DEFINE w == Cardinality(Entries \ drain.used) * MaxAttempts
      <4>1. w \in Nat
        BY LeftProduct
      <4>2. drain.attempt \in Nat
        BY DEF TypeOK, Drain
      <4>3. /\ AttemptsLeft(drain) = w + (MaxAttempts - drain.attempt) + 1
            /\ AttemptsLeft(drain') = w + (MaxAttempts - drain.attempt) + 0
        BY <3>1, <3>2 DEF AttemptsLeft
      <4> HIDE DEF w
      <4> QED BY <4>1, <4>2, <4>3
    <3>4. AttemptsLeft(drain') + 1 <= AttemptsLeft(drain)
      BY <3>3, LeftRange DEF TypeOK
    <3> QED BY <3>1, <3>2, <3>4 DEF Sent, Paid
  <2>2. CASE ~done
    BY <1>0, <1>16, <2>2 DEF Shrink, Judge, Places, Frugal, Sent
  <2> QED BY <2>1, <2>2
<1>17. ASSUME NEW c \in Calls, Recover(c) PROVE Frugal
  BY <1>0, <1>17 DEF Recover, Places, Frugal, Sent
<1>18. ASSUME NEW i \in 1..Len(Chain), FailOver(i) PROVE Paid
  <2>1. /\ drain.pc = "judge" /\ drain'.pc = "turn" /\ spent' = spent
        /\ drain'.attempt = 0 /\ drain'.roomy = drain.roomy
    BY <1>18 DEF FailOver, Redo, TypeOK, Drain
  <2>2. drain'.used = drain.used \cup {m \in {Chain[j] : j \in 1..i} : Untried(m)}
    BY <1>18 DEF FailOver, TypeOK, Drain
  <2>3. Chain[i] \in {m \in {Chain[j] : j \in 1..i} : Untried(m)} /\ Chain[i] \notin drain.used
    BY <1>18, ChainAssumption DEF FailOver, Untried
  <2>4. AttemptsLeft(drain') + 1 <= AttemptsLeft(drain)
    <3>1. drain \in Drain /\ drain' \in Drain /\ Chain[i] \in Entries
      BY ChainEntry DEF TypeOK
    <3> QED BY <3>1, <2>1, <2>2, <2>3, LeftFalls
  <2> QED BY <2>1, <2>4 DEF Sent, Paid
<1> QED BY <1>1, <1>2, <1>3, <1>4, <1>5, <1>6, <1>7, <1>8, <1>9, <1>10, <1>11, <1>12,
           <1>13, <1>14, <1>15, <1>16, <1>17, <1>18 DEF Turn

LEMMA StreamBudget ==
  ASSUME TypeOK, Stream
  PROVE  Frugal
<1>0. ASSUME drain.pc = "stream", drain' = drain \/ Goto("call"), spent' = spent PROVE Frugal
  BY <1>0 DEF Goto, TypeOK, Drain, Frugal, Sent
<1>1. CASE Text
  BY <1>0, <1>1 DEF Text, Listening, StreamOnly
<1>2. CASE StepFinish
  BY <1>0, <1>2 DEF StepFinish, Listening, StreamOnly
<1>3. ASSUME NEW o \in BOOLEAN, ProviderError(o) PROVE Frugal
  BY <1>0, <1>3 DEF ProviderError, StreamOnly
<1>4. ASSUME NEW c \in Calls, ToolInput(c) PROVE Frugal
  BY <1>0, <1>4 DEF ToolInput, Listening, StreamOnly
<1>5. ASSUME NEW c \in Calls, NEW h \in BOOLEAN, ToolCall(c, h) PROVE Frugal
  BY <1>0, <1>5 DEF ToolCall, Listening, StreamOnly
<1>6. ASSUME NEW c \in Calls, HostedResult(c) PROVE Frugal
  BY <1>0, <1>6 DEF HostedResult, Listening, StreamOnly
<1> QED BY <1>1, <1>2, <1>3, <1>4, <1>5, <1>6 DEF Stream

LEMMA StepBudget ==
  ASSUME TypeOK, TypeOK', TurnInv, Budget, [Next]_vars
  PROVE  Frugal \/ Anew \/ Paid
<1>1. ASSUME drain' = drain, spent' = spent PROVE Frugal
  BY <1>1 DEF Frugal, Sent, Budget
<1>2. CASE UNCHANGED vars
  BY <1>1, <1>2 DEF vars, memory
<1>3. ASSUME NEW d \in {"steer", "queue"}, Prompt(d) PROVE Frugal
  BY <1>1, <1>3 DEF Prompt, memory
<1>4. ASSUME NEW force \in BOOLEAN, Start(force) PROVE Anew
  <2>1. spent = 0
    BY <1>4 DEF Start, TurnInv, Blank
  <2>2. ASSUME NEW n, drain' = [Off EXCEPT !.pc = "guard", !.force = force, !.attempt = n] PROVE drain'.pc # "shrink"
    BY <2>2 DEF Off
  <2> QED BY <1>4, <2>1, <2>2, EndAnew DEF Start, Anew
<1>5. CASE Interrupt
  <2>1. ASSUME NEW pc \in {"after", "clear"}, Goto(pc), spent' = spent PROVE Frugal
    BY <2>1 DEF Goto, TypeOK, Drain, Frugal, Sent
  <2> QED BY <1>5, <2>1, EndAnew DEF Interrupt
<1>6. CASE Crash
  BY <1>6 DEF Crash, Off, Anew
<1>7. CASE NoModel
  BY <1>7, EndAnew DEF NoModel
<1>8. CASE Overdue
  BY <1>8 DEF Overdue, Goto, TypeOK, Drain, Frugal, Sent
<1>9. CASE StreamStops
  BY <1>9 DEF StreamStops, StreamEnds, StreamOnly, Goto, TypeOK, Drain, Frugal, Sent
<1>10. ASSUME NEW c \in Calls, Tools(c) PROVE Frugal
  BY <1>1, <1>10 DEF Tools, ToolReturns, ToolSettles, ToolFails, ToolOnly
<1> QED BY <1>2, <1>3, <1>4, <1>5, <1>6, <1>7, <1>8, <1>9, <1>10, TurnBudget, StreamBudget DEF Next

LEMMA InitBudget == Init => Budget
<1> SUFFICES ASSUME Init PROVE Budget
  OBVIOUS
<1>1. drain = Off /\ spent = 0 /\ Off.pc = "idle"
  BY DEF Init, Off
<1>2. /\ AttemptsLeft(Off) \in Nat /\ AttemptsLeft(Off) <= (Len(Chain) + 1) * MaxAttempts + 1
      /\ (Len(Chain) + 1) * MaxAttempts \in Nat
  BY OffType, LeftRange
<1> QED BY <1>1, <1>2 DEF Budget, Sent

(* However retries, failovers and an overflow combine, a turn is dispatched    *)
(* at most MaxAttempts times for each model, and once more after compaction:   *)
(* every repeated dispatch has used up an attempt that the budget counts.      *)
THEOREM DispatchesAreBounded == Spec => []DispatchesBounded
<1>1. TypeOK /\ TurnInv /\ Budget /\ [Next]_vars => Budget'
  BY StepInv, StepBudget, KeptBudget, PaidBudget
<1>2. TypeOK /\ Budget => DispatchesBounded
  <2> SUFFICES ASSUME TypeOK, Budget PROVE DispatchesBounded
    OBVIOUS
  <2> DEFINE b == (Len(Chain) + 1) * MaxAttempts
  <2>1. spent \in Nat /\ b \in Nat /\ AttemptsLeft(drain) \in Nat /\ 1 <= AttemptsLeft(drain)
    BY LeftRange DEF TypeOK
  <2>2. spent + AttemptsLeft(drain) <= b + 1 + (IF Sent THEN 1 ELSE 0)
    BY DEF Budget
  <2> HIDE DEF b
  <2>3. spent <= b + 1
    BY <2>1, <2>2
  <2> QED BY <2>3 DEF DispatchesBounded, b
<1> QED BY <1>1, <1>2, InitBudget, TurnInvariance, PTL DEF Spec

=============================================================================

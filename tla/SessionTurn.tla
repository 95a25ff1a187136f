------------------------------ MODULE SessionTurn ------------------------------
(***************************************************************************)
(* The drain of one Session in runner/llm.ts: promotion of admitted input, *)
(* provider attempts whose events publish-llm-event.ts records, local      *)
(* tools started while the stream goes on, their settlement, and what      *)
(* follows: continuation, backoff, failover, overflow compaction, the end. *)
(*                                                                         *)
(* The durable part is what a crash leaves: the inbox, the last assistant  *)
(* message, what older messages left unsettled, and the persisted retry.   *)
(* Delays and elapsed windows are a free choice of the step they decide.   *)
(* Automatic compaction before a dispatch changes nothing modelled here,   *)
(* and a request that malformed provider output makes die is left out.     *)
(***************************************************************************)
EXTENDS Naturals, Sequences, FiniteSets

CONSTANTS Calls,            \* tool calls of one provider turn
          Primary, Chain,   \* the configured model, the failover chain
          None,
          OnWatchdog,       \* provider_failover.on_watchdog
          MaxSteps,         \* steps of the agent
          MaxAttempts,      \* provider_retry.max_attempts
          MaxInputs,        \* bound on admitted inputs
          MaxRuns           \* bound on resumes and crashes

Entries == {Chain[i] : i \in 1..Len(Chain)}
Models == {Primary} \cup Entries
Whys == {"ok", "retryable", "fatal", "watchdog", "overflow", "arguments", "interrupt",
         "declined"}

ASSUME TurnAssumption ==
  /\ None \notin Calls \cup Models \cup Whys \cup {"failed", "steer", "queue"}
  /\ OnWatchdog \in BOOLEAN
  /\ MaxSteps \in Nat \ {0} /\ MaxAttempts \in Nat \ {0}
  /\ MaxInputs \in Nat /\ MaxRuns \in Nat

ASSUME ChainAssumption == Chain \in Seq(Entries)

VARIABLES
  inbox,     \* admitted and not promoted: how many steers, how many queued
  msg,       \* the last assistant message
  stray,     \* states of tools that older messages left unsettled
  retry,     \* retry_attempt, or None
  woken,     \* the coordinator holds a wake for this Session
  drain,     \* the arguments of runTurn and the place of the drain in it
  turn,      \* the locals of runTurnAttempt and its publisher
  fib,       \* per call: its tool fiber
  spent,     \* how often the current turn was dispatched
  declined,  \* a decline was the first failure of a turn of this drain
  admitted, runs

durable == <<inbox, msg, stray, retry>>
memory == <<drain, turn, fib, spent, declined>>
vars == <<durable, woken, memory, admitted, runs>>

Unsettled == {"pending", "running"}
NoTools == [c \in Calls |-> "none"]
NoFibers == [c \in Calls |-> "none"]

Off == [pc |-> "idle", force |-> FALSE, promo |-> None, step |-> 1, attempt |-> 0,
        recov |-> 0, roomy |-> TRUE, model |-> Primary, used |-> {}, exit |-> "ok"]
Fresh == [step |-> 1, why |-> None, over |-> FALSE, perr |-> FALSE, fin |-> FALSE,
          out |-> FALSE, active |-> TRUE, recovered |-> FALSE,
          cont |-> FALSE, hosted |-> {}, call |-> None, first |-> None]

Places == {"idle", "guard", "turn", "ready", "stream", "call", "after", "shrink", "judge",
           "backoff", "settle", "clear", "conclude", "next"}

Message == [open : BOOLEAN, tool : [Calls -> {"none", "settled"} \cup Unsettled], text : BOOLEAN]
Drain == [pc : Places, force : BOOLEAN, promo : {"steer", "queue", None}, step : Nat \ {0},
          attempt : 0..(MaxAttempts - 1), recov : 0..1, roomy : BOOLEAN, model : Models,
          used : SUBSET Entries, exit : {"ok", "fail", "interrupt", "elapsed"}]
Attempt == [step : Nat \ {0}, why : Whys \cup {None}, over : BOOLEAN, perr : BOOLEAN,
            fin : BOOLEAN, out : BOOLEAN, active : BOOLEAN, recovered : BOOLEAN, cont : BOOLEAN,
            hosted : SUBSET Calls, call : Calls \cup {None}, first : {"failed", "declined", None}]

TypeOK ==
  /\ inbox \in [steer : Nat, queue : Nat] /\ inbox.steer + inbox.queue <= admitted
  /\ msg \in Message
  /\ stray \subseteq Unsettled
  /\ retry \in (0..(MaxAttempts - 2)) \cup {None}
  /\ drain \in Drain /\ (drain.pc = "backoff" => drain.attempt + 1 < MaxAttempts)
  /\ turn \in Attempt
  /\ fib \in [Calls -> {"none", "run", "publish", "failed", "declined"}]
  /\ woken \in BOOLEAN /\ declined \in BOOLEAN /\ spent \in Nat
  /\ admitted \in 0..MaxInputs /\ runs \in 0..MaxRuns

Init ==
  /\ inbox = [steer |-> 0, queue |-> 0]
  /\ msg = [open |-> FALSE, tool |-> NoTools, text |-> FALSE] /\ stray = {} /\ retry = None
  /\ woken = FALSE /\ drain = Off /\ turn = Fresh /\ fib = NoFibers /\ spent = 0
  /\ declined = FALSE /\ admitted = 0 /\ runs = 0

-----------------------------------------------------------------------------
(* What the publisher and the message updater do to the last message.        *)

(* failUnsettledTools: the calls of C that have no result yet get an error, *)
(* which counts as settled like any other.                                  *)
Failing(m, C) ==
  [m EXCEPT !.tool = [c \in Calls |-> IF c \in C /\ m.tool[c] \in Unsettled
                                      THEN "settled" ELSE m.tool[c]]]

(* The message that failAssistant leaves: Step.Failed completes it, once. *)
Closing(m) == [m EXCEPT !.open = FALSE]

(* FiberSet.clear interrupts the fibers that do not publish yet. *)
Cleared == [c \in Calls |-> IF fib[c] = "run" THEN "none" ELSE fib[c]]
Publishing == \E c \in Calls : fib[c] = "publish"

(* The drain ends: its scopes interrupt what is left of its tool fibers. *)
End(exit) ==
  /\ drain' = [Off EXCEPT !.exit = exit]
  /\ turn' = Fresh /\ fib' = NoFibers /\ spent' = 0
  /\ UNCHANGED declined

Goto(pc) == drain' = [drain EXCEPT !.pc = pc]

Outside == UNCHANGED <<woken, admitted, runs>>

-----------------------------------------------------------------------------
(* The clients, the coordinator, and the death of the process.               *)

(* prompt: the input is admitted, then the coordinator is woken. *)
Prompt(d) ==
  /\ admitted < MaxInputs
  /\ admitted' = admitted + 1
  /\ inbox' = [inbox EXCEPT ![d] = @ + 1]
  /\ woken' = TRUE
  /\ UNCHANGED <<msg, stray, retry, memory, runs>>

MutStartSkipsReconcile(force) ==
  /\ drain.pc = "idle"
  /\ IF force THEN runs < MaxRuns /\ runs' = runs + 1 /\ UNCHANGED woken
              ELSE woken /\ woken' = FALSE /\ UNCHANGED runs
  /\ \/ /\ retry # None /\ retry' = None
        /\ End("elapsed")
     \/ /\ drain' = [Off EXCEPT !.pc = "guard", !.force = force,
                                !.attempt = IF retry = None THEN 0 ELSE retry + 1]
        /\ declined' = FALSE /\ UNCHANGED <<retry, turn, fib, spent>>
  /\ UNCHANGED <<inbox, admitted, msg, stray>>

(* A drain starts for a resume (force) or a wake, and fails the tools that  *)
(* an earlier process left running.  A persisted retry whose window elapsed *)
(* is dropped and the drain returns.                                        *)
Start(force) ==
  /\ drain.pc = "idle"
  /\ IF force THEN runs < MaxRuns /\ runs' = runs + 1 /\ UNCHANGED woken
              ELSE woken /\ woken' = FALSE /\ UNCHANGED runs
  /\ msg' = Failing(msg, {c \in Calls : msg.tool[c] = "running"})
  /\ stray' = stray \ {"running"}
  /\ \/ /\ retry # None /\ retry' = None
        /\ End("elapsed")
     \/ /\ drain' = [Off EXCEPT !.pc = "guard", !.force = force,
                                !.attempt = IF retry = None THEN 0 ELSE retry + 1]
        /\ declined' = FALSE /\ UNCHANGED <<retry, turn, fib, spent>>
  /\ UNCHANGED <<inbox, admitted>>

Delivery == IF inbox.steer > 0 THEN "steer" ELSE IF inbox.queue > 0 THEN "queue" ELSE None

(* The sleep of a persisted retry is over: is there anything to run? *)
Guard ==
  /\ drain.pc = "guard"
  /\ IF drain.force \/ Delivery # None \/ drain.attempt > 0
     THEN /\ drain' = [drain EXCEPT !.pc = "turn", !.promo = Delivery, !.force = FALSE]
          /\ UNCHANGED <<turn, fib, spent, declined>>
     ELSE End("ok")
  /\ Outside /\ UNCHANGED durable

Crash ==
  /\ drain.pc # "idle" /\ runs < MaxRuns
  /\ runs' = runs + 1
  /\ drain' = [Off EXCEPT !.exit = "interrupt"] /\ turn' = Fresh /\ fib' = NoFibers
  /\ spent' = 0 /\ declined' = FALSE /\ woken' = FALSE
  /\ UNCHANGED <<durable, admitted>>

MayShrink == drain.roomy /\ ~turn.out /\ (turn.over \/ turn.why = "overflow")

(* sessions.interrupt while the drain is where it can be interrupted; it    *)
(* drops the wake.  A stream is followed by its settlement, unless it kept  *)
(* an overflow: the compaction that comes next is interrupted too.          *)
Interrupt ==
  /\ \/ /\ \/ drain.pc \in {"guard", "turn", "ready", "shrink", "backoff", "next"}
           \/ drain.pc = "stream" /\ MayShrink
        /\ End("interrupt")
     \/ /\ drain.pc \in {"stream", "call"} /\ ~MayShrink
        /\ turn' = [turn EXCEPT !.why = "interrupt", !.call = None]
        /\ Goto("after") /\ UNCHANGED <<fib, spent, declined>>
     \/ /\ drain.pc = "settle"
        /\ turn' = [turn EXCEPT !.why = "interrupt"]
        /\ Goto("clear") /\ fib' = Cleared /\ UNCHANGED <<spent, declined>>
  /\ woken' = FALSE
  /\ UNCHANGED <<durable, admitted, runs>>

-----------------------------------------------------------------------------
(* runTurnAttempt up to the dispatch.                                        *)

(* promoteNextQueued and promoteSteers: what a boundary leaves in the inbox. *)
Left(promo) ==
  [steer |-> IF promo = None THEN inbox.steer ELSE 0,
   queue |-> IF promo = "queue" /\ inbox.queue > 0 THEN inbox.queue - 1 ELSE inbox.queue]

(* Promoted input resets the step allowance of the attempt. *)
Promote ==
  /\ drain.pc = "turn"
  /\ inbox' = Left(drain.promo)
  /\ turn' = [turn EXCEPT !.step = IF inbox' = inbox THEN drain.step ELSE 1]
  /\ drain' = [drain EXCEPT !.pc = "ready", !.promo = None]
  /\ Outside /\ UNCHANGED <<msg, stray, retry, fib, spent, declined>>

LastStep == turn.step >= MaxSteps

(* Step.Started is committed before the stream: it completes the message    *)
(* before it, whose unsettled tools nobody of this turn will settle.        *)
Dispatch ==
  /\ drain.pc = "ready"
  /\ stray' = stray \cup ({msg.tool[c] : c \in Calls} \cap Unsettled)
  /\ msg' = [open |-> TRUE, tool |-> NoTools, text |-> FALSE]
  /\ turn' = [Fresh EXCEPT !.step = turn.step]
  /\ Goto("stream") /\ spent' = spent + 1
  /\ Outside /\ UNCHANGED <<inbox, retry, fib, declined>>

(* The model or the context cannot be resolved: run drops the retry. *)
NoModel ==
  /\ drain.pc = "ready"
  /\ retry' = None /\ End("fail")
  /\ Outside /\ UNCHANGED <<inbox, msg, stray>>

-----------------------------------------------------------------------------
(* The provider stream.                                                      *)

Listening == drain.pc = "stream" /\ ~turn.over /\ ~turn.perr /\ ~turn.fin

StreamOnly == Outside /\ UNCHANGED <<inbox, stray, retry, spent, declined>>

Text ==
  /\ Listening
  /\ msg' = [msg EXCEPT !.text = TRUE] /\ turn' = [turn EXCEPT !.out = TRUE]
  /\ StreamOnly /\ UNCHANGED <<drain, fib>>

ToolInput(c) ==
  /\ Listening /\ msg.tool[c] = "none"
  /\ msg' = [msg EXCEPT !.tool[c] = "pending"] /\ turn' = [turn EXCEPT !.out = TRUE]
  /\ StreamOnly /\ UNCHANGED <<drain, fib>>

MutToolCallKeepsRetry(c, hosted) ==
  /\ Listening /\ msg.tool[c] \in {"none", "pending"}
  /\ msg' = [msg EXCEPT !.tool[c] = "running"]
  /\ IF hosted
     THEN turn' = [turn EXCEPT !.hosted = @ \cup {c}] /\ UNCHANGED drain
     ELSE turn' = [turn EXCEPT !.call = c] /\ Goto("call")
  /\ StreamOnly /\ UNCHANGED fib

(* Tool.Called is committed before anything is executed. *)
ToolCall(c, hosted) ==
  /\ Listening /\ msg.tool[c] \in {"none", "pending"}
  /\ msg' = [msg EXCEPT !.tool[c] = "running"]
  /\ IF hosted
     THEN turn' = [turn EXCEPT !.out = TRUE, !.hosted = @ \cup {c}] /\ UNCHANGED drain
     ELSE turn' = [turn EXCEPT !.out = TRUE, !.call = c] /\ Goto("call")
  /\ StreamOnly /\ UNCHANGED fib

(* A local call starts its fiber, or fails where tools are disabled. *)
Fork ==
  /\ drain.pc = "call"
  /\ IF LastStep
     THEN /\ msg' = Failing(msg, Calls)
          /\ turn' = [turn EXCEPT !.call = None] /\ UNCHANGED fib
     ELSE /\ fib' = [fib EXCEPT ![turn.call] = "run"]
          /\ turn' = [turn EXCEPT !.call = None, !.cont = TRUE] /\ UNCHANGED msg
  /\ Goto("stream") /\ StreamOnly

HostedResult(c) ==
  /\ Listening /\ c \in turn.hosted /\ msg.tool[c] = "running"
  /\ msg' = [msg EXCEPT !.tool[c] = "settled"]
  /\ turn' = [turn EXCEPT !.hosted = @ \ {c}]
  /\ StreamOnly /\ UNCHANGED <<drain, fib>>

StepFinish ==
  /\ Listening
  /\ turn' = [turn EXCEPT !.fin = TRUE, !.active = FALSE]
  /\ StreamOnly /\ UNCHANGED <<msg, drain, fib>>

(* provider-error: an overflow before any output is kept for later, another *)
(* one fails the message.  A retryable one before output ends the stream.   *)
ProviderError(overflow) ==
  /\ drain.pc = "stream" /\ ~turn.over /\ ~turn.perr
  /\ IF overflow /\ ~turn.out
     THEN turn' = [turn EXCEPT !.over = TRUE] /\ UNCHANGED msg
     ELSE turn' = [turn EXCEPT !.perr = TRUE, !.active = FALSE] /\ msg' = Closing(msg)
  /\ StreamOnly /\ UNCHANGED <<drain, fib>>

(* The stream ends; only the absolute watchdog ends it between the record   *)
(* of a call and the start of its fiber.                                    *)
StreamEnds(why) ==
  /\ \/ drain.pc = "stream"
     \/ drain.pc = "call" /\ why = "watchdog"
  /\ why = "arguments" => \E c \in Calls : msg.tool[c] = "pending"
  /\ turn' = [turn EXCEPT !.why = why, !.call = None]
  /\ Goto("after")
  /\ StreamOnly /\ UNCHANGED <<msg, fib>>

-----------------------------------------------------------------------------
(* Tool fibers, at any time after their start.                               *)

ToolOnly == UNCHANGED <<inbox, stray, retry, woken, drain, spent, admitted, runs>>

(* settle returned: publishing its result cannot be interrupted any more. *)
ToolReturns(c) ==
  /\ fib[c] = "run"
  /\ fib' = [fib EXCEPT ![c] = "publish"]
  /\ ToolOnly /\ UNCHANGED <<msg, turn, declined>>

(* The result is recorded, unless the call was settled in the meantime. *)
ToolSettles(c) ==
  /\ fib[c] = "publish"
  /\ fib' = [fib EXCEPT ![c] = "none"]
  /\ msg' = IF msg.tool[c] = "running" THEN [msg EXCEPT !.tool[c] = "settled"] ELSE msg
  /\ ToolOnly /\ UNCHANGED <<turn, declined>>

(* The fiber fails: its output could not be stored, or the user declined.   *)
(* Joining the fibers yields the first failure.                             *)
ToolFails(c, how) ==
  /\ fib[c] = "run"
  /\ fib' = [fib EXCEPT ![c] = how]
  /\ turn' = [turn EXCEPT !.first = IF @ = None THEN how ELSE @]
  /\ declined' = (declined \/ (how = "declined" /\ turn.first = None))
  /\ ToolOnly /\ UNCHANGED msg

-----------------------------------------------------------------------------
(* runTurnAttempt after the stream.                                          *)

LLMFailure == turn.why \in {"retryable", "fatal", "watchdog", "overflow", "arguments"}

AfterOnly == Outside /\ UNCHANGED <<inbox, declined>>

(* The overflow that was kept is published as the error it is. *)
Judge ==
  /\ Goto("judge")
  /\ IF turn.over THEN /\ msg' = Closing(msg)
                       /\ turn' = [turn EXCEPT !.perr = TRUE, !.active = FALSE]
                  ELSE UNCHANGED <<msg, turn>>

(* An overflow without output may be compacted, once. *)
After ==
  /\ drain.pc = "after"
  /\ IF MayShrink THEN Goto("shrink") /\ UNCHANGED <<msg, turn>> ELSE Judge
  /\ AfterOnly /\ UNCHANGED <<stray, retry, fib, spent>>

Shrink(done) ==
  /\ drain.pc = "shrink"
  /\ IF done THEN /\ drain' = [drain EXCEPT !.pc = "turn", !.roomy = FALSE, !.step = turn.step]
                  /\ UNCHANGED <<msg, turn>>
             ELSE Judge
  /\ AfterOnly /\ UNCHANGED <<stray, retry, fib, spent>>

Called == {c \in Calls : msg.tool[c] \notin {"none", "pending"}}
Recovers == turn.why = "arguments" /\ drain.recov = 0 /\ Called = {}

(* Malformed arguments of a call that was not made are answered once. *)
Recover(c) ==
  /\ drain.pc = "judge" /\ Recovers /\ msg.tool[c] = "pending"
  /\ msg' = Failing(msg, {c})
  /\ turn' = [turn EXCEPT !.recovered = TRUE, !.cont = TRUE]
  /\ Goto("settle")
  /\ AfterOnly /\ UNCHANGED <<stray, retry, fib, spent>>

(* A failure before output may be followed by another attempt.  Whether the *)
(* delays and the elapsed time still allow one is left open.                *)
Redo == drain.pc = "judge" /\ turn.why \in {"retryable", "watchdog"} /\ ~turn.out
FailsOver == Len(Chain) > 0 /\ (turn.why = "watchdog" => OnWatchdog)

(* decide says Retry only below the attempt ceiling. *)
MayRetry == Redo /\ drain.attempt + 1 < MaxAttempts

(* Retried completes the message and persists the attempt in one commit. *)
Retry ==
  /\ MayRetry /\ ~(FailsOver /\ turn.why = "watchdog")
  /\ msg' = Closing(msg) /\ retry' = drain.attempt
  /\ Goto("backoff")
  /\ AfterOnly /\ UNCHANGED <<stray, turn, fib, spent>>

MutBackoffForgetsAttempt ==
  /\ drain.pc = "backoff"
  /\ Goto("turn")
  /\ AfterOnly /\ UNCHANGED <<msg, stray, retry, turn, fib, spent>>

Backoff ==
  /\ drain.pc = "backoff"
  /\ drain' = [drain EXCEPT !.pc = "turn", !.attempt = @ + 1]
  /\ AfterOnly /\ UNCHANGED <<msg, stray, retry, turn, fib, spent>>

Untried(m) == m # drain.model /\ m \notin drain.used

(* failoverTurn: the first untried entry of the chain that can be resolved; *)
(* those before it are used up.  The attempts start again.                  *)
FailOver(i) ==
  /\ Redo /\ FailsOver /\ Untried(Chain[i])
  /\ drain' = [drain EXCEPT !.pc = "turn", !.attempt = 0, !.model = Chain[i],
                            !.used = @ \cup {m \in {Chain[j] : j \in 1..i} : Untried(m)}]
  /\ retry' = None
  /\ AfterOnly /\ UNCHANGED <<msg, stray, turn, fib, spent>>

(* No entry is left that can be resolved. *)
Exhausted ==
  /\ Redo /\ FailsOver
  /\ msg' = Closing(msg) /\ retry' = None
  /\ End("fail")
  /\ Outside /\ UNCHANGED <<inbox, stray>>

(* The failure is recorded; local tools that run are waited for.  From here *)
(* on all failures are alike.                                               *)
FailTurn ==
  /\ drain.pc = "judge" /\ LLMFailure /\ ~Recovers /\ ~(Redo /\ FailsOver)
  /\ msg' = IF turn.perr THEN msg ELSE Closing(Failing(msg, turn.hosted))
  /\ turn' = [turn EXCEPT !.active = FALSE, !.why = "fatal"]
  /\ Goto("settle")
  /\ AfterOnly /\ UNCHANGED <<stray, retry, fib, spent>>

MutPassKeepsFibers ==
  /\ drain.pc = "judge" /\ turn.why \in {"ok", "interrupt"}
  /\ Goto(IF turn.why = "ok" THEN "settle" ELSE "clear")
  /\ AfterOnly /\ UNCHANGED <<msg, stray, retry, turn, fib, spent>>

(* The stream ended well, or was interrupted and takes its tools along. *)
Pass ==
  /\ drain.pc = "judge" /\ turn.why \in {"ok", "interrupt"}
  /\ IF turn.why = "ok" THEN Goto("settle") /\ UNCHANGED fib
                        ELSE Goto("clear") /\ fib' = Cleared
  /\ AfterOnly /\ UNCHANGED <<msg, stray, retry, turn, spent>>

-----------------------------------------------------------------------------
(* The settlement of the tools, then of the turn.                            *)

Running == \E c \in Calls : fib[c] \in {"run", "publish"}

(* The last word on a turn that is interrupted. *)
Cut(m) == IF turn.active THEN Closing(Failing(m, Calls)) ELSE Failing(m, Calls)

MutSettleOnlyJoins ==
  /\ drain.pc = "settle"
  /\ turn.first = "failed" /\ msg' = Failing(msg, Calls)
  /\ Goto("conclude")
  /\ AfterOnly /\ UNCHANGED <<stray, retry, turn, fib, spent>>

(* All fibers are done, or one failed although its user declined nothing.   *)
(* Then the others go on, but their calls have failed.                      *)
Settle ==
  /\ drain.pc = "settle"
  /\ \/ ~Running /\ turn.first = None /\ UNCHANGED msg
     \/ turn.first = "failed" /\ msg' = Failing(msg, Calls)
  /\ Goto("conclude")
  /\ AfterOnly /\ UNCHANGED <<stray, retry, turn, fib, spent>>

MutDeclineContinues ==
  /\ drain.pc = "settle" /\ turn.first = "declined"
  /\ fib' = Cleared /\ Goto("clear") /\ UNCHANGED turn
  /\ AfterOnly /\ UNCHANGED <<msg, stray, retry, spent>>

(* The user declined: the tools are interrupted and the drain with them. *)
Decline ==
  /\ drain.pc = "settle" /\ turn.first = "declined"
  /\ turn' = [turn EXCEPT !.why = "declined"]
  /\ fib' = Cleared /\ Goto("clear")
  /\ AfterOnly /\ UNCHANGED <<msg, stray, retry, spent>>

(* A failed turn waits for its tools no longer than the absolute watchdog. *)
Overdue ==
  /\ drain.pc = "settle" /\ LLMFailure /\ turn.first = None
  /\ fib' = Cleared /\ Goto("clear")
  /\ AfterOnly /\ UNCHANGED <<msg, stray, retry, turn, spent>>

ClearDone ==
  /\ drain.pc = "clear" /\ ~Publishing
  /\ \/ /\ turn.why = "declined"
        /\ msg' = Failing(msg, Calls) /\ End("interrupt")
     \/ /\ turn.why # "declined"
        /\ msg' = IF turn.why = "interrupt" THEN Cut(msg) ELSE Failing(msg, Calls)
        /\ Goto("conclude") /\ UNCHANGED <<turn, fib, spent, declined>>
  /\ Outside /\ UNCHANGED <<inbox, stray, retry>>

Ends == ~turn.perr /\ (turn.fin \/ (turn.why = "ok" /\ ~turn.out))

(* Step.Ended, the hosted tools without a result, and the scope of the turn *)
(* with what is left of its fibers.                                         *)
Conclude ==
  /\ drain.pc = "conclude"
  /\ msg' = LET m == IF Ends THEN Closing(msg) ELSE msg IN
            IF turn.perr THEN Failing(m, Calls)
            ELSE IF turn.why = "ok" THEN Failing(m, turn.hosted) ELSE m
  /\ IF turn.why = "interrupt"
     THEN End("interrupt")
     ELSE /\ turn' = [turn EXCEPT !.cont = turn.recovered \/ (@ /\ ~turn.perr)]
          /\ fib' = NoFibers
          /\ Goto("next") /\ UNCHANGED <<spent, declined>>
  /\ Outside /\ UNCHANGED <<inbox, stray, retry>>

MutNextForgetsQueue ==
  /\ drain.pc = "next"
  /\ retry' = None
  /\ IF turn.why # "ok" /\ ~turn.recovered
     THEN End("fail")
     ELSE IF turn.cont \/ inbox.steer > 0
          THEN /\ drain' = [drain EXCEPT !.pc = "turn", !.promo = "steer", !.step = turn.step + 1,
                                         !.attempt = 0, !.roomy = TRUE, !.model = Primary,
                                         !.recov = IF turn.recovered THEN 1 ELSE @]
               /\ turn' = Fresh /\ spent' = 0 /\ UNCHANGED <<fib, declined>>
          ELSE End("ok")
  /\ Outside /\ UNCHANGED <<inbox, msg, stray>>

(* run: the retry is dropped; the drain fails, or takes another turn for    *)
(* its tools or a steer, or starts over with the next queued input.         *)
NextTurn ==
  /\ drain.pc = "next"
  /\ retry' = None
  /\ IF turn.why # "ok" /\ ~turn.recovered
     THEN End("fail")
     ELSE IF turn.cont \/ inbox.steer > 0
          THEN /\ drain' = [drain EXCEPT !.pc = "turn", !.promo = "steer", !.step = turn.step + 1,
                                         !.attempt = 0, !.roomy = TRUE, !.model = Primary,
                                         !.recov = IF turn.recovered THEN 1 ELSE @]
               /\ turn' = Fresh /\ spent' = 0 /\ UNCHANGED <<fib, declined>>
          ELSE IF inbox.queue > 0
               THEN /\ drain' = [Off EXCEPT !.pc = "turn", !.promo = "queue"]
                    /\ turn' = Fresh /\ spent' = 0 /\ UNCHANGED <<fib, declined>>
               ELSE End("ok")
  /\ Outside /\ UNCHANGED <<inbox, msg, stray>>

-----------------------------------------------------------------------------
Stream ==
  \/ Text \/ StepFinish
  \/ \E o \in BOOLEAN : ProviderError(o)
  \/ \E c \in Calls : \/ ToolInput(c) \/ \E h \in BOOLEAN : ToolCall(c, h)
                      \/ HostedResult(c)

StreamStops == \E why \in Whys \ {"interrupt", "declined"} : StreamEnds(why)

Tools(c) == \/ ToolReturns(c) \/ ToolSettles(c)
            \/ \E how \in {"failed", "declined"} : ToolFails(c, how)

Turn ==
  \/ Guard \/ Promote \/ Dispatch \/ Fork \/ After \/ Retry \/ Backoff \/ Exhausted \/ FailTurn \/ Pass
  \/ Settle \/ Decline \/ ClearDone \/ Conclude \/ NextTurn
  \/ \E done \in BOOLEAN : Shrink(done)
  \/ \E c \in Calls : Recover(c)
  \/ \E i \in 1..Len(Chain) : FailOver(i)

Next ==
  \/ \E d \in {"steer", "queue"} : Prompt(d)
  \/ \E force \in BOOLEAN : Start(force)
  \/ Turn \/ Stream \/ StreamStops \/ NoModel \/ Overdue \/ Interrupt \/ Crash
  \/ \E c \in Calls : Tools(c)

Spec == Init /\ [][Next]_vars

(* The coordinator starts a drain it was woken for and drains go on; that   *)
(* streams and tools come to an end is assumed.                             *)
Fairness == /\ WF_vars(Start(FALSE)) /\ WF_vars(Turn) /\ WF_vars(StreamStops)
            /\ \A c \in Calls : WF_vars(Tools(c))

FairSpec == Spec /\ Fairness

-----------------------------------------------------------------------------
(* Properties.                                                               *)

(* No provider is sent a history with a call that was made and has neither  *)
(* result nor error: not after interrupts, declines, timeouts or crashes.   *)
AnsweredAtDispatch == drain.pc = "stream" => "running" \notin stray

(* A tool executes only inside its turn and only while its call is recorded *)
(* as running, which is what recovery goes by.  The exception is the moment *)
(* between the failure of another tool and the end of the turn.             *)
EffectIsVisible ==
  \A c \in Calls : fib[c] \in {"run", "publish"} =>
    /\ drain.pc \in {"stream", "call", "after", "judge", "settle", "clear", "conclude"}
    /\ msg.tool[c] = "running" \/ (drain.pc = "conclude" /\ turn.first = "failed")

(* An attempt is repeated only if it left nothing: no output to show twice, *)
(* no call to make twice.  It holds for backoff, failover and compaction.   *)
RepeatsLeaveNothing ==
  [][drain.pc = "ready" /\ drain'.pc = "stream" /\ spent > 0 => ~msg.text /\ msg.tool = NoTools]_vars

(* However retries, failovers and an overflow combine, a turn is dispatched   *)
(* at most MaxAttempts times for each model, and once more for the one          *)
(* compaction of an overflow.  This is the code's bound and not the document's:  *)
(* session.md:121 leaves a turn "one remaining physical attempt" after a         *)
(* completed checkpoint, but runAfterOverflowCompaction retries and fails over   *)
(* as before it (llm.ts:724-737).                                                *)
DispatchesBounded == spent <= (Len(Chain) + 1) * MaxAttempts + 1

(* "declining a user prompt halts the loop": no further dispatch in a drain *)
(* in which the user declined, unless another tool of that turn had failed  *)
(* before: joining the fibers shows only the first failure.                 *)
DeclineHalts == [][declined => ~(drain.pc = "ready" /\ drain'.pc = "stream")]_vars

(* A drain that ends by itself leaves no admitted input behind, unless the  *)
(* coordinator was woken for it again.                                      *)
InboxServed ==
  drain.pc = "idle" /\ drain.exit = "ok" /\ ~woken => inbox = [steer |-> 0, queue |-> 0]

(* Every drain comes to an end. *)
DrainEnds == drain.pc # "idle" ~> drain.pc = "idle"

-----------------------------------------------------------------------------
(* What the properties rest on: the inductive invariant of SessionTurnProofs. *)

Live(c) == fib[c] \in {"run", "publish"}

(* A live fiber belongs to a recorded local call of a turn that may call tools. *)
Workers ==
  \A c \in Calls :
    /\ LastStep \/ drain.pc = "clear" => fib[c] # "run"
    /\ LastStep \/ (drain.pc = "conclude" /\ turn.first # "failed") => ~Live(c)
    /\ drain.pc = "call" /\ turn.call = c =>
         msg.tool[c] = "running" /\ ~Live(c) /\ c \notin turn.hosted
    /\ c \in turn.hosted => ~Live(c) /\ msg.tool[c] \in {"running", "settled"}

(* Outside a turn there are no fibers. *)
Quiet ==
  drain.pc \in {"idle", "guard", "turn", "ready", "backoff", "shrink", "next"} =>
    \A c \in Calls : fib[c] = "none"

InTurn == {"stream", "call", "after", "shrink", "judge", "settle", "clear", "conclude"}

(* What an attempt without output has left, and one that is repeated. *)
Blank ==
  /\ drain.pc = "call" => turn.out /\ turn.call \in Calls
  /\ drain.pc = "shrink" => ~turn.out
  /\ ~turn.out /\ drain.pc \in InTurn => turn.first = None /\ \A c \in Calls : fib[c] = "none"
  /\ \/ ~turn.out /\ drain.pc \in {"stream", "after", "shrink", "judge"}
     \/ spent > 0 /\ drain.pc \in {"turn", "ready", "backoff"}
     => ~msg.text /\ \A c \in Calls : msg.tool[c] = "none"
  /\ drain.pc \in {"idle", "guard"} => spent = 0

(* Where a call may still be without an answer. *)
Answered ==
  /\ drain.pc # "idle" => "running" \notin stray
  /\ \/ drain.pc \in {"guard", "turn", "ready", "backoff"}
     \/ drain.pc = "next" /\ turn.why = "ok"
     \/ turn.recovered
     => \A c \in Calls : msg.tool[c] # "running"
  /\ turn.recovered => drain.pc \in {"settle", "clear", "conclude", "next"}

(* Who will answer a call in a turn that goes well. *)
Owed ==
  /\ drain.pc \in {"stream", "call"} => turn.why = None
  /\ \A c \in Calls :
       /\ /\ msg.tool[c] = "running" /\ turn.why \in {None, "ok"}
          /\ drain.pc \in {"stream", "call", "after", "judge", "settle"}
          => \/ c \in turn.hosted \/ Live(c) \/ turn.first # None
             \/ drain.pc = "call" /\ turn.call = c
       /\ msg.tool[c] = "running" /\ turn.why = "ok" /\ drain.pc = "conclude" => c \in turn.hosted

(* A decline is on its way to the end of the drain. *)
Halting ==
  declined =>
    \/ drain.pc = "idle"
    \/ drain.pc \in {"stream", "call", "after", "judge", "settle"} /\ turn.first = "declined" /\ turn.out
    \/ drain.pc = "clear" /\ turn.why \in {"declined", "interrupt"}
    \/ drain.pc = "conclude" /\ turn.why = "interrupt"

Sent == drain.pc \notin {"idle", "guard", "turn", "ready"}

(* The attempts that the current turn has left: on each untried model of the  *)
(* chain, on this one, and one for the compaction of an overflow.             *)
AttemptsLeft(d) ==
  Cardinality(Entries \ d.used) * MaxAttempts + (MaxAttempts - d.attempt)
    + (IF d.roomy THEN 1 ELSE 0)

(* A dispatch uses up an attempt, at once or before the next one. *)
Budget ==
  /\ drain.pc = "shrink" => drain.roomy
  /\ spent + AttemptsLeft(drain) <= (Len(Chain) + 1) * MaxAttempts + 1 + (IF Sent THEN 1 ELSE 0)

TurnInv == EffectIsVisible /\ Workers /\ Quiet /\ Blank /\ Answered /\ Owed /\ Halting

=============================================================================

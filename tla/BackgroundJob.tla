---------------------------- MODULE BackgroundJob ----------------------------
(* The registry of background jobs, background-job.ts, and the calls of the   *)
(* task tool, task.ts, that use it for one child Session.                     *)
(*                                                                            *)
(* The jobs of one id follow each other; each has a token.  A job runs the    *)
(* prompt it was started with and then, one after another, those it was       *)
(* extended with; the fiber of a prompt waits for the tail of the one before. *)
(* Whoever changes the status of a job resolves its done and closes its scope *)
(* in a later step.                                                           *)
EXTENDS Naturals, FiniteSets

CONSTANTS Callers, MaxStarts, MaxExtends

Token  == 1..MaxStarts
Seq    == 0..MaxExtends

ASSUME JobAssumption ==
  MaxStarts \in Nat \ {0} /\ MaxExtends \in Nat /\ Callers \cap Token = {}

VARIABLES
  job,        \* the entry of the id: its latest job
  fiber,      \* the run of each prompt, by token and sequence
  settled,    \* the fibers whose exit has been counted
  final,      \* how the job of a token ended: the snapshot its done is resolved with
  phase,      \* of that end: decided; done resolved and the scope closed
  promoted,   \* the tokens whose promoted is resolved
  pc,         \* the step of a caller, and of the promotion of a token
  eye,        \* the job whose end, or promotion, it awaits
  said, tok,  \* what a call returned, and about which job
  told        \* the jobs whose result was injected

jobs  == <<job, fiber, settled, final, phase, promoted>>
calls == <<pc, eye, said, tok>>
vars  == <<jobs, calls, told>>

Actors == Callers \cup Token
Ends   == {"completed", "error", "cancelled"}
Exits  == {"ok", "bad"}
Watching == {"watch", "waiting"}

(* out counts from 1, so that 0 stands for no output. *)
JobTypes ==
  /\ job \in [token : 0..MaxStarts, status : Ends \cup {"none", "running"},
              background : BOOLEAN, pending : Nat,
              next : 0..(MaxExtends + 1), out : 0..(MaxExtends + 1)]
  /\ job.token = 0 <=> job.status = "none"
  /\ fiber \in [Token -> [Seq -> {"none", "accepted", "running", "stopped"} \cup Exits]]
  /\ settled \in [Token -> SUBSET Seq]
  /\ final \in [Token -> [status : Ends \cup {"none"}, out : 0..(MaxExtends + 1),
                          background : BOOLEAN]]
  /\ phase \in [Token -> {"open", "decided", "closed"}]

CallTypes ==
  /\ promoted \subseteq Token
  /\ pc \in [Actors -> {"new", "start", "release", "closing", "promoting", "notify",
                       "noting", "end"} \cup Watching]
  /\ eye \in [Actors -> 0..MaxStarts]
  /\ \A a \in Actors : pc[a] \in {"waiting", "noting", "closing"} => eye[a] \in Token
  /\ said \in [Callers -> {"none", "updated", "started", "output", "failed", "cancelled"}]
  /\ tok \in [Callers -> 0..MaxStarts] /\ told \subseteq Token

TypeOK == JobTypes /\ CallTypes

NoEnd == [status |-> "none", out |-> 0, background |-> FALSE]

Init ==
  /\ job = [token |-> 0, status |-> "none", background |-> FALSE,
            pending |-> 0, next |-> 0, out |-> 0]
  /\ fiber = [t \in Token |-> [n \in Seq |-> "none"]] /\ settled = [t \in Token |-> {}]
  /\ final = [t \in Token |-> NoEnd] /\ phase = [t \in Token |-> "open"] /\ promoted = {}
  /\ pc = [a \in Actors |-> "new"] /\ eye = [a \in Actors |-> 0]
  /\ said = [c \in Callers |-> "none"]
  /\ tok = [c \in Callers |-> 0] /\ told = {}

Running == job.status = "running"
Goes(a, l) == pc' = [pc EXCEPT ![a] = l]
Awaits(a, t) == eye' = [eye EXCEPT ![a] = t]

(* A job ends, and who ended it carries its snapshot. *)
EndsAs(s, o) ==
  /\ job' = [job EXCEPT !.status = s, !.pending = 0, !.out = o]
  /\ final' = [final EXCEPT ![job.token] =
                 [status |-> s, out |-> o, background |-> job.background]]
  /\ phase' = [phase EXCEPT ![job.token] = "decided"]

-----------------------------------------------------------------------------
(* The fibers of a job.                                                     *)

FiberOnly == UNCHANGED <<job, settled, final, phase, promoted, calls, told>>
Becomes(t, n, s) == fiber' = [fiber EXCEPT ![t][n] = s]
TailDone(t, n)   == fiber[t][n] \in Exits \cup {"stopped"}

MutBeginAtOnce(t, n) ==
  fiber[t][n] = "accepted" /\ Becomes(t, n, "running") /\ FiberOnly

(* fork starts the run at once, or when the tail before it is done. *)
Begin(t, n) ==
  /\ fiber[t][n] = "accepted" /\ (n > 0 => TailDone(t, n - 1))
  /\ Becomes(t, n, "running") /\ FiberOnly

(* The run ends by itself, well or not, and resolves its tail. *)
RunEnds(t, n) ==
  fiber[t][n] = "running" /\ FiberOnly /\ \E e \in Exits : Becomes(t, n, e)

(* The close of the scope interrupts the fiber, which then settles nothing.   *)
(* Its wait for the tail before it is not interruptible.                       *)
Stop(t, n) ==
  /\ phase[t] = "closed" /\ fiber[t][n] \in {"accepted", "running"}
  /\ (n > 0 => TailDone(t, n - 1))
  /\ Becomes(t, n, "stopped") /\ FiberOnly

Exited(t, n) == fiber[t][n] \in Exits /\ n \notin settled[t]

(* The output is that of the latest prompt that has succeeded.  A run that was *)
(* interrupted from within ends the job as cancelled.                           *)
Count(t, n) ==
  LET ok  == fiber[t][n] = "ok"
      out == IF ok /\ n + 1 > job.out THEN n + 1 ELSE job.out IN
  /\ settled' = [settled EXCEPT ![t] = @ \cup {n}]
  /\ IF ok /\ job.pending > 1
     THEN job' = [job EXCEPT !.pending = @ - 1, !.out = out] /\ UNCHANGED <<final, phase>>
     ELSE \E s \in IF ok THEN {"completed"} ELSE {"error", "cancelled"} : EndsAs(s, out)
  /\ UNCHANGED <<fiber, promoted, calls, told>>

MutSettleAnyToken(t, n) == Exited(t, n) /\ Running /\ Count(t, n)

MutSettleEnded(t, n) == Exited(t, n) /\ job.token = t /\ Count(t, n)

(* settle: the job ends with its last prompt, or with the first that fails;   *)
(* it does nothing to a job that has ended or is not the fiber's own.          *)
Settle(t, n) == Exited(t, n) /\ job.token = t /\ Running /\ Count(t, n)

(* Whoever ended the job resolves done and then closes the scope. *)
Finish(t) ==
  /\ phase[t] = "decided" /\ phase' = [phase EXCEPT ![t] = "closed"]
  /\ UNCHANGED <<job, fiber, settled, final, promoted, calls, told>>

-----------------------------------------------------------------------------
(* The calls of the task tool.                                              *)

CallOnly == UNCHANGED <<jobs, told>>
Returns(c, w, t) ==
  /\ said' = [said EXCEPT ![c] = w] /\ tok' = [tok EXCEPT ![c] = t]
Answer(c, t, e) ==
  /\ Returns(c, IF e.background THEN "started"
                ELSE IF e.status = "completed" THEN "output"
                ELSE IF e.status = "error" THEN "failed" ELSE "cancelled", t)
  /\ Goes(c, "end") /\ Awaits(c, 0)

(* A running job takes the prompt as well. *)
Extend(c) ==
  /\ pc[c] = "new"
  /\ \/ /\ Running /\ job.next <= MaxExtends
        /\ job' = [job EXCEPT !.pending = @ + 1, !.next = @ + 1]
        /\ Becomes(job.token, job.next, "accepted")
        /\ Returns(c, "updated", job.token) /\ Goes(c, "end")
     \/ ~Running /\ Goes(c, "start") /\ UNCHANGED <<job, fiber, said, tok>>
  /\ UNCHANGED <<settled, final, phase, promoted, eye, told>>

(* A job somebody else has started by now is joined: its prompt stands.  In   *)
(* the background the call returns at once, and a fiber of its own notifies.    *)
Start(c) ==
  /\ pc[c] = "start"
  /\ \E background \in BOOLEAN :
       LET mine == [token |-> job.token + 1, status |-> "running", background |-> background,
                    pending |-> 1, next |-> 1, out |-> 0] IN
       /\ IF Running THEN UNCHANGED <<job, fiber>>
          ELSE job.token < MaxStarts /\ job' = mine /\ Becomes(mine.token, 0, "accepted")
       /\ IF background THEN Goes(c, "notify") /\ Returns(c, "started", job'.token)
          ELSE Goes(c, "watch") /\ UNCHANGED <<said, tok>>
  /\ UNCHANGED <<settled, final, phase, promoted, eye, told>>

(* In the foreground the call races wait against waitForPromotion, and both     *)
(* look the job up by its id.                                                    *)
Watch(c) ==
  /\ pc[c] = "watch" /\ CallOnly
  /\ \/ (Running => job.background) /\ Answer(c, job.token, job)
     \/ /\ Running /\ ~job.background
        /\ Awaits(c, job.token) /\ Goes(c, "waiting") /\ UNCHANGED <<said, tok>>

IsDone(t) == phase[t] = "closed"

Wake(c) ==
  /\ pc[c] = "waiting" /\ CallOnly
  /\ \/ IsDone(eye[c]) /\ Answer(c, eye[c], final[eye[c]])
     \/ eye[c] \in promoted /\ Answer(c, eye[c], [NoEnd EXCEPT !.background = TRUE])

(* The parent is aborted: the release cancels the job of the id, and waits     *)
(* until its scope is closed, with every fiber in it.                           *)
Abort(c) ==
  /\ pc[c] \in Watching /\ CallOnly /\ UNCHANGED <<said, tok>>
  /\ Goes(c, "release") /\ Awaits(c, 0)

Release(c) ==
  /\ pc[c] = "release"
  /\ \/ Running /\ EndsAs("cancelled", job.out) /\ Goes(c, "closing") /\ Awaits(c, job.token)
     \/ ~Running /\ Goes(c, "end") /\ UNCHANGED <<job, final, phase, eye>>
  /\ UNCHANGED <<fiber, settled, promoted, said, tok, told>>

Released(c) ==
  /\ pc[c] = "closing" /\ phase[eye[c]] = "closed"
  /\ \A n \in Seq : fiber[eye[c]][n] \notin {"accepted", "running"}
  /\ Goes(c, "end") /\ Awaits(c, 0) /\ CallOnly /\ UNCHANGED <<said, tok>>

(* notify: wait for the job of the id, then inject its result into the parent. *)
Tell(t, e) == told' = IF e.status \in {"completed", "error"} THEN told \cup {t} ELSE told

Notify(a) ==
  /\ pc[a] = "notify" /\ UNCHANGED <<jobs, said, tok>>
  /\ \/ ~Running /\ Tell(job.token, job) /\ Goes(a, "end") /\ UNCHANGED eye
     \/ Running /\ Awaits(a, job.token) /\ Goes(a, "noting") /\ UNCHANGED told

Inject(a) ==
  /\ pc[a] = "noting" /\ IsDone(eye[a]) /\ UNCHANGED <<jobs, said, tok>>
  /\ Tell(eye[a], final[eye[a]]) /\ Goes(a, "end") /\ Awaits(a, 0)

-----------------------------------------------------------------------------
(* Promotion and cancellation, by whoever asks for them.                    *)

(* The first promotion takes the hook of the job, onPromote, which it runs once *)
(* promoted is resolved: it notifies.                                           *)
Promote ==
  /\ Running /\ ~job.background
  /\ job' = [job EXCEPT !.background = TRUE] /\ Goes(job.token, "promoting")
  /\ UNCHANGED <<fiber, settled, final, phase, promoted, eye, said, tok, told>>

MutPromoteWithoutHook(t) ==
  /\ pc[t] = "promoting" /\ promoted' = promoted \cup {t} /\ Goes(t, "end")
  /\ UNCHANGED <<job, fiber, settled, final, phase, eye, said, tok, told>>

ResolvePromoted(t) ==
  /\ pc[t] = "promoting" /\ promoted' = promoted \cup {t} /\ Goes(t, "notify")
  /\ UNCHANGED <<job, fiber, settled, final, phase, eye, said, tok, told>>

Cancel ==
  Running /\ EndsAs("cancelled", job.out) /\ UNCHANGED <<fiber, settled, promoted, calls, told>>

-----------------------------------------------------------------------------
FiberStep(t, n) == Begin(t, n) \/ RunEnds(t, n) \/ Stop(t, n) \/ Settle(t, n)
CallStep(c) == Start(c) \/ Watch(c) \/ Wake(c) \/ Release(c) \/ Released(c)
NoteStep(a) == Notify(a) \/ Inject(a)

Next ==
  \/ \E t \in Token, n \in Seq : FiberStep(t, n)
  \/ \E t \in Token : Finish(t) \/ ResolvePromoted(t)
  \/ \E c \in Callers : Extend(c) \/ CallStep(c) \/ Abort(c)
  \/ \E a \in Actors : NoteStep(a)
  \/ Promote \/ Cancel

Spec == Init /\ [][Next]_vars

(* Fibers run, a prompt ends, and what has begun goes on.                     *)
Fairness ==
  /\ \A t \in Token, n \in Seq : WF_vars(FiberStep(t, n))
  /\ \A t \in Token : WF_vars(Finish(t)) /\ WF_vars(ResolvePromoted(t))
  /\ \A c \in Callers : WF_vars(CallStep(c))
  /\ \A a \in Actors : WF_vars(NoteStep(a))

FairSpec == Spec /\ Fairness

-----------------------------------------------------------------------------
(* The prompts of a job run one at a time and in the order they were given,   *)
(* until the job is over and its fibers are interrupted                       *)
(* (background-job.ts:260-286).                                               *)
WorkInOrder ==
  \A t \in Token, n \in Seq :
    phase[t] # "closed" /\ fiber[t][n] \in {"running"} \cup Exits
      => \A m \in Seq : m < n => TailDone(t, m)

(* A job completes when every prompt it took has succeeded, and its output is  *)
(* the one of the last, in whatever order they settle: pending counts them,     *)
(* also against the late fibers of earlier jobs (background-job.ts:134-150).    *)
CompletesWithLast ==
  \A t \in Token : final[t].status = "completed" =>
    /\ final[t].out > 0
    /\ \A n \in Seq : fiber[t][n] = IF n < final[t].out THEN "ok" ELSE "none"

(* The first end of a job stands: a cancel, a failure and the last success      *)
(* race, and what the waiters are told is what the registry says                *)
(* (background-job.ts:137, 342).                                                 *)
OutcomeStands ==
  [][\A t \in Token :
       /\ final[t].status # "none" => final'[t] = final[t]
       /\ phase[t] # "open" /\ job'.token = t => job'.status = final[t].status]_vars

Unheard(c) ==
  \/ pc[c] \in Watching
  \/ /\ said[c] = "started" /\ tok[c] \notin told
     /\ job.token = tok[c] /\ final[tok[c]].status # "cancelled"

Lingering == \E t \in Token, n \in Seq : IsDone(t) /\ fiber[t][n] \in {"accepted", "running"}

(* A call in the foreground returns; one that was told its task runs in the     *)
(* background has the result injected, unless the job is cancelled or the id     *)
(* is started anew; and no work goes on for a job that has ended (task.ts:246,   *)
(* 324-347; background-job.ts:166-169).                                           *)
EveryoneHears == (\A c \in Callers : []<>~Unheard(c)) /\ []<>~Lingering

-----------------------------------------------------------------------------
(* What the properties rest on: the inductive invariants of                    *)
(* BackgroundJobProofs.                                                        *)

(* The jobs of the id follow each other, and the latest is its entry. *)
Succession ==
  \A t \in Token :
    /\ phase[t] = "open" <=> final[t].status = "none"
    /\ t < job.token => phase[t] # "open"
    /\ t = job.token => job.status = IF phase[t] = "open" THEN "running" ELSE final[t].status
    /\ t > job.token => phase[t] = "open" /\ \A n \in Seq : fiber[t][n] = "none"

Accepted ==
  \A t \in Token, n \in Seq :
    /\ fiber[t][n] = "stopped" => phase[t] = "closed"
    /\ n \in settled[t] => fiber[t][n] \in Exits
    /\ t = job.token => (fiber[t][n] # "none" <=> n < job.next)

(* pending counts the prompts of a running job that have not settled, and what *)
(* has settled has succeeded.                                                   *)
Unsettled == {n \in Seq : n < job.next /\ n \notin settled[job.token]}

Counted ==
  Running =>
    /\ job.pending = Cardinality(Unsettled) /\ job.out <= job.next
    /\ \A n \in Seq : n \in settled[job.token] => fiber[job.token][n] = "ok" /\ n < job.out

JobInv == Succession /\ Accepted /\ Counted /\ WorkInOrder /\ CompletesWithLast

(* Somebody holds the duty to tell the parent about a job: the call that was  *)
(* started in the background, or the hook of its promotion.                    *)
Notes(a, t) ==
  \/ pc[a] = "noting" /\ eye[a] = t
  \/ a \in Callers /\ pc[a] = "notify" /\ tok[a] = t
  \/ a = t /\ pc[a] \in {"promoting", "notify"}

CaredFor(t) ==
  t \in told \/ final[t].status = "cancelled" \/ \E a \in Actors : Notes(a, t)

InBackground(t) == IF t = job.token THEN job.background ELSE final[t].background

(* The tokens that actors hold are of jobs that were started, and a job that   *)
(* went to the background is cared for while it is the latest.                  *)
Minded ==
  /\ \A a \in Actors : eye[a] <= job.token
  /\ \A c \in Callers : tok[c] <= job.token /\ (said[c] = "started" => tok[c] \in Token)
  /\ \A t \in Token : final[t].background => t <= job.token
  /\ \A t \in Token : t \in promoted \/ pc[t] = "promoting" => InBackground(t)
  /\ job.token \in Token /\ ~Running => final[job.token].background = job.background
  /\ job.background => job.token \in Token /\ CaredFor(job.token)
  /\ \A c \in Callers : said[c] = "started" /\ tok[c] = job.token => CaredFor(tok[c])

(* A running job has a prompt that has yet to settle. *)
Busy ==
  Running => /\ job.pending > 0
             /\ \E n \in Seq : \/ fiber[job.token][n] \in {"accepted", "running"}
                               \/ Exited(job.token, n)

(* What can be said of EveryoneHears without time: nobody waits for nothing.  A *)
(* job somebody awaits has ended, is being ended, or runs with a prompt that    *)
(* has yet to settle; and a call that was told its job runs in the background,   *)
(* as long as the id was not started anew, has its result injected or somebody   *)
(* with the duty to do so, unless the job is cancelled (task.ts:245-254, 324-334; *)
(* background-job.ts:310-335).                                                    *)
ResultOnItsWay ==
  /\ \A a \in Actors : pc[a] \in {"waiting", "noting", "closing"} =>
       \/ phase[eye[a]] # "open"
       \/ eye[a] = job.token /\ Running /\ Busy
  /\ \A c \in Callers : said[c] = "started" /\ tok[c] = job.token => CaredFor(tok[c])

=============================================================================

------------------------- MODULE BackgroundJobProofs -------------------------
(* Proofs about BackgroundJob, for any number of callers, jobs and extensions. *)
EXTENDS BackgroundJob, FiniteSetTheorems, TLAPS

USE DEF Ends, Exits, NoEnd, Running, FiberOnly, Becomes, TailDone, jobs

LEMMA Ranges ==
  /\ \A t : t \in Token <=> t \in Nat /\ 0 < t /\ t <= MaxStarts
  /\ \A n : n \in Seq <=> n \in Nat /\ n <= MaxExtends
  BY JobAssumption DEF Token, Seq

(* What a settlement does: one prompt less, or the end of the job. *)
Out(n) == IF n + 1 > job.out THEN n + 1 ELSE job.out

Settles(t, n) ==
  /\ Exited(t, n) /\ job.token = t /\ Running
  /\ settled' = [settled EXCEPT ![t] = settled[t] \cup {n}] /\ UNCHANGED fiber

CountsDown(t, n) ==
  /\ fiber[t][n] = "ok" /\ job.pending > 1 /\ UNCHANGED <<final, phase>>
  /\ job' = [job EXCEPT !.pending = job.pending - 1, !.out = Out(n)]

Over(t, n, s, o) ==
  \/ fiber[t][n] = "ok" /\ ~(job.pending > 1) /\ s = "completed" /\ o = Out(n)
  \/ fiber[t][n] = "bad" /\ s \in {"error", "cancelled"} /\ o = job.out

Outs == 0..(MaxExtends + 1)

LEMMA SettleCases ==
  ASSUME JobTypes, NEW t \in Token, NEW n \in Seq, Settle(t, n)
  PROVE  /\ Settles(t, n)
         /\ \/ CountsDown(t, n)
            \/ \E s \in Ends, o \in Outs : Over(t, n, s, o) /\ EndsAs(s, o)
<1>1. Out(n) \in Outs /\ job.out \in Outs
  BY Ranges, JobAssumption DEF Out, Outs, JobTypes
<1>2. Settles(t, n)
  BY DEF Settle, Count, Settles
<1>3. CASE fiber[t][n] = "ok" /\ job.pending > 1
  BY <1>3, <1>2 DEF Settle, Count, Out, CountsDown
<1>4. CASE fiber[t][n] = "ok" /\ ~(job.pending > 1)
  <2>1. EndsAs("completed", Out(n))
    BY <1>4 DEF Settle, Count, Out
  <2> QED BY <1>1, <1>2, <1>4, <2>1 DEF Over
<1>5. CASE fiber[t][n] = "bad"
  <2>1. \E s \in {"error", "cancelled"} : EndsAs(s, job.out)
    BY <1>5 DEF Settle, Count
  <2> QED BY <1>1, <1>2, <1>5, <2>1 DEF Over
<1> QED BY <1>3, <1>4, <1>5 DEF Settle, Exited

(* What a step does to the registry. *)
Registry == <<job, fiber, settled, final, phase>>

Takes ==
  /\ Running /\ job.next <= MaxExtends
  /\ job' = [job EXCEPT !.pending = job.pending + 1, !.next = job.next + 1]
  /\ fiber' = [fiber EXCEPT ![job.token][job.next] = "accepted"]
  /\ UNCHANGED <<settled, final, phase>>

Starts ==
  /\ ~Running /\ job.token < MaxStarts
  /\ \E b \in BOOLEAN :
       job' = [token |-> job.token + 1, status |-> "running", background |-> b,
               pending |-> 1, next |-> 1, out |-> 0]
  /\ fiber' = [fiber EXCEPT ![job.token + 1][0] = "accepted"]
  /\ UNCHANGED <<settled, final, phase>>

Cancels == Running /\ EndsAs("cancelled", job.out) /\ UNCHANGED <<fiber, settled>>
Promotes ==
  /\ Running /\ job' = [job EXCEPT !.background = TRUE]
  /\ UNCHANGED <<fiber, settled, final, phase>>

Moves(t, n, from, to) ==
  /\ fiber[t][n] \in from /\ fiber' = [fiber EXCEPT ![t][n] = to]
  /\ UNCHANGED <<job, settled, final, phase>>

LEMMA RegistryStep ==
  ASSUME JobTypes, [Next]_vars
  PROVE  \/ UNCHANGED Registry
         \/ \E t \in Token, n \in Seq :
              \/ Moves(t, n, {"accepted"}, "running") /\ (n > 0 => TailDone(t, n - 1))
              \/ \E e \in Exits : Moves(t, n, {"running"}, e)
              \/ phase[t] = "closed" /\ Moves(t, n, {"accepted", "running"}, "stopped")
              \/ Settles(t, n) /\ CountsDown(t, n)
              \/ \E s \in Ends, o \in Outs : Settles(t, n) /\ Over(t, n, s, o) /\ EndsAs(s, o)
         \/ \E t \in Token :
              /\ phase[t] = "decided" /\ phase' = [phase EXCEPT ![t] = "closed"]
              /\ UNCHANGED <<job, fiber, settled, final>>
         \/ Takes \/ Starts \/ Cancels \/ Promotes
<1>1. ASSUME NEW t \in Token, NEW n \in Seq, FiberStep(t, n)
      PROVE  \/ Moves(t, n, {"accepted"}, "running") /\ (n > 0 => TailDone(t, n - 1))
             \/ \E e \in Exits : Moves(t, n, {"running"}, e)
             \/ phase[t] = "closed" /\ Moves(t, n, {"accepted", "running"}, "stopped")
             \/ Settles(t, n) /\ CountsDown(t, n)
             \/ \E s \in Ends, o \in Outs : Settles(t, n) /\ Over(t, n, s, o) /\ EndsAs(s, o)
  BY <1>1, SettleCases DEF FiberStep, Begin, RunEnds, Stop, Moves
<1>2. ASSUME NEW t \in Token, ResolvePromoted(t) PROVE UNCHANGED Registry
  BY <1>2 DEF ResolvePromoted, Registry
<1>3. ASSUME NEW c \in Callers, Watch(c) \/ Wake(c) \/ Released(c) \/ Abort(c)
      PROVE  UNCHANGED Registry
  BY <1>3 DEF Watch, Wake, Released, Abort, CallOnly, Registry
<1>4. ASSUME NEW c \in Callers, Extend(c) PROVE Takes \/ UNCHANGED Registry
  BY <1>4 DEF Extend, Takes, Registry
<1>5. ASSUME NEW c \in Callers, Start(c) PROVE Starts \/ UNCHANGED Registry
  BY <1>5 DEF Start, Starts, Registry
<1>6. ASSUME NEW c \in Callers, Release(c) PROVE Cancels \/ UNCHANGED Registry
  BY <1>6 DEF Release, Cancels, Registry
<1>7. ASSUME NEW a \in Actors, NoteStep(a) PROVE UNCHANGED Registry
  BY <1>7 DEF NoteStep, Notify, Inject, Registry
<1>8. Promote => Promotes
  BY DEF Promote, Promotes
<1>9. Cancel => Cancels
  BY DEF Cancel, Cancels
<1>10. UNCHANGED vars => UNCHANGED Registry
  BY DEF vars, Registry
<1>11. ASSUME NEW t \in Token, Finish(t)
       PROVE  /\ phase[t] = "decided" /\ phase' = [phase EXCEPT ![t] = "closed"]
              /\ UNCHANGED <<job, fiber, settled, final>>
  BY <1>11 DEF Finish
<1> QED BY <1>1, <1>2, <1>3, <1>4, <1>5, <1>6, <1>7, <1>8, <1>9, <1>10, <1>11
    DEF Next, CallStep

(* The changes point by point. *)
Ended(s, o) ==
  /\ job.token \in Token
  /\ job' \in [token : 0..MaxStarts, status : Ends, background : BOOLEAN,
               pending : Nat, next : Outs, out : Outs]
  /\ job'.token = job.token /\ job'.status = s /\ job'.next = job.next
  /\ job'.pending = 0 /\ job'.out = o
  /\ final' \in [Token -> [status : Ends \cup {"none"}, out : Outs, background : BOOLEAN]]
  /\ final'[job.token].status = s /\ final'[job.token].out = o
  /\ phase' \in [Token -> {"open", "decided", "closed"}] /\ phase'[job.token] = "decided"
  /\ \A u \in Token : u # job.token => final'[u] = final[u] /\ phase'[u] = phase[u]

Counts(t, n) ==
  /\ settled' \in [Token -> SUBSET Seq] /\ settled'[t] = settled[t] \cup {n}
  /\ \A u \in Token : u # t => settled'[u] = settled[u]

Lowers(n) ==
  /\ job' \in [token : 0..MaxStarts, status : {"running"}, background : BOOLEAN,
               pending : Nat, next : Outs, out : Outs]
  /\ job'.token = job.token /\ job'.status = job.status /\ job'.next = job.next
  /\ job'.pending = job.pending - 1 /\ job'.out = Out(n)

Extended ==
  /\ job.token \in Token /\ job.next \in Seq
  /\ job' \in [token : 0..MaxStarts, status : {"running"}, background : BOOLEAN,
               pending : Nat, next : Outs, out : Outs]
  /\ job'.token = job.token /\ job'.status = job.status /\ job'.next = job.next + 1
  /\ job'.pending = job.pending + 1 /\ job'.out = job.out
  /\ fiber'[job.token][job.next] = "accepted"
  /\ \A u \in Token, m \in Seq :
       u # job.token \/ m # job.next => fiber'[u][m] = fiber[u][m]

Started ==
  /\ job.token + 1 \in Token /\ 0 \in Seq
  /\ job' \in [token : 0..MaxStarts, status : {"running"}, background : BOOLEAN,
               pending : Nat, next : Outs, out : Outs]
  /\ job'.token = job.token + 1 /\ job'.status = "running" /\ job'.next = 1
  /\ job'.pending = 1 /\ job'.out = 0
  /\ fiber'[job.token + 1][0] = "accepted"
  /\ \A u \in Token, m \in Seq :
       u # job.token + 1 \/ m # 0 => fiber'[u][m] = fiber[u][m]

LEMMA EndFacts ==
  ASSUME JobTypes, Running, NEW s \in Ends, NEW o \in Outs, EndsAs(s, o)
  PROVE  Ended(s, o)
<1> USE Ranges, JobAssumption DEF JobTypes, EndsAs, Outs
<1>1. job.token \in Token
  OBVIOUS
<1>2. /\ job' \in [token : 0..MaxStarts, status : Ends, background : BOOLEAN,
                   pending : Nat, next : Outs, out : Outs]
      /\ job'.token = job.token /\ job'.status = s /\ job'.next = job.next
      /\ job'.pending = 0 /\ job'.out = o
  OBVIOUS
<1>3. [status |-> s, out |-> o, background |-> job.background]
        \in [status : Ends \cup {"none"}, out : Outs, background : BOOLEAN]
  OBVIOUS
<1>4. /\ final' \in [Token -> [status : Ends \cup {"none"}, out : Outs, background : BOOLEAN]]
      /\ final'[job.token] = [status |-> s, out |-> o, background |-> job.background]
      /\ \A u \in Token : u # job.token => final'[u] = final[u]
  BY <1>1, <1>3
<1>5. /\ phase' \in [Token -> {"open", "decided", "closed"}] /\ phase'[job.token] = "decided"
      /\ \A u \in Token : u # job.token => phase'[u] = phase[u]
  BY <1>1
<1> QED BY <1>1, <1>2, <1>4, <1>5 DEF Ended

LEMMA CountFacts ==
  ASSUME JobTypes, NEW t \in Token, NEW n \in Seq, Settles(t, n)
  PROVE  Counts(t, n)
  BY DEF Settles, JobTypes, Counts

LEMMA DownFacts ==
  ASSUME JobTypes, NEW t \in Token, NEW n \in Seq, CountsDown(t, n), Settles(t, n)
  PROVE  Lowers(n)
<1>1. Out(n) \in Outs
  BY Ranges, JobAssumption DEF Out, Outs, JobTypes
<1>2. job.pending - 1 \in Nat /\ job.token \in 0..MaxStarts /\ job.next \in Outs
  BY JobAssumption DEF CountsDown, JobTypes, Outs
<1>3. job' = [token |-> job.token, status |-> "running", background |-> job.background,
              pending |-> job.pending - 1, next |-> job.next, out |-> Out(n)]
  BY DEF Settles, CountsDown, JobTypes
<1>4. job.background \in BOOLEAN /\ job.status = "running"
  BY DEF Settles, JobTypes
<1> QED BY <1>1, <1>2, <1>3, <1>4 DEF Lowers

LEMMA TakeFacts == ASSUME JobTypes, Takes PROVE Extended
<1> USE Ranges, JobAssumption DEF JobTypes, Outs
<1>1. job.token \in Token /\ job.next \in Seq
  BY DEF Takes
<1>2. /\ job' \in [token : 0..MaxStarts, status : {"running"}, background : BOOLEAN,
                   pending : Nat, next : Outs, out : Outs]
      /\ job'.token = job.token /\ job'.status = job.status /\ job'.next = job.next + 1
      /\ job'.pending = job.pending + 1 /\ job'.out = job.out
  <2>1. job' = [token |-> job.token, status |-> "running", background |-> job.background,
                pending |-> job.pending + 1, next |-> job.next + 1, out |-> job.out]
    BY DEF Takes
  <2>2. job.pending + 1 \in Nat /\ job.next + 1 \in Outs
    BY DEF Takes
  <2>3. /\ job.token \in 0..MaxStarts /\ job.background \in BOOLEAN /\ job.out \in Outs
        /\ job.status = "running"
    BY DEF Takes
  <2> QED BY <2>1, <2>2, <2>3
<1> QED BY <1>1, <1>2 DEF Takes, Extended

LEMMA StartFacts == ASSUME JobTypes, Starts PROVE Started
<1>1. job.token + 1 \in Token /\ 0 \in Seq
  <2>1. job.token \in Nat /\ job.token < MaxStarts
    BY JobAssumption DEF Starts, JobTypes
  <2> QED BY <2>1, JobAssumption DEF Token, Seq
<1> USE Ranges, JobAssumption DEF JobTypes, Outs
<1>2. /\ job' \in [token : 0..MaxStarts, status : {"running"}, background : BOOLEAN,
                   pending : Nat, next : Outs, out : Outs]
      /\ job'.token = job.token + 1 /\ job'.status = "running" /\ job'.next = 1
      /\ job'.pending = 1 /\ job'.out = 0
  <2>1. PICK b \in BOOLEAN :
          job' = [token |-> job.token + 1, status |-> "running", background |-> b,
                  pending |-> 1, next |-> 1, out |-> 0]
    BY DEF Starts
  <2>2. job.token + 1 \in 0..MaxStarts /\ 0 \in Outs /\ 1 \in Outs /\ 1 \in Nat
    BY <1>1
  <2> HIDE DEF JobTypes, Outs
  <2> QED BY <2>1, <2>2
<1> QED BY <1>1, <1>2 DEF Starts, Started

(* Every step of the registry, in those terms. *)
LEMMA PointStep ==
  ASSUME JobTypes, [Next]_vars
  PROVE  \/ UNCHANGED Registry
         \/ \E t \in Token, n \in Seq :
              \/ Moves(t, n, {"accepted"}, "running") /\ (n > 0 => TailDone(t, n - 1))
              \/ \E e \in Exits : Moves(t, n, {"running"}, e)
              \/ phase[t] = "closed" /\ Moves(t, n, {"accepted", "running"}, "stopped")
              \/ Settles(t, n) /\ Counts(t, n) /\ CountsDown(t, n) /\ Lowers(n)
              \/ \E s \in Ends, o \in Outs :
                   Settles(t, n) /\ Counts(t, n) /\ Over(t, n, s, o) /\ Ended(s, o)
         \/ \E t \in Token :
              /\ phase[t] = "decided" /\ phase' = [phase EXCEPT ![t] = "closed"]
              /\ UNCHANGED <<job, fiber, settled, final>>
         \/ Takes /\ Extended
         \/ Starts /\ Started
         \/ Cancels /\ Ended("cancelled", job.out)
         \/ Promotes
<1>1. ASSUME NEW t \in Token, NEW n \in Seq, Settles(t, n)
      PROVE  /\ Counts(t, n) /\ Running
             /\ CountsDown(t, n) => Lowers(n)
  BY <1>1, CountFacts, DownFacts DEF Settles
<1>2. \A s \in Ends, o \in Outs : Running /\ EndsAs(s, o) => Ended(s, o)
  BY EndFacts
<1>3. Cancels => Running /\ EndsAs("cancelled", job.out)
  BY DEF Cancels
<1>4. job.out \in Outs
  BY DEF Outs, JobTypes
<1> QED BY <1>1, <1>2, <1>3, <1>4, RegistryStep, TakeFacts, StartFacts

LEMMA JobTypesStep == ASSUME JobTypes, [Next]_vars PROVE JobTypes'
<1> USE Ranges, JobAssumption DEF JobTypes
<1>1. CASE UNCHANGED Registry
  BY <1>1 DEF Registry
<1>2. ASSUME NEW t \in Token, NEW n \in Seq, Moves(t, n, {"accepted"}, "running"),
             n > 0 => TailDone(t, n - 1)
      PROVE  JobTypes'
  BY <1>2 DEF Moves
<1>3. ASSUME NEW t \in Token, NEW n \in Seq, NEW e \in Exits, Moves(t, n, {"running"}, e)
      PROVE  JobTypes'
  BY <1>3 DEF Moves
<1>4. ASSUME NEW t \in Token, NEW n \in Seq, phase[t] = "closed",
             Moves(t, n, {"accepted", "running"}, "stopped")
      PROVE  JobTypes'
  BY <1>4 DEF Moves
<1>5. ASSUME NEW t \in Token, NEW n \in Seq,
             Settles(t, n), Counts(t, n), CountsDown(t, n), Lowers(n)
      PROVE  JobTypes'
  BY <1>5 DEF Settles, Counts, CountsDown, Lowers, Exited, Outs
<1>11. ASSUME NEW t \in Token, NEW n \in Seq, NEW s \in Ends, NEW o \in Outs,
              Settles(t, n), Counts(t, n), Over(t, n, s, o), Ended(s, o)
       PROVE  JobTypes'
  BY <1>11 DEF Settles, Counts, Over, Ended, Outs, Exited
<1>6. ASSUME NEW t \in Token, phase[t] = "decided", phase' = [phase EXCEPT ![t] = "closed"],
             UNCHANGED <<job, fiber, settled, final>>
      PROVE  JobTypes'
  BY <1>6
<1>7. CASE Takes /\ Extended
  BY <1>7 DEF Takes, Extended, Outs
<1>8. CASE Starts /\ Started
  BY <1>8 DEF Starts, Started, Outs
<1>9. CASE Cancels /\ Ended("cancelled", job.out)
  BY <1>9 DEF Cancels, Ended, Outs
<1>10. CASE Promotes
  BY <1>10 DEF Promotes
<1> QED BY PointStep, <1>1, <1>2, <1>3, <1>4, <1>5, <1>6, <1>7, <1>8, <1>9, <1>10, <1>11

(* A job that has ended stays ended, and only then does the next begin. *)
LEMMA SuccessionStep ==
  ASSUME JobTypes, JobTypes', Succession, [Next]_vars
  PROVE  Succession'
<1> USE Ranges, JobAssumption DEF JobTypes, Succession
<1>1. CASE UNCHANGED Registry
  BY <1>1 DEF Registry
<1>2. ASSUME NEW t \in Token, NEW n \in Seq, Moves(t, n, {"accepted"}, "running"),
             n > 0 => TailDone(t, n - 1)
      PROVE  Succession'
  BY <1>2 DEF Moves
<1>3. ASSUME NEW t \in Token, NEW n \in Seq, NEW e \in Exits, Moves(t, n, {"running"}, e)
      PROVE  Succession'
  BY <1>3 DEF Moves
<1>4. ASSUME NEW t \in Token, NEW n \in Seq, phase[t] = "closed",
             Moves(t, n, {"accepted", "running"}, "stopped")
      PROVE  Succession'
  BY <1>4 DEF Moves
<1>5. ASSUME NEW t \in Token, NEW n \in Seq,
             Settles(t, n), Counts(t, n), CountsDown(t, n), Lowers(n)
      PROVE  Succession'
  BY <1>5 DEF Settles, Counts, CountsDown, Lowers, Exited, Outs
<1>11. ASSUME NEW t \in Token, NEW n \in Seq, NEW s \in Ends, NEW o \in Outs,
              Settles(t, n), Counts(t, n), Over(t, n, s, o), Ended(s, o)
       PROVE  Succession'
  BY <1>11 DEF Settles, Counts, Over, Ended, Outs, Exited
<1>6. ASSUME NEW t \in Token, phase[t] = "decided", phase' = [phase EXCEPT ![t] = "closed"],
             UNCHANGED <<job, fiber, settled, final>>
      PROVE  Succession'
  BY <1>6
<1>7. CASE Takes /\ Extended
  BY <1>7 DEF Takes, Extended, Outs
<1>8. CASE Starts /\ Started
  <2> SUFFICES ASSUME NEW t \in Token
               PROVE  /\ phase[t] = "open" <=> final[t].status = "none"
                      /\ t < job'.token => phase[t] # "open"
                      /\ t = job'.token =>
                           job'.status = IF phase[t] = "open" THEN "running" ELSE final[t].status
                      /\ t > job'.token => phase[t] = "open"
                           /\ \A n \in Seq : fiber'[t][n] = "none"
    BY <1>8 DEF Starts
  <2>1. /\ job'.token = job.token + 1 /\ job'.status = "running" /\ job.status # "running"
        /\ job.token \in Nat /\ t \in Nat
        /\ \A u \in Token, m \in Seq : u # job.token + 1 => fiber'[u][m] = fiber[u][m]
    BY <1>8 DEF Starts, Started
  <2>2. CASE t > job.token
    BY <2>1, <2>2
  <2>3. CASE t = job.token
    BY <2>1, <2>3
  <2>4. CASE t < job.token
    BY <2>1, <2>4
  <2> HIDE DEF JobTypes, Succession
  <2>5. t > job.token \/ t = job.token \/ t < job.token
    BY <2>1
  <2> QED BY <2>2, <2>3, <2>4, <2>5
<1>9. CASE Cancels /\ Ended("cancelled", job.out)
  BY <1>9 DEF Cancels, Ended, Outs
<1>10. CASE Promotes
  BY <1>10 DEF Promotes
<1> QED BY PointStep, <1>1, <1>2, <1>3, <1>4, <1>5, <1>6, <1>7, <1>8, <1>9, <1>10, <1>11

(* Fibers are stopped only by the close of their scope. *)
LEMMA AcceptedStep ==
  ASSUME JobTypes, JobTypes', Succession, Accepted, [Next]_vars
  PROVE  Accepted'
<1> USE Ranges, JobAssumption DEF JobTypes, Succession, Accepted
<1>1. CASE UNCHANGED Registry
  BY <1>1 DEF Registry
<1>2. ASSUME NEW t \in Token, NEW n \in Seq, Moves(t, n, {"accepted"}, "running"),
             n > 0 => TailDone(t, n - 1)
      PROVE  Accepted'
  BY <1>2 DEF Moves
<1>3. ASSUME NEW t \in Token, NEW n \in Seq, NEW e \in Exits, Moves(t, n, {"running"}, e)
      PROVE  Accepted'
  BY <1>3 DEF Moves
<1>4. ASSUME NEW t \in Token, NEW n \in Seq, phase[t] = "closed",
             Moves(t, n, {"accepted", "running"}, "stopped")
      PROVE  Accepted'
  BY <1>4 DEF Moves
<1>5. ASSUME NEW t \in Token, NEW n \in Seq,
             Settles(t, n), Counts(t, n), CountsDown(t, n), Lowers(n)
      PROVE  Accepted'
  BY <1>5 DEF Settles, Counts, CountsDown, Lowers, Exited, Outs
<1>11. ASSUME NEW t \in Token, NEW n \in Seq, NEW s \in Ends, NEW o \in Outs,
              Settles(t, n), Counts(t, n), Over(t, n, s, o), Ended(s, o)
       PROVE  Accepted'
  <2> SUFFICES ASSUME NEW u \in Token, NEW m \in Seq
               PROVE  /\ fiber[u][m] = "stopped" => phase'[u] = "closed"
                      /\ m \in settled'[u] => fiber[u][m] \in Exits
                      /\ u = job'.token => (fiber[u][m] # "none" <=> m < job'.next)
    BY <1>11 DEF Settles, Cancels
  <2>1. job.status = "running" /\ phase[job.token] = "open" /\ job.token \in Token
    BY <1>11 DEF Settles, Ended, Cancels
  <2>2. fiber[u][m] = "stopped" => phase'[u] = "closed"
    BY <1>11, <2>1 DEF Ended
  <2>3. m \in settled'[u] => fiber[u][m] \in Exits
    BY <1>11 DEF Settles, Counts, Exited
  <2> QED BY <1>11, <2>2, <2>3 DEF Ended
<1>6. ASSUME NEW t \in Token, phase[t] = "decided", phase' = [phase EXCEPT ![t] = "closed"],
             UNCHANGED <<job, fiber, settled, final>>
      PROVE  Accepted'
  BY <1>6
<1>7. CASE Takes /\ Extended
  BY <1>7 DEF Takes, Extended, Outs
<1>8. CASE Starts /\ Started
  BY <1>8 DEF Starts, Started, Outs
<1>9. CASE Cancels /\ Ended("cancelled", job.out)
  <2> SUFFICES ASSUME NEW u \in Token, NEW m \in Seq
               PROVE  /\ fiber[u][m] = "stopped" => phase'[u] = "closed"
                      /\ m \in settled'[u] => fiber[u][m] \in Exits
                      /\ u = job'.token => (fiber[u][m] # "none" <=> m < job'.next)
    BY <1>9 DEF Settles, Cancels
  <2>1. job.status = "running" /\ phase[job.token] = "open" /\ job.token \in Token
    BY <1>9 DEF Settles, Ended, Cancels
  <2>2. fiber[u][m] = "stopped" => phase'[u] = "closed"
    BY <1>9, <2>1 DEF Ended
  <2>3. m \in settled'[u] => fiber[u][m] \in Exits
    BY <1>9 DEF Cancels
  <2> QED BY <1>9, <2>2, <2>3 DEF Ended
<1>10. CASE Promotes
  BY <1>10 DEF Promotes
<1> QED BY PointStep, <1>1, <1>2, <1>3, <1>4, <1>5, <1>6, <1>7, <1>8, <1>9, <1>10, <1>11

(* The prompts below k that are not in S. *)
Left(k, S) == {n \in Seq : n < k /\ n \notin S}

LEMMA LeftFinite == \A k, S : IsFiniteSet(Left(k, S)) /\ Cardinality(Left(k, S)) \in Nat
<1>1. IsFiniteSet(Seq)
  BY FS_Interval, JobAssumption DEF Seq
<1>2. \A k, S : Left(k, S) \subseteq Seq
  BY DEF Left
<1> QED BY <1>1, <1>2, FS_Subset, FS_CardinalityType

LEMMA LeftTakes ==
  ASSUME NEW k \in Seq, NEW S, k \notin S
  PROVE  Cardinality(Left(k + 1, S)) = Cardinality(Left(k, S)) + 1
<1>1. k \notin Left(k, S)
  BY JobAssumption DEF Left, Seq
<1>2. Left(k + 1, S) = Left(k, S) \cup {k}
  BY JobAssumption DEF Left, Seq
<1> QED BY <1>1, <1>2, LeftFinite, FS_AddElement

LEMMA LeftSettles ==
  ASSUME NEW k, NEW S, NEW n \in Left(k, S)
  PROVE  /\ Cardinality(Left(k, S \cup {n})) = Cardinality(Left(k, S)) - 1
         /\ Cardinality(Left(k, S)) <= 1 => Left(k, S \cup {n}) = {}
<1>1. Left(k, S \cup {n}) = Left(k, S) \ {n}
  BY DEF Left
<1>2. Cardinality(Left(k, S) \ {n}) = Cardinality(Left(k, S)) - 1
  BY LeftFinite, FS_RemoveElement
<1>3. IsFiniteSet(Left(k, S \cup {n})) /\ Cardinality(Left(k, S \cup {n})) \in Nat
  BY LeftFinite
<1>4. Cardinality(Left(k, S)) \in Nat
  BY LeftFinite
<1>5. ASSUME Cardinality(Left(k, S)) <= 1 PROVE Left(k, S \cup {n}) = {}
  <2>1. Cardinality(Left(k, S \cup {n})) = 0
    BY <1>1, <1>2, <1>3, <1>4, <1>5
  <2> QED BY <1>3, <2>1, FS_EmptySet
<1> QED BY <1>1, <1>2, <1>5

LEMMA LeftStarts == ASSUME NEW S, 0 \notin S PROVE Cardinality(Left(1, S)) = 1
<1>1. Left(1, S) = {0}
  BY JobAssumption DEF Left, Seq
<1> QED BY <1>1, FS_Singleton

LEMMA CountedFrame ==
  ASSUME Counted, settled' = settled,
         job'.token = job.token, job'.status = job.status, job'.pending = job.pending,
         job'.next = job.next, job'.out = job.out,
         \A n \in Seq : fiber[job.token][n] = "ok" => fiber'[job.token][n] = "ok"
  PROVE  Counted'
<1>1. Unsettled' = Unsettled
  BY DEF Unsettled
<1> QED BY <1>1 DEF Counted

(* pending and the settled fibers agree. *)
LEMMA CountedStep ==
  ASSUME JobTypes, Succession, Accepted, Counted, [Next]_vars
  PROVE  Counted'
<1>1. CASE UNCHANGED Registry
  BY <1>1, CountedFrame DEF Registry
<1>2. ASSUME NEW t \in Token, NEW n \in Seq, NEW from, NEW to,
             Moves(t, n, from, to), "ok" \notin from
      PROVE  Counted'
  <2>1. \A m \in Seq : fiber[job.token][m] = "ok" => fiber'[job.token][m] = "ok"
    BY <1>2 DEF Moves, JobTypes
  <2>2. settled' = settled /\ job' = job
    BY <1>2 DEF Moves
  <2> QED BY <2>1, <2>2, CountedFrame
<1>3. ASSUME NEW t \in Token, NEW n \in Seq, Settles(t, n)
      PROVE  /\ job.token = t /\ n \in Nat /\ job.next \in Nat /\ job.out \in Nat
             /\ fiber' = fiber /\ n \in Unsettled /\ n < job.next
             /\ Unsettled = Left(job.next, settled[t])
             /\ Running /\ job.pending = Cardinality(Unsettled) /\ job.out <= job.next
             /\ \A m \in Seq : m \in settled[t] => fiber[t][m] = "ok" /\ m < job.out
  <2>1. job.token = t /\ Running /\ fiber' = fiber
    BY <1>3 DEF Settles
  <2>2. n < job.next /\ n \notin settled[t]
    BY <1>3, <2>1 DEF Settles, Exited, Accepted
  <2>3. n \in Unsettled /\ Unsettled = Left(job.next, settled[t])
    BY <2>1, <2>2 DEF Unsettled, Left
  <2>4. n \in Nat /\ job.next \in Nat /\ job.out \in Nat
    BY JobAssumption DEF JobTypes, Seq
  <2> QED BY <2>1, <2>2, <2>3, <2>4 DEF Counted
<1>4. ASSUME NEW t \in Token, NEW n \in Seq,
             Settles(t, n), Counts(t, n), CountsDown(t, n), Lowers(n)
      PROVE  Counted'
  <2>1. settled'[t] = settled[t] \cup {n} /\ job'.token = t /\ job'.next = job.next
    BY <1>3, <1>4 DEF Counts, Lowers
  <2>2. Unsettled' = Left(job.next, settled[t] \cup {n})
    BY <2>1 DEF Unsettled, Left
  <2>3. Cardinality(Unsettled') = job.pending - 1
    BY <1>3, <1>4, <2>2, LeftSettles
  <2>4. job'.out <= job'.next
    BY <1>3, <1>4 DEF Lowers, Out
  <2>5. ASSUME NEW m \in Seq, m \in settled[t] \cup {n} PROVE fiber[t][m] = "ok" /\ m < job'.out
    <3>1. CASE m = n
      BY <1>3, <1>4, <3>1 DEF CountsDown, Lowers, Out
    <3>2. CASE m \in settled[t]
      <4>1. m \in Nat /\ m < job.out /\ fiber[t][m] = "ok"
        BY <1>3, <1>4, <3>2 DEF Seq
      <4> QED BY <1>3, <1>4, <4>1 DEF Lowers, Out
    <3> QED BY <2>5, <3>1, <3>2
  <2>6. job'.pending = job.pending - 1
    BY <1>4 DEF Lowers
  <2> QED BY <1>3, <1>4, <2>1, <2>3, <2>4, <2>5, <2>6 DEF Counted
<1>5. ASSUME NEW t \in Token, NEW s \in Ends, NEW o \in Outs, Ended(s, o) PROVE Counted'
  BY <1>5 DEF Ended, Counted
<1>6. CASE job' = job /\ fiber' = fiber /\ settled' = settled
  BY <1>6, CountedFrame
<1>7. CASE Takes /\ Extended
  <2>1. /\ job.token \in Token /\ job.next \in Seq /\ job.next \notin settled[job.token]
        /\ job.next \in Nat /\ job.out \in Nat
    <3>1. job.token \in Token /\ job.next \in Seq
      BY <1>7 DEF Extended
    <3>2. job.next \in Nat /\ job.out \in Nat
      BY JobAssumption DEF JobTypes
    <3>3. fiber[job.token][job.next] = "none"
      BY <3>1, <3>2 DEF Accepted
    <3> QED BY <3>1, <3>2, <3>3 DEF Accepted
  <2>2. /\ Unsettled = Left(job.next, settled[job.token])
        /\ Unsettled' = Left(job.next + 1, settled[job.token])
    BY <1>7 DEF Extended, Takes, Unsettled, Left
  <2>3. Cardinality(Unsettled') = job.pending + 1
    BY <1>7, <2>1, <2>2, LeftTakes DEF Takes, Counted
  <2>4. job'.pending = job.pending + 1 /\ job'.out <= job'.next
    BY <1>7, <2>1 DEF Takes, Extended, Counted
  <2>5. ASSUME NEW m \in Seq, m \in settled'[job'.token] 
        PROVE fiber'[job'.token][m] = "ok" /\ m < job'.out
    <3>1. m \in settled[job.token] /\ m # job.next
      BY <1>7, <2>1, <2>5 DEF Takes, Extended
    <3>2. fiber[job.token][m] = "ok" /\ m < job.out
      BY <1>7, <3>1 DEF Takes, Counted
    <3> QED BY <1>7, <2>1, <3>1, <3>2 DEF Extended
  <2> QED BY <2>3, <2>4, <2>5 DEF Counted
<1>8. CASE Starts /\ Started
  <2>1. job.token + 1 \in Token /\ job.token \in Nat
    BY <1>8, JobAssumption DEF Started, JobTypes
  <2>2. \A m \in Seq : m \notin settled[job.token + 1]
    BY <2>1 DEF Succession, Accepted
  <2>3. 0 \notin settled[job.token + 1] /\ 0 \in Seq
    BY <1>8, <2>2 DEF Started
  <2>4. Unsettled' = Left(1, settled[job.token + 1])
    BY <1>8 DEF Started, Starts, Unsettled, Left
  <2>5. job'.pending = Cardinality(Unsettled') /\ job'.out <= job'.next
    BY <1>8, <2>3, <2>4, LeftStarts DEF Started
  <2> QED BY <1>8, <2>2, <2>5 DEF Counted, Started, Starts
<1>9. CASE Promotes
  <2>1. /\ job'.token = job.token /\ job'.status = job.status /\ job'.pending = job.pending
        /\ job'.next = job.next /\ job'.out = job.out /\ settled' = settled /\ fiber' = fiber
    BY <1>9 DEF Promotes, JobTypes
  <2> QED BY <2>1, CountedFrame
<1>10. Cancels => job.out \in Outs /\ "cancelled" \in Ends
  BY DEF JobTypes, Outs
<1>11. "ok" \notin {"accepted"} /\ "ok" \notin {"running"} /\ "ok" \notin {"accepted", "running"}
  OBVIOUS
<1> QED BY PointStep, <1>1, <1>2, <1>4, <1>5, <1>6, <1>7, <1>8, <1>9, <1>10, <1>11 DEF Ended

(* Tails hand the turn over. *)
LEMMA WorkInOrderStep ==
  ASSUME JobTypes, JobTypes', Succession, Accepted, WorkInOrder, [Next]_vars
  PROVE  WorkInOrder'
<1> USE Ranges, JobAssumption DEF JobTypes, Succession, Accepted, WorkInOrder
<1>1. CASE UNCHANGED Registry
  BY <1>1 DEF Registry
<1>2. ASSUME NEW t \in Token, NEW n \in Seq, Moves(t, n, {"accepted"}, "running"),
             n > 0 => TailDone(t, n - 1)
      PROVE  WorkInOrder'
  <2> SUFFICES ASSUME NEW u \in Token, NEW k \in Seq, NEW m \in Seq, phase[u] # "closed",
                      fiber'[u][k] \in {"running", "ok", "bad"}, m < k
               PROVE  fiber'[u][m] \in {"ok", "bad", "stopped"}
    BY <1>2 DEF Moves
  <2>8. phase[u] # "closed"
    OBVIOUS
  <2>1. /\ fiber[t][n] = "accepted" /\ fiber'[t][n] = "running"
        /\ \A v \in Token, j \in Seq : v # t \/ j # n => fiber'[v][j] = fiber[v][j]
    BY <1>2 DEF Moves
  <2>6. m \in Nat /\ k \in Nat /\ n \in Nat /\ (n > 0 => n - 1 \in Seq)
    BY JobAssumption DEF Seq
  <2>0. /\ \A j \in Seq : fiber[u][j] \in {"running", "ok", "bad"} /\ m < j
                          => fiber[u][m] \in {"ok", "bad", "stopped"}
        /\ m \in Nat /\ k \in Nat /\ (n > 0 => fiber[t][n - 1] \in {"ok", "bad", "stopped"})
        /\ (n > 0 => n - 1 \in Seq)
    <3>1. phase' = phase
      BY <1>2 DEF Moves
    <3>2. \A j \in Seq : fiber[u][j] \in {"running", "ok", "bad"} /\ m < j
                        => fiber[u][m] \in {"ok", "bad", "stopped"}
      BY <3>1 DEF WorkInOrder
    <3> QED BY <1>2, <2>6, <3>2
  <2>7. n > 0 => TailDone(t, n - 1)
    BY <1>2
  <2>9. phase[u] = "closed" \/ fiber[t][n - 1] # "stopped" \/ n = 0 \/ u # t
    <3>1. phase' = phase
      BY <1>2 DEF Moves
    <3> QED BY <2>0, <3>1
  <2> HIDE Ranges, JobAssumption DEF JobTypes, Succession, Accepted, WorkInOrder
  <2>2. CASE u # t \/ k # n
    <3>1. fiber'[u][k] = fiber[u][k]
      BY <2>1, <2>2
    <3>2. fiber[u][m] \in {"ok", "bad", "stopped"}
      BY <2>0, <3>1
    <3> QED BY <2>1, <3>2
  <2>3. CASE u = t /\ k = n
    <3>1. n > 0 /\ n - 1 \in Seq /\ m \in Nat /\ n \in Nat
      BY <2>0, <2>3
    <3>2. fiber[t][n - 1] \in {"ok", "bad", "stopped"}
      BY <2>0, <3>1
    <3>3. fiber[t][n - 1] \in {"ok", "bad"}
      BY <2>3, <2>9, <3>1, <3>2, <2>8
    <3>4. fiber[t][m] \in {"ok", "bad", "stopped"}
      <4>1. CASE m = n - 1
        BY <3>2, <4>1
      <4>2. CASE m < n - 1
        BY <2>0, <2>3, <3>1, <3>3, <4>2
      <4> QED BY <2>3, <3>1, <4>1, <4>2
    <3> QED BY <2>1, <2>3, <3>4
  <2> QED BY <2>2, <2>3
<1>3. ASSUME NEW t \in Token, NEW n \in Seq, NEW e \in Exits, Moves(t, n, {"running"}, e)
      PROVE  WorkInOrder'
  BY <1>3 DEF Moves
<1>4. ASSUME NEW t \in Token, NEW n \in Seq, phase[t] = "closed",
             Moves(t, n, {"accepted", "running"}, "stopped")
      PROVE  WorkInOrder'
  BY <1>4 DEF Moves
<1>5. ASSUME NEW t \in Token, NEW n \in Seq,
             Settles(t, n), Counts(t, n), CountsDown(t, n), Lowers(n)
      PROVE  WorkInOrder'
  BY <1>5 DEF Settles, Counts, CountsDown, Lowers, Exited, Outs
<1>11. ASSUME NEW t \in Token, NEW n \in Seq, NEW s \in Ends, NEW o \in Outs,
              Settles(t, n), Counts(t, n), Over(t, n, s, o), Ended(s, o)
       PROVE  WorkInOrder'
  <2>2. job.status = "running" /\ t = job.token /\ fiber' = fiber
    BY <1>11 DEF Settles
  <2>1. /\ fiber' = fiber /\ phase[t] = "open" /\ t = job.token
        /\ \A u \in Token : u # t => phase'[u] = phase[u]
    BY <1>11, <2>2 DEF Ended
  <2> QED BY <2>1
<1>6. ASSUME NEW t \in Token, phase[t] = "decided", phase' = [phase EXCEPT ![t] = "closed"],
             UNCHANGED <<job, fiber, settled, final>>
      PROVE  WorkInOrder'
  BY <1>6
<1>7. CASE Takes /\ Extended
  BY <1>7 DEF Takes, Extended, Outs
<1>8. CASE Starts /\ Started
  BY <1>8 DEF Starts, Started, Outs
<1>9. CASE Cancels /\ Ended("cancelled", job.out)
  BY <1>9 DEF Cancels, Ended, Outs
<1>10. CASE Promotes
  BY <1>10 DEF Promotes
<1> QED BY PointStep, <1>1, <1>2, <1>3, <1>4, <1>5, <1>6, <1>7, <1>8, <1>9, <1>10, <1>11

(* The last settlement finds every prompt settled. *)
LEMMA CompletesWithLastStep ==
  ASSUME JobTypes, JobTypes', Succession, Accepted, Counted, CompletesWithLast, [Next]_vars
  PROVE  CompletesWithLast'
<1> USE Ranges, JobAssumption DEF JobTypes, Succession, Accepted, Counted, CompletesWithLast
<1>1. CASE UNCHANGED Registry
  BY <1>1 DEF Registry
<1>2. ASSUME NEW t \in Token, NEW n \in Seq, Moves(t, n, {"accepted"}, "running"),
             n > 0 => TailDone(t, n - 1)
      PROVE  CompletesWithLast'
  BY <1>2 DEF Moves
<1>3. ASSUME NEW t \in Token, NEW n \in Seq, NEW e \in Exits, Moves(t, n, {"running"}, e)
      PROVE  CompletesWithLast'
  BY <1>3 DEF Moves
<1>4. ASSUME NEW t \in Token, NEW n \in Seq, phase[t] = "closed",
             Moves(t, n, {"accepted", "running"}, "stopped")
      PROVE  CompletesWithLast'
  BY <1>4 DEF Moves
<1>5. ASSUME NEW t \in Token, NEW n \in Seq,
             Settles(t, n), Counts(t, n), CountsDown(t, n), Lowers(n)
      PROVE  CompletesWithLast'
  BY <1>5 DEF Settles, Counts, CountsDown, Lowers, Exited, Outs
<1>11. ASSUME NEW t \in Token, NEW n \in Seq, NEW s \in Ends, NEW o \in Outs,
              Settles(t, n), Counts(t, n), Over(t, n, s, o), Ended(s, o)
       PROVE  CompletesWithLast'
  <2>1. /\ t = job.token /\ fiber' = fiber /\ final'[t].status = s /\ final'[t].out = o
        /\ \A u \in Token : u # t => final'[u] = final[u]
    BY <1>11 DEF Settles, Ended
  <2>2. ASSUME s = "completed"
        PROVE  o > 0 /\ \A m \in Seq : fiber[t][m] = IF m < o THEN "ok" ELSE "none"
    <3>1. fiber[t][n] = "ok" /\ ~(job.pending > 1) /\ o = Out(n)
      BY <1>11, <2>2 DEF Over
    <3>2. /\ n < job.next /\ n \notin settled[t] /\ Running
          /\ n \in Nat /\ job.next \in Nat /\ job.out \in Nat
      BY <1>11 DEF Settles, Exited
    <3>3. n \in Unsettled /\ Unsettled = Left(job.next, settled[t])
      BY <2>1, <3>2 DEF Unsettled, Left
    <3>4. job.pending \in Nat /\ job.pending = Cardinality(Unsettled) /\ job.out <= job.next
      BY <3>2
    <3>5. Left(job.next, settled[t] \cup {n}) = {}
      <4> HIDE DEF JobTypes, Succession, Accepted, Counted, CompletesWithLast
      <4>1. n \in Left(job.next, settled[t]) /\ Cardinality(Left(job.next, settled[t])) <= 1
        BY <3>1, <3>3, <3>4
      <4> QED BY <4>1, LeftSettles
    <3> USE <2>1, <3>2
    <3>6. \A m \in Seq : m < job.next => m \in settled[t] \/ m = n
      BY <3>5 DEF Left
    <3>7. \A m \in Seq : m \in settled[t] => fiber[t][m] = "ok" /\ m < job.out
      BY <3>2
    <3>8. o > n /\ o >= job.out /\ o <= job.next
      BY <3>1, <3>4 DEF Out
    <3>9. \A m \in Seq : fiber[t][m] # "none" <=> m < job.next
      OBVIOUS
    <3> HIDE DEF JobTypes, Succession, Accepted, Counted, CompletesWithLast
    <3>10. \A m \in Seq : m \in Nat /\ o \in Nat
      BY JobAssumption DEF Outs, Seq
    <3> QED BY <3>1, <3>6, <3>7, <3>8, <3>9, <3>10
  <2> HIDE DEF JobTypes, Succession, Accepted, Counted
  <2> QED BY <2>1, <2>2
<1>6. ASSUME NEW t \in Token, phase[t] = "decided", phase' = [phase EXCEPT ![t] = "closed"],
             UNCHANGED <<job, fiber, settled, final>>
      PROVE  CompletesWithLast'
  BY <1>6
<1>7. CASE Takes /\ Extended
  BY <1>7 DEF Takes, Extended, Outs
<1>8. CASE Starts /\ Started
  BY <1>8 DEF Starts, Started, Outs
<1>9. CASE Cancels /\ Ended("cancelled", job.out)
  BY <1>9 DEF Cancels, Ended, Outs
<1>10. CASE Promotes
  BY <1>10 DEF Promotes
<1> QED BY PointStep, <1>1, <1>2, <1>3, <1>4, <1>5, <1>6, <1>7, <1>8, <1>9, <1>10, <1>11

LEMMA TokenRunning == ASSUME JobTypes, Running PROVE job.token \in Token
  BY JobAssumption DEF JobTypes, Token

(* The calls: who awaits a job awaits one that has begun. *)
LEMMA CallTypesStep ==
  ASSUME JobTypes, JobTypes', CallTypes, [Next]_vars
  PROVE  CallTypes'
<1> USE DEF CallTypes, Actors, Goes, Awaits, Watching
<1>1. ASSUME NEW t \in Token, NEW n \in Seq, FiberStep(t, n) PROVE CallTypes'
  BY <1>1 DEF FiberStep, Begin, RunEnds, Stop, Settle, Count, calls
<1>2. ASSUME NEW t \in Token, Finish(t) PROVE CallTypes'
  BY <1>2 DEF Finish, calls
<1>3. ASSUME NEW t \in Token, ResolvePromoted(t) PROVE CallTypes'
  BY <1>3 DEF ResolvePromoted
<1>4. ASSUME NEW c \in Callers, Extend(c) PROVE CallTypes'
  <2>1. job.token \in 0..MaxStarts
    BY DEF JobTypes
  <2> QED BY <1>4, <2>1 DEF Extend, Returns
<1>5. ASSUME NEW c \in Callers, Start(c) PROVE CallTypes'
  <2>1. job'.token \in 0..MaxStarts
    BY DEF JobTypes
  <2> QED BY <1>5, <2>1 DEF Start, Returns
<1>6. ASSUME NEW c \in Callers, Watch(c) PROVE CallTypes'
  <2>1. job.token \in 0..MaxStarts /\ (Running => job.token \in Token)
    BY TokenRunning DEF JobTypes
  <2>2. /\ promoted' = promoted /\ told' = told
        /\ \/ /\ pc' = [pc EXCEPT ![c] = "end"] /\ eye' = [eye EXCEPT ![c] = 0]
              /\ tok' = [tok EXCEPT ![c] = job.token]
              /\ \E w \in {"started", "output", "failed", "cancelled"} :
                   said' = [said EXCEPT ![c] = w]
           \/ /\ pc' = [pc EXCEPT ![c] = "waiting"] /\ eye' = [eye EXCEPT ![c] = job.token]
              /\ job.token \in Token /\ UNCHANGED <<said, tok>>
    BY <1>6, <2>1 DEF Watch, Answer, Returns, CallOnly
  <2>3. 0 \in 0..MaxStarts
    BY JobAssumption
  <2>4. \A a \in Actors : a # c => pc'[a] = pc[a] /\ eye'[a] = eye[a]
    BY <2>2
  <2>5. /\ pc'[c] \in {"waiting", "noting", "closing"} => eye'[c] \in Token
        /\ pc' \in [Actors -> {"new", "start", "release", "closing", "promoting", "notify",
                              "noting", "end"} \cup Watching]
        /\ eye' \in [Actors -> 0..MaxStarts] /\ tok' \in [Callers -> 0..MaxStarts]
    BY <2>1, <2>2, <2>3
  <2>6. said' \in [Callers -> {"none", "updated", "started", "output", "failed", "cancelled"}]
    BY <2>2
  <2> QED BY <2>2, <2>4, <2>5, <2>6
<1>7. ASSUME NEW c \in Callers, Wake(c) PROVE CallTypes'
  <2>1. 0 \in 0..MaxStarts
    BY JobAssumption
  <2> QED BY <1>7, <2>1 DEF Wake, Answer, Returns, CallOnly
<1>8. ASSUME NEW c \in Callers, Abort(c) \/ Released(c) PROVE CallTypes'
  <2>1. 0 \in 0..MaxStarts
    BY JobAssumption
  <2> QED BY <1>8, <2>1 DEF Abort, Released, CallOnly
<1>9. ASSUME NEW c \in Callers, Release(c) PROVE CallTypes'
  <2>1. job.token \in 0..MaxStarts /\ (Running => job.token \in Token)
    BY TokenRunning DEF JobTypes
  <2> QED BY <1>9, <2>1 DEF Release
<1>10. ASSUME NEW a \in Actors, Notify(a) PROVE CallTypes'
  <2>1. job.token \in 0..MaxStarts /\ (Running => job.token \in Token)
    BY TokenRunning DEF JobTypes
  <2>3. job.status # "none" => job.token \in Token
    BY JobAssumption DEF JobTypes, Token
  <2>2. told' \subseteq Token
    BY <1>10, <2>3 DEF Notify, Tell
  <2> QED BY <1>10, <2>1, <2>2 DEF Notify
<1>11. ASSUME NEW a \in Actors, Inject(a) PROVE CallTypes'
  <2>1. told' \subseteq Token /\ 0 \in 0..MaxStarts
    BY <1>11, JobAssumption DEF Inject, Tell
  <2> QED BY <1>11, <2>1 DEF Inject
<1>12. CASE Promote
  <2>1. job.token \in Token
    BY <1>12, TokenRunning DEF Promote
  <2> QED BY <1>12, <2>1 DEF Promote
<1>13. CASE Cancel
  BY <1>13 DEF Cancel, calls
<1>14. CASE UNCHANGED vars
  BY <1>14 DEF vars, calls
<1> QED BY <1>1, <1>2, <1>3, <1>4, <1>5, <1>6, <1>7, <1>8, <1>9, <1>10, <1>11, <1>12, <1>13,
           <1>14 DEF Next, CallStep, NoteStep

-----------------------------------------------------------------------------
LEMMA InitTypes == Init => TypeOK
<1> SUFFICES ASSUME Init PROVE TypeOK
  OBVIOUS
<1>1. JobTypes
  BY JobAssumption DEF Init, JobTypes
<1>2. CallTypes
  BY JobAssumption DEF Init, CallTypes, Actors, Watching
<1> QED BY <1>1, <1>2 DEF TypeOK

(* Every state is of its type; and a call that awaits a job awaits one that has *)
(* begun.                                                                         *)
THEOREM JobTypeCorrect == Spec => []TypeOK
<1>1. ASSUME TypeOK, [Next]_vars PROVE TypeOK'
  <2>1. JobTypes'
    BY <1>1, JobTypesStep DEF TypeOK
  <2>2. CallTypes'
    BY <1>1, <2>1, CallTypesStep DEF TypeOK
  <2> QED BY <2>1, <2>2 DEF TypeOK
<1> QED BY InitTypes, <1>1, PTL DEF Spec

LEMMA InitInv == Init => JobInv
<1> SUFFICES ASSUME Init PROVE JobInv
  OBVIOUS
<1>1. \A t \in Token : t \in Nat /\ 0 < t
  BY Ranges
<1>2. Succession
  BY <1>1 DEF Init, Succession
<1>3. Accepted
  BY <1>1 DEF Init, Accepted
<1>4. Counted /\ WorkInOrder /\ CompletesWithLast
  BY DEF Init, Counted, WorkInOrder, CompletesWithLast
<1> QED BY <1>2, <1>3, <1>4 DEF JobInv

(* The inductive invariant: the jobs follow each other, and pending counts what *)
(* has not settled.                                                               *)
THEOREM JobInvariant == Spec => [](TypeOK /\ JobInv)
<1>1. ASSUME TypeOK, TypeOK', JobInv, [Next]_vars PROVE JobInv'
  <2>1. Succession'
    BY <1>1, SuccessionStep DEF TypeOK, JobInv
  <2>2. Accepted'
    BY <1>1, AcceptedStep DEF TypeOK, JobInv
  <2>3. Counted'
    BY <1>1, CountedStep DEF TypeOK, JobInv
  <2>4. WorkInOrder'
    BY <1>1, WorkInOrderStep DEF TypeOK, JobInv
  <2>5. CompletesWithLast'
    BY <1>1, CompletesWithLastStep DEF TypeOK, JobInv
  <2> QED BY <2>1, <2>2, <2>3, <2>4, <2>5 DEF JobInv
<1> QED BY InitInv, <1>1, JobTypeCorrect, PTL DEF Spec

(* The prompts of a job run one at a time and in the order they were given. *)
THEOREM PromptsRunInOrder == Spec => []WorkInOrder
<1>1. JobInv => WorkInOrder
  BY DEF JobInv
<1> QED BY JobInvariant, <1>1, PTL

(* A job completes with the last of its prompts, after every one succeeded. *)
THEOREM CompletionIsWhole == Spec => []CompletesWithLast
<1>1. JobInv => CompletesWithLast
  BY DEF JobInv
<1> QED BY JobInvariant, <1>1, PTL

(* The first end of a job stands. *)
THEOREM FirstEndStands == Spec => OutcomeStands
<1> DEFINE Stands(t) == /\ final[t].status # "none" => final'[t] = final[t]
                        /\ phase[t] # "open" /\ job'.token = t => job'.status = final[t].status
<1>1. ASSUME TypeOK, JobInv, [Next]_vars, NEW u \in Token PROVE Stands(u)
  <2>1. /\ phase[u] = "open" <=> final[u].status = "none"
        /\ u = job.token => job.status = IF phase[u] = "open" THEN "running" ELSE final[u].status
        /\ u > job.token => phase[u] = "open"
    BY <1>1 DEF JobInv, Succession
  <2>2. JobTypes
    BY <1>1 DEF TypeOK
  <2>3. ASSUME final' = final, job'.token = job.token, job'.status = job.status PROVE Stands(u)
    BY <2>1, <2>3
  <2>4. ASSUME NEW s \in Ends, NEW o \in Outs, Running, Ended(s, o) PROVE Stands(u)
    <3>1. CASE u = job.token
      <4>1. final[u].status # "running"
        BY <2>2 DEF JobTypes
      <4>2. phase[u] = "open" /\ final[u].status = "none"
        BY <2>1, <2>4, <3>1, <4>1
      <4> QED BY <2>4, <3>1, <4>2 DEF Ended
    <3>2. CASE u # job.token
      BY <2>1, <2>4, <3>2 DEF Ended
    <3> QED BY <3>1, <3>2
  <2>5. ASSUME Starts, Started PROVE Stands(u)
    <3>1. final' = final /\ job'.token = job.token + 1 /\ job.token \in Nat
      BY <2>2, <2>5, JobAssumption DEF Starts, Started, JobTypes
    <3> QED BY <2>1, <3>1
  <2>6. ASSUME NEW t \in Token, NEW n \in Seq, Settles(t, n), CountsDown(t, n), Lowers(n)
        PROVE  Stands(u)
    BY <2>3, <2>6 DEF CountsDown, Lowers
  <2>7. ASSUME NEW t \in Token, NEW n \in Seq, NEW s \in Ends, NEW o \in Outs,
               Settles(t, n), Ended(s, o)
        PROVE  Stands(u)
    BY <2>4, <2>7 DEF Settles
  <2>8. CASE Cancels /\ Ended("cancelled", job.out)
    <3>1. job.out \in Outs /\ "cancelled" \in Ends
      BY <2>2 DEF JobTypes, Outs
    <3> QED BY <2>4, <2>8, <3>1 DEF Cancels
  <2>9. CASE Takes /\ Extended
    BY <2>3, <2>9 DEF Takes, Extended
  <2>10. CASE Promotes
    BY <2>2, <2>3, <2>10 DEF Promotes, JobTypes
  <2>11. CASE UNCHANGED Registry
    BY <2>3, <2>11 DEF Registry
  <2>12. CASE final' = final /\ job' = job
    BY <2>3, <2>12
  <2> HIDE DEF Stands
  <2>13. ASSUME NEW t \in Token, NEW n \in Seq, NEW from, NEW to, Moves(t, n, from, to)
         PROVE  Stands(u)
    BY <2>12, <2>13 DEF Moves
  <2> QED BY <2>2, <1>1, PointStep, <2>5, <2>6, <2>7, <2>8, <2>9, <2>10, <2>11, <2>12, <2>13
<1>2. TypeOK /\ JobInv /\ [Next]_vars => [\A t \in Token : Stands(t)]_vars
  BY <1>1
<1> QED BY JobInvariant, <1>2, PTL DEF Spec, OutcomeStands

-----------------------------------------------------------------------------
(* Nobody waits for nothing.                                                   *)

(* What a step that neither starts nor promotes a job leaves of its end. *)
Backs ==
  /\ job'.token = job.token /\ job'.background = job.background
  /\ \A t \in Token : t # job.token => final'[t] = final[t]
  /\ \A t \in Token : final[t].status = "cancelled" => final'[t].status = "cancelled"
  /\ job.token \in Token /\ ~Running' => final'[job.token].background = job.background

LEMMA BacksSame == ASSUME Minded, UNCHANGED <<job, final>> PROVE Backs
  BY DEF Backs, Minded

LEMMA BacksTakes ==
  ASSUME JobTypes, Minded, Running, UNCHANGED final,
         job' = [job EXCEPT !.pending = @ + 1, !.next = @ + 1]
  PROVE  Backs
  BY DEF Backs, Minded, JobTypes

LEMMA BacksEnds ==
  ASSUME JobTypes, Succession, Running, NEW s, NEW o, EndsAs(s, o)
  PROVE  Backs
<1>1. job.token \in Token
  BY TokenRunning
<1>2. job'.token = job.token /\ job'.background = job.background
  BY DEF EndsAs, JobTypes
<1>3. final[job.token].status = "none"
  BY <1>1 DEF Succession, JobTypes
<1>4. /\ final'[job.token].background = job.background
      /\ \A t \in Token : t # job.token => final'[t] = final[t]
  BY <1>1 DEF EndsAs, JobTypes
<1> QED BY <1>1, <1>2, <1>3, <1>4 DEF Backs

LEMMA BacksSettle ==
  ASSUME JobTypes, Succession, Minded, NEW t \in Token, NEW n \in Seq, Settle(t, n)
  PROVE  Backs
<1>1. CASE CountsDown(t, n)
  BY <1>1, SettleCases DEF CountsDown, Settles, Backs, Minded, JobTypes
<1>2. ASSUME NEW s \in Ends, NEW o \in Outs, EndsAs(s, o) PROVE Backs
  BY <1>2, SettleCases, BacksEnds DEF Settles
<1> QED BY <1>1, <1>2, SettleCases

(* A duty is kept or handed over, and nobody takes hold of a later job. *)
LEMMA MindedKept ==
  ASSUME TypeOK, Minded, Backs, told \subseteq told', NEW k, k = job.token,
         \A a \in Actors : eye'[a] <= k,
         \A c \in Callers : tok'[c] <= k /\ (said'[c] = "started" => tok'[c] \in Token),
         \A t \in Token : t \in promoted' \/ pc'[t] = "promoting" => t \in promoted \/ pc[t] = "promoting",
         \A a \in Actors : k \in Token /\ Notes(a, k) => CaredFor(k)',
         \A c \in Callers : said'[c] = "started" /\ tok'[c] = k
           => job.background \/ CaredFor(k)' \/ (said[c] = "started" /\ tok[c] = k)
  PROVE  Minded'
<1>1. k \in Token /\ CaredFor(k) => CaredFor(k)'
  BY DEF CaredFor, Backs
<1>2. \A t \in Token : InBackground(t) => InBackground(t)'
  BY DEF InBackground, Backs
<1>3. \A t \in Token : final'[t].background => t <= k
  <2>1. k \in Nat
    BY JobAssumption DEF TypeOK, JobTypes
  <2> QED BY <2>1, JobAssumption DEF Minded, Backs, Token
<1>4. \A t \in Token : t \in promoted' \/ pc'[t] = "promoting" => InBackground(t)'
  BY <1>2 DEF Minded
<1>5. job'.token = k /\ job'.background = job.background
  BY DEF Backs
<1>6. job.background => k \in Token /\ CaredFor(k)'
  BY <1>1 DEF Minded
<1>7. \A c \in Callers : said'[c] = "started" /\ tok'[c] = k => CaredFor(k)'
  BY <1>1, <1>6 DEF Minded
<1>8. (job.background => job.token \in Token /\ CaredFor(job.token))'
  BY <1>5, <1>6
<1>9. \A c \in Callers : (said[c] = "started" /\ tok[c] = job.token => CaredFor(tok[c]))'
  BY <1>5, <1>7
<1>10. (job.token \in Token /\ ~Running => final[job.token].background = job.background)'
  BY <1>5 DEF Backs
<1> QED BY <1>3, <1>4, <1>5, <1>8, <1>9, <1>10 DEF Minded

LEMMA StillNotes ==
  ASSUME NEW a \in Actors, NEW t, Notes(a, t), pc'[a] = pc[a], eye'[a] = eye[a],
         a \in Callers => tok'[a] = tok[a]
  PROVE  CaredFor(t)'
  BY DEF Notes, CaredFor

LEMMA MindedFrame ==
  ASSUME TypeOK, Minded, Backs, UNCHANGED <<promoted, calls, told>> PROVE Minded'
<1>1. UNCHANGED <<pc, eye, said, tok>>
  BY DEF calls
<1>2. ASSUME NEW k, k = job.token PROVE Minded'
  <2>1. \A a \in Actors : Notes(a, k) => CaredFor(k)'
    BY <1>1, StillNotes
  <2> QED BY <1>1, <1>2, <2>1, MindedKept DEF Minded
<1> QED BY <1>2

(* Whoever is at none of the steps of a notification has no duty. *)
LEMMA NoDuty ==
  ASSUME TypeOK, NEW c \in Callers, NEW k, pc[c] \notin {"noting", "notify"}
  PROVE  ~Notes(c, k) \/ k \notin Token
  BY JobAssumption DEF Notes

LEMMA Disjoint == \A c \in Callers : c \notin Token /\ c \in Actors
  BY JobAssumption DEF Actors

(* A call that is not in a notification moves, and says nothing new of a job in *)
(* the background.                                                               *)
LEMMA MindedCall ==
  ASSUME TypeOK, Minded, Backs, UNCHANGED <<promoted, told>>, NEW c \in Callers,
         pc[c] \notin {"noting", "notify"}, pc'[c] # "promoting",
         \A a \in Actors \ {c} : pc'[a] = pc[a] /\ eye'[a] = eye[a],
         \A d \in Callers \ {c} : tok'[d] = tok[d] /\ said'[d] = said[d],
         eye'[c] <= job.token,
         \/ tok'[c] = tok[c] /\ said'[c] = said[c]
         \/ tok'[c] <= job.token /\ said'[c] # "started"
         \/ tok'[c] <= job.token /\ tok'[c] \in Token /\ (tok'[c] = job.token => job.background)
         \/ tok'[c] = job.token /\ pc'[c] = "notify" /\ job.token \in Token
  PROVE  Minded'
<1> SUFFICES ASSUME NEW k, k = job.token PROVE Minded'
  OBVIOUS
<1>1. \A a \in Actors : eye'[a] <= k
  BY DEF Minded
<1>2. \A d \in Callers : tok'[d] <= k /\ (said'[d] = "started" => tok'[d] \in Token)
  <2>1. k \in Nat
    BY JobAssumption DEF TypeOK, JobTypes
  <2> QED BY <2>1 DEF Minded
<1>3. \A t \in Token : t \in promoted' \/ pc'[t] = "promoting" => t \in promoted \/ pc[t] = "promoting"
  BY Disjoint DEF Actors
<1>4. \A a \in Actors : k \in Token /\ Notes(a, k) => CaredFor(k)'
  BY NoDuty, StillNotes
<1>5. tok'[c] = k /\ pc'[c] = "notify" => CaredFor(k)'
  BY Disjoint DEF CaredFor, Notes
<1>6. \A d \in Callers : said'[d] = "started" /\ tok'[d] = k
        => job.background \/ CaredFor(k)' \/ (said[d] = "started" /\ tok[d] = k)
  BY <1>5
<1> QED BY <1>1, <1>2, <1>3, <1>4, <1>6, MindedKept

LEMMA AnswerFacts ==
  ASSUME NEW c, NEW t, NEW e, Answer(c, t, e)
  PROVE  /\ pc' = [pc EXCEPT ![c] = "end"] /\ eye' = [eye EXCEPT ![c] = 0]
         /\ tok' = [tok EXCEPT ![c] = t]
         /\ \E w : said' = [said EXCEPT ![c] = w] /\ (w = "started" => e.background)
<1>1. /\ pc' = [pc EXCEPT ![c] = "end"] /\ eye' = [eye EXCEPT ![c] = 0]
      /\ tok' = [tok EXCEPT ![c] = t]
  BY DEF Answer, Returns, Goes, Awaits
<1> DEFINE word == IF e.background THEN "started"
                   ELSE IF e.status = "completed" THEN "output"
                   ELSE IF e.status = "error" THEN "failed" ELSE "cancelled"
<1>2. said' = [said EXCEPT ![c] = word]
  BY DEF Answer, Returns
<1>3. word = "started" => e.background
  OBVIOUS
<1> HIDE DEF word
<1> QED BY <1>1, <1>2, <1>3

(* The steps of calls. *)
LEMMA MindedCalls ==
  ASSUME TypeOK, JobInv, Minded, NEW c \in Callers,
         Extend(c) \/ Watch(c) \/ Wake(c) \/ Abort(c) \/ Release(c) \/ Released(c)
  PROVE  Minded'
<1> USE Disjoint DEF Goes, Awaits, Returns, Answer, CallOnly
<1>1. c \in Actors /\ job.token \in Nat /\ 0 <= job.token /\ TypeOK /\ JobTypes /\ CallTypes
  BY JobAssumption DEF TypeOK, JobTypes
<1>2. CASE Extend(c)
  <2>1. CASE UNCHANGED job
    <3>1. Backs
      BY <1>2, <2>1, BacksSame DEF Extend
    <3>2. /\ pc' = [pc EXCEPT ![c] = "start"] \/ pc' = [pc EXCEPT ![c] = "end"]
          /\ UNCHANGED <<eye, promoted, told>> /\ pc[c] = "new"
          /\ (UNCHANGED <<said, tok>>
              \/ (said' = [said EXCEPT ![c] = "updated"] /\ tok' = [tok EXCEPT ![c] = job.token]))
      BY <1>2 DEF Extend
    <3> QED BY <1>1, <3>1, <3>2, MindedCall DEF CallTypes, Minded
  <2>2. CASE Running /\ job' = [job EXCEPT !.pending = @ + 1, !.next = @ + 1]
    <3>1. Backs
      BY <1>1, <1>2, <2>2, BacksTakes DEF Extend
    <3>2. /\ pc' = [pc EXCEPT ![c] = "start"] \/ pc' = [pc EXCEPT ![c] = "end"]
          /\ UNCHANGED <<eye, promoted, told>> /\ pc[c] = "new"
          /\ (UNCHANGED <<said, tok>>
              \/ (said' = [said EXCEPT ![c] = "updated"] /\ tok' = [tok EXCEPT ![c] = job.token]))
      BY <1>2 DEF Extend
    <3> QED BY <1>1, <3>1, <3>2, MindedCall DEF CallTypes, Minded
  <2> QED BY <1>2, <2>1, <2>2 DEF Extend
<1>3. CASE Watch(c)
  <2>1. Backs /\ UNCHANGED <<promoted, told>> /\ pc[c] = "watch"
    BY <1>3, BacksSame DEF Watch, jobs
  <2>2. CASE Answer(c, job.token, job)
    <3>1. /\ pc' = [pc EXCEPT ![c] = "end"] /\ eye' = [eye EXCEPT ![c] = 0]
          /\ tok' = [tok EXCEPT ![c] = job.token]
          /\ \E w : said' = [said EXCEPT ![c] = w] /\ (w = "started" => job.background)
      BY <2>2, AnswerFacts
    <3>2. job.background => job.token \in Token
      BY DEF Minded
    <3> QED BY <1>1, <2>1, <3>1, <3>2, MindedCall DEF CallTypes, Minded
  <2>3. CASE Awaits(c, job.token) /\ Goes(c, "waiting") /\ UNCHANGED <<said, tok>>
    BY <1>1, <2>1, <2>3, MindedCall DEF CallTypes, Minded
  <2> QED BY <1>3, <2>2, <2>3 DEF Watch
<1>4. CASE Wake(c)
  <2>1. Backs /\ UNCHANGED <<promoted, told>> /\ pc[c] = "waiting" /\ eye[c] \in Token
    BY <1>1, <1>4, BacksSame DEF Wake, jobs, CallTypes
  <2>2. PICK e : /\ Answer(c, eye[c], e)
                 /\ \/ IsDone(eye[c]) /\ e = final[eye[c]]
                    \/ eye[c] \in promoted
    BY <1>4 DEF Wake
  <2>3. /\ pc' = [pc EXCEPT ![c] = "end"] /\ eye' = [eye EXCEPT ![c] = 0]
        /\ tok' = [tok EXCEPT ![c] = eye[c]]
        /\ \E w : said' = [said EXCEPT ![c] = w] /\ (w = "started" => e.background)
    BY <2>2, AnswerFacts
  <2>4. e.background /\ eye[c] = job.token => job.background
    <3>1. CASE eye[c] \in promoted
      BY <2>1, <3>1 DEF Minded, InBackground
    <3>2. ASSUME IsDone(eye[c]), e = final[eye[c]], eye[c] = job.token PROVE e.background = job.background
      <4>1. final[job.token].status # "running" /\ phase[job.token] # "open"
        BY <1>1, <2>1, <3>2 DEF IsDone, JobTypes
      <4>2. ~Running
        BY <2>1, <3>2, <4>1 DEF JobInv, Succession
      <4> QED BY <2>1, <3>2, <4>2 DEF Minded
    <3> QED BY <2>2, <3>1, <3>2
  <2>5. eye[c] <= job.token
    BY <1>1 DEF Minded
  <2> QED BY <1>1, <2>1, <2>3, <2>4, <2>5, MindedCall DEF CallTypes
<1>5. CASE Abort(c) \/ Released(c)
  <2>1. Backs /\ UNCHANGED <<promoted, told, said, tok>>
    BY <1>5, BacksSame DEF Abort, Released, jobs
  <2>2. /\ pc[c] \in {"watch", "waiting", "closing"} /\ eye' = [eye EXCEPT ![c] = 0]
        /\ pc' = [pc EXCEPT ![c] = "release"] \/ pc' = [pc EXCEPT ![c] = "end"]
    BY <1>5 DEF Abort, Released, Watching
  <2> QED BY <1>1, <2>1, <2>2, MindedCall DEF CallTypes, Minded
<1>6. CASE Release(c)
  <2>1. pc[c] = "release" /\ UNCHANGED <<promoted, told, said, tok>>
    BY <1>6 DEF Release
  <2>2. CASE Running /\ EndsAs("cancelled", job.out) /\ Goes(c, "closing") /\ Awaits(c, job.token)
    <3>1. Backs
      BY <1>1, <2>2, BacksEnds DEF JobInv
    <3> QED BY <1>1, <2>1, <2>2, <3>1, MindedCall DEF CallTypes, Minded
  <2>3. CASE Goes(c, "end") /\ UNCHANGED <<job, final, phase, eye>>
    <3>1. Backs
      BY <2>3, BacksSame
    <3> QED BY <1>1, <2>1, <2>3, <3>1, MindedCall DEF CallTypes, Minded
  <2> QED BY <1>6, <2>2, <2>3 DEF Release
<1> QED BY <1>2, <1>3, <1>4, <1>5, <1>6

(* A call that starts a job in the background takes the duty with it. *)
LEMMA MindedStart ==
  ASSUME TypeOK, TypeOK', JobInv, Minded, NEW c \in Callers, Start(c)
  PROVE  Minded'
<1> USE Disjoint DEF Goes, Returns
<1>1. /\ c \in Actors /\ job.token \in Nat /\ pc[c] = "start"
      /\ UNCHANGED <<final, promoted, eye, told>>
  BY JobAssumption DEF TypeOK, JobTypes, Start
<1>2. PICK background \in BOOLEAN :
        /\ IF Running THEN UNCHANGED <<job, fiber>>
           ELSE /\ job.token < MaxStarts
                /\ job' = [token |-> job.token + 1, status |-> "running",
                           background |-> background, pending |-> 1, next |-> 1, out |-> 0]
        /\ IF background THEN Goes(c, "notify") /\ Returns(c, "started", job'.token)
           ELSE Goes(c, "watch") /\ UNCHANGED <<said, tok>>
  BY DEF Start
<1>3. CASE Running
  <2>1. Backs /\ job.token \in Token /\ job'.token = job.token
    BY <1>1, <1>2, <1>3, BacksSame, TokenRunning DEF TypeOK
  <2>2. CASE background
    BY <1>1, <1>2, <2>1, <2>2, MindedCall DEF TypeOK, CallTypes, Minded
  <2>3. CASE ~background
    BY <1>1, <1>2, <2>1, <2>3, MindedCall DEF TypeOK, CallTypes, Minded
  <2> QED BY <2>2, <2>3
<1>4. CASE ~Running
  <2>1. PICK k : k = job.token + 1
    OBVIOUS
  <2>2. /\ job'.token = k /\ job'.status = "running" /\ job'.background = background
        /\ k \in Token /\ k \in Nat /\ job.token < k
    BY <1>1, <1>2, <1>4, <2>1, Ranges, JobAssumption
  <2>3. \A d \in Callers : tok[d] \in Nat /\ tok[d] < k
    BY <1>1, <2>2, JobAssumption DEF Minded, TypeOK, CallTypes
  <2>4. /\ \A a \in Actors : eye'[a] <= k
        /\ \A t \in Token : final'[t].background => t < k
    <3>1. \A a \in Actors : eye[a] \in Nat
      BY JobAssumption DEF TypeOK, CallTypes
    <3> QED BY <1>1, <2>2, <3>1, Ranges DEF Minded
  <2>5. \A t \in Token : t \in promoted' \/ pc'[t] = "promoting" => final'[t].background /\ t # k
    <3> SUFFICES ASSUME NEW t \in Token, t \in promoted' \/ pc'[t] = "promoting"
                 PROVE  final'[t].background /\ t # k
      OBVIOUS
    <3>1. InBackground(t)
      <4>1. pc'[t] = pc[t]
        <5>1. t # c /\ t \in Actors
          BY DEF Actors
        <5>2. pc' = [pc EXCEPT ![c] = "notify"] \/ pc' = [pc EXCEPT ![c] = "watch"]
          BY <1>2
        <5> QED BY <5>1, <5>2 DEF TypeOK, CallTypes
      <4> QED BY <1>1, <4>1 DEF Minded
    <3>2. final[t].background
      BY <1>4, <3>1 DEF InBackground, Minded
    <3> QED BY <1>1, <2>4, <3>2, Ranges, <2>2
  <2>6. \A d \in Callers : tok'[d] <= k /\ (said'[d] = "started" => tok'[d] \in Token)
                         /\ (said'[d] = "started" /\ tok'[d] = k => d = c /\ background)
    <3>1. CASE background
      BY <1>2, <2>2, <2>3, <3>1 DEF TypeOK, CallTypes, Minded
    <3>2. CASE ~background
      BY <1>2, <2>2, <2>3, <3>2 DEF Minded
    <3> QED BY <3>1, <3>2
  <2>7. background => CaredFor(k)'
    BY <1>1, <1>2, <2>2 DEF CaredFor, Notes, TypeOK, CallTypes
  <2>8. (\A t \in Token : t \in promoted \/ pc[t] = "promoting" => InBackground(t))'
    BY <2>2, <2>5 DEF InBackground
  <2>9. (job.background => job.token \in Token /\ CaredFor(job.token))'
    BY <2>2, <2>7
  <2>10. \A d \in Callers : (said[d] = "started" /\ tok[d] = job.token => CaredFor(tok[d]))'
    BY <2>2, <2>6, <2>7
  <2>11. (job.token \in Token /\ ~Running => final[job.token].background = job.background)'
    BY <2>2
  <2>12. (\A t \in Token : final[t].background => t <= job.token)'
    BY <2>2, <2>4, Ranges
  <2> QED BY <2>2, <2>4, <2>6, <2>8, <2>9, <2>10, <2>11, <2>12 DEF Minded
<1> QED BY <1>3, <1>4

(* A notification hands its duty on until the result is told, or there is *)
(* nothing to tell.                                                         *)
LEMMA MindedNote ==
  ASSUME TypeOK, JobInv, Minded, NEW a \in Actors, Notify(a) \/ Inject(a)
  PROVE  Minded'
<1> SUFFICES ASSUME NEW k, k = job.token PROVE Minded'
  OBVIOUS
<1> USE DEF Goes, Awaits
<1>1. /\ Backs /\ UNCHANGED <<job, final, phase, promoted, said, tok>> /\ told \subseteq told'
      /\ k \in Nat /\ 0 <= k
  BY BacksSame, JobAssumption DEF Notify, Inject, Tell, TypeOK, JobTypes
<1>2. \A b \in Actors \ {a} : pc'[b] = pc[b] /\ eye'[b] = eye[b]
  BY DEF Notify, Inject, TypeOK, CallTypes
<1>3. \A b \in Actors : eye'[b] <= k
  BY <1>1 DEF Notify, Inject, Minded, TypeOK, CallTypes
<1>4. pc'[a] # "promoting"
  BY DEF Notify, Inject, TypeOK, CallTypes
<1>5. ASSUME NEW e, e = "completed" \/ e = "error" \/ e = "cancelled",
             e \in {"completed", "error"} => k \in told', e = "cancelled" => final[k].status = e
      PROVE  CaredFor(k)'
  BY <1>1, <1>5 DEF CaredFor
<1>6. k \in Token /\ Notes(a, k) => CaredFor(k)'
  <2> SUFFICES ASSUME k \in Token, Notes(a, k) PROVE CaredFor(k)'
    OBVIOUS
  <2>1. CASE Notify(a) /\ ~Running
    <3>1. job.status \in Ends /\ final[k].status = job.status
      <4>1. job.status \in Ends
        BY <2>1, JobAssumption, Ranges DEF TypeOK, JobTypes
      <4>2. job.status = IF phase[k] = "open" THEN "running" ELSE final[k].status
        BY DEF JobInv, Succession
      <4> QED BY <2>1, <4>1, <4>2
    <3>2. job.status \in {"completed", "error"} => k \in told'
      BY <2>1 DEF Notify, Tell
    <3> QED BY <1>5, <3>1, <3>2
  <2>2. CASE Notify(a) /\ Running
    BY <2>2 DEF Notify, CaredFor, Notes, TypeOK, CallTypes
  <2>3. CASE Inject(a)
    <3>1. eye[a] = k /\ phase[k] # "open"
      BY <2>3 DEF Inject, IsDone, Notes
    <3>2. final[k].status \in Ends
      BY <3>1 DEF JobInv, Succession, TypeOK, JobTypes
    <3>3. final[k].status \in {"completed", "error"} => k \in told'
      BY <2>3, <3>1 DEF Inject, Tell
    <3> QED BY <1>5, <3>2, <3>3
  <2> QED BY <2>1, <2>2, <2>3
<1>7. \A b \in Actors : k \in Token /\ Notes(b, k) => CaredFor(k)'
  BY <1>1, <1>2, <1>6, StillNotes
<1>8. \A t \in Token : t \in promoted' \/ pc'[t] = "promoting" => t \in promoted \/ pc[t] = "promoting"
  BY <1>1, <1>2, <1>4 DEF Actors
<1>9. \A c \in Callers : tok'[c] <= k /\ (said'[c] = "started" => tok'[c] \in Token)
  BY <1>1 DEF Minded
<1> QED BY <1>1, <1>3, <1>7, <1>8, <1>9, MindedKept

LEMMA MindedPromoted ==
  ASSUME TypeOK, Minded, NEW t \in Token, ResolvePromoted(t)
  PROVE  Minded'
<1> SUFFICES ASSUME NEW k, k = job.token PROVE Minded'
  OBVIOUS
<1> USE DEF Goes
<1>1. /\ Backs /\ UNCHANGED <<told, eye, said, tok>> /\ promoted' = promoted \cup {t}
      /\ pc[t] = "promoting" /\ pc' = [pc EXCEPT ![t] = "notify"] /\ t \in Actors
  BY BacksSame DEF ResolvePromoted, Actors
<1>2. ASSUME NEW a \in Actors, Notes(a, k) PROVE CaredFor(k)'
  <2>1. CASE a = t
    <3>1. a = k
      BY <1>1, <1>2, <2>1 DEF Notes
    <3> QED BY <1>1, <2>1, <3>1 DEF Notes, CaredFor, TypeOK, CallTypes
  <2>2. CASE a # t
    BY <1>1, <1>2, <2>2, StillNotes
  <2> QED BY <2>1, <2>2
<1>3. \A u \in Token : u \in promoted' \/ pc'[u] = "promoting" => u \in promoted \/ pc[u] = "promoting"
  BY <1>1
<1> QED BY <1>1, <1>2, <1>3, MindedKept DEF Minded

LEMMA MindedPromote == ASSUME TypeOK, Minded, Promote PROVE Minded'
<1> SUFFICES ASSUME NEW k, k = job.token PROVE Minded'
  OBVIOUS
<1>1. /\ k \in Token /\ k \in Actors /\ Running
      /\ UNCHANGED <<final, promoted, eye, said, tok, told>>
      /\ job' = [job EXCEPT !.background = TRUE] /\ pc' = [pc EXCEPT ![k] = "promoting"]
  BY TokenRunning DEF Promote, Goes, TypeOK, Actors
<1>2. job'.token = k /\ job'.background /\ job'.status = "running"
  BY <1>1 DEF TypeOK, JobTypes
<1>3. CaredFor(k)'
  BY <1>1 DEF CaredFor, Notes, TypeOK, CallTypes
<1>4. \A t \in Token : t \in promoted' \/ pc'[t] = "promoting" => InBackground(t)'
  BY <1>1, <1>2 DEF Minded, InBackground
<1>5. (job.background => job.token \in Token /\ CaredFor(job.token))'
  BY <1>1, <1>2, <1>3
<1>6. \A c \in Callers : (said[c] = "started" /\ tok[c] = job.token => CaredFor(tok[c]))'
  BY <1>2, <1>3
<1> QED BY <1>1, <1>2, <1>4, <1>5, <1>6 DEF Minded

(* Every step leaves the latest job minded. *)
LEMMA MindedStep ==
  ASSUME TypeOK, TypeOK', JobInv, Minded, [Next]_vars
  PROVE  Minded'
<1>1. ASSUME NEW t \in Token, NEW n \in Seq, FiberStep(t, n) PROVE Minded'
  <2>1. UNCHANGED <<promoted, calls, told>>
    BY <1>1 DEF FiberStep, Begin, RunEnds, Stop, Settle, Count
  <2>2. CASE Settle(t, n)
    BY <2>1, <2>2, BacksSettle, MindedFrame DEF TypeOK, JobInv
  <2>3. CASE ~Settle(t, n)
    <3>1. UNCHANGED <<job, final>>
      BY <1>1, <2>3 DEF FiberStep, Begin, RunEnds, Stop
    <3> QED BY <2>1, <3>1, BacksSame, MindedFrame
  <2> QED BY <2>2, <2>3
<1>2. ASSUME NEW t \in Token, Finish(t) PROVE Minded'
  BY <1>2, BacksSame, MindedFrame DEF Finish
<1>3. ASSUME Cancel PROVE Minded'
  BY <1>3, BacksEnds, MindedFrame DEF Cancel, TypeOK, JobInv
<1>4. ASSUME UNCHANGED vars PROVE Minded'
  BY <1>4, BacksSame, MindedFrame DEF vars
<1>5. ASSUME NEW c \in Callers, Extend(c) \/ CallStep(c) \/ Abort(c) PROVE Minded'
  BY <1>5, MindedStart, MindedCalls DEF CallStep
<1>6. ASSUME NEW a \in Actors, NoteStep(a) PROVE Minded'
  BY <1>6, MindedNote DEF NoteStep
<1> QED BY <1>1, <1>2, <1>3, <1>4, <1>5, <1>6, MindedPromoted, MindedPromote DEF Next

LEMMA InitMinded == Init => Minded
<1> SUFFICES ASSUME Init PROVE Minded
  OBVIOUS
<1>1. 0 \notin Token
  BY Ranges
<1>2. /\ job.token = 0 /\ ~job.background /\ promoted = {}
      /\ \A a \in Actors : eye[a] = 0 /\ pc[a] = "new"
      /\ \A c \in Callers : tok[c] = 0 /\ said[c] = "none"
      /\ \A t \in Token : ~final[t].background
  BY DEF Init
<1>3. \A t \in Token : t \in Actors
  BY DEF Actors
<1> QED BY <1>1, <1>2, <1>3 DEF Minded

(* pending is not counted down to zero: the last settlement ends the job. *)
Pending == Running => job.pending > 0

LEMMA PendingStep == ASSUME JobTypes, Pending, [Next]_vars PROVE Pending'
<1>1. CASE UNCHANGED Registry
  BY <1>1 DEF Registry, Pending
<1>2. ASSUME NEW t \in Token, NEW n \in Seq, NEW from, NEW to, Moves(t, n, from, to)
      PROVE  Pending'
  BY <1>2 DEF Moves, Pending
<1>3. ASSUME NEW t \in Token, NEW n \in Seq, CountsDown(t, n), Lowers(n) PROVE Pending'
  BY <1>3 DEF CountsDown, Lowers, Pending, JobTypes
<1>4. ASSUME NEW s \in Ends, NEW o \in Outs, Ended(s, o) PROVE Pending'
  BY <1>4 DEF Ended, Pending
<1>5. CASE job' = job
  BY <1>5 DEF Pending
<1>6. CASE Extended
  BY <1>6 DEF Extended, JobTypes, Pending
<1>7. CASE Started
  BY <1>7 DEF Started, Pending
<1>8. CASE Promotes
  BY <1>8 DEF Promotes, JobTypes, Pending
<1>9. job.out \in Outs /\ "cancelled" \in Ends
  BY DEF JobTypes, Outs
<1> QED BY PointStep, <1>1, <1>2, <1>3, <1>4, <1>5, <1>6, <1>7, <1>8, <1>9

LEMMA PendingIsBusy == ASSUME TypeOK, JobInv, Pending PROVE Busy
<1> SUFFICES ASSUME Running
             PROVE  /\ job.pending > 0
                    /\ \E n \in Seq : \/ fiber[job.token][n] \in {"accepted", "running"}
                                      \/ Exited(job.token, n)
  BY DEF Busy
<1>1. job.token \in Token /\ phase[job.token] = "open"
  BY TokenRunning DEF TypeOK, JobTypes, JobInv, Succession
<1>2. job.pending > 0 /\ job.pending = Cardinality(Unsettled)
  BY DEF Pending, JobInv, Counted
<1>3. PICK n \in Seq : n < job.next /\ n \notin settled[job.token]
  <2>1. Unsettled # {}
    <3>1. Cardinality({}) = 0
      BY FS_EmptySet
    <3>2. job.pending # 0
      BY <1>2 DEF TypeOK, JobTypes
    <3> QED BY <1>2, <3>1, <3>2
  <2> QED BY <2>1 DEF Unsettled
<1>4. fiber[job.token][n] \notin {"none", "stopped"}
  BY <1>1, <1>3 DEF JobInv, Accepted
<1> QED BY <1>1, <1>2, <1>3, <1>4 DEF Exited, TypeOK, JobTypes

LEMMA OnItsWay == ASSUME TypeOK, JobInv, Minded, Pending PROVE ResultOnItsWay
<1>1. ASSUME NEW a \in Actors, pc[a] \in {"waiting", "noting", "closing"}, phase[eye[a]] = "open"
      PROVE  eye[a] = job.token /\ Running
  <2>1. eye[a] \in Token /\ eye[a] <= job.token /\ ~(eye[a] < job.token)
    BY <1>1 DEF TypeOK, CallTypes, Minded, JobInv, Succession
  <2>2. eye[a] = job.token
    BY <2>1, JobAssumption DEF TypeOK, JobTypes, Token
  <2> QED BY <1>1, <2>1, <2>2 DEF JobInv, Succession
<1>2. Busy
  BY PendingIsBusy
<1> QED BY <1>1, <1>2 DEF ResultOnItsWay, Minded

(* A running job has a prompt that has yet to settle, so it can still end. *)
THEOREM RunningIsBusy == Spec => []Busy
<1>1. Init => Pending
  BY DEF Init, Pending
<1>2. TypeOK /\ JobInv /\ Pending /\ [Next]_vars => Pending'
  BY PendingStep DEF TypeOK
<1>3. TypeOK /\ JobInv /\ Pending => Busy
  BY PendingIsBusy
<1> QED BY JobInvariant, <1>1, <1>2, <1>3, PTL DEF Spec

(* Nobody waits for nothing: a job that is awaited has ended or can still end,  *)
(* and a call that was told its job runs in the background has its result        *)
(* injected or somebody who is to inject it.                                      *)
THEOREM NobodyWaitsForNothing == Spec => []ResultOnItsWay
<1>1. Init => Minded /\ Pending
  BY InitMinded DEF Init, Pending
<1>2. ASSUME TypeOK, TypeOK', JobInv, Minded, Pending, [Next]_vars PROVE Minded' /\ Pending'
  BY <1>2, MindedStep, PendingStep DEF TypeOK
<1>3. TypeOK /\ JobInv /\ Minded /\ Pending => ResultOnItsWay
  BY OnItsWay
<1> QED BY JobInvariant, <1>1, <1>2, <1>3, PTL DEF Spec

=============================================================================

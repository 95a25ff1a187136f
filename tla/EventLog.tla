------------------------------- MODULE EventLog -------------------------------
(***************************************************************************)
(* The durable event log of event.ts: committing local and replayed events *)
(* with their projections in one transaction, owner claims, the durable    *)
(* tails that replay and follow an aggregate, and bounded live subscribers.*)
(*                                                                         *)
(* The tables are shared by all server processes; tails, subscribers and   *)
(* publishing fibers live in one process each (Home).  A commit is one     *)
(* step, as its transaction is; waking the tails and notifying the live    *)
(* subscribers are steps of the same fiber after it.  An input that makes  *)
(* commitDurableEvent die changes nothing and is not a step.               *)
(***************************************************************************)
EXTENDS Naturals, Sequences, FiniteSets

CONSTANTS Aggs, Ids, Bodies,     \* aggregates, event IDs, type and data
          Owners, None,
          Fibers, Tails, Subs,   \* publishers, durable tails, live subscribers
          Procs, Home,           \* server processes; where each of them runs
          Capacity,              \* of the queue of a bounded subscriber
          MaxSeq,                \* bound on the sequence of an aggregate
          MaxOpens               \* bound on how often a tail or subscriber opens

ASSUME LogAssumption ==
  /\ None \notin Owners
  /\ Capacity \in Nat \ {0} /\ MaxSeq \in Nat /\ MaxOpens \in Nat
  /\ Home \in [Fibers \cup Tails \cup Subs -> Procs]

VARIABLES
  next,      \* per aggregate: event_sequence.seq + 1, 0 without a row
  owner,     \* per aggregate: event_sequence.owner_id
  rows,      \* the event table
  view,      \* per aggregate: the events that its projectors were run on
  fib,       \* per fiber: the commit it still has to announce
  tail,      \* per tail: its place, aggregate, cursor and wake slot
  out,       \* per tail: what its stream emitted
  sub,       \* per subscriber: whether it listens, its queue, its failure
  told,      \* per subscriber: notified before it failed, and not taken yet
  opens      \* per tail and subscriber: how often it was opened

logVars == <<next, owner, rows, view>>
tailVars == <<tail, out>>
subVars == <<sub, told>>
vars == <<logVars, fib, tailVars, subVars, opens>>

Row == [agg : Aggs, seq : 0..MaxSeq, id : Ids, body : Bodies]
Nothing == [pc |-> "idle", ev |-> None, tell |-> FALSE]
Closed == [pc |-> "off", agg |-> None, from |-> 0, cursor |-> 0, dirty |-> FALSE, page |-> {}]
Unsubscribed == [on |-> FALSE, queue |-> <<>>, failed |-> FALSE]

TypeOK ==
  /\ next \in [Aggs -> 0..(MaxSeq + 1)] /\ owner \in [Aggs -> Owners \cup {None}]
  /\ rows \subseteq Row /\ view \in [Aggs -> Seq(Row)]
  /\ fib \in [Fibers -> [pc : {"idle", "wake", "notify"}, ev : Row \cup {None}, tell : BOOLEAN]]
  /\ tail \in [Tails -> [pc : {"off", "read", "emit", "wait"}, agg : Aggs \cup {None},
                         from : 0..(MaxSeq + 1), cursor : 0..(MaxSeq + 1), dirty : BOOLEAN,
                         page : SUBSET Row]]
  /\ out \in [Tails -> Seq(Row)]
  /\ sub \in [Subs -> [on : BOOLEAN, queue : Seq(Row), failed : BOOLEAN]]
  /\ told \in [Subs -> Seq(Row)]
  /\ opens \in [Tails \cup Subs -> 0..MaxOpens]

Init ==
  /\ next = [a \in Aggs |-> 0] /\ owner = [a \in Aggs |-> None]
  /\ rows = {} /\ view = [a \in Aggs |-> <<>>]
  /\ fib = [f \in Fibers |-> Nothing]
  /\ tail = [t \in Tails |-> Closed] /\ out = [t \in Tails |-> <<>>]
  /\ sub = [s \in Subs |-> Unsubscribed]
  /\ told = [s \in Subs |-> <<>>]
  /\ opens = [x \in Tails \cup Subs |-> 0]

-----------------------------------------------------------------------------
(* commitDurableEvent.                                                       *)

Fresh(id) == \A r \in rows : r.id # id

(* The transaction of an accepted event: projectors, sequence row, event row. *)
Insert(f, a, id, body, tell) ==
  LET r == [agg |-> a, seq |-> next[a], id |-> id, body |-> body] IN
  /\ next[a] <= MaxSeq
  /\ view' = [view EXCEPT ![a] = Append(@, r)]
  /\ next' = [next EXCEPT ![a] = @ + 1]
  /\ rows' = rows \cup {r}
  /\ fib' = [fib EXCEPT ![f] = [pc |-> "wake", ev |-> r, tell |-> tell]]

Unwatched == UNCHANGED <<tailVars, subVars, opens>>

(* publish: ordinary local publishing is not fenced. *)
Publish(f, a, id, body) ==
  /\ fib[f] = Nothing /\ Fresh(id)
  /\ Insert(f, a, id, body, TRUE)
  /\ Unwatched /\ UNCHANGED owner

(* publish with requireOwner: only the recorded owner writes. *)
PublishAsOwner(f, a, id, body, o) ==
  /\ fib[f] = Nothing /\ owner[a] = o /\ Fresh(id)
  /\ Insert(f, a, id, body, TRUE)
  /\ Unwatched /\ UNCHANGED owner

Adopt(a, o) == owner' = [owner EXCEPT ![a] = IF @ = None THEN o ELSE @]

(* replay of the next event, which claims an unowned aggregate.  An owner   *)
(* that does not match makes it die when strict and return when not.        *)
Replay(f, a, seq, id, body, o, tell) ==
  /\ fib[f] = Nothing /\ owner[a] \in {None, o}
  /\ seq = next[a] /\ Fresh(id)
  /\ Insert(f, a, id, body, tell)
  /\ Adopt(a, o)
  /\ Unwatched

MutReplayAgainProjects(a, seq, id, body, o, strict) ==
  /\ strict => owner[a] \in {None, o}
  /\ seq < next[a]
  /\ \E r \in rows : /\ r.agg = a /\ r.seq = seq /\ r.id = id /\ r.body = body
                     /\ view' = [view EXCEPT ![a] = Append(@, r)]
  /\ Adopt(a, o)
  /\ Unwatched /\ UNCHANGED <<next, rows, fib>>

(* replay of an event that is stored already: nothing but the claim, also   *)
(* when another owner is recorded and the replay is not strict.             *)
ReplayAgain(a, seq, id, body, o, strict) ==
  /\ strict => owner[a] \in {None, o}
  /\ seq < next[a]
  /\ [agg |-> a, seq |-> seq, id |-> id, body |-> body] \in rows
  /\ Adopt(a, o)
  /\ Unwatched /\ UNCHANGED <<next, rows, view, fib>>

OwnerOnly == Unwatched /\ UNCHANGED <<next, rows, view, fib>>

Claim(a, o) ==
  /\ next[a] > 0
  /\ owner' = [owner EXCEPT ![a] = o]
  /\ OwnerOnly

ClaimConditional(a, o, expected) ==
  /\ next[a] > 0 /\ owner[a] = expected
  /\ owner' = [owner EXCEPT ![a] = o]
  /\ OwnerOnly

Release(a, o) ==
  /\ owner[a] = o
  /\ owner' = [owner EXCEPT ![a] = None]
  /\ OwnerOnly

(* remove: both tables in one transaction.  The projection goes with the    *)
(* deletion of the Session that precedes it.                                *)
Remove(a) ==
  /\ next[a] > 0
  /\ next' = [next EXCEPT ![a] = 0] /\ owner' = [owner EXCEPT ![a] = None]
  /\ rows' = {r \in rows : r.agg # a} /\ view' = [view EXCEPT ![a] = <<>>]
  /\ Unwatched /\ UNCHANGED fib

-----------------------------------------------------------------------------
(* Announcing a commit.                                                      *)

MutWakeWaitingOnly(f) ==
  /\ fib[f].pc = "wake"
  /\ tail' = [t \in Tails |->
       IF tail[t].pc = "wait" /\ tail[t].agg = fib[f].ev.agg /\ Home[t] = Home[f]
       THEN [tail[t] EXCEPT !.dirty = TRUE] ELSE tail[t]]
  /\ fib' = [fib EXCEPT ![f] = IF @.tell THEN [@ EXCEPT !.pc = "notify"] ELSE Nothing]
  /\ UNCHANGED <<logVars, out, subVars, opens>>

(* After the commit the tails of this process have their slot filled: a     *)
(* sliding PubSub of capacity one.                                          *)
Wake(f) ==
  /\ fib[f].pc = "wake"
  /\ tail' = [t \in Tails |->
       IF tail[t].agg = fib[f].ev.agg /\ Home[t] = Home[f]
       THEN [tail[t] EXCEPT !.dirty = TRUE] ELSE tail[t]]
  /\ fib' = [fib EXCEPT ![f] = IF @.tell THEN [@ EXCEPT !.pc = "notify"] ELSE Nothing]
  /\ UNCHANGED <<logVars, out, subVars, opens>>

MutOfferDrops(s, r) ==
  IF Len(sub[s].queue) < Capacity /\ ~sub[s].failed
  THEN [sub[s] EXCEPT !.queue = Append(@, r)]
  ELSE sub[s]

(* The offer of allBounded to a dropping queue: overflow fails the queue. *)
Offer(s, r) ==
  IF Len(sub[s].queue) < Capacity /\ ~sub[s].failed
  THEN [sub[s] EXCEPT !.queue = Append(@, r)]
  ELSE [sub[s] EXCEPT !.failed = TRUE]

Hears(s, f) == sub[s].on /\ Home[s] = Home[f]

Notify(f) ==
  /\ fib[f].pc = "notify"
  /\ sub' = [s \in Subs |-> IF Hears(s, f) THEN Offer(s, fib[f].ev) ELSE sub[s]]
  /\ told' = [s \in Subs |-> IF Hears(s, f) /\ ~sub[s].failed THEN Append(told[s], fib[f].ev) ELSE told[s]]
  /\ fib' = [fib EXCEPT ![f] = Nothing]
  /\ UNCHANGED <<logVars, tailVars, opens>>

(* A publisher may be interrupted once its commit and wakes are done. *)
Interrupted(f) ==
  /\ fib[f].pc = "notify"
  /\ fib' = [fib EXCEPT ![f] = Nothing]
  /\ UNCHANGED <<logVars, tailVars, subVars, opens>>

-----------------------------------------------------------------------------
(* durable: replay and tail one aggregate.                                   *)

After(a, n) == {r \in rows : r.agg = a /\ r.seq >= n}

(* The rows in the order of their sequence. *)
Sorted(R) == [i \in 1..Cardinality(R) |->
                CHOOSE r \in R : Cardinality({q \in R : q.seq < r.seq}) = i - 1]

TailOnly == UNCHANGED <<logVars, fib, subVars>>

(* subscribeDurable registers the slot before anything is read. *)
Open(t, a, n) ==
  /\ tail[t].pc = "off" /\ opens[t] < MaxOpens
  /\ tail' = [tail EXCEPT ![t] = [Closed EXCEPT !.pc = "read", !.agg = a, !.from = n, !.cursor = n]]
  /\ opens' = [opens EXCEPT ![t] = @ + 1]
  /\ TailOnly /\ UNCHANGED out

(* readAfter: the rows behind the cursor, as the query finds them. *)
Read(t) ==
  /\ tail[t].pc = "read"
  /\ tail' = [tail EXCEPT ![t].pc = "emit", ![t].page = After(tail[t].agg, tail[t].cursor)]
  /\ TailOnly /\ UNCHANGED <<out, opens>>

LastSeq(R) == (CHOOSE r \in R : \A q \in R : q.seq <= r.seq).seq

MutEmitForgetsCursor(t) ==
  LET R == tail[t].page IN
  /\ tail[t].pc = "emit"
  /\ out' = [out EXCEPT ![t] = @ \o Sorted(R)]
  /\ tail' = [tail EXCEPT ![t].pc = "wait", ![t].page = {}]
  /\ TailOnly /\ UNCHANGED opens

(* The answer of the query moves the cursor and is emitted. *)
Emit(t) ==
  LET R == tail[t].page IN
  /\ tail[t].pc = "emit"
  /\ out' = [out EXCEPT ![t] = @ \o Sorted(R)]
  /\ tail' = [tail EXCEPT ![t].pc = "wait", ![t].page = {},
                          ![t].cursor = IF R = {} THEN @ ELSE LastSeq(R) + 1]
  /\ TailOnly /\ UNCHANGED opens

(* The live part takes the wake, which empties the slot, and reads again. *)
TakeWake(t) ==
  /\ tail[t].pc = "wait" /\ tail[t].dirty
  /\ tail' = [tail EXCEPT ![t].pc = "read", ![t].dirty = FALSE]
  /\ TailOnly /\ UNCHANGED <<out, opens>>

Close(t) ==
  /\ tail[t].pc # "off"
  /\ tail' = [tail EXCEPT ![t] = Closed] /\ out' = [out EXCEPT ![t] = <<>>]
  /\ TailOnly /\ UNCHANGED opens

-----------------------------------------------------------------------------
(* allBounded: a live subscriber with a queue.                               *)

SubOnly == UNCHANGED <<logVars, fib, tailVars>>

Subscribe(s) ==
  /\ ~sub[s].on /\ opens[s] < MaxOpens
  /\ sub' = [sub EXCEPT ![s].on = TRUE]
  /\ opens' = [opens EXCEPT ![s] = @ + 1]
  /\ SubOnly /\ UNCHANGED told

Take(s) ==
  /\ sub[s].on /\ sub[s].queue # <<>>
  /\ sub' = [sub EXCEPT ![s].queue = Tail(@)] /\ told' = [told EXCEPT ![s] = Tail(@)]
  /\ SubOnly /\ UNCHANGED opens

(* The consumer leaves, or is ended by the failure behind the last entry. *)
Leave(s) ==
  /\ sub[s].on
  /\ sub' = [sub EXCEPT ![s] = Unsubscribed] /\ told' = [told EXCEPT ![s] = <<>>]
  /\ SubOnly /\ UNCHANGED opens

(* A process dies with its fibers, tails and subscribers. *)
Crash(p) ==
  /\ \E x \in Fibers : Home[x] = p /\ fib[x] # Nothing
  /\ fib' = [x \in Fibers |-> IF Home[x] = p THEN Nothing ELSE fib[x]]
  /\ tail' = [x \in Tails |-> IF Home[x] = p THEN Closed ELSE tail[x]]
  /\ out' = [x \in Tails |-> IF Home[x] = p THEN <<>> ELSE out[x]]
  /\ sub' = [x \in Subs |-> IF Home[x] = p THEN Unsubscribed ELSE sub[x]]
  /\ told' = [x \in Subs |-> IF Home[x] = p THEN <<>> ELSE told[x]]
  /\ UNCHANGED <<logVars, opens>>

-----------------------------------------------------------------------------
Write(f) ==
  \E a \in Aggs, id \in Ids, body \in Bodies :
    \/ Publish(f, a, id, body)
    \/ \E o \in Owners : PublishAsOwner(f, a, id, body, o)
    \/ \E o \in Owners \cup {None}, seq \in 0..MaxSeq, tell \in BOOLEAN :
         Replay(f, a, seq, id, body, o, tell)

Own(a) ==
  \/ \E o \in Owners : \/ Claim(a, o) \/ Release(a, o)
                       \/ \E e \in Owners \cup {None} : ClaimConditional(a, o, e)
  \/ \E id \in Ids, body \in Bodies, o \in Owners \cup {None}, seq \in 0..MaxSeq, strict \in BOOLEAN :
       ReplayAgain(a, seq, id, body, o, strict)

Announce(f) == Wake(f) \/ Notify(f)
Follow(t) == Read(t) \/ Emit(t) \/ TakeWake(t)

Next ==
  \/ \E f \in Fibers : Write(f) \/ Announce(f) \/ Interrupted(f)
  \/ \E a \in Aggs : Own(a) \/ Remove(a)
  \/ \E t \in Tails : Follow(t) \/ Close(t) \/ \E a \in Aggs : \E n \in 0..next[a] : Open(t, a, n)
  \/ \E s \in Subs : Subscribe(s) \/ Take(s) \/ Leave(s)
  \/ \E p \in Procs : Crash(p)

Spec == Init /\ [][Next]_vars

(* A fiber finishes what follows its commit, which is uninterruptible up to *)
(* the wakes; a tail is consumed.                                           *)
Fairness == /\ \A f \in Fibers : WF_vars(Announce(f))
            /\ \A t \in Tails : WF_vars(Follow(t))

FairSpec == Spec /\ Fairness

-----------------------------------------------------------------------------
(* Properties.                                                               *)

Log(a) == After(a, 0)

(* The sequence row, the event rows and their IDs agree: no gap, no second  *)
(* event at a position, no ID used twice, no owner without a log.           *)
LogContiguous ==
  /\ \A a \in Aggs : /\ {r.seq : r \in Log(a)} = {n \in 0..MaxSeq : n < next[a]}
                     /\ Cardinality(Log(a)) = next[a]
                     /\ owner[a] # None => next[a] > 0
  /\ \A r, q \in rows : r.id = q.id => r = q

(* Log and projection stay of one piece: projectors run once per event and  *)
(* in sequence order, whether it was published or replayed, and however     *)
(* often it was replayed.                                                   *)
ViewIsLog == LogContiguous /\ \A a \in Aggs : view[a] = Sorted(Log(a))

(* A tail emits consecutive sequence numbers from where it was asked to     *)
(* start: nothing twice, nothing skipped between replay and live part.      *)
TailConsecutive ==
  \A t \in Tails : /\ \A i \in 1..Len(out[t]) : out[t][i].seq = tail[t].from + i - 1
                   /\ Len(out[t]) = tail[t].cursor - tail[t].from

Unread(t) == After(tail[t].agg, tail[t].cursor) \ tail[t].page
WakeComes(t) == \E f \in Fibers : fib[f].pc = "wake" /\ fib[f].ev.agg = tail[t].agg

(* A tail never sleeps over an event: from the moment its query was answered  *)
(* its wake slot is filled, or a publisher is about to fill it, when the log  *)
(* holds more than the answer did.  Publishers of other processes fill no     *)
(* slot here, so that this is said of tails beside all of their publishers.   *)
NoWakeLost ==
  \A t \in Tails :
    /\ \A f \in Fibers : Home[f] = Home[t]
    /\ tail[t].pc \in {"emit", "wait"} /\ Unread(t) # {}
    => tail[t].dirty \/ WakeComes(t)

(* Replay and live part of a tail are of one piece (event.ts:745-783).       *)
TailKeepsUp == TailConsecutive /\ NoWakeLost

(* A bounded subscriber that falls behind is ended: what it has queued is   *)
(* the next of what was notified, and all of it as long as it did not fail. *)
NoSilentGap ==
  \A s \in Subs :
    /\ sub[s].queue = SubSeq(told[s], 1, Len(sub[s].queue))
    /\ ~sub[s].failed => sub[s].queue = told[s]

(* "a replay-and-tail stream of every durable event in aggregate sequence   *)
(* order": what is committed reaches every open tail of the aggregate.      *)
TailCatchesUp ==
  \A t \in Tails, a \in Aggs, n \in 0..MaxSeq :
    (tail[t].agg = a /\ tail[t].from <= n /\ next[a] > n)
      ~> (tail[t].agg # a \/ tail[t].cursor > n \/ next[a] <= n)

-----------------------------------------------------------------------------
(* What the properties rest on: the inductive invariants of EventLogProofs.  *)

(* The positions of an aggregate are filled once each, up to its sequence row. *)
Filled ==
  /\ \A r, q \in rows : r.id = q.id \/ (r.agg = q.agg /\ r.seq = q.seq) => r = q
  /\ \A r \in rows : r.seq < next[r.agg]
  /\ \A a \in Aggs : /\ \A n \in 0..MaxSeq : n < next[a] => \E r \in rows : r.agg = a /\ r.seq = n
                     /\ owner[a] # None => next[a] > 0

Projected ==
  \A a \in Aggs :
    /\ Len(view[a]) = next[a]
    /\ \A i \in 1..next[a] : view[a][i] \in Log(a) /\ view[a][i].seq = i - 1

LogInv == Filled /\ Projected

(* The sequence numbers of R are n, n + 1, ..., m - 1. *)
Run(R, n, m) ==
  /\ \A r, q \in R : r.seq = q.seq => r = q
  /\ n <= m /\ {r.seq : r \in R} = n..(m - 1)

(* The answer of a query goes on where the cursor stands. *)
Pages ==
  \A t \in Tails :
    /\ tail[t].from <= tail[t].cursor
    /\ tail[t].pc = "off" => tail[t].cursor = tail[t].from
    /\ \E m \in 0..(MaxSeq + 1) : Run(tail[t].page, tail[t].cursor, m)

(* A fiber announces a row, and an open tail follows an aggregate. *)
Busy ==
  /\ \A f \in Fibers : fib[f].pc # "idle" => fib[f].ev \in Row
  /\ \A t \in Tails : tail[t].pc # "off" => tail[t].agg \in Aggs

(* What is queued was notified. *)
Queued ==
  \A s \in Subs :
    /\ Len(sub[s].queue) <= Len(told[s])
    /\ \A i \in 1..Len(sub[s].queue) : sub[s].queue[i] = told[s][i]
    /\ ~sub[s].failed => Len(sub[s].queue) = Len(told[s])

=============================================================================

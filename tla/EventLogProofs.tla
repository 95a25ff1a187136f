---------------------------- MODULE EventLogProofs ----------------------------
(* Proofs about EventLog, for any processes, publishers, tails, subscribers   *)
(* and bounds: the log has no gap and no duplicate, the projection is the     *)
(* log, a tail emits consecutive numbers, and no subscriber has a silent gap. *)
EXTENDS EventLog, FiniteSetTheorems, FunctionTheorems,
        SequenceTheorems, TLAPS

USE LogAssumption

-----------------------------------------------------------------------------
(* Rows in the order of their sequence.                                      *)

(* Counting the rows of a run: as many as it has numbers. *)
LEMMA RunCount ==
  ASSUME NEW R, NEW n \in Nat, NEW m \in Nat, Run(R, n, m)
  PROVE  IsFiniteSet(R) /\ Cardinality(R) = m - n
<1> DEFINE pos == [r \in R |-> r.seq]
<1>1. pos \in Bijection(R, n..(m - 1))
  <2>1. pos \in [R -> n..(m - 1)]
    BY DEF Run
  <2>2. \A r, q \in R : pos[r] = pos[q] => r = q
    BY DEF Run
  <2>3. \A k \in n..(m - 1) : \E r \in R : pos[r] = k
    BY DEF Run
  <2> QED BY <2>1, <2>2, <2>3, Zenon DEF Bijection, Injection, Surjection, IsInjective
<1>2. ExistsBijection(n..(m - 1), R)
  BY <1>1, Fun_ExistsBijSymmetric DEF ExistsBijection
<1>3. IsFiniteSet(n..(m - 1)) /\ Cardinality(n..(m - 1)) = m - n
  BY FS_Interval DEF Run
<1> QED BY <1>2, <1>3, FS_Bijection

(* The i-th of the sorted rows has the i-th number. *)
LEMMA SortedRun ==
  ASSUME NEW R, NEW n \in Nat, NEW m \in Nat, Run(R, n, m)
  PROVE  /\ Len(Sorted(R)) = m - n /\ Sorted(R) \in Seq(R)
         /\ \A i \in 1..(m - n) : Sorted(R)[i] \in R /\ Sorted(R)[i].seq = n + i - 1
<1>1. Cardinality(R) = m - n /\ m - n \in Nat
  <2>1. Cardinality(R) = m - n
    BY RunCount
  <2>2. n <= m
    BY DEF Run
  <2> QED BY <2>1, <2>2
<1>2. ASSUME NEW r \in R PROVE Cardinality({q \in R : q.seq < r.seq}) = r.seq - n
  <2> DEFINE B == {q \in R : q.seq < r.seq}
  <2>1. r.seq \in n..(m - 1)
    BY <1>2 DEF Run
  <2>2. \A q \in R : q.seq \in n..(m - 1)
    BY DEF Run
  <2>3. {q.seq : q \in B} = n..(r.seq - 1)
    <3>1. \A k \in n..(m - 1) : \E q \in R : q.seq = k
      BY DEF Run
    <3> QED BY <2>1, <2>2, <3>1
  <2>4. Run(B, n, r.seq)
    BY <2>1, <2>3 DEF Run
  <2>5. r.seq \in Nat
    BY <2>1
  <2> HIDE DEF B
  <2>6. Cardinality(B) = r.seq - n
    BY <2>4, <2>5, RunCount
  <2> QED BY <2>6 DEF B
<1>3. ASSUME NEW i \in 1..(m - n) PROVE Sorted(R)[i] \in R /\ Sorted(R)[i].seq = n + i - 1
  <2>1. \E r \in R : Cardinality({q \in R : q.seq < r.seq}) = i - 1
    <3>1. n + i - 1 \in n..(m - 1)
      BY <1>3
    <3>2. PICK r \in R : r.seq = n + i - 1
      BY <3>1 DEF Run
    <3> QED BY <1>2, <3>2
  <2> DEFINE c == CHOOSE r \in R : Cardinality({q \in R : q.seq < r.seq}) = i - 1
  <2>2. c \in R /\ Cardinality({q \in R : q.seq < c.seq}) = i - 1
    BY <2>1
  <2> HIDE DEF c
  <2>3. c.seq \in n..(m - 1)
    BY <2>2 DEF Run
  <2>4. c.seq = n + i - 1
    BY <2>2, <2>3, <1>2
  <2>5. Sorted(R)[i] = c
    BY <1>1, <1>3 DEF Sorted, c
  <2> QED BY <2>2, <2>4, <2>5
<1>4. Len(Sorted(R)) = m - n /\ DOMAIN Sorted(R) = 1..(m - n)
  BY <1>1 DEF Sorted
<1>5. Sorted(R) \in Seq(R)
  <2>1. Sorted(R) = [i \in 1..(m - n) |-> Sorted(R)[i]]
    BY <1>1 DEF Sorted
  <2> DEFINE t == Sorted(R)
  <2>2. t = [i \in 1..(m - n) |-> t[i]] /\ \A i \in 1..(m - n) : t[i] \in R
    BY <2>1, <1>3
  <2> HIDE DEF t
  <2>3. t \in Seq(R)
    BY <1>1, <2>2
  <2> QED BY <2>3 DEF t
<1> QED BY <1>3, <1>4, <1>5

(* Two sequences in the order of one run are the same. *)
LEMMA OneOrder ==
  ASSUME NEW R, NEW m \in Nat, Run(R, 0, m), NEW v \in Seq(R), Len(v) = m,
         \A i \in 1..m : v[i].seq = i - 1
  PROVE  v = Sorted(R)
<1>1. /\ Len(Sorted(R)) = m /\ Sorted(R) \in Seq(R)
      /\ \A i \in 1..m : Sorted(R)[i] \in R /\ Sorted(R)[i].seq = i - 1
  <2>1. /\ Len(Sorted(R)) = m - 0 /\ Sorted(R) \in Seq(R)
        /\ \A i \in 1..(m - 0) : Sorted(R)[i] \in R /\ Sorted(R)[i].seq = 0 + i - 1
    BY SortedRun
  <2> QED BY <2>1
<1>2. \A i \in 1..m : v[i] = Sorted(R)[i]
  BY <1>1 DEF Run
<1> QED BY <1>1, <1>2

-----------------------------------------------------------------------------
(* Types.                                                                    *)

LEMMA InitType == Init => TypeOK /\ Busy
<1> SUFFICES ASSUME Init PROVE TypeOK /\ Busy
  OBVIOUS
<1> USE DEF Init, Nothing, Closed, Unsubscribed
<1>1. next \in [Aggs -> 0..(MaxSeq + 1)] /\ owner \in [Aggs -> Owners \cup {None}]
  OBVIOUS
<1>2. rows \subseteq Row /\ view \in [Aggs -> Seq(Row)]
  OBVIOUS
<1>3. fib \in [Fibers -> [pc : {"idle", "wake", "notify"}, ev : Row \cup {None}, tell : BOOLEAN]]
  OBVIOUS
<1>4. /\ tail \in [Tails -> [pc : {"off", "read", "emit", "wait"}, agg : Aggs \cup {None},
                            from : 0..(MaxSeq + 1), cursor : 0..(MaxSeq + 1),
                            dirty : BOOLEAN, page : SUBSET Row]]
      /\ out \in [Tails -> Seq(Row)]
  OBVIOUS
<1>5. /\ sub \in [Subs -> [on : BOOLEAN, queue : Seq(Row), failed : BOOLEAN]]
      /\ told \in [Subs -> Seq(Row)] /\ opens \in [Tails \cup Subs -> 0..MaxOpens]
  OBVIOUS
<1>6. Busy
  BY DEF Busy
<1> QED BY <1>1, <1>2, <1>3, <1>4, <1>5, <1>6 DEF TypeOK

(* What a commit does to the tables and to its fiber. *)
LEMMA InsertType ==
  ASSUME TypeOK, NEW f \in Fibers, NEW a \in Aggs, NEW id \in Ids, NEW body \in Bodies,
         NEW tell \in BOOLEAN, Insert(f, a, id, body, tell)
  PROVE  /\ next' \in [Aggs -> 0..(MaxSeq + 1)] /\ rows' \subseteq Row
         /\ view' \in [Aggs -> Seq(Row)]
         /\ fib' \in [Fibers -> [pc : {"idle", "wake", "notify"}, ev : Row \cup {None},
                                 tell : BOOLEAN]]
         /\ \A g \in Fibers : fib'[g] = fib[g] \/ fib'[g].ev \in Row
<1> DEFINE r == [agg |-> a, seq |-> next[a], id |-> id, body |-> body]
<1>1. r \in Row
  BY DEF TypeOK, Insert, Row
<1>2. /\ next[a] <= MaxSeq /\ view' = [view EXCEPT ![a] = Append(@, r)]
      /\ next' = [next EXCEPT ![a] = @ + 1] /\ rows' = rows \cup {r}
      /\ fib' = [fib EXCEPT ![f] = [pc |-> "wake", ev |-> r, tell |-> tell]]
  BY DEF Insert
<1> HIDE DEF r
<1>3. next' \in [Aggs -> 0..(MaxSeq + 1)] /\ rows' \subseteq Row
  BY <1>1, <1>2 DEF TypeOK
<1>4. view' \in [Aggs -> Seq(Row)]
  BY <1>1, <1>2 DEF TypeOK
<1>5. /\ fib' \in [Fibers -> [pc : {"idle", "wake", "notify"}, ev : Row \cup {None},
                                 tell : BOOLEAN]]
      /\ \A g \in Fibers : fib'[g] = fib[g] \/ fib'[g].ev \in Row
  BY <1>1, <1>2 DEF TypeOK
<1> QED BY <1>3, <1>4, <1>5

LEMMA WriteType ==
  ASSUME TypeOK, Busy, NEW f \in Fibers, Write(f)
  PROVE  TypeOK' /\ Busy'
<1>1. PICK a \in Aggs, id \in Ids, body \in Bodies, tell \in BOOLEAN :
        /\ Insert(f, a, id, body, tell) /\ Unwatched
        /\ owner' = owner \/ \E o \in Owners \cup {None} : Adopt(a, o)
  BY DEF Write, Publish, PublishAsOwner, Replay
<1>2. owner' \in [Aggs -> Owners \cup {None}]
  BY <1>1 DEF Adopt, TypeOK
<1>3. /\ next' \in [Aggs -> 0..(MaxSeq + 1)] /\ rows' \subseteq Row
      /\ view' \in [Aggs -> Seq(Row)]
      /\ fib' \in [Fibers -> [pc : {"idle", "wake", "notify"}, ev : Row \cup {None},
                              tell : BOOLEAN]]
      /\ \A g \in Fibers : fib'[g] = fib[g] \/ fib'[g].ev \in Row
  BY <1>1, InsertType
<1>4. Busy'
  BY <1>1, <1>3 DEF Busy, Unwatched, tailVars, Row
<1> QED BY <1>1, <1>2, <1>3, <1>4 DEF TypeOK, Unwatched, tailVars, subVars, Row

LEMMA OwnType ==
  ASSUME TypeOK, Busy, NEW a \in Aggs, Own(a) \/ Remove(a)
  PROVE  TypeOK' /\ Busy'
<1>1. /\ \E o \in Owners \cup {None} : owner' = [owner EXCEPT ![a] = o]
      /\ Unwatched /\ UNCHANGED fib /\ ((UNCHANGED <<next, rows, view>>) \/ Remove(a))
  <2>1. CASE Remove(a)
    BY <2>1 DEF Remove
  <2>2. CASE Own(a)
    <3>1. ASSUME NEW o \in Owners, NEW e \in Owners \cup {None},
                 Claim(a, o) \/ Release(a, o) \/ ClaimConditional(a, o, e)
          PROVE  /\ \E x \in Owners \cup {None} : owner' = [owner EXCEPT ![a] = x]
                 /\ OwnerOnly
      BY <3>1 DEF Claim, Release, ClaimConditional
    <3>2. ASSUME NEW o \in Owners \cup {None}, Adopt(a, o)
          PROVE  \E x \in Owners \cup {None} : owner' = [owner EXCEPT ![a] = x]
      <4>1. owner' = [owner EXCEPT ![a] = IF owner[a] = None THEN o ELSE owner[a]]
        BY <3>2 DEF Adopt
      <4>2. (IF owner[a] = None THEN o ELSE owner[a]) \in Owners \cup {None}
        BY DEF TypeOK
      <4> QED BY <4>1, <4>2
    <3>3. ASSUME NEW id \in Ids, NEW body \in Bodies, NEW o \in Owners \cup {None},
                 NEW seq \in 0..MaxSeq, NEW strict \in BOOLEAN,
                 ReplayAgain(a, seq, id, body, o, strict)
          PROVE  Adopt(a, o) /\ OwnerOnly
      BY <3>3 DEF ReplayAgain, OwnerOnly
    <3> QED BY <2>2, <3>1, <3>2, <3>3 DEF Own, OwnerOnly
  <2> QED BY <2>1, <2>2
<1>2. /\ next' \in [Aggs -> 0..(MaxSeq + 1)] /\ rows' \subseteq Row
      /\ view' \in [Aggs -> Seq(Row)]
  <2>1. CASE Remove(a)
    <3>1. next' \in [Aggs -> 0..(MaxSeq + 1)] /\ rows' \subseteq Row
      BY <2>1 DEF TypeOK, Remove
    <3>2. view' \in [Aggs -> Seq(Row)]
      <4>1. <<>> \in Seq(Row)
        OBVIOUS
      <4> QED BY <2>1, <4>1 DEF TypeOK, Remove
    <3> QED BY <3>1, <3>2
  <2> QED BY <1>1, <2>1 DEF TypeOK
<1>3. owner' \in [Aggs -> Owners \cup {None}]
  BY <1>1 DEF TypeOK
<1> QED BY <1>1, <1>2, <1>3 DEF TypeOK, Busy, Unwatched, tailVars, subVars, Row

LEMMA AnnounceType ==
  ASSUME TypeOK, Busy, NEW f \in Fibers, Announce(f) \/ Interrupted(f)
  PROVE  TypeOK' /\ Busy'
<1> DEFINE Fib == [pc : {"idle", "wake", "notify"}, ev : Row \cup {None}, tell : BOOLEAN]
<1>1. fib' \in [Fibers -> Fib] /\ \A g \in Fibers : fib'[g].pc # "idle" => fib'[g].ev \in Row
  <2>1. fib' = [fib EXCEPT ![f] = Nothing] \/ fib' = [fib EXCEPT ![f] = [@ EXCEPT !.pc = "notify"]]
    BY DEF Announce, Wake, Notify, Interrupted, TypeOK
  <2>2. fib[f].ev \in Row
    BY DEF Announce, Wake, Notify, Interrupted, Busy
  <2>3. CASE fib' = [fib EXCEPT ![f] = Nothing]
    BY <2>3 DEF TypeOK, Busy, Nothing, Fib
  <2>4. CASE fib' = [fib EXCEPT ![f] = [@ EXCEPT !.pc = "notify"]]
    <3> DEFINE y == fib[f]
    <3>1. /\ y.ev \in Row /\ y.tell \in BOOLEAN
          /\ y = [pc |-> y.pc, ev |-> y.ev, tell |-> y.tell]
      BY <2>2 DEF TypeOK
    <3>2. fib' = [fib EXCEPT ![f] = [y EXCEPT !.pc = "notify"]]
      BY <2>4
    <3> HIDE DEF y
    <3>3. [y EXCEPT !.pc = "notify"] = [pc |-> "notify", ev |-> y.ev, tell |-> y.tell]
      BY <3>1
    <3>4. fib' = [fib EXCEPT ![f] = [pc |-> "notify", ev |-> y.ev, tell |-> y.tell]]
      BY <3>2, <3>3
    <3> QED BY <3>1, <3>4 DEF TypeOK, Busy, Fib
  <2> QED BY <2>1, <2>3, <2>4
<1>2. CASE Wake(f)
  <2>1. tail' \in [Tails -> [pc : {"off", "read", "emit", "wait"}, agg : Aggs \cup {None},
                            from : 0..(MaxSeq + 1), cursor : 0..(MaxSeq + 1),
                            dirty : BOOLEAN, page : SUBSET Row]]
    <3>1. ASSUME NEW t \in Tails PROVE [tail[t] EXCEPT !.dirty = TRUE]
             \in [pc : {"off", "read", "emit", "wait"}, agg : Aggs \cup {None},
                  from : 0..(MaxSeq + 1), cursor : 0..(MaxSeq + 1),
                  dirty : BOOLEAN, page : SUBSET Row]
      <4> DEFINE x == tail[t]
      <4>1. /\ x.pc \in {"off", "read", "emit", "wait"} /\ x.agg \in Aggs \cup {None}
            /\ x.from \in 0..(MaxSeq + 1) /\ x.cursor \in 0..(MaxSeq + 1)
            /\ x.page \in SUBSET Row
        BY DEF TypeOK
      <4>2. x = [pc |-> x.pc, agg |-> x.agg, from |-> x.from, cursor |-> x.cursor,
                 dirty |-> x.dirty, page |-> x.page]
        BY DEF TypeOK
      <4> HIDE DEF x
      <4>3. [x EXCEPT !.dirty = TRUE]
               \in [pc : {"off", "read", "emit", "wait"}, agg : Aggs \cup {None},
                    from : 0..(MaxSeq + 1), cursor : 0..(MaxSeq + 1),
                    dirty : BOOLEAN, page : SUBSET Row]
        BY <4>1, <4>2
      <4> QED BY <4>3 DEF x
    <3> QED BY <1>2, <3>1 DEF TypeOK, Wake
  <2>2. \A t \in Tails : tail'[t].pc = tail[t].pc /\ tail'[t].agg = tail[t].agg
    BY <1>2 DEF TypeOK, Wake
  <2> QED BY <1>1, <1>2, <2>1, <2>2 DEF TypeOK, Busy, Wake, logVars, subVars, Row
<1>3. CASE Notify(f)
  <2>1. fib[f].ev \in Row
    BY <1>3 DEF Notify, Busy
  <2>2. sub' \in [Subs -> [on : BOOLEAN, queue : Seq(Row), failed : BOOLEAN]]
    <3>1. ASSUME NEW s \in Subs PROVE Offer(s, fib[f].ev)
                 \in [on : BOOLEAN, queue : Seq(Row), failed : BOOLEAN]
      <4>1. /\ sub[s].on \in BOOLEAN /\ sub[s].failed \in BOOLEAN
            /\ sub[s].queue \in Seq(Row) /\ Append(sub[s].queue, fib[f].ev) \in Seq(Row)
            /\ sub[s] = [on |-> sub[s].on, queue |-> sub[s].queue, failed |-> sub[s].failed]
        BY <2>1 DEF TypeOK
      <4> QED BY <4>1 DEF Offer
    <3> QED BY <1>3, <3>1 DEF TypeOK, Notify
  <2>3. told' \in [Subs -> Seq(Row)]
    BY <1>3, <2>1 DEF TypeOK, Notify
  <2> QED BY <1>1, <1>3, <2>2, <2>3 DEF TypeOK, Busy, Notify, logVars, tailVars, Row
<1>4. CASE Interrupted(f)
  BY <1>1, <1>4 DEF TypeOK, Busy, Interrupted, logVars, tailVars, subVars, Row
<1> QED BY <1>2, <1>3, <1>4 DEF Announce

(* The cursor stays within the log. *)
LEMMA PageEnd ==
  ASSUME TypeOK, Pages, NEW t \in Tails, tail[t].page # {}
  PROVE  /\ Run(tail[t].page, tail[t].cursor, LastSeq(tail[t].page) + 1)
         /\ LastSeq(tail[t].page) \in 0..MaxSeq
<1> DEFINE R == tail[t].page
<1>1. R \subseteq Row /\ tail[t].cursor \in Nat
  BY DEF TypeOK
<1>2. PICK m \in 0..(MaxSeq + 1) : Run(R, tail[t].cursor, m)
  BY DEF Pages
<1>3. \A r \in R : r.seq \in tail[t].cursor..(m - 1)
  BY <1>2 DEF Run
<1>4. m - 1 \in tail[t].cursor..(m - 1)
  BY <1>1, <1>2, <1>3
<1>5. PICK q \in R : q.seq = m - 1
  BY <1>2, <1>4 DEF Run
<1> DEFINE c == CHOOSE r \in R : \A p \in R : p.seq <= r.seq
<1>6. c \in R /\ \A p \in R : p.seq <= c.seq
  BY <1>1, <1>2, <1>3, <1>5
<1> HIDE DEF c
<1>7. c.seq = m - 1
  BY <1>1, <1>2, <1>3, <1>5, <1>6
<1>8. LastSeq(R) = m - 1
  BY <1>7 DEF LastSeq, c
<1>9. m - 1 \in 0..MaxSeq
  BY <1>1, <1>6, <1>7 DEF Row
<1> QED BY <1>2, <1>8, <1>9

LEMMA FollowType ==
  ASSUME TypeOK, Busy, Pages, NEW t \in Tails,
         Follow(t) \/ Close(t) \/ \E a \in Aggs : \E n \in 0..next[a] : Open(t, a, n)
  PROVE  TypeOK' /\ Busy'
<1> DEFINE Slot == [pc : {"off", "read", "emit", "wait"}, agg : Aggs \cup {None},
                    from : 0..(MaxSeq + 1), cursor : 0..(MaxSeq + 1),
                    dirty : BOOLEAN, page : SUBSET Row]
<1>1. /\ UNCHANGED <<next, owner, rows, view, fib, sub, told>>
      /\ tail' = [tail EXCEPT ![t] = tail'[t]] /\ out' = [out EXCEPT ![t] = out'[t]]
  BY DEF TypeOK, Follow, Read, Emit, TakeWake, Close, Open, TailOnly, logVars, subVars
<1>2. opens' \in [Tails \cup Subs -> 0..MaxOpens]
  <2>1. opens' = opens \/ (opens[t] < MaxOpens /\ opens' = [opens EXCEPT ![t] = @ + 1])
    BY DEF Follow, Read, Emit, TakeWake, Close, Open
  <2> QED BY <2>1 DEF TypeOK
<1> DEFINE x == tail[t]
<1>9. /\ x.pc \in {"off", "read", "emit", "wait"} /\ x.agg \in Aggs \cup {None}
      /\ x.from \in 0..(MaxSeq + 1) /\ x.cursor \in 0..(MaxSeq + 1)
      /\ x.dirty \in BOOLEAN /\ x.page \in SUBSET Row
      /\ x = [pc |-> x.pc, agg |-> x.agg, from |-> x.from, cursor |-> x.cursor,
              dirty |-> x.dirty, page |-> x.page]
  BY DEF TypeOK
<1>10. x.pc # "off" => x.agg \in Aggs
  BY DEF Busy
<1>11. tail \in [Tails -> Slot]
  BY DEF TypeOK
<1>3. tail'[t] \in Slot /\ (tail'[t].pc # "off" => tail'[t].agg \in Aggs)
  <2>1. CASE Read(t)
    <3>1. tail'[t] = [x EXCEPT !.pc = "emit", !.page = After(x.agg, x.cursor)] /\ x.pc = "read"
      BY <2>1, <1>11 DEF Read
    <3>2. After(x.agg, x.cursor) \in SUBSET Row
      BY DEF After, TypeOK
    <3> HIDE DEF x
    <3> QED BY <3>1, <3>2, <1>9, <1>10
  <2>2. CASE Emit(t)
    <3>1. /\ tail'[t] = [x EXCEPT !.pc = "wait", !.page = {},
                                 !.cursor = IF x.page = {} THEN @ ELSE LastSeq(x.page) + 1]
          /\ x.pc = "emit"
      BY <2>2, <1>11 DEF Emit
    <3>2. (IF x.page = {} THEN x.cursor ELSE LastSeq(x.page) + 1) \in 0..(MaxSeq + 1)
      BY <1>9, PageEnd
    <3> HIDE DEF x
    <3> QED BY <3>1, <3>2, <1>9, <1>10
  <2>3. CASE TakeWake(t)
    <3>1. tail'[t] = [x EXCEPT !.pc = "read", !.dirty = FALSE] /\ x.pc = "wait"
      BY <2>3, <1>11 DEF TakeWake
    <3> HIDE DEF x
    <3> QED BY <3>1, <1>9, <1>10
  <2>4. CASE Close(t)
    BY <2>4 DEF TypeOK, Close, Closed
  <2>5. ASSUME NEW a \in Aggs, NEW n \in 0..next[a], Open(t, a, n)
        PROVE  tail'[t] \in Slot /\ (tail'[t].pc # "off" => tail'[t].agg \in Aggs)
    <3>1. tail'[t] = [Closed EXCEPT !.pc = "read", !.agg = a, !.from = n, !.cursor = n]
      BY <2>5, <1>11 DEF Open
    <3>2. n \in 0..(MaxSeq + 1)
      BY <2>5 DEF TypeOK
    <3> QED BY <3>1, <3>2 DEF Closed
  <2> QED BY <2>1, <2>2, <2>3, <2>4, <2>5 DEF Follow
<1>4. out'[t] \in Seq(Row)
  <2>1. CASE Emit(t)
    <3>1. PICK m \in 0..(MaxSeq + 1) : Run(tail[t].page, tail[t].cursor, m)
      BY DEF Pages
    <3>2. Sorted(tail[t].page) \in Seq(tail[t].page) /\ tail[t].page \subseteq Row
      BY <3>1, SortedRun DEF TypeOK
    <3>3. Sorted(tail[t].page) \in Seq(Row)
      BY <3>2
    <3>4. out'[t] = out[t] \o Sorted(tail[t].page)
      BY <2>1 DEF TypeOK, Emit
    <3> QED BY <3>3, <3>4 DEF TypeOK
  <2>2. CASE ~Emit(t)
    <3>1. out' = out \/ out' = [out EXCEPT ![t] = <<>>]
      BY <2>2 DEF Follow, Read, TakeWake, Close, Open
    <3>2. out \in [Tails -> Seq(Row)] /\ <<>> \in Seq(Row)
      BY DEF TypeOK
    <3> QED BY <3>1, <3>2
  <2> QED BY <2>1, <2>2
<1> HIDE DEF Slot
<1>5. tail' \in [Tails -> Slot] /\ out' \in [Tails -> Seq(Row)]
  BY <1>1, <1>3, <1>4 DEF TypeOK, Slot
<1>6. Busy'
  BY <1>1, <1>3 DEF TypeOK, Busy, Row
<1> QED BY <1>1, <1>2, <1>5, <1>6 DEF TypeOK, Slot, Row

LEMMA SubType ==
  ASSUME TypeOK, Busy, NEW s \in Subs, Subscribe(s) \/ Take(s) \/ Leave(s), Queued
  PROVE  TypeOK' /\ Busy'
<1>1. UNCHANGED <<next, owner, rows, view, fib, tail, out>>
  BY DEF Subscribe, Take, Leave, SubOnly, logVars, tailVars
<1>2. opens' \in [Tails \cup Subs -> 0..MaxOpens]
  <2>1. opens' = opens \/ (opens[s] < MaxOpens /\ opens' = [opens EXCEPT ![s] = @ + 1])
    BY DEF Subscribe, Take, Leave
  <2>2. opens \in [Tails \cup Subs -> 0..MaxOpens] /\ s \in Tails \cup Subs
    BY DEF TypeOK
  <2> QED BY <2>1, <2>2
<1> DEFINE x == sub[s]
<1>3. /\ x.on \in BOOLEAN /\ x.queue \in Seq(Row) /\ x.failed \in BOOLEAN
      /\ x = [on |-> x.on, queue |-> x.queue, failed |-> x.failed] /\ told[s] \in Seq(Row)
  BY DEF TypeOK
<1>4. /\ sub' = [sub EXCEPT ![s] = sub'[s]] /\ told' = [told EXCEPT ![s] = told'[s]]
      /\ sub'[s] \in [on : BOOLEAN, queue : Seq(Row), failed : BOOLEAN]
      /\ told'[s] \in Seq(Row)
  <2>1. CASE Subscribe(s)
    <3>1. sub' = [sub EXCEPT ![s] = [x EXCEPT !.on = TRUE]] /\ told' = told
      BY <2>1 DEF Subscribe
    <3> QED BY <1>3, <3>1 DEF TypeOK
  <2>2. CASE Take(s)
    <3>1. /\ sub' = [sub EXCEPT ![s] = [x EXCEPT !.queue = Tail(x.queue)]]
          /\ told' = [told EXCEPT ![s] = Tail(told[s])] /\ x.queue # <<>>
      BY <2>2 DEF Take
    <3>2. Tail(x.queue) \in Seq(Row) /\ Tail(told[s]) \in Seq(Row)
      <4>1. told[s] # <<>>
        BY <1>3, <3>1 DEF Queued
      <4> QED BY <1>3, <3>1, <4>1
    <3> QED BY <1>3, <3>1, <3>2 DEF TypeOK
  <2>3. CASE Leave(s)
    BY <2>3 DEF TypeOK, Leave, Unsubscribed
  <2> QED BY <2>1, <2>2, <2>3
<1>5. /\ sub' \in [Subs -> [on : BOOLEAN, queue : Seq(Row), failed : BOOLEAN]]
      /\ told' \in [Subs -> Seq(Row)]
  BY <1>4 DEF TypeOK
<1> QED BY <1>1, <1>2, <1>5 DEF TypeOK, Busy, Row

LEMMA CrashType ==
  ASSUME TypeOK, Busy, NEW p \in Procs, Crash(p)
  PROVE  TypeOK' /\ Busy'
<1>1. UNCHANGED <<next, owner, rows, view, opens>>
  BY DEF Crash, logVars
<1>2. fib' \in [Fibers -> [pc : {"idle", "wake", "notify"}, ev : Row \cup {None}, tell : BOOLEAN]]
  BY DEF TypeOK, Crash, Nothing
<1>3. /\ tail' \in [Tails -> [pc : {"off", "read", "emit", "wait"}, agg : Aggs \cup {None},
                            from : 0..(MaxSeq + 1), cursor : 0..(MaxSeq + 1),
                            dirty : BOOLEAN, page : SUBSET Row]]
      /\ out' \in [Tails -> Seq(Row)]
  BY DEF TypeOK, Crash, Closed
<1>4. /\ sub' \in [Subs -> [on : BOOLEAN, queue : Seq(Row), failed : BOOLEAN]]
      /\ told' \in [Subs -> Seq(Row)]
  BY DEF TypeOK, Crash, Unsubscribed
<1>5. Busy'
  BY DEF TypeOK, Busy, Crash, Nothing, Closed, Row
<1> QED BY <1>1, <1>2, <1>3, <1>4, <1>5 DEF TypeOK, Row

-----------------------------------------------------------------------------
(* The log and its projection.                                               *)

(* A publish or a replay inserts the next event of its aggregate. *)
LEMMA WriteForm ==
  ASSUME NEW f \in Fibers, Write(f)
  PROVE  \E a \in Aggs, id \in Ids, body \in Bodies, tell \in BOOLEAN :
           /\ Insert(f, a, id, body, tell) /\ Fresh(id)
           /\ owner' = owner \/ \E o \in Owners \cup {None} : Adopt(a, o)
  BY DEF Write, Publish, PublishAsOwner, Replay

LEMMA FilledWrite ==
  ASSUME TypeOK, TypeOK', LogInv, NEW f \in Fibers, Write(f)
  PROVE  LogInv'
<1>1. PICK a \in Aggs, id \in Ids, body \in Bodies, tell \in BOOLEAN :
        /\ Insert(f, a, id, body, tell) /\ Fresh(id)
        /\ owner' = owner \/ \E o \in Owners \cup {None} : Adopt(a, o)
  BY WriteForm
<1> DEFINE r == [agg |-> a, seq |-> next[a], id |-> id, body |-> body]
<1>2. /\ next[a] <= MaxSeq /\ view' = [view EXCEPT ![a] = Append(@, r)]
      /\ next' = [next EXCEPT ![a] = @ + 1] /\ rows' = rows \cup {r}
  BY <1>1 DEF Insert
<1>3. r \in Row /\ r.agg = a /\ r.seq = next[a] /\ r.id = id
  BY <1>2 DEF TypeOK, Row
<1>4. \A q \in rows : q.id # id
  BY <1>1 DEF Fresh
<1> HIDE DEF r
<1>5. \A q \in rows : q.agg \in Aggs /\ q.seq \in Nat
  BY DEF TypeOK, Row
<1>6. \A b \in Aggs : next[b] \in Nat /\ next'[b] = IF b = a THEN next[a] + 1 ELSE next[b]
  BY <1>2 DEF TypeOK
<1>7. \A p, q \in rows' : p.id = q.id \/ (p.agg = q.agg /\ p.seq = q.seq) => p = q
  <2>1. \A q \in rows : ~(q.agg = a /\ q.seq = next[a])
    BY <1>5, <1>6 DEF LogInv, Filled
  <2> QED BY <1>2, <1>3, <1>4, <2>1 DEF LogInv, Filled
<1>8. \A q \in rows' : q.seq < next'[q.agg]
  BY <1>2, <1>3, <1>5, <1>6 DEF LogInv, Filled
<1>9. ASSUME NEW b \in Aggs, NEW n \in 0..MaxSeq, n < next'[b]
      PROVE  \E q \in rows' : q.agg = b /\ q.seq = n
  <2>1. CASE b = a /\ n = next[a]
    BY <1>2, <1>3, <2>1
  <2>2. CASE ~(b = a /\ n = next[a])
    <3>1. n < next[b]
      BY <1>6, <1>9, <2>2
    <3> QED BY <1>2, <3>1 DEF LogInv, Filled
  <2> QED BY <2>1, <2>2
<1>10. ASSUME NEW b \in Aggs, owner'[b] # None PROVE next'[b] > 0
  <2>1. b = a \/ owner'[b] = owner[b]
    BY <1>1 DEF Adopt, TypeOK
  <2> QED BY <1>6, <1>10, <2>1 DEF LogInv, Filled
<1>11. Filled'
  BY <1>7, <1>8, <1>9, <1>10 DEF Filled
<1>12. ASSUME NEW b \in Aggs, NEW i \in 1..next'[b]
       PROVE  view'[b][i] \in Log(b)' /\ view'[b][i].seq = i - 1
  <2>1. CASE b = a /\ i = next[a] + 1
    <3>1. Len(view[a]) = next[a] /\ view[a] \in Seq(Row)
      BY DEF LogInv, Projected, TypeOK
    <3>2. view'[a][i] = r
      BY <1>2, <1>3, <2>1, <3>1 DEF TypeOK
    <3>3. r \in rows' /\ r.seq = i - 1 /\ r.seq >= 0
      BY <1>2, <1>3, <1>6, <2>1
    <3>4. r \in Log(a)'
      BY <1>3, <3>3 DEF Log, After
    <3> QED BY <2>1, <3>2, <3>3, <3>4
  <2>2. CASE ~(b = a /\ i = next[a] + 1)
    <3>1. i \in 1..next[b]
      BY <1>6, <1>12, <2>2
    <3>2. Len(view[b]) = next[b] /\ view[b] \in Seq(Row)
      BY DEF LogInv, Projected, TypeOK
    <3>3. view'[b][i] = view[b][i]
      BY <1>2, <1>3, <3>1, <3>2 DEF TypeOK
    <3>4. view[b][i] \in Log(b) /\ view[b][i].seq = i - 1
      BY <3>1 DEF LogInv, Projected
    <3>5. view[b][i] \in Log(b)'
      BY <1>2, <3>4 DEF Log, After
    <3> QED BY <3>3, <3>4, <3>5
  <2> QED BY <2>1, <2>2
<1>13. ASSUME NEW b \in Aggs PROVE Len(view'[b]) = next'[b]
  <2>1. Len(view[b]) = next[b] /\ view[b] \in Seq(Row)
    BY DEF LogInv, Projected, TypeOK
  <2> QED BY <1>2, <1>3, <1>6, <2>1 DEF TypeOK
<1> QED BY <1>11, <1>12, <1>13 DEF LogInv, Projected

LEMMA FilledOwn ==
  ASSUME TypeOK, LogInv, NEW a \in Aggs, Own(a)
  PROVE  LogInv'
<1>1. UNCHANGED <<next, rows, view>>
  BY DEF Own, Claim, Release, ClaimConditional, ReplayAgain, OwnerOnly
<1>2. ASSUME NEW b \in Aggs, owner'[b] # None, owner[b] = None PROVE next[b] > 0
  <2>1. ASSUME NEW o \in Owners, NEW e \in Owners \cup {None},
               Claim(a, o) \/ Release(a, o) \/ ClaimConditional(a, o, e)
        PROVE  next[b] > 0
    BY <1>2, <2>1 DEF Claim, Release, ClaimConditional, TypeOK
  <2>2. ASSUME NEW id \in Ids, NEW body \in Bodies, NEW o \in Owners \cup {None},
               NEW seq \in 0..MaxSeq, NEW strict \in BOOLEAN,
               ReplayAgain(a, seq, id, body, o, strict)
        PROVE  next[b] > 0
    <3>1. b = a /\ seq < next[a]
      BY <1>2, <2>2 DEF ReplayAgain, Adopt, TypeOK
    <3> QED BY <3>1 DEF TypeOK
  <2> QED BY <2>1, <2>2 DEF Own
<1>3. Filled'
  BY <1>1, <1>2 DEF LogInv, Filled
<1> QED BY <1>1, <1>3 DEF LogInv, Projected, Log, After

LEMMA FilledRemove ==
  ASSUME TypeOK, LogInv, NEW a \in Aggs, Remove(a)
  PROVE  LogInv'
<1>1. /\ \A b \in Aggs : /\ next'[b] = IF b = a THEN 0 ELSE next[b]
                         /\ owner'[b] = IF b = a THEN None ELSE owner[b]
                         /\ view'[b] = IF b = a THEN <<>> ELSE view[b]
      /\ rows' = {r \in rows : r.agg # a}
  BY DEF Remove, TypeOK
<1>2. \A r \in rows : r.agg \in Aggs
  BY DEF TypeOK, Row
<1>3. Filled'
  <2>1. \A p, q \in rows' : p.id = q.id \/ (p.agg = q.agg /\ p.seq = q.seq) => p = q
    BY <1>1 DEF LogInv, Filled
  <2>2. \A q \in rows' : q.seq < next'[q.agg]
    BY <1>1, <1>2 DEF LogInv, Filled
  <2>3. ASSUME NEW b \in Aggs, NEW n \in 0..MaxSeq, n < next'[b]
        PROVE  \E q \in rows' : q.agg = b /\ q.seq = n
    BY <1>1, <2>3 DEF LogInv, Filled
  <2>4. \A b \in Aggs : owner'[b] # None => next'[b] > 0
    BY <1>1 DEF LogInv, Filled
  <2> QED BY <2>1, <2>2, <2>3, <2>4 DEF Filled
<1>4. ASSUME NEW b \in Aggs
      PROVE  /\ Len(view'[b]) = next'[b]
             /\ \A i \in 1..next'[b] : view'[b][i] \in Log(b)' /\ view'[b][i].seq = i - 1
  <2>1. CASE b = a
    BY <1>1, <2>1
  <2>2. CASE b # a
    BY <1>1, <2>2 DEF LogInv, Projected, Log, After
  <2> QED BY <2>1, <2>2
<1> QED BY <1>3, <1>4 DEF LogInv, Projected

(* The rows of an aggregate from some position on. *)
LEMMA LogRun ==
  ASSUME TypeOK, Filled, NEW a \in Aggs, NEW n \in Nat
  PROVE  \E m \in Nat : Run(After(a, n), n, m) /\ (n <= next[a] => m = next[a]) /\ m \in {n, next[a]}
<1> DEFINE m == IF n <= next[a] THEN next[a] ELSE n
<1>1. m \in Nat /\ n <= m /\ next[a] \in 0..(MaxSeq + 1)
  BY DEF TypeOK
<1>2. \A r \in After(a, n) : r \in rows /\ r.agg = a /\ r.seq \in Nat /\ r.seq >= n /\ r.seq < next[a]
  BY DEF TypeOK, Row, Filled, After
<1>3. \A r, q \in After(a, n) : r.seq = q.seq => r = q
  BY <1>2 DEF Filled
<1>4. ASSUME NEW k \in n..(m - 1) PROVE \E r \in After(a, n) : r.seq = k
  <2>1. k \in 0..MaxSeq /\ k < next[a] /\ k >= n
    BY <1>1, <1>4
  <2> QED BY <2>1 DEF Filled, After
<1>5. {r.seq : r \in After(a, n)} = n..(m - 1)
  BY <1>1, <1>2, <1>4
<1> QED BY <1>1, <1>3, <1>5 DEF Run

-----------------------------------------------------------------------------
(* Tails.                                                                    *)

LEMMA EmptyRun == ASSUME NEW n \in Nat PROVE Run({}, n, n)
  BY DEF Run

(* Rows that are numbered b, b + 1, ..., c - 1. *)
Counts(s, b, c) ==
  /\ b <= c /\ Len(s) = c - b
  /\ \A i \in 1..Len(s) : s[i].seq = b + i - 1

LEMMA Concat ==
  ASSUME NEW o \in Seq(Row), NEW q \in Seq(Row), NEW b \in Nat, NEW c \in Nat, NEW m \in Nat,
         Counts(o, b, c), Counts(q, c, m)
  PROVE  Counts(o \o q, b, m)
<1> USE DEF Counts
<1>1. Len(o \o q) = m - b
  <2>1. Len(o \o q) = Len(o) + Len(q)
    BY ConcatProperties, Zenon
  <2> QED BY <2>1
<1>2. ASSUME NEW i \in 1..(m - b), i <= Len(o) PROVE (o \o q)[i].seq = b + i - 1
  <2>1. i \in 1..Len(o) /\ (o \o q)[i] = o[i]
    BY <1>2
  <2> QED BY <2>1
<1>3. ASSUME NEW i \in 1..(m - b), i > Len(o) PROVE (o \o q)[i].seq = b + i - 1
  <2>1. i - Len(o) \in 1..Len(q) /\ (o \o q)[i] = q[i - Len(o)]
    BY <1>3
  <2>2. q[i - Len(o)].seq = c + (i - Len(o)) - 1
    BY <2>1
  <2>3. c + (i - Len(o)) - 1 = b + i - 1
    BY <1>3
  <2> QED BY <2>1, <2>2, <2>3
<1>4. ASSUME NEW i \in 1..(m - b) PROVE (o \o q)[i].seq = b + i - 1
  BY <1>2, <1>3
<1> QED BY <1>1, <1>4

(* What Pages and TailConsecutive say of one tail. *)
Fine(x, o) ==
  /\ x.pc = "off" => x.cursor = x.from
  /\ \E m \in 0..(MaxSeq + 1) : Run(x.page, x.cursor, m)
  /\ Counts(o, x.from, x.cursor)

LEMMA AllFine == Pages /\ TailConsecutive <=> \A u \in Tails : Fine(tail[u], out[u])
  BY DEF Pages, TailConsecutive, Fine, Counts

LEMMA ReadFine ==
  ASSUME TypeOK, Busy, Filled, NEW t \in Tails, Fine(tail[t], out[t]), Read(t)
  PROVE  Fine(tail'[t], out'[t])
<1>1. /\ tail'[t].from = tail[t].from /\ tail'[t].cursor = tail[t].cursor
      /\ tail'[t].page = After(tail[t].agg, tail[t].cursor) /\ out'[t] = out[t]
      /\ tail'[t].pc = "emit"
  BY DEF TypeOK, Read
<1> DEFINE a == tail[t].agg  n == tail[t].cursor
<1>2. a \in Aggs /\ n \in 0..(MaxSeq + 1)
  BY DEF TypeOK, Busy, Read
<1> HIDE DEF a, n
<1>3. \E m \in 0..(MaxSeq + 1) : Run(After(a, n), n, m)
  <2>1. n \in Nat
    BY <1>2
  <2>2. PICK m \in Nat : Run(After(a, n), n, m) /\ m \in {n, next[a]}
    BY <1>2, <2>1, LogRun
  <2>3. next[a] \in 0..(MaxSeq + 1)
    BY <1>2 DEF TypeOK
  <2> QED BY <1>2, <2>2, <2>3
<1>4. \E m \in 0..(MaxSeq + 1) : Run(tail'[t].page, tail'[t].cursor, m)
  BY <1>1, <1>3 DEF a, n
<1> QED BY <1>1, <1>4 DEF Fine

LEMMA EmitFine ==
  ASSUME TypeOK, Pages, NEW t \in Tails, Fine(tail[t], out[t]), Emit(t)
  PROVE  Fine(tail'[t], out'[t])
<1> DEFINE R == tail[t].page  b == tail[t].from  c == tail[t].cursor  o == out[t]
<1>1. /\ tail'[t].from = b /\ tail'[t].page = {} /\ tail'[t].pc = "wait"
      /\ tail'[t].cursor = IF R = {} THEN c ELSE LastSeq(R) + 1
      /\ out'[t] = o \o Sorted(R)
  BY DEF TypeOK, Emit
<1>2. b \in Nat /\ c \in 0..(MaxSeq + 1) /\ o \in Seq(Row) /\ R \subseteq Row
  BY DEF TypeOK
<1>3. Counts(o, b, c)
  BY DEF Fine
<1>4. R # {} => Run(R, c, LastSeq(R) + 1) /\ LastSeq(R) \in 0..MaxSeq
  BY PageEnd
<1> HIDE DEF R, b, c, o
<1>5. PICK m \in 0..(MaxSeq + 1) : Run(R, c, m) /\ tail'[t].cursor = m
  <2>1. CASE R = {}
    BY <1>1, <1>2, <2>1, EmptyRun
  <2>2. CASE R # {}
    BY <1>1, <1>4, <2>2
  <2> QED BY <2>1, <2>2
<1>6. c <= m
  BY <1>5 DEF Run
<1> DEFINE q == Sorted(R)
<1>7. q \in Seq(Row) /\ Counts(q, c, m)
  <2>1. m \in Nat /\ c \in Nat /\ Run(R, c, m)
    BY <1>2, <1>5
  <2>2. /\ Len(Sorted(R)) = m - c /\ Sorted(R) \in Seq(R)
        /\ \A i \in 1..(m - c) : Sorted(R)[i] \in R /\ Sorted(R)[i].seq = c + i - 1
    BY <2>1, SortedRun
  <2> QED BY <1>2, <1>6, <2>2 DEF Counts
<1> HIDE DEF q
<1>9. Counts(o \o q, b, m)
  BY <1>2, <1>3, <1>5, <1>7, Concat
<1>10. Run({}, m, m)
  BY <1>5, EmptyRun
<1>11. out'[t] = o \o q
  BY <1>1 DEF q
<1> QED BY <1>1, <1>5, <1>9, <1>10, <1>11 DEF Fine

LEMMA OpenFine ==
  ASSUME TypeOK, NEW t \in Tails, Fine(tail[t], out[t]), NEW a \in Aggs, NEW n \in 0..next[a],
         Open(t, a, n)
  PROVE  Fine(tail'[t], out'[t])
<1>1. tail'[t] = [Closed EXCEPT !.pc = "read", !.agg = a, !.from = n, !.cursor = n]
  BY DEF TypeOK, Open
<1>2. /\ tail'[t].from = n /\ tail'[t].cursor = n /\ tail'[t].page = {} /\ tail'[t].pc = "read"
  BY <1>1 DEF Closed
<1>3. out' = out /\ tail[t].pc = "off" /\ n \in Nat
  <2>1. next[a] \in 0..(MaxSeq + 1)
    BY DEF TypeOK
  <2>2. out' = out /\ tail[t].pc = "off"
    BY DEF Open
  <2> QED BY <2>1, <2>2
<1>4. Len(out'[t]) = 0
  <2>1. tail[t].cursor = tail[t].from /\ tail[t].from \in Nat /\ Len(out[t]) = tail[t].cursor - tail[t].from
    BY <1>3 DEF TypeOK, Fine, Counts
  <2> QED BY <1>3, <2>1
<1>5. n \in 0..(MaxSeq + 1) /\ Run({}, n, n)
  <2>1. next[a] \in 0..(MaxSeq + 1)
    BY DEF TypeOK
  <2> QED BY <1>3, <2>1, EmptyRun
<1> QED BY <1>2, <1>3, <1>4, <1>5 DEF Fine, Counts

LEMMA TailStep ==
  ASSUME TypeOK, Busy, Filled, Pages, TailConsecutive, NEW t \in Tails,
         Follow(t) \/ Close(t) \/ \E a \in Aggs : \E n \in 0..next[a] : Open(t, a, n)
  PROVE  Pages' /\ TailConsecutive'
<1>1. \A u \in Tails : Fine(tail[u], out[u])
  BY AllFine
<1>2. \A u \in Tails \ {t} : tail'[u] = tail[u] /\ out'[u] = out[u]
  BY DEF TypeOK, Follow, Read, Emit, TakeWake, Close, Open
<1>3. Fine(tail'[t], out'[t])
  <2>1. CASE Read(t)
    BY <1>1, <2>1, ReadFine
  <2>2. CASE Emit(t)
    BY <1>1, <2>2, EmitFine
  <2>3. CASE TakeWake(t)
    <3>1. /\ tail'[t].from = tail[t].from /\ tail'[t].cursor = tail[t].cursor
          /\ tail'[t].page = tail[t].page /\ tail'[t].pc = "read" /\ out'[t] = out[t]
      BY <2>3 DEF TypeOK, TakeWake
    <3>2. Fine(tail[t], out[t])
      BY <1>1
    <3> QED BY <3>1, <3>2 DEF Fine
  <2>4. CASE Close(t)
    <3>1. tail'[t] = Closed /\ out'[t] = <<>>
      BY <2>4 DEF TypeOK, Close
    <3> QED BY <3>1, EmptyRun DEF Closed, Fine, Counts
  <2>5. ASSUME NEW a \in Aggs, NEW n \in 0..next[a], Open(t, a, n)
        PROVE  Fine(tail'[t], out'[t])
    BY <1>1, <2>5, OpenFine
  <2> QED BY <2>1, <2>2, <2>3, <2>4, <2>5 DEF Follow
<1>4. \A u \in Tails : Fine(tail'[u], out'[u])
  BY <1>1, <1>2, <1>3
<1> QED BY <1>4 DEF Fine, Counts, Pages, TailConsecutive

(* Waking changes no place of a tail, and a crash leaves closed tails. *)
LEMMA OtherTails ==
  ASSUME TypeOK, Pages, TailConsecutive,
         \/ \E f \in Fibers : Announce(f)
         \/ \E p \in Procs : Crash(p)
         \/ UNCHANGED tailVars
  PROVE  Pages' /\ TailConsecutive'
<1>1. \A u \in Tails : Fine(tail[u], out[u])
  BY AllFine
<1>2. ASSUME NEW u \in Tails PROVE Fine(tail'[u], out'[u])
  <2>1. CASE \E p \in Procs : Crash(p)
    <3>1. (tail'[u] = Closed /\ out'[u] = <<>>) \/ (tail'[u] = tail[u] /\ out'[u] = out[u])
      BY <2>1 DEF Crash
    <3>2. CASE tail'[u] = Closed /\ out'[u] = <<>>
      BY <3>2, EmptyRun DEF Closed, Fine, Counts
    <3> QED BY <1>1, <3>1, <3>2
  <2>2. CASE \E f \in Fibers : Wake(f)
    <3>1. /\ tail'[u].from = tail[u].from /\ tail'[u].cursor = tail[u].cursor
          /\ tail'[u].page = tail[u].page /\ tail'[u].pc = tail[u].pc /\ out'[u] = out[u]
      BY <2>2 DEF TypeOK, Wake
    <3>2. Fine(tail[u], out[u])
      BY <1>1
    <3> QED BY <3>1, <3>2 DEF Fine
  <2>3. CASE UNCHANGED tailVars
    BY <1>1, <2>3 DEF tailVars
  <2>4. (\E f \in Fibers : Notify(f)) => UNCHANGED tailVars
    BY DEF Notify
  <2> QED BY <2>1, <2>2, <2>3, <2>4 DEF Announce
<1> QED BY <1>2 DEF Fine, Counts, Pages, TailConsecutive

-----------------------------------------------------------------------------
(* Bounded subscribers.                                                      *)

(* What Queued says of one subscriber: its queue begins what it was told. *)
Begins(x, w) ==
  /\ Len(x.queue) <= Len(w) /\ \A i \in 1..Len(x.queue) : x.queue[i] = w[i]
  /\ ~x.failed => Len(x.queue) = Len(w)

LEMMA AllBegin == Queued <=> \A s \in Subs : Begins(sub[s], told[s])
  BY DEF Queued, Begins

LEMMA NotifyBegins ==
  ASSUME TypeOK, Busy, NEW f \in Fibers, Notify(f), NEW s \in Subs, Begins(sub[s], told[s])
  PROVE  Begins(sub'[s], told'[s])
<1> DEFINE x == sub[s]  w == told[s]  r == fib[f].ev
<1>1. /\ x.on \in BOOLEAN /\ x.queue \in Seq(Row) /\ x.failed \in BOOLEAN
      /\ x = [on |-> x.on, queue |-> x.queue, failed |-> x.failed]
      /\ w \in Seq(Row) /\ r \in Row
  BY DEF TypeOK, Busy, Notify
<1>2. CASE ~Hears(s, f)
  BY <1>2 DEF Notify
<1>3. CASE Hears(s, f) /\ x.failed
  <2>1. sub'[s] = [x EXCEPT !.failed = TRUE] /\ told'[s] = w
    BY <1>3 DEF Notify, Offer
  <2> HIDE DEF x, w, r
  <2>2. sub'[s] = x
    BY <1>1, <1>3, <2>1
  <2> QED BY <2>1, <2>2 DEF x, w
<1>4. CASE Hears(s, f) /\ ~x.failed
  <2>1. /\ told'[s] = Append(w, r)
        /\ sub'[s] = IF Len(x.queue) < Capacity THEN [x EXCEPT !.queue = Append(x.queue, r)]
                                                ELSE [x EXCEPT !.failed = TRUE]
    BY <1>4 DEF Notify, Offer
  <2>2. Begins(x, w)
    OBVIOUS
  <2> HIDE DEF x, w, r
  <2> DEFINE q == x.queue
  <2>3. /\ q \in Seq(Row) /\ Len(q) = Len(w) /\ \A i \in 1..Len(q) : q[i] = w[i]
    BY <1>1, <1>4, <2>2 DEF Begins
  <2>4. CASE Len(q) < Capacity
    <3>1. sub'[s].queue = Append(q, r)
      BY <1>1, <2>1, <2>4
    <3> HIDE DEF q
    <3>2. Len(Append(q, r)) = Len(q) + 1 /\ Len(Append(w, r)) = Len(w) + 1
      BY <1>1, <2>3
    <3>3. \A i \in 1..(Len(q) + 1) : Append(q, r)[i] = Append(w, r)[i]
      BY <1>1, <2>3
    <3> QED BY <2>1, <2>3, <3>1, <3>2, <3>3 DEF Begins
  <2>5. CASE ~(Len(q) < Capacity)
    <3>1. sub'[s].queue = q /\ sub'[s].failed = TRUE
      BY <1>1, <2>1, <2>5
    <3> HIDE DEF q
    <3>2. Len(Append(w, r)) = Len(w) + 1 /\ \A i \in 1..Len(w) : Append(w, r)[i] = w[i]
      BY <1>1
    <3> QED BY <1>1, <2>1, <2>3, <3>1, <3>2 DEF Begins
  <2> QED BY <2>4, <2>5
<1> QED BY <1>2, <1>3, <1>4

LEMMA SubBegins ==
  ASSUME TypeOK, NEW s \in Subs, Begins(sub[s], told[s]), Subscribe(s) \/ Take(s) \/ Leave(s)
  PROVE  Begins(sub'[s], told'[s])
<1> DEFINE x == sub[s]  w == told[s]
<1>1. /\ x.on \in BOOLEAN /\ x.queue \in Seq(Row) /\ x.failed \in BOOLEAN
      /\ x = [on |-> x.on, queue |-> x.queue, failed |-> x.failed]
      /\ w \in Seq(Row)
  BY DEF TypeOK
<1>2. CASE Subscribe(s)
  <2>1. /\ sub'[s].queue = x.queue /\ sub'[s].failed = x.failed /\ told'[s] = w
    BY <1>2 DEF TypeOK, Subscribe
  <2> QED BY <2>1 DEF Begins
<1>3. CASE Leave(s)
  <2>1. sub'[s] = Unsubscribed /\ told'[s] = <<>>
    BY <1>3 DEF TypeOK, Leave
  <2> QED BY <2>1 DEF Begins, Unsubscribed
<1>4. CASE Take(s)
  <2> DEFINE q == x.queue
  <2>1. /\ sub'[s].queue = Tail(q) /\ sub'[s].failed = x.failed /\ told'[s] = Tail(w)
        /\ q # <<>> /\ q \in Seq(Row)
    BY <1>4 DEF TypeOK, Take
  <2>2. Len(q) <= Len(w) /\ \A i \in 1..Len(q) : q[i] = w[i]
    BY DEF Begins
  <2>3. ~x.failed => Len(q) = Len(w)
    BY DEF Begins
  <2> HIDE DEF x, w, q
  <2>4. Len(q) > 0 /\ Len(q) \in Nat /\ Len(w) \in Nat
    BY <1>1, <2>1
  <2>5. /\ Len(Tail(q)) = Len(q) - 1 /\ Len(Tail(w)) = Len(w) - 1
        /\ \A i \in 1..(Len(q) - 1) : Tail(q)[i] = q[i + 1]
        /\ \A i \in 1..(Len(w) - 1) : Tail(w)[i] = w[i + 1]
    BY <1>1, <2>1, <2>2, <2>4
  <2>6. \A i \in 1..(Len(q) - 1) : Tail(q)[i] = Tail(w)[i]
    BY <2>2, <2>4, <2>5
  <2> QED BY <2>1, <2>2, <2>3, <2>4, <2>5, <2>6 DEF Begins
<1> QED BY <1>2, <1>3, <1>4

LEMMA QueuedStep ==
  ASSUME TypeOK, Busy, Queued,
         \/ \E f \in Fibers : Announce(f)
         \/ \E s \in Subs : Subscribe(s) \/ Take(s) \/ Leave(s)
         \/ \E p \in Procs : Crash(p)
         \/ UNCHANGED subVars
  PROVE  Queued'
<1>1. \A s \in Subs : Begins(sub[s], told[s])
  BY AllBegin
<1>2. ASSUME NEW s \in Subs PROVE Begins(sub'[s], told'[s])
  <2>1. CASE \E f \in Fibers : Notify(f)
    BY <1>1, <2>1, NotifyBegins
  <2>2. CASE Subscribe(s) \/ Take(s) \/ Leave(s)
    BY <1>1, <2>2, SubBegins
  <2>3. CASE \E z \in Subs \ {s} : Subscribe(z) \/ Take(z) \/ Leave(z)
    <3>1. sub'[s] = sub[s] /\ told'[s] = told[s]
      BY <2>3 DEF TypeOK, Subscribe, Take, Leave
    <3> QED BY <1>1, <3>1
  <2>4. CASE \E p \in Procs : Crash(p)
    <3>1. (sub'[s] = Unsubscribed /\ told'[s] = <<>>) \/ (sub'[s] = sub[s] /\ told'[s] = told[s])
      BY <2>4 DEF Crash
    <3>2. CASE sub'[s] = Unsubscribed /\ told'[s] = <<>>
      BY <3>2 DEF Begins, Unsubscribed
    <3> QED BY <1>1, <3>1, <3>2
  <2>5. CASE UNCHANGED subVars
    BY <1>1, <2>5 DEF subVars
  <2>6. (\E f \in Fibers : Wake(f)) => UNCHANGED subVars
    BY DEF Wake
  <2> QED BY <2>1, <2>2, <2>3, <2>4, <2>5, <2>6 DEF Announce
<1> QED BY <1>2 DEF Begins, Queued

-----------------------------------------------------------------------------
(* The invariant and what follows from it.                                   *)

EventInv == TypeOK /\ Busy /\ LogInv /\ Pages /\ TailConsecutive /\ Queued

LEMMA InitInv == Init => EventInv
<1> SUFFICES ASSUME Init PROVE EventInv
  OBVIOUS
<1>1. TypeOK /\ Busy
  BY InitType
<1>2. LogInv
  BY DEF Init, LogInv, Filled, Projected
<1>3. Pages /\ TailConsecutive
  <2>1. \A t \in Tails : tail[t] = Closed /\ out[t] = <<>>
    BY DEF Init
  <2>2. \A t \in Tails : Fine(tail[t], out[t])
    <3>1. Run({}, 0, 0)
      BY EmptyRun
    <3>2. Counts(<<>>, 0, 0)
      BY DEF Counts
    <3>3. Fine(Closed, <<>>)
      BY <3>1, <3>2 DEF Fine, Closed
    <3> QED BY <2>1, <3>3
  <2> QED BY <2>2, AllFine
<1>4. Queued
  BY DEF Init, Queued, Unsubscribed
<1> QED BY <1>1, <1>2, <1>3, <1>4 DEF EventInv

LEMMA SameLog ==
  ASSUME LogInv, UNCHANGED logVars
  PROVE  LogInv'
  BY DEF LogInv, Filled, Projected, Log, After, logVars

LEMMA StepInv == EventInv /\ [Next]_vars => EventInv'
<1> SUFFICES ASSUME EventInv, [Next]_vars PROVE EventInv'
  OBVIOUS
<1> USE DEF EventInv
<1>1. CASE UNCHANGED vars
  <2>1. TypeOK' /\ Busy'
    BY <1>1 DEF TypeOK, Busy, vars, logVars, tailVars, subVars, Row
  <2>2. UNCHANGED logVars /\ UNCHANGED tailVars /\ UNCHANGED subVars
    BY <1>1 DEF vars
  <2> QED BY <2>1, <2>2, SameLog, OtherTails, QueuedStep
<1>2. ASSUME NEW f \in Fibers, Write(f) PROVE EventInv'
  <2>1. TypeOK' /\ Busy'
    BY <1>2, WriteType
  <2>2. LogInv'
    BY <1>2, <2>1, FilledWrite
  <2>3. UNCHANGED tailVars /\ UNCHANGED subVars
    BY <1>2 DEF Write, Publish, PublishAsOwner, Replay, Unwatched
  <2> QED BY <2>1, <2>2, <2>3, OtherTails, QueuedStep
<1>3. ASSUME NEW f \in Fibers, Announce(f) \/ Interrupted(f) PROVE EventInv'
  <2>1. TypeOK' /\ Busy'
    BY <1>3, AnnounceType
  <2>2. UNCHANGED logVars /\ (Announce(f) \/ (UNCHANGED tailVars /\ UNCHANGED subVars))
    BY <1>3 DEF Announce, Wake, Notify, Interrupted
  <2> QED BY <2>1, <2>2, SameLog, OtherTails, QueuedStep
<1>4. ASSUME NEW a \in Aggs, Own(a) \/ Remove(a) PROVE EventInv'
  <2>1. TypeOK' /\ Busy'
    BY <1>4, OwnType
  <2>2. LogInv'
    BY <1>4, FilledOwn, FilledRemove
  <2>3. UNCHANGED tailVars /\ UNCHANGED subVars
    BY <1>4 DEF Own, Claim, Release, ClaimConditional, ReplayAgain, OwnerOnly, Remove, Unwatched
  <2> QED BY <2>1, <2>2, <2>3, OtherTails, QueuedStep
<1>5. ASSUME NEW t \in Tails,
             Follow(t) \/ Close(t) \/ \E a \in Aggs : \E n \in 0..next[a] : Open(t, a, n)
      PROVE  EventInv'
  <2>1. TypeOK' /\ Busy'
    BY <1>5, FollowType
  <2>2. Pages' /\ TailConsecutive'
    BY <1>5, TailStep DEF LogInv
  <2>3. UNCHANGED logVars /\ UNCHANGED subVars
    BY <1>5 DEF Follow, Read, Emit, TakeWake, Close, Open, TailOnly
  <2> QED BY <2>1, <2>2, <2>3, SameLog, QueuedStep
<1>6. ASSUME NEW s \in Subs, Subscribe(s) \/ Take(s) \/ Leave(s) PROVE EventInv'
  <2>1. TypeOK' /\ Busy'
    BY <1>6, SubType
  <2>2. UNCHANGED logVars /\ UNCHANGED tailVars
    BY <1>6 DEF Subscribe, Take, Leave, SubOnly
  <2>3. Queued'
    BY <1>6, QueuedStep
  <2> QED BY <2>1, <2>2, <2>3, SameLog, OtherTails
<1>7. ASSUME NEW p \in Procs, Crash(p) PROVE EventInv'
  <2>1. TypeOK' /\ Busy'
    BY <1>7, CrashType
  <2>2. UNCHANGED logVars
    BY <1>7 DEF Crash
  <2>3. Pages' /\ TailConsecutive' /\ Queued'
    BY <1>7, OtherTails, QueuedStep
  <2> QED BY <2>1, <2>2, <2>3, SameLog
<1> QED BY <1>1, <1>2, <1>3, <1>4, <1>5, <1>6, <1>7 DEF Next

(* Log, projection, tails and subscribers keep the invariant, for any          *)
(* publishers, replays, removals and crashes.                                  *)
THEOREM LogInvariant == Spec => []EventInv
  BY InitInv, StepInv, PTL DEF Spec

(* Every variable of the log, its tails and its subscribers keeps its type. *)
THEOREM LogTypeCorrect == Spec => []TypeOK
<1>1. EventInv => TypeOK
  BY DEF EventInv
<1> QED BY <1>1, LogInvariant, PTL

(* The rows of an aggregate are one run from 0 to its sequence row. *)
LEMMA WholeLog ==
  ASSUME TypeOK, Filled, NEW a \in Aggs
  PROVE  Run(Log(a), 0, next[a]) /\ next[a] \in 0..(MaxSeq + 1)
<1>1. next[a] \in 0..(MaxSeq + 1)
  BY DEF TypeOK
<1>2. PICK m \in Nat : Run(After(a, 0), 0, m) /\ (0 <= next[a] => m = next[a])
  BY LogRun
<1> QED BY <1>1, <1>2 DEF Log

LEMMA FilledIsContiguous ==
  ASSUME TypeOK, Filled
  PROVE  LogContiguous
<1>1. ASSUME NEW a \in Aggs
      PROVE  /\ {r.seq : r \in Log(a)} = {n \in 0..MaxSeq : n < next[a]}
             /\ Cardinality(Log(a)) = next[a]
             /\ owner[a] # None => next[a] > 0
  <2>1. Run(Log(a), 0, next[a]) /\ next[a] \in 0..(MaxSeq + 1)
    BY WholeLog
  <2> DEFINE L == Log(a)  m == next[a]
  <2>2. Run(L, 0, m) /\ m \in Nat /\ m <= MaxSeq + 1
    BY <2>1
  <2>3. owner[a] # None => m > 0
    BY DEF Filled
  <2> HIDE DEF L, m
  <2>4. Cardinality(L) = m - 0
    BY <2>2, RunCount
  <2>5. {r.seq : r \in L} = 0..(m - 1)
    BY <2>2 DEF Run
  <2>6. 0..(m - 1) = {n \in 0..MaxSeq : n < m}
    BY <2>2
  <2>7. Cardinality(L) = m /\ {r.seq : r \in L} = {n \in 0..MaxSeq : n < m}
    BY <2>2, <2>4, <2>5, <2>6
  <2> QED BY <2>3, <2>7 DEF L, m
<1>2. \A r, q \in rows : r.id = q.id => r = q
  BY DEF Filled
<1> QED BY <1>1, <1>2 DEF LogContiguous

(* Publishing, replaying in and out of turn, changing owners and removing    *)
(* leave the log without a gap or a second event at a position, and the      *)
(* projectors run once per event in sequence order.                          *)
THEOREM LogProjected == Spec => []ViewIsLog
<1>1. ASSUME EventInv PROVE ViewIsLog
  <2>1. LogContiguous
    BY <1>1, FilledIsContiguous DEF EventInv, LogInv
  <2>2. ASSUME NEW a \in Aggs PROVE view[a] = Sorted(Log(a))
    <3> DEFINE L == Log(a)  m == next[a]  v == view[a]
    <3>1. Run(L, 0, m) /\ m \in Nat
      BY <1>1, WholeLog DEF EventInv, LogInv
    <3>2. Len(v) = m /\ \A i \in 1..m : v[i] \in L /\ v[i].seq = i - 1
      BY <1>1 DEF EventInv, LogInv, Projected
    <3>3. v \in Seq(Row)
      BY <1>1 DEF EventInv, TypeOK
    <3> HIDE DEF L, m, v
    <3>4. v \in Seq(L)
      BY <3>1, <3>2, <3>3
    <3>5. v = Sorted(L)
      BY <3>1, <3>2, <3>4, OneOrder
    <3> QED BY <3>5 DEF L, v
  <2> QED BY <2>1, <2>2 DEF ViewIsLog
<1>2. EventInv => ViewIsLog
  BY <1>1
<1> QED BY <1>2, LogInvariant, PTL

(* A tail emits consecutive numbers from where it was asked to start: what   *)
(* it replays and what it follows join without a gap and without a repeat.   *)
THEOREM TailsAreConsecutive == Spec => []TailConsecutive
<1>1. EventInv => TailConsecutive
  BY DEF EventInv
<1> QED BY <1>1, LogInvariant, PTL

(* A bounded subscriber's queue is the next of what it was notified of, and  *)
(* all of it until it fails.                                                 *)
THEOREM SubscribersSeeNoGap == Spec => []NoSilentGap
<1>1. ASSUME EventInv PROVE NoSilentGap
  <2>1. ASSUME NEW s \in Subs
        PROVE  /\ sub[s].queue = SubSeq(told[s], 1, Len(sub[s].queue))
               /\ ~sub[s].failed => sub[s].queue = told[s]
    <3> DEFINE q == sub[s].queue  w == told[s]  failed == sub[s].failed
    <3>1. q \in Seq(Row) /\ w \in Seq(Row)
      BY <1>1 DEF EventInv, TypeOK
    <3>2. /\ Len(q) <= Len(w) /\ \A i \in 1..Len(q) : q[i] = w[i]
          /\ ~failed => Len(q) = Len(w)
      BY <1>1 DEF EventInv, Queued
    <3> HIDE DEF q, w, failed
    <3>3. /\ SubSeq(w, 1, Len(q)) \in Seq(Row) /\ Len(SubSeq(w, 1, Len(q))) = Len(q)
          /\ \A i \in 1..Len(q) : SubSeq(w, 1, Len(q))[i] = w[i]
      BY <3>1, <3>2
    <3>4. q = SubSeq(w, 1, Len(q))
      BY <3>1, <3>2, <3>3
    <3>5. ~failed => q = w
      BY <3>1, <3>2
    <3> QED BY <3>4, <3>5 DEF q, w, failed
  <2> QED BY <2>1 DEF NoSilentGap
<1>2. EventInv => NoSilentGap
  BY <1>1
<1> QED BY <1>2, LogInvariant, PTL

-----------------------------------------------------------------------------
(* No tail sleeps over an event.                                             *)

(* What NoWakeLost says of one tail. *)
Knows(t) ==
  tail[t].pc \in {"emit", "wait"} /\ Unread(t) # {} => tail[t].dirty \/ WakeComes(t)

LEMMA SameKnows ==
  ASSUME NEW t \in Tails, Knows(t), tail'[t] = tail[t], rows' \subseteq rows,
         \A f \in Fibers : fib[f].pc = "wake" => fib'[f] = fib[f]
  PROVE  Knows(t)'
<1>1. Unread(t)' \subseteq Unread(t)
  BY DEF Unread, After
<1>2. WakeComes(t) => WakeComes(t)'
  BY DEF WakeComes
<1> QED BY <1>1, <1>2 DEF Knows

(* A commit that a tail has not read is about to wake it. *)
LEMMA WriteKnows ==
  ASSUME TypeOK, NEW t \in Tails, Knows(t), NEW f \in Fibers, Write(f)
  PROVE  Knows(t)'
<1>1. PICK a \in Aggs, id \in Ids, body \in Bodies, tell \in BOOLEAN : Insert(f, a, id, body, tell)
  BY WriteForm
<1>2. tail' = tail /\ fib[f].pc = "idle"
  <2>1. UNCHANGED tailVars /\ fib[f] = Nothing
    BY DEF Write, Publish, PublishAsOwner, Replay, Unwatched
  <2> QED BY <2>1 DEF tailVars, Nothing
<1> DEFINE r == [agg |-> a, seq |-> next[a], id |-> id, body |-> body]
<1>3. rows' = rows \cup {r} /\ r.agg = a
  BY <1>1 DEF Insert
<1>4. fib' = [fib EXCEPT ![f] = [pc |-> "wake", ev |-> r, tell |-> tell]]
  BY <1>1 DEF Insert
<1> HIDE DEF r
<1>5. fib'[f].pc = "wake" /\ fib'[f].ev = r /\ \A g \in Fibers \ {f} : fib'[g] = fib[g]
  BY <1>4 DEF TypeOK
<1>6. Unread(t)' \subseteq Unread(t) \/ tail[t].agg = a
  BY <1>2, <1>3 DEF Unread, After
<1>7. tail[t].agg = a => WakeComes(t)'
  BY <1>2, <1>3, <1>5 DEF WakeComes
<1>8. WakeComes(t) => WakeComes(t)'
  BY <1>2, <1>5 DEF WakeComes
<1> QED BY <1>2, <1>6, <1>7, <1>8 DEF Knows

(* A wake goes to the slots of its process and aggregate. *)
LEMMA WakeKnows ==
  ASSUME TypeOK, NEW t \in Tails, \A g \in Fibers : Home[g] = Home[t], Knows(t),
         NEW f \in Fibers, Wake(f)
  PROVE  Knows(t)'
<1>1. /\ rows' = rows /\ fib[f].pc = "wake"
      /\ \A g \in Fibers \ {f} : fib'[g] = fib[g]
      /\ tail'[t] = IF tail[t].agg = fib[f].ev.agg THEN [tail[t] EXCEPT !.dirty = TRUE] ELSE tail[t]
  BY DEF Wake, logVars, TypeOK
<1>2. CASE tail[t].agg = fib[f].ev.agg
  BY <1>1, <1>2 DEF TypeOK, Knows
<1>3. CASE tail[t].agg # fib[f].ev.agg
  <2>1. WakeComes(t) => WakeComes(t)'
    BY <1>1, <1>3 DEF WakeComes
  <2>2. Unread(t)' = Unread(t)
    BY <1>1, <1>3 DEF Unread, After
  <2> QED BY <1>1, <1>3, <2>1, <2>2 DEF Knows
<1> QED BY <1>2, <1>3

(* The answer of a query holds what there is; moving the cursor over it leaves *)
(* what came since.                                                            *)
LEMMA FollowKnows ==
  ASSUME TypeOK, Pages, NEW t \in Tails, Knows(t),
         Follow(t) \/ Close(t) \/ \E a \in Aggs : \E n \in 0..next[a] : Open(t, a, n)
  PROVE  Knows(t)'
<1>1. rows' = rows /\ fib' = fib
  BY DEF Follow, Read, Emit, TakeWake, Close, Open, TailOnly, logVars
<1>2. CASE Read(t)
  <2>1. /\ tail'[t].agg = tail[t].agg /\ tail'[t].cursor = tail[t].cursor
        /\ tail'[t].page = After(tail[t].agg, tail[t].cursor)
    BY <1>2 DEF TypeOK, Read
  <2>2. Unread(t)' = {}
    BY <1>1, <2>1 DEF Unread, After
  <2> QED BY <2>2 DEF Knows
<1>3. CASE Emit(t)
  <2> DEFINE R == tail[t].page  c == tail[t].cursor
  <2>1. /\ tail[t].pc = "emit" /\ tail'[t].agg = tail[t].agg /\ tail'[t].page = {}
        /\ tail'[t].dirty = tail[t].dirty
        /\ tail'[t].cursor = IF R = {} THEN c ELSE LastSeq(R) + 1
    BY <1>3 DEF TypeOK, Emit
  <2>2. R \subseteq Row /\ c \in Nat
    BY DEF TypeOK
  <2>3. R # {} => Run(R, c, LastSeq(R) + 1) /\ LastSeq(R) \in 0..MaxSeq
    BY PageEnd
  <2>4. rows \subseteq Row
    BY DEF TypeOK
  <2> DEFINE m == tail'[t].cursor
  <2>5. c <= m /\ m \in Nat /\ \A r \in R : r.seq < m
    <3>1. CASE R = {}
      BY <2>1, <2>2, <3>1
    <3>2. CASE R # {}
      <4> DEFINE l == LastSeq(R)
      <4>1. Run(R, c, l + 1) /\ l \in Nat /\ m = l + 1
        BY <2>1, <2>3, <3>2
      <4> HIDE DEF l, R, c, m
      <4>2. c <= l + 1 /\ \A r \in R : r.seq \in c..l
        BY <2>2, <4>1 DEF Run
      <4> QED BY <2>2, <4>1, <4>2
    <3> QED BY <3>1, <3>2
  <2> HIDE DEF R, c, m
  <2>6. \A r \in rows : r.seq >= m => r.seq >= c /\ r \notin R
    BY <2>2, <2>4, <2>5 DEF Row
  <2>7. Unread(t)' \subseteq Unread(t)
    BY <1>1, <2>1, <2>6 DEF Unread, After, R, c, m
  <2>8. WakeComes(t)' <=> WakeComes(t)
    BY <1>1, <2>1 DEF WakeComes
  <2> QED BY <2>1, <2>7, <2>8 DEF Knows
<1>4. CASE TakeWake(t) \/ Close(t) \/ \E a \in Aggs : \E n \in 0..next[a] : Open(t, a, n)
  <2>1. CASE TakeWake(t)
    BY <2>1 DEF TypeOK, TakeWake, Knows
  <2>2. CASE Close(t)
    BY <2>2 DEF TypeOK, Close, Closed, Knows
  <2>3. ASSUME NEW a \in Aggs, NEW n \in 0..next[a], Open(t, a, n) PROVE Knows(t)'
    BY <2>3 DEF TypeOK, Open, Closed, Knows
  <2> QED BY <1>4, <2>1, <2>2, <2>3
<1> QED BY <1>2, <1>3, <1>4 DEF Follow

LEMMA KnowsStep ==
  ASSUME EventInv, NEW t \in Tails, \A g \in Fibers : Home[g] = Home[t], Knows(t), [Next]_vars
  PROVE  Knows(t)'
<1> USE DEF EventInv
<1>1. CASE UNCHANGED vars
  BY <1>1, SameKnows DEF vars, logVars, tailVars
<1>2. ASSUME NEW f \in Fibers, Write(f) \/ Announce(f) \/ Interrupted(f) PROVE Knows(t)'
  <2>1. CASE Notify(f) \/ Interrupted(f)
    <3>1. rows' = rows /\ tail' = tail /\ fib[f].pc = "notify"
          /\ \A g \in Fibers \ {f} : fib'[g] = fib[g]
      BY <2>1 DEF Notify, Interrupted, logVars, tailVars, TypeOK
    <3>2. \A g \in Fibers : fib[g].pc = "wake" => fib'[g] = fib[g]
      BY <3>1
    <3> QED BY <3>1, <3>2, SameKnows
  <2> QED BY <1>2, <2>1, WriteKnows, WakeKnows DEF Announce
<1>3. ASSUME NEW a \in Aggs, Own(a) \/ Remove(a) PROVE Knows(t)'
  <2>1. rows' \subseteq rows /\ tail' = tail /\ fib' = fib
    BY <1>3 DEF Own, Claim, Release, ClaimConditional, ReplayAgain, OwnerOnly, Remove, Unwatched, tailVars
  <2> QED BY <2>1, SameKnows
<1>4. ASSUME NEW u \in Tails,
             Follow(u) \/ Close(u) \/ \E a \in Aggs : \E n \in 0..next[a] : Open(u, a, n)
      PROVE  Knows(t)'
  <2>1. rows' = rows /\ fib' = fib /\ (u # t => tail'[t] = tail[t])
    BY <1>4 DEF TypeOK, Follow, Read, Emit, TakeWake, Close, Open, TailOnly, logVars
  <2>2. CASE u = t
    BY <1>4, <2>2, FollowKnows
  <2>3. CASE u # t
    BY <2>1, <2>3, SameKnows
  <2> QED BY <2>2, <2>3
<1>5. ASSUME NEW s \in Subs, Subscribe(s) \/ Take(s) \/ Leave(s) PROVE Knows(t)'
  <2>1. rows' = rows /\ tail' = tail /\ fib' = fib
    BY <1>5 DEF Subscribe, Take, Leave, SubOnly, logVars, tailVars
  <2> QED BY <2>1, SameKnows
<1>6. ASSUME NEW p \in Procs, Crash(p) PROVE Knows(t)'
  <2>1. CASE Home[t] = p
    <3>1. tail'[t] = Closed
      BY <1>6, <2>1 DEF Crash
    <3> QED BY <3>1 DEF Knows, Closed
  <2>2. CASE Home[t] # p
    <3>1. rows' = rows /\ tail'[t] = tail[t] /\ \A f \in Fibers : fib'[f] = fib[f]
      BY <1>6, <2>2 DEF Crash, logVars
    <3> QED BY <3>1, SameKnows
  <2> QED BY <2>1, <2>2
<1> QED BY <1>1, <1>2, <1>3, <1>4, <1>5, <1>6 DEF Next

(* A tail beside its publishers never sleeps over an event that was committed: *)
(* registering the slot before the first read, and emptying it before the next *)
(* one, closes every window between a query and the wait that follows it.      *)
THEOREM NoEventSleptOver == Spec => []NoWakeLost
<1>1. NoWakeLost <=> \A t \in Tails : (\A f \in Fibers : Home[f] = Home[t]) => Knows(t)
  BY DEF NoWakeLost, Knows
<1>2. Init => NoWakeLost
  BY <1>1 DEF Init, Knows, Closed
<1>3. EventInv /\ NoWakeLost /\ [Next]_vars => NoWakeLost'
  <2>1. ASSUME EventInv, NoWakeLost, [Next]_vars,
               NEW t \in Tails, \A f \in Fibers : Home[f] = Home[t]
        PROVE  Knows(t)'
    BY <1>1, <2>1, KnowsStep
  <2> QED BY <2>1 DEF NoWakeLost, Knows
<1> QED BY <1>2, <1>3, LogInvariant, PTL DEF Spec

(* Replay and live part of a tail join without a gap, a repeat or a lost wake. *)
THEOREM TailsKeepUp == Spec => []TailKeepsUp
  BY TailsAreConsecutive, NoEventSleptOver, PTL DEF TailKeepsUp

=============================================================================

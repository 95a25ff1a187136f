-------------------------- MODULE SessionSyncProofs --------------------------
(* Proofs about SessionSync, for any number of remotes, writes, warps and     *)
(* faults.                                                                    *)
EXTENDS SessionSync, TLAPS

PC == {"idle", "cancel", "final", "merge", "claim", "copy", "post", "steal", "record"}

LEMMA NodeFacts == Hub \in Node /\ Hub \notin Remotes /\ Remotes \subseteq Node
  BY SyncAssumption DEF Node

(* The workspace a log records is a place. *)
LEMMA AttachedIsPlace == ASSUME NEW l \in Seq(Event) PROVE AttachedBy(l) \in Place
<1>1. None \in Place
  BY DEF Place
<1>2. CASE Latest(l) # {}
  <2>1. PICK i : i = CHOOSE j \in Latest(l) : TRUE
    OBVIOUS
  <2>2. i \in DOMAIN l /\ l[i].ws # Same
    BY <1>2, <2>1 DEF Latest
  <2>3. l[i] \in Event
    BY <2>2
  <2> QED BY <1>2, <2>1, <2>2, <2>3 DEF AttachedBy, Event
<1> QED BY <1>1, <1>2 DEF AttachedBy

-----------------------------------------------------------------------------
(* What a step does to the logs and their owners.                            *)

Untouched == log' = log /\ owner' = owner

(* n appends event e. *)
Appends(n, e) == log' = [log EXCEPT ![n] = Append(@, e)]

LEMMA AppendFacts ==
  ASSUME TypeOK, NEW n \in Node, NEW e \in Event, Appends(n, e)
  PROVE  /\ log' \in [Node -> Seq(Event)]
         /\ \A m \in Node : DOMAIN log[m] \subseteq DOMAIN log'[m]
         /\ \A m \in Node : \A k \in DOMAIN log[m] : log'[m][k] = log[m][k]
         /\ \A m \in Node : Len(log[m]) <= Len(log'[m])
         /\ \A m \in Node \ {n} : log'[m] = log[m]
         /\ DOMAIN log'[n] = DOMAIN log[n] \cup {Len(log[n]) + 1}
         /\ log'[n][Len(log[n]) + 1] = e
<1>1. log \in [Node -> Seq(Event)] /\ log[n] \in Seq(Event)
  BY DEF TypeOK
<1>2. log'[n] = Append(log[n], e) /\ \A m \in Node \ {n} : log'[m] = log[m]
  BY <1>1 DEF Appends
<1>3. log' \in [Node -> Seq(Event)]
  BY <1>1 DEF Appends
<1>4. /\ DOMAIN log'[n] = DOMAIN log[n] \cup {Len(log[n]) + 1}
      /\ log'[n][Len(log[n]) + 1] = e /\ Len(log'[n]) = Len(log[n]) + 1
      /\ \A k \in DOMAIN log[n] : log'[n][k] = log[n][k]
  BY <1>1, <1>2
<1>5. ASSUME NEW m \in Node PROVE Len(log[m]) \in Nat /\ Len(log[m]) <= Len(log'[m])
  <2>1. log[m] \in Seq(Event)
    BY <1>1
  <2>2. CASE m = n
    BY <2>1, <2>2, <1>4
  <2>3. CASE m # n
    BY <2>1, <2>3, <1>2
  <2> QED BY <2>2, <2>3
<1> QED BY <1>2, <1>3, <1>4, <1>5

(* The inductive invariant. *)
(* What a remote's log holds of other servers came through the hub. *)
HubKnows ==
  \A w \in Remotes : \A k \in DOMAIN log[w] :
    log[w][k].by # w => k \in DOMAIN log[Hub] /\ log[Hub][k] = log[w][k]

Loops ==
  \A w \in Remotes :
    /\ rows[w].last <= Len(log[w])
    /\ link[w] = "history" => 1 <= rows[w].next /\ rows[w].next <= rows[w].last
    /\ \A i \in DOMAIN feed[w] : feed[w][i] \in DOMAIN log[w]

OwnersKept == \A w \in Remotes : owner[w] \in {None, w}

Warping ==
  /\ warp.pc # "idle" => log[Hub] # <<>>
  /\ warp.pc \in {"final", "merge"} => warp.from \in Remotes
  /\ warp.pc = "merge" => /\ 1 <= warp.next /\ warp.next <= warp.last
                          /\ warp.last <= Len(log[warp.from])
  /\ warp.pc \in {"post", "steal"} => warp.to \in Remotes
  /\ warp.pc = "post" => 1 <= warp.next /\ warp.next <= warp.last
  /\ warp.pc \in {"post", "steal", "record"} /\ warp.to \in Remotes => warp.last <= Len(log[Hub])

Copied(i) == \A k \in 1..i : k \in DOMAIN log[warp.to] /\ log[warp.to][k] = log[Hub][k]

WarpCopies ==
  /\ warp.pc = "post" => Copied(warp.next - 1)
  /\ warp.pc \in {"steal", "record"} /\ warp.to \in Remotes => Copied(warp.last)

SyncInv == TypeOK /\ OnePlace /\ HubKnows /\ Loops /\ OwnersKept /\ Warping /\ WarpCopies

-----------------------------------------------------------------------------
(* The ways a log grows: by an event of its server, by one of a remote that  *)
(* the hub may hear, by one the hub gives to a remote.                       *)
Own(n, e)   == e.by = n
Heard(n, e) ==
  /\ n = Hub
  /\ \E w \in Remotes : /\ Len(log[Hub]) + 1 \in DOMAIN log[w]
                        /\ log[w][Len(log[Hub]) + 1] = e
                        /\ owner[Hub] \in {None, w}
Given(n, e) ==
  n \in Remotes /\ Len(log[n]) + 1 \in DOMAIN log[Hub] /\ log[Hub][Len(log[n]) + 1] = e

Grows == \E n \in Node, e \in Event : Appends(n, e) /\ (Own(n, e) \/ Heard(n, e) \/ Given(n, e))

LEMMA GrowsOnePlace == ASSUME TypeOK, OnePlace, Grows PROVE OnePlace'
<1>1. PICK n \in Node, e \in Event : Appends(n, e) /\ (Own(n, e) \/ Heard(n, e) \/ Given(n, e))
  BY DEF Grows
<1> DEFINE p == Len(log[n]) + 1
<1>2. /\ \A m \in Node : DOMAIN log[m] \subseteq DOMAIN log'[m]
      /\ \A m \in Node : \A k \in DOMAIN log[m] : log'[m][k] = log[m][k]
      /\ \A m \in Node \ {n} : log'[m] = log[m]
      /\ DOMAIN log'[n] = DOMAIN log[n] \cup {p} /\ log'[n][p] = e
  BY <1>1, AppendFacts
<1>3. Own(n, e) \/ \E m \in Node : p \in DOMAIN log[m] /\ log[m][p] = e
  BY <1>1, NodeFacts DEF Heard, Given
<1>4. SUFFICES ASSUME NEW x \in Node, NEW y \in Node, NEW k \in DOMAIN log'[x], log'[x][k].by = y
               PROVE  k \in DOMAIN log'[y] /\ log'[y][k] = log'[x][k]
  BY DEF OnePlace
<1>5. CASE k \in DOMAIN log[x]
  <2>1. log'[x][k] = log[x][k] /\ k \in DOMAIN log[y] /\ log[y][k] = log[x][k]
    BY <1>2, <1>4, <1>5 DEF OnePlace
  <2> QED BY <1>2, <2>1
<1>6. CASE k \notin DOMAIN log[x]
  <2>1. x = n /\ k = p /\ log'[x][k] = e
    BY <1>2, <1>4, <1>6
  <2>2. CASE Own(n, e)
    BY <2>1, <2>2, <1>4 DEF Own
  <2>3. CASE \E m \in Node : p \in DOMAIN log[m] /\ log[m][p] = e
    <3>1. p \in DOMAIN log[y] /\ log[y][p] = e
      BY <2>1, <2>3, <1>4 DEF OnePlace
    <3> QED BY <3>1, <2>1, <1>2
  <2> QED BY <2>2, <2>3, <1>3
<1> QED BY <1>5, <1>6

LEMMA GrowsHubKnows == ASSUME TypeOK, HubKnows, Grows PROVE HubKnows'
<1>1. PICK n \in Node, e \in Event : Appends(n, e) /\ (Own(n, e) \/ Heard(n, e) \/ Given(n, e))
  BY DEF Grows
<1> DEFINE p == Len(log[n]) + 1
<1>2. /\ \A m \in Node : DOMAIN log[m] \subseteq DOMAIN log'[m]
      /\ \A m \in Node : \A k \in DOMAIN log[m] : log'[m][k] = log[m][k]
      /\ \A m \in Node \ {n} : log'[m] = log[m]
      /\ DOMAIN log'[n] = DOMAIN log[n] \cup {p} /\ log'[n][p] = e
  BY <1>1, AppendFacts
<1>4. SUFFICES ASSUME NEW w \in Remotes, NEW k \in DOMAIN log'[w], log'[w][k].by # w
               PROVE  k \in DOMAIN log'[Hub] /\ log'[Hub][k] = log'[w][k]
  BY DEF HubKnows
<1>5. CASE k \in DOMAIN log[w]
  <2>1. log'[w][k] = log[w][k] /\ k \in DOMAIN log[Hub] /\ log[Hub][k] = log[w][k]
    BY <1>2, <1>4, <1>5, NodeFacts DEF HubKnows
  <2> QED BY <1>2, <2>1, NodeFacts
<1>6. CASE k \notin DOMAIN log[w]
  <2>1. w = n /\ k = p /\ log'[w][k] = e
    BY <1>2, <1>4, <1>6, NodeFacts
  <2>2. k \in DOMAIN log[Hub] /\ log[Hub][k] = e
    BY <2>1, <1>1, <1>4, NodeFacts DEF Own, Heard, Given
  <2> QED BY <2>1, <2>2, <1>2, NodeFacts
<1> QED BY <1>5, <1>6

(* The hub takes an event of another server from its owner alone. *)
LEMMA GrowsByOwner ==
  ASSUME TypeOK, HubKnows, Grows, NEW k \in DOMAIN log'[Hub] \ DOMAIN log[Hub]
  PROVE  log'[Hub][k].by = Hub \/ owner[Hub] \in {None, log'[Hub][k].by}
<1>1. PICK n \in Node, e \in Event : Appends(n, e) /\ (Own(n, e) \/ Heard(n, e) \/ Given(n, e))
  BY DEF Grows
<1>2. n = Hub /\ k = Len(log[Hub]) + 1 /\ log'[Hub][k] = e
  BY <1>1, AppendFacts, NodeFacts
<1>3. CASE Own(n, e)
  BY <1>2, <1>3 DEF Own
<1>4. CASE Heard(n, e)
  <2>1. PICK w \in Remotes : k \in DOMAIN log[w] /\ log[w][k] = e /\ owner[Hub] \in {None, w}
    BY <1>2, <1>4 DEF Heard
  <2>2. e.by = w
    BY <2>1 DEF HubKnows
  <2> QED BY <1>2, <2>1, <2>2
<1> QED BY <1>1, <1>2, <1>3, <1>4, NodeFacts DEF Given

(* Logs keep what they hold. *)
Monotone ==
  \A m \in Node : /\ DOMAIN log[m] \subseteq DOMAIN log'[m]
                  /\ \A k \in DOMAIN log[m] : log'[m][k] = log[m][k]
                  /\ Len(log[m]) <= Len(log'[m])

LEMMA GrowsMonotone == ASSUME TypeOK, Grows PROVE Monotone /\ log' \in [Node -> Seq(Event)]
  BY AppendFacts DEF Grows, Monotone

LEMMA SameMonotone == ASSUME TypeOK, log' = log PROVE Monotone /\ log' \in [Node -> Seq(Event)]
<1>1. \A m \in Node : log[m] \in Seq(Event)
  BY DEF TypeOK
<1>2. \A m \in Node : Len(log[m]) \in Nat
  BY <1>1
<1> QED BY <1>2 DEF TypeOK, Monotone

-----------------------------------------------------------------------------
(* The replay of an event of a remote at the hub, and of the hub at a remote. *)

LEMMA ReplayAtHub ==
  ASSUME TypeOK, NEW w \in Remotes, NEW k \in DOMAIN log[w], Replay(Hub, w, k, log[w][k])
  PROVE  /\ log' = log \/ Grows
         /\ owner' \in [Node -> Place \cup {Project}]
         /\ \A m \in Remotes : owner'[m] = owner[m]
<1>1. log[w][k] \in Event /\ log[Hub] \in Seq(Event) /\ w \in Place
  BY NodeFacts DEF TypeOK, Place
<1>2. CASE Extends(Hub, w, k)
  <2>1. Appends(Hub, log[w][k]) /\ Heard(Hub, log[w][k])
    BY <1>1, <1>2 DEF Replay, Extends, Foreign, Appends, Heard
  <2> QED BY <1>1, <2>1, NodeFacts DEF Grows, Replay, TypeOK
<1>3. CASE ~Extends(Hub, w, k)
  BY <1>1, <1>3, NodeFacts DEF Replay, TypeOK
<1> QED BY <1>2, <1>3

LEMMA ReplayAtRemote ==
  ASSUME TypeOK, OwnersKept, NEW w \in Remotes, NEW k \in DOMAIN log[Hub],
         Replay(w, w, k, log[Hub][k])
  PROVE  /\ log' = log \/ Grows
         /\ owner' \in [Node -> Place \cup {Project}] /\ OwnersKept'
         /\ k \in DOMAIN log'[w] /\ log'[w][k] = log[Hub][k] /\ log'[Hub] = log[Hub]
<1>1. log[Hub][k] \in Event /\ log[w] \in Seq(Event) /\ w \in Place /\ k \in Nat /\ k >= 1
  BY NodeFacts DEF TypeOK, Place
<1>2. ~Foreign(w, w, k)
  BY DEF OwnersKept, Foreign
<1>3. owner' \in [Node -> Place \cup {Project}] /\ OwnersKept'
  BY <1>1, NodeFacts DEF Replay, TypeOK, OwnersKept
<1>4. CASE Extends(w, w, k)
  <2>1. Appends(w, log[Hub][k]) /\ Given(w, log[Hub][k])
    BY <1>1, <1>4 DEF Replay, Extends, Appends, Given
  <2>2. k = Len(log[w]) + 1
    BY <1>4 DEF Extends
  <2> QED BY <1>1, <1>3, <2>1, <2>2, AppendFacts, NodeFacts DEF Grows
<1>5. CASE ~Extends(w, w, k)
  <2>1. Stored(w, k, log[Hub][k]) /\ log' = log
    BY <1>2, <1>5 DEF Replay, Dies
  <2> QED BY <1>1, <1>3, <2>1 DEF Stored
<1> QED BY <1>4, <1>5

LEMMA Appended ==
  ASSUME NEW s \in Seq(Nat), NEW p \in Nat, NEW i \in DOMAIN Append(s, p)
  PROVE  (i \in DOMAIN s /\ Append(s, p)[i] = s[i]) \/ Append(s, p)[i] = p
  OBVIOUS

LEMMA PublishGrows ==
  ASSUME TypeOK, NEW n \in Node, NEW ws \in Place \cup {Same}, Publish(n, ws)
  PROVE  /\ Grows
         /\ feed' \in [Remotes -> Seq(Nat)]
         /\ \A w \in Remotes : \A i \in DOMAIN feed'[w] :
              feed'[w][i] \in DOMAIN log'[w] \/ \E j \in DOMAIN feed[w] : feed'[w][i] = feed[w][j]
<1> DEFINE e == [by |-> n, ws |-> ws]
<1>1. e \in Event /\ Appends(n, e) /\ Own(n, e)
  BY DEF Event, Publish, Appends, Own
<1>2. Len(log[n]) + 1 \in DOMAIN log'[n] /\ Len(log[n]) + 1 \in Nat
  <2>1. log[n] \in Seq(Event)
    BY DEF TypeOK
  <2> QED BY <1>1, <2>1, AppendFacts
<1>3. feed' \in [Remotes -> Seq(Nat)]
  BY <1>2 DEF Publish, TypeOK
<1>4. ASSUME NEW w \in Remotes, NEW i \in DOMAIN feed'[w]
      PROVE  feed'[w][i] \in DOMAIN log'[w] \/ \E j \in DOMAIN feed[w] : feed'[w][i] = feed[w][j]
  <2>1. feed[w] \in Seq(Nat)
    BY DEF TypeOK
  <2>2. CASE w = n /\ Listening(w)
    <3>1. feed'[w] = Append(feed[w], Len(log[n]) + 1)
      BY <2>2 DEF Publish
    <3>2. Len(log[n]) + 1 \in Nat
      BY <1>2
    <3>3. i \in DOMAIN Append(feed[w], Len(log[n]) + 1)
      BY <3>1
    <3>4. \/ i \in DOMAIN feed[w] /\ Append(feed[w], Len(log[n]) + 1)[i] = feed[w][i]
          \/ Append(feed[w], Len(log[n]) + 1)[i] = Len(log[n]) + 1
      BY <2>1, <3>2, <3>3, Appended
    <3> QED BY <2>2, <3>1, <3>4, <1>2
  <2>3. CASE ~(w = n /\ Listening(w))
    BY <2>3 DEF Publish
  <2> QED BY <2>2, <2>3
<1> QED BY <1>1, <1>3, <1>4 DEF Grows

-----------------------------------------------------------------------------
(* What a step does to the logs and the owners. *)

HubOwns == \A m \in Remotes : owner'[m] = owner[m]

LEMMA CurrentRow ==
  ASSUME TypeOK, Loops, NEW w \in Remotes, link[w] = "history"
  PROVE  rows[w].next \in DOMAIN log[w]
  BY NodeFacts DEF TypeOK, Loops, Span

LEMMA CurrentFeed ==
  ASSUME TypeOK, Loops, NEW w \in Remotes, feed[w] # <<>>
  PROVE  Head(feed[w]) \in DOMAIN log[w]
<1>1. feed[w] \in Seq(Nat)
  BY DEF TypeOK
<1> QED BY <1>1 DEF Loops

LEMMA CurrentMerge ==
  ASSUME TypeOK, Warping, warp.pc = "merge"
  PROVE  warp.from \in Remotes /\ warp.next \in DOMAIN log[warp.from]
  BY NodeFacts DEF TypeOK, Warping

LEMMA CurrentPost ==
  ASSUME TypeOK, Warping, warp.pc = "post"
  PROVE  warp.to \in Remotes /\ warp.next \in DOMAIN log[Hub]
  BY NodeFacts DEF TypeOK, Warping

OwnersOK == owner' \in [Node -> Place \cup {Project}] /\ OwnersKept'

LEMMA OwnersStay == ASSUME TypeOK, OwnersKept, owner' = owner PROVE OwnersOK
  BY DEF TypeOK, OwnersKept, OwnersOK

LEMMA StepGrows ==
  ASSUME SyncInv, [Next]_vars
  PROVE  (log' = log \/ Grows) /\ OwnersOK
<1> USE DEF SyncInv
<1>1. CASE UNCHANGED <<log, owner>>
  BY <1>1, OwnersStay
<1>2. ASSUME NEW n \in Node, Write(n) PROVE Grows /\ OwnersOK
  <2>1. Publish(n, Same) /\ owner' = owner
    BY <1>2 DEF Write
  <2> QED BY <2>1, PublishGrows, OwnersStay
<1>3. ASSUME NEW w \in Remotes, ReplayHistory(w) PROVE (log' = log \/ Grows) /\ OwnersOK
  <2>1. rows[w].next \in DOMAIN log[w]
    BY <1>3, CurrentRow DEF ReplayHistory
  <2>2. CASE Replay(Hub, w, rows[w].next, log[w][rows[w].next])
    BY <2>1, <2>2, ReplayAtHub DEF OwnersOK, OwnersKept
  <2> QED BY <1>3, <1>1, <2>2 DEF ReplayHistory
<1>4. ASSUME NEW w \in Remotes, Live(w) PROVE (log' = log \/ Grows) /\ OwnersOK
  <2>1. Head(feed[w]) \in DOMAIN log[w]
    BY <1>4, CurrentFeed DEF Live
  <2>2. CASE Replay(Hub, w, Head(feed[w]), log[w][Head(feed[w])])
    BY <2>1, <2>2, ReplayAtHub DEF OwnersOK, OwnersKept
  <2> QED BY <1>4, <1>1, <2>2 DEF Live
<1>5. CASE WarpMerge
  <2>1. warp.from \in Remotes /\ warp.next \in DOMAIN log[warp.from]
    BY <1>5, CurrentMerge DEF WarpMerge
  <2>2. CASE Replay(Hub, warp.from, warp.next, log[warp.from][warp.next])
    BY <2>1, <2>2, ReplayAtHub DEF OwnersOK, OwnersKept
  <2> QED BY <1>5, <1>1, <2>2 DEF WarpMerge
<1>6. CASE WarpClaim
  <2>1. warp.to \in Place /\ log' = log
    BY <1>6 DEF WarpClaim, TypeOK
  <2>2. owner' \in [Node -> Place \cup {Project}]
    BY <1>6, <2>1 DEF WarpClaim, TypeOK
  <2>3. OwnersKept'
    BY <1>6, NodeFacts DEF WarpClaim, TypeOK, OwnersKept
  <2> QED BY <2>1, <2>2, <2>3 DEF OwnersOK
<1>7. CASE WarpPost
  <2>1. warp.to \in Remotes /\ warp.next \in DOMAIN log[Hub]
    BY <1>7, CurrentPost DEF WarpPost
  <2>2. CASE Replay(warp.to, warp.to, warp.next, log[Hub][warp.next])
    BY <2>1, <2>2, ReplayAtRemote DEF OwnersOK
  <2> QED BY <1>7, <1>1, <2>2 DEF WarpPost
<1>8. CASE WarpSteal
  <2>1. warp.to \in Remotes
    BY <1>8 DEF WarpSteal, Warping
  <2>2. warp.to \in Node /\ warp.to \in Place
    BY <2>1 DEF Node, Place
  <2> QED BY <1>8, <2>2, PublishGrows, OwnersStay DEF WarpSteal
<1>9. CASE WarpRecord
  <2>1. warp.to \in Place
    BY DEF TypeOK
  <2> QED BY <1>9, <2>1, PublishGrows, OwnersStay, NodeFacts DEF WarpRecord
<1>10. CASE Prompt \/ HubCrash
  BY <1>10, <1>1 DEF Prompt, HubCrash
<1>11. ASSUME NEW w \in Remotes, Connect(w) \/ AskHistory(w) \/ Disconnect(w) \/ StartSync(w)
       PROVE  UNCHANGED <<log, owner>>
  BY <1>11 DEF Connect, AskHistory, Disconnect, StartSync
<1>12. ASSUME NEW to \in Place, WarpStart(to) PROVE UNCHANGED <<log, owner>>
  BY <1>12 DEF WarpStart
<1>13. CASE WarpCancel \/ WarpFinal \/ WarpCopy \/ WarpFails
  BY <1>13, <1>1 DEF WarpCancel, WarpFinal, WarpCopy, WarpFails
<1>14. CASE UNCHANGED vars
  BY <1>14, <1>1 DEF vars
<1>15. CASE Warp
  BY <1>15, <1>5, <1>6, <1>7, <1>8, <1>9, <1>12, <1>13, <1>1 DEF Warp
<1>16. CASE \E w \in Remotes : Loop(w) \/ Disconnect(w) \/ StartSync(w)
  BY <1>16, <1>3, <1>4, <1>11, <1>1 DEF Loop
<1> QED BY <1>2, <1>10, <1>14, <1>15, <1>16 DEF Next

-----------------------------------------------------------------------------
(* The rest of the state, action by action. *)

Bounded == writes' \in 0..MaxWrites /\ warps' \in 0..MaxWarps /\ faults' \in 0..MaxFaults

(* A counter stands or goes up below its bound. *)
Counts ==
  /\ writes' # writes => writes < MaxWrites /\ writes' = writes + 1
  /\ warps' # warps => warps < MaxWarps /\ warps' = warps + 1
  /\ faults' # faults => faults < MaxFaults /\ faults' = faults + 1

LEMMA StepCounts == ASSUME [Next]_vars PROVE Counts
<1>1. CASE \E n \in Node : Write(n)
  BY <1>1 DEF Write, Counts
<1>2. CASE \E w \in Remotes : Loop(w) \/ Disconnect(w) \/ StartSync(w)
  BY <1>2 DEF Loop, Connect, AskHistory, ReplayHistory, Live, Disconnect, StartSync, Fault, Counts
<1>3. CASE Warp
  BY <1>3 DEF Warp, WarpStart, WarpCancel, WarpFinal, WarpMerge, WarpClaim, WarpCopy, WarpPost,
              WarpSteal, WarpRecord, WarpFails, WarpOnly, Fault, Counts
<1>4. CASE Prompt \/ HubCrash \/ UNCHANGED vars
  BY <1>4 DEF Prompt, HubCrash, vars, Fault, Counts
<1> QED BY <1>1, <1>2, <1>3, <1>4 DEF Next

LEMMA StepBounded == ASSUME TypeOK, [Next]_vars PROVE Bounded
<1>1. Counts
  BY StepCounts
<1> QED BY <1>1, SyncAssumption DEF TypeOK, Counts, Bounded

LEMMA AttachedType == ASSUME TypeOK PROVE Attached \in Place
  BY AttachedIsPlace, NodeFacts DEF TypeOK, Attached

LEMMA StepBusy == ASSUME TypeOK, [Next]_vars PROVE busy' \in [Node -> BOOLEAN]
  BY AttachedType, NodeFacts
  DEF TypeOK, Next, vars, Prompt, Write, Loop, Connect, AskHistory, ReplayHistory, Live,
      Disconnect, StartSync, Warp, WarpStart, WarpCancel, WarpFinal, WarpMerge, WarpClaim,
      WarpCopy, WarpPost, WarpSteal, WarpRecord, WarpFails, WarpOnly, HubCrash, Node

LEMMA HistoryType ==
  ASSUME TypeOK, NEW w \in Remotes
  PROVE  /\ History(w) \in Span /\ 1 <= History(w).next /\ History(w).last = Len(log[w])
<1>1. Len(log[w]) \in Nat /\ Len(log[Hub]) \in Nat
  <2>1. log[w] \in Seq(Event) /\ log[Hub] \in Seq(Event)
    BY NodeFacts DEF TypeOK
  <2> QED BY <2>1
<1> QED BY <1>1 DEF History, Span

LoopTypes ==
  /\ link \in [Remotes -> {"off", "down", "error", "open", "history", "live"}]
  /\ rows \in [Remotes -> Span] /\ feed \in [Remotes -> Seq(Nat)]

LoopInv == LoopTypes /\ Loops

(* A loop as it was, over logs that grew. *)
LEMMA LoopsStay == ASSUME SyncInv, Monotone, log' \in [Node -> Seq(Event)], UNCHANGED loop PROVE LoopInv'
<1>1. LoopTypes'
  BY DEF SyncInv, TypeOK, LoopTypes, loop
<1>2. ASSUME NEW w \in Remotes
      PROVE  /\ rows'[w].last <= Len(log'[w])
             /\ \A i \in DOMAIN feed'[w] : feed'[w][i] \in DOMAIN log'[w]
  <2>1. log[w] \in Seq(Event) /\ log'[w] \in Seq(Event) /\ rows[w] \in Span
    BY NodeFacts DEF SyncInv, TypeOK
  <2>2. rows[w].last \in Nat /\ Len(log[w]) \in Nat /\ Len(log'[w]) \in Nat
    BY <2>1 DEF Span
  <2>3. rows[w].last <= Len(log[w]) /\ Len(log[w]) <= Len(log'[w])
    BY NodeFacts DEF SyncInv, Loops, Monotone
  <2> QED BY <2>2, <2>3, NodeFacts DEF SyncInv, Loops, Monotone, loop
<1> QED BY <1>1, <1>2 DEF SyncInv, Loops, LoopInv, loop

LEMMA StepMonotone == ASSUME SyncInv, [Next]_vars PROVE Monotone /\ log' \in [Node -> Seq(Event)]
  BY StepGrows, GrowsMonotone, SameMonotone DEF SyncInv

(* A loop that changes only where it is, and forgets rows or feed. *)
LEMMA LoopMoves ==
  ASSUME SyncInv, Monotone, log' \in [Node -> Seq(Event)], LoopTypes',
         \A w \in Remotes : link'[w] = "history" => link[w] = "history",
         \A w \in Remotes : rows'[w] = rows[w] \/ (rows'[w] = NoRows /\ link'[w] # "history"),
         \A w \in Remotes : \A i \in DOMAIN feed'[w] :
           feed'[w][i] \in DOMAIN log'[w] \/ \E j \in DOMAIN feed[w] : feed'[w][i] = feed[w][j]
  PROVE  LoopInv'
<1>1. ASSUME NEW w \in Remotes
      PROVE  /\ rows'[w].last <= Len(log'[w])
             /\ link'[w] = "history" => 1 <= rows'[w].next /\ rows'[w].next <= rows'[w].last
             /\ \A i \in DOMAIN feed'[w] : feed'[w][i] \in DOMAIN log'[w]
  <2>1. log[w] \in Seq(Event) /\ log'[w] \in Seq(Event) /\ rows[w] \in Span
    BY NodeFacts DEF SyncInv, TypeOK
  <2>2. rows[w].last \in Nat /\ Len(log[w]) \in Nat /\ Len(log'[w]) \in Nat
    BY <2>1 DEF Span
  <2>3. rows[w].last <= Len(log[w]) /\ Len(log[w]) <= Len(log'[w])
    BY NodeFacts DEF SyncInv, Loops, Monotone
  <2>4. \A i \in DOMAIN feed'[w] : feed'[w][i] \in DOMAIN log'[w]
    BY NodeFacts DEF SyncInv, Loops, Monotone
  <2> QED BY <2>2, <2>3, <2>4 DEF SyncInv, Loops, NoRows
<1> QED BY <1>1 DEF Loops, LoopInv

LEMMA StepLoops == ASSUME SyncInv, [Next]_vars PROVE LoopInv'
<1>0. Monotone /\ log' \in [Node -> Seq(Event)] /\ TypeOK /\ Loops
  BY StepMonotone DEF SyncInv
<1>1. CASE UNCHANGED loop
  BY <1>0, <1>1, LoopsStay
<1>2. ASSUME NEW n \in Node, NEW ws \in Place \cup {Same}, Publish(n, ws), UNCHANGED <<link, rows>>
      PROVE  LoopInv'
  <2>1. LoopTypes'
    BY <1>0, <1>2, PublishGrows DEF TypeOK, LoopTypes
  <2> QED BY <1>0, <1>2, <2>1, PublishGrows, LoopMoves
<1>3. ASSUME NEW w \in Remotes, Connect(w) \/ StartSync(w) PROVE LoopInv'
  <2>1. LoopTypes'
    BY <1>0, <1>3 DEF TypeOK, LoopTypes, Connect, StartSync
  <2> QED BY <1>0, <1>3, <2>1, LoopMoves DEF Connect, StartSync, TypeOK
<1>4. ASSUME NEW w \in Remotes, Disconnect(w) PROVE LoopInv'
  <2>1. LoopTypes'
    BY <1>0, <1>4 DEF TypeOK, LoopTypes, Disconnect
  <2>2. \A v \in Remotes : feed'[v] = feed[v] \/ feed'[v] = <<>>
    BY <1>0, <1>4 DEF Disconnect, TypeOK
  <2> QED BY <1>0, <1>4, <2>1, <2>2, LoopMoves DEF Disconnect, TypeOK
<1>5. CASE HubCrash
  <2>1. LoopTypes'
    BY <1>5 DEF LoopTypes, HubCrash, Span, NoRows
  <2> QED BY <1>0, <1>5, <2>1, LoopMoves DEF HubCrash
<1>6. ASSUME NEW w \in Remotes, Live(w) PROVE LoopInv'
  <2>1. feed[w] \in Seq(Nat) /\ feed[w] # <<>>
    BY <1>0, <1>6 DEF TypeOK, Live
  <2>2. /\ Tail(feed[w]) \in Seq(Nat)
        /\ \A i \in DOMAIN Tail(feed[w]) : i + 1 \in DOMAIN feed[w] /\ Tail(feed[w])[i] = feed[w][i + 1]
    BY <2>1
  <2>3. LoopTypes'
    BY <1>0, <1>6, <2>2 DEF TypeOK, LoopTypes, Live
  <2>4. \A v \in Remotes : feed'[v] = IF v = w THEN Tail(feed[w]) ELSE feed[v]
    BY <1>0, <1>6 DEF Live, TypeOK
  <2>5. \A v \in Remotes : \A i \in DOMAIN feed'[v] : \E j \in DOMAIN feed[v] : feed'[v][i] = feed[v][j]
    BY <2>2, <2>4
  <2> QED BY <1>0, <1>6, <2>3, <2>5, LoopMoves DEF Live
<1>7. ASSUME NEW w \in Remotes, AskHistory(w) PROVE LoopInv'
  <2>1. /\ History(w) \in Span /\ 1 <= History(w).next /\ History(w).last = Len(log[w])
        /\ log' = log /\ feed' = feed
    BY <1>0, <1>7, HistoryType DEF AskHistory
  <2>2. LoopTypes'
    BY <1>0, <1>7, <2>1 DEF TypeOK, LoopTypes, AskHistory
  <2>3. CASE UNCHANGED rows /\ link' = [link EXCEPT ![w] = "live"]
    <3>1. \A v \in Remotes : link'[v] = "history" => link[v] = "history"
      BY <1>0, <2>3 DEF TypeOK
    <3>2. \A v \in Remotes : \A i \in DOMAIN feed'[v] : \E j \in DOMAIN feed[v] : feed'[v][i] = feed[v][j]
      BY <2>1
    <3> QED BY <1>0, <2>2, <2>3, <3>1, <3>2, LoopMoves
  <2>4. CASE /\ History(w).next <= History(w).last
             /\ rows' = [rows EXCEPT ![w] = History(w)] /\ link' = [link EXCEPT ![w] = "history"]
    <3>1. Len(log[w]) \in Nat
      BY <2>1 DEF Span
    <3>2. \A v \in Remotes : v # w => rows'[v] = rows[v] /\ link'[v] = link[v]
      BY <1>0, <2>4 DEF TypeOK
    <3>3. rows'[w] = History(w)
      BY <1>0, <2>4 DEF TypeOK
    <3>4. rows'[w].last <= Len(log[w]) /\ 1 <= rows'[w].next /\ rows'[w].next <= rows'[w].last
      BY <2>1, <2>4, <3>1, <3>3
    <3> QED BY <1>0, <2>1, <2>2, <3>2, <3>4 DEF Loops, LoopInv
  <2> QED BY <1>7, <2>3, <2>4 DEF AskHistory
<1>8. ASSUME NEW w \in Remotes, ReplayHistory(w) PROVE LoopInv'
  <2>0. rows[w] \in Span
    BY <1>0 DEF TypeOK
  <2>1. CASE rows' = [rows EXCEPT ![w] = NoRows]
    <3>1. LoopTypes'
      <4>1. rows' \in [Remotes -> Span]
        BY <1>0, <2>1 DEF TypeOK, Span, NoRows
      <4>2. \/ UNCHANGED <<link, feed>>
            \/ link' = [link EXCEPT ![w] = "live"] /\ UNCHANGED feed
            \/ link' = [link EXCEPT ![w] = "off"] /\ feed' = [feed EXCEPT ![w] = <<>>]
        BY <1>8 DEF ReplayHistory
      <4>3. <<>> \in Seq(Nat)
        OBVIOUS
      <4>4. link' \in [Remotes -> {"off", "down", "error", "open", "history", "live"}]
        BY <1>0, <4>2 DEF TypeOK
      <4>5. feed' \in [Remotes -> Seq(Nat)]
        BY <1>0, <4>2, <4>3 DEF TypeOK
      <4> QED BY <4>1, <4>4, <4>5 DEF LoopTypes
    <3>2. \A v \in Remotes : feed'[v] = feed[v] \/ feed'[v] = <<>>
      BY <1>0, <1>8 DEF ReplayHistory, TypeOK
    <3>3. \A v \in Remotes : /\ rows'[v] = rows[v] \/ (rows'[v] = NoRows /\ link'[v] # "history")
                             /\ link'[v] = "history" => link[v] = "history"
      <4>1. link' = [link EXCEPT ![w] = "live"] \/ link' = [link EXCEPT ![w] = "off"]
        <5>1. rows'[w] = NoRows
          BY <1>0, <2>1 DEF TypeOK
        <5>2. 1 <= rows[w].next /\ rows[w].next \in Nat
          BY <1>0, <1>8, <2>0 DEF Loops, ReplayHistory, Span
        <5>3. rows' # [rows EXCEPT ![w].next = @ + 1]
          <6>1. rows = [rows EXCEPT ![w].next = @ + 1] \/ [rows EXCEPT ![w].next = @ + 1][w].next = rows[w].next + 1
            BY <1>0, <2>0 DEF TypeOK, Span
          <6> QED BY <1>0, <5>1, <5>2, <6>1, <2>0 DEF NoRows, TypeOK, Span
        <5> QED BY <1>8, <5>3 DEF ReplayHistory
      <4> QED BY <1>0, <2>1, <4>1 DEF TypeOK
    <3> QED BY <1>0, <3>1, <3>2, <3>3, LoopMoves
  <2>2. CASE /\ rows[w].next < rows[w].last /\ rows' = [rows EXCEPT ![w].next = @ + 1]
             /\ UNCHANGED <<link, feed>>
    <3>1. rows'[w] = [next |-> rows[w].next + 1, last |-> rows[w].last]
      BY <1>0, <2>0, <2>2 DEF TypeOK, Span
    <3>2. \A v \in Remotes : v # w => rows'[v] = rows[v]
      BY <1>0, <2>2 DEF TypeOK
    <3>3. rows[w].next \in Nat /\ rows[w].last \in Nat
      BY <2>0 DEF Span
    <3>4. rows'[w] \in Span /\ rows'[w].last = rows[w].last /\ 1 <= rows'[w].next /\ rows'[w].next <= rows'[w].last
      BY <2>2, <3>1, <3>3 DEF Span
    <3>5. LoopTypes'
      BY <1>0, <2>2, <3>4 DEF TypeOK, LoopTypes
    <3>6. ASSUME NEW v \in Remotes PROVE rows'[v].last <= Len(log'[v])
      <4>1. log[v] \in Seq(Event) /\ log'[v] \in Seq(Event) /\ rows[v] \in Span
        BY <1>0, NodeFacts DEF TypeOK
      <4>2. Len(log[v]) \in Nat /\ Len(log'[v]) \in Nat /\ rows[v].last \in Nat
        BY <4>1 DEF Span
      <4>3. rows'[v].last = rows[v].last /\ rows[v].last <= Len(log[v]) /\ Len(log[v]) <= Len(log'[v])
        BY <1>0, <3>2, <3>4, NodeFacts DEF Loops, Monotone
      <4> QED BY <4>2, <4>3
    <3>7. \A v \in Remotes : \A i \in DOMAIN feed'[v] : feed'[v][i] \in DOMAIN log'[v]
      BY <1>0, <2>2, NodeFacts DEF Loops, Monotone
    <3> QED BY <1>0, <2>2, <3>2, <3>4, <3>5, <3>6, <3>7 DEF Loops, LoopInv
  <2> QED BY <1>8, <2>1, <2>2 DEF ReplayHistory
<1>9. CASE Warp
  <2>1. CASE WarpSteal
    <3>1. warp.to \in Node /\ warp.to \in Place
      BY <2>1 DEF WarpSteal, SyncInv, Warping, Node, Place
    <3> QED BY <2>1, <3>1, <1>2 DEF WarpSteal
  <2>2. CASE WarpRecord
    BY <1>0, <2>2, <1>2, NodeFacts DEF WarpRecord, TypeOK
  <2>3. ASSUME NEW to \in Place, WarpStart(to) PROVE LoopInv'
    BY <2>3, <1>1 DEF WarpStart
  <2>4. CASE WarpMerge \/ WarpClaim \/ WarpCopy \/ WarpPost
    BY <2>4, <1>1 DEF WarpMerge, WarpClaim, WarpCopy, WarpPost, WarpOnly
  <2>5. CASE WarpCancel \/ WarpFinal \/ WarpFails
    BY <2>5, <1>1 DEF WarpCancel, WarpFinal, WarpFails
  <2> QED BY <1>9, <2>1, <2>2, <2>3, <2>4, <2>5 DEF Warp
<1>10. CASE Prompt \/ UNCHANGED vars
  BY <1>10, <1>1 DEF Prompt, vars
<1>11. CASE \E n \in Node : Write(n)
  BY <1>11, <1>2 DEF Write
<1> QED BY <1>3, <1>4, <1>5, <1>6, <1>7, <1>8, <1>9, <1>10, <1>11 DEF Next, Loop

-----------------------------------------------------------------------------
(* The warp. *)

WarpType ==
  warp \in [pc : PC, from : Place, to : Place, next : Nat, last : Nat]

WarpInv == WarpType /\ Warping /\ WarpCopies

LEMMA IdleInv == ASSUME warp' = Idle PROVE WarpInv'
<1>1. None \in Place
  BY DEF Place
<1> QED BY <1>1 DEF WarpInv, WarpType, PC, Idle, Warping, WarpCopies

(* A log that grew is not empty and holds what was copied. *)
LEMMA WarpStays ==
  ASSUME SyncInv, Monotone, log' \in [Node -> Seq(Event)], UNCHANGED warp
  PROVE  WarpInv'
<1>1. WarpType'
  BY DEF SyncInv, TypeOK, WarpType, PC
<1>2. /\ log[Hub] \in Seq(Event) /\ log'[Hub] \in Seq(Event)
      /\ warp.from \in Remotes => log[warp.from] \in Seq(Event) /\ log'[warp.from] \in Seq(Event)
  BY NodeFacts DEF SyncInv, TypeOK
<1>3. warp.next \in Nat /\ warp.last \in Nat
  BY DEF SyncInv, TypeOK
<1>4. Warping'
  <2>1. log[Hub] # <<>> => log'[Hub] # <<>>
    BY <1>2, NodeFacts DEF Monotone
  <2>2. warp.last <= Len(log[Hub]) => warp.last <= Len(log'[Hub])
    BY <1>2, <1>3, NodeFacts DEF Monotone
  <2>3. warp.from \in Remotes /\ warp.last <= Len(log[warp.from]) => warp.last <= Len(log'[warp.from])
    BY <1>2, <1>3, NodeFacts DEF Monotone
  <2> QED BY <2>1, <2>2, <2>3 DEF SyncInv, Warping
<1>5. ASSUME NEW i \in Nat, i <= warp.last, Copied(i), warp.to \in Remotes, warp.last <= Len(log[Hub])
      PROVE  Copied(i)'
  <2>1. \A k \in 1..i : k \in DOMAIN log[Hub]
    BY <1>2, <1>3, <1>5
  <2> QED BY <1>5, <2>1, NodeFacts DEF Copied, Monotone
<1>6. WarpCopies'
  BY <1>3, <1>5 DEF SyncInv, Warping, WarpCopies
<1> QED BY <1>1, <1>4, <1>6 DEF WarpInv

LEMMA StepWarp == ASSUME SyncInv, [Next]_vars PROVE WarpInv'
<1>0. Monotone /\ log' \in [Node -> Seq(Event)] /\ TypeOK /\ Warping /\ WarpCopies /\ log[Hub] \in Seq(Event)
  BY StepMonotone, NodeFacts DEF SyncInv, TypeOK
<1>a. warp \in [pc : PC, from : Place, to : Place, next : Nat, last : Nat]
  BY <1>0 DEF TypeOK, PC
<1>b. log'[Hub] \in Seq(Event) /\ (log[Hub] # <<>> => log'[Hub] # <<>>)
  BY <1>0, NodeFacts DEF Monotone
<1>1. CASE UNCHANGED warp
  BY <1>0, <1>1, WarpStays
<1>2. ASSUME NEW to \in Place, WarpStart(to) PROVE WarpInv'
  <2>1. warp' = [pc |-> IF Attached = None THEN "copy"
                        ELSE IF Attached \in Remotes THEN "final" ELSE "cancel",
                 from |-> Attached, to |-> to, next |-> 0, last |-> 0] /\ log' = log
    BY <1>2 DEF WarpStart, Idle
  <2>2. Attached \in Place /\ log[Hub] # <<>>
    BY <1>0, <1>2, AttachedType DEF WarpStart
  <2> QED BY <2>1, <2>2 DEF WarpInv, WarpType, PC, Warping, WarpCopies
<1>3. CASE WarpCancel
  BY <1>0, <1>a, <1>3 DEF WarpCancel, WarpInv, WarpType, PC, Warping, WarpCopies
<1>4. CASE WarpFinal
  <2>1. warp.pc = "final" /\ warp.from \in Remotes /\ log' = log /\ log[Hub] # <<>>
    BY <1>0, <1>4 DEF WarpFinal, Warping
  <2>2. CASE warp' = [warp EXCEPT !.pc = "claim"]
    BY <1>0, <1>a, <2>1, <2>2 DEF WarpInv, WarpType, PC, Warping, WarpCopies
  <2>3. CASE /\ History(warp.from).next <= History(warp.from).last
             /\ warp' = [warp EXCEPT !.pc = "merge", !.next = History(warp.from).next,
                                     !.last = History(warp.from).last]
    <3>1. /\ History(warp.from).next \in Nat /\ History(warp.from).last = Len(log[warp.from])
          /\ 1 <= History(warp.from).next /\ History(warp.from).last \in Nat
      BY <1>0, <2>1, HistoryType DEF Span
    <3>2. History(warp.from).last <= Len(log'[warp.from])
      BY <2>1, <3>1
    <3> QED BY <1>0, <1>a, <2>1, <2>3, <3>1, <3>2 DEF WarpInv, WarpType, PC, Warping, WarpCopies
  <2> QED BY <1>4, <2>2, <2>3 DEF WarpFinal
<1>5. CASE WarpMerge
  <2>1. /\ warp.pc = "merge" /\ warp.from \in Remotes /\ log[Hub] # <<>>
        /\ 1 <= warp.next /\ warp.next <= warp.last /\ warp.last <= Len(log[warp.from])
    BY <1>0, <1>5 DEF WarpMerge, Warping
  <2>2. log[warp.from] \in Seq(Event) /\ log'[warp.from] \in Seq(Event)
    BY <1>0, <2>1, NodeFacts DEF TypeOK
  <2>3. warp.last <= Len(log'[warp.from])
    <3>1. Len(log[warp.from]) <= Len(log'[warp.from])
      BY <1>0, <2>1, NodeFacts DEF Monotone
    <3>2. Len(log[warp.from]) \in Nat /\ Len(log'[warp.from]) \in Nat
      BY <2>2
    <3> QED BY <1>a, <2>1, <3>1, <3>2
  <2>4. CASE warp.next < warp.last /\ warp' = [warp EXCEPT !.next = @ + 1]
    BY <1>b, <1>a, <2>1, <2>3, <2>4 DEF WarpInv, WarpType, PC, Warping, WarpCopies
  <2>5. CASE warp' = [warp EXCEPT !.pc = "claim", !.next = 0, !.last = 0]
    BY <1>b, <1>a, <2>1, <2>5 DEF WarpInv, WarpType, PC, Warping, WarpCopies
  <2> QED BY <1>5, <2>4, <2>5, IdleInv DEF WarpMerge
<1>6. CASE WarpClaim
  BY <1>0, <1>a, <1>6 DEF WarpClaim, WarpInv, WarpType, PC, Warping, WarpCopies
<1>7. CASE WarpCopy
  <2>1. log[Hub] # <<>> /\ log' = log /\ Len(log[Hub]) \in Nat /\ Len(log[Hub]) >= 1
    BY <1>0, <1>7 DEF WarpCopy, Warping
  <2>2. CASE warp.to \in Remotes
    <3>1. warp' = [warp EXCEPT !.pc = "post", !.next = 1, !.last = Len(log[Hub])]
      BY <1>7, <2>2 DEF WarpCopy
    <3>2. WarpType' /\ warp'.pc = "post" /\ warp'.next = 1 /\ warp'.last = Len(log[Hub])
          /\ warp'.to = warp.to
      BY <1>a, <2>1, <3>1 DEF WarpType, PC
    <3>3. Warping'
      BY <2>1, <2>2, <3>2 DEF Warping
    <3>4. WarpCopies'
      BY <3>2 DEF WarpCopies, Copied
    <3> QED BY <3>2, <3>3, <3>4 DEF WarpInv
  <2>3. CASE warp.to \notin Remotes
    <3>1. warp' = [warp EXCEPT !.pc = "record"]
      BY <1>7, <2>3 DEF WarpCopy
    <3>2. WarpType' /\ warp'.pc = "record" /\ warp'.last = warp.last /\ warp'.to = warp.to
      BY <1>a, <3>1 DEF WarpType, PC
    <3>3. Warping'
      BY <1>a, <2>1, <2>3, <3>2 DEF Warping
    <3>4. WarpCopies'
      BY <2>3, <3>2 DEF WarpCopies
    <3> QED BY <3>2, <3>3, <3>4 DEF WarpInv
  <2> QED BY <2>2, <2>3
<1>8. CASE WarpPost
  <2>1. /\ warp.pc = "post" /\ warp.to \in Remotes /\ log[Hub] # <<>>
        /\ 1 <= warp.next /\ warp.next <= warp.last /\ warp.last <= Len(log[Hub])
        /\ Copied(warp.next - 1)
    BY <1>0, <1>8 DEF WarpPost, Warping, WarpCopies
  <2>2. warp.next \in DOMAIN log[Hub] /\ warp.next \in Nat /\ warp.last \in Nat
    BY <1>0, <1>a, <2>1
  <2>3. CASE Replay(warp.to, warp.to, warp.next, log[Hub][warp.next])
    <3>1. /\ warp.next \in DOMAIN log'[warp.to] /\ log'[warp.to][warp.next] = log[Hub][warp.next]
          /\ log'[Hub] = log[Hub]
      BY <2>1, <2>2, <2>3, ReplayAtRemote DEF SyncInv
    <3>2. \A k \in 1..warp.next : k \in DOMAIN log'[warp.to] /\ log'[warp.to][k] = log'[Hub][k]
      <4>1. SUFFICES ASSUME NEW k \in 1..warp.next
                     PROVE  k \in DOMAIN log'[warp.to] /\ log'[warp.to][k] = log'[Hub][k]
        OBVIOUS
      <4>2. CASE k = warp.next
        BY <3>1, <4>2
      <4>3. CASE k # warp.next
        <5>1. k \in 1..(warp.next - 1)
          BY <2>2, <4>3
        <5>2. k \in DOMAIN log[warp.to] /\ log[warp.to][k] = log[Hub][k]
          BY <2>1, <5>1 DEF Copied
        <5> QED BY <1>0, <2>1, <3>1, <5>2, NodeFacts DEF Monotone
      <4> QED BY <4>2, <4>3
    <3>3. CASE warp.next < warp.last /\ warp' = [warp EXCEPT !.next = @ + 1]
      <4>1. /\ WarpType' /\ warp'.pc = "post" /\ warp'.next = warp.next + 1
            /\ warp'.last = warp.last /\ warp'.to = warp.to
        BY <1>a, <2>1, <3>3 DEF WarpType, PC
      <4>2. Warping'
        BY <1>b, <2>1, <2>2, <3>1, <3>3, <4>1 DEF Warping
      <4>3. WarpCopies'
        BY <2>2, <3>2, <4>1 DEF WarpCopies, Copied
      <4> QED BY <4>1, <4>2, <4>3 DEF WarpInv
    <3>4. CASE ~(warp.next < warp.last) /\ warp' = [warp EXCEPT !.pc = "steal"]
      <4>1. warp.next = warp.last
        BY <2>1, <2>2, <3>4
      <4> QED BY <1>b, <1>a, <2>1, <2>2, <3>1, <3>2, <3>4, <4>1
          DEF WarpInv, WarpType, PC, Warping, WarpCopies, Copied
    <3> QED BY <1>8, <2>3, <3>3, <3>4, IdleInv DEF WarpPost
  <2> QED BY <1>8, <2>3, IdleInv DEF WarpPost
<1>9. CASE WarpSteal
  <2>1. /\ warp.pc = "steal" /\ warp.to \in Remotes /\ log[Hub] # <<>> /\ warp.last <= Len(log[Hub])
        /\ Copied(warp.last) /\ warp.last \in Nat /\ warp' = [warp EXCEPT !.pc = "record"]
    BY <1>0, <1>a, <1>9 DEF WarpSteal, Warping, WarpCopies
  <2>2. Len(log[Hub]) <= Len(log'[Hub]) /\ Len(log[Hub]) \in Nat /\ Len(log'[Hub]) \in Nat
    BY <1>0, <1>b, NodeFacts DEF Monotone
  <2>3. \A k \in 1..warp.last : k \in DOMAIN log'[warp.to] /\ log'[warp.to][k] = log'[Hub][k]
    <3>1. \A k \in 1..warp.last : k \in DOMAIN log[Hub]
      BY <1>0, <2>1, <2>2
    <3> QED BY <1>0, <2>1, <3>1, NodeFacts DEF Copied, Monotone
  <2> QED BY <1>b, <1>a, <2>1, <2>2, <2>3 DEF WarpInv, WarpType, PC, Warping, WarpCopies, Copied
<1>10. CASE WarpRecord \/ WarpFails \/ HubCrash
  BY <1>10, IdleInv DEF WarpRecord, WarpFails, HubCrash
<1>11. ASSUME NEW w \in Remotes, Loop(w) \/ Disconnect(w) \/ StartSync(w) PROVE UNCHANGED warp
  BY <1>11 DEF Loop, Connect, AskHistory, ReplayHistory, Live, Disconnect, StartSync
<1>12. CASE Prompt \/ UNCHANGED vars \/ \E n \in Node : Write(n)
  BY <1>12, <1>1 DEF Prompt, vars, Write
<1>13. CASE Warp
  BY <1>13, <1>2, <1>3, <1>4, <1>5, <1>6, <1>7, <1>8, <1>9, <1>10 DEF Warp
<1> QED BY <1>1, <1>10, <1>11, <1>12, <1>13 DEF Next

-----------------------------------------------------------------------------
(* The theorems. *)

LEMMA InitInv == ASSUME Init PROVE SyncInv
<1>0. PICK n \in Node : log = [m \in Node |->
        IF m = n THEN <<[by |-> n, ws |-> IF n = Hub THEN None ELSE n]>> ELSE <<>>]
  BY SyncAssumption DEF Init, Node
<1> DEFINE e == [by |-> n, ws |-> IF n = Hub THEN None ELSE n]
<1>1. e \in Event /\ e.by = n
  BY DEF Event, Place, Node
<1>2. /\ log \in [Node -> Seq(Event)]
      /\ \A m \in Node : m # n => DOMAIN log[m] = {}
      /\ DOMAIN log[n] = {1} /\ log[n][1] = e
  BY <1>0, <1>1
<1>3. TypeOK
  BY <1>2, SyncAssumption DEF Init, TypeOK, Place, Span, NoRows, Idle
<1>4. OnePlace
  BY <1>1, <1>2 DEF OnePlace
<1>5. HubKnows
  <2>1. \A w \in Remotes : \A k \in DOMAIN log[w] : w = n /\ log[w][k] = e
    BY <1>2, NodeFacts
  <2> QED BY <1>1, <2>1 DEF HubKnows
<1>6. Loops
  <2>1. \A w \in Remotes : log[w] \in Seq(Event)
    BY <1>2, NodeFacts
  <2>2. \A w \in Remotes : 0 <= Len(log[w])
    BY <2>1
  <2> QED BY <2>2 DEF Init, Loops, NoRows
<1>7. OwnersKept /\ Warping /\ WarpCopies
  BY NodeFacts DEF Init, OwnersKept, Warping, WarpCopies, Idle
<1> QED BY <1>3, <1>4, <1>5, <1>6, <1>7 DEF SyncInv

LEMMA StepInv == ASSUME SyncInv, [Next]_vars PROVE SyncInv'
<1>1. (log' = log \/ Grows) /\ OwnersOK
  BY StepGrows
<1>2. OnePlace'
  <2>1. CASE log' = log
    BY <2>1 DEF SyncInv, OnePlace
  <2> QED BY <1>1, <2>1, GrowsOnePlace DEF SyncInv
<1>3. HubKnows'
  <2>1. CASE log' = log
    BY <2>1 DEF SyncInv, HubKnows
  <2> QED BY <1>1, <2>1, GrowsHubKnows DEF SyncInv
<1>4. TypeOK /\ TypeOK'
  BY <1>1, StepMonotone, StepBounded, StepBusy, StepLoops, StepWarp
  DEF SyncInv, TypeOK, OwnersOK, Bounded, LoopInv, LoopTypes, WarpInv, WarpType, PC
<1> QED BY <1>1, <1>2, <1>3, <1>4, StepLoops, StepWarp DEF SyncInv, OwnersOK, LoopInv, WarpInv

(* The inductive invariant: what each server holds of the others, that rows, *)
(* feeds and copies lie within the logs, and that a remote is owned by       *)
(* itself.                                                                   *)
THEOREM SyncInvariance == Spec => []SyncInv
  BY InitInv, StepInv, PTL DEF Spec

(* The state stays typed, for any sets of workspaces and any bounds. *)
THEOREM SyncTypeCorrect == Spec => []TypeOK
<1>1. SyncInv => TypeOK
  BY DEF SyncInv
<1> QED BY <1>1, SyncInvariance, PTL

(* No event ever gets a second position or a second content, whichever way   *)
(* replays, warps, failures and crashes interleave.                          *)
THEOREM EventHasOnePlace == Spec => []OnePlace
<1>1. SyncInv => OnePlace
  BY DEF SyncInv
<1> QED BY <1>1, SyncInvariance, PTL

(* A warp hands over the whole log it copied, or does not hand over. *)
THEOREM WarpHandsOverAll == Spec => []WarpIsWhole
<1>1. SyncInv => WarpIsWhole
  BY DEF SyncInv, WarpIsWhole, WarpCopies, Copied
<1> QED BY <1>1, SyncInvariance, PTL

(* The hub takes events of a remote only while that remote, or nobody, owns  *)
(* the sequence.                                                             *)
THEOREM OwnerAloneIsHeard == Spec => OnlyOwnerIsHeard
<1>1. ASSUME SyncInv, [Next]_vars
      PROVE  [\A k \in DOMAIN log'[Hub] \ DOMAIN log[Hub] :
                log'[Hub][k].by = Hub \/ owner[Hub] \in {None, log'[Hub][k].by}]_vars
  <2>1. CASE log' = log
    BY <2>1
  <2>2. CASE Grows
    BY <1>1, <2>2, GrowsByOwner DEF SyncInv
  <2> QED BY <1>1, <2>1, <2>2, StepGrows
<1> QED BY <1>1, SyncInvariance, PTL DEF Spec, OnlyOwnerIsHeard

=============================================================================

----------------------------- MODULE SessionSync -----------------------------
(* The event log of one Session on several servers: the hub a client talks    *)
(* to (control-plane/workspace.ts) and the servers of remote workspaces       *)
(* (handlers/sync.ts).  The hub sends prompts to the workspace the Session    *)
(* is attached to and follows that server's log: it reads the history when    *)
(* it connects and the live events after that, and replays both into its own  *)
(* log.  sessionWarp attaches the Session to another workspace and takes the  *)
(* log along.                                                                 *)
(*                                                                            *)
(* Logs only grow, and a server writes a position of its log once, so a       *)
(* position and its writer identify an event.                                 *)
EXTENDS Naturals, Sequences, SequencesExt

CONSTANTS Hub, Remotes,
          Homes,       \* the servers on which the Session may be created
          Locals,      \* workspaces that are directories of the hub's machine
          Project,     \* the project: owner of a Session without a workspace
          None,        \* no workspace, no owner
          Same,        \* of an event: it leaves the workspace as it is
          MaxWrites,   \* bound on the events of runs
          MaxWarps,    \* bound on the attempts to warp
          MaxFaults    \* bound on lost connections, failed calls and crashes

ASSUME SyncAssumption ==
  /\ MaxWrites \in Nat /\ MaxWarps \in Nat /\ MaxFaults \in Nat
  /\ Hub \notin Remotes /\ Homes \subseteq {Hub} \cup Remotes /\ Remotes \cap Locals = {}
  /\ None \notin Remotes \cup Locals \cup {Project, Same}
  /\ {Project, Same} \cap (Remotes \cup Locals) = {}

Node  == {Hub} \cup Remotes
Place == {None} \cup Remotes \cup Locals

VARIABLES
  log,      \* per server: the events of the Session, each with its writer and
            \* the workspace it records
  owner,    \* per server: event_sequence.owner_id
  busy,     \* per server: a run of the Session goes on there
  link,     \* per remote: where the hub's sync loop is
  rows,     \* per remote: the positions of the history it has yet to replay
  feed,     \* per remote: the positions sent on the open stream
  warp,     \* the warp in progress
  writes, warps, faults

loop == <<link, rows, feed>>
vars == <<log, owner, busy, loop, warp, writes, warps, faults>>

Event == [by : Node, ws : Place \cup {Same}]
NoRows == [next |-> 0, last |-> 0]
Span  == [next : Nat, last : Nat]
Idle  == [pc |-> "idle", from |-> None, to |-> None, next |-> 0, last |-> 0]

TypeOK ==
  /\ log \in [Node -> Seq(Event)] /\ owner \in [Node -> Place \cup {Project}]
  /\ busy \in [Node -> BOOLEAN]
  /\ link \in [Remotes -> {"off", "down", "error", "open", "history", "live"}]
  /\ rows \in [Remotes -> Span] /\ feed \in [Remotes -> Seq(Nat)]
  /\ warp \in [pc : {"idle", "cancel", "final", "merge", "claim",
                     "copy", "post", "steal", "record"},
               from : Place, to : Place, next : Nat, last : Nat]
  /\ writes \in 0..MaxWrites /\ warps \in 0..MaxWarps /\ faults \in 0..MaxFaults

(* The workspace a log attaches the Session to: the last one it records. *)
Latest(l) == {i \in DOMAIN l : l[i].ws # Same /\ \A j \in DOMAIN l : l[j].ws # Same => j <= i}
AttachedBy(l) == IF Latest(l) = {} THEN None ELSE l[CHOOSE i \in Latest(l) : TRUE].ws
Attached == AttachedBy(log[Hub])

(* The Session is created on the hub or, through it, in a remote workspace. *)
Init ==
  /\ \E n \in Homes :
       log = [m \in Node |-> IF m = n THEN <<[by |-> n, ws |-> IF n = Hub THEN None ELSE n]>>
                                      ELSE <<>>]
  /\ owner = [n \in Node |-> None] /\ busy = [n \in Node |-> FALSE]
  /\ link = [w \in Remotes |-> "down"] /\ feed = [w \in Remotes |-> <<>>]
  /\ rows = [w \in Remotes |-> NoRows]
  /\ warp = Idle /\ writes = 0 /\ warps = 0 /\ faults = 0

-----------------------------------------------------------------------------
(* Replay of event e at position k in the log of n, on behalf of workspace w *)
(* (event.ts commitDurableEvent).                                            *)

MutForeignNever(n, w, k) == FALSE
MutExtendsAnywhere(n, w, k) == k > Len(log[n]) /\ owner[n] \in {None, w}

Stored(n, k, e)  == k <= Len(log[n]) /\ log[n][k] = e
Foreign(n, w, k) == k > Len(log[n]) /\ owner[n] \notin {None, w}
Extends(n, w, k) == k = Len(log[n]) + 1 /\ ~Foreign(n, w, k)

(* Another event has that position, or a position before it is empty. *)
Dies(n, w, k, e) == ~Stored(n, k, e) /\ ~Foreign(n, w, k) /\ ~Extends(n, w, k)

(* What is stored already, or belongs to another owner, changes no log.  A   *)
(* remote is owned by itself or not at all, so strictOwner refuses nothing.  *)
Replay(n, w, k, e) ==
  /\ ~Dies(n, w, k, e)
  /\ log' = IF Extends(n, w, k) THEN [log EXCEPT ![n] = Append(@, e)] ELSE log
  /\ owner' = IF owner[n] = None THEN [owner EXCEPT ![n] = w] ELSE owner

(* From the connection on, so while the history is read too. *)
MutListeningAfterHistory(w) == link[w] = "live"
Listening(w) == link[w] \in {"open", "history", "live"}

(* A server publishes an event of its own: whoever listens is sent it. *)
Publish(n, place) ==
  /\ log' = [log EXCEPT ![n] = Append(@, [by |-> n, ws |-> place])]
  /\ feed' = [w \in Remotes |-> IF w = n /\ Listening(w) THEN Append(feed[w], Len(log[n]) + 1)
                                                         ELSE feed[w]]

Fault == faults < MaxFaults /\ faults' = faults + 1

-----------------------------------------------------------------------------
(* Runs of the Session.                                                      *)

(* The hub runs a prompt itself or passes it to the attached workspace, if   *)
(* its loop for that workspace goes on and has not failed last.              *)
Prompt ==
  /\ log[Hub] # <<>>
  /\ \/ Attached \notin Remotes /\ busy' = [busy EXCEPT ![Hub] = TRUE]
     \/ /\ Attached \in Remotes /\ link[Attached] \notin {"off", "error"}
        /\ busy' = [busy EXCEPT ![Attached] = TRUE]
  /\ UNCHANGED <<log, owner, loop, warp, writes, warps, faults>>

(* An event of a run.  A run goes on as long as it likes. *)
Write(n) ==
  /\ busy[n] /\ writes < MaxWrites /\ writes' = writes + 1
  /\ Publish(n, Same)
  /\ UNCHANGED <<owner, busy, link, rows, warp, warps, faults>>

-----------------------------------------------------------------------------
(* The sync loop of the hub for workspace w.                                 *)

(* What the history of w holds beyond what the hub says it has: it says so   *)
(* of the Sessions it believes attached to w and gets all of the others.     *)
History(w) == [next |-> IF Attached = w THEN Len(log[Hub]) + 1 ELSE 1, last |-> Len(log[w])]

(* connectSSE: from here on the events of w are sent to the hub. *)
Connect(w) ==
  /\ link[w] \in {"down", "error"}
  /\ link' = [link EXCEPT ![w] = "open"]
  /\ UNCHANGED <<log, owner, busy, rows, feed, warp, writes, warps, faults>>

AskHistory(w) ==
  /\ link[w] = "open"
  /\ LET rest == History(w)
     IN  IF rest.next <= rest.last
         THEN rows' = [rows EXCEPT ![w] = rest] /\ link' = [link EXCEPT ![w] = "history"]
         ELSE link' = [link EXCEPT ![w] = "live"] /\ UNCHANGED rows
  /\ UNCHANGED <<log, owner, busy, feed, warp, writes, warps, faults>>

(* A replay that dies is a defect, which the loop does not catch.  After the *)
(* last row the loop turns to the stream.                                    *)
ReplayHistory(w) ==
  /\ link[w] = "history"
  /\ LET k == rows[w].next
         e == log[w][k]
     IN  \/ /\ Replay(Hub, w, k, e) /\ k < rows[w].last
            /\ rows' = [rows EXCEPT ![w].next = @ + 1]
            /\ UNCHANGED <<link, feed>>
         \/ /\ Replay(Hub, w, k, e) /\ k = rows[w].last
            /\ rows' = [rows EXCEPT ![w] = NoRows] /\ link' = [link EXCEPT ![w] = "live"]
            /\ UNCHANGED feed
         \/ /\ Dies(Hub, w, k, e)
            /\ rows' = [rows EXCEPT ![w] = NoRows] /\ link' = [link EXCEPT ![w] = "off"]
            /\ feed' = [feed EXCEPT ![w] = <<>>]
            /\ UNCHANGED <<log, owner>>
  /\ UNCHANGED <<busy, warp, writes, warps, faults>>

(* A live event whose replay dies is logged and dropped. *)
Live(w) ==
  /\ link[w] = "live" /\ feed[w] # <<>>
  /\ LET k == Head(feed[w])
         e == log[w][k]
     IN  \/ Replay(Hub, w, k, e)
         \/ Dies(Hub, w, k, e) /\ UNCHANGED <<log, owner>>
  /\ feed' = [feed EXCEPT ![w] = Tail(@)]
  /\ UNCHANGED <<busy, link, rows, warp, writes, warps, faults>>

(* The history fails or the stream ends; the loop backs off and reconnects. *)
Disconnect(w) ==
  /\ link[w] \in {"open", "live"} /\ Fault
  /\ link' = [link EXCEPT ![w] = IF @ = "open" THEN "error" ELSE "down"]
  /\ feed' = [feed EXCEPT ![w] = <<>>]
  /\ UNCHANGED <<log, owner, busy, rows, warp, writes, warps>>

(* startSync, which a client's sync/start calls, replaces a loop that is gone *)
(* or failed.                                                                *)
StartSync(w) ==
  /\ link[w] \in {"off", "error"}
  /\ link' = [link EXCEPT ![w] = "down"]
  /\ UNCHANGED <<log, owner, busy, rows, feed, warp, writes, warps, faults>>

-----------------------------------------------------------------------------
(* sessionWarp.                                                              *)

WarpOnly == UNCHANGED <<busy, loop, writes, warps, faults>>

WarpStart(to) ==
  /\ warp.pc = "idle" /\ warps < MaxWarps /\ log[Hub] # <<>>
  /\ warp' = [Idle EXCEPT !.from = Attached, !.to = to,
                          !.pc = IF Attached = None THEN "copy"
                                 ELSE IF Attached \in Remotes THEN "final" ELSE "cancel"]
  /\ warps' = warps + 1
  /\ UNCHANGED <<log, owner, busy, loop, writes, faults>>

(* prompt.cancel, for a Session of a local workspace. *)
WarpCancel ==
  /\ warp.pc = "cancel"
  /\ busy' = [busy EXCEPT ![Hub] = FALSE]
  /\ warp' = [warp EXCEPT !.pc = "claim"]
  /\ UNCHANGED <<log, owner, loop, writes, warps, faults>>

(* The final history of the previous workspace, if that is a remote one.     *)
(* Without an answer the warp goes on.                                      *)
WarpFinal ==
  /\ warp.pc = "final"
  /\ \/ /\ LET rest == History(warp.from)
           IN  warp' = IF rest.next <= rest.last
                       THEN [warp EXCEPT !.pc = "merge", !.next = rest.next, !.last = rest.last]
                       ELSE [warp EXCEPT !.pc = "claim"]
        /\ UNCHANGED faults
     \/ Fault /\ warp' = [warp EXCEPT !.pc = "claim"]
  /\ UNCHANGED <<log, owner, busy, loop, writes, warps>>

(* A replay that dies here ends the warp before it has changed anything. *)
WarpMerge ==
  /\ warp.pc = "merge"
  /\ LET k == warp.next
         e == log[warp.from][k]
     IN  \/ /\ Replay(Hub, warp.from, k, e)
            /\ warp' = IF k < warp.last THEN [warp EXCEPT !.next = @ + 1]
                                        ELSE [warp EXCEPT !.pc = "claim", !.next = 0, !.last = 0]
         \/ Dies(Hub, warp.from, k, e) /\ warp' = Idle /\ UNCHANGED <<log, owner>>
  /\ WarpOnly

WarpClaim ==
  /\ warp.pc = "claim"
  /\ owner' = [owner EXCEPT ![Hub] = IF warp.to = None THEN Project ELSE warp.to]
  /\ warp' = [warp EXCEPT !.pc = "copy", !.next = 0, !.last = 0]
  /\ UNCHANGED log /\ WarpOnly

(* The rows of the log as it is now, for a remote target only. *)
WarpCopy ==
  /\ warp.pc = "copy"
  /\ warp' = IF warp.to \in Remotes
             THEN [warp EXCEPT !.pc = "post", !.next = 1, !.last = Len(log[Hub])]
             ELSE [warp EXCEPT !.pc = "record"]
  /\ UNCHANGED <<log, owner>> /\ WarpOnly

(* sync/replay on the target: one event after the other, of one request or   *)
(* of the next.  It tells its listeners nothing.  A replay that dies is      *)
(* answered with an error, which ends the warp after its claim.              *)
MutWarpPostSkips ==
  /\ warp.pc = "post"
  /\ LET k == warp.next
         e == log[Hub][k]
     IN  /\ \/ Replay(warp.to, warp.to, k, e)
            \/ Dies(warp.to, warp.to, k, e) /\ UNCHANGED <<log, owner>>
         /\ warp' = IF k < warp.last THEN [warp EXCEPT !.next = @ + 1]
                                     ELSE [warp EXCEPT !.pc = "steal"]
  /\ WarpOnly

WarpPost ==
  /\ warp.pc = "post"
  /\ LET k == warp.next
         e == log[Hub][k]
     IN  \/ /\ Replay(warp.to, warp.to, k, e)
            /\ warp' = IF k < warp.last THEN [warp EXCEPT !.next = @ + 1]
                                        ELSE [warp EXCEPT !.pc = "steal"]
         \/ /\ Dies(warp.to, warp.to, k, e)
            /\ warp' = Idle /\ UNCHANGED <<log, owner>>
  /\ UNCHANGED <<busy, loop, writes, warps, faults>>

(* sync/steal: the target records itself as the workspace. *)
WarpSteal ==
  /\ warp.pc = "steal"
  /\ Publish(warp.to, warp.to)
  /\ warp' = [warp EXCEPT !.pc = "record"]
  /\ UNCHANGED <<owner, busy, link, rows, writes, warps, faults>>

(* setWorkspace on the hub, whatever came in from the target meanwhile. *)
WarpRecord ==
  /\ warp.pc = "record"
  /\ Publish(Hub, warp.to)
  /\ warp' = Idle
  /\ UNCHANGED <<owner, busy, link, rows, writes, warps, faults>>

(* A call to the target fails, with or without having been served. *)
WarpFails ==
  /\ warp.pc \in {"copy", "post", "steal", "record"} /\ warp.to \in Remotes
  /\ Fault
  /\ warp' = Idle
  /\ UNCHANGED <<log, owner, busy, loop, writes, warps>>

-----------------------------------------------------------------------------
(* The hub dies and starts again: it keeps its tables, not its loops. *)
HubCrash ==
  /\ Fault
  /\ link' = [w \in Remotes |-> "off"] /\ feed' = [w \in Remotes |-> <<>>]
  /\ rows' = [w \in Remotes |-> NoRows]
  /\ busy' = [busy EXCEPT ![Hub] = FALSE]
  /\ warp' = Idle
  /\ UNCHANGED <<log, owner, writes, warps>>

Loop(w) == Connect(w) \/ AskHistory(w) \/ ReplayHistory(w) \/ Live(w)

Warp ==
  \/ \E to \in Place : WarpStart(to)
  \/ WarpCancel \/ WarpFinal \/ WarpMerge \/ WarpClaim \/ WarpCopy \/ WarpPost
  \/ WarpSteal \/ WarpRecord \/ WarpFails

Next ==
  \/ Prompt
  \/ \E n \in Node : Write(n)
  \/ \E w \in Remotes : Loop(w) \/ Disconnect(w) \/ StartSync(w)
  \/ Warp
  \/ HubCrash

Spec == Init /\ [][Next]_vars

(* The loop of a workspace goes on: it reconnects, and a server answers. *)
FairSpec == Spec /\ \A w \in Remotes : WF_vars(Loop(w))

-----------------------------------------------------------------------------
(* Properties.                                                               *)

(* Position and content of an event are the same wherever it is: whatever a  *)
(* log holds of another server, that server's own log holds there too.       *)
(* (event.ts commitDurableEvent: a replay extends the log or finds itself.)  *)
OnePlace ==
  \A n, m \in Node : \A k \in DOMAIN log[n] :
    log[n][k].by = m => k \in DOMAIN log[m] /\ log[m][k] = log[n][k]

(* An event of another server enters the hub's log only while that server    *)
(* owns the sequence or nobody does: after the claim of a warp (workspace.ts *)
(* 596) what the previous workspace still sends changes nothing.             *)
OnlyOwnerIsHeard ==
  [][\A k \in DOMAIN log'[Hub] \ DOMAIN log[Hub] :
       log'[Hub][k].by = Hub \/ owner[Hub] \in {None, log'[Hub][k].by}]_vars

(* When the target takes the Session over, its log starts with everything    *)
(* the hub's log held when it was copied.                                    *)
WarpIsWhole ==
  warp.pc \in {"steal", "record"} /\ warp.to \in Remotes =>
    \A k \in 1..warp.last : k \in DOMAIN log[warp.to] /\ log[warp.to][k] = log[Hub][k]

(* The hub lacks events of the workspace the Session is attached to, and     *)
(* would take them.                                                          *)
Behind(w) ==
  /\ Attached = w /\ owner[Hub] \in {None, w}
  /\ IsStrictPrefix(log[Hub], log[w])

(* A hub that has to connect, whatever it missed and whatever is written     *)
(* while it reads the history, gets everything (connectSSE before            *)
(* syncHistory in syncWorkspaceLoop), unless the loop is gone.               *)
CatchesUp ==
  \A w \in Remotes :
    Behind(w) /\ link[w] \in {"down", "error", "open"} ~> ~Behind(w) \/ link[w] = "off"

=============================================================================

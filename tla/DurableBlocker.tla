--------------------------- MODULE DurableBlocker ---------------------------
(* Requests of tools that wait for the user: permission.ts, and question.ts,  *)
(* whose reply and reject are the verdicts "once" and "reject" without a      *)
(* cascade; and what else happens to their Session meanwhile: a move, which    *)
(* they block, and an update, an import or a deletion, which they do not.       *)
(*                                                                            *)
(* A request is a row of the database, an entry in the pending map of the     *)
(* service of its location, and the deferred its tool waits for.  Whoever     *)
(* deletes the row settles the request; the rest follows in later steps.      *)
(* A service that is built again takes its pending entries from the rows.     *)
(* All requests are for one action on one resource, so a saved rule covers    *)
(* them all.                                                                  *)
EXTENDS Naturals, FiniteSets

CONSTANTS Requests, Sessions, Services, Locations, Clients, None,
          Editors,    \* the callers of the patch of a Session
          Of,         \* the Session of a request
          At,         \* the location of a service
          Created,    \* where each Session is at first
          MaxUpsets   \* bound on the closes and crashes of services and on the
                      \* attempts to move, patch, import or delete a Session

ASSUME BlockerAssumption ==
  /\ Of \in [Requests -> Sessions] /\ At \in [Services -> Locations]
  /\ Created \in [Sessions -> Locations]
  /\ MaxUpsets \in Nat
  /\ None \notin Requests \cup Services \cup Sessions \cup Locations \cup {"once", "always", "reject"}

VARIABLES
  home,      \* the location of each Session, None once it is deleted
  rows,      \* the requests that have a row
  saved,     \* an always reply has added its rule
  won,       \* the verdict of the reply that deleted the row
  astray,    \* requests that were pending when an update or an import took their
             \* Session elsewhere, or a deletion took it away
  up, pend,  \* per service: it is built; the entries of its pending map
  where,     \* the service a tool asked
  tool,      \* where the fiber of the tool is
  answer,    \* its deferred
  told,      \* the Replied event of the request
  cpc, op, rest, \* a reply: its step, what it was called with, what it has yet to sweep
  mover,     \* the Session somebody found free of requests and is about to move
  edit,      \* per caller of patch: the Session it has read, and the location it will write
  upsets

durable == <<home, rows, saved>>
past    == <<won, astray>>
changes == <<mover, edit>>
service == <<up, pend>>
asking  == <<where, tool, answer>>
replying == <<cpc, op, rest>>
vars == <<durable, past, service, asking, told, replying, changes, upsets>>

Verdict == {"once", "always", "reject"}
Yes     == {"once", "always"}
Place   == {"new", "asked", "inserted", "entered", "withdrawn", "waiting", "allowed", "stopped", "over"}
Op      == [req : Requests, verdict : Verdict, at : Services]
NoOp    == [req |-> None, verdict |-> "once", at |-> None]
Edit    == [of : Sessions, to : Locations]
NoEdit  == [of |-> None, to |-> None]

TypeOK ==
  /\ home \in [Sessions -> Locations \cup {None}] /\ rows \subseteq Requests /\ saved \in BOOLEAN
  /\ won \in [Requests -> Verdict \cup {None}] /\ astray \subseteq Requests
  /\ up \in [Services -> BOOLEAN] /\ pend \in [Services -> SUBSET Requests]
  /\ where \in [Requests -> Services \cup {None}] /\ tool \in [Requests -> Place]
  /\ answer \in [Requests -> {"none", "yes", "no"}]
  /\ told \in [Requests -> {"none", "yes", "no"}]
  /\ cpc \in [Clients -> {"idle", "claim", "settle", "tell", "sweep", "answer"}]
  /\ op \in [Clients -> Op \cup {NoOp}] /\ \A c \in Clients : cpc[c] # "idle" => op[c] \in Op
  /\ rest \in [Clients -> SUBSET Requests]
  /\ mover \in Sessions \cup {None} /\ edit \in [Editors -> Edit \cup {NoEdit}]
  /\ upsets \in 0..MaxUpsets

Init ==
  /\ home = Created /\ rows = {} /\ saved = FALSE
  /\ won = [r \in Requests |-> None] /\ astray = {}
  /\ up = [s \in Services |-> TRUE] /\ pend = [s \in Services |-> {}]
  /\ where = [r \in Requests |-> None] /\ tool = [r \in Requests |-> "new"]
  /\ answer = [r \in Requests |-> "none"] /\ told = [r \in Requests |-> "none"]
  /\ cpc = [c \in Clients |-> "idle"] /\ op = [c \in Clients |-> NoOp]
  /\ rest = [c \in Clients |-> {}]
  /\ mover = None /\ edit = [e \in Editors |-> NoEdit] /\ upsets = 0

Becomes(r, p) == tool' = [tool EXCEPT ![r] = p]
Upset         == upsets < MaxUpsets /\ upsets' = upsets + 1
Lives(r, s)   == home[Of[r]] = At[s]
Enter(s, r)   == pend' = [pend EXCEPT ![s] = @ \cup {r}]
Leave(s, r)   == pend' = [pend EXCEPT ![s] = @ \ {r}]

-----------------------------------------------------------------------------
(* A tool asks: assert and create.                                          *)

ToolOnly == UNCHANGED <<home, saved, past, up, told, replying, changes, upsets>>

(* evaluateInput: without the Session it fails, a saved rule allows. *)
Ask(r, s) ==
  /\ tool[r] = "new" /\ up[s] /\ ToolOnly /\ UNCHANGED <<rows, pend, answer>>
  /\ where' = [where EXCEPT ![r] = s]
  /\ Becomes(r, IF ~Lives(r, s) THEN "over" ELSE IF saved THEN "allowed" ELSE "asked")

(* The transaction admits the request only where its Session lives by then. *)
Insert(r) ==
  /\ tool[r] = "asked" /\ ToolOnly /\ UNCHANGED <<pend, where, answer>>
  /\ IF Lives(r, where[r])
     THEN rows' = rows \cup {r} /\ Becomes(r, "inserted")
     ELSE Becomes(r, "over") /\ UNCHANGED rows

Register(r) ==
  /\ tool[r] = "inserted" /\ ToolOnly /\ UNCHANGED <<rows, where, answer>>
  /\ Enter(where[r], r) /\ Becomes(r, "entered")

(* The Asked event is out: assert waits, ask returns; or it fails and the    *)
(* request is withdrawn.                                                      *)
Announce(r) ==
  /\ tool[r] = "entered" /\ ToolOnly /\ UNCHANGED <<rows, where, answer>>
  /\ \/ (Becomes(r, "waiting") \/ Becomes(r, "over")) /\ UNCHANGED pend
     \/ Becomes(r, "withdrawn") /\ Leave(where[r], r)

Withdraw(r) ==
  /\ tool[r] = "withdrawn" /\ ToolOnly /\ UNCHANGED <<pend, where, answer>>
  /\ rows' = rows \ {r} /\ Becomes(r, "over")

(* The deferred is done. *)
Resume(r) ==
  /\ tool[r] = "waiting" /\ answer[r] # "none" /\ ToolOnly /\ UNCHANGED <<rows, where>>
  /\ Becomes(r, IF answer[r] = "yes" THEN "allowed" ELSE "over")
  /\ answer' = [answer EXCEPT ![r] = "none"]
  /\ Leave(where[r], r)

(* The drain of the tool is interrupted; only the entry goes. *)
Interrupt(r) ==
  /\ tool[r] = "waiting" /\ ToolOnly /\ UNCHANGED <<rows, where>>
  /\ Becomes(r, IF r \in rows THEN "stopped" ELSE "over") /\ Leave(where[r], r)
  /\ answer' = [answer EXCEPT ![r] = "none"]

-----------------------------------------------------------------------------
(* A reply.                                                                 *)

ReplyOnly == UNCHANGED <<home, astray, up, where, tool, changes, upsets>>
Step(c, l) == cpc' = [cpc EXCEPT ![c] = l]
Done(c) ==
  /\ Step(c, "idle") /\ op' = [op EXCEPT ![c] = NoOp] /\ rest' = [rest EXCEPT ![c] = {}]

(* Settling a request somebody waits for; Deferred.succeed and fail do       *)
(* nothing to a deferred that is done, or that nobody holds.                  *)
Settle(s, r, yes) ==
  /\ Leave(s, r)
  /\ answer' = IF where[r] = s /\ tool[r] \in {"entered", "waiting"} /\ answer[r] = "none"
               THEN [answer EXCEPT ![r] = IF yes THEN "yes" ELSE "no"] ELSE answer
Tell(r, yes) == told' = [told EXCEPT ![r] = IF yes THEN "yes" ELSE "no"]
Claims(r, v) == r \in rows /\ rows' = rows \ {r} /\ won' = [won EXCEPT ![r] = v]

(* The entry is found here and used throughout. *)
Reply(c, s, r, v) ==
  /\ cpc[c] = "idle" /\ up[s] /\ r \in pend[s]
  /\ Step(c, "claim") /\ op' = [op EXCEPT ![c] = [req |-> r, verdict |-> v, at |-> s]]
  /\ ReplyOnly /\ UNCHANGED <<rows, saved, won, pend, answer, told, rest>>

MutClaimWithoutRow(c) ==
  LET r == op[c].req  v == op[c].verdict IN
  /\ cpc[c] = "claim" /\ ReplyOnly /\ UNCHANGED <<pend, answer, told>>
  /\ rows' = rows \ {r} /\ won' = [won EXCEPT ![r] = v]
  /\ saved' = (saved \/ v = "always") /\ Step(c, "settle") /\ UNCHANGED <<op, rest>>

(* The row is deleted, and the rule of an always reply added in the same     *)
(* transaction; who finds no row has lost.  An always reply may also fail     *)
(* for the project or the transaction.                                        *)
Claim(c) ==
  LET r == op[c].req  v == op[c].verdict IN
  /\ cpc[c] = "claim" /\ ReplyOnly /\ UNCHANGED <<pend, answer, told>>
  /\ \/ Claims(r, v) /\ saved' = (saved \/ v = "always") /\ Step(c, "settle") /\ UNCHANGED <<op, rest>>
     \/ (r \notin rows \/ v = "always") /\ Done(c) /\ UNCHANGED <<rows, saved, won>>

SettleOwn(c) ==
  /\ cpc[c] = "settle" /\ ReplyOnly /\ UNCHANGED <<rows, saved, won, told, op, rest>>
  /\ Settle(op[c].at, op[c].req, op[c].verdict \in Yes) /\ Step(c, "tell")

(* The Replied event, and then the snapshot of what a reject or an always     *)
(* sweeps along: the other requests of the Session, or all.                   *)
TellOwn(c) ==
  LET o == op[c] IN
  /\ cpc[c] = "tell" /\ ReplyOnly /\ UNCHANGED <<rows, saved, won, pend, answer>>
  /\ Tell(o.req, o.verdict \in Yes)
  /\ IF o.verdict = "once" THEN Done(c)
     ELSE /\ Step(c, "sweep") /\ UNCHANGED op
          /\ rest' = [rest EXCEPT ![c] =
                        {r \in pend[o.at] : o.verdict = "reject" => Of[r] = Of[o.req]}]

(* The next of them: an always passes over those of Sessions that have left.  *)
Sweep(c) ==
  LET o == op[c] IN
  /\ cpc[c] = "sweep" /\ ReplyOnly /\ UNCHANGED <<saved, pend, answer, told>>
  /\ \/ rest[c] = {} /\ Done(c) /\ UNCHANGED <<rows, won>>
     \/ \E r \in rest[c] :
          LET mine == o.verdict = "reject" \/ Lives(r, o.at) IN
          /\ rest' = [rest EXCEPT ![c] = @ \ {r}]
          /\ \/ /\ mine /\ Claims(r, o.verdict)
                /\ Step(c, "answer") /\ op' = [op EXCEPT ![c].req = r]
             \/ (~mine \/ r \notin rows) /\ UNCHANGED <<rows, won, cpc, op>>

SweepAnswer(c) ==
  LET o == op[c] IN
  /\ cpc[c] = "answer" /\ ReplyOnly /\ UNCHANGED <<rows, saved, won, op, rest>>
  /\ Settle(o.at, o.req, o.verdict \in Yes) /\ Tell(o.req, o.verdict \in Yes)
  /\ Step(c, "sweep")

-----------------------------------------------------------------------------
(* What becomes of a Session.                                               *)

Open(x) == {r \in rows : Of[r] = x}
Blocked(x) == Open(x) # {}
Exists(x)  == home[x] # None

SessionOnly == UNCHANGED <<saved, won, service, asking, told, replying>>

MoveCheck(x) ==
  /\ mover = None /\ Exists(x) /\ ~Blocked(x) /\ Upset
  /\ mover' = x
  /\ SessionOnly /\ UNCHANGED <<home, rows, astray, edit>>

MutMoveUnchecked ==
  /\ mover # None /\ mover' = None
  /\ \E l \in Locations \ {home[mover]} : home' = [home EXCEPT ![mover] = l]
  /\ SessionOnly /\ UNCHANGED <<rows, astray, edit, upsets>>

(* The Moved event; its commit and its projector look once more. *)
MoveCommit ==
  /\ mover # None /\ mover' = None
  /\ \/ (Blocked(mover) \/ ~Exists(mover)) /\ UNCHANGED home
     \/ /\ ~Blocked(mover) /\ Exists(mover)
        /\ \E l \in Locations \ {home[mover]} : home' = [home EXCEPT ![mover] = l]
  /\ SessionOnly /\ UNCHANGED <<rows, astray, edit, upsets>>

(* Nobody looks at the requests here. *)
Rehome(x, l) ==
  /\ home' = [home EXCEPT ![x] = l]
  /\ astray' = IF l = home[x] THEN astray ELSE astray \cup Open(x)

(* Every setter of a Session is a patch: it reads all of it, and with it where *)
(* it lives; only setWorkspace means to change that.                            *)
Patch(e, x) ==
  /\ edit[e] = NoEdit /\ Exists(x) /\ Upset
  /\ \E l \in Locations : edit' = [edit EXCEPT ![e] = [of |-> x, to |-> l]]
  /\ SessionOnly /\ UNCHANGED <<home, rows, astray, mover>>

(* The Updated event writes all of what was read, where the Session lived then *)
(* included.                                                                    *)
Updated(e) ==
  LET p == edit[e] IN
  /\ p # NoEdit /\ edit' = [edit EXCEPT ![e] = NoEdit]
  /\ IF Exists(p.of) THEN Rehome(p.of, p.to) ELSE UNCHANGED <<home, astray>>
  /\ SessionOnly /\ UNCHANGED <<rows, mover, upsets>>

(* The import of a Session writes its directory, new or not. *)
Import(x) ==
  /\ Upset /\ \E l \in Locations : Rehome(x, l)
  /\ SessionOnly /\ UNCHANGED <<rows, changes>>

(* The row of the Session goes, and with it, by cascade, those of its requests. *)
Delete(x) ==
  /\ Exists(x) /\ Upset
  /\ home' = [home EXCEPT ![x] = None]
  /\ rows' = rows \ Open(x) /\ astray' = astray \cup Open(x)
  /\ SessionOnly /\ UNCHANGED changes

-----------------------------------------------------------------------------
(* The life of a service.                                                   *)

MutBootKeepsNothing(s) ==
  /\ ~up[s] /\ up' = [up EXCEPT ![s] = TRUE] /\ UNCHANGED pend
  /\ UNCHANGED <<durable, past, asking, told, replying, changes, upsets>>

(* The pending map is filled with the rows of the Sessions that live here. *)
Boot(s) ==
  /\ ~up[s] /\ up' = [up EXCEPT ![s] = TRUE]
  /\ pend' = [pend EXCEPT ![s] = {r \in rows : Lives(r, s)}]
  /\ UNCHANGED <<durable, past, asking, told, replying, changes, upsets>>

Gone(s) ==
  /\ up[s] /\ up' = [up EXCEPT ![s] = FALSE] /\ pend' = [pend EXCEPT ![s] = {}]
  /\ Upset
  /\ UNCHANGED <<durable, past, told, where, changes>>

(* The finalizer declines what is pending, and the rows stay; what a tool does *)
(* then no longer touches the map.  Callers and asking tools hold the location *)
(* open.                                                                       *)
Close(s) ==
  /\ \A c \in Clients : op[c].at # s
  /\ \A r \in Requests : where[r] = s => tool[r] \notin {"asked", "inserted", "entered", "withdrawn"}
  /\ Gone(s)
  /\ tool' = [r \in Requests |-> IF where[r] # s \/ tool[r] # "waiting" THEN tool[r]
                                 ELSE IF answer[r] = "yes" THEN "allowed" ELSE "over"]
  /\ answer' = [r \in Requests |-> IF where[r] = s THEN "none" ELSE answer[r]]
  /\ UNCHANGED replying

(* The process dies with its tools and with the replies it was working on. *)
Crash(s) ==
  /\ Gone(s)
  /\ tool' = [r \in Requests |->
                IF where[r] = s /\ tool[r] \in {"asked", "inserted", "entered", "withdrawn", "waiting"}
                THEN "over" ELSE tool[r]]
  /\ answer' = [r \in Requests |-> IF where[r] = s THEN "none" ELSE answer[r]]
  /\ cpc' = [c \in Clients |-> IF op[c].at = s THEN "idle" ELSE cpc[c]]
  /\ rest' = [c \in Clients |-> IF op[c].at = s THEN {} ELSE rest[c]]
  /\ op' = [c \in Clients |-> IF op[c].at = s THEN NoOp ELSE op[c]]

-----------------------------------------------------------------------------
ToolStep(r) == Insert(r) \/ Register(r) \/ Announce(r) \/ Withdraw(r) \/ Resume(r)
ReplyStep(c) == Claim(c) \/ SettleOwn(c) \/ TellOwn(c) \/ Sweep(c) \/ SweepAnswer(c)

Next ==
  \/ \E r \in Requests : ToolStep(r) \/ Interrupt(r) \/ \E s \in Services : Ask(r, s)
  \/ \E c \in Clients : ReplyStep(c)
  \/ \E c \in Clients, s \in Services, r \in Requests, v \in Verdict : Reply(c, s, r, v)
  \/ \E x \in Sessions : MoveCheck(x) \/ Import(x) \/ Delete(x)
  \/ \E e \in Editors : Updated(e) \/ \E x \in Sessions : Patch(e, x)
  \/ MoveCommit
  \/ \E s \in Services : Boot(s) \/ Close(s) \/ Crash(s)

Spec == Init /\ [][Next]_vars

-----------------------------------------------------------------------------
(* A pending request belongs to a Session that lives where it was asked: a    *)
(* move never takes a Session away from the service that can answer it         *)
(* (permission.ts:327, move-session.ts:143, projector.ts:262).  An update and   *)
(* an import do (projector.ts:238, import.ts:189), and what was pending then is  *)
(* excepted from here on, by name: nothing else is.                               *)
RowsAtHome == \A r \in rows \ astray : Lives(r, where[r])

(* The claim decides: a tool goes ahead, and an event says so, only with the  *)
(* verdict of the one reply that deleted the row, and a rule is saved by the  *)
(* winner only (permission.ts:424-451).                                        *)
OneVerdict ==
  /\ \A r \in Requests :
       /\ won[r] # None => r \notin rows
       /\ answer[r] = "yes" => won[r] \in Yes
       /\ tool[r] = "allowed" => won[r] \in Yes \/ saved
       /\ told[r] = "yes" => won[r] \in Yes
       /\ told[r] = "no" => won[r] = "reject"
  /\ saved => \E r \in Requests : won[r] = "always"

(* "settles exactly once": no reply decides what was decided, before or        *)
(* after a restart (durable-blocker.test.ts:179, 583).                         *)
VerdictIsFinal == [][\A r \in Requests : won[r] # None => won'[r] = won[r]]_vars

Listed ==
  \A r \in rows \ astray :
    up[where[r]] /\ tool[r] \notin {"inserted", "withdrawn", "stopped"} => r \in pend[where[r]]

Decided(r) ==
  answer[r] # "none" \/ \E c \in Clients : op[c].req = r /\ cpc[c] \in {"settle", "answer"}

(* No request is forgotten.  What has a row can be answered where it was        *)
(* asked: the pending map of a service that is up lists it, after a restart      *)
(* too.  (The request of a tool that was interrupted is the exception, and one   *)
(* being withdrawn: its entry goes at once, its row stays.)  What has none was    *)
(* decided: the answer is with the tool, or whoever decided is about to give it  *)
(* (permission.ts:228-252, 394-400, 453-519).  All this is for requests whose     *)
(* Session was left where it was while they were pending.  The code does forget   *)
(* those that are astray: a deletion cascades to the row of a tool that goes on   *)
(* waiting (projector.ts:279, permission/sql.ts:16), and after an update the       *)
(* service that lists the row is not the one that holds the tool's deferred.       *)
NotForgotten ==
  Listed /\ \A r \in Requests \ (rows \cup astray) : tool[r] = "waiting" => Decided(r)

-----------------------------------------------------------------------------
(* What the properties rest on: the inductive invariants of                   *)
(* DurableBlockerProofs.                                                       *)

(* A row is of a request that was asked and not decided, and an answer of one  *)
(* that was.                                                                    *)
Asked ==
  \A r \in Requests :
    /\ tool[r] # "new" => where[r] \in Services
    /\ tool[r] \in {"new", "asked"} => r \notin rows /\ won[r] = None
    /\ tool[r] = "allowed" => r \notin rows
    /\ won[r] # None => r \notin rows
    /\ answer[r] # "none" => won[r] # None

(* A reply past its claim carries the verdict that won. *)
Carried ==
  \A c \in Clients :
    cpc[c] \in {"settle", "tell", "answer"} => won[op[c].req] = op[c].verdict

BlockerInv == Asked /\ Carried /\ RowsAtHome /\ OneVerdict /\ Listed

(* One service per location: who has an entry is whom the tool asked, and what *)
(* a reply holds was entered.                                                   *)
Entered(r, s) == r \in astray \/ (where[r] = s /\ tool[r] \notin {"new", "asked", "inserted"})

Held ==
  /\ \A s \in Services : \A r \in pend[s] : Entered(r, s)
  /\ \A c \in Clients :
       /\ cpc[c] # "idle" => Entered(op[c].req, op[c].at)
       /\ cpc[c] = "idle" => op[c] = NoOp
       /\ \A r \in rest[c] : cpc[c] # "idle" /\ Entered(r, op[c].at)

Answering ==
  \A r \in Requests :
    /\ tool[r] \in {"asked", "inserted", "entered", "waiting"} => up[where[r]]
    /\ tool[r] = "inserted" => r \in rows \cup astray
    /\ tool[r] \in {"entered", "waiting"} /\ r \notin rows \cup astray => Decided(r)

(* Who has claimed with an always, or sweeps for one, has added its rule. *)
Ruled ==
  \A c \in Clients :
    cpc[c] \in {"settle", "tell", "sweep", "answer"} /\ op[c].verdict = "always" => saved

-----------------------------------------------------------------------------
(* The decision that rows, maps, deferreds and replies add up to: the row is   *)
(* the pending request, and deleting it decides.                               *)
Fate(r) ==
  IF won[r] # None THEN won[r]
  ELSE IF r \in rows THEN "pending"
  ELSE IF tool[r] = "allowed" THEN "covered"
  ELSE IF tool[r] \in {"new", "asked"} THEN "unasked" ELSE "dropped"

Promise == INSTANCE Decision WITH
  fate <- [r \in Requests |-> Fate(r)], rule <- saved, told <- told,
  goes <- {r \in Requests : tool[r] = "allowed"}

(* "settles exactly once" (durable-blocker.test.ts:179, 583), and no more than  *)
(* that happens: whatever replies, sweeps, moves, updates, deletions, closes    *)
(* and crashes cross, each step is one of the decision's or none                 *)
(* (permission.ts:228-252, 327, 394-519).  Deleting a Session withdraws what is   *)
(* pending.                                                                       *)
ImplementsDecision == Promise!Spec

=============================================================================

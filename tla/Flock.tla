------------------------------- MODULE Flock -------------------------------
(***************************************************************************)
(* The lock directory of util/effect-flock.ts, file by file, for one key.   *)
(*                                                                          *)
(* A caller makes the directory (mkdir is the atomic step), writes its      *)
(* heartbeat and its token into it, runs its body while a fiber touches the *)
(* heartbeat, and removes the directory.  One that finds the directory      *)
(* there looks whether it is stale: first at the heartbeat, then at the     *)
(* token file, then at the directory itself.  A stale one is removed by     *)
(* whoever makes the breaker directory next to it, after a second look.     *)
(* Everything is addressed by path, and every file operation is a step.     *)
(*                                                                          *)
(* Time is STALE_MS passing at once.  A caller may take any time to look at  *)
(* the lock of another; what it does once it has made a directory, or has     *)
(* begun to remove one, takes less than STALE_MS while it is alive.           *)
(***************************************************************************)
EXTENDS Naturals, FiniteSets

CONSTANTS Callers,
          Stray,        \* the token of an attempt that is over
          MaxCrashes    \* bound on the crashes of all callers

ASSUME FlockAssumption == MaxCrashes \in Nat /\ Stray \notin Callers

VARIABLES
  age,       \* per path: absent, fresh, or not modified for STALE_MS
  token,     \* what meta.json says, while it is there
  pc,
  breaking,  \* the caller made the breaker directory
  todo,      \* the entries a recursive removal found and has yet to unlink
  crashes,
  raced      \* one of the two windows of the protocol was hit (see Tears, Ousts)

vars == <<age, token, pc, breaking, todo, crashes, raced>>

Entries == {"heartbeat", "meta"}
Files   == Entries \cup {"dir", "breaker"}
Age     == {"none", "fresh", "old"}

Looking == {"mkdir", "statHeartbeat", "statMeta", "statDir", "break", "statBreaker"}
Acting  == {"cleanBreaker", "list", "unlink", "remake", "unbreak", "handover",
             "beat", "sign", "check"}
Place   == Looking \cup Acting \cup {"idle", "wait", "held"}

TypeOK ==
  /\ age \in [Files -> Age]
  /\ token \in Callers \cup {Stray}
  /\ pc \in [Callers -> Place]
  /\ breaking \in [Callers -> BOOLEAN]
  /\ todo \in [Callers -> SUBSET Entries]
  /\ crashes \in 0..MaxCrashes
  /\ raced \in BOOLEAN

Init ==
  /\ age = [f \in Files |-> "none"] /\ token = Stray
  /\ pc = [c \in Callers |-> "idle"]
  /\ breaking = [c \in Callers |-> FALSE] /\ todo = [c \in Callers |-> {}]
  /\ crashes = 0 /\ raced = FALSE

Goto(c, l) == pc' = [pc EXCEPT ![c] = l]
Exists(f)  == age[f] # "none"
Same       == UNCHANGED <<age, token>>
Alone      == UNCHANGED <<breaking, todo, crashes, raced>>

-----------------------------------------------------------------------------
(* One attempt: tryAcquireLockDir.                                          *)

Start(c) == pc[c] = "idle" /\ Goto(c, "mkdir") /\ Same /\ Alone

Mkdir(c) ==
  /\ pc[c] = "mkdir" /\ Alone /\ UNCHANGED token
  /\ IF Exists("dir") THEN Goto(c, "statHeartbeat") /\ UNCHANGED age
     ELSE Goto(c, "beat") /\ age' = [age EXCEPT !["dir"] = "fresh"]

Stale(c)    == Goto(c, IF breaking[c] THEN "list" ELSE "break")
NotStale(c) == Goto(c, IF breaking[c] THEN "unbreak" ELSE "wait")

(* isStale: the first of the three that is there decides. *)
Look(c, place, file, next) ==
  /\ pc[c] = place /\ Same
  /\ \/ age[file] = "none"  /\ next
     \/ age[file] = "fresh" /\ NotStale(c)
     \/ age[file] = "old"   /\ Stale(c)

(* Somebody is about to unlink what is in its own lock. *)
Torn == \E d \in Callers : pc[d] = "unlink" /\ ~breaking[d]

(* The first window: the release of a lock that was held for STALE_MS has     *)
(* unlinked the fresh heartbeat and not yet the old meta.json when the breaker *)
(* takes its second look at it.                                                *)
Tears(c) == breaking[c] /\ age["meta"] = "old" /\ Torn

StatHeartbeat(c) == Look(c, "statHeartbeat", "heartbeat", Goto(c, "statMeta")) /\ Alone
StatMeta(c) ==
  /\ Look(c, "statMeta", "meta", Goto(c, "statDir"))
  /\ raced' = (raced \/ Tears(c)) /\ UNCHANGED <<breaking, todo, crashes>>
StatDir(c) == Look(c, "statDir", "dir", NotStale(c)) /\ Alone

MutBreakWithoutSecondLook(c) ==
  /\ pc[c] = "break" /\ UNCHANGED <<token, todo, crashes, raced>>
  /\ IF Exists("breaker")
     THEN Goto(c, "statBreaker") /\ UNCHANGED <<age, breaking>>
     ELSE /\ age' = [age EXCEPT !["breaker"] = "fresh"]
          /\ breaking' = [breaking EXCEPT ![c] = TRUE]
          /\ Goto(c, "list")

(* The race for the breaker; its winner looks a second time. *)
Break(c) ==
  /\ pc[c] = "break" /\ UNCHANGED <<token, todo, crashes, raced>>
  /\ IF Exists("breaker")
     THEN Goto(c, "statBreaker") /\ UNCHANGED <<age, breaking>>
     ELSE /\ age' = [age EXCEPT !["breaker"] = "fresh"]
          /\ breaking' = [breaking EXCEPT ![c] = TRUE]
          /\ Goto(c, "statHeartbeat")

MutBreakerIsNeverStale(c) ==
  /\ pc[c] = "statBreaker" /\ Same /\ Alone
  /\ Goto(c, "wait")

(* cleanStaleBreaker *)
StatBreaker(c) ==
  /\ pc[c] = "statBreaker" /\ Same /\ Alone
  /\ Goto(c, IF age["breaker"] = "old" THEN "cleanBreaker" ELSE "wait")

(* The second window: the stale breaker directory was cleaned by another      *)
(* before, and the one removed now is that of a breaker at work.              *)
Ousts == \E d \in Callers : breaking[d]

CleanBreaker(c) ==
  /\ pc[c] = "cleanBreaker" /\ UNCHANGED <<token, breaking, todo, crashes>>
  /\ age' = [age EXCEPT !["breaker"] = "none"]
  /\ Goto(c, "wait") /\ raced' = (raced \/ Ousts)

(* After the removal a breaker makes the directory anew; who released or     *)
(* found its lock compromised is done.                                       *)
Removed(c) == Goto(c, IF breaking[c] THEN "remake" ELSE "idle")

Remake(c) ==
  /\ pc[c] = "remake" /\ Alone /\ UNCHANGED token
  /\ IF Exists("dir") THEN Goto(c, "unbreak") /\ UNCHANGED age
     ELSE Goto(c, "handover") /\ age' = [age EXCEPT !["dir"] = "fresh"]

(* The breaker goes either way: with the lock in hand, or without. *)
Unbreak(c) ==
  /\ \/ pc[c] = "unbreak" /\ Goto(c, "wait")
     \/ pc[c] = "handover" /\ Goto(c, "beat")
  /\ age' = [age EXCEPT !["breaker"] = "none"]
  /\ breaking' = [breaking EXCEPT ![c] = FALSE]
  /\ UNCHANGED <<token, todo, crashes, raced>>

(* exclusiveWrite: a file that exists, or a directory that does not, means   *)
(* that the lock is compromised, and the directory is removed.               *)
Write(c, file, next) ==
  IF Exists(file) \/ ~Exists("dir")
  THEN Goto(c, "list") /\ UNCHANGED age
  ELSE Goto(c, next) /\ age' = [age EXCEPT ![file] = "fresh", !["dir"] = "fresh"]

Beat(c) == pc[c] = "beat" /\ Write(c, "heartbeat", "sign") /\ Alone /\ UNCHANGED token

Sign(c) ==
  /\ pc[c] = "sign" /\ Write(c, "meta", "held") /\ Alone
  /\ token' = IF Exists("meta") \/ ~Exists("dir") THEN token ELSE c

-----------------------------------------------------------------------------
(* Removal of the directory with what is in it.                             *)

List(c) ==
  /\ pc[c] = "list" /\ Same /\ UNCHANGED <<breaking, crashes, raced>>
  /\ todo' = [todo EXCEPT ![c] = {f \in Entries : Exists(f)}]
  /\ IF Exists("dir") THEN Goto(c, "unlink") ELSE Removed(c)

Unlink(c) ==
  /\ pc[c] = "unlink" /\ UNCHANGED <<pc, breaking, crashes, raced>>
  /\ \E f \in todo[c] :
       /\ todo' = [todo EXCEPT ![c] = @ \ {f}]
       /\ age' = IF Exists(f) THEN [age EXCEPT ![f] = "none", !["dir"] = "fresh"] ELSE age
       /\ token' = IF f = "meta" THEN Stray ELSE token

(* A directory that is not empty by then stays, or is listed again. *)
Rmdir(c) ==
  /\ pc[c] = "unlink" /\ todo[c] = {} /\ UNCHANGED token /\ Alone
  /\ IF \E f \in Entries : Exists(f)
     THEN (Removed(c) \/ Goto(c, "list")) /\ UNCHANGED age
     ELSE Removed(c) /\ age' = [age EXCEPT !["dir"] = "none"]

-----------------------------------------------------------------------------
(* Waiting, holding, releasing.                                             *)

Retry(c)  == pc[c] = "wait" /\ Goto(c, "mkdir") /\ Same /\ Alone
GiveUp(c) == pc[c] = "wait" /\ Goto(c, "idle") /\ Same /\ Alone

BodyEnds(c) == pc[c] = "held" /\ Goto(c, "check") /\ Same /\ Alone

(* release: only with its own token in the directory does it remove it. *)
Check(c) ==
  /\ pc[c] = "check" /\ Same /\ Alone
  /\ Goto(c, IF Exists("meta") /\ token = c THEN "list" ELSE "idle")

-----------------------------------------------------------------------------
(* The process of a caller dies, and another attempt may follow. *)
Crash(c) ==
  /\ pc[c] # "idle" /\ crashes < MaxCrashes
  /\ crashes' = crashes + 1
  /\ Goto(c, "idle")
  /\ token' = IF token = c THEN Stray ELSE token
  /\ breaking' = [breaking EXCEPT ![c] = FALSE] /\ todo' = [todo EXCEPT ![c] = {}]
  /\ UNCHANGED <<age, raced>>

Holding == \E c \in Callers : pc[c] = "held"

(* STALE_MS pass.  The heartbeat fiber of a live holder touches whatever      *)
(* heartbeat is at the path, three times as often.                            *)
Pass ==
  /\ \A c \in Callers : pc[c] \notin Acting /\ ~breaking[c]
  /\ age' = [f \in Files |-> IF age[f] = "none" \/ (f = "heartbeat" /\ Holding)
                             THEN age[f] ELSE "old"]
  /\ UNCHANGED <<token, pc>> /\ Alone

Step(c) ==
  \/ Mkdir(c) \/ StatHeartbeat(c) \/ StatMeta(c) \/ StatDir(c)
  \/ Break(c) \/ StatBreaker(c) \/ CleanBreaker(c) \/ Remake(c) \/ Unbreak(c)
  \/ Beat(c) \/ Sign(c) \/ List(c) \/ Unlink(c) \/ Rmdir(c)
  \/ Retry(c) \/ BodyEnds(c) \/ Check(c)

Next ==
  \/ \E c \in Callers : Start(c) \/ Step(c) \/ GiveUp(c) \/ Crash(c)
  \/ Pass

Spec == Init /\ [][Next]_vars

(* Callers that are alive go on, and time passes however often they retry. *)
FairSpec == Spec /\ (\A c \in Callers : WF_vars(Step(c))) /\ SF_vars(Pass)

-----------------------------------------------------------------------------
(* Whoever runs its body has its own token in the directory: no breaker, no  *)
(* release and no compromised caller removes or replaces the lock of a live   *)
(* holder (effect-flock.ts:197-212, 232-248), however long bodies run, as      *)
(* drains do (session/execution/local.ts:22), and whoever dies.  That is, as   *)
(* long as ~raced: the second look of a breaker never fell between the two     *)
(* unlinks of the release of a lock held for STALE_MS (line 248), and no fresh *)
(* breaker directory was cleaned for a stale one (line 140).  After either the *)
(* code can have two holders, and this says nothing.                           *)
HolderHasDirectory ==
  ~raced => \A c \in Callers : pc[c] = "held" =>
    token = c /\ \A f \in Entries \cup {"dir"} : Exists(f)

Asking == \E c \in Callers : pc[c] \in Looking \cup {"wait", "beat", "sign"} \/ breaking[c]

(* Whatever the dead have left behind, a directory, a heartbeat, a breaker,   *)
(* once no new callers come somebody who asks for the lock gets it, unless     *)
(* all of them fail (effect-flock.ts:142, 150, 183-212).                       *)
LockIsTaken ==
  <>[][\A c \in Callers : ~Start(c)]_vars => (Asking ~> Holding \/ ~Asking)

-----------------------------------------------------------------------------
(* What HolderHasDirectory rests on: the inductive invariant of FlockProofs. *)

(* The directory is this caller's to fill, to keep or to remove. *)
Owns(c) ==
  \/ pc[c] \in {"beat", "sign", "held", "check", "handover"}
  \/ pc[c] \in {"list", "unlink"} /\ ~breaking[c]

(* What a dead owner left. *)
Orphan == Exists("dir") /\ \A c \in Callers : ~Owns(c)

(* The breaker is past its second look. *)
Removing(c) == breaking[c] /\ pc[c] \in {"list", "unlink", "remake", "handover"}

Present == {f \in Entries : Exists(f)}

(* One owner at a time; the place it has reached says what is there, and what *)
(* is there looks stale only while a fresh heartbeat is looked at first, or    *)
(* while the lock is torn.                                                     *)
Inside ==
  /\ Present # {} => Exists("dir")
  /\ \A c \in Callers : Owns(c) =>
       /\ Exists("dir")
       /\ \A d \in Callers : Owns(d) => c = d
       /\ pc[c] \in {"beat", "handover"} => Present = {}
       /\ pc[c] = "sign" => Present = {"heartbeat"}
       /\ pc[c] \in {"held", "check", "list"} => Present = Entries /\ token = c
       /\ pc[c] = "unlink" => Present \subseteq todo[c]
       /\ age["heartbeat"] # "old"
       /\ age["dir"] = "old" => age["meta"] = "old"
       /\ pc[c] \in {"beat", "sign", "handover"} => age["meta"] # "old"

OneBreaker ==
  /\ \A c, d \in Callers : breaking[c] /\ breaking[d] => c = d
  /\ \A c \in Callers : breaking[c] => age["breaker"] = "fresh"

(* Only an orphan gets past the second look, and the breaker is one caller's. *)
Breaks ==
  /\ OneBreaker
  /\ \A c \in Callers :
       /\ breaking[c] => pc[c] \in {"statHeartbeat", "statMeta", "statDir", "unbreak"} \/ Removing(c)
       /\ pc[c] \in {"unbreak", "remake", "handover"} => breaking[c]
       /\ Removing(c) /\ pc[c] \in {"list", "unlink"} => Orphan
       /\ Removing(c) /\ pc[c] = "unlink" => Present \subseteq todo[c]
       /\ breaking[c] /\ pc[c] = "statMeta" /\ ~Orphan => age["meta"] # "old" \/ Torn
       /\ breaking[c] /\ pc[c] = "statDir" /\ ~Orphan => age["dir"] # "old"

LockInv == ~raced => Inside /\ Breaks

-----------------------------------------------------------------------------
(* The lock that the directory, its three files and its breaker add up to:    *)
(* whoever owns the directory has it.                                         *)
FL == INSTANCE FileLock WITH User <- Callers, holder <- {c \in Callers : Owns(c)},
                             orphan <- Orphan

(* As long as ~raced, each file operation is a step of the abstract lock or    *)
(* nothing to it: a lock passes on only when its holder has removed it or is   *)
(* dead (effect-flock.ts:183-248).                                             *)
ImplementsLock ==
  FL!Init /\ [][~raced' => [FL!Next]_(FL!vars)]_vars

=============================================================================

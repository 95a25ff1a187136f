---------------------------- MODULE FlockProofs ----------------------------
(* Type correctness of the lock directory, and that a live holder keeps its   *)
(* lock, for any number of callers.                                           *)
EXTENDS Flock, TLAPS

USE DEF Goto, Exists, Same, Alone, Removed, Write, Stale, NotStale, Look

(* The names of places and paths, so that no step need unfold them all. *)
LEMMA Names ==
  /\ {"idle", "mkdir", "wait", "held", "statHeartbeat", "statMeta", "statDir", "break",
      "statBreaker", "cleanBreaker", "list", "unlink", "remake", "unbreak", "handover",
      "beat", "sign", "check"} \subseteq Place
  /\ {"heartbeat", "meta", "dir", "breaker"} = Files
  /\ {"heartbeat", "meta"} = Entries
  /\ {"none", "fresh", "old"} = Age
BY DEF Place, Looking, Acting, Files, Entries, Age

LEMMA TypeStep == TypeOK /\ [Next]_vars => TypeOK'
<1> SUFFICES ASSUME TypeOK, [Next]_vars PROVE TypeOK'
  OBVIOUS
<1> USE FlockAssumption, Names DEF TypeOK
<1>1. ASSUME NEW c \in Callers,
      Mkdir(c) \/ StatHeartbeat(c) \/ StatMeta(c) \/ StatDir(c) \/ Break(c)
      PROVE  TypeOK'
  <2>1. age' \in [Files -> Age]
    BY <1>1 DEF Mkdir, StatHeartbeat, StatMeta, StatDir, Break
  <2>2. token' \in Callers \cup {Stray}
    BY <1>1 DEF Mkdir, StatHeartbeat, StatMeta, StatDir, Break
  <2>3. pc' \in [Callers -> Place]
    BY <1>1 DEF Mkdir, StatHeartbeat, StatMeta, StatDir, Break
  <2>4. breaking' \in [Callers -> BOOLEAN]
    BY <1>1 DEF Mkdir, StatHeartbeat, StatMeta, StatDir, Break
  <2>5. todo' \in [Callers -> SUBSET Entries]
    BY <1>1 DEF Mkdir, StatHeartbeat, StatMeta, StatDir, Break
  <2>6. crashes' \in 0..MaxCrashes
    BY <1>1 DEF Mkdir, StatHeartbeat, StatMeta, StatDir, Break
  <2>7. raced' \in BOOLEAN
    BY <1>1 DEF Mkdir, StatHeartbeat, StatMeta, StatDir, Break
  <2> QED BY <2>1, <2>2, <2>3, <2>4, <2>5, <2>6, <2>7 DEF TypeOK
<1>2. ASSUME NEW c \in Callers, StatBreaker(c) \/ CleanBreaker(c) \/ Remake(c) \/ Unbreak(c)
      PROVE  TypeOK'
  <2>1. age' \in [Files -> Age]
    BY <1>2 DEF StatBreaker, CleanBreaker, Remake, Unbreak
  <2>2. token' \in Callers \cup {Stray}
    BY <1>2 DEF StatBreaker, CleanBreaker, Remake, Unbreak
  <2>3. pc' \in [Callers -> Place]
    BY <1>2 DEF StatBreaker, CleanBreaker, Remake, Unbreak
  <2>4. breaking' \in [Callers -> BOOLEAN]
    BY <1>2 DEF StatBreaker, CleanBreaker, Remake, Unbreak
  <2>5. todo' \in [Callers -> SUBSET Entries]
    BY <1>2 DEF StatBreaker, CleanBreaker, Remake, Unbreak
  <2>6. crashes' \in 0..MaxCrashes
    BY <1>2 DEF StatBreaker, CleanBreaker, Remake, Unbreak
  <2>7. raced' \in BOOLEAN
    BY <1>2 DEF StatBreaker, CleanBreaker, Remake, Unbreak
  <2> QED BY <2>1, <2>2, <2>3, <2>4, <2>5, <2>6, <2>7 DEF TypeOK
<1>3. ASSUME NEW c \in Callers, Beat(c) \/ Sign(c) \/ List(c) \/ Unlink(c) \/ Rmdir(c)
      PROVE  TypeOK'
  <2>1. age' \in [Files -> Age]
    BY <1>3 DEF Beat, Sign, List, Unlink, Rmdir
  <2>2. token' \in Callers \cup {Stray}
    BY <1>3 DEF Beat, Sign, List, Unlink, Rmdir
  <2>3. pc' \in [Callers -> Place]
    BY <1>3 DEF Beat, Sign, List, Unlink, Rmdir
  <2>4. breaking' \in [Callers -> BOOLEAN]
    BY <1>3 DEF Beat, Sign, List, Unlink, Rmdir
  <2>5. todo' \in [Callers -> SUBSET Entries]
    BY <1>3 DEF Beat, Sign, List, Unlink, Rmdir
  <2>6. crashes' \in 0..MaxCrashes
    BY <1>3 DEF Beat, Sign, List, Unlink, Rmdir
  <2>7. raced' \in BOOLEAN
    BY <1>3 DEF Beat, Sign, List, Unlink, Rmdir
  <2> QED BY <2>1, <2>2, <2>3, <2>4, <2>5, <2>6, <2>7 DEF TypeOK
<1>4. ASSUME NEW c \in Callers, Retry(c) \/ BodyEnds(c) \/ Check(c)
      PROVE  TypeOK'
  <2>1. age' \in [Files -> Age]
    BY <1>4 DEF Retry, BodyEnds, Check
  <2>2. token' \in Callers \cup {Stray}
    BY <1>4 DEF Retry, BodyEnds, Check
  <2>3. pc' \in [Callers -> Place]
    BY <1>4 DEF Retry, BodyEnds, Check
  <2>4. breaking' \in [Callers -> BOOLEAN]
    BY <1>4 DEF Retry, BodyEnds, Check
  <2>5. todo' \in [Callers -> SUBSET Entries]
    BY <1>4 DEF Retry, BodyEnds, Check
  <2>6. crashes' \in 0..MaxCrashes
    BY <1>4 DEF Retry, BodyEnds, Check
  <2>7. raced' \in BOOLEAN
    BY <1>4 DEF Retry, BodyEnds, Check
  <2> QED BY <2>1, <2>2, <2>3, <2>4, <2>5, <2>6, <2>7 DEF TypeOK
<1>5. ASSUME NEW c \in Callers, Start(c) \/ GiveUp(c) \/ Crash(c)
      PROVE  TypeOK'
  <2>1. age' \in [Files -> Age]
    BY <1>5 DEF Start, GiveUp, Crash
  <2>2. token' \in Callers \cup {Stray}
    BY <1>5 DEF Start, GiveUp, Crash
  <2>3. pc' \in [Callers -> Place]
    BY <1>5 DEF Start, GiveUp, Crash
  <2>4. breaking' \in [Callers -> BOOLEAN]
    BY <1>5 DEF Start, GiveUp, Crash
  <2>5. todo' \in [Callers -> SUBSET Entries]
    BY <1>5 DEF Start, GiveUp, Crash
  <2>6. crashes' \in 0..MaxCrashes
    BY <1>5 DEF Start, GiveUp, Crash
  <2>7. raced' \in BOOLEAN
    BY <1>5 DEF Start, GiveUp, Crash
  <2> QED BY <2>1, <2>2, <2>3, <2>4, <2>5, <2>6, <2>7 DEF TypeOK
<1>6. CASE Pass
  BY <1>6 DEF Pass
<1>7. CASE UNCHANGED vars
  BY <1>7 DEF vars
<1> QED BY <1>1, <1>2, <1>3, <1>4, <1>5, <1>6, <1>7 DEF Next, Step

(* The paths, the places and what callers have yet to remove stay typed. *)
THEOREM FlockTypeCorrect == Spec => []TypeOK
<1>1. Init => TypeOK
  <2> SUFFICES ASSUME Init PROVE TypeOK
    OBVIOUS
  <2> USE FlockAssumption, Names DEF Init
  <2>1. age \in [Files -> Age]
    OBVIOUS
  <2>2. token \in Callers \cup {Stray}
    OBVIOUS
  <2>3. pc \in [Callers -> Place]
    OBVIOUS
  <2>4. breaking \in [Callers -> BOOLEAN]
    OBVIOUS
  <2>5. todo \in [Callers -> SUBSET Entries]
    OBVIOUS
  <2>6. crashes \in 0..MaxCrashes
    OBVIOUS
  <2>7. raced \in BOOLEAN
    OBVIOUS
  <2> QED BY <2>1, <2>2, <2>3, <2>4, <2>5, <2>6, <2>7 DEF TypeOK
<1> QED BY <1>1, TypeStep, PTL DEF Spec

-----------------------------------------------------------------------------
(* The inductive invariant, one action at a time. *)

USE DEF Owns, Orphan, Removing, Present, OneBreaker, Torn, Tears, Ousts, Files, Entries

(* Nobody disturbs the one who owns the directory. *)
LEMMA InsideStep ==
  ASSUME TypeOK, TypeOK', Inside, Breaks, ~raced', NEW c \in Callers,
         Step(c) \/ Start(c) \/ GiveUp(c) \/ Crash(c)
  PROVE  Inside'
<1> USE DEF TypeOK, Inside, Breaks
<1>1. CASE Mkdir(c)
  BY <1>1 DEF Mkdir
<1>2. CASE StatHeartbeat(c)
  BY <1>2 DEF StatHeartbeat
<1>3. CASE StatMeta(c)
  BY <1>3 DEF StatMeta
<1>4. CASE StatDir(c)
  BY <1>4 DEF StatDir
<1>5. CASE Break(c)
  BY <1>5 DEF Break
<1>6. CASE StatBreaker(c)
  BY <1>6 DEF StatBreaker
<1>7. CASE CleanBreaker(c)
  BY <1>7 DEF CleanBreaker
<1>8. CASE Remake(c)
  BY <1>8 DEF Remake
<1>9. CASE Unbreak(c)
  BY <1>9 DEF Unbreak
<1>10. CASE Beat(c)
  BY <1>10 DEF Beat
<1>11. CASE Sign(c)
  BY <1>11 DEF Sign
<1>12. CASE List(c)
  BY <1>12 DEF List
<1>13. CASE Unlink(c)
  BY <1>13 DEF Unlink
<1>14. CASE Rmdir(c)
  BY <1>14 DEF Rmdir
<1>15. CASE Retry(c)
  BY <1>15 DEF Retry
<1>16. CASE BodyEnds(c)
  BY <1>16 DEF BodyEnds
<1>17. CASE Check(c)
  BY <1>17 DEF Check
<1>18. CASE Start(c)
  BY <1>18 DEF Start
<1>19. CASE GiveUp(c)
  BY <1>19 DEF GiveUp
<1>20. CASE Crash(c)
  BY <1>20 DEF Crash
<1> QED BY <1>1, <1>2, <1>3, <1>4, <1>5, <1>6, <1>7, <1>8, <1>9, <1>10, <1>11, <1>12, <1>13,
    <1>14, <1>15, <1>16, <1>17, <1>18, <1>19, <1>20 DEF Step

(* Nobody but the one breaker of an orphan gets past the second look. *)
LEMMA BreaksStep ==
  ASSUME TypeOK, TypeOK', Inside, Breaks, ~raced', NEW c \in Callers,
         Step(c) \/ Start(c) \/ GiveUp(c) \/ Crash(c)
  PROVE  Breaks'
<1> USE DEF TypeOK, Inside, Breaks
<1>1. CASE Mkdir(c)
  BY <1>1 DEF Mkdir
<1>2. CASE StatHeartbeat(c)
  BY <1>2 DEF StatHeartbeat
<1>3. CASE StatMeta(c)
  BY <1>3 DEF StatMeta
<1>4. CASE StatDir(c)
  BY <1>4 DEF StatDir
<1>5. CASE Break(c)
  BY <1>5 DEF Break
<1>6. CASE StatBreaker(c)
  BY <1>6 DEF StatBreaker
<1>7. CASE CleanBreaker(c)
  BY <1>7 DEF CleanBreaker
<1>8. CASE Remake(c)
  BY <1>8 DEF Remake
<1>9. CASE Unbreak(c)
  BY <1>9 DEF Unbreak
<1>10. CASE Beat(c)
  BY <1>10 DEF Beat
<1>11. CASE Sign(c)
  BY <1>11 DEF Sign
<1>12. CASE List(c)
  BY <1>12 DEF List
<1>13. CASE Unlink(c)
  BY <1>13 DEF Unlink
<1>14. CASE Rmdir(c)
  BY <1>14 DEF Rmdir
<1>15. CASE Retry(c)
  BY <1>15 DEF Retry
<1>16. CASE BodyEnds(c)
  BY <1>16 DEF BodyEnds
<1>17. CASE Check(c)
  BY <1>17 DEF Check
<1>18. CASE Start(c)
  BY <1>18 DEF Start
<1>19. CASE GiveUp(c)
  BY <1>19 DEF GiveUp
<1>20. CASE Crash(c)
  BY <1>20 DEF Crash
<1> QED BY <1>1, <1>2, <1>3, <1>4, <1>5, <1>6, <1>7, <1>8, <1>9, <1>10, <1>11, <1>12, <1>13,
    <1>14, <1>15, <1>16, <1>17, <1>18, <1>19, <1>20 DEF Step

LEMMA PassStep ==
  ASSUME TypeOK, TypeOK', Pass, Inside, Breaks PROVE Inside' /\ Breaks'
<1> USE DEF TypeOK, Inside, Breaks, Acting
<1>1. Inside'
  BY DEF Pass, Holding
<1>2. Breaks'
  BY DEF Pass, Holding
<1> QED BY <1>1, <1>2

(* That a window was hit is remembered. *)
LEMMA Remembered == TypeOK /\ [Next]_vars /\ ~raced' => ~raced
<1> SUFFICES ASSUME TypeOK, [Next]_vars, ~raced' PROVE ~raced
  OBVIOUS
<1>1. raced' = raced \/ (\E P \in BOOLEAN : raced' = (raced \/ P))
  BY DEF TypeOK, vars, Next, Step, Pass, Mkdir, StatHeartbeat, StatMeta, StatDir, Break,
     StatBreaker, CleanBreaker, Remake, Unbreak, Beat, Sign, List, Unlink, Rmdir, Retry,
     BodyEnds, Check, Start, GiveUp, Crash
<1> QED BY <1>1

LEMMA LockStep == TypeOK /\ LockInv /\ [Next]_vars => LockInv'
<1> SUFFICES ASSUME TypeOK, LockInv, [Next]_vars, ~raced'
             PROVE  Inside' /\ Breaks'
  BY DEF LockInv
<1>1. Inside /\ Breaks
  BY Remembered DEF LockInv
<1>2. TypeOK'
  BY TypeStep
<1>3. ASSUME NEW c \in Callers, Step(c) \/ Start(c) \/ GiveUp(c) \/ Crash(c)
      PROVE  Inside' /\ Breaks'
  BY <1>1, <1>2, <1>3, InsideStep, BreaksStep
<1>4. CASE Pass
  BY <1>1, <1>2, <1>4, PassStep
<1>5. CASE UNCHANGED vars
  BY <1>1, <1>5 DEF vars, Inside, Breaks
<1> QED BY <1>3, <1>4, <1>5 DEF Next

(* Whose the directory is, what is in it, and who may remove it, as long as no *)
(* window of the protocol is hit.                                              *)
THEOREM FlockInvariance == Spec => []LockInv
<1>1. Init => LockInv
  BY DEF Init, LockInv, Inside, Breaks, Owns, Orphan, Removing, Present, OneBreaker, Files,
     Entries
<1> QED BY <1>1, LockStep, FlockTypeCorrect, PTL DEF Spec

(* HolderHasDirectory: a live holder keeps its lock, whoever looks, breaks,    *)
(* gives up or dies, however often and however long it holds it, as long as    *)
(* ~raced: no second look falls between the unlinks of a late release, and no  *)
(* breaker at work loses its directory to a cleaner (effect-flock.ts:140, 248). *)
THEOREM HolderKeepsLock == Spec => []HolderHasDirectory
<1>1. LockInv => HolderHasDirectory
  BY DEF LockInv, HolderHasDirectory, Inside
<1> QED BY <1>1, FlockInvariance, PTL

-----------------------------------------------------------------------------
(* The refinement of the abstract lock: what a step does to who owns the      *)
(* directory and to whether it is an orphan.                                   *)

Kept  == (\A d \in Callers : Owns(d)' <=> Owns(d)) /\ (Orphan' <=> Orphan)
Taken(c) == /\ \A d \in Callers : ~Owns(d) /\ (Owns(d)' <=> d = c)
            /\ ~Orphan'
Given(c) == /\ \A d \in Callers : ~Owns(d)' /\ (Owns(d) <=> d = c)
Cleared == (\A d \in Callers : Owns(d)' <=> Owns(d)) /\ Orphan /\ ~Orphan'

LEMMA OneStep ==
  ASSUME TypeOK, TypeOK', Inside, Breaks, ~raced', NEW c \in Callers,
         Step(c) \/ Start(c) \/ GiveUp(c) \/ Crash(c)
  PROVE  Kept \/ Taken(c) \/ Given(c) \/ Cleared
<1> USE DEF TypeOK, Inside, Breaks, Kept, Taken, Given, Cleared
<1>1. CASE Mkdir(c)
  BY <1>1 DEF Mkdir
<1>2. CASE StatHeartbeat(c)
  BY <1>2 DEF StatHeartbeat
<1>3. CASE StatMeta(c)
  BY <1>3 DEF StatMeta
<1>4. CASE StatDir(c)
  BY <1>4 DEF StatDir
<1>5. CASE Break(c)
  BY <1>5 DEF Break
<1>6. CASE StatBreaker(c)
  BY <1>6 DEF StatBreaker
<1>7. CASE CleanBreaker(c)
  BY <1>7 DEF CleanBreaker
<1>8. CASE Remake(c)
  BY <1>8 DEF Remake
<1>9. CASE Unbreak(c)
  BY <1>9 DEF Unbreak
<1>10. CASE Beat(c)
  BY <1>10 DEF Beat
<1>11. CASE Sign(c)
  BY <1>11 DEF Sign
<1>12. CASE List(c)
  BY <1>12 DEF List
<1>13. CASE Unlink(c)
  BY <1>13 DEF Unlink
<1>14. CASE Rmdir(c)
  BY <1>14 DEF Rmdir
<1>15. CASE Retry(c)
  BY <1>15 DEF Retry
<1>16. CASE BodyEnds(c)
  BY <1>16 DEF BodyEnds
<1>17. CASE Check(c)
  BY <1>17 DEF Check
<1>18. CASE Start(c)
  BY <1>18 DEF Start
<1>19. CASE GiveUp(c)
  BY <1>19 DEF GiveUp
<1>20. CASE Crash(c)
  BY <1>20 DEF Crash
<1> QED BY <1>1, <1>2, <1>3, <1>4, <1>5, <1>6, <1>7, <1>8, <1>9, <1>10, <1>11, <1>12, <1>13, <1>14, <1>15, <1>16, <1>17, <1>18, <1>19, <1>20 DEF Step

(* Each of the four is a step of the abstract lock or leaves it as it is. *)
LEMMA Mapped ==
  ASSUME NEW c \in Callers, Kept \/ Taken(c) \/ Given(c) \/ Cleared
  PROVE  [FL!Next]_(FL!vars)
<1> HIDE DEF Owns
<1>1. Orphan \in BOOLEAN /\ Orphan' \in BOOLEAN /\ (Orphan => \A d \in Callers : ~Owns(d))
  BY DEF Orphan
<1> HIDE DEF Orphan
<1>2. CASE Kept
  BY <1>1, <1>2 DEF Kept, FL!vars
<1>3. CASE Taken(c)
  <2>1. FL!Acquire(c)
    BY <1>1, <1>3 DEF Taken, FL!Acquire
  <2> QED BY <2>1 DEF FL!Next
<1>4. CASE Given(c)
  <2>1. {d \in Callers : Owns(d)} = {c} /\ {d \in Callers : Owns(d)}' = {}
    BY <1>4 DEF Given
  <2>2. FL!Release(c) \/ FL!Die(c)
    <3>1. ~Orphan
      BY <1>1, <1>4 DEF Given
    <3>2. CASE Orphan'
      BY <2>1, <3>2 DEF FL!Die
    <3>3. CASE ~Orphan'
      BY <1>1, <2>1, <3>1, <3>3 DEF FL!Release
    <3> QED BY <3>2, <3>3
  <2> QED BY <2>2 DEF FL!Next
<1>5. CASE Cleared
  <2>1. FL!Clear
    BY <1>1, <1>5 DEF Cleared, FL!Clear
  <2> QED BY <2>1 DEF FL!Next
<1> QED BY <1>2, <1>3, <1>4, <1>5

(* ImplementsLock: the directory, the files in it and the breaker next to it   *)
(* are the abstract lock, for any number of callers and crashes and locks held *)
(* for any time, as long as ~raced (effect-flock.ts:140, 248).                  *)
THEOREM FlockIsLock == Spec => ImplementsLock
<1>1. Init => FL!Init
  BY DEF Init, FL!Init
<1>2. TypeOK /\ TypeOK' /\ LockInv /\ LockInv' /\ [Next]_vars =>
        [~raced' => [FL!Next]_(FL!vars)]_vars
  <2> SUFFICES ASSUME TypeOK, TypeOK', LockInv, Next, ~raced'
               PROVE  [FL!Next]_(FL!vars)
    OBVIOUS
  <2>1. Inside /\ Breaks
    BY Remembered DEF LockInv
  <2>2. ASSUME NEW c \in Callers, Step(c) \/ Start(c) \/ GiveUp(c) \/ Crash(c)
        PROVE  [FL!Next]_(FL!vars)
    BY <2>1, <2>2, OneStep, Mapped
  <2>3. CASE Pass
    <3>1. \A d \in Callers : Owns(d)' <=> Owns(d)
      BY <2>3 DEF Pass
    <3>2. Exists("dir")' <=> Exists("dir")
      BY <2>3 DEF Pass, TypeOK, Age
    <3> HIDE DEF Owns, Exists
    <3>3. Orphan' <=> Orphan
      BY <3>1, <3>2
    <3> HIDE DEF Orphan
    <3>4. {d \in Callers : Owns(d)}' = {d \in Callers : Owns(d)} /\ Orphan' = Orphan
      BY <3>1, <3>3
    <3> QED BY <3>4 DEF FL!vars
  <2> QED BY <2>2, <2>3 DEF Next
<1> QED BY <1>1, <1>2, FlockInvariance, FlockTypeCorrect, PTL DEF Spec, ImplementsLock

=============================================================================

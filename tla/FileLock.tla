------------------------------ MODULE FileLock ------------------------------
(***************************************************************************)
(* What the file lock of util/effect-flock.ts promises those who use it,    *)
(* without directories, heartbeats and breakers: the lock is one user's      *)
(* until that user releases it or dies; a lock that a dead user left behind  *)
(* is cleared, or taken over, and a live one's never.                        *)
(***************************************************************************)
CONSTANT User

VARIABLES holder,   \* the one user that has the lock, or {}
          orphan    \* a dead user left the lock behind

vars == <<holder, orphan>>

Init == holder = {} /\ orphan = FALSE

Acquire(c) ==
  /\ holder = {}
  /\ holder' = {c} /\ orphan' = FALSE

Release(c) ==
  /\ holder = {c}
  /\ holder' = {} /\ UNCHANGED orphan

Die(c) ==
  /\ holder = {c}
  /\ holder' = {} /\ orphan' = TRUE

Clear ==
  /\ orphan
  /\ orphan' = FALSE /\ UNCHANGED holder

Next == Clear \/ \E c \in User : Acquire(c) \/ Release(c) \/ Die(c)

Spec == Init /\ [][Next]_vars

=============================================================================

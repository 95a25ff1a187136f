------------------------ MODULE DurableBlockerProofs ------------------------
(* Proofs about DurableBlocker, for any requests, Sessions, services, callers  *)
(* and any number of restarts and moves.                                       *)
EXTENDS DurableBlocker, TLAPS

USE DEF Becomes, Lives, Enter, Leave, ToolOnly, ReplyOnly, Step, Done, Settle, Tell, Claims,
        Verdict, Yes, Op, NoOp, durable, past, changes, service, asking,
        replying, Upset, SessionOnly

LEMMA TypeStep == ASSUME TypeOK, [Next]_vars PROVE TypeOK'
<1> USE BlockerAssumption DEF TypeOK, Place
<1>1. ASSUME NEW r \in Requests, NEW s \in Services, Ask(r, s) PROVE TypeOK'
  BY <1>1 DEF Ask
<1>2. ASSUME NEW r \in Requests, Insert(r) PROVE TypeOK'
  BY <1>2 DEF Insert
<1>3. ASSUME NEW r \in Requests, Register(r) PROVE TypeOK'
  BY <1>3 DEF Register
<1>4. ASSUME NEW r \in Requests, Announce(r) PROVE TypeOK'
  <2>1. saved' \in BOOLEAN /\ home' \in [Sessions -> Locations \cup {None}]
    BY <1>4 DEF Announce
  <2>2. rows' \subseteq Requests /\ won' \in [Requests -> Verdict \cup {None}]
    BY <1>4 DEF Announce
  <2>3. up' \in [Services -> BOOLEAN] /\ pend' \in [Services -> SUBSET Requests]
    BY <1>4 DEF Announce
  <2>4. /\ where' \in [Requests -> Services \cup {None}] /\ tool' \in [Requests -> Place]
        /\ answer' \in [Requests -> {"none", "yes", "no"}]
        /\ told' \in [Requests -> {"none", "yes", "no"}]
    BY <1>4 DEF Announce
  <2>5. cpc' \in [Clients -> {"idle", "claim", "settle", "tell", "sweep", "answer"}]
    BY <1>4 DEF Announce
  <2>6. op' \in [Clients -> Op \cup {NoOp}]
    BY <1>4 DEF Announce
  <2>7. \A k \in Clients : cpc'[k] # "idle" => op'[k] \in Op
    BY <1>4 DEF Announce
  <2>8. rest' \in [Clients -> SUBSET Requests]
    BY <1>4 DEF Announce
  <2>9. /\ mover' \in Sessions \cup {None} /\ edit' \in [Editors -> Edit \cup {NoEdit}]
        /\ astray' \subseteq Requests /\ upsets' \in 0..MaxUpsets
    BY <1>4 DEF Announce
  <2> QED BY <2>1, <2>2, <2>3, <2>4, <2>5, <2>6, <2>7, <2>8, <2>9 DEF TypeOK
<1>5. ASSUME NEW r \in Requests, Resume(r) PROVE TypeOK'
  BY <1>5 DEF Resume
<1>6. ASSUME NEW r \in Requests, Interrupt(r) PROVE TypeOK'
  BY <1>6 DEF Interrupt
<1>7. ASSUME NEW c \in Clients, NEW s \in Services, NEW r \in Requests, NEW v \in Verdict,
      Reply(c, s, r, v) PROVE TypeOK'
  BY <1>7 DEF Reply
<1>8. ASSUME NEW c \in Clients, Claim(c) PROVE TypeOK'
  <2>1. saved' \in BOOLEAN /\ home' \in [Sessions -> Locations \cup {None}]
    BY <1>8 DEF Claim
  <2>2. rows' \subseteq Requests /\ won' \in [Requests -> Verdict \cup {None}]
    BY <1>8 DEF Claim
  <2>3. up' \in [Services -> BOOLEAN] /\ pend' \in [Services -> SUBSET Requests]
    BY <1>8 DEF Claim
  <2>4. /\ where' \in [Requests -> Services \cup {None}] /\ tool' \in [Requests -> Place]
        /\ answer' \in [Requests -> {"none", "yes", "no"}]
        /\ told' \in [Requests -> {"none", "yes", "no"}]
    BY <1>8 DEF Claim
  <2>5. cpc' \in [Clients -> {"idle", "claim", "settle", "tell", "sweep", "answer"}]
    BY <1>8 DEF Claim
  <2>6. op' \in [Clients -> Op \cup {NoOp}]
    BY <1>8 DEF Claim
  <2>7. \A k \in Clients : cpc'[k] # "idle" => op'[k] \in Op
    BY <1>8 DEF Claim
  <2>8. rest' \in [Clients -> SUBSET Requests]
    BY <1>8 DEF Claim
  <2>9. /\ mover' \in Sessions \cup {None} /\ edit' \in [Editors -> Edit \cup {NoEdit}]
        /\ astray' \subseteq Requests /\ upsets' \in 0..MaxUpsets
    BY <1>8 DEF Claim
  <2> QED BY <2>1, <2>2, <2>3, <2>4, <2>5, <2>6, <2>7, <2>8, <2>9 DEF TypeOK
<1>9. ASSUME NEW c \in Clients, SettleOwn(c) PROVE TypeOK'
  BY <1>9 DEF SettleOwn
<1>10. ASSUME NEW c \in Clients, TellOwn(c) PROVE TypeOK'
  <2>1. saved' \in BOOLEAN /\ home' \in [Sessions -> Locations \cup {None}]
    BY <1>10 DEF TellOwn
  <2>2. rows' \subseteq Requests /\ won' \in [Requests -> Verdict \cup {None}]
    BY <1>10 DEF TellOwn
  <2>3. up' \in [Services -> BOOLEAN] /\ pend' \in [Services -> SUBSET Requests]
    BY <1>10 DEF TellOwn
  <2>4. /\ where' \in [Requests -> Services \cup {None}] /\ tool' \in [Requests -> Place]
        /\ answer' \in [Requests -> {"none", "yes", "no"}]
        /\ told' \in [Requests -> {"none", "yes", "no"}]
    BY <1>10 DEF TellOwn
  <2>5. cpc' \in [Clients -> {"idle", "claim", "settle", "tell", "sweep", "answer"}]
    <3>1. \/ cpc' = [cpc EXCEPT ![c] = "idle"]
          \/ cpc' = [cpc EXCEPT ![c] = "sweep"]
      BY <1>10 DEF TellOwn
    <3> QED BY <3>1
  <2>6. op' \in [Clients -> Op \cup {NoOp}]
    BY <1>10 DEF TellOwn
  <2>7. \A k \in Clients : cpc'[k] # "idle" => op'[k] \in Op
    BY <1>10 DEF TellOwn
  <2>8. rest' \in [Clients -> SUBSET Requests]
    BY <1>10 DEF TellOwn
  <2>9. /\ mover' \in Sessions \cup {None} /\ edit' \in [Editors -> Edit \cup {NoEdit}]
        /\ astray' \subseteq Requests /\ upsets' \in 0..MaxUpsets
    BY <1>10 DEF TellOwn
  <2> QED BY <2>1, <2>2, <2>3, <2>4, <2>5, <2>6, <2>7, <2>8, <2>9 DEF TypeOK
<1>11. ASSUME NEW c \in Clients, Sweep(c) PROVE TypeOK'
  <2>1. saved' \in BOOLEAN /\ home' \in [Sessions -> Locations \cup {None}]
    BY <1>11 DEF Sweep
  <2>2. rows' \subseteq Requests /\ won' \in [Requests -> Verdict \cup {None}]
    BY <1>11 DEF Sweep
  <2>3. up' \in [Services -> BOOLEAN] /\ pend' \in [Services -> SUBSET Requests]
    BY <1>11 DEF Sweep
  <2>4. /\ where' \in [Requests -> Services \cup {None}] /\ tool' \in [Requests -> Place]
        /\ answer' \in [Requests -> {"none", "yes", "no"}]
        /\ told' \in [Requests -> {"none", "yes", "no"}]
    BY <1>11 DEF Sweep
  <2>5. cpc' \in [Clients -> {"idle", "claim", "settle", "tell", "sweep", "answer"}]
    <3>1. \/ cpc' = [cpc EXCEPT ![c] = "idle"]
          \/ cpc' = [cpc EXCEPT ![c] = "answer"]
          \/ cpc' = cpc
      BY <1>11 DEF Sweep
    <3> QED BY <3>1
  <2>6. op' \in [Clients -> Op \cup {NoOp}]
    <3>1. \/ op' = [op EXCEPT ![c] = NoOp]
          \/ \E r \in Requests : op' = [op EXCEPT ![c].req = r]
          \/ op' = op
      BY <1>11 DEF Sweep
    <3>2. op[c] \in Op
      BY <1>11 DEF Sweep
    <3> QED BY <3>1, <3>2
  <2>7. \A k \in Clients : cpc'[k] # "idle" => op'[k] \in Op
    <3>1. \/ cpc' = [cpc EXCEPT ![c] = "idle"] /\ op' = [op EXCEPT ![c] = NoOp]
          \/ /\ cpc' = [cpc EXCEPT ![c] = "answer"]
             /\ \E r \in Requests : op' = [op EXCEPT ![c].req = r]
          \/ cpc' = cpc /\ op' = op
      BY <1>11 DEF Sweep
    <3>2. op[c] \in Op
      BY <1>11 DEF Sweep
    <3> QED BY <3>1, <3>2
  <2>8. rest' \in [Clients -> SUBSET Requests]
    BY <1>11 DEF Sweep
  <2>9. /\ mover' \in Sessions \cup {None} /\ edit' \in [Editors -> Edit \cup {NoEdit}]
        /\ astray' \subseteq Requests /\ upsets' \in 0..MaxUpsets
    BY <1>11 DEF Sweep
  <2> QED BY <2>1, <2>2, <2>3, <2>4, <2>5, <2>6, <2>7, <2>8, <2>9 DEF TypeOK
<1>12. ASSUME NEW c \in Clients, SweepAnswer(c) PROVE TypeOK'
  BY <1>12 DEF SweepAnswer
<1>13. ASSUME NEW x \in Sessions, MoveCheck(x) PROVE TypeOK'
  BY <1>13 DEF MoveCheck
<1>14. CASE MoveCommit
  <2>1. saved' \in BOOLEAN /\ home' \in [Sessions -> Locations \cup {None}]
    BY <1>14 DEF MoveCommit, Blocked, Open
  <2>2. rows' \subseteq Requests /\ won' \in [Requests -> Verdict \cup {None}]
    BY <1>14 DEF MoveCommit, Blocked, Open
  <2>3. up' \in [Services -> BOOLEAN] /\ pend' \in [Services -> SUBSET Requests]
    BY <1>14 DEF MoveCommit, Blocked, Open
  <2>4. /\ where' \in [Requests -> Services \cup {None}] /\ tool' \in [Requests -> Place]
        /\ answer' \in [Requests -> {"none", "yes", "no"}]
        /\ told' \in [Requests -> {"none", "yes", "no"}]
    BY <1>14 DEF MoveCommit, Blocked, Open
  <2>5. cpc' \in [Clients -> {"idle", "claim", "settle", "tell", "sweep", "answer"}]
    BY <1>14 DEF MoveCommit, Blocked, Open
  <2>6. op' \in [Clients -> Op \cup {NoOp}]
    BY <1>14 DEF MoveCommit, Blocked, Open
  <2>7. \A k \in Clients : cpc'[k] # "idle" => op'[k] \in Op
    BY <1>14 DEF MoveCommit, Blocked, Open
  <2>8. rest' \in [Clients -> SUBSET Requests]
    BY <1>14 DEF MoveCommit, Blocked, Open
  <2>9. /\ mover' \in Sessions \cup {None} /\ edit' \in [Editors -> Edit \cup {NoEdit}]
        /\ astray' \subseteq Requests /\ upsets' \in 0..MaxUpsets
    BY <1>14 DEF MoveCommit, Blocked, Open
  <2> QED BY <2>1, <2>2, <2>3, <2>4, <2>5, <2>6, <2>7, <2>8, <2>9 DEF TypeOK
<1>15. ASSUME NEW s \in Services, Boot(s) PROVE TypeOK'
  BY <1>15 DEF Boot
<1>16. ASSUME NEW s \in Services, Close(s) PROVE TypeOK'
  BY <1>16 DEF Close, Gone
<1>17. ASSUME NEW s \in Services, Crash(s) PROVE TypeOK'
  BY <1>17 DEF Crash, Gone
<1>18. CASE UNCHANGED vars
  BY <1>18 DEF vars
<1>19. ASSUME NEW r \in Requests, Withdraw(r) PROVE TypeOK'
  BY <1>19 DEF Withdraw
<1>20. ASSUME NEW x \in Sessions, Import(x) PROVE TypeOK'
  BY <1>20 DEF Import, Rehome, Open
<1>21. ASSUME NEW x \in Sessions, Delete(x) PROVE TypeOK'
  BY <1>21 DEF Delete, Open
<1>22. ASSUME NEW e \in Editors, Updated(e) PROVE TypeOK'
  BY <1>22 DEF Updated, Rehome, Open, Edit
<1>23. ASSUME NEW e \in Editors, NEW x \in Sessions, Patch(e, x) PROVE TypeOK'
  BY <1>23 DEF Patch, Edit
<1> QED BY <1>1, <1>2, <1>3, <1>4, <1>5, <1>6, <1>7, <1>8, <1>9, <1>10, <1>11, <1>12, <1>13,
    <1>14, <1>15, <1>16, <1>17, <1>18, <1>19, <1>20, <1>21,
    <1>22, <1>23 DEF Next, ToolStep, ReplyStep

(* What is in the columns, the maps and the fibers stays typed. *)
THEOREM BlockerTypeCorrect == Spec => []TypeOK
<1>1. Init => TypeOK
  <2> SUFFICES ASSUME Init PROVE TypeOK
    OBVIOUS
  <2>1. saved \in BOOLEAN
    BY BlockerAssumption DEF Init, Place
  <2>2. home \in [Sessions -> Locations \cup {None}] /\ won \in [Requests -> Verdict \cup {None}]
    BY BlockerAssumption DEF Init, Place
  <2>3. rows \subseteq Requests
    BY BlockerAssumption DEF Init, Place
  <2>4. up \in [Services -> BOOLEAN] /\ pend \in [Services -> SUBSET Requests] /\ where \in [Requests -> Services \cup {None}]
    BY BlockerAssumption DEF Init, Place
  <2>5. tool \in [Requests -> Place] /\ answer \in [Requests -> {"none", "yes",
        "no"}] /\ told \in [Requests -> {"none", "yes", "no"}]
    BY BlockerAssumption DEF Init, Place
  <2>6. cpc \in [Clients -> {"idle", "claim", "settle", "tell", "sweep", "answer"}]
    BY BlockerAssumption DEF Init, Place
  <2>7. op \in [Clients -> Op \cup {NoOp}] /\ \A c \in Clients : cpc[c] # "idle" => op[c] \in Op
    BY BlockerAssumption DEF Init, Place
  <2>8. rest \in [Clients -> SUBSET Requests]
    BY BlockerAssumption DEF Init, Place
  <2>9. /\ mover \in Sessions \cup {None} /\ edit \in [Editors -> Edit \cup {NoEdit}]
        /\ astray \subseteq Requests /\ upsets \in 0..MaxUpsets
    BY BlockerAssumption DEF Init, Place
  <2> QED BY <2>1, <2>2, <2>3, <2>4, <2>5, <2>6, <2>7, <2>8, <2>9 DEF TypeOK
<1> QED BY <1>1, TypeStep, PTL DEF Spec

-----------------------------------------------------------------------------
(* Asking, deciding and answering go in this order. *)
LEMMA AskedStep == ASSUME TypeOK, TypeOK', Asked, Carried, [Next]_vars PROVE Asked'
<1> USE BlockerAssumption DEF TypeOK, Asked, Carried
<1>1. ASSUME NEW r \in Requests, NEW s \in Services, Ask(r, s) PROVE Asked'
  BY <1>1 DEF Ask
<1>2. ASSUME NEW r \in Requests, Insert(r) PROVE Asked'
  BY <1>2 DEF Insert
<1>3. ASSUME NEW r \in Requests, Register(r) PROVE Asked'
  BY <1>3 DEF Register
<1>4. ASSUME NEW r \in Requests, Announce(r) PROVE Asked'
  BY <1>4 DEF Announce
<1>5. ASSUME NEW r \in Requests, Resume(r) PROVE Asked'
  BY <1>5 DEF Resume
<1>6. ASSUME NEW r \in Requests, Interrupt(r) PROVE Asked'
  BY <1>6 DEF Interrupt
<1>7. ASSUME NEW c \in Clients, NEW s \in Services, NEW r \in Requests, NEW v \in Verdict,
      Reply(c, s, r, v) PROVE Asked'
  BY <1>7 DEF Reply
<1>8. ASSUME NEW c \in Clients, Claim(c) PROVE Asked'
  BY <1>8 DEF Claim
<1>9. ASSUME NEW c \in Clients, SettleOwn(c) PROVE Asked'
  BY <1>9 DEF SettleOwn
<1>10. ASSUME NEW c \in Clients, TellOwn(c) PROVE Asked'
  BY <1>10 DEF TellOwn
<1>11. ASSUME NEW c \in Clients, Sweep(c) PROVE Asked'
  BY <1>11 DEF Sweep
<1>12. ASSUME NEW c \in Clients, SweepAnswer(c) PROVE Asked'
  BY <1>12 DEF SweepAnswer
<1>13. ASSUME NEW x \in Sessions, MoveCheck(x) PROVE Asked'
  BY <1>13 DEF MoveCheck
<1>14. CASE MoveCommit
  BY <1>14 DEF MoveCommit, Blocked, Open
<1>15. ASSUME NEW s \in Services, Boot(s) PROVE Asked'
  BY <1>15 DEF Boot
<1>16. ASSUME NEW s \in Services, Close(s) PROVE Asked'
  BY <1>16 DEF Close, Gone
<1>17. ASSUME NEW s \in Services, Crash(s) PROVE Asked'
  BY <1>17 DEF Crash, Gone
<1>18. CASE UNCHANGED vars
  BY <1>18 DEF vars
<1>19. ASSUME NEW r \in Requests, Withdraw(r) PROVE Asked'
  BY <1>19 DEF Withdraw
<1>20. ASSUME NEW x \in Sessions, Import(x) PROVE Asked'
  BY <1>20 DEF Import, Rehome, Open
<1>21. ASSUME NEW x \in Sessions, Delete(x) PROVE Asked'
  BY <1>21 DEF Delete, Open
<1>22. ASSUME NEW e \in Editors, Updated(e) PROVE Asked'
  BY <1>22 DEF Updated, Rehome, Open
<1>23. ASSUME NEW e \in Editors, NEW x \in Sessions, Patch(e, x) PROVE Asked'
  BY <1>23 DEF Patch
<1> QED BY <1>1, <1>2, <1>3, <1>4, <1>5, <1>6, <1>7, <1>8, <1>9, <1>10, <1>11, <1>12, <1>13,
    <1>14, <1>15, <1>16, <1>17, <1>18, <1>19, <1>20, <1>21,
    <1>22, <1>23 DEF Next, ToolStep, ReplyStep

(* A reply keeps the verdict with which it won. *)
LEMMA CarriedStep == ASSUME TypeOK, TypeOK', Asked, Carried, [Next]_vars PROVE Carried'
<1> USE BlockerAssumption DEF TypeOK, Asked, Carried
<1>1. ASSUME NEW r \in Requests, NEW s \in Services, Ask(r, s) PROVE Carried'
  BY <1>1 DEF Ask
<1>2. ASSUME NEW r \in Requests, Insert(r) PROVE Carried'
  BY <1>2 DEF Insert
<1>3. ASSUME NEW r \in Requests, Register(r) PROVE Carried'
  BY <1>3 DEF Register
<1>4. ASSUME NEW r \in Requests, Announce(r) PROVE Carried'
  BY <1>4 DEF Announce
<1>5. ASSUME NEW r \in Requests, Resume(r) PROVE Carried'
  BY <1>5 DEF Resume
<1>6. ASSUME NEW r \in Requests, Interrupt(r) PROVE Carried'
  BY <1>6 DEF Interrupt
<1>7. ASSUME NEW c \in Clients, NEW s \in Services, NEW r \in Requests, NEW v \in Verdict,
      Reply(c, s, r, v) PROVE Carried'
  BY <1>7 DEF Reply
<1>8. ASSUME NEW c \in Clients, Claim(c) PROVE Carried'
  BY <1>8 DEF Claim
<1>9. ASSUME NEW c \in Clients, SettleOwn(c) PROVE Carried'
  BY <1>9 DEF SettleOwn
<1>10. ASSUME NEW c \in Clients, TellOwn(c) PROVE Carried'
  BY <1>10 DEF TellOwn
<1>11. ASSUME NEW c \in Clients, Sweep(c) PROVE Carried'
  BY <1>11 DEF Sweep
<1>12. ASSUME NEW c \in Clients, SweepAnswer(c) PROVE Carried'
  BY <1>12 DEF SweepAnswer
<1>13. ASSUME NEW x \in Sessions, MoveCheck(x) PROVE Carried'
  BY <1>13 DEF MoveCheck
<1>14. CASE MoveCommit
  BY <1>14 DEF MoveCommit, Blocked, Open
<1>15. ASSUME NEW s \in Services, Boot(s) PROVE Carried'
  BY <1>15 DEF Boot
<1>16. ASSUME NEW s \in Services, Close(s) PROVE Carried'
  BY <1>16 DEF Close, Gone
<1>17. ASSUME NEW s \in Services, Crash(s) PROVE Carried'
  BY <1>17 DEF Crash, Gone
<1>18. CASE UNCHANGED vars
  BY <1>18 DEF vars
<1>19. ASSUME NEW r \in Requests, Withdraw(r) PROVE Carried'
  BY <1>19 DEF Withdraw
<1>20. ASSUME NEW x \in Sessions, Import(x) PROVE Carried'
  BY <1>20 DEF Import, Rehome, Open
<1>21. ASSUME NEW x \in Sessions, Delete(x) PROVE Carried'
  BY <1>21 DEF Delete, Open
<1>22. ASSUME NEW e \in Editors, Updated(e) PROVE Carried'
  BY <1>22 DEF Updated, Rehome, Open
<1>23. ASSUME NEW e \in Editors, NEW x \in Sessions, Patch(e, x) PROVE Carried'
  BY <1>23 DEF Patch
<1> QED BY <1>1, <1>2, <1>3, <1>4, <1>5, <1>6, <1>7, <1>8, <1>9, <1>10, <1>11, <1>12, <1>13,
    <1>14, <1>15, <1>16, <1>17, <1>18, <1>19, <1>20, <1>21,
    <1>22, <1>23 DEF Next, ToolStep, ReplyStep

(* Only an update or an import parts a request from its Session. *)
LEMMA RowsAtHomeStep == ASSUME TypeOK, TypeOK', Asked, RowsAtHome,
      [Next]_vars PROVE RowsAtHome'
<1> USE BlockerAssumption DEF TypeOK, Asked, RowsAtHome
<1>1. ASSUME NEW r \in Requests, NEW s \in Services, Ask(r, s) PROVE RowsAtHome'
  BY <1>1 DEF Ask
<1>2. ASSUME NEW r \in Requests, Insert(r) PROVE RowsAtHome'
  BY <1>2 DEF Insert
<1>3. ASSUME NEW r \in Requests, Register(r) PROVE RowsAtHome'
  BY <1>3 DEF Register
<1>4. ASSUME NEW r \in Requests, Announce(r) PROVE RowsAtHome'
  BY <1>4 DEF Announce
<1>5. ASSUME NEW r \in Requests, Resume(r) PROVE RowsAtHome'
  BY <1>5 DEF Resume
<1>6. ASSUME NEW r \in Requests, Interrupt(r) PROVE RowsAtHome'
  BY <1>6 DEF Interrupt
<1>7. ASSUME NEW c \in Clients, NEW s \in Services, NEW r \in Requests, NEW v \in Verdict,
      Reply(c, s, r, v) PROVE RowsAtHome'
  BY <1>7 DEF Reply
<1>8. ASSUME NEW c \in Clients, Claim(c) PROVE RowsAtHome'
  BY <1>8 DEF Claim
<1>9. ASSUME NEW c \in Clients, SettleOwn(c) PROVE RowsAtHome'
  BY <1>9 DEF SettleOwn
<1>10. ASSUME NEW c \in Clients, TellOwn(c) PROVE RowsAtHome'
  BY <1>10 DEF TellOwn
<1>11. ASSUME NEW c \in Clients, Sweep(c) PROVE RowsAtHome'
  BY <1>11 DEF Sweep
<1>12. ASSUME NEW c \in Clients, SweepAnswer(c) PROVE RowsAtHome'
  BY <1>12 DEF SweepAnswer
<1>13. ASSUME NEW x \in Sessions, MoveCheck(x) PROVE RowsAtHome'
  BY <1>13 DEF MoveCheck
<1>14. CASE MoveCommit
  BY <1>14 DEF MoveCommit, Blocked, Open
<1>15. ASSUME NEW s \in Services, Boot(s) PROVE RowsAtHome'
  BY <1>15 DEF Boot
<1>16. ASSUME NEW s \in Services, Close(s) PROVE RowsAtHome'
  BY <1>16 DEF Close, Gone
<1>17. ASSUME NEW s \in Services, Crash(s) PROVE RowsAtHome'
  BY <1>17 DEF Crash, Gone
<1>18. CASE UNCHANGED vars
  BY <1>18 DEF vars
<1>19. ASSUME NEW r \in Requests, Withdraw(r) PROVE RowsAtHome'
  BY <1>19 DEF Withdraw
<1>20. ASSUME NEW x \in Sessions, Import(x) PROVE RowsAtHome'
  BY <1>20 DEF Import, Rehome, Open
<1>21. ASSUME NEW x \in Sessions, Delete(x) PROVE RowsAtHome'
  BY <1>21 DEF Delete, Open
<1>22. ASSUME NEW e \in Editors, Updated(e) PROVE RowsAtHome'
  BY <1>22 DEF Updated, Rehome, Open
<1>23. ASSUME NEW e \in Editors, NEW x \in Sessions, Patch(e, x) PROVE RowsAtHome'
  BY <1>23 DEF Patch
<1> QED BY <1>1, <1>2, <1>3, <1>4, <1>5, <1>6, <1>7, <1>8, <1>9, <1>10, <1>11, <1>12, <1>13,
    <1>14, <1>15, <1>16, <1>17, <1>18, <1>19, <1>20, <1>21,
    <1>22, <1>23 DEF Next, ToolStep, ReplyStep

(* Answers, events and saved rules follow the winner. *)
LEMMA OneVerdictStep == ASSUME TypeOK, TypeOK', Asked, Carried, OneVerdict,
      [Next]_vars PROVE OneVerdict'
<1> USE BlockerAssumption DEF TypeOK, Asked, Carried, OneVerdict
<1>1. ASSUME NEW r \in Requests, NEW s \in Services, Ask(r, s) PROVE OneVerdict'
  BY <1>1 DEF Ask
<1>2. ASSUME NEW r \in Requests, Insert(r) PROVE OneVerdict'
  BY <1>2 DEF Insert
<1>3. ASSUME NEW r \in Requests, Register(r) PROVE OneVerdict'
  BY <1>3 DEF Register
<1>4. ASSUME NEW r \in Requests, Announce(r) PROVE OneVerdict'
  BY <1>4 DEF Announce
<1>5. ASSUME NEW r \in Requests, Resume(r) PROVE OneVerdict'
  BY <1>5 DEF Resume
<1>6. ASSUME NEW r \in Requests, Interrupt(r) PROVE OneVerdict'
  BY <1>6 DEF Interrupt
<1>7. ASSUME NEW c \in Clients, NEW s \in Services, NEW r \in Requests, NEW v \in Verdict,
      Reply(c, s, r, v) PROVE OneVerdict'
  BY <1>7 DEF Reply
<1>8. ASSUME NEW c \in Clients, Claim(c) PROVE OneVerdict'
  BY <1>8 DEF Claim
<1>9. ASSUME NEW c \in Clients, SettleOwn(c) PROVE OneVerdict'
  BY <1>9 DEF SettleOwn
<1>10. ASSUME NEW c \in Clients, TellOwn(c) PROVE OneVerdict'
  BY <1>10 DEF TellOwn
<1>11. ASSUME NEW c \in Clients, Sweep(c) PROVE OneVerdict'
  BY <1>11 DEF Sweep
<1>12. ASSUME NEW c \in Clients, SweepAnswer(c) PROVE OneVerdict'
  BY <1>12 DEF SweepAnswer
<1>13. ASSUME NEW x \in Sessions, MoveCheck(x) PROVE OneVerdict'
  BY <1>13 DEF MoveCheck
<1>14. CASE MoveCommit
  BY <1>14 DEF MoveCommit, Blocked, Open
<1>15. ASSUME NEW s \in Services, Boot(s) PROVE OneVerdict'
  BY <1>15 DEF Boot
<1>16. ASSUME NEW s \in Services, Close(s) PROVE OneVerdict'
  BY <1>16 DEF Close, Gone
<1>17. ASSUME NEW s \in Services, Crash(s) PROVE OneVerdict'
  BY <1>17 DEF Crash, Gone
<1>18. CASE UNCHANGED vars
  BY <1>18 DEF vars
<1>19. ASSUME NEW r \in Requests, Withdraw(r) PROVE OneVerdict'
  BY <1>19 DEF Withdraw
<1>20. ASSUME NEW x \in Sessions, Import(x) PROVE OneVerdict'
  BY <1>20 DEF Import, Rehome, Open
<1>21. ASSUME NEW x \in Sessions, Delete(x) PROVE OneVerdict'
  BY <1>21 DEF Delete, Open
<1>22. ASSUME NEW e \in Editors, Updated(e) PROVE OneVerdict'
  BY <1>22 DEF Updated, Rehome, Open
<1>23. ASSUME NEW e \in Editors, NEW x \in Sessions, Patch(e, x) PROVE OneVerdict'
  BY <1>23 DEF Patch
<1> QED BY <1>1, <1>2, <1>3, <1>4, <1>5, <1>6, <1>7, <1>8, <1>9, <1>10, <1>11, <1>12, <1>13,
    <1>14, <1>15, <1>16, <1>17, <1>18, <1>19, <1>20, <1>21,
    <1>22, <1>23 DEF Next, ToolStep, ReplyStep

(* What has a row keeps its entry. *)
LEMMA ListedStep == ASSUME TypeOK, TypeOK', Asked, RowsAtHome, Carried, Listed,
      [Next]_vars PROVE Listed'
<1> USE BlockerAssumption DEF TypeOK, Asked, RowsAtHome, Carried, Listed
<1>1. ASSUME NEW r \in Requests, NEW s \in Services, Ask(r, s) PROVE Listed'
  BY <1>1 DEF Ask
<1>2. ASSUME NEW r \in Requests, Insert(r) PROVE Listed'
  BY <1>2 DEF Insert
<1>3. ASSUME NEW r \in Requests, Register(r) PROVE Listed'
  BY <1>3 DEF Register
<1>4. ASSUME NEW r \in Requests, Announce(r) PROVE Listed'
  <2>1. CASE pend' = pend
    BY <1>4, <2>1 DEF Announce
  <2>2. CASE Becomes(r, "withdrawn") /\ Leave(where[r], r)
    BY <1>4, <2>2 DEF Announce
  <2> QED BY <1>4, <2>1, <2>2 DEF Announce
<1>5. ASSUME NEW r \in Requests, Resume(r) PROVE Listed'
  BY <1>5 DEF Resume
<1>6. ASSUME NEW r \in Requests, Interrupt(r) PROVE Listed'
  BY <1>6 DEF Interrupt
<1>7. ASSUME NEW c \in Clients, NEW s \in Services, NEW r \in Requests, NEW v \in Verdict,
      Reply(c, s, r, v) PROVE Listed'
  BY <1>7 DEF Reply
<1>8. ASSUME NEW c \in Clients, Claim(c) PROVE Listed'
  BY <1>8 DEF Claim
<1>9. ASSUME NEW c \in Clients, SettleOwn(c) PROVE Listed'
  BY <1>9 DEF SettleOwn
<1>10. ASSUME NEW c \in Clients, TellOwn(c) PROVE Listed'
  BY <1>10 DEF TellOwn
<1>11. ASSUME NEW c \in Clients, Sweep(c) PROVE Listed'
  BY <1>11 DEF Sweep
<1>12. ASSUME NEW c \in Clients, SweepAnswer(c) PROVE Listed'
  BY <1>12 DEF SweepAnswer
<1>13. ASSUME NEW x \in Sessions, MoveCheck(x) PROVE Listed'
  BY <1>13 DEF MoveCheck
<1>14. CASE MoveCommit
  BY <1>14 DEF MoveCommit, Blocked, Open
<1>15. ASSUME NEW s \in Services, Boot(s) PROVE Listed'
  BY <1>15 DEF Boot
<1>16. ASSUME NEW s \in Services, Close(s) PROVE Listed'
  BY <1>16 DEF Close, Gone
<1>17. ASSUME NEW s \in Services, Crash(s) PROVE Listed'
  BY <1>17 DEF Crash, Gone
<1>18. CASE UNCHANGED vars
  BY <1>18 DEF vars
<1>19. ASSUME NEW r \in Requests, Withdraw(r) PROVE Listed'
  BY <1>19 DEF Withdraw
<1>20. ASSUME NEW x \in Sessions, Import(x) PROVE Listed'
  BY <1>20 DEF Import, Rehome, Open
<1>21. ASSUME NEW x \in Sessions, Delete(x) PROVE Listed'
  BY <1>21 DEF Delete, Open
<1>22. ASSUME NEW e \in Editors, Updated(e) PROVE Listed'
  BY <1>22 DEF Updated, Rehome, Open
<1>23. ASSUME NEW e \in Editors, NEW x \in Sessions, Patch(e, x) PROVE Listed'
  BY <1>23 DEF Patch
<1> QED BY <1>1, <1>2, <1>3, <1>4, <1>5, <1>6, <1>7, <1>8, <1>9, <1>10, <1>11, <1>12, <1>13,
    <1>14, <1>15, <1>16, <1>17, <1>18, <1>19, <1>20, <1>21,
    <1>22, <1>23 DEF Next, ToolStep, ReplyStep

-----------------------------------------------------------------------------
LEMMA BlockerInitially == Init => BlockerInv
  BY BlockerAssumption DEF Init, BlockerInv, Asked, Carried, RowsAtHome, OneVerdict, Listed

(* The invariant that the properties of the run follow from. *)
THEOREM BlockerInvariant == Spec => []BlockerInv
<1>1. TypeOK /\ TypeOK' /\ BlockerInv /\ [Next]_vars => BlockerInv'
  BY AskedStep, CarriedStep, RowsAtHomeStep, OneVerdictStep, ListedStep DEF BlockerInv
<1> QED BY <1>1, BlockerInitially, BlockerTypeCorrect, PTL DEF Spec

(* A pending request stays with the location its Session lives at, unless an    *)
(* update or an import takes the Session elsewhere under it: a move and an ask    *)
(* that cross never leave a request where nobody can answer it, however updates,   *)
(* imports and deletions of this and other Sessions cross them.                    *)
THEOREM RequestsStayHome == Spec => []RowsAtHome
  BY BlockerInvariant, PTL DEF BlockerInv

(* Answers, Replied events and saved rules follow the reply that deleted the row. *)
THEOREM WinnerAnswers == Spec => []OneVerdict
  BY BlockerInvariant, PTL DEF BlockerInv

(* A decided request is never decided again. *)
THEOREM SettledOnce == Spec => VerdictIsFinal
<1>1. TypeOK /\ TypeOK' /\ BlockerInv /\ [Next]_vars
        => [\A r \in Requests : won[r] # None => won'[r] = won[r]]_vars
  <2> SUFFICES ASSUME TypeOK, Asked, [Next]_vars, NEW q \in Requests, won[q] # None
               PROVE won'[q] = won[q]
    BY DEF BlockerInv
  <2>1. q \notin rows
    BY DEF Asked
  <2>2. ASSUME NEW c \in Clients, Claim(c) PROVE won'[q] = won[q]
    BY <2>1, <2>2 DEF Claim, TypeOK
  <2>3. ASSUME NEW c \in Clients, Sweep(c) PROVE won'[q] = won[q]
    BY <2>1, <2>3 DEF Sweep, TypeOK
  <2>4. ASSUME NEW r \in Requests, NEW s \in Services, Ask(r, s) PROVE won' = won
    BY <2>4 DEF Ask
  <2>5. ASSUME NEW r \in Requests, ToolStep(r) \/ Interrupt(r) PROVE won' = won
    BY <2>5 DEF ToolStep, Insert, Register, Announce, Withdraw, Resume, Interrupt
  <2>6. ASSUME NEW c \in Clients, SettleOwn(c) \/ TellOwn(c) \/ SweepAnswer(c) PROVE won' = won
    BY <2>6 DEF SettleOwn, TellOwn, SweepAnswer
  <2>7. ASSUME NEW c \in Clients, NEW s \in Services, NEW r \in Requests, NEW v \in Verdict,
               Reply(c, s, r, v) PROVE won' = won
    BY <2>7 DEF Reply
  <2>8. ASSUME \/ MoveCommit \/ \E x \in Sessions : MoveCheck(x) \/ Import(x) \/ Delete(x)
               \/ \E e \in Editors : Updated(e) \/ \E x \in Sessions : Patch(e, x)
        PROVE won' = won
    BY <2>8 DEF MoveCommit, MoveCheck, Import, Delete, Updated, Patch
  <2>9. ASSUME NEW s \in Services, Boot(s) \/ Close(s) \/ Crash(s) PROVE won' = won
    BY <2>9 DEF Boot, Close, Crash, Gone
  <2>10. CASE UNCHANGED vars
    BY <2>10 DEF vars
  <2> QED BY <2>2, <2>3, <2>4, <2>5, <2>6, <2>7, <2>8, <2>9, <2>10 DEF Next, ReplyStep
<1> QED BY <1>1, BlockerInvariant, BlockerTypeCorrect, PTL DEF Spec, VerdictIsFinal

-----------------------------------------------------------------------------
(* With one service per location, as in one process. *)
OnePerLocation == \A s, t \in Services : At[s] = At[t] => s = t

(* Only the tool of a request and its answers touch its entries. *)
LEMMA HeldStep ==
  ASSUME OnePerLocation, TypeOK, TypeOK', Asked, Carried, RowsAtHome, Held, Answering,
         [Next]_vars PROVE Held'
<1> USE BlockerAssumption DEF TypeOK, Asked, Carried, RowsAtHome, Held, Entered, OnePerLocation
<1>1. ASSUME NEW r \in Requests, NEW s \in Services, Ask(r, s) PROVE Held'
  BY <1>1 DEF Ask
<1>2. ASSUME NEW r \in Requests, Insert(r) PROVE Held'
  BY <1>2 DEF Insert
<1>3. ASSUME NEW r \in Requests, Register(r) PROVE Held'
  BY <1>3 DEF Register
<1>4. ASSUME NEW r \in Requests, Announce(r) PROVE Held'
  BY <1>4 DEF Announce
<1>5. ASSUME NEW r \in Requests, Resume(r) PROVE Held'
  BY <1>5 DEF Resume
<1>6. ASSUME NEW r \in Requests, Interrupt(r) PROVE Held'
  BY <1>6 DEF Interrupt
<1>7. ASSUME NEW c \in Clients, NEW s \in Services, NEW r \in Requests, NEW v \in Verdict,
      Reply(c, s, r, v) PROVE Held'
  BY <1>7 DEF Reply
<1>8. ASSUME NEW c \in Clients, Claim(c) PROVE Held'
  <2>1. \/ cpc' = [cpc EXCEPT ![c] = "idle"] /\ op' = [op EXCEPT ![c] = NoOp]
           /\ rest' = [rest EXCEPT ![c] = {}]
        \/ cpc' = [cpc EXCEPT ![c] = "settle"] /\ op' = op /\ rest' = rest
    BY <1>8 DEF Claim
  <2>2. cpc[c] = "claim" /\ op[c] \in Op
    BY <1>8 DEF Claim
  <2>3. pend' = pend /\ where' = where /\ tool' = tool /\ astray' = astray
    BY <1>8 DEF Claim
  <2>4. \A k \in Clients \ {c} : cpc'[k] = cpc[k] /\ op'[k] = op[k] /\ rest'[k] = rest[k]
    BY <2>1
  <2>5. \/ cpc'[c] = "idle" /\ op'[c] = NoOp /\ rest'[c] = {}
        \/ cpc'[c] = "settle" /\ op'[c] = op[c] /\ rest'[c] = rest[c]
    BY <2>1
  <2>6. \A s \in Services : \A r \in pend'[s] : Entered(r, s)'
    BY <2>3
  <2>7. ASSUME NEW k \in Clients
        PROVE  /\ cpc'[k] # "idle" => Entered(op[k].req, op[k].at)'
               /\ cpc'[k] = "idle" => op'[k] = NoOp
               /\ \A r \in rest'[k] : cpc'[k] # "idle" /\ Entered(r, op[k].at)'
    <3>1. CASE k = c
      BY <3>1, <2>2, <2>3, <2>5
    <3>2. CASE k # c
      BY <3>2, <2>3, <2>4
    <3> QED BY <3>1, <3>2
  <2> QED BY <2>6, <2>7
<1>9. ASSUME NEW c \in Clients, SettleOwn(c) PROVE Held'
  BY <1>9 DEF SettleOwn
<1>10. ASSUME NEW c \in Clients, TellOwn(c) PROVE Held'
  <2>1. \/ cpc' = [cpc EXCEPT ![c] = "idle"] /\ op' = [op EXCEPT ![c] = NoOp]
           /\ rest' = [rest EXCEPT ![c] = {}]
        \/ cpc' = [cpc EXCEPT ![c] = "sweep"] /\ op' = op
           /\ \E S \in SUBSET pend[op[c].at] : rest' = [rest EXCEPT ![c] = S]
    BY <1>10 DEF TellOwn
  <2>2. op[c] \in Op /\ \A r \in pend[op[c].at] : Entered(r, op[c].at)
    BY <1>10 DEF TellOwn
  <2>3. pend' = pend /\ where' = where /\ tool' = tool /\ astray' = astray
    BY <1>10 DEF TellOwn
  <2>4. \A k \in Clients \ {c} : cpc'[k] = cpc[k] /\ op'[k] = op[k] /\ rest'[k] = rest[k]
    BY <2>1
  <2>5. \/ cpc'[c] = "idle" /\ op'[c] = NoOp /\ rest'[c] = {}
        \/ cpc'[c] = "sweep" /\ op'[c] = op[c] /\ rest'[c] \subseteq pend[op[c].at]
    BY <2>1
  <2>6. cpc[c] = "tell"
    BY <1>10 DEF TellOwn
  <2>7. \A s \in Services : \A r \in pend'[s] : Entered(r, s)'
    BY <2>3
  <2>8. ASSUME NEW k \in Clients
        PROVE  /\ cpc'[k] # "idle" => Entered(op[k].req, op[k].at)'
               /\ cpc'[k] = "idle" => op'[k] = NoOp
               /\ \A r \in rest'[k] : cpc'[k] # "idle" /\ Entered(r, op[k].at)'
    <3>1. CASE k = c
      BY <3>1, <2>2, <2>3, <2>5, <2>6
    <3>2. CASE k # c
      BY <3>2, <2>3, <2>4
    <3> QED BY <3>1, <3>2
  <2> QED BY <2>7, <2>8
<1>11. ASSUME NEW c \in Clients, Sweep(c) PROVE Held'
  <2>1. \/ cpc' = [cpc EXCEPT ![c] = "idle"] /\ op' = [op EXCEPT ![c] = NoOp]
           /\ rest' = [rest EXCEPT ![c] = {}]
        \/ \E r \in rest[c] :
             /\ rest' = [rest EXCEPT ![c] = @ \ {r}]
             /\ \/ cpc' = [cpc EXCEPT ![c] = "answer"] /\ op' = [op EXCEPT ![c].req = r]
                \/ cpc' = cpc /\ op' = op
    BY <1>11 DEF Sweep
  <2>2. cpc[c] = "sweep" /\ op[c] \in Op
    BY <1>11 DEF Sweep
  <2>3. pend' = pend /\ where' = where /\ tool' = tool /\ astray' = astray
    BY <1>11 DEF Sweep
  <2>4. \A k \in Clients \ {c} : cpc'[k] = cpc[k] /\ op'[k] = op[k] /\ rest'[k] = rest[k]
    BY <2>1
  <2>5. \/ cpc'[c] = "idle" /\ op'[c] = NoOp /\ rest'[c] = {}
        \/ /\ cpc'[c] \in {"answer", "sweep"} /\ rest'[c] \subseteq rest[c]
           /\ op'[c].at = op[c].at /\ op'[c].req \in rest[c] \cup {op[c].req}
    BY <2>1, <2>2
  <2>6. \A s \in Services : \A r \in pend'[s] : Entered(r, s)'
    BY <2>3
  <2>7. ASSUME NEW k \in Clients
        PROVE  /\ cpc'[k] # "idle" => Entered(op[k].req, op[k].at)'
               /\ cpc'[k] = "idle" => op'[k] = NoOp
               /\ \A r \in rest'[k] : cpc'[k] # "idle" /\ Entered(r, op[k].at)'
    <3>1. CASE k = c
      BY <3>1, <2>2, <2>3, <2>5
    <3>2. CASE k # c
      BY <3>2, <2>3, <2>4
    <3> QED BY <3>1, <3>2
  <2> QED BY <2>6, <2>7
<1>12. ASSUME NEW c \in Clients, SweepAnswer(c) PROVE Held'
  BY <1>12 DEF SweepAnswer
<1>13. ASSUME NEW x \in Sessions, MoveCheck(x) PROVE Held'
  BY <1>13 DEF MoveCheck
<1>14. CASE MoveCommit
  BY <1>14 DEF MoveCommit, Blocked, Open
<1>15. ASSUME NEW s \in Services, Boot(s) PROVE Held'
  <2>1. \A r \in pend'[s] : Entered(r, s)
    BY <1>15 DEF Boot, Answering
  <2> QED BY <1>15, <2>1 DEF Boot
<1>16. ASSUME NEW s \in Services, Close(s) PROVE Held'
  BY <1>16 DEF Close, Gone
<1>17. ASSUME NEW s \in Services, Crash(s) PROVE Held'
  BY <1>17 DEF Crash, Gone
<1>18. CASE UNCHANGED vars
  BY <1>18 DEF vars
<1>19. ASSUME NEW r \in Requests, Withdraw(r) PROVE Held'
  BY <1>19 DEF Withdraw
<1>20. ASSUME NEW x \in Sessions, Import(x) PROVE Held'
  BY <1>20 DEF Import, Rehome, Open
<1>21. ASSUME NEW x \in Sessions, Delete(x) PROVE Held'
  BY <1>21 DEF Delete, Open
<1>22. ASSUME NEW e \in Editors, Updated(e) PROVE Held'
  BY <1>22 DEF Updated, Rehome, Open
<1>23. ASSUME NEW e \in Editors, NEW x \in Sessions, Patch(e, x) PROVE Held'
  BY <1>23 DEF Patch
<1> QED BY <1>1, <1>2, <1>3, <1>4, <1>5, <1>6, <1>7, <1>8, <1>9, <1>10, <1>11, <1>12, <1>13,
    <1>14, <1>15, <1>16, <1>17, <1>18, <1>19, <1>20, <1>21,
    <1>22, <1>23 DEF Next, ToolStep, ReplyStep

(* A reply that is not about to answer has nobody's answer to lose. *)
LEMMA DecidedStays ==
  ASSUME NEW c \in Clients, cpc[c] \notin {"settle", "answer"}, answer' = answer,
         \A k \in Clients \ {c} : cpc'[k] = cpc[k] /\ op'[k] = op[k],
         NEW q \in Requests, Decided(q)
  PROVE  Decided(q)'
  BY DEF Decided

(* A tool that waits has a row, an answer, or a reply that is about to give one. *)
LEMMA AnsweringStep ==
  ASSUME TypeOK, TypeOK', Asked, Carried, Held, Answering,
         [Next]_vars PROVE Answering'
<1> USE BlockerAssumption DEF TypeOK, Asked, Carried, Held, Entered, Answering, Decided
<1>1. ASSUME NEW r \in Requests, NEW s \in Services, Ask(r, s) PROVE Answering'
  BY <1>1 DEF Ask
<1>2. ASSUME NEW r \in Requests, Insert(r) PROVE Answering'
  BY <1>2 DEF Insert
<1>3. ASSUME NEW r \in Requests, Register(r) PROVE Answering'
  BY <1>3 DEF Register
<1>4. ASSUME NEW r \in Requests, Announce(r) PROVE Answering'
  BY <1>4 DEF Announce
<1>5. ASSUME NEW r \in Requests, Resume(r) PROVE Answering'
  BY <1>5 DEF Resume
<1>6. ASSUME NEW r \in Requests, Interrupt(r) PROVE Answering'
  BY <1>6 DEF Interrupt
<1>7. ASSUME NEW c \in Clients, NEW s \in Services, NEW r \in Requests, NEW v \in Verdict,
      Reply(c, s, r, v) PROVE Answering'
  BY <1>7 DEF Reply
<1>8. ASSUME NEW c \in Clients, Claim(c) PROVE Answering'
  <2>1. cpc[c] = "claim" /\ op[c] \in Op /\ tool' = tool /\ where' = where /\ up' = up
        /\ answer' = answer /\ astray' = astray
    BY <1>8 DEF Claim
  <2>2. CASE Claims(op[c].req, op[c].verdict) /\ Step(c, "settle") /\ op' = op
    <3>1. cpc'[c] = "settle" /\ \A k \in Clients \ {c} : cpc'[k] = cpc[k] /\ op'[k] = op[k]
      BY <2>2
    <3>2. \A q \in Requests : Decided(q) => Decided(q)'
      BY <2>1, <3>1, DecidedStays
    <3>3. Decided(op[c].req)'
      BY <2>2, <3>1
    <3>4. \A q \in Requests : q # op[c].req => (q \in rows' <=> q \in rows)
      BY <2>2
    <3>5. tool[op[c].req] = "inserted" => op[c].req \in astray
      BY <2>1
    <3>6. ASSUME NEW q \in Requests
          PROVE  /\ tool'[q] \in {"asked", "inserted", "entered", "waiting"} => up'[where'[q]]
                 /\ tool'[q] = "inserted" => q \in rows' \cup astray'
                 /\ tool'[q] \in {"entered", "waiting"} /\ q \notin rows' \cup astray'
                      => Decided(q)'
      <4>1. CASE q = op[c].req
        <5>1. Decided(q)'
          BY <2>2, <3>3, <4>1
        <5> QED BY <4>1, <2>1, <3>5, <5>1
      <4>2. CASE q # op[c].req
        BY <4>2, <2>1, <3>2, <3>4
      <4> QED BY <4>1, <4>2
    <3> QED BY <3>6
  <2>3. CASE Done(c) /\ rows' = rows
    BY <2>1, <2>3
  <2> QED BY <1>8, <2>2, <2>3 DEF Claim
<1>9. ASSUME NEW c \in Clients, SettleOwn(c) PROVE Answering'
  BY <1>9 DEF SettleOwn
<1>10. ASSUME NEW c \in Clients, TellOwn(c) PROVE Answering'
  <2>1. /\ cpc[c] = "tell" /\ tool' = tool /\ where' = where /\ up' = up
        /\ answer' = answer /\ astray' = astray /\ rows' = rows
    BY <1>10 DEF TellOwn
  <2>2. \A k \in Clients \ {c} : cpc'[k] = cpc[k] /\ op'[k] = op[k]
    BY <1>10 DEF TellOwn
  <2>3. \A q \in Requests : Decided(q) => Decided(q)'
    BY <2>1, <2>2, DecidedStays
  <2> QED BY <2>1, <2>3
<1>11. ASSUME NEW c \in Clients, Sweep(c) PROVE Answering'
  <2>1. cpc[c] = "sweep" /\ op[c] \in Op /\ tool' = tool /\ where' = where /\ up' = up
        /\ answer' = answer /\ astray' = astray
    BY <1>11 DEF Sweep
  <2>2. CASE Done(c) /\ rows' = rows
    BY <2>1, <2>2
  <2>3. CASE cpc' = cpc /\ op' = op /\ rows' = rows
    BY <2>1, <2>3
  <2>4. ASSUME NEW r \in rest[c], Claims(r, op[c].verdict), Step(c, "answer"),
               op' = [op EXCEPT ![c].req = r]
        PROVE Answering'
    <3>1. cpc'[c] = "answer" /\ op'[c].req = r
      BY <2>1, <2>4
    <3>2. \A k \in Clients \ {c} : cpc'[k] = cpc[k] /\ op'[k] = op[k]
      BY <2>4
    <3>3. \A q \in Requests : q # r => (q \in rows' <=> q \in rows)
      BY <2>4
    <3>4. \A q \in Requests : Decided(q) => Decided(q)'
      BY <2>1, <3>2, DecidedStays
    <3>5. Decided(r)'
      BY <3>1
    <3>6. tool[r] = "inserted" => r \in astray
      BY <2>1
    <3>7. ASSUME NEW q \in Requests
          PROVE  /\ tool'[q] \in {"asked", "inserted", "entered", "waiting"} => up'[where'[q]]
                 /\ tool'[q] = "inserted" => q \in rows' \cup astray'
                 /\ tool'[q] \in {"entered", "waiting"} /\ q \notin rows' \cup astray'
                      => Decided(q)'
      <4>1. CASE q = r
        BY <4>1, <2>1, <3>5, <3>6
      <4>2. CASE q # r
        BY <4>2, <2>1, <3>3, <3>4
      <4> QED BY <4>1, <4>2
    <3> QED BY <3>7
  <2> QED BY <1>11, <2>2, <2>3, <2>4 DEF Sweep
<1>12. ASSUME NEW c \in Clients, SweepAnswer(c) PROVE Answering'
  BY <1>12 DEF SweepAnswer
<1>13. ASSUME NEW x \in Sessions, MoveCheck(x) PROVE Answering'
  BY <1>13 DEF MoveCheck
<1>14. CASE MoveCommit
  BY <1>14 DEF MoveCommit, Blocked, Open
<1>15. ASSUME NEW s \in Services, Boot(s) PROVE Answering'
  BY <1>15 DEF Boot
<1>16. ASSUME NEW s \in Services, Close(s) PROVE Answering'
  BY <1>16 DEF Close, Gone
<1>17. ASSUME NEW s \in Services, Crash(s) PROVE Answering'
  BY <1>17 DEF Crash, Gone
<1>18. CASE UNCHANGED vars
  BY <1>18 DEF vars
<1>19. ASSUME NEW r \in Requests, Withdraw(r) PROVE Answering'
  BY <1>19 DEF Withdraw
<1>20. ASSUME NEW x \in Sessions, Import(x) PROVE Answering'
  BY <1>20 DEF Import, Rehome, Open
<1>21. ASSUME NEW x \in Sessions, Delete(x) PROVE Answering'
  BY <1>21 DEF Delete, Open
<1>22. ASSUME NEW e \in Editors, Updated(e) PROVE Answering'
  BY <1>22 DEF Updated, Rehome, Open
<1>23. ASSUME NEW e \in Editors, NEW x \in Sessions, Patch(e, x) PROVE Answering'
  BY <1>23 DEF Patch
<1> QED BY <1>1, <1>2, <1>3, <1>4, <1>5, <1>6, <1>7, <1>8, <1>9, <1>10, <1>11, <1>12, <1>13,
    <1>14, <1>15, <1>16, <1>17, <1>18, <1>19, <1>20, <1>21,
    <1>22, <1>23 DEF Next, ToolStep, ReplyStep

(* No request is forgotten whose Session stays while it is pending: what has a   *)
(* row is listed where it can be answered, and a tool whose request has none has   *)
(* its answer, or a reply that won it and is about to give it.  For a request       *)
(* whose Session was updated away or deleted there is no such promise.               *)
THEOREM NoneForgotten == ASSUME OnePerLocation PROVE Spec => []NotForgotten
<1>1. Init => Held /\ Answering
  BY BlockerAssumption DEF Init, Held, Entered, Answering, Decided
<1>2. TypeOK /\ TypeOK' /\ BlockerInv /\ Held /\ Answering /\ [Next]_vars
        => Held' /\ Answering'
  BY HeldStep, AnsweringStep DEF BlockerInv
<1>3. BlockerInv /\ Answering => NotForgotten
  BY DEF BlockerInv, Answering, NotForgotten
<1> QED BY <1>1, <1>2, <1>3, BlockerInvariant, BlockerTypeCorrect, PTL DEF Spec

-----------------------------------------------------------------------------
(* A rule is added before anything is settled or swept in its name. *)
LEMMA RuledStep == ASSUME TypeOK, TypeOK', Ruled, [Next]_vars PROVE Ruled'
<1> USE BlockerAssumption DEF TypeOK, Ruled
<1>1. ASSUME NEW r \in Requests, NEW s \in Services, Ask(r, s) PROVE Ruled'
  BY <1>1 DEF Ask
<1>2. ASSUME NEW r \in Requests, ToolStep(r) \/ Interrupt(r) PROVE Ruled'
  BY <1>2 DEF ToolStep, Insert, Register, Announce, Withdraw, Resume, Interrupt
<1>3. ASSUME NEW c \in Clients, NEW s \in Services, NEW r \in Requests, NEW v \in Verdict,
      Reply(c, s, r, v) PROVE Ruled'
  BY <1>3 DEF Reply
<1>4. ASSUME NEW c \in Clients, Claim(c) PROVE Ruled'
  BY <1>4 DEF Claim
<1>5. ASSUME NEW c \in Clients, SettleOwn(c) PROVE Ruled'
  BY <1>5 DEF SettleOwn
<1>6. ASSUME NEW c \in Clients, TellOwn(c) PROVE Ruled'
  BY <1>6 DEF TellOwn
<1>7. ASSUME NEW c \in Clients, Sweep(c) PROVE Ruled'
  BY <1>7 DEF Sweep
<1>8. ASSUME NEW c \in Clients, SweepAnswer(c) PROVE Ruled'
  BY <1>8 DEF SweepAnswer
<1>9. ASSUME NEW x \in Sessions, MoveCheck(x) PROVE Ruled'
  BY <1>9 DEF MoveCheck
<1>10. CASE MoveCommit
  BY <1>10 DEF MoveCommit
<1>11. ASSUME NEW s \in Services, Boot(s) PROVE Ruled'
  BY <1>11 DEF Boot
<1>12. ASSUME NEW s \in Services, Close(s) PROVE Ruled'
  BY <1>12 DEF Close, Gone
<1>13. ASSUME NEW s \in Services, Crash(s) PROVE Ruled'
  BY <1>13 DEF Crash, Gone
<1>14. CASE UNCHANGED vars
  BY <1>14 DEF vars
<1>15. ASSUME NEW x \in Sessions, Import(x) PROVE Ruled'
  BY <1>15 DEF Import, Rehome, Open
<1>16. ASSUME NEW x \in Sessions, Delete(x) PROVE Ruled'
  BY <1>16 DEF Delete, Open
<1>17. ASSUME NEW e \in Editors, Updated(e) PROVE Ruled'
  BY <1>17 DEF Updated, Rehome, Open
<1>18. ASSUME NEW e \in Editors, NEW x \in Sessions, Patch(e, x) PROVE Ruled'
  BY <1>18 DEF Patch
<1> QED BY <1>1, <1>2, <1>3, <1>4, <1>5, <1>6, <1>7, <1>8, <1>9, <1>10, <1>11, <1>12, <1>13,
    <1>14, <1>15, <1>16,
    <1>17, <1>18 DEF Next, ReplyStep

(* An always reply never acts without its rule. *)
THEOREM RuleComesFirst == Spec => []Ruled
<1>1. Init => Ruled
  BY BlockerAssumption DEF Init, Ruled
<1> QED BY <1>1, RuledStep, BlockerTypeCorrect, PTL DEF Spec

-----------------------------------------------------------------------------
(* What a step does to one request: nothing, or what an action of the decision *)
(* does; and from the requests together to the action.                          *)
Kept(r) == Fate(r)' = Fate(r) /\ (tool'[r] = "allowed" <=> tool[r] = "allowed")
Quiet   == \A r \in Requests : Kept(r)
Others(r) == \A q \in Requests \ {r} : Kept(q)
Turns(r, f, g) ==
  /\ Fate(r) = f /\ Fate(r)' = g /\ (tool'[r] = "allowed" <=> tool[r] = "allowed")
  /\ Others(r)

LEMMA KeptIf ==
  ASSUME NEW r \in Requests, won'[r] = won[r], r \in rows' <=> r \in rows, tool'[r] = tool[r]
  PROVE  Kept(r)
  BY DEF Kept, Fate

LEMMA QuietMaps ==
  ASSUME Quiet, saved' = saved, told' = told
  PROVE  UNCHANGED Promise!vars
  BY DEF Quiet, Kept, Promise!vars

LEMMA AdmitMaps ==
  ASSUME NEW r \in Requests, Turns(r, "unasked", "pending"), saved' = saved, told' = told
  PROVE  Promise!Next
<1>1. Promise!Admit(r)
  BY DEF Turns, Others, Kept, Promise!Admit
<1> QED BY <1>1 DEF Promise!Next

LEMMA RefuseMaps ==
  ASSUME NEW S \in SUBSET Requests, saved' = saved, told' = told,
         \A r \in S : Fate(r) = "unasked" /\ Fate(r)' = "dropped"
                     /\ (tool'[r] = "allowed" <=> tool[r] = "allowed"),
         \A r \in Requests \ S : Kept(r)
  PROVE  Promise!Next
<1>1. Promise!Refuse(S)
  BY DEF Kept, Promise!Refuse
<1> QED BY <1>1 DEF Promise!Next

LEMMA CoverMaps ==
  ASSUME NEW r \in Requests, Fate(r) = "unasked", Fate(r)' = "covered", saved,
         tool'[r] = "allowed", Others(r), saved' = saved, told' = told
  PROVE  Promise!Next
<1>1. Promise!Cover(r)
  BY DEF Others, Kept, Promise!Cover
<1> QED BY <1>1 DEF Promise!Next

LEMMA WithdrawMaps ==
  ASSUME NEW S \in SUBSET Requests, saved' = saved, told' = told,
         \A r \in S : Fate(r) = "pending" /\ Fate(r)' = "dropped"
                     /\ (tool'[r] = "allowed" <=> tool[r] = "allowed"),
         \A r \in Requests \ S : Kept(r)
  PROVE  Promise!Next
<1>1. Promise!Withdraw(S)
  BY DEF Kept, Promise!Withdraw
<1> QED BY <1>1 DEF Promise!Next

LEMMA DecideMaps ==
  ASSUME NEW r \in Requests, NEW v \in Verdict, Turns(r, "pending", v),
         saved' = (saved \/ v = "always"), told' = told
  PROVE  Promise!Next
<1>1. Promise!Decide(r, v)
  BY DEF Turns, Others, Kept, Promise!Decide
<1> QED BY <1>1 DEF Promise!Next, Promise!Verdict

LEMMA SayMaps ==
  ASSUME NEW r \in Requests, Quiet, Fate(r) \in Verdict, Tell(r, Fate(r) \in Yes),
         saved' = saved
  PROVE  Promise!Next
<1>1. Promise!Say(r)
  BY DEF Quiet, Kept, Promise!Say, Promise!Verdict, Promise!Yes
<1> QED BY <1>1 DEF Promise!Next

LEMMA ProceedMaps ==
  ASSUME NEW S \in SUBSET Requests, saved' = saved, told' = told,
         \A r \in Requests : Fate(r)' = Fate(r),
         \A r \in S : Fate(r) \in Yes,
         \A r \in Requests : tool'[r] = "allowed" <=> tool[r] = "allowed" \/ r \in S
  PROVE  Promise!Next
<1>1. Promise!Proceed(S)
  BY DEF Promise!Proceed, Promise!Yes
<1> QED BY <1>1 DEF Promise!Next

(* The tool's steps: it asks, is admitted, withdraws, goes on. *)
LEMMA ToolMaps ==
  ASSUME TypeOK, Asked, OneVerdict, NEW r \in Requests,
         ToolStep(r) \/ Interrupt(r) \/ \E s \in Services : Ask(r, s)
  PROVE  Promise!Next \/ UNCHANGED Promise!vars
<1> USE BlockerAssumption DEF TypeOK, Place
<1>1. ASSUME NEW s \in Services, Ask(r, s) PROVE Promise!Next \/ UNCHANGED Promise!vars
  <2>1. /\ tool[r] = "new" /\ saved' = saved /\ told' = told /\ rows' = rows /\ won' = won
        /\ \A q \in Requests \ {r} : tool'[q] = tool[q]
        /\ tool'[r] = "over" \/ (saved /\ tool'[r] = "allowed") \/ tool'[r] = "asked"
    <3>1. tool' = [tool EXCEPT ![r] = IF ~Lives(r, s) THEN "over"
                                      ELSE IF saved THEN "allowed" ELSE "asked"]
      BY <1>1 DEF Ask
    <3>2. tool'[r] = "over" \/ (saved /\ tool'[r] = "allowed") \/ tool'[r] = "asked"
      BY <3>1, SMT
    <3>3. \A q \in Requests \ {r} : tool'[q] = tool[q]
      BY <3>1
    <3>4. tool[r] = "new" /\ saved' = saved /\ told' = told /\ rows' = rows /\ won' = won
      BY <1>1 DEF Ask
    <3> QED BY <3>2, <3>3, <3>4
  <2>2. Others(r)
    BY <2>1, KeptIf DEF Others
  <2>3. r \notin rows /\ won[r] = None /\ Fate(r) = "unasked"
    BY <2>1 DEF Asked, Fate
  <2>4. CASE tool'[r] = "over"
    <3>1. Fate(r)' = "dropped" /\ (tool'[r] = "allowed" <=> tool[r] = "allowed")
      BY <2>1, <2>3, <2>4 DEF Fate
    <3> QED BY <2>1, <2>2, <2>3, <3>1, RefuseMaps, {r} \in SUBSET Requests DEF Others
  <2>5. CASE saved /\ tool'[r] = "allowed"
    <3>1. Fate(r)' = "covered"
      BY <2>1, <2>3, <2>5 DEF Fate
    <3> QED BY <2>1, <2>2, <2>3, <2>5, <3>1, CoverMaps
  <2>6. CASE tool'[r] = "asked"
    <3>1. Kept(r)
      BY <2>1, <2>3, <2>6 DEF Fate, Kept
    <3> QED BY <2>1, <2>2, <3>1, QuietMaps DEF Others, Quiet
  <2> QED BY <2>1, <2>4, <2>5, <2>6
<1>2. CASE Insert(r)
  <2>1. /\ tool[r] = "asked" /\ saved' = saved /\ told' = told /\ won' = won
        /\ \A q \in Requests \ {r} : tool'[q] = tool[q] /\ (q \in rows' <=> q \in rows)
        /\ (tool'[r] = "inserted" /\ r \in rows') \/ (tool'[r] = "over" /\ rows' = rows)
    <3>1. \/ rows' = rows \cup {r} /\ tool' = [tool EXCEPT ![r] = "inserted"]
          \/ rows' = rows /\ tool' = [tool EXCEPT ![r] = "over"]
      BY <1>2 DEF Insert
    <3>2. tool[r] = "asked" /\ saved' = saved /\ told' = told /\ won' = won
      BY <1>2 DEF Insert
    <3> QED BY <3>1, <3>2
  <2>2. Others(r)
    BY <2>1, KeptIf DEF Others
  <2>3. r \notin rows /\ won[r] = None /\ Fate(r) = "unasked"
    BY <2>1 DEF Asked, Fate
  <2>4. CASE tool'[r] = "inserted" /\ r \in rows'
    <3>1. Turns(r, "unasked", "pending")
      BY <2>1, <2>2, <2>3, <2>4 DEF Fate, Turns
    <3> QED BY <2>1, <3>1, AdmitMaps
  <2>5. CASE tool'[r] = "over" /\ rows' = rows
    <3>1. Fate(r)' = "dropped" /\ (tool'[r] = "allowed" <=> tool[r] = "allowed")
      BY <2>1, <2>3, <2>5 DEF Fate
    <3> QED BY <2>1, <2>2, <2>3, <3>1, RefuseMaps, {r} \in SUBSET Requests DEF Others
  <2> QED BY <2>1, <2>4, <2>5
<1>3. CASE Register(r) \/ Announce(r) \/ Interrupt(r)
  <2>1. /\ tool[r] \in {"inserted", "entered", "waiting"} /\ saved' = saved /\ told' = told
        /\ won' = won /\ rows' = rows
        /\ \A q \in Requests \ {r} : tool'[q] = tool[q]
        /\ tool'[r] \in {"entered", "waiting", "over", "withdrawn", "stopped"}
    BY <1>3 DEF Register, Announce, Interrupt
  <2>2. Others(r)
    BY <2>1, KeptIf DEF Others
  <2>3. Kept(r)
    BY <2>1 DEF Kept, Fate
  <2> QED BY <2>1, <2>2, <2>3, QuietMaps DEF Others, Quiet
<1>4. CASE Withdraw(r)
  <2>1. /\ tool[r] = "withdrawn" /\ saved' = saved /\ told' = told /\ won' = won
        /\ \A q \in Requests \ {r} : tool'[q] = tool[q] /\ (q \in rows' <=> q \in rows)
        /\ tool'[r] = "over" /\ r \notin rows'
    BY <1>4 DEF Withdraw
  <2>2. Others(r)
    BY <2>1, KeptIf DEF Others
  <2>3. CASE r \in rows
    <3>1. won[r] = None
      BY <2>3 DEF Asked
    <3>2. Turns(r, "pending", "dropped")
      BY <2>1, <2>2, <2>3, <3>1 DEF Fate, Turns
    <3> QED BY <2>1, <2>2, <3>2, WithdrawMaps, {r} \in SUBSET Requests DEF Others, Turns
  <2>4. CASE r \notin rows
    <3>1. Kept(r)
      BY <2>1, <2>4 DEF Kept, Fate
    <3> QED BY <2>1, <2>2, <3>1, QuietMaps DEF Others, Quiet
  <2> QED BY <2>3, <2>4
<1>5. CASE Resume(r)
  <2>1. /\ tool[r] = "waiting" /\ saved' = saved /\ told' = told /\ won' = won /\ rows' = rows
        /\ \A q \in Requests \ {r} : tool'[q] = tool[q]
        /\ answer[r] # "none"
        /\ tool'[r] = IF answer[r] = "yes" THEN "allowed" ELSE "over"
    BY <1>5 DEF Resume
  <2>2. Others(r)
    BY <2>1, KeptIf DEF Others
  <2>3. won[r] # None /\ Fate(r)' = Fate(r) /\ Fate(r) = won[r]
    BY <2>1 DEF Asked, Fate
  <2>4. CASE answer[r] = "yes"
    <3>1. Fate(r) \in Yes
      BY <2>3, <2>4 DEF OneVerdict
    <3> QED BY <2>1, <2>2, <2>3, <2>4, <3>1, ProceedMaps, {r} \in SUBSET Requests
            DEF Others, Kept
  <2>5. CASE answer[r] # "yes"
    <3>1. Kept(r)
      BY <2>1, <2>3, <2>5 DEF Kept
    <3> QED BY <2>1, <2>2, <3>1, QuietMaps DEF Others, Quiet
  <2> QED BY <2>4, <2>5
<1> QED BY <1>1, <1>2, <1>3, <1>4, <1>5 DEF ToolStep

(* The steps of a reply: its claim, and those of its sweep, decide. *)
LEMMA ReplyMaps ==
  ASSUME TypeOK, Asked, Carried, Ruled, NEW c \in Clients, ReplyStep(c)
  PROVE  Promise!Next \/ UNCHANGED Promise!vars
<1> USE BlockerAssumption DEF TypeOK
<1>1. ASSUME NEW r \in Requests, NEW v \in Verdict, Claims(r, v), tool' = tool, told' = told,
             saved' = (saved \/ v = "always")
      PROVE  Promise!Next
  <2>1. Others(r)
    BY <1>1, KeptIf DEF Others
  <2>2. won[r] = None /\ won'[r] = v /\ v # None
    BY <1>1 DEF Asked
  <2>3. Turns(r, "pending", v)
    BY <1>1, <2>1, <2>2 DEF Turns, Fate
  <2> QED BY <1>1, <2>3, DecideMaps
<1>2. ASSUME UNCHANGED <<rows, won, tool>> PROVE Quiet
  BY <1>2, KeptIf DEF Quiet
<1>3. ASSUME NEW r \in Requests, won[r] = op[c].verdict, op[c] \in Op,
             UNCHANGED <<rows, won, tool, saved>>, Tell(r, op[c].verdict \in Yes)
      PROVE  Promise!Next
  <2>1. Fate(r) = op[c].verdict /\ op[c].verdict \in Verdict
    BY <1>3 DEF Fate
  <2> QED BY <1>2, <1>3, <2>1, SayMaps
<1>4. CASE Claim(c)
  <2>1. op[c] \in Op /\ tool' = tool /\ told' = told
    BY <1>4 DEF Claim
  <2>2. CASE Claims(op[c].req, op[c].verdict) /\ saved' = (saved \/ op[c].verdict = "always")
    BY <1>1, <2>1, <2>2
  <2>3. CASE UNCHANGED <<rows, saved, won>>
    BY <1>2, <2>1, <2>3, QuietMaps
  <2> QED BY <1>4, <2>2, <2>3 DEF Claim
<1>5. CASE SettleOwn(c)
  BY <1>2, <1>5, QuietMaps DEF SettleOwn
<1>6. CASE TellOwn(c)
  <2>1. op[c] \in Op /\ won[op[c].req] = op[c].verdict
    BY <1>6 DEF TellOwn, Carried
  <2>2. UNCHANGED <<rows, won, tool, saved>> /\ Tell(op[c].req, op[c].verdict \in Yes)
    BY <1>6 DEF TellOwn
  <2> QED BY <1>3, <2>1, <2>2
<1>7. CASE Sweep(c)
  <2>1. op[c] \in Op /\ cpc[c] = "sweep" /\ tool' = tool /\ told' = told /\ saved' = saved
    BY <1>7 DEF Sweep
  <2>2. ASSUME NEW r \in rest[c], Claims(r, op[c].verdict) PROVE Promise!Next
    <3>1. saved' = (saved \/ op[c].verdict = "always")
      BY <2>1 DEF Ruled
    <3> QED BY <1>1, <2>1, <2>2, <3>1
  <2>3. CASE UNCHANGED <<rows, won>>
    BY <1>2, <2>1, <2>3, QuietMaps
  <2> QED BY <1>7, <2>2, <2>3 DEF Sweep
<1>8. CASE SweepAnswer(c)
  <2>1. op[c] \in Op /\ won[op[c].req] = op[c].verdict
    BY <1>8 DEF SweepAnswer, Carried
  <2>2. UNCHANGED <<rows, won, tool, saved>> /\ Tell(op[c].req, op[c].verdict \in Yes)
    BY <1>8 DEF SweepAnswer
  <2> QED BY <1>3, <2>1, <2>2
<1> QED BY <1>4, <1>5, <1>6, <1>7, <1>8 DEF ReplyStep

(* A service that goes lets those through that were allowed, and takes those    *)
(* with it that had not been admitted.                                           *)
LEMMA EndMaps ==
  ASSUME TypeOK, Asked, OneVerdict, NEW s \in Services, Close(s) \/ Crash(s)
  PROVE  Promise!Next \/ UNCHANGED Promise!vars
<1> USE BlockerAssumption DEF TypeOK
<1>1. rows' = rows /\ won' = won /\ saved' = saved /\ told' = told
  BY DEF Close, Crash, Gone
<1>2. CASE Close(s)
  <2> DEFINE S == {r \in Requests : where[r] = s /\ tool[r] = "waiting" /\ answer[r] = "yes"}
  <2>1. \A r \in Requests :
          tool'[r] = IF where[r] # s \/ tool[r] # "waiting" THEN tool[r]
                     ELSE IF answer[r] = "yes" THEN "allowed" ELSE "over"
    BY <1>2 DEF Close
  <2>2. \A r \in S : won[r] # None /\ Fate(r) \in Yes
    BY DEF Asked, OneVerdict, Fate
  <2>3. ASSUME NEW r \in Requests
        PROVE  Fate(r)' = Fate(r) /\ (tool'[r] = "allowed" <=> tool[r] = "allowed" \/ r \in S)
    BY <1>1, <2>1, <2>2 DEF Fate
  <2> QED BY <1>1, <2>2, <2>3, ProceedMaps, S \in SUBSET Requests
<1>3. CASE Crash(s)
  <2> DEFINE S == {r \in Requests : where[r] = s /\ tool[r] = "asked"}
  <2>1. \A r \in Requests :
          tool'[r] = IF /\ where[r] = s
                        /\ tool[r] \in {"asked", "inserted", "entered", "withdrawn", "waiting"}
                     THEN "over" ELSE tool[r]
    BY <1>3 DEF Crash
  <2>2. ASSUME NEW r \in S
        PROVE  /\ Fate(r) = "unasked" /\ Fate(r)' = "dropped"
               /\ (tool'[r] = "allowed" <=> tool[r] = "allowed")
    BY <1>1, <2>1 DEF Asked, Fate
  <2>3. ASSUME NEW r \in Requests \ S PROVE Kept(r)
    BY <1>1, <2>1 DEF Kept, Fate
  <2> QED BY <1>1, <2>2, <2>3, RefuseMaps, S \in SUBSET Requests
<1> QED BY <1>2, <1>3

(* The Session that goes takes with it what is pending in it. *)
LEMMA DeleteMaps ==
  ASSUME TypeOK, Asked, NEW x \in Sessions, Delete(x)
  PROVE  Promise!Next
<1>1. /\ rows' = rows \ Open(x) /\ won' = won /\ tool' = tool
      /\ saved' = saved /\ told' = told
  BY DEF Delete
<1>2. Open(x) \in SUBSET Requests /\ Open(x) \subseteq rows
  BY DEF Open, TypeOK
<1>3. ASSUME NEW r \in Open(x)
      PROVE  /\ Fate(r) = "pending" /\ Fate(r)' = "dropped"
             /\ (tool'[r] = "allowed" <=> tool[r] = "allowed")
  BY <1>1, <1>2, <1>3 DEF Asked, Fate
<1>4. ASSUME NEW r \in Requests \ Open(x) PROVE Kept(r)
  BY <1>1, <1>4, KeptIf
<1> QED BY <1>1, <1>2, <1>3, <1>4, WithdrawMaps

(* "settles exactly once": however asks, replies, sweeps, moves, updates,        *)
(* deletions, closes, crashes and restarts cross, what becomes of the requests,   *)
(* the rule, the Replied events and the tools is what one decision per request     *)
(* allows; a deletion withdraws what is pending.                                    *)
THEOREM BlockerDecides == Spec => ImplementsDecision
<1>1. Init => Promise!Init
  BY BlockerAssumption DEF Init, Promise!Init, Fate
<1>2. TypeOK /\ BlockerInv /\ Ruled /\ [Next]_vars => [Promise!Next]_(Promise!vars)
  <2> SUFFICES ASSUME TypeOK, Asked, Carried, OneVerdict, Ruled, [Next]_vars
               PROVE  Promise!Next \/ UNCHANGED Promise!vars
    BY DEF BlockerInv
  <2>1. ASSUME UNCHANGED <<rows, won, tool, saved, told>> PROVE UNCHANGED Promise!vars
    BY <2>1, KeptIf, QuietMaps DEF Quiet
  <2>2. ASSUME NEW c \in Clients, NEW s \in Services, NEW r \in Requests, NEW v \in Verdict,
        Reply(c, s, r, v) PROVE UNCHANGED Promise!vars
    BY <2>1, <2>2 DEF Reply
  <2>3. ASSUME NEW x \in Sessions, MoveCheck(x) PROVE UNCHANGED Promise!vars
    BY <2>1, <2>3 DEF MoveCheck
  <2>4. CASE MoveCommit
    BY <2>1, <2>4 DEF MoveCommit
  <2>5. ASSUME NEW s \in Services, Boot(s) PROVE UNCHANGED Promise!vars
    BY <2>1, <2>5 DEF Boot
  <2>6. CASE UNCHANGED vars
    BY <2>1, <2>6 DEF vars
  <2>7. ASSUME NEW x \in Sessions, Import(x) PROVE UNCHANGED Promise!vars
    BY <2>1, <2>7 DEF Import
  <2>8. ASSUME NEW e \in Editors, Updated(e) PROVE UNCHANGED Promise!vars
    BY <2>1, <2>8 DEF Updated
  <2>9. ASSUME NEW e \in Editors, NEW x \in Sessions, Patch(e, x) PROVE UNCHANGED Promise!vars
    BY <2>1, <2>9 DEF Patch
  <2> QED BY <2>2, <2>3, <2>4, <2>5, <2>6, <2>7, <2>8, <2>9, ToolMaps, ReplyMaps, EndMaps,
             DeleteMaps DEF Next
<1> QED BY <1>1, <1>2, BlockerInvariant, RuleComesFirst, BlockerTypeCorrect, PTL
        DEF Spec, ImplementsDecision, Promise!Spec

=============================================================================

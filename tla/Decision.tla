------------------------------ MODULE Decision ------------------------------
(* What a durable request for the user's decision promises, without services,  *)
(* maps, fibers and replies (permission.ts, question.ts): a request is asked    *)
(* once and decided at most once, nobody but the decision adds a rule, and a    *)
(* tool goes ahead, or an event says so, only on the strength of its request's  *)
(* own verdict, or of a rule that was there when it asked.                       *)
CONSTANT Requests

VARIABLES fate,    \* what became of each request
          rule,    \* an always verdict has added its rule
          told,    \* what the Replied event of a request said
          goes     \* the requests whose tools went ahead

vars == <<fate, rule, told, goes>>

Verdict == {"once", "always", "reject"}
Yes     == {"once", "always"}

Init ==
  /\ fate = [r \in Requests |-> "unasked"] /\ rule = FALSE
  /\ told = [r \in Requests |-> "none"] /\ goes = {}

Admit(r) ==
  /\ fate[r] = "unasked" /\ fate' = [fate EXCEPT ![r] = "pending"]
  /\ UNCHANGED <<rule, told, goes>>

\* Not admitted: their Session is elsewhere, or their process died.
Refuse(S) ==
  /\ \A r \in S : fate[r] = "unasked"
  /\ fate' = [r \in Requests |-> IF r \in S THEN "dropped" ELSE fate[r]]
  /\ UNCHANGED <<rule, told, goes>>

\* A rule covers the request, and nobody is asked.
Cover(r) ==
  /\ rule /\ fate[r] = "unasked" /\ fate' = [fate EXCEPT ![r] = "covered"]
  /\ goes' = goes \cup {r} /\ UNCHANGED <<rule, told>>

\* By its tool, or with the Session that it and others belong to.
Withdraw(S) ==
  /\ \A r \in S : fate[r] = "pending"
  /\ fate' = [r \in Requests |-> IF r \in S THEN "dropped" ELSE fate[r]]
  /\ UNCHANGED <<rule, told, goes>>

Decide(r, v) ==
  /\ fate[r] = "pending" /\ fate' = [fate EXCEPT ![r] = v]
  /\ rule' = (rule \/ v = "always")
  /\ UNCHANGED <<told, goes>>

Say(r) ==
  /\ fate[r] \in Verdict
  /\ told' = [told EXCEPT ![r] = IF fate[r] \in Yes THEN "yes" ELSE "no"]
  /\ UNCHANGED <<fate, rule, goes>>

\* The tools of some that were allowed, at once when a service closes.
Proceed(S) ==
  /\ \A r \in S : fate[r] \in Yes
  /\ goes' = goes \cup S /\ UNCHANGED <<fate, rule, told>>

Next ==
  \/ \E r \in Requests : Admit(r) \/ Cover(r) \/ Say(r)
  \/ \E r \in Requests, v \in Verdict : Decide(r, v)
  \/ \E S \in SUBSET Requests : Refuse(S) \/ Withdraw(S) \/ Proceed(S)

Spec == Init /\ [][Next]_vars

=============================================================================

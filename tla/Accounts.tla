-------------------------------- MODULE Accounts ------------------------------
(***************************************************************************)
(* What signing up promises, without statements or pages: a submission     *)
(* asks for an e-mail and gets one verdict; it opens an account exactly    *)
(* when nobody has that e-mail, and only the submission that opened it may *)
(* be told so.  An error says nothing of whether the account is there.     *)
(***************************************************************************)
EXTENDS FiniteSets

CONSTANTS Submissions,
          NoEmail

VARIABLES asked,    \* the e-mail each submission asks for, NoEmail before
          accounts, \* e-mail and the submission that opened it
          verdict   \* none, created, taken or wrong, per submission

avars == <<asked, accounts, verdict>>

Taken(e) == \E a \in accounts : a.email = e

Open(s) == asked[s] # NoEmail /\ verdict[s] = "none"

Init ==
  /\ asked = [s \in Submissions |-> NoEmail]
  /\ accounts = {}
  /\ verdict = [s \in Submissions |-> "none"]

Ask(s, e) ==
  /\ asked[s] = NoEmail
  /\ asked' = [asked EXCEPT ![s] = e]
  /\ UNCHANGED <<accounts, verdict>>

Register(s) ==
  /\ Open(s)
  /\ ~Taken(asked[s])
  /\ accounts' = accounts \cup {[email |-> asked[s], by |-> s]}
  /\ \E v \in {"created", "wrong"} : verdict' = [verdict EXCEPT ![s] = v]
  /\ UNCHANGED asked

Refuse(s) ==
  /\ Open(s)
  /\ Taken(asked[s])
  /\ verdict' = [verdict EXCEPT ![s] = "taken"]
  /\ UNCHANGED <<asked, accounts>>

(* Any open submissions may come to nothing.                               *)
Fail(S) ==
  /\ \A s \in S : Open(s)
  /\ verdict' = [s \in Submissions |-> IF s \in S THEN "wrong" ELSE verdict[s]]
  /\ UNCHANGED <<asked, accounts>>

Next ==
  \/ \E s \in Submissions : Ask(s, asked'[s]) \/ Register(s) \/ Refuse(s)
  \/ \E S \in SUBSET Submissions : Fail(S)

Spec == Init /\ [][Next]_avars
===============================================================================

-------------------------------- MODULE Listings ------------------------------
(***************************************************************************)
(* What listing a property promises, without statements, pages or          *)
(* connections: a submission asks for a rent, may put one property on      *)
(* sale at that rent and then furnish it with its amenities, and gets one  *)
(* verdict.                                                                *)
(* Only a submission whose own property is on sale and furnished may be    *)
(* told so; a failure says nothing of what was left behind.                *)
(***************************************************************************)
EXTENDS Naturals

CONSTANTS Submissions, NoRent

VARIABLES asked,     \* the rent each submission asks for, NoRent before
          onSale,    \* submission and rent of each property
          furnished, \* the submissions whose property has its amenities
          verdict    \* none, listed or failed

lvars == <<asked, onSale, furnished, verdict>>

Open(s) == asked[s] # NoRent /\ verdict[s] = "none"

Lists(s) == \E p \in onSale : p.by = s

Init ==
  /\ asked = [s \in Submissions |-> NoRent]
  /\ onSale = {}
  /\ furnished = {}
  /\ verdict = [s \in Submissions |-> "none"]

Ask(s, rent) ==
  /\ asked[s] = NoRent
  /\ asked' = [asked EXCEPT ![s] = rent]
  /\ UNCHANGED <<onSale, furnished, verdict>>

(* The verdict may come with the property when its maker loses it.         *)
PutOnSale(s) ==
  /\ Open(s)
  /\ ~Lists(s)
  /\ onSale' = onSale \cup {[by |-> s, rent |-> asked[s]]}
  /\ \E v \in {"none", "failed"} : verdict' = [verdict EXCEPT ![s] = v]
  /\ UNCHANGED <<asked, furnished>>

Furnish(s) ==
  /\ Open(s)
  /\ Lists(s)
  /\ furnished' = furnished \cup {s}
  /\ \E v \in {"listed", "failed"} : verdict' = [verdict EXCEPT ![s] = v]
  /\ UNCHANGED <<asked, onSale>>

(* Any open submissions may come to nothing more.                          *)
Fail(S) ==
  /\ \A s \in S : Open(s)
  /\ verdict' = [s \in Submissions |-> IF s \in S THEN "failed" ELSE verdict[s]]
  /\ UNCHANGED <<asked, onSale, furnished>>

Next ==
  \/ \E s \in Submissions : Ask(s, asked'[s]) \/ PutOnSale(s) \/ Furnish(s)
  \/ \E S \in SUBSET Submissions : Fail(S)

Spec == Init /\ [][Next]_lvars
===============================================================================

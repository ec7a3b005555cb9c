--------------------------- MODULE PostPropertyProofs -------------------------
(***************************************************************************)
(* Theorems of PostProperty for every set of owners and rents and every    *)
(* bound.                                                                  *)
(***************************************************************************)
EXTENDS PostProperty, FiniteSetTheorems, FunctionTheorems, TLAPS

(* A submission beyond the owner's count has not been sent.                *)
SentInOrder ==
  \A o \in Owners, n \in 1..MaxTries :
    script[<<o, n>>].pc # "unsent" <=> n <= tries[o]

(* A row was inserted by a script that got past its first INSERT, by a     *)
(* strict server at the rent of its form, and by no other row's script.    *)
RowsHaveScripts ==
  /\ \A i \in DOMAIN listings :
       /\ script[listings[i].by].pc \in {"inserted", "ended"}
       /\ Strict => listings[i].rent = script[listings[i].by].rent
  /\ \A i, j \in DOMAIN listings : listings[i].by = listings[j].by => i = j

(* i is the row of submission s.                                           *)
IsRowOf(i, s) == i \in DOMAIN listings /\ listings[i].by = s

(* Between the INSERTs a script knows the id of its own row.               *)
InsertedHasRow ==
  \A s \in Submissions :
    script[s].pc = "inserted" => IsRowOf(script[s].id, s)

(* Where mysqli throws, success is answered only behind both INSERTs.      *)
ListedIsFurnished ==
  \A s \in Submissions :
    (Throws /\ script[s].pc = "ended" /\ script[s].out = "listed") =>
       script[s].id \in amenities /\ IsRowOf(script[s].id, s)

(* A click or success of this page that no failure has been told of.       *)
Unanswered(o) == IF page[o] \in {"submitting", "detail"} THEN 1 ELSE 0

(* Every click on a page is answered by an alert or by leaving the form,   *)
(* but the last, and a page shows what that one's script answered.         *)
PageCounts ==
  \A o \in Owners :
    /\ tries[o] = opened[o] + alerts[o] + Unanswered(o)
    /\ page[o] = "detail" =>
         script[Latest(o)].pc = "ended" /\ script[Latest(o)].out = "listed"

PostInv == /\ TypeOK
           /\ SentInOrder
           /\ RowsHaveScripts
           /\ InsertedHasRow
           /\ ListedIsFurnished
           /\ PageCounts

LEMMA CountTypes ==
  ASSUME TypeOK, NEW o \in Owners
  PROVE  /\ tries[o] \in Nat /\ opened[o] \in Nat /\ alerts[o] \in Nat
         /\ tries[o] <= MaxTries /\ MaxTries \in Nat
BY PostAssumption DEF TypeOK

LEMMA LatestIsSent ==
  ASSUME TypeOK, PageCounts, NEW o \in Owners, page[o] \in {"submitting", "detail"}
  PROVE  Latest(o) \in Submissions
<1>1. tries[o] >= 1
  BY CountTypes DEF PageCounts, Unanswered
<1> QED  BY <1>1, CountTypes DEF Latest, Submissions

LEMMA RowTypes ==
  ASSUME TypeOK, NEW i \in DOMAIN listings
  PROVE  listings[i] \in Rows /\ listings[i].by \in Submissions
<1>1. listings[i] \in Rows
  BY DEF TypeOK
<1> QED  BY <1>1 DEF Rows

LEMMA StoredRentType ==
  ASSUME NEW rent \in Rents
  PROVE  /\ StoredRent(rent) \in Int
         /\ Strict /\ Insertable(rent) => StoredRent(rent) = rent
BY PostAssumption DEF StoredRent, Insertable, Fits

-------------------------------------------------------------------------------
(* Each kind of step, on the parts of the invariant it can disturb.        *)

LEMMA InitEstablishes == Init => PostInv
<1> SUFFICES ASSUME Init PROVE PostInv
  OBVIOUS
<1>1. TypeOK
  BY PostAssumption DEF Init, TypeOK, Scripts
<1>2. SentInOrder
  BY PostAssumption DEF Init, SentInOrder, Unsent, Submissions
<1>3. RowsHaveScripts /\ InsertedHasRow /\ ListedIsFurnished
  BY DEF Init, RowsHaveScripts, InsertedHasRow, ListedIsFurnished, Unsent
<1>4. PageCounts
  BY DEF Init, PageCounts, Unanswered
<1> QED  BY <1>1, <1>2, <1>3, <1>4 DEF PostInv

LEMMA SubmitPreserves ==
  ASSUME PostInv, NEW o \in Owners, NEW rent \in Rents, Submit(o, rent)
  PROVE  PostInv'
<1> DEFINE s0 == <<o, tries[o] + 1>>
           new == [pc |-> "sent", rent |-> rent, id |-> 0, out |-> "none"]
<1>1. /\ s0 \in Submissions
      /\ tries[o] \in Nat /\ tries[o] < MaxTries
      /\ script' = [script EXCEPT ![s0] = new]
      /\ script[s0].pc = "unsent"
      /\ UNCHANGED <<loggedIn, opened, alerts, listings, amenities>>
  BY PostAssumption DEF PostInv, TypeOK, SentInOrder, Submit, Submissions
<1>2. /\ script'[s0] = new
      /\ \A s \in Submissions : s # s0 => script'[s] = script[s]
  BY <1>1 DEF PostInv, TypeOK
<1>3. /\ tries' = [tries EXCEPT ![o] = @ + 1]
      /\ page' = [page EXCEPT ![o] = "submitting"]
      /\ page[o] = "form"
  BY DEF Submit
<1>4. TypeOK'
  <2>1. script' \in [Submissions -> Scripts]
    BY <1>1 DEF PostInv, TypeOK, Scripts, SentScripts, Answers
  <2>2. /\ tries' \in [Owners -> 0..MaxTries]
        /\ page' \in [Owners -> {"away", "form", "submitting", "detail"}]
    BY <1>1, <1>3, PostAssumption DEF PostInv, TypeOK
  <2> QED  BY <2>1, <2>2, <1>1 DEF PostInv, TypeOK
<1>5. SentInOrder'
  <2> SUFFICES ASSUME NEW p \in Owners, NEW n \in 1..MaxTries
               PROVE  script'[<<p, n>>].pc # "unsent" <=> n <= tries'[p]
    BY DEF SentInOrder
  <2>1. <<p, n>> \in Submissions
    BY DEF Submissions
  <2>2. CASE p = o
    <3>1. tries'[o] = tries[o] + 1
      BY <1>3 DEF PostInv, TypeOK
    <3>2. CASE n = tries[o] + 1
      BY <3>1, <3>2, <2>2, <1>1, <1>2
    <3>3. CASE n # tries[o] + 1
      <4>1. script'[<<p, n>>] = script[<<p, n>>]
        BY <3>3, <2>1, <1>2
      <4>2. n <= tries[o] + 1 <=> n <= tries[o]
        BY <3>3, <1>1, PostAssumption
      <4> QED  BY <4>1, <4>2, <3>1, <2>2 DEF PostInv, SentInOrder
    <3> QED  BY <3>2, <3>3
  <2>3. CASE p # o
    <3>1. tries'[p] = tries[p] /\ script'[<<p, n>>] = script[<<p, n>>]
      BY <2>1, <2>3, <1>2, <1>3 DEF PostInv, TypeOK
    <3> QED  BY <3>1 DEF PostInv, SentInOrder
  <2> QED  BY <2>2, <2>3
<1>6. \A i \in DOMAIN listings : listings[i].by # s0 /\ listings[i].by \in Submissions
  BY <1>1, RowTypes DEF PostInv, RowsHaveScripts
<1>7. RowsHaveScripts'
  BY <1>1, <1>2, <1>6 DEF PostInv, RowsHaveScripts
<1>8. InsertedHasRow' /\ ListedIsFurnished'
  BY <1>1, <1>2 DEF PostInv, InsertedHasRow, ListedIsFurnished, IsRowOf
<1>9. PageCounts'
  <2> SUFFICES ASSUME NEW p \in Owners
               PROVE  /\ tries'[p] = opened'[p] + alerts'[p] + Unanswered(p)'
                      /\ page'[p] = "detail" =>
                           /\ script'[Latest(p)'].pc = "ended"
                           /\ script'[Latest(p)'].out = "listed"
    BY DEF PageCounts
  <2>1. CASE p = o
    <3>1. tries'[o] = tries[o] + 1 /\ page'[o] = "submitting"
      BY <1>3 DEF PostInv, TypeOK
    <3>2. tries[o] = opened[o] + alerts[o]
      BY <1>3, CountTypes DEF PostInv, PageCounts, Unanswered
    <3> QED  BY <2>1, <3>1, <3>2, <1>1, CountTypes DEF Unanswered, PostInv
  <2>2. CASE p # o
    <3>1. tries'[p] = tries[p] /\ page'[p] = page[p]
      BY <2>2, <1>3 DEF PostInv, TypeOK
    <3>2. Latest(p)' = Latest(p) /\ Latest(p) # s0
      BY <2>2, <3>1 DEF Latest
    <3>3. page[p] = "detail" => Latest(p) \in Submissions
      BY LatestIsSent DEF PostInv
    <3> QED  BY <3>1, <3>2, <3>3, <1>1, <1>2 DEF Unanswered, PostInv, PageCounts
  <2> QED  BY <2>1, <2>2
<1> QED  BY <1>4, <1>5, <1>7, <1>8, <1>9 DEF PostInv

(* A step of the browser that sends nothing.                               *)
LEMMA PagePreserves ==
  ASSUME PostInv, NEW o \in Owners,
         OpenForm(o) \/ Succeed(o) \/ Refused(o) \/ FetchFails(o)
  PROVE  PostInv'
<1>1. UNCHANGED <<loggedIn, tries, script, listings, amenities>>
  BY DEF OpenForm, Succeed, Refused, FetchFails, Alert
<1>2. PICK p \in {"away", "form", "detail"}, k \in 0..MaxTries, a \in 0..MaxTries :
        /\ page' = [page EXCEPT ![o] = p]
        /\ opened' = [opened EXCEPT ![o] = k]
        /\ alerts' = [alerts EXCEPT ![o] = a]
        /\ tries[o] = k + a + IF p = "detail" THEN 1 ELSE 0
        /\ p = "detail" => /\ script[Latest(o)].pc = "ended"
                           /\ script[Latest(o)].out = "listed"
  <2>1. CASE OpenForm(o)
    <3>1. PICK p \in {"away", "form"} : page' = [page EXCEPT ![o] = p]
      BY <2>1 DEF OpenForm
    <3>2. /\ opened' = [opened EXCEPT ![o] = tries[o]]
          /\ alerts' = [alerts EXCEPT ![o] = 0]
          /\ tries[o] = tries[o] + 0 + 0
          /\ tries[o] \in 0..MaxTries /\ 0 \in 0..MaxTries
      BY <2>1, CountTypes DEF OpenForm, PostInv
    <3> QED  BY <3>1, <3>2
  <2>2. CASE Succeed(o)
    <3>1. /\ opened' = [opened EXCEPT ![o] = opened[o]]
          /\ alerts' = [alerts EXCEPT ![o] = alerts[o]]
          /\ opened[o] \in 0..MaxTries /\ alerts[o] \in 0..MaxTries
      BY <2>2 DEF Succeed, PostInv, TypeOK
    <3>2. tries[o] = opened[o] + alerts[o] + 1
      BY <2>2 DEF Succeed, PostInv, PageCounts, Unanswered
    <3>3. /\ page' = [page EXCEPT ![o] = "detail"]
          /\ script[Latest(o)].pc = "ended"
          /\ script[Latest(o)].out = "listed"
      BY <2>2 DEF Succeed
    <3> QED  BY <3>1, <3>2, <3>3
  <2>3. CASE Refused(o) \/ FetchFails(o)
    <3>1. /\ page[o] = "submitting"
          /\ page' = [page EXCEPT ![o] = "form"]
          /\ alerts' = [alerts EXCEPT ![o] = alerts[o] + 1]
          /\ opened' = opened
      BY <2>3 DEF Refused, FetchFails, Alert
    <3>2. tries[o] = opened[o] + alerts[o] + 1
      BY <3>1 DEF PostInv, PageCounts, Unanswered
    <3>3. /\ opened' = [opened EXCEPT ![o] = opened[o]]
          /\ opened[o] \in 0..MaxTries
      BY <3>1 DEF PostInv, TypeOK
    <3>4. alerts[o] + 1 \in 0..MaxTries /\ tries[o] = opened[o] + (alerts[o] + 1) + 0
      BY <3>2, CountTypes DEF PostInv
    <3> QED  BY <3>1, <3>3, <3>4
  <2> QED  BY <2>1, <2>2, <2>3
<1>3. TypeOK'
  BY <1>1, <1>2 DEF PostInv, TypeOK
<1>4. PageCounts'
  <2> SUFFICES ASSUME NEW q \in Owners
               PROVE  /\ tries'[q] = opened'[q] + alerts'[q] + Unanswered(q)'
                      /\ page'[q] = "detail" =>
                           /\ script'[Latest(q)'].pc = "ended"
                           /\ script'[Latest(q)'].out = "listed"
    BY DEF PageCounts
  <2>1. Latest(q)' = Latest(q)
    BY <1>1 DEF Latest
  <2>2. CASE q = o
    <3>1. page'[o] = p /\ opened'[o] = k /\ alerts'[o] = a
      BY <1>2 DEF PostInv, TypeOK
    <3> QED  BY <2>1, <2>2, <3>1, <1>1, <1>2 DEF Unanswered
  <2>3. CASE q # o
    <3>1. page'[q] = page[q] /\ opened'[q] = opened[q] /\ alerts'[q] = alerts[q]
      BY <2>3, <1>2 DEF PostInv, TypeOK
    <3> QED  BY <2>1, <3>1, <1>1 DEF PostInv, PageCounts, Unanswered
  <2> QED  BY <2>2, <2>3
<1> QED  BY <1>1, <1>3, <1>4
         DEF PostInv, SentInOrder, RowsHaveScripts, InsertedHasRow,
             ListedIsFurnished, IsRowOf

(* A step of a script leaves the counts and the pages alone.               *)
LEMMA PagesKeepSight ==
  ASSUME PostInv, NEW s \in Submissions, script[s].pc \in {"sent", "inserted"},
         NEW new, script' = [script EXCEPT ![s] = new],
         UNCHANGED <<page, tries, opened, alerts>>
  PROVE  PageCounts'
<1> SUFFICES ASSUME NEW o \in Owners
             PROVE  /\ tries'[o] = opened'[o] + alerts'[o] + Unanswered(o)'
                    /\ page'[o] = "detail" =>
                         /\ script'[Latest(o)'].pc = "ended"
                         /\ script'[Latest(o)'].out = "listed"
  BY DEF PageCounts
<1>1. Latest(o)' = Latest(o) /\ Unanswered(o)' = Unanswered(o)
  BY DEF Latest, Unanswered
<1>2. ASSUME page[o] = "detail"
      PROVE  script'[Latest(o)] = script[Latest(o)]
  <2>1. Latest(o) # s
    BY <1>2 DEF PostInv, PageCounts
  <2>2. Latest(o) \in Submissions
    BY <1>2, LatestIsSent DEF PostInv
  <2> QED  BY <2>1, <2>2 DEF PostInv, TypeOK
<1> QED  BY <1>1, <1>2 DEF PostInv, PageCounts

LEMMA SentStaysSent ==
  ASSUME PostInv, NEW s \in Submissions, script[s].pc \in {"sent", "inserted"},
         NEW new \in SentScripts, script' = [script EXCEPT ![s] = new],
         UNCHANGED tries
  PROVE  SentInOrder'
<1>1. \A q \in Submissions : script'[q].pc # "unsent" <=> script[q].pc # "unsent"
  BY DEF PostInv, TypeOK, SentScripts
<1>2. \A o \in Owners, n \in 1..MaxTries : <<o, n>> \in Submissions
  BY DEF Submissions
<1> QED  BY <1>1, <1>2 DEF PostInv, SentInOrder

(* A script ends, and its property, if it has one, may be furnished.       *)
LEMMA EndPreserves ==
  ASSUME PostInv, NEW s \in Submissions, script[s].pc \in {"sent", "inserted"},
         NEW a \in Answers, Ends(s, a),
         UNCHANGED <<loggedIn, page, tries, opened, alerts, listings>>,
         \/ amenities' = amenities
         \/ /\ script[s].pc = "inserted"
            /\ amenities' = amenities \cup {script[s].id},
         (Throws /\ a = "listed") =>
            script[s].pc = "inserted" /\ script[s].id \in amenities'
  PROVE  PostInv'
<1>1. script[s] \in SentScripts
  BY DEF PostInv, TypeOK, Scripts, Unsent
<1> DEFINE new == [script[s] EXCEPT !.pc = "ended", !.out = a]
<1>2. /\ new \in SentScripts
      /\ new.pc = "ended" /\ new.out = a
      /\ new.rent = script[s].rent /\ new.id = script[s].id
  BY <1>1 DEF SentScripts
<1>3. script' = [script EXCEPT ![s] = new]
  BY DEF Ends
<1>4. /\ script'[s] = new
      /\ \A q \in Submissions : q # s => script'[q] = script[q]
  BY <1>3 DEF PostInv, TypeOK
<1> HIDE DEF new
<1>5. amenities \subseteq amenities' /\ amenities' \subseteq DOMAIN listings
  BY DEF PostInv, TypeOK, InsertedHasRow, IsRowOf
<1>6. TypeOK'
  <2>1. script' \in [Submissions -> Scripts]
    BY <1>2, <1>3 DEF PostInv, TypeOK, Scripts
  <2> QED  BY <2>1, <1>5 DEF PostInv, TypeOK
<1>7. SentInOrder' /\ PageCounts'
  BY <1>2, <1>3, SentStaysSent, PagesKeepSight
<1>8. RowsHaveScripts'
  <2>1. \A i \in DOMAIN listings : listings[i].by \in Submissions
    BY RowTypes DEF PostInv
  <2>2. \A q \in Submissions : /\ script[q].pc \in {"inserted", "ended"} =>
                                    script'[q].pc \in {"inserted", "ended"}
                               /\ q = s => script'[q].rent = script[q].rent
                               /\ q # s => script'[q] = script[q]
    BY <1>2, <1>4
  <2> QED  BY <2>1, <2>2 DEF PostInv, RowsHaveScripts
<1>9. InsertedHasRow'
  BY <1>2, <1>4 DEF PostInv, InsertedHasRow, IsRowOf
<1>10. ListedIsFurnished'
  <2> SUFFICES ASSUME NEW q \in Submissions, Throws,
                      script'[q].pc = "ended", script'[q].out = "listed"
               PROVE  script'[q].id \in amenities' /\ IsRowOf(script'[q].id, q)
    BY DEF ListedIsFurnished, IsRowOf
  <2>1. CASE q = s
    BY <2>1, <1>2, <1>4 DEF PostInv, InsertedHasRow
  <2>2. CASE q # s
    BY <2>2, <1>4, <1>5 DEF PostInv, ListedIsFurnished
  <2> QED  BY <2>1, <2>2
<1> QED  BY <1>6, <1>7, <1>8, <1>9, <1>10 DEF PostInv

(* A script inserts its property: it goes on with the id of the row, or    *)
(* ends without an answer of success.                                      *)
LEMMA AddPreserves ==
  ASSUME PostInv, NEW s \in Submissions, script[s].pc = "sent",
         NEW new \in SentScripts, new.rent = script[s].rent,
         \/ new.pc = "inserted" /\ new.id = Len(listings) + 1
         \/ new.pc = "ended" /\ new.out # "listed",
         script' = [script EXCEPT ![s] = new],
         Insertable(script[s].rent), AddProperty(s),
         UNCHANGED <<loggedIn, page, tries, opened, alerts, amenities>>
  PROVE  PostInv'
<1> DEFINE row == [by |-> s, rent |-> StoredRent(script[s].rent)]
           k   == Len(listings) + 1
<1>1. /\ script'[s] = new
      /\ \A q \in Submissions : q # s => script'[q] = script[q]
  BY DEF PostInv, TypeOK
<1>2. row \in Rows /\ row.by = s /\ (Strict => row.rent = new.rent)
  BY StoredRentType DEF Rows, SentScripts
<1>3. listings \in Seq(Rows) /\ listings' = Append(listings, row)
  BY DEF PostInv, TypeOK, AddProperty
<1> HIDE DEF row
<1>4. /\ listings' \in Seq(Rows)
      /\ DOMAIN listings' = DOMAIN listings \cup {k}
      /\ k \notin DOMAIN listings
      /\ listings'[k] = row
      /\ \A i \in DOMAIN listings : listings'[i] = listings[i]
  BY <1>2, <1>3
<1>5. \A i \in DOMAIN listings : listings[i].by \in Submissions /\ listings[i].by # s
  BY RowTypes DEF PostInv, RowsHaveScripts
<1>6. TypeOK'
  <2>1. script' \in [Submissions -> Scripts]
    BY DEF PostInv, TypeOK, Scripts
  <2>2. amenities' \subseteq DOMAIN listings'
    BY <1>4 DEF PostInv, TypeOK
  <2> QED  BY <2>1, <2>2, <1>4 DEF PostInv, TypeOK
<1>7. SentInOrder' /\ PageCounts'
  BY SentStaysSent, PagesKeepSight
<1>8. RowsHaveScripts'
  <2>1. ASSUME NEW i \in DOMAIN listings'
        PROVE  /\ script'[listings'[i].by].pc \in {"inserted", "ended"}
               /\ Strict => listings'[i].rent = script'[listings'[i].by].rent
    <3>1. CASE i = k
      BY <3>1, <1>1, <1>2, <1>4
    <3>2. CASE i \in DOMAIN listings
      BY <3>2, <1>1, <1>4, <1>5 DEF PostInv, RowsHaveScripts
    <3> QED  BY <3>1, <3>2, <1>4
  <2>2. ASSUME NEW i \in DOMAIN listings', NEW j \in DOMAIN listings',
               listings'[i].by = listings'[j].by
        PROVE  i = j
    <3>1. \A l \in DOMAIN listings' : l # k => listings'[l].by # s
      BY <1>4, <1>5
    <3>2. listings'[k].by = s
      BY <1>2, <1>4
    <3>3. CASE i = k \/ j = k
      BY <2>2, <3>1, <3>2, <3>3
    <3>4. CASE i # k /\ j # k
      BY <2>2, <3>4, <1>4 DEF PostInv, RowsHaveScripts
    <3> QED  BY <3>3, <3>4
  <2> QED  BY <2>1, <2>2 DEF RowsHaveScripts
<1>9. \A i, q : IsRowOf(i, q) => IsRowOf(i, q)'
  BY <1>4 DEF IsRowOf
<1>10. InsertedHasRow'
  <2> SUFFICES ASSUME NEW q \in Submissions, script'[q].pc = "inserted"
               PROVE  IsRowOf(script[q].id, q)'
    BY DEF InsertedHasRow
  <2>1. CASE q = s
    <3>1. script'[s].id = k
      BY <2>1, <1>1
    <3> QED  BY <2>1, <3>1, <1>2, <1>4 DEF IsRowOf
  <2>2. CASE q # s
    BY <2>2, <1>1, <1>4 DEF PostInv, InsertedHasRow, IsRowOf
  <2> QED  BY <2>1, <2>2
<1>11. ListedIsFurnished'
  <2> SUFFICES ASSUME NEW q \in Submissions, Throws,
                      script'[q].pc = "ended", script'[q].out = "listed"
               PROVE  (script[q].id \in amenities /\ IsRowOf(script[q].id, q))'
    BY DEF ListedIsFurnished
  <2>1. q # s
    BY <1>1
  <2> QED  BY <2>1, <1>1, <1>4 DEF PostInv, ListedIsFurnished, IsRowOf
<1> QED  BY <1>6, <1>7, <1>8, <1>10, <1>11 DEF PostInv

-------------------------------------------------------------------------------
(* The actions of the script, as steps of the kinds above.                 *)

LEMMA EndsWith ==
  ASSUME TypeOK, NEW s \in Submissions, script[s].pc \in {"sent", "inserted"},
         NEW a \in Answers, Ends(s, a)
  PROVE  \E new \in SentScripts :
           /\ new.rent = script[s].rent
           /\ new.id = script[s].id
           /\ new.pc = "ended"
           /\ new.out = a
           /\ script' = [script EXCEPT ![s] = new]
<1>1. script[s] \in SentScripts
  BY DEF TypeOK, Scripts, Unsent
<1> DEFINE new == [script[s] EXCEPT !.pc = "ended", !.out = a]
<1>2. /\ new \in SentScripts
      /\ new.rent = script[s].rent /\ new.id = script[s].id
      /\ new.pc = "ended" /\ new.out = a
  BY <1>1 DEF SentScripts
<1>3. script' = [script EXCEPT ![s] = new]
  BY DEF Ends
<1> QED  BY <1>2, <1>3

(* Every step of a script that inserts no property ends it, and furnishes  *)
(* its property or not.                                                    *)
EndsScript(s) ==
  /\ script[s].pc \in {"sent", "inserted"}
  /\ listings' = listings
  /\ \E a \in Answers :
       /\ Ends(s, a)
       /\ (Throws /\ a = "listed") =>
             script[s].pc = "inserted" /\ script[s].id \in amenities'
  /\ \/ amenities' = amenities
     \/ /\ script[s].pc = "inserted"
        /\ amenities' = amenities \cup {script[s].id}

(* Every step that inserts a property leaves its script between the        *)
(* INSERTs or ends it without an answer of success.                        *)
AddsProperty(s) ==
  /\ script[s].pc = "sent"
  /\ Insertable(script[s].rent)
  /\ AddProperty(s)
  /\ amenities' = amenities
  /\ \E new \in SentScripts :
       /\ new.rent = script[s].rent
       /\ \/ new.pc = "inserted" /\ new.id = Len(listings) + 1
          \/ new.pc = "ended" /\ new.out \notin {"listed", "none"}
       /\ script' = [script EXCEPT ![s] = new]

LEMMA ScriptSteps ==
  ASSUME TypeOK, NEW s \in Submissions, Starts(s) \/ InsertAmenities(s)
  PROVE  /\ EndsScript(s) \/ AddsProperty(s)
         /\ UNCHANGED <<loggedIn, page, tries, opened, alerts>>
<1>1. CASE Refuse(s)
  <2>1. "login" \in Answers /\ "missing" \in Answers
    BY DEF Answers, Refusals
  <2> QED  BY <1>1, <2>1 DEF Refuse, EndsScript, pageVars
<1>2. CASE DatabaseFails(s)
  <2>1. {"broken", "error"} \subseteq Answers /\ DatabaseError \in {"broken", "error"}
    BY DEF Answers, Refusals, DatabaseError
  <2> QED  BY <1>2, <2>1 DEF DatabaseFails, EndsScript, pageVars
<1>3. CASE InsertAmenities(s)
  <2>1. /\ script[s].pc = "inserted"
        /\ UNCHANGED <<loggedIn, page, tries, opened, alerts, listings>>
    BY <1>3 DEF InsertAmenities, pageVars
  <2>2. {"listed", "broken"} \subseteq Answers
    BY DEF Answers, Refusals
  <2>3. CASE amenities' = amenities \cup {script[s].id} /\ Ends(s, "listed")
    BY <2>1, <2>2, <2>3 DEF EndsScript
  <2>4. CASE /\ amenities' \in {amenities, amenities \cup {script[s].id}}
             /\ Ends(s, IF Throws THEN "broken" ELSE "listed")
    BY <2>1, <2>2, <2>4 DEF EndsScript
  <2> QED  BY <1>3, <2>3, <2>4 DEF InsertAmenities
<1>4. CASE InsertProperty(s)
  <2>1. /\ script[s].pc = "sent"
        /\ UNCHANGED <<loggedIn, page, tries, opened, alerts, amenities>>
    BY <1>4 DEF InsertProperty, pageVars
  <2>2. /\ DatabaseError \in Answers
        /\ DatabaseError \notin {"listed", "none"}
    BY DEF Answers, Refusals, DatabaseError
  <2>3. CASE Ends(s, DatabaseError) /\ UNCHANGED listings
    BY <2>1, <2>2, <2>3 DEF EndsScript
  <2>4. CASE /\ Insertable(script[s].rent)
             /\ AddProperty(s)
             /\ script' = [script EXCEPT ![s] =
                  [@ EXCEPT !.pc = "inserted", !.id = Len(listings) + 1]]
    <3> DEFINE new == [script[s] EXCEPT !.pc = "inserted", !.id = Len(listings) + 1]
    <3>1. script[s] \in SentScripts
      BY <2>1 DEF TypeOK, Scripts, Unsent
    <3>2. Len(listings) + 1 \in Nat
      BY DEF TypeOK
    <3>3. /\ new \in SentScripts
          /\ new.rent = script[s].rent
          /\ new.pc = "inserted" /\ new.id = Len(listings) + 1
      BY <3>1, <3>2 DEF SentScripts
    <3>4. script' = [script EXCEPT ![s] = new]
      BY <2>4
    <3> QED  BY <2>1, <2>4, <3>3, <3>4 DEF AddsProperty
  <2>5. CASE Insertable(script[s].rent) /\ AddProperty(s) /\ Ends(s, DatabaseError)
    <3>1. PICK new \in SentScripts : /\ new.rent = script[s].rent
                                     /\ new.pc = "ended"
                                     /\ new.out = DatabaseError
                                     /\ script' = [script EXCEPT ![s] = new]
      BY <2>1, <2>2, <2>5, EndsWith
    <3> QED  BY <2>1, <2>2, <2>5, <3>1 DEF AddsProperty
  <2> QED  BY <1>4, <2>1, <2>3, <2>4, <2>5 DEF InsertProperty
<1> QED  BY <1>1, <1>2, <1>3, <1>4 DEF Starts

LEMMA ScriptPreserves ==
  ASSUME PostInv, NEW s \in Submissions, Starts(s) \/ InsertAmenities(s)
  PROVE  PostInv'
<1>1. /\ EndsScript(s) \/ AddsProperty(s)
      /\ UNCHANGED <<loggedIn, page, tries, opened, alerts>>
  BY ScriptSteps DEF PostInv
<1>2. CASE EndsScript(s)
  <2>1. PICK a \in Answers :
          /\ Ends(s, a)
          /\ (Throws /\ a = "listed") =>
                script[s].pc = "inserted" /\ script[s].id \in amenities'
    BY <1>2 DEF EndsScript
  <2> QED  BY <1>1, <1>2, <2>1, EndPreserves DEF EndsScript
<1>3. CASE AddsProperty(s)
  <2>1. PICK new \in SentScripts :
          /\ new.rent = script[s].rent
          /\ \/ new.pc = "inserted" /\ new.id = Len(listings) + 1
             \/ new.pc = "ended" /\ new.out \notin {"listed", "none"}
          /\ script' = [script EXCEPT ![s] = new]
    BY <1>3 DEF AddsProperty
  <2> QED  BY <1>1, <1>3, <2>1, AddPreserves DEF AddsProperty
<1> QED  BY <1>1, <1>2, <1>3

LEMMA RestartPreserves ==
  ASSUME PostInv, Restart
  PROVE  PostInv'
<1>1. UNCHANGED <<loggedIn, page, tries, opened, alerts, listings, amenities>>
  BY DEF Restart, pageVars
<1>2. ASSUME NEW s \in Submissions, script[s].pc \in {"sent", "inserted"}
      PROVE  /\ script'[s] \in SentScripts
             /\ script'[s].pc = "ended"
             /\ script'[s].out = "broken"
             /\ script'[s].rent = script[s].rent
  <2>1. script[s] \in SentScripts
    BY <1>2 DEF PostInv, TypeOK, Scripts, Unsent
  <2>2. script'[s] = [script[s] EXCEPT !.pc = "ended", !.out = "broken"]
    BY <1>2 DEF Restart
  <2> QED  BY <2>1, <2>2 DEF SentScripts, Answers, Refusals
<1>3. \A s \in Submissions :
        script[s].pc \notin {"sent", "inserted"} => script'[s] = script[s]
  BY DEF Restart
<1>4. TypeOK'
  <2>1. \A s \in Submissions : script'[s] \in Scripts
    BY <1>2, <1>3 DEF PostInv, TypeOK, Scripts
  <2>2. script' \in [Submissions -> Scripts]
    BY <2>1 DEF Restart
  <2> QED  BY <1>1, <2>2 DEF PostInv, TypeOK
<1>5. SentInOrder'
  <2>1. \A s \in Submissions : script'[s].pc # "unsent" <=> script[s].pc # "unsent"
    BY <1>2, <1>3
  <2>2. \A o \in Owners, n \in 1..MaxTries : <<o, n>> \in Submissions
    BY DEF Submissions
  <2> QED  BY <1>1, <2>1, <2>2 DEF PostInv, SentInOrder
<1>6. RowsHaveScripts'
  <2>1. \A i \in DOMAIN listings : listings[i].by \in Submissions
    BY RowTypes DEF PostInv
  <2>2. \A s \in Submissions : /\ script[s].pc \in {"inserted", "ended"} =>
                                    script'[s].pc \in {"inserted", "ended"}
                               /\ script[s].pc \in {"inserted", "ended"} =>
                                    script'[s].rent = script[s].rent
    BY <1>2, <1>3
  <2> QED  BY <1>1, <2>1, <2>2 DEF PostInv, RowsHaveScripts
<1>7. InsertedHasRow'
  BY <1>2, <1>3 DEF InsertedHasRow
<1>8. ListedIsFurnished'
  BY <1>1, <1>2, <1>3 DEF PostInv, ListedIsFurnished, IsRowOf
<1>9. PageCounts'
  <2> SUFFICES ASSUME NEW o \in Owners
               PROVE  /\ tries'[o] = opened'[o] + alerts'[o] + Unanswered(o)'
                      /\ page'[o] = "detail" =>
                           /\ script'[Latest(o)'].pc = "ended"
                           /\ script'[Latest(o)'].out = "listed"
    BY DEF PageCounts
  <2>1. Latest(o)' = Latest(o) /\ Unanswered(o)' = Unanswered(o)
    BY <1>1 DEF Latest, Unanswered
  <2>2. page[o] = "detail" => Latest(o) \in Submissions
    BY LatestIsSent DEF PostInv
  <2> QED  BY <1>1, <1>3, <2>1, <2>2 DEF PostInv, PageCounts
<1> QED  BY <1>4, <1>5, <1>6, <1>7, <1>8, <1>9 DEF PostInv

-------------------------------------------------------------------------------
(* The inductive invariant holds in every reachable state.                 *)
THEOREM PostInvariance == Spec => []PostInv
<1>1. Init => PostInv
  BY InitEstablishes
<1>2. PostInv /\ [Next]_vars => PostInv'
  <2> SUFFICES ASSUME PostInv, [Next]_vars
               PROVE  PostInv'
    OBVIOUS
  <2>1. ASSUME NEW o \in Owners, BrowserStep(o)
        PROVE  PostInv'
    <3>1. CASE SwitchLogin(o)
      <4>1. /\ UNCHANGED <<page, tries, opened, alerts, script, listings, amenities>>
            /\ loggedIn' = [loggedIn EXCEPT ![o] = ~loggedIn[o]]
        BY <3>1 DEF SwitchLogin, pageVars
      <4>2. loggedIn' \in [Owners -> BOOLEAN]
        BY <4>1 DEF PostInv, TypeOK
      <4> QED  BY <4>1, <4>2
               DEF PostInv, TypeOK, SentInOrder, RowsHaveScripts, InsertedHasRow,
                   ListedIsFurnished, IsRowOf, PageCounts, Unanswered, Latest
    <3>2. CASE \E rent \in Rents : Submit(o, rent)
      BY <3>2, SubmitPreserves
    <3>3. CASE OpenForm(o) \/ Succeed(o) \/ Refused(o) \/ FetchFails(o)
      BY <3>3, PagePreserves
    <3> QED  BY <2>1, <3>1, <3>2, <3>3 DEF BrowserStep
  <2>2. CASE \E s \in Submissions : Starts(s) \/ InsertAmenities(s)
    BY <2>2, ScriptPreserves
  <2>3. CASE Restart
    BY <2>3, RestartPreserves
  <2>4. CASE UNCHANGED vars
    BY <2>4 DEF vars, PostInv, TypeOK, SentInOrder, RowsHaveScripts, InsertedHasRow,
                ListedIsFurnished, IsRowOf, PageCounts, Unanswered, Latest
  <2> QED  BY <2>1, <2>2, <2>3, <2>4 DEF Next
<1> QED  BY <1>1, <1>2, PTL DEF Spec

(* The variables of PostProperty keep their types, and only properties     *)
(* that are there have amenities.                                          *)
THEOREM PostTypes == Spec => []TypeOK
<1>1. PostInv => TypeOK
  BY DEF PostInv
<1> QED  BY <1>1, PostInvariance, PTL

(* A form leaves at most one listing more than it has reported failures:   *)
(* its listings come from different clicks, and these are counted by the   *)
(* alerts and the click not yet answered.                                  *)
THEOREM RelistingNeedsAlert == Spec => []RelistedOnlyAfterAlerts
<1>1. ASSUME PostInv, NEW o \in Owners
      PROVE  Cardinality(FromForm(o)) <= alerts[o] + Unanswered(o)
  <2> DEFINE S == FromForm(o)
             T == (opened[o] + 1)..tries[o]
             f == [i \in S |-> listings[i].by[2]]
  <2>1. /\ opened[o] \in Nat /\ tries[o] \in Nat /\ alerts[o] \in Nat
        /\ tries[o] = opened[o] + alerts[o] + Unanswered(o)
        /\ Unanswered(o) \in {0, 1}
    BY <1>1, CountTypes DEF PostInv, PageCounts, Unanswered
  <2>2. ASSUME NEW i \in S
        PROVE  listings[i].by = <<o, listings[i].by[2]>> /\ listings[i].by[2] \in T
    <3>1. /\ i \in DOMAIN listings
          /\ listings[i].by[1] = o /\ listings[i].by[2] > opened[o]
      BY DEF FromForm
    <3>2. listings[i].by \in Submissions
      BY <1>1, <3>1, RowTypes DEF PostInv
    <3>3. /\ listings[i].by = <<o, listings[i].by[2]>>
          /\ listings[i].by[2] \in 1..MaxTries
      BY <3>1, <3>2 DEF Submissions
    <3>4. script[<<o, listings[i].by[2]>>].pc # "unsent"
      BY <1>1, <3>1, <3>3 DEF PostInv, RowsHaveScripts
    <3>5. listings[i].by[2] <= tries[o]
      BY <1>1, <3>3, <3>4 DEF PostInv, SentInOrder
    <3> QED  BY <2>1, <3>1, <3>3, <3>5, CountTypes
  <2>3. \A i, j \in S : listings[i].by[2] = listings[j].by[2] => i = j
    <3> SUFFICES ASSUME NEW i \in S, NEW j \in S, listings[i].by[2] = listings[j].by[2]
                 PROVE  i = j
      OBVIOUS
    <3>1. i \in DOMAIN listings /\ j \in DOMAIN listings
      BY DEF FromForm
    <3>2. listings[i].by = listings[j].by
      BY <2>2
    <3> QED  BY <1>1, <3>1, <3>2 DEF PostInv, RowsHaveScripts
  <2> HIDE DEF S, T
  <2>4. f \in Injection(S, T)
    BY <2>2, <2>3, Fun_IsInj
  <2>5. IsFiniteSet(T) /\ Cardinality(T) = alerts[o] + Unanswered(o)
    <3> DEFINE a == opened[o] + 1
               b == tries[o]
    <3>1. a \in Int /\ b \in Int /\ T = a..b
      BY <2>1 DEF T
    <3>2. IF a > b THEN alerts[o] + Unanswered(o) = 0
                   ELSE alerts[o] + Unanswered(o) = b - a + 1
      BY <2>1
    <3> HIDE DEF a, b
    <3>3. IsFiniteSet(T) /\ Cardinality(T) = IF a > b THEN 0 ELSE b - a + 1
      BY <3>1, FS_Interval
    <3> QED  BY <3>2, <3>3
  <2>6. Cardinality(S) <= Cardinality(T)
    BY <2>4, <2>5, FS_Injection
  <2> QED  BY <2>5, <2>6 DEF S
<1>2. PostInv => RelistedOnlyAfterAlerts
  BY <1>1 DEF RelistedOnlyAfterAlerts, Unanswered
<1> QED  BY <1>2, PostInvariance, PTL

(* Where mysqli throws and the server is strict, who is told of a listing  *)
(* finds his own there, at the very rent he asked for and with its         *)
(* amenities (add_property_submit.php:37-43).                              *)
THEOREM ToldListedIsTrue == Spec => [](Throws /\ Strict => ToldListedIsOwnAndFurnished)
<1>1. ASSUME PostInv, Throws, Strict, NEW o \in Owners, page[o] = "detail"
      PROVE  /\ script[Latest(o)].id \in amenities
             /\ listings[script[Latest(o)].id] =
                  [by |-> Latest(o), rent |-> script[Latest(o)].rent]
  <2> DEFINE s == Latest(o)
             i == script[Latest(o)].id
  <2>1. s \in Submissions
    BY <1>1, LatestIsSent DEF PostInv
  <2>2. i \in amenities /\ i \in DOMAIN listings /\ listings[i].by = s
    BY <1>1, <2>1 DEF PostInv, PageCounts, ListedIsFurnished, IsRowOf
  <2>3. listings[i] \in Rows /\ listings[i].rent = script[s].rent
    BY <1>1, <2>2, RowTypes DEF PostInv, RowsHaveScripts
  <2>4. listings[i] = [by |-> listings[i].by, rent |-> listings[i].rent]
    BY <2>3 DEF Rows
  <2> QED  BY <2>2, <2>3, <2>4
<1>2. PostInv => (Throws /\ Strict => ToldListedIsOwnAndFurnished)
  BY <1>1 DEF ToldListedIsOwnAndFurnished
<1> QED  BY <1>2, PostInvariance, PTL

-------------------------------------------------------------------------------
(* PostProperty implements Listings where mysqli throws on a strict server.*)

LEMMA CatalogueInit == Init => Catalogue!Init
<1> SUFFICES ASSUME Init PROVE Catalogue!Init
  OBVIOUS
<1>1. OnSale = {} /\ Furnished = {}
  BY DEF Init, OnSale, Furnished
<1>2. /\ AskedRent = [s \in Submissions |-> NoRent]
      /\ Verdicts = [s \in Submissions |-> "none"]
  BY DEF Init, AskedRent, Verdicts, Unsent
<1> QED  BY <1>1, <1>2 DEF Catalogue!Init

LEMMA SubmitAsks ==
  ASSUME PostInv, NEW o \in Owners, NEW rent \in Rents, Submit(o, rent)
  PROVE  Catalogue!Next
<1> DEFINE s0 == <<o, tries[o] + 1>>
           new == [pc |-> "sent", rent |-> rent, id |-> 0, out |-> "none"]
<1>1. /\ s0 \in Submissions
      /\ script' = [script EXCEPT ![s0] = new]
      /\ script[s0].pc = "unsent"
      /\ UNCHANGED <<listings, amenities>>
  BY PostAssumption DEF PostInv, TypeOK, SentInOrder, Submit, Submissions
<1>2. /\ script'[s0] = new
      /\ \A s \in Submissions : s # s0 => script'[s] = script[s]
  BY <1>1 DEF PostInv, TypeOK
<1> HIDE DEF s0
<1>3. /\ AskedRent[s0] = NoRent
      /\ AskedRent' = [AskedRent EXCEPT ![s0] = AskedRent'[s0]]
  <2>1. AskedRent[s0] = NoRent
    BY <1>1 DEF AskedRent
  <2>2. \A s \in Submissions : s # s0 => AskedRent'[s] = AskedRent[s]
    BY <1>2 DEF AskedRent
  <2>3. /\ AskedRent  = [s \in Submissions |-> AskedRent[s]]
        /\ AskedRent' = [s \in Submissions |-> AskedRent'[s]]
    BY DEF AskedRent
  <2>4. AskedRent' = [AskedRent EXCEPT ![s0] = AskedRent'[s0]]
    BY <2>2, <2>3
  <2> QED  BY <2>1, <2>4
<1>4. UNCHANGED <<OnSale, Furnished, Verdicts>>
  BY <1>1, <1>2 DEF OnSale, Furnished, Verdicts
<1> QED  BY <1>1, <1>3, <1>4 DEF Catalogue!Next, Catalogue!Ask

(* What the end of a script does to verdicts and rents.                    *)
LEMMA EndIsVerdict ==
  ASSUME PostInv, NEW s \in Submissions, script[s].pc \in {"sent", "inserted"},
         NEW new \in SentScripts, new.rent = script[s].rent,
         script' = [script EXCEPT ![s] = new]
  PROVE  /\ AskedRent' = AskedRent
         /\ AskedRent[s] = script[s].rent /\ script[s].rent \in Rents
         /\ Catalogue!Open(s)
         /\ Verdicts' = [Verdicts EXCEPT ![s] =
                           IF new.pc # "ended" THEN "none"
                           ELSE IF new.out = "listed" THEN "listed" ELSE "failed"]
<1>1. script[s] \in SentScripts
  BY DEF PostInv, TypeOK, Scripts, Unsent
<1>2. /\ script'[s] = new
      /\ \A q \in Submissions : q # s => script'[q] = script[q]
  BY DEF PostInv, TypeOK
<1>3. AskedRent' = AskedRent
  BY <1>1, <1>2 DEF AskedRent, SentScripts
<1>4. /\ AskedRent[s] = script[s].rent /\ script[s].rent \in Rents
      /\ AskedRent[s] # NoRent /\ Verdicts[s] = "none"
  BY <1>1, PostAssumption DEF AskedRent, Verdicts, SentScripts
<1>5. Verdicts' = [Verdicts EXCEPT ![s] = Verdicts'[s]]
  <2>1. \A q \in Submissions : q # s => Verdicts'[q] = Verdicts[q]
    BY <1>2 DEF Verdicts
  <2>2. /\ Verdicts  = [q \in Submissions |-> Verdicts[q]]
        /\ Verdicts' = [q \in Submissions |-> Verdicts'[q]]
    BY DEF Verdicts
  <2> QED  BY <2>1, <2>2
<1>6. Verdicts'[s] = IF new.pc # "ended" THEN "none"
                     ELSE IF new.out = "listed" THEN "listed" ELSE "failed"
  BY <1>2 DEF Verdicts
<1> QED  BY <1>3, <1>4, <1>5, <1>6 DEF Catalogue!Open

LEMMA EndDecides ==
  ASSUME PostInv, Throws, NEW s \in Submissions, EndsScript(s)
  PROVE  Catalogue!Next
<1>1. PICK a \in Answers :
        /\ Ends(s, a)
        /\ a = "listed" => script[s].pc = "inserted" /\ script[s].id \in amenities'
  BY DEF EndsScript
<1>2. /\ script[s].pc \in {"sent", "inserted"}
      /\ listings' = listings
      /\ \/ amenities' = amenities
         \/ /\ script[s].pc = "inserted"
            /\ amenities' = amenities \cup {script[s].id}
  BY DEF EndsScript
<1>3. PICK new \in SentScripts : /\ new.rent = script[s].rent
                                 /\ new.pc = "ended"
                                 /\ new.out = a
                                 /\ script' = [script EXCEPT ![s] = new]
  BY <1>1, <1>2, EndsWith DEF PostInv
<1>4. /\ UNCHANGED <<AskedRent, OnSale>>
      /\ Catalogue!Open(s)
      /\ Verdicts' = [Verdicts EXCEPT ![s] = IF a = "listed" THEN "listed" ELSE "failed"]
  <2>1. OnSale' = OnSale
    BY <1>2 DEF OnSale
  <2> QED  BY <2>1, <1>2, <1>3, EndIsVerdict
<1>5. CASE script[s].pc = "inserted" /\ script[s].id \in amenities'
  <2>1. IsRowOf(script[s].id, s)
    BY <1>5 DEF PostInv, InsertedHasRow
  <2>2. Catalogue!Lists(s)
    BY <2>1 DEF Catalogue!Lists, OnSale, IsRowOf
  <2>3. amenities' = amenities \cup {script[s].id}
    BY <1>2, <1>5
  <2>4. Furnished' = Furnished \cup {s}
    BY <1>2, <2>1, <2>3 DEF Furnished, IsRowOf
  <2>5. (IF a = "listed" THEN "listed" ELSE "failed") \in {"listed", "failed"}
    OBVIOUS
  <2>6. Catalogue!Furnish(s)
    BY <1>4, <2>2, <2>4, <2>5 DEF Catalogue!Furnish
  <2> QED  BY <2>6 DEF Catalogue!Next
<1>6. CASE ~(script[s].pc = "inserted" /\ script[s].id \in amenities')
  <2>1. amenities' = amenities /\ a # "listed"
    BY <1>1, <1>2, <1>6
  <2>2. Furnished' = Furnished
    BY <1>2, <2>1 DEF Furnished
  <2>3. Verdicts' = [q \in Submissions |-> IF q \in {s} THEN "failed" ELSE Verdicts[q]]
    <3>1. Verdicts' = [Verdicts EXCEPT ![s] = "failed"]
      BY <1>4, <2>1
    <3>2. Verdicts = [q \in Submissions |-> Verdicts[q]]
      BY DEF Verdicts
    <3> QED  BY <3>1, <3>2
  <2>4. Catalogue!Fail({s})
    BY <1>4, <2>2, <2>3 DEF Catalogue!Fail
  <2> QED  BY <2>4 DEF Catalogue!Next
<1> QED  BY <1>5, <1>6

LEMMA AddPutsOnSale ==
  ASSUME PostInv, Strict, NEW s \in Submissions, AddsProperty(s)
  PROVE  Catalogue!Next
<1> DEFINE row == [by |-> s, rent |-> StoredRent(script[s].rent)]
           k   == Len(listings) + 1
<1>1. /\ script[s].pc = "sent"
      /\ listings' = Append(listings, row)
      /\ amenities' = amenities
  BY DEF AddsProperty, AddProperty
<1>2. PICK new \in SentScripts :
        /\ new.rent = script[s].rent
        /\ \/ new.pc = "inserted" /\ new.id = Len(listings) + 1
           \/ new.pc = "ended" /\ new.out \notin {"listed", "none"}
        /\ script' = [script EXCEPT ![s] = new]
  BY DEF AddsProperty
<1>3. /\ AskedRent' = AskedRent
      /\ AskedRent[s] = script[s].rent /\ script[s].rent \in Rents
      /\ Catalogue!Open(s)
      /\ Verdicts' = [Verdicts EXCEPT ![s] =
                        IF new.pc # "ended" THEN "none"
                        ELSE IF new.out = "listed" THEN "listed" ELSE "failed"]
  BY <1>1, <1>2, EndIsVerdict
<1>4. ~Catalogue!Lists(s)
  <2>1. \A i \in DOMAIN listings : listings[i].by # s
    BY <1>1 DEF PostInv, RowsHaveScripts
  <2> QED  BY <2>1 DEF Catalogue!Lists, OnSale
<1>5. row \in Rows
  BY <1>3, StoredRentType DEF Rows
<1>6. row = [by |-> s, rent |-> AskedRent[s]]
  BY <1>3, StoredRentType DEF AddsProperty
<1> HIDE DEF row
<1>7. /\ DOMAIN listings' = DOMAIN listings \cup {k}
      /\ listings'[k] = row
      /\ k \notin DOMAIN listings
      /\ \A i \in DOMAIN listings : listings'[i] = listings[i]
  <2>1. listings \in Seq(Rows)
    BY DEF PostInv, TypeOK
  <2> QED  BY <2>1, <1>1, <1>5
<1> HIDE DEF k
<1>8. OnSale' = OnSale \cup {row}
  BY <1>7 DEF OnSale
<1>9. Furnished' = Furnished
  <2>1. \A i \in amenities : listings'[i] = listings[i]
    BY <1>7 DEF PostInv, TypeOK
  <2> QED  BY <1>1, <2>1 DEF Furnished
<1>10. \E v \in {"none", "failed"} : Verdicts' = [Verdicts EXCEPT ![s] = v]
  BY <1>2, <1>3
<1>11. Catalogue!PutOnSale(s)
  BY <1>3, <1>4, <1>6, <1>8, <1>9, <1>10 DEF Catalogue!PutOnSale
<1> QED  BY <1>11 DEF Catalogue!Next

LEMMA RestartFails ==
  ASSUME PostInv, Restart
  PROVE  Catalogue!Next
<1> DEFINE S == {s \in Submissions : script[s].pc \in {"sent", "inserted"}}
<1>1. \A s \in S : /\ script'[s].pc = "ended"
                   /\ script'[s].rent = script[s].rent
                   /\ script'[s].out = "broken"
  <2> SUFFICES ASSUME NEW s \in S
               PROVE  /\ script'[s].pc = "ended"
                      /\ script'[s].rent = script[s].rent
                      /\ script'[s].out = "broken"
    OBVIOUS
  <2>1. script[s] \in SentScripts
    BY DEF PostInv, TypeOK, Scripts, Unsent
  <2>2. script'[s] = [script[s] EXCEPT !.pc = "ended", !.out = "broken"]
    BY DEF Restart
  <2> QED  BY <2>1, <2>2 DEF SentScripts
<1>2. \A s \in Submissions \ S : script'[s] = script[s]
  BY DEF Restart
<1>3. UNCHANGED <<OnSale, Furnished>>
  BY DEF Restart, OnSale, Furnished
<1>4. AskedRent' = AskedRent
  BY <1>1, <1>2 DEF AskedRent
<1>5. Verdicts' = [s \in Submissions |-> IF s \in S THEN "failed" ELSE Verdicts[s]]
  BY <1>1, <1>2 DEF Verdicts
<1>6. \A s \in S : Catalogue!Open(s)
  <2> SUFFICES ASSUME NEW s \in S PROVE Catalogue!Open(s)
    OBVIOUS
  <2>1. script[s] \in SentScripts
    BY DEF PostInv, TypeOK, Scripts, Unsent
  <2>2. script[s].rent # NoRent
    BY <2>1, PostAssumption DEF SentScripts
  <2> QED  BY <2>2 DEF Catalogue!Open, AskedRent, Verdicts
<1>7. Catalogue!Fail(S)
  BY <1>3, <1>4, <1>5, <1>6 DEF Catalogue!Fail
<1>8. S \in SUBSET Submissions
  OBVIOUS
<1> QED  BY <1>7, <1>8 DEF Catalogue!Next

(* Where mysqli throws and the server is strict, the two autocommitted     *)
(* INSERTs of any number of owners' scripts keep the promise of Listings:  *)
(* one property per submission at most, at the rent it asked for,          *)
(* furnished after it is on sale, and "listed" told only of one that is    *)
(* furnished.                                                              *)
THEOREM PostPropertyImplementsListings ==
  ASSUME Throws, Strict
  PROVE  Spec => CatalogueKept
<1>1. PostInv /\ [Next]_vars => [Catalogue!Next]_(Catalogue!lvars)
  <2> SUFFICES ASSUME PostInv, [Next]_vars
               PROVE  [Catalogue!Next]_(Catalogue!lvars)
    OBVIOUS
  <2>1. CASE UNCHANGED <<script, listings, amenities>>
    <3>1. UNCHANGED <<AskedRent, OnSale, Furnished, Verdicts>>
      BY <2>1 DEF AskedRent, OnSale, Furnished, Verdicts
    <3> QED  BY <3>1 DEF Catalogue!lvars
  <2>2. ASSUME NEW o \in Owners, BrowserStep(o)
        PROVE  [Catalogue!Next]_(Catalogue!lvars)
    <3>1. CASE \E rent \in Rents : Submit(o, rent)
      BY <3>1, SubmitAsks
    <3>2. CASE \/ SwitchLogin(o) \/ OpenForm(o) \/ Succeed(o)
               \/ Refused(o) \/ FetchFails(o)
      <4>1. UNCHANGED <<script, listings, amenities>>
        BY <3>2 DEF SwitchLogin, OpenForm, Succeed, Refused, FetchFails, Alert
      <4> QED  BY <2>1, <4>1
    <3> QED  BY <2>2, <3>1, <3>2 DEF BrowserStep
  <2>3. ASSUME NEW s \in Submissions, Starts(s) \/ InsertAmenities(s)
        PROVE  Catalogue!Next
    <3>1. EndsScript(s) \/ AddsProperty(s)
      BY <2>3, ScriptSteps DEF PostInv
    <3> QED  BY <3>1, EndDecides, AddPutsOnSale
  <2>4. CASE Restart
    BY <2>4, RestartFails
  <2>5. CASE UNCHANGED vars
    BY <2>1, <2>5 DEF vars
  <2> QED  BY <2>2, <2>3, <2>4, <2>5 DEF Next
<1> QED  BY <1>1, CatalogueInit, PostInvariance, PTL
         DEF Spec, CatalogueKept, Catalogue!Spec
===============================================================================

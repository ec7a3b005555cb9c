------------------------------ MODULE SignupProofs ----------------------------
(***************************************************************************)
(* Theorems of Signup for every set of visitors, e-mails and forms, every  *)
(* collation and every bound.                                              *)
(***************************************************************************)
EXTENDS Signup, TLAPS

(* A submission beyond the visitor's count has not been sent, and a page   *)
(* past the form belongs to one that has.                                  *)
SentInOrder ==
  /\ \A v \in Visitors, n \in 1..MaxTries :
       script[<<v, n>>].pc # "unsent" <=> n <= tries[v]
  /\ \A v \in Visitors : page[v] # "form" => tries[v] >= 1

(* A row was inserted by a script that has ended, for the e-mail of its    *)
(* form.                                                                   *)
RowsHaveScripts ==
  \A r \in users : /\ script[r.by].pc = "ended"
                   /\ script[r.by].form.email = r.email

(* A script that answers "created" has left its row.                       *)
CreatedHasRow ==
  \A s \in Submissions :
    (script[s].pc = "ended" /\ script[s].out = "created") =>
      [email |-> script[s].form.email, by |-> s] \in users

(* A page tells what the script of its last submission answered.           *)
PageIsAnswer ==
  \A v \in Visitors : page[v] = "created" =>
    script[Latest(v)].pc = "ended" /\ script[Latest(v)].out = "created"

SignupInv == /\ TypeOK
             /\ SentInOrder
             /\ RowsHaveScripts
             /\ CreatedHasRow
             /\ PageIsAnswer
             /\ OneAccountPerEmail

LEMMA LatestIsSent ==
  ASSUME TypeOK, SentInOrder, NEW v \in Visitors, page[v] # "form"
  PROVE  /\ Latest(v) \in Submissions
         /\ script[Latest(v)] \in SentScripts
BY SignupAssumption DEF TypeOK, SentInOrder, Latest, Submissions, Scripts, Unsent

-------------------------------------------------------------------------------
(* Each kind of step, on the parts of the invariant it can disturb.        *)

LEMMA InitEstablishes == Init => SignupInv
BY SignupAssumption
   DEF Init, SignupInv, TypeOK, SentInOrder, RowsHaveScripts, CreatedHasRow,
       PageIsAnswer, OneAccountPerEmail, Scripts, Unsent, Submissions, Answers

LEMMA SubmitPreserves ==
  ASSUME SignupInv, NEW v \in Visitors, NEW f \in Forms, Submit(v, f)
  PROVE  SignupInv'
<1> DEFINE s0 == <<v, tries[v] + 1>>
           new == [pc |-> "sent", form |-> f, out |-> "none"]
<1>1. /\ s0 \in Submissions
      /\ tries[v] \in Nat /\ tries[v] < MaxTries
      /\ script' = [script EXCEPT ![s0] = new]
      /\ script[s0].pc = "unsent"
      /\ UNCHANGED users
  BY SignupAssumption DEF SignupInv, TypeOK, SentInOrder, Submit, Submissions
<1>2. /\ script'[s0] = new
      /\ \A s \in Submissions : s # s0 => script'[s] = script[s]
  BY <1>1 DEF SignupInv, TypeOK
<1>3. /\ tries' = [tries EXCEPT ![v] = @ + 1]
      /\ page' = [page EXCEPT ![v] = "waiting"]
  BY DEF Submit
<1>4. TypeOK'
  <2>1. script' \in [Submissions -> Scripts]
    BY <1>1, SignupAssumption DEF SignupInv, TypeOK, Scripts, SentScripts, Answers
  <2>2. /\ tries' \in [Visitors -> 0..MaxTries]
        /\ page' \in [Visitors -> {"form", "waiting"} \cup (Answers \ {"none"})]
    BY <1>1, <1>3, SignupAssumption DEF SignupInv, TypeOK
  <2>3. \A s \in Submissions : script'[s].pc # "unsent" =>
          (script'[s].out = "none" <=> script'[s].pc # "ended")
    BY <1>2 DEF SignupInv, TypeOK
  <2> QED  BY <2>1, <2>2, <2>3, <1>1 DEF SignupInv, TypeOK
<1>5. SentInOrder'
  <2>1. ASSUME NEW w \in Visitors, NEW n \in 1..MaxTries
        PROVE  script'[<<w, n>>].pc # "unsent" <=> n <= tries'[w]
    <3>1. <<w, n>> \in Submissions
      BY DEF Submissions
    <3>2. CASE w = v
      <4>1. tries'[v] = tries[v] + 1
        BY <1>3 DEF SignupInv, TypeOK
      <4>2. CASE n = tries[v] + 1
        BY <4>1, <4>2, <3>2, <1>1, <1>2
      <4>3. CASE n # tries[v] + 1
        <5>1. script'[<<w, n>>] = script[<<w, n>>]
          BY <4>3, <3>1, <1>2
        <5>2. n <= tries[v] + 1 <=> n <= tries[v]
          BY <4>3, <1>1, SignupAssumption
        <5> QED  BY <5>1, <5>2, <4>1, <3>2 DEF SignupInv, SentInOrder
      <4> QED  BY <4>2, <4>3
    <3>3. CASE w # v
      <4>1. tries'[w] = tries[w] /\ script'[<<w, n>>] = script[<<w, n>>]
        BY <3>1, <3>3, <1>2, <1>3 DEF SignupInv, TypeOK
      <4> QED  BY <4>1 DEF SignupInv, SentInOrder
    <3> QED  BY <3>2, <3>3
  <2>2. \A w \in Visitors : page'[w] # "form" => tries'[w] >= 1
    BY <1>1, <1>3 DEF SignupInv, TypeOK, SentInOrder
  <2> QED  BY <2>1, <2>2 DEF SentInOrder
<1>6. \A r \in users : r.by # s0 /\ r.by \in Submissions
  BY <1>1 DEF SignupInv, TypeOK, RowsHaveScripts, Rows
<1>7. RowsHaveScripts'
  BY <1>1, <1>2, <1>6 DEF SignupInv, RowsHaveScripts
<1>8. CreatedHasRow'
  BY <1>1, <1>2 DEF SignupInv, CreatedHasRow
<1>9. PageIsAnswer'
  <2> SUFFICES ASSUME NEW w \in Visitors, page'[w] = "created"
               PROVE  script'[Latest(w)'].pc = "ended" /\ script'[Latest(w)'].out = "created"
    BY DEF PageIsAnswer
  <2>1. w # v /\ page[w] = "created" /\ Latest(w)' = Latest(w)
    BY <1>3 DEF SignupInv, TypeOK, Latest
  <2>2. Latest(w) \in Submissions /\ Latest(w) # s0
    BY <2>1, LatestIsSent DEF SignupInv, Latest
  <2> QED  BY <2>1, <2>2, <1>2 DEF SignupInv, PageIsAnswer
<1>10. OneAccountPerEmail'
  BY <1>1 DEF SignupInv, OneAccountPerEmail
<1> QED  BY <1>4, <1>5, <1>7, <1>8, <1>9, <1>10 DEF SignupInv

LEMMA PagePreserves ==
  ASSUME SignupInv, NEW v \in Visitors, Answer(v) \/ PageFails(v)
  PROVE  SignupInv'
<1>1. /\ UNCHANGED <<users, tries, script>>
      /\ page[v] = "waiting"
  BY DEF Answer, PageFails
<1>2. Latest(v) \in Submissions /\ script[Latest(v)] \in SentScripts
  BY <1>1, LatestIsSent DEF SignupInv
<1>3. PICK a \in Answers \ {"none"} :
        /\ page' = [page EXCEPT ![v] = a]
        /\ a = "created" => /\ script[Latest(v)].pc = "ended"
                            /\ script[Latest(v)].out = "created"
  <2>1. CASE Answer(v)
    <3>1. /\ script[Latest(v)].pc = "ended"
          /\ script[Latest(v)].out \in Answers \ {"none"}
      BY <1>2, <2>1 DEF Answer, SignupInv, TypeOK, SentScripts
    <3> QED  BY <2>1, <3>1 DEF Answer
  <2>2. CASE PageFails(v)
    <3>1. "lost" \in Answers \ {"none"} /\ "lost" # "created"
      BY DEF Answers
    <3>2. page' = [page EXCEPT ![v] = "lost"]
      BY <2>2 DEF PageFails
    <3> QED  BY <3>1, <3>2
  <2> QED  BY <2>1, <2>2
<1>4. TypeOK'
  BY <1>1, <1>3 DEF SignupInv, TypeOK
<1>5. SentInOrder'
  <2>1. \A w \in Visitors : page'[w] # "form" => page[w] # "form"
    BY <1>1, <1>3 DEF SignupInv, TypeOK
  <2> QED  BY <2>1, <1>1 DEF SignupInv, SentInOrder
<1>6. PageIsAnswer'
  <2>1. \A w \in Visitors : Latest(w)' = Latest(w)
    BY <1>1 DEF Latest
  <2>2. \A w \in Visitors : page'[w] = IF w = v THEN a ELSE page[w]
    BY <1>3 DEF SignupInv, TypeOK
  <2> QED  BY <2>1, <2>2, <1>1, <1>3 DEF SignupInv, PageIsAnswer
<1> QED  BY <1>1, <1>4, <1>5, <1>6
         DEF SignupInv, RowsHaveScripts, CreatedHasRow, OneAccountPerEmail

(* A step of one script: it leaves what the others and the pages know, and *)
(* inserts at most its own row, for an e-mail that nobody has.             *)
LEMMA ScriptPreserves ==
  ASSUME SignupInv, NEW s \in Submissions, script[s].pc \in {"sent", "checked"},
         NEW new \in SentScripts, new.form = script[s].form,
         new.out = "none" <=> new.pc # "ended",
         script' = [script EXCEPT ![s] = new],
         UNCHANGED <<tries, page>>,
         \/ users' = users /\ new.out # "created"
         \/ new.pc = "ended" /\ ~Registered(new.form.email) /\ AddUser(s)
  PROVE  SignupInv'
<1> DEFINE row == [email |-> new.form.email, by |-> s]
<1>1. /\ script'[s] = new
      /\ \A q \in Submissions : q # s => script'[q] = script[q]
  BY DEF SignupInv, TypeOK
<1>2. /\ row \in Rows
      /\ users' \in {users, users \cup {row}}
  BY SignupAssumption DEF AddUser, Rows, SentScripts, FormFields
<1>3. \A r \in users : r.by \in Submissions /\ r.by # s
  BY DEF SignupInv, TypeOK, RowsHaveScripts, Rows
<1>4. TypeOK'
  <2>1. script' \in [Submissions -> Scripts]
    BY DEF SignupInv, TypeOK, Scripts
  <2>2. \A q \in Submissions : script'[q].pc # "unsent" =>
          (script'[q].out = "none" <=> script'[q].pc # "ended")
    BY <1>1 DEF SignupInv, TypeOK
  <2> QED  BY <2>1, <2>2, <1>2 DEF SignupInv, TypeOK
<1>5. SentInOrder'
  <2>1. \A q \in Submissions : script'[q].pc # "unsent" <=> script[q].pc # "unsent"
    BY <1>1 DEF SentScripts
  <2>2. \A v \in Visitors, n \in 1..MaxTries : <<v, n>> \in Submissions
    BY DEF Submissions
  <2> QED  BY <2>1, <2>2 DEF SignupInv, SentInOrder
<1>6. RowsHaveScripts'
  <2> SUFFICES ASSUME NEW r \in users'
               PROVE  script'[r.by].pc = "ended" /\ script'[r.by].form.email = r.email
    BY DEF RowsHaveScripts
  <2>1. CASE r \in users
    BY <2>1, <1>1, <1>3 DEF SignupInv, RowsHaveScripts
  <2>2. CASE r \notin users
    BY <2>2, <1>1, <1>2 DEF AddUser
  <2> QED  BY <2>1, <2>2
<1>7. CreatedHasRow'
  <2> SUFFICES ASSUME NEW q \in Submissions,
                      script'[q].pc = "ended", script'[q].out = "created"
               PROVE  [email |-> script'[q].form.email, by |-> q] \in users'
    BY DEF CreatedHasRow
  <2>1. CASE q = s
    BY <2>1, <1>1 DEF AddUser
  <2>2. CASE q # s
    BY <2>2, <1>1, <1>2 DEF SignupInv, CreatedHasRow
  <2> QED  BY <2>1, <2>2
<1>8. PageIsAnswer'
  <2> SUFFICES ASSUME NEW v \in Visitors, page[v] = "created"
               PROVE  script'[Latest(v)].pc = "ended" /\ script'[Latest(v)].out = "created"
    BY DEF PageIsAnswer, Latest
  <2>1. /\ Latest(v) \in Submissions
        /\ script[Latest(v)].pc = "ended" /\ script[Latest(v)].out = "created"
    BY LatestIsSent DEF SignupInv, PageIsAnswer
  <2> QED  BY <2>1, <1>1
<1>9. OneAccountPerEmail'
  <2>1. CASE users' = users
    BY <2>1 DEF SignupInv, OneAccountPerEmail
  <2>2. CASE users' # users
    <3>1. /\ users' = users \cup {row}
          /\ \A r \in users : Fold[r.email] # Fold[row.email]
      BY <2>2 DEF AddUser, Registered
    <3> QED  BY <3>1 DEF SignupInv, OneAccountPerEmail
  <2> QED  BY <2>1, <2>2
<1> QED  BY <1>4, <1>5, <1>6, <1>7, <1>8, <1>9 DEF SignupInv

(* What an action of a script amounts to, for the lemma above.             *)
LEMMA EndsWith ==
  ASSUME TypeOK, NEW s \in Submissions, script[s].pc \in {"sent", "checked"},
         NEW a \in Answers, Ends(s, a)
  PROVE  \E new \in SentScripts :
           /\ new.form = script[s].form
           /\ new.pc = "ended"
           /\ new.out = a
           /\ script' = [script EXCEPT ![s] = new]
<1>1. script[s] \in SentScripts
  BY DEF TypeOK, Scripts, Unsent
<1> DEFINE new == [script[s] EXCEPT !.pc = "ended", !.out = a]
<1>2. new \in SentScripts /\ new.form = script[s].form /\ new.pc = "ended" /\ new.out = a
  BY <1>1 DEF SentScripts
<1>3. script' = [script EXCEPT ![s] = new]
  BY DEF Ends
<1> QED  BY <1>2, <1>3

LEMMA SelectPreserves ==
  ASSUME SignupInv, NEW s \in Submissions, Select(s)
  PROVE  SignupInv'
<1>1. /\ script[s].pc = "sent"
      /\ UNCHANGED <<users, tries, page>>
  BY DEF Select
<1>2. ASSUME NEW a \in {"wrong", "taken"}, Ends(s, a)
      PROVE  SignupInv'
  <2>1. PICK new \in SentScripts : /\ new.form = script[s].form
                                   /\ new.pc = "ended"
                                   /\ new.out = a
                                   /\ script' = [script EXCEPT ![s] = new]
    BY <1>1, <1>2, EndsWith DEF SignupInv, Answers
  <2> QED  BY <1>1, <1>2, <2>1, ScriptPreserves
<1>3. CASE script' = [script EXCEPT ![s].pc = "checked"]
  <2> DEFINE new == [pc |-> "checked", form |-> script[s].form, out |-> "none"]
  <2>1. script[s] \in SentScripts /\ script[s].out = "none"
    BY <1>1 DEF SignupInv, TypeOK, Scripts, Unsent
  <2>2. new \in SentScripts /\ [script[s] EXCEPT !.pc = "checked"] = new
    BY <2>1 DEF SentScripts
  <2>3. script' = [script EXCEPT ![s] = new]
    BY <2>2, <1>3
  <2> QED  BY <1>1, <2>2, <2>3, ScriptPreserves
<1> QED  BY <1>2, <1>3 DEF Select

LEMMA InsertPreserves ==
  ASSUME SignupInv, NEW s \in Submissions, Insert(s)
  PROVE  SignupInv'
<1>1. /\ script[s].pc = "checked"
      /\ UNCHANGED <<tries, page>>
  BY DEF Insert
<1>2. PICK a \in {"created", "wrong"} :
        /\ Ends(s, a)
        /\ \/ users' = users /\ a # "created"
           \/ ~Registered(script[s].form.email) /\ AddUser(s)
  BY DEF Insert, Insertable
<1>3. PICK new \in SentScripts : /\ new.form = script[s].form
                                 /\ new.pc = "ended"
                                 /\ new.out = a
                                 /\ script' = [script EXCEPT ![s] = new]
  BY <1>1, <1>2, EndsWith DEF SignupInv, Answers
<1> QED  BY <1>1, <1>2, <1>3, ScriptPreserves

LEMMA DatabaseFailsPreserves ==
  ASSUME SignupInv, NEW s \in Submissions, DatabaseFails(s)
  PROVE  SignupInv'
<1>1. /\ script[s].pc \in {"sent", "checked"}
      /\ Ends(s, "wrong")
      /\ UNCHANGED <<users, tries, page>>
  BY DEF DatabaseFails
<1>2. PICK new \in SentScripts : /\ new.form = script[s].form
                                 /\ new.pc = "ended"
                                 /\ new.out = "wrong"
                                 /\ script' = [script EXCEPT ![s] = new]
  BY <1>1, EndsWith DEF SignupInv, Answers
<1> QED  BY <1>1, <1>2, ScriptPreserves

LEMMA RestartPreserves ==
  ASSUME SignupInv, Restart
  PROVE  SignupInv'
<1>1. UNCHANGED <<users, tries, page>>
  BY DEF Restart
<1>2. ASSUME NEW s \in Submissions, script[s].pc \in {"sent", "checked"}
      PROVE  /\ script'[s] \in SentScripts
             /\ script'[s].pc = "ended"
             /\ script'[s].form = script[s].form
             /\ script'[s].out = "lost"
  <2>1. script[s] \in SentScripts
    BY <1>2 DEF SignupInv, TypeOK, Scripts, Unsent
  <2>2. script'[s] = [script[s] EXCEPT !.pc = "ended", !.out = "lost"]
    BY <1>2 DEF Restart
  <2> QED  BY <2>1, <2>2 DEF SentScripts, Answers
<1>3. \A s \in Submissions :
        script[s].pc \notin {"sent", "checked"} => script'[s] = script[s]
  BY DEF Restart
<1>4. TypeOK'
  <2>1. \A s \in Submissions : script'[s] \in Scripts
    BY <1>2, <1>3 DEF SignupInv, TypeOK, Scripts
  <2>2. script' \in [Submissions -> Scripts]
    BY <2>1 DEF Restart
  <2>3. \A s \in Submissions : script'[s].pc # "unsent" =>
          (script'[s].out = "none" <=> script'[s].pc # "ended")
    BY <1>2, <1>3 DEF SignupInv, TypeOK
  <2> QED  BY <1>1, <2>2, <2>3 DEF SignupInv, TypeOK
<1>5. SentInOrder'
  <2>1. \A s \in Submissions : script'[s].pc # "unsent" <=> script[s].pc # "unsent"
    BY <1>2, <1>3
  <2>2. \A v \in Visitors, n \in 1..MaxTries : <<v, n>> \in Submissions
    BY DEF Submissions
  <2> QED  BY <1>1, <2>1, <2>2 DEF SignupInv, SentInOrder
<1>6. RowsHaveScripts'
  <2>1. \A r \in users : r.by \in Submissions
    BY DEF SignupInv, TypeOK, Rows
  <2> QED  BY <1>1, <1>3, <2>1 DEF SignupInv, RowsHaveScripts
<1>7. CreatedHasRow'
  BY <1>1, <1>2, <1>3 DEF SignupInv, CreatedHasRow
<1>8. PageIsAnswer'
  <2> SUFFICES ASSUME NEW v \in Visitors, page[v] = "created"
               PROVE  script'[Latest(v)].pc = "ended" /\ script'[Latest(v)].out = "created"
    BY <1>1 DEF PageIsAnswer, Latest
  <2>1. /\ Latest(v) \in Submissions
        /\ script[Latest(v)].pc = "ended" /\ script[Latest(v)].out = "created"
    BY LatestIsSent DEF SignupInv, PageIsAnswer
  <2> QED  BY <2>1, <1>3
<1> QED  BY <1>1, <1>4, <1>5, <1>6, <1>7, <1>8 DEF SignupInv, OneAccountPerEmail

-------------------------------------------------------------------------------
(* The inductive invariant holds in every reachable state.                 *)
THEOREM SignupInvariance == Spec => []SignupInv
<1>1. Init => SignupInv
  BY InitEstablishes
<1>2. SignupInv /\ [Next]_vars => SignupInv'
  <2> SUFFICES ASSUME SignupInv, [Next]_vars
               PROVE  SignupInv'
    OBVIOUS
  <2>1. CASE \E v \in Visitors, f \in Forms : Submit(v, f)
    BY <2>1, SubmitPreserves
  <2>2. CASE \E v \in Visitors : Answer(v) \/ PageFails(v)
    BY <2>2, PagePreserves
  <2>3. CASE \E s \in Submissions : Select(s) \/ Insert(s) \/ DatabaseFails(s)
    BY <2>3, SelectPreserves, InsertPreserves, DatabaseFailsPreserves
  <2>4. CASE Restart
    BY <2>4, RestartPreserves
  <2>5. CASE UNCHANGED vars
    BY <2>5 DEF vars, SignupInv, TypeOK, SentInOrder, RowsHaveScripts,
                CreatedHasRow, PageIsAnswer, OneAccountPerEmail, Latest
  <2> QED  BY <2>1, <2>2, <2>3, <2>4, <2>5 DEF Next
<1> QED  BY <1>1, <1>2, PTL DEF Spec

(* The variables of Signup keep their types, and a script has an answer    *)
(* exactly when it has ended.                                              *)
THEOREM SignupTypes == Spec => []TypeOK
<1>1. SignupInv => TypeOK
  BY DEF SignupInv
<1> QED  BY <1>1, SignupInvariance, PTL

(* No interleaving of signup_submit.php opens two accounts for one e-mail, *)
(* for any number of visitors, submissions and spellings.                  *)
THEOREM AccountsAreUnique == Spec => []OneAccountPerEmail
<1>1. SignupInv => OneAccountPerEmail
  BY DEF SignupInv
<1> QED  BY <1>1, SignupInvariance, PTL

(* Who is told of a new account can log in to it: the row of the submission*)
(* is there, and it is the only one the SELECT of the login can find.      *)
THEOREM ToldCreatedIsTrue == Spec => []ToldCreatedLogsIn
<1>1. SignupInv => ToldCreatedLogsIn
  <2> SUFFICES ASSUME SignupInv, NEW v \in Visitors, page[v] = "created"
               PROVE  LoginRows(script[Latest(v)].form.email, v)
                        = {[email |-> script[Latest(v)].form.email, by |-> Latest(v)]}
    BY DEF ToldCreatedLogsIn
  <2> DEFINE e   == script[Latest(v)].form.email
             row == [email |-> e, by |-> Latest(v)]
  <2>1. row \in users
    BY LatestIsSent DEF SignupInv, PageIsAnswer, CreatedHasRow
  <2>2. row \in LoginRows(e, v)
    BY <2>1 DEF LoginRows, Latest
  <2>3. \A r \in LoginRows(e, v) : r = row
    BY <2>1 DEF LoginRows, SignupInv, OneAccountPerEmail
  <2> QED  BY <2>2, <2>3
<1> QED  BY <1>1, SignupInvariance, PTL

-------------------------------------------------------------------------------
(* Signup implements Accounts.                                             *)

LEMMA RegisteredIsTaken ==
  \A e \in Emails : Registered(e) <=> Registry!Taken(Fold[e])
<1> SUFFICES ASSUME NEW e \in Emails
             PROVE  Registered(e) <=> Registry!Taken(Fold[e])
  OBVIOUS
<1>1. ASSUME NEW r \in users, Fold[r.email] = Fold[e]
      PROVE  Registry!Taken(Fold[e])
  <2>1. [email |-> Fold[r.email], by |-> r.by] \in Opened
    BY DEF Opened
  <2> QED  BY <1>1, <2>1 DEF Registry!Taken
<1>2. ASSUME NEW a \in Opened, a.email = Fold[e]
      PROVE  Registered(e)
  <2>1. PICK r \in users : a = [email |-> Fold[r.email], by |-> r.by]
    BY DEF Opened
  <2> QED  BY <1>2, <2>1 DEF Registered
<1> QED  BY <1>1, <1>2 DEF Registered, Registry!Taken

LEMMA RegistryInit == Init => Registry!Init
BY DEF Init, Registry!Init, AskedBy, Opened, Verdicts, Unsent

LEMMA SubmitAsks ==
  ASSUME SignupInv, NEW v \in Visitors, NEW f \in Forms, Submit(v, f)
  PROVE  Registry!Next
<1> DEFINE s0 == <<v, tries[v] + 1>>
           new == [pc |-> "sent", form |-> f, out |-> "none"]
<1>1. /\ s0 \in Submissions
      /\ script' = [script EXCEPT ![s0] = new]
      /\ script[s0].pc = "unsent"
      /\ UNCHANGED users
  BY SignupAssumption DEF SignupInv, TypeOK, SentInOrder, Submit, Submissions
<1>2. /\ script'[s0] = new
      /\ \A s \in Submissions : s # s0 => script'[s] = script[s]
  BY <1>1 DEF SignupInv, TypeOK
<1>3. /\ AskedBy[s0] = NoEmail
      /\ AskedBy' = [AskedBy EXCEPT ![s0] = AskedBy'[s0]]
  <2>1. AskedBy[s0] = NoEmail
    BY <1>1 DEF AskedBy
  <2>2. \A s \in Submissions : s # s0 => AskedBy'[s] = AskedBy[s]
    BY <1>2 DEF AskedBy
  <2>3. /\ AskedBy  = [s \in Submissions |-> AskedBy[s]]
        /\ AskedBy' = [s \in Submissions |-> AskedBy'[s]]
    BY DEF AskedBy
  <2> HIDE DEF s0
  <2>4. AskedBy' = [AskedBy EXCEPT ![s0] = AskedBy'[s0]]
    BY <2>2, <2>3
  <2> QED  BY <2>1, <2>4
<1>4. UNCHANGED <<Opened, Verdicts>>
  BY <1>1, <1>2 DEF Opened, Verdicts
<1> QED  BY <1>1, <1>3, <1>4 DEF Registry!Next, Registry!Ask

(* A step that ends one script: its kind of verdict decides which step of  *)
(* Accounts it is.                                                         *)
LEMMA EndDecides ==
  ASSUME SignupInv, NEW s \in Submissions, script[s].pc \in {"sent", "checked"},
         NEW a \in {"created", "taken", "wrong"}, Ends(s, a),
         \/ users' = users /\ a = "wrong"
         \/ users' = users /\ a = "taken" /\ Registered(script[s].form.email)
         \/ a # "taken" /\ ~Registered(script[s].form.email) /\ AddUser(s)
  PROVE  Registry!Next
<1> DEFINE e == script[s].form.email
<1>1. PICK new \in SentScripts : /\ new.form = script[s].form
                                 /\ new.pc = "ended"
                                 /\ new.out = a
                                 /\ script' = [script EXCEPT ![s] = new]
  BY EndsWith DEF SignupInv, Answers
<1>2. /\ script'[s] = new
      /\ \A q \in Submissions : q # s => script'[q] = script[q]
  BY <1>1 DEF SignupInv, TypeOK
<1>3. e \in Emails /\ Fold[e] # NoEmail
  BY <1>1, SignupAssumption DEF SentScripts, FormFields
<1>4. /\ AskedBy[s] = Fold[e]
      /\ AskedBy' = AskedBy
  BY <1>1, <1>2 DEF AskedBy
<1>5. /\ Verdicts[s] = "none"
      /\ Verdicts' = [Verdicts EXCEPT ![s] = a]
  <2>1. Verdicts[s] = "none" /\ Verdicts'[s] = a
    BY <1>1, <1>2 DEF Verdicts
  <2>2. \A q \in Submissions : q # s => Verdicts'[q] = Verdicts[q]
    BY <1>2 DEF Verdicts
  <2>3. /\ Verdicts  = [q \in Submissions |-> Verdicts[q]]
        /\ Verdicts' = [q \in Submissions |-> Verdicts'[q]]
    BY DEF Verdicts
  <2>4. Verdicts' = [Verdicts EXCEPT ![s] = a]
    BY <2>1, <2>2, <2>3
  <2> QED  BY <2>1, <2>4
<1>6. Registry!Open(s)
  BY <1>3, <1>4, <1>5 DEF Registry!Open
<1>7. CASE users' = users /\ a = "wrong"
  <2>1. Opened' = Opened
    BY <1>7 DEF Opened
  <2>2. Verdicts' = [q \in Submissions |-> IF q \in {s} THEN "wrong" ELSE Verdicts[q]]
    BY <1>5, <1>7 DEF Verdicts
  <2>3. Registry!Fail({s})
    BY <1>4, <1>6, <2>1, <2>2 DEF Registry!Fail
  <2> QED  BY <2>3 DEF Registry!Next
<1>8. CASE users' = users /\ a = "taken" /\ Registered(e)
  <2>1. Opened' = Opened
    BY <1>8 DEF Opened
  <2>2. Registry!Refuse(s)
    BY <1>3, <1>4, <1>5, <1>6, <1>8, <2>1, RegisteredIsTaken DEF Registry!Refuse
  <2> QED  BY <2>2 DEF Registry!Next
<1>9. CASE a # "taken" /\ ~Registered(e) /\ AddUser(s)
  <2>1. Opened' = Opened \cup {[email |-> AskedBy[s], by |-> s]}
    <3> DEFINE row == [email |-> e, by |-> s]
    <3>1. users' = users \cup {row}
      BY <1>9 DEF AddUser
    <3>2. Opened' = Opened \cup {[email |-> Fold[row.email], by |-> row.by]}
      <4> HIDE DEF row
      <4> QED  BY <3>1 DEF Opened
    <3>3. row.email = e /\ row.by = s
      OBVIOUS
    <3> QED  BY <1>4, <3>2, <3>3
  <2>2. Registry!Register(s)
    BY <1>3, <1>4, <1>5, <1>6, <1>9, <2>1, RegisteredIsTaken DEF Registry!Register
  <2> QED  BY <2>2 DEF Registry!Next
<1> QED  BY <1>7, <1>8, <1>9

LEMMA SelectDecides ==
  ASSUME SignupInv, NEW s \in Submissions, Select(s)
  PROVE  [Registry!Next]_(Registry!avars)
<1>1. script[s].pc = "sent" /\ UNCHANGED users
  BY DEF Select
<1>2. CASE Ends(s, "wrong")
  BY <1>1, <1>2, EndDecides
<1>3. CASE Registered(script[s].form.email) /\ Ends(s, "taken")
  BY <1>1, <1>3, EndDecides
<1>4. CASE script' = [script EXCEPT ![s].pc = "checked"]
  <2>1. script[s] \in SentScripts
    BY <1>1 DEF SignupInv, TypeOK, Scripts, Unsent
  <2>2. script' = [script EXCEPT ![s] = [script[s] EXCEPT !.pc = "checked"]]
    BY <1>4
  <2>3. /\ script'[s].pc = "checked"
        /\ script'[s].form = script[s].form
        /\ \A q \in Submissions : q # s => script'[q] = script[q]
    BY <2>1, <2>2 DEF SentScripts, SignupInv, TypeOK
  <2>4. AskedBy' = AskedBy /\ Verdicts' = Verdicts /\ Opened' = Opened
    BY <1>1, <2>3 DEF AskedBy, Verdicts, Opened
  <2> QED  BY <2>4 DEF Registry!avars
<1> QED  BY <1>2, <1>3, <1>4 DEF Select

LEMMA InsertDecides ==
  ASSUME SignupInv, NEW s \in Submissions, Insert(s)
  PROVE  Registry!Next
<1>1. script[s].pc = "checked"
  BY DEF Insert
<1>2. PICK a \in {"created", "wrong"} :
        /\ Ends(s, a)
        /\ \/ users' = users /\ a = "wrong"
           \/ ~Registered(script[s].form.email) /\ AddUser(s)
  BY DEF Insert, Insertable
<1> QED  BY <1>1, <1>2, EndDecides

LEMMA RestartFails ==
  ASSUME SignupInv, Restart
  PROVE  Registry!Next
<1> DEFINE S == {s \in Submissions : script[s].pc \in {"sent", "checked"}}
<1>1. \A s \in S : /\ script'[s].pc = "ended"
                   /\ script'[s].form = script[s].form
                   /\ script'[s].out = "lost"
  <2> SUFFICES ASSUME NEW s \in S
               PROVE  /\ script'[s].pc = "ended"
                      /\ script'[s].form = script[s].form
                      /\ script'[s].out = "lost"
    OBVIOUS
  <2>1. script[s] \in SentScripts
    BY DEF SignupInv, TypeOK, Scripts, Unsent
  <2>2. script'[s] = [script[s] EXCEPT !.pc = "ended", !.out = "lost"]
    BY DEF Restart
  <2> QED  BY <2>1, <2>2 DEF SentScripts
<1>2. \A s \in Submissions \ S : script'[s] = script[s]
  BY DEF Restart
<1>3. Opened' = Opened
  BY DEF Restart, Opened
<1>4. AskedBy' = AskedBy
  BY <1>1, <1>2 DEF AskedBy
<1>5. Verdicts' = [s \in Submissions |-> IF s \in S THEN "wrong" ELSE Verdicts[s]]
  BY <1>1, <1>2 DEF Verdicts
<1>6. \A s \in S : Registry!Open(s)
  <2> SUFFICES ASSUME NEW s \in S PROVE Registry!Open(s)
    OBVIOUS
  <2>1. script[s] \in SentScripts
    BY DEF SignupInv, TypeOK, Scripts, Unsent
  <2>2. Fold[script[s].form.email] # NoEmail
    BY <2>1, SignupAssumption DEF SentScripts, FormFields
  <2> QED  BY <2>2 DEF Registry!Open, AskedBy, Verdicts
<1>7. Registry!Fail(S)
  BY <1>3, <1>4, <1>5, <1>6 DEF Registry!Fail
<1>8. S \in SUBSET Submissions
  OBVIOUS
<1> QED  BY <1>7, <1>8 DEF Registry!Next

(* The two statements of signup_submit.php, run by any number of visitors, *)
(* act as one atomic registration per e-mail: each submission gets one     *)
(* verdict, "created" exactly at the step that opens its account and       *)
(* "already registered" only over an account.                              *)
THEOREM SignupImplementsAccounts == Spec => RegistryKept
<1>1. SignupInv /\ [Next]_vars => [Registry!Next]_(Registry!avars)
  <2> SUFFICES ASSUME SignupInv, [Next]_vars
               PROVE  [Registry!Next]_(Registry!avars)
    OBVIOUS
  <2>1. CASE \E v \in Visitors, f \in Forms : Submit(v, f)
    BY <2>1, SubmitAsks
  <2>2. CASE \E v \in Visitors : Answer(v) \/ PageFails(v)
    <3>1. UNCHANGED <<users, script>>
      BY <2>2 DEF Answer, PageFails
    <3>2. UNCHANGED <<AskedBy, Opened, Verdicts>>
      BY <3>1 DEF AskedBy, Opened, Verdicts
    <3> QED  BY <3>2 DEF Registry!avars
  <2>3. CASE \E s \in Submissions : Select(s) \/ Insert(s) \/ DatabaseFails(s)
    <3>1. ASSUME NEW s \in Submissions, DatabaseFails(s)
          PROVE  Registry!Next
      <4>1. /\ script[s].pc \in {"sent", "checked"}
            /\ Ends(s, "wrong")
            /\ UNCHANGED users
        BY <3>1 DEF DatabaseFails
      <4> QED  BY <4>1, EndDecides
    <3> QED  BY <2>3, <3>1, SelectDecides, InsertDecides
  <2>4. CASE Restart
    BY <2>4, RestartFails
  <2>5. CASE UNCHANGED vars
    <3>1. UNCHANGED <<AskedBy, Opened, Verdicts>>
      BY <2>5 DEF vars, AskedBy, Opened, Verdicts
    <3> QED  BY <3>1 DEF Registry!avars
  <2> QED  BY <2>1, <2>2, <2>3, <2>4, <2>5 DEF Next
<1> QED  BY <1>1, RegistryInit, SignupInvariance, PTL
         DEF Spec, RegistryKept, Registry!Spec
===============================================================================

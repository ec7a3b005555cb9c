--------------------------------- MODULE Signup -------------------------------
(***************************************************************************)
(* Signing up: the form of includes/signup_modal.php in the pages of       *)
(* several visitors and the script api/signup_submit.php that answers it,  *)
(* over the table users.  The script starts no session, so any number of   *)
(* them run side by side, those of one impatient visitor included; its     *)
(* SELECT and its INSERT are two autocommitted statements, and only the    *)
(* unique key of the table lies between a race and a second account.       *)
(***************************************************************************)
EXTENDS Naturals, FiniteSets

CONSTANTS Visitors,
          Emails,    \* e-mail addresses as they are typed
          NoEmail,
          Fold,      \* what the collation of the column compares of them
          Forms,     \* the forms a visitor may send
          MaxTries,  \* bound: submissions per visitor
          Strict,    \* sql_mode holds STRICT_TRANS_TABLES (MariaDB's default)
          MayFail    \* connections and servers may fail

(* A form passes the browser's checks: all but the gender is filled in.    *)
(* apostrophe is the text field that holds one, as in O'Brien; each        *)
(* visitor keeps to one password.                                          *)
FormFields == [email : Emails, apostrophe : {"nowhere", "name", "email"},
               gender : {"male", "female", "unset"}]

ASSUME SignupAssumption ==
  /\ NoEmail \notin Emails
  /\ Fold \in [Emails -> Emails]
  /\ Forms \subseteq FormFields
  /\ MaxTries \in Nat
  /\ Strict \in BOOLEAN
  /\ MayFail \in BOOLEAN

VARIABLES users,   \* the table
          tries,   \* submissions of each visitor so far
          page,    \* what each visitor sees
          script   \* the run of signup_submit.php for each submission

vars == <<users, tries, page, script>>

Submissions == Visitors \X (1..MaxTries)

(* by is not a column: the submission that inserted the row.  Its visitor  *)
(* stands for the password.                                                *)
Rows == [email : Emails, by : Submissions]

(* pc: not sent; before the SELECT; between SELECT and INSERT; ended, with *)
(* the answer out, or "lost" when it was killed.                           *)
Unsent      == [pc |-> "unsent"]
Answers     == {"none", "created", "taken", "wrong", "lost"}
SentScripts == [pc : {"sent", "checked", "ended"}, form : Forms, out : Answers]
Scripts     == {Unsent} \cup SentScripts

TypeOK ==
  /\ users \subseteq Rows
  /\ tries \in [Visitors -> 0..MaxTries]
  /\ page \in [Visitors -> {"form", "waiting"} \cup (Answers \ {"none"})]
  /\ script \in [Submissions -> Scripts]
  /\ \A s \in Submissions : script[s].pc # "unsent" =>
       (script[s].out = "none" <=> script[s].pc # "ended")

Init ==
  /\ users = {}
  /\ tries = [v \in Visitors |-> 0]
  /\ page = [v \in Visitors |-> "form"]
  /\ script = [s \in Submissions |-> Unsent]

Latest(v) == <<v, tries[v]>>

(* Mutation: the column compares e-mails byte by byte.                     *)
Registered_Exact(e) == \E r \in users : r.email = e

Registered(e) == \E r \in users : Fold[r.email] = Fold[e]

-------------------------------------------------------------------------------
(* In the browser.                                                         *)

(* Create Account: from a fresh form, or once more while the first answer  *)
(* is awaited, which then reaches nobody although its script runs on.      *)
Submit(v, f) ==
  /\ tries[v] < MaxTries
  /\ tries' = [tries EXCEPT ![v] = @ + 1]
  /\ page' = [page EXCEPT ![v] = "waiting"]
  /\ script' = [script EXCEPT ![<<v, tries[v] + 1>>] =
       [pc |-> "sent", form |-> f, out |-> "none"]]
  /\ UNCHANGED users

(* Mutation: the page is shown before the script has ended.                *)
Answer_Early(v) ==
  /\ page[v] = "waiting"
  /\ page' = [page EXCEPT ![v] = script[Latest(v)].out]
  /\ UNCHANGED <<users, tries, script>>

Answer(v) ==
  /\ page[v] = "waiting"
  /\ script[Latest(v)].pc = "ended"
  /\ page' = [page EXCEPT ![v] = script[Latest(v)].out]
  /\ UNCHANGED <<users, tries, script>>

PageFails(v) ==
  /\ MayFail
  /\ page[v] = "waiting"
  /\ page' = [page EXCEPT ![v] = "lost"]
  /\ UNCHANGED <<users, tries, script>>

-------------------------------------------------------------------------------
(* On the server.                                                          *)

Ends(s, answer) ==
  script' = [script EXCEPT ![s] = [@ EXCEPT !.pc = "ended", !.out = answer]]

(* The SELECT compares as the collation does; an apostrophe in the e-mail  *)
(* ends its string literal, and the statement is refused.                  *)
Select(s) ==
  LET f == script[s].form
  IN /\ script[s].pc = "sent"
     /\ \/ f.apostrophe = "email" /\ Ends(s, "wrong")
        \/ f.apostrophe # "email" /\ Registered(f.email) /\ Ends(s, "taken")
        \/ /\ f.apostrophe # "email" /\ ~Registered(f.email)
           /\ script' = [script EXCEPT ![s].pc = "checked"]
     /\ UNCHANGED <<users, tries, page>>

(* Mutation: the table has no unique key on the e-mail.                    *)
Insertable_NoUniqueKey(f) ==
  /\ f.apostrophe = "nowhere"
  /\ Strict => f.gender # "unset"

(* What the table takes: a statement that parses, a gender of the ENUM     *)
(* unless '' is let pass as its error value, and an e-mail the unique key  *)
(* has not seen.                                                           *)
Insertable(f) ==
  /\ f.apostrophe = "nowhere"
  /\ Strict => f.gender # "unset"
  /\ ~Registered(f.email)

AddUser(s) == users' = users \cup {[email |-> script[s].form.email, by |-> s]}

(* Mutation: the result of the INSERT is not looked at.                    *)
Insert_Unchecked(s) ==
  LET f == script[s].form
  IN /\ script[s].pc = "checked"
     /\ IF Insertable(f) THEN AddUser(s) ELSE UNCHANGED users
     /\ Ends(s, "created")
     /\ UNCHANGED <<tries, page>>

(* The last disjunct: the row is in, but the connection to the database    *)
(* breaks before the script hears of it.                                   *)
Insert(s) ==
  LET f == script[s].form
  IN /\ script[s].pc = "checked"
     /\ \/ ~Insertable(f) /\ UNCHANGED users /\ Ends(s, "wrong")
        \/ Insertable(f) /\ AddUser(s) /\ Ends(s, "created")
        \/ MayFail /\ Insertable(f) /\ AddUser(s) /\ Ends(s, "wrong")
     /\ UNCHANGED <<tries, page>>

(* No connection, or none any more when the next statement is sent.        *)
DatabaseFails(s) ==
  /\ MayFail
  /\ script[s].pc \in {"sent", "checked"}
  /\ Ends(s, "wrong")
  /\ UNCHANGED <<users, tries, page>>

(* The web server is closed: its scripts are gone, their rows stay.        *)
Restart ==
  /\ MayFail
  /\ script' = [s \in Submissions |->
       IF script[s].pc \in {"sent", "checked"}
         THEN [script[s] EXCEPT !.pc = "ended", !.out = "lost"]
         ELSE script[s]]
  /\ UNCHANGED <<users, tries, page>>

-------------------------------------------------------------------------------
Next ==
  \/ \E v \in Visitors : \/ \E f \in Forms : Submit(v, f)
                         \/ Answer(v)
                         \/ PageFails(v)
  \/ \E s \in Submissions : Select(s) \/ Insert(s) \/ DatabaseFails(s)
  \/ Restart

Spec == Init /\ [][Next]_vars

-------------------------------------------------------------------------------
(* However the statements of concurrent signups interleave, no two rows of *)
(* users have e-mails that the login would take for the same.              *)
OneAccountPerEmail ==
  \A q, r \in users : Fold[q.email] = Fold[r.email] => q = r

(* What the SELECT of login_submit.php finds for an e-mail and the         *)
(* password of a visitor.                                                  *)
LoginRows(e, v) == {r \in users : Fold[r.email] = Fold[e] /\ r.by[1] = v}

(* Who reads "Your account has been created successfully! Click here to    *)
(* login." can do so with the e-mail and password of the form just sent,   *)
(* and gets the account that this very submission opened.                  *)
ToldCreatedLogsIn ==
  \A v \in Visitors : page[v] = "created" =>
    LoginRows(script[Latest(v)].form.email, v)
      = {[email |-> script[Latest(v)].form.email, by |-> Latest(v)]}

(* includes/signup_modal.php:60-61 do not require a gender and             *)
(* pglife.sql:52 lets it be NULL: a form that the browser accepts, for an  *)
(* e-mail nobody has, should not be refused when nothing fails and its     *)
(* text holds no apostrophe.                                               *)
RequiredFieldsSuffice ==
  \A s \in Submissions :
    (script[s].pc = "ended" /\ script[s].out = "wrong") =>
       \/ script[s].form.apostrophe # "nowhere"
       \/ Registered(script[s].form.email)

-------------------------------------------------------------------------------
(* The script keeps the promise of Accounts: a submission asks when its    *)
(* script starts, and its verdict is the script's answer, a killed script  *)
(* counting as an error.                                                   *)
AskedBy ==
  [s \in Submissions |->
     IF script[s].pc = "unsent" THEN NoEmail ELSE Fold[script[s].form.email]]

Opened == {[email |-> Fold[r.email], by |-> r.by] : r \in users}

Verdicts ==
  [s \in Submissions |->
     IF script[s].pc # "ended" THEN "none"
     ELSE IF script[s].out = "lost" THEN "wrong" ELSE script[s].out]

Registry == INSTANCE Accounts WITH
              asked <- AskedBy, accounts <- Opened, verdict <- Verdicts

RegistryKept == Registry!Spec
===============================================================================

---------------------------- MODULE BookingProofs -----------------------------
(***************************************************************************)
(* Theorems about Booking, for any number of browsers, tabs, workers,      *)
(* users and properties, any rents and any bounds.                         *)
(***************************************************************************)
EXTENDS Booking, FiniteSetTheorems, FunctionTheorems, TLAPS

-------------------------------------------------------------------------------
(* The inductive invariant, part by part.                                  *)

(* A script works on a file that exists, of a browser that has one.        *)
FilesExist ==
  /\ \A b \in Browsers : Len(saved[b]) > 0
  /\ \A w \in Workers :
       Active(w) => script[w].file \in 1..Len(saved[BrowserOfScript(w)])

(* What payment.php prints: a listed property, its total, a real user.     *)
Printed(d) == d \in Docs /\ d.prop \in Listed /\ d.due = TotalDue(Rent[d.prop])

PageRequest(r) ==
  r.kind = "book" => r.prop \in Listed /\ r.due = TotalDue(Rent[r.prop])

(* Whatever shows a Pay button was printed by payment.php, and so was what *)
(* its clicks post.                                                        *)
DocsArePrinted ==
  /\ \A t \in Tabs :
       /\ phase[t] \in {"ready", "processing", "accepted", "overlay"} => Printed(doc[t])
       /\ reply[t].kind = "page" => Printed(reply[t].doc)
  /\ \A w \in Workers : Active(w) =>
       /\ PageRequest(script[w].req)
       /\ script[w].out.kind = "page" => Printed(script[w].out.doc)
  /\ \A r \in queue : PageRequest(r)

(* A click under way is within the bound of the model.                     *)
ClicksBounded == \A t \in Tabs : phase[t] = "processing" => attempt[t] < MaxClicks

TypeInv == TypeOK /\ FilesExist /\ DocsArePrinted /\ ClicksBounded

(* The click has been made: it belongs to an earlier page of its tab, to a *)
(* failed attempt on this one, or to the attempt under way.                *)
IssuedAt(c, ld, att, ph) ==
  \/ c.load < ld[c.tab]
  \/ /\ c.load = ld[c.tab]
     /\ \/ c.attempt < att[c.tab]
        \/ /\ c.attempt = att[c.tab]
           /\ ph[c.tab] \in {"processing", "accepted", "overlay"}

Issued(c) == IssuedAt(c, load, attempt, phase)

(* A script that may still insert a row.                                   *)
Unrun(w) == script[w].pc \in {"blocked", "running"} /\ script[w].req.kind = "book"

(* Every booking request and every row goes back to a click that was made. *)
ClicksIssued ==
  /\ \A r \in queue : r.kind = "book" => Issued(r.click)
  /\ \A w \in Workers : Active(w) /\ script[w].req.kind = "book"
                          => Issued(script[w].req.click)
  /\ \A i \in DOMAIN bookings : Issued(bookings[i].click)

(* A click is in one place: one request in the queue, one script, one row. *)
ClicksApart ==
  /\ \A q, r \in queue : q.kind = "book" /\ r.kind = "book" /\ q.click = r.click
                           => q = r
  /\ \A r \in queue, w \in Workers :
       r.kind = "book" /\ Unrun(w) => script[w].req.click # r.click
  /\ \A v, w \in Workers :
       v # w /\ Unrun(v) /\ Unrun(w) => script[v].req.click # script[w].req.click
  /\ \A r \in queue, i \in DOMAIN bookings :
       r.kind = "book" => bookings[i].click # r.click
  /\ \A w \in Workers, i \in DOMAIN bookings :
       Unrun(w) => bookings[i].click # script[w].req.click

ClickInv == ClicksIssued /\ ClicksApart /\ OneRowPerClick

(* The row r asks for is in the table.                                     *)
EnteredIn(table, c, p, due) ==
  \E i \in DOMAIN table : /\ table[i].click = c
                          /\ table[i].prop = p
                          /\ table[i].total = due

Entered(c, p, due) == EnteredIn(bookings, c, p, due)

(* The request of the click under way posts what its page shows.           *)
PostsAt(r, ld, att, dc) ==
  /\ r.kind = "book"
  /\ r.click.load = ld[r.click.tab]
  /\ r.click.attempt = att[r.click.tab]
  => r.prop = dc[r.click.tab].prop /\ r.due = dc[r.click.tab].due

PostsItsPage(r) == PostsAt(r, load, attempt, doc)

(* "success" is said, sent and shown only of a row that is there.          *)
SuccessInv ==
  /\ \A r \in queue : PostsItsPage(r)
  /\ \A w \in Workers : Active(w) =>
       /\ PostsItsPage(script[w].req)
       /\ script[w].out.kind = "success" =>
            /\ script[w].req.kind = "book"
            /\ Entered(script[w].req.click, script[w].req.prop, script[w].req.due)
  /\ \A t \in Tabs :
       reply[t].kind = "success" \/ phase[t] \in {"accepted", "overlay"} =>
         Entered(ClickOf(t), doc[t].prop, doc[t].due)

(* One script at a time has a session file, and while it runs the file     *)
(* holds what it read.                                                     *)
LockInv ==
  /\ \A v, w \in Workers : v # w /\ SameFile(v, w) => ~(Holds(v) /\ Holds(w))
  /\ \A w \in Workers : script[w].pc = "running" =>
       script[w].me = saved[BrowserOfScript(w)][script[w].file]

-------------------------------------------------------------------------------
(* Types.                                                                  *)

(* An active worker has a request, a file, a user and an answer.           *)
LEMMA ActiveScript ==
  ASSUME TypeOK, NEW w \in Workers, Active(w)
  PROVE  /\ script[w] \in ActiveScripts
         /\ script[w].pc \in {"blocked", "running", "done"}
         /\ script[w].req \in Requests
         /\ script[w].file \in Nat \ {0}
         /\ script[w].me \in SessionUsers
         /\ script[w].out \in Replies
  BY DEF TypeOK, Active, Scripts, ActiveScripts, Idle

LEMMA InitTypeInv == Init => TypeInv
<1> SUFFICES ASSUME Init PROVE TypeInv
  OBVIOUS
<1> USE BookingAssumption
<1>0. ASSUME NEW b \in Browsers
      PROVE  saved[b] \in Seq(SessionUsers) /\ Len(saved[b]) > 0
  <2>1. PICK u \in SessionUsers : saved[b] = <<u>>
    BY DEF Init, SessionsInit
  <2> QED
    BY <2>1
<1>1. TypeOK
  <2>1. bookings \in Seq(Rows)
    BY DEF Init
  <2>2. saved \in [Browsers -> Seq(SessionUsers)]
    BY <1>0 DEF Init, SessionsInit
  <2> QED
    BY <2>1, <2>2 DEF Init, TypeOK, Phases, NoReply, Replies, Scripts
<1>2. FilesExist
  <2>1. \A b \in Browsers : Len(saved[b]) > 0
    BY <1>0
  <2>2. \A w \in Workers : ~Active(w)
    BY DEF Init, Active, Idle
  <2> QED
    BY <2>1, <2>2 DEF FilesExist
<1>3. DocsArePrinted
  BY DEF Init, DocsArePrinted, Active, Idle, NoReply
<1>4. ClicksBounded
  BY DEF Init, ClicksBounded
<1> QED
  BY <1>1, <1>2, <1>3, <1>4 DEF TypeInv

LEMMA NavigateTypeInv ==
  ASSUME TypeInv, NEW t \in Tabs, NEW kind \in {"payment", "login", "logout"},
         NEW p \in Properties \cup {NoProperty}, NEW u \in SessionUsers,
         Navigate(t, kind, p, u)
  PROVE  TypeInv'
<1> USE BookingAssumption
<1>1. TypeOK'
  BY DEF TypeInv, TypeOK, Navigate, Phases, NoReply, Replies, Requests, Kinds, Clicks
<1>2. FilesExist'
  BY DEF TypeInv, FilesExist, Navigate, Active, BrowserOfScript
<1>3. DocsArePrinted'
  BY DEF TypeInv, TypeOK, DocsArePrinted, Navigate, Active, NoReply, PageRequest, Printed
<1>4. ClicksBounded'
  BY DEF TypeInv, TypeOK, ClicksBounded, Navigate
<1> QED
  BY <1>1, <1>2, <1>3, <1>4 DEF TypeInv

(* The steps of a page on its own.                                         *)
LEMMA PageTypeInv ==
  ASSUME TypeInv, NEW t \in Tabs,
         \/ handlePayment(t) \/ RenderPage(t) \/ BookingAccepted(t)
         \/ ShowOverlay(t) \/ Alert(t) \/ NavigationFails(t)
  PROVE  TypeInv'
<1> USE BookingAssumption
<1>1. CASE handlePayment(t)
  <2>1. Printed(doc[t])
    BY <1>1 DEF handlePayment, TypeInv, DocsArePrinted
  <2>2. TypeOK'
    <3> DEFINE r == [kind |-> "book", click |-> ClickOf(t), prop |-> doc[t].prop,
                     due |-> doc[t].due, user |-> NoUser]
    <3>1. load[t] \in Nat /\ attempt[t] \in Nat
      BY DEF TypeInv, TypeOK
    <3>2. ClickOf(t) \in Clicks
      BY <3>1 DEF ClickOf, Clicks
    <3>3. doc[t].prop \in Properties /\ doc[t].due \in Int
      BY <2>1 DEF Printed, Docs
    <3>4. r \in Requests
      BY <3>2, <3>3 DEF Requests, Kinds, SessionUsers
    <3> HIDE DEF r
    <3>5. queue' = queue \cup {r} /\ phase' = [phase EXCEPT ![t] = "processing"]
      BY <1>1 DEF handlePayment, r
    <3>6. UNCHANGED <<saved, load, attempt, doc, reply, script, bookings>>
      BY <1>1 DEF handlePayment
    <3> QED
      BY <3>4, <3>5, <3>6 DEF TypeInv, TypeOK, Phases
  <2>3. FilesExist'
    BY <1>1 DEF handlePayment, TypeInv, FilesExist, Active, BrowserOfScript
  <2>4. DocsArePrinted'
    BY <1>1, <2>1 DEF handlePayment, TypeInv, TypeOK, DocsArePrinted, Active,
                      PageRequest, Printed
  <2>5. ClicksBounded'
    BY <1>1 DEF handlePayment, TypeInv, TypeOK, ClicksBounded
  <2> QED
    BY <2>2, <2>3, <2>4, <2>5 DEF TypeInv
<1>2. CASE RenderPage(t)
  <2>1. reply[t] \in Replies
    BY DEF TypeInv, TypeOK
  <2>2. reply[t].doc \in Docs \cup {NoDoc}
    BY <2>1 DEF Replies
  <2>3. TypeOK'
    BY <1>2, <2>2 DEF RenderPage, TypeInv, TypeOK, Phases, NoReply, Replies
  <2>4. FilesExist'
    BY <1>2 DEF RenderPage, TypeInv, FilesExist, Active, BrowserOfScript
  <2>5. DocsArePrinted'
    BY <1>2 DEF RenderPage, TypeInv, TypeOK, DocsArePrinted, Active, NoReply,
                PageRequest, Printed
  <2>6. ClicksBounded'
    BY <1>2 DEF RenderPage, TypeInv, TypeOK, ClicksBounded
  <2> QED
    BY <2>3, <2>4, <2>5, <2>6 DEF TypeInv
<1>3. CASE BookingAccepted(t)
  <2>1. TypeOK'
    BY <1>3 DEF BookingAccepted, TypeInv, TypeOK, Phases, NoReply, Replies
  <2>2. FilesExist'
    BY <1>3 DEF BookingAccepted, TypeInv, FilesExist, Active, BrowserOfScript
  <2>3. DocsArePrinted'
    BY <1>3 DEF BookingAccepted, TypeInv, TypeOK, DocsArePrinted, Active, NoReply,
                PageRequest, Printed
  <2>4. ClicksBounded'
    BY <1>3 DEF BookingAccepted, TypeInv, TypeOK, ClicksBounded
  <2> QED
    BY <2>1, <2>2, <2>3, <2>4 DEF TypeInv
<1>4. CASE ShowOverlay(t)
  <2>1. TypeOK'
    BY <1>4 DEF ShowOverlay, TypeInv, TypeOK, Phases
  <2>2. FilesExist'
    BY <1>4 DEF ShowOverlay, TypeInv, FilesExist, Active, BrowserOfScript
  <2>3. DocsArePrinted'
    BY <1>4 DEF ShowOverlay, TypeInv, TypeOK, DocsArePrinted, Active, PageRequest, Printed
  <2>4. ClicksBounded'
    BY <1>4 DEF ShowOverlay, TypeInv, TypeOK, ClicksBounded
  <2> QED
    BY <2>1, <2>2, <2>3, <2>4 DEF TypeInv
<1>5. CASE Alert(t)
  <2>1. TypeOK'
    BY <1>5 DEF Alert, TypeInv, TypeOK, ClicksBounded, Phases, NoReply, Replies
  <2>2. FilesExist'
    BY <1>5 DEF Alert, TypeInv, FilesExist, Active, BrowserOfScript
  <2>3. DocsArePrinted'
    BY <1>5 DEF Alert, TypeInv, TypeOK, DocsArePrinted, Active, NoReply, PageRequest, Printed
  <2>4. ClicksBounded'
    BY <1>5 DEF Alert, TypeInv, TypeOK, ClicksBounded
  <2> QED
    BY <2>1, <2>2, <2>3, <2>4 DEF TypeInv
<1>6. CASE NavigationFails(t)
  <2>1. TypeOK'
    BY <1>6 DEF NavigationFails, TypeInv, TypeOK, Phases
  <2>2. FilesExist'
    BY <1>6 DEF NavigationFails, TypeInv, FilesExist, Active, BrowserOfScript
  <2>3. DocsArePrinted'
    BY <1>6 DEF NavigationFails, TypeInv, TypeOK, DocsArePrinted, Active, PageRequest, Printed
  <2>4. ClicksBounded'
    BY <1>6 DEF NavigationFails, TypeInv, TypeOK, ClicksBounded
  <2> QED
    BY <2>1, <2>2, <2>3, <2>4 DEF TypeInv
<1> QED
  BY <1>1, <1>2, <1>3, <1>4, <1>5, <1>6

(* Worker w changes its own script only, and what becomes of it is typed.  *)
LEMMA AcceptTypeInv ==
  ASSUME TypeInv, NEW w \in Workers, NEW r \in queue, Accept(w, r)
  PROVE  TypeInv'
<1> USE BookingAssumption
<1> DEFINE b == BrowserOf[r.click.tab]
           s == [pc |-> "blocked", req |-> r, file |-> CurrentFile(b),
                 me |-> NoUser, out |-> NoReply]
<1>1. r \in Requests /\ r.click.tab \in Tabs /\ b \in Browsers
  BY DEF TypeInv, TypeOK, Requests, Clicks
<1>2. CurrentFile(b) \in Nat \ {0} /\ CurrentFile(b) \in 1..Len(saved[b])
  BY <1>1 DEF TypeInv, TypeOK, FilesExist, CurrentFile
<1>3. s \in Scripts
  BY <1>1, <1>2 DEF Scripts, ActiveScripts, NoReply, Replies, SessionUsers
<1>4. script' = [script EXCEPT ![w] = s]
  BY DEF Accept
<1>5. /\ script'[w] = s
      /\ \A v \in Workers : v # w => script'[v] = script[v]
  BY <1>4 DEF TypeInv, TypeOK
<1> HIDE DEF s
<1>6. TypeOK'
  BY <1>3, <1>4 DEF Accept, TypeInv, TypeOK, tabVars
<1>7. FilesExist'
  BY <1>1, <1>2, <1>5 DEF Accept, TypeInv, FilesExist, Active, BrowserOfScript, s
<1>8. DocsArePrinted'
  BY <1>1, <1>5 DEF Accept, TypeInv, DocsArePrinted, Active, PageRequest, Printed,
                    tabVars, NoReply, s
<1>9. ClicksBounded'
  BY DEF Accept, TypeInv, ClicksBounded, tabVars
<1> QED
  BY <1>6, <1>7, <1>8, <1>9 DEF TypeInv

LEMMA StartSessionTypeInv ==
  ASSUME TypeInv, NEW w \in Workers, StartSession(w)
  PROVE  TypeInv'
<1> USE BookingAssumption
<1> DEFINE me == saved[BrowserOfScript(w)][script[w].file]
<1>1. Active(w)
  BY DEF StartSession, Active
<1>2. /\ script[w].pc \in {"blocked", "running", "done"}
      /\ script[w].req \in Requests
      /\ script[w].file \in Nat \ {0}
      /\ script[w].out \in Replies
  BY <1>1, ActiveScript DEF TypeInv
<1>3. BrowserOfScript(w) \in Browsers
  BY <1>2 DEF BrowserOfScript, Requests, Clicks
<1>4. me \in SessionUsers
  BY <1>1, <1>3 DEF TypeInv, TypeOK, FilesExist
<1>5. /\ script'[w] = [script[w] EXCEPT !.pc = "running", !.me = me]
      /\ \A v \in Workers : v # w => script'[v] = script[v]
  BY DEF StartSession, TypeInv, TypeOK
<1>6. /\ script'[w] \in Scripts
      /\ script'[w].pc = "running"
      /\ script'[w].req = script[w].req
      /\ script'[w].file = script[w].file
      /\ script'[w].out = script[w].out
  <2>1. script[w] \in ActiveScripts
    BY <1>1, ActiveScript DEF TypeInv
  <2>2. [script[w] EXCEPT !.pc = "running", !.me = me] \in ActiveScripts
    BY <1>4, <2>1 DEF ActiveScripts
  <2> QED
    BY <1>5, <2>1, <2>2 DEF ActiveScripts, Scripts
<1>7. TypeOK'
  <2>1. script' \in [Workers -> Scripts]
    BY <1>6 DEF StartSession, TypeInv, TypeOK
  <2> QED
    BY <2>1 DEF StartSession, TypeInv, TypeOK, tabVars
<1>8. FilesExist'
  BY <1>1, <1>5, <1>6 DEF StartSession, TypeInv, FilesExist, Active, BrowserOfScript
<1>9. DocsArePrinted'
  <2>1. ASSUME NEW v \in Workers, Active(v)'
        PROVE  /\ PageRequest(script'[v].req)
               /\ script'[v].out.kind = "page" => Printed(script'[v].out.doc)
    <3>1. Active(v) /\ script'[v].req = script[v].req /\ script'[v].out = script[v].out
      BY <1>1, <1>5, <1>6, <2>1 DEF Active
    <3> QED
      BY <3>1 DEF TypeInv, DocsArePrinted
  <2> QED
    BY <2>1 DEF StartSession, TypeInv, DocsArePrinted, PageRequest, Printed, tabVars
<1>10. ClicksBounded'
  BY DEF StartSession, TypeInv, ClicksBounded, tabVars
<1> QED
  BY <1>7, <1>8, <1>9, <1>10 DEF TypeInv

(* What Ends does to the scripts.                                          *)
LEMMA EndsScript ==
  ASSUME TypeOK, NEW w \in Workers, Active(w), NEW me \in SessionUsers, NEW kind, NEW d,
         [kind |-> kind, doc |-> d] \in Replies,
         Ends(w, me, kind, d)
  PROVE  /\ script' \in [Workers -> Scripts]
         /\ script'[w].pc = "done"
         /\ script'[w].req = script[w].req
         /\ script'[w].file = script[w].file
         /\ script'[w].me = me
         /\ script'[w].out = [kind |-> kind, doc |-> d]
         /\ \A v \in Workers : v # w => script'[v] = script[v]
<1> DEFINE o == [kind |-> kind, doc |-> d]
<1>1. script[w] \in ActiveScripts
  BY ActiveScript
<1> HIDE DEF o
<1>2. /\ script'[w] = [script[w] EXCEPT !.pc = "done", !.me = me, !.out = o]
      /\ script' = [script EXCEPT ![w] = script'[w]]
      /\ \A v \in Workers : v # w => script'[v] = script[v]
  BY DEF Ends, TypeOK, o
<1>3. o \in Replies
  BY DEF o
<1>4. [script[w] EXCEPT !.pc = "done", !.me = me, !.out = o] \in ActiveScripts
  BY <1>1, <1>3 DEF ActiveScripts
<1>5. /\ script'[w].pc = "done"
      /\ script'[w].req = script[w].req
      /\ script'[w].file = script[w].file
      /\ script'[w].me = me
      /\ script'[w].out = o
  BY <1>1, <1>2 DEF ActiveScripts
<1>6. script' \in [Workers -> Scripts]
  BY <1>2, <1>4 DEF TypeOK, Scripts
<1> QED
  BY <1>2, <1>5, <1>6 DEF o

(* A script that ends keeps the types, given that it keeps those of the    *)
(* sessions and of the table, and answers with a page only if printed.     *)
LEMMA EndsTypeInv ==
  ASSUME TypeInv, NEW w \in Workers, script[w].pc = "running",
         NEW me \in SessionUsers, NEW kind, NEW d,
         [kind |-> kind, doc |-> d] \in Replies,
         kind = "page" => Printed(d),
         Ends(w, me, kind, d),
         UNCHANGED <<tabVars, reply, queue>>,
         saved' \in [Browsers -> Seq(SessionUsers)],
         \A b \in Browsers : Len(saved[b]) <= Len(saved'[b]),
         bookings' \in Seq(Rows)
  PROVE  TypeInv'
<1> USE BookingAssumption
<1>1. Active(w)
  BY DEF Active
<1>2. /\ script' \in [Workers -> Scripts]
      /\ script'[w].req = script[w].req
      /\ script'[w].file = script[w].file
      /\ script'[w].out = [kind |-> kind, doc |-> d]
      /\ \A v \in Workers : v # w => script'[v] = script[v]
  BY <1>1, EndsScript DEF TypeInv
<1>3. TypeOK'
  BY <1>2 DEF TypeInv, TypeOK, tabVars
<1>4. FilesExist'
  <2>1. \A b \in Browsers : /\ Len(saved[b]) \in Nat
                            /\ Len(saved'[b]) \in Nat
                            /\ Len(saved'[b]) > 0
    BY DEF TypeInv, TypeOK, FilesExist
  <2>2. ASSUME NEW v \in Workers, Active(v)'
        PROVE  script'[v].file \in 1..Len(saved'[BrowserOfScript(v)'])
    <3>1. /\ Active(v)
          /\ script'[v].file = script[v].file
          /\ BrowserOfScript(v)' = BrowserOfScript(v)
      BY <1>1, <1>2, <2>2 DEF Active, BrowserOfScript
    <3>2. BrowserOfScript(v) \in Browsers
      BY <3>1, ActiveScript DEF TypeInv, BrowserOfScript, Requests, Clicks
    <3>3. script[v].file \in 1..Len(saved[BrowserOfScript(v)])
      BY <3>1 DEF TypeInv, FilesExist
    <3> DEFINE m == Len(saved[BrowserOfScript(v)])
               n == Len(saved'[BrowserOfScript(v)])
    <3>4. m \in Nat /\ n \in Nat /\ m <= n
      BY <2>1, <3>2
    <3> HIDE DEF m, n
    <3>5. script[v].file \in 1..n
      BY <3>3, <3>4 DEF m
    <3> QED
      BY <3>1, <3>5 DEF n
  <2> QED
    BY <2>1, <2>2 DEF FilesExist
<1>5. DocsArePrinted'
  <2>1. ASSUME NEW v \in Workers, Active(v)'
        PROVE  /\ PageRequest(script'[v].req)
               /\ script'[v].out.kind = "page" => Printed(script'[v].out.doc)
    <3>1. Active(v) /\ script'[v].req = script[v].req
      BY <1>1, <1>2, <2>1 DEF Active
    <3>2. PageRequest(script'[v].req)
      BY <3>1 DEF TypeInv, DocsArePrinted
    <3>3. CASE v = w
      BY <1>2, <3>2, <3>3
    <3>4. CASE v # w
      BY <1>2, <3>1, <3>2, <3>4 DEF TypeInv, DocsArePrinted
    <3> QED
      BY <3>3, <3>4
  <2> QED
    BY <2>1 DEF TypeInv, DocsArePrinted, PageRequest, Printed, tabVars
<1>6. ClicksBounded'
  BY DEF TypeInv, ClicksBounded, tabVars
<1> QED
  BY <1>3, <1>4, <1>5, <1>6 DEF TypeInv

(* The same for the answers without a page.                                *)
LEMMA PlainEndTypeInv ==
  ASSUME TypeInv, NEW w \in Workers, script[w].pc = "running",
         NEW me \in SessionUsers, NEW kind \in {"home", "error", "success"},
         Ends(w, me, kind, NoDoc),
         UNCHANGED <<tabVars, reply, queue>>,
         saved' \in [Browsers -> Seq(SessionUsers)],
         \A b \in Browsers : Len(saved[b]) <= Len(saved'[b]),
         bookings' \in Seq(Rows)
  PROVE  TypeInv'
<1>1. [kind |-> kind, doc |-> NoDoc] \in Replies
  BY DEF Replies
<1>2. kind # "page"
  OBVIOUS
<1> QED
  BY <1>1, <1>2, EndsTypeInv

LEMMA RunTypeInv ==
  ASSUME TypeInv, NEW w \in Workers, Run(w)
  PROVE  TypeInv'
<1> USE BookingAssumption
<1> DEFINE me == script[w].me
           r  == script[w].req
<1>0. /\ script[w].pc = "running"
      /\ Active(w)
      /\ me \in SessionUsers
      /\ r \in Requests
      /\ r.click.tab \in Tabs
      /\ BrowserOfScript(w) \in Browsers
  <2>1. script[w].pc = "running"
    BY DEF Run, DatabaseFails, RunPayment, RunLogin, RunLogout, RunBook, Runs
  <2>2. Active(w)
    BY <2>1 DEF Active
  <2> QED
    BY <2>1, <2>2, ActiveScript DEF TypeInv, BrowserOfScript, Requests, Clicks
<1>1. \A b \in Browsers : Len(saved[b]) <= Len(saved[b])
  BY DEF TypeInv, TypeOK
<1>2. saved \in [Browsers -> Seq(SessionUsers)] /\ bookings \in Seq(Rows)
  BY DEF TypeInv, TypeOK
<1>3. CASE DatabaseFails(w)
  BY <1>0, <1>1, <1>2, <1>3, PlainEndTypeInv DEF DatabaseFails
<1>4. CASE RunPayment(w)
  <2> DEFINE d == [prop |-> r.prop, due |-> TotalDue(Rent[r.prop]), user |-> me]
  <2>1. CASE me \in Users /\ r.prop \in Listed
    <3>1. d \in Docs
      BY <2>1 DEF Docs, TotalDue, SecurityDeposit, PlatformFee
    <3>2. Printed(d) /\ [kind |-> "page", doc |-> d] \in Replies
      BY <2>1, <3>1 DEF Printed, Replies
    <3>3. /\ Ends(w, me, "page", d)
          /\ UNCHANGED <<saved, tabVars, reply, queue, bookings>>
      BY <1>4, <2>1 DEF RunPayment
    <3> HIDE DEF d
    <3> QED
      BY <1>0, <1>1, <1>2, <3>2, <3>3, EndsTypeInv
  <2>2. CASE ~(me \in Users /\ r.prop \in Listed)
    <3>1. /\ Ends(w, me, "home", NoDoc)
          /\ UNCHANGED <<saved, tabVars, reply, queue, bookings>>
      BY <1>4, <2>2 DEF RunPayment
    <3> QED
      BY <1>0, <1>1, <1>2, <3>1, PlainEndTypeInv
  <2> QED
    BY <2>1, <2>2
<1>5. CASE RunLogin(w)
  <2>1. (IF r.user \in Users THEN r.user ELSE me) \in SessionUsers
    BY <1>0 DEF SessionUsers
  <2>2. /\ Ends(w, IF r.user \in Users THEN r.user ELSE me, "home", NoDoc)
        /\ UNCHANGED <<saved, tabVars, reply, queue, bookings>>
    BY <1>5 DEF RunLogin
  <2> QED
    BY <1>0, <1>1, <1>2, <2>1, <2>2, PlainEndTypeInv
<1>6. CASE RunLogout(w)
  <2>1. NoUser \in SessionUsers
    BY DEF SessionUsers
  <2>2. saved' = [saved EXCEPT ![BrowserOfScript(w)] = Append(@, NoUser)]
    BY <1>6 DEF RunLogout, DestroySession
  <2>3. saved' \in [Browsers -> Seq(SessionUsers)]
    BY <1>0, <1>2, <2>1, <2>2
  <2>4. \A b \in Browsers : Len(saved[b]) <= Len(saved'[b])
    BY <1>0, <1>2, <2>1, <2>2
  <2> QED
    BY <1>0, <1>2, <1>6, <2>1, <2>3, <2>4, PlainEndTypeInv DEF RunLogout
<1>7. CASE RunBook(w)
  <2>1. CASE ~BookingAllowed(w)
    <3>1. /\ Ends(w, me, "error", NoDoc)
          /\ UNCHANGED <<saved, tabVars, reply, queue, bookings>>
      BY <1>7, <2>1 DEF RunBook
    <3> QED
      BY <1>0, <1>1, <1>2, <3>1, PlainEndTypeInv
  <2>2. CASE BookingAllowed(w)
    <3>1. r.kind = "book" /\ me \in Users
      BY <1>7, <2>2 DEF RunBook, Runs, BookingAllowed
    <3>2. r.prop \in Properties /\ r.due \in Int /\ r.click \in Clicks
      BY <1>0, <3>1 DEF TypeInv, DocsArePrinted, PageRequest, Requests
    <3>3. [user |-> me, prop |-> r.prop, total |-> r.due, click |-> r.click] \in Rows
      BY <3>1, <3>2 DEF Rows
    <3>4. InsertBooking(w)
      BY <1>7, <2>2 DEF RunBook
    <3>5. bookings' \in Seq(Rows)
      BY <1>2, <3>3, <3>4 DEF InsertBooking
    <3>6. Ends(w, me, "success", NoDoc) \/ Ends(w, me, "error", NoDoc)
      BY <1>7 DEF RunBook
    <3>7. UNCHANGED <<saved, tabVars, reply, queue>>
      BY <1>7 DEF RunBook
    <3>8. CASE Ends(w, me, "success", NoDoc)
      BY <1>0, <1>1, <1>2, <3>5, <3>7, <3>8, PlainEndTypeInv
    <3>9. CASE Ends(w, me, "error", NoDoc)
      BY <1>0, <1>1, <1>2, <3>5, <3>7, <3>9, PlainEndTypeInv
    <3> QED
      BY <3>6, <3>8, <3>9
  <2> QED
    BY <2>1, <2>2
<1> QED
  BY <1>3, <1>4, <1>5, <1>6, <1>7 DEF Run

LEMMA FinishTypeInv ==
  ASSUME TypeInv, NEW w \in Workers, Finish(w)
  PROVE  TypeInv'
<1> USE BookingAssumption
<1> DEFINE s == script[w]
           t == s.req.click.tab
<1>1. Active(w)
  BY DEF Finish, Active
<1>2. /\ s.req \in Requests
      /\ s.me \in SessionUsers
      /\ s.out \in Replies
      /\ t \in Tabs
      /\ BrowserOfScript(w) \in Browsers
      /\ s.file \in 1..Len(saved[BrowserOfScript(w)])
  BY <1>1, ActiveScript DEF TypeInv, FilesExist, BrowserOfScript, Requests, Clicks
<1>3. /\ saved' \in [Browsers -> Seq(SessionUsers)]
      /\ \A b \in Browsers : Len(saved'[b]) = Len(saved[b])
  <2>1. CASE Holds(w)
    <3>1. saved' = [saved EXCEPT ![BrowserOfScript(w)] =
                      [@ EXCEPT ![s.file] = s.me]]
      BY <2>1 DEF Finish, SaveSession
    <3>2. saved[BrowserOfScript(w)] \in Seq(SessionUsers)
      BY <1>2 DEF TypeInv, TypeOK
    <3>3. /\ [saved[BrowserOfScript(w)] EXCEPT ![s.file] = s.me] \in Seq(SessionUsers)
          /\ Len([saved[BrowserOfScript(w)] EXCEPT ![s.file] = s.me])
               = Len(saved[BrowserOfScript(w)])
      BY <1>2, <3>2
    <3> QED
      BY <1>2, <3>1, <3>3 DEF TypeInv, TypeOK
  <2>2. CASE ~Holds(w)
    BY <2>2 DEF Finish, TypeInv, TypeOK
  <2> QED
    BY <2>1, <2>2
<1>4. /\ script' = [script EXCEPT ![w] = Idle]
      /\ script' \in [Workers -> Scripts]
      /\ \A v \in Workers : Active(v)' => v # w /\ script'[v] = script[v] /\ Active(v)
  BY DEF Finish, TypeInv, TypeOK, Scripts, Active, Idle
<1>5. \A q \in Tabs : reply'[q] = reply[q] \/ reply'[q] = s.out
  BY DEF Finish, TypeInv, TypeOK
<1>6. s.out.kind = "page" => Printed(s.out.doc)
  BY <1>1 DEF TypeInv, DocsArePrinted
<1>7. TypeOK'
  <2>1. reply' \in [Tabs -> Replies]
    BY <1>2 DEF Finish, TypeInv, TypeOK
  <2> QED
    BY <1>3, <1>4, <2>1 DEF Finish, TypeInv, TypeOK, tabVars
<1>8. FilesExist'
  <2>1. \A v \in Workers : Active(v)' => BrowserOfScript(v)' = BrowserOfScript(v)
                                         /\ BrowserOfScript(v) \in Browsers
    BY <1>4, ActiveScript DEF BrowserOfScript, TypeInv, Requests, Clicks
  <2> QED
    BY <1>3, <1>4, <2>1 DEF TypeInv, FilesExist
<1>9. DocsArePrinted'
  <2>1. \A q \in Tabs : reply'[q].kind = "page" => Printed(reply'[q].doc)
    BY <1>5, <1>6 DEF TypeInv, DocsArePrinted
  <2>2. \A v \in Workers : Active(v)' =>
          /\ PageRequest(script'[v].req)
          /\ script'[v].out.kind = "page" => Printed(script'[v].out.doc)
    BY <1>4 DEF TypeInv, DocsArePrinted
  <2> QED
    BY <2>1, <2>2 DEF Finish, TypeInv, DocsArePrinted, PageRequest, Printed, tabVars
<1>10. ClicksBounded'
  BY DEF Finish, TypeInv, ClicksBounded, tabVars
<1> QED
  BY <1>7, <1>8, <1>9, <1>10 DEF TypeInv

LEMMA RestartTypeInv == TypeInv /\ Restart => TypeInv'
<1> SUFFICES ASSUME TypeInv, Restart PROVE TypeInv'
  OBVIOUS
<1>1. \A w \in Workers : ~Active(w)'
  BY DEF Restart, Active, Idle
<1>2. TypeOK'
  BY DEF Restart, TypeInv, TypeOK, Scripts, tabVars
<1>3. FilesExist'
  BY <1>1 DEF Restart, TypeInv, FilesExist
<1>4. DocsArePrinted'
  BY <1>1 DEF Restart, TypeInv, DocsArePrinted, Printed, tabVars
<1>5. ClicksBounded'
  BY DEF Restart, TypeInv, ClicksBounded, tabVars
<1> QED
  BY <1>2, <1>3, <1>4, <1>5 DEF TypeInv

LEMMA NextTypeInv == TypeInv /\ [Next]_vars => TypeInv'
<1> SUFFICES ASSUME TypeInv, [Next]_vars PROVE TypeInv'
  OBVIOUS
<1>1. ASSUME NEW t \in Tabs, BrowserStep(t) PROVE TypeInv'
  <2>1. ASSUME NEW p \in Properties, OpenPayment(t, p) PROVE TypeInv'
    BY <2>1, NavigateTypeInv DEF OpenPayment, SessionUsers
  <2>2. ASSUME NEW u \in SessionUsers, SubmitLogin(t, u) PROVE TypeInv'
    BY <2>2, NavigateTypeInv DEF SubmitLogin
  <2>3. CASE FollowLogout(t)
    BY <2>3, NavigateTypeInv DEF FollowLogout, SessionUsers
  <2> QED
    BY <1>1, <2>1, <2>2, <2>3, PageTypeInv DEF BrowserStep, BookingRefused, FetchFails
<1>2. ASSUME NEW w \in Workers, ServerStep(w) PROVE TypeInv'
  BY <1>2, AcceptTypeInv, StartSessionTypeInv, RunTypeInv, FinishTypeInv DEF ServerStep
<1>3. CASE Restart
  BY <1>3, RestartTypeInv
<1>4. CASE UNCHANGED vars
  BY <1>4 DEF vars, TypeInv, TypeOK, FilesExist, DocsArePrinted, ClicksBounded,
              Active, BrowserOfScript, PageRequest, Printed
<1> QED
  BY <1>1, <1>2, <1>3, <1>4 DEF Next

(* Types, and what everything with a Pay button was printed from, in every *)
(* reachable state.                                                        *)
THEOREM TypeInvariance == Spec => []TypeInv
  BY InitTypeInv, NextTypeInv, PTL DEF Spec

(* Variables keep their types for every set of tabs, workers, users and    *)
(* properties, any rents and any bounds.                                   *)
THEOREM TypeCorrectness == Spec => []TypeOK
<1>1. TypeInv => TypeOK
  BY DEF TypeInv
<1> QED
  BY <1>1, TypeInvariance, PTL

-------------------------------------------------------------------------------
(* One row per click.                                                      *)

(* A click that was made stays made, whatever the tab does next.           *)
LEMMA IssuedForGood ==
  ASSUME TypeOK, [Next]_vars, NEW c \in Clicks, Issued(c)
  PROVE  Issued(c)'
<1> DEFINE q == c.tab
<1>1. /\ q \in Tabs /\ c.load \in Nat /\ c.attempt \in Nat
      /\ load[q] \in Nat /\ attempt[q] \in Nat
      /\ phase \in [Tabs -> Phases] /\ load \in [Tabs -> 0..MaxLoads]
      /\ attempt \in [Tabs -> 0..MaxClicks]
  BY BookingAssumption DEF TypeOK, Clicks
<1>2. ASSUME NEW t \in Tabs, NEW kind, NEW p, NEW u, Navigate(t, kind, p, u)
      PROVE  Issued(c)'
  <2>1. load' = [load EXCEPT ![t] = @ + 1] /\ attempt' = [attempt EXCEPT ![t] = 0]
        /\ phase' = [phase EXCEPT ![t] = "loading"]
    BY <1>2 DEF Navigate
  <2> QED
    BY <1>1, <2>1 DEF Issued, IssuedAt
<1>3. ASSUME NEW t \in Tabs, UNCHANGED <<load, attempt>>, NEW ph,
             phase' = [phase EXCEPT ![t] = ph],
             phase[t] \in {"processing", "accepted", "overlay"} =>
               ph \in {"processing", "accepted", "overlay"}
      PROVE  Issued(c)'
  BY <1>1, <1>3 DEF Issued, IssuedAt
<1>4. ASSUME NEW t \in Tabs, Alert(t)
      PROVE  Issued(c)'
  <2>1. load' = load /\ attempt' = [attempt EXCEPT ![t] = @ + 1]
        /\ phase' = [phase EXCEPT ![t] = "ready"]
    BY <1>4 DEF Alert
  <2> QED
    BY <1>1, <2>1 DEF Issued, IssuedAt
<1>5. ASSUME NEW t \in Tabs, BrowserStep(t)
      PROVE  Issued(c)'
  <2>1. CASE handlePayment(t)
    BY <1>3, <2>1 DEF handlePayment
  <2>2. CASE RenderPage(t)
    BY <1>3, <2>2 DEF RenderPage
  <2>3. CASE BookingAccepted(t)
    BY <1>3, <2>3 DEF BookingAccepted
  <2>4. CASE ShowOverlay(t)
    BY <1>3, <2>4 DEF ShowOverlay
  <2>5. CASE NavigationFails(t)
    BY <1>3, <2>5 DEF NavigationFails
  <2> QED
    BY <1>2, <1>4, <1>5, <2>1, <2>2, <2>3, <2>4, <2>5
       DEF BrowserStep, OpenPayment, SubmitLogin, FollowLogout, BookingRefused, FetchFails
<1>6. CASE UNCHANGED tabVars
  BY <1>6 DEF Issued, IssuedAt, tabVars
<1>7. ASSUME NEW w \in Workers, ServerStep(w)
      PROVE  UNCHANGED tabVars
  BY <1>7 DEF ServerStep, Accept, StartSession, Run, DatabaseFails, RunPayment,
              RunLogin, RunLogout, RunBook, Finish
<1>8. Restart \/ UNCHANGED vars => UNCHANGED tabVars
  BY DEF Restart, vars, tabVars
<1> QED
  BY <1>5, <1>6, <1>7, <1>8 DEF Next

(* Steps that make no click, accept none and book none.                    *)
LEMMA ClickFrame ==
  ASSUME TypeInv, ClickInv, [Next]_vars,
         \A r \in queue' : r.kind = "book" => r \in queue,
         \A v \in Workers : Active(v)' => Active(v) /\ script'[v].req = script[v].req,
         \A v \in Workers : Unrun(v)' => Unrun(v),
         UNCHANGED bookings
  PROVE  ClickInv'
<1> DEFINE WasIssued(c) == IssuedAt(c, load, attempt, phase)
           NowIssued(c) == IssuedAt(c, load', attempt', phase')
<1>1. \A c \in Clicks : WasIssued(c) => NowIssued(c)
  BY IssuedForGood DEF TypeInv, Issued
<1>2. /\ \A r \in queue : r.click \in Clicks
      /\ \A i \in DOMAIN bookings : bookings[i].click \in Clicks
      /\ \A v \in Workers : Active(v) => script[v].req.click \in Clicks
  <2>1. \A r \in Requests : r.click \in Clicks
    BY DEF Requests
  <2>2. \A i \in DOMAIN bookings : bookings[i] \in Rows
    BY DEF TypeInv, TypeOK
  <2>3. \A v \in Workers : Active(v) => script[v].req \in Requests
    BY ActiveScript DEF TypeInv
  <2>4. queue \subseteq Requests
    BY DEF TypeInv, TypeOK
  <2> QED
    BY <2>1, <2>2, <2>3, <2>4 DEF Rows
<1>3. /\ \A r \in queue : r.kind = "book" => WasIssued(r.click)
      /\ \A v \in Workers : Active(v) /\ script[v].req.kind = "book"
                              => WasIssued(script[v].req.click)
      /\ \A i \in DOMAIN bookings : WasIssued(bookings[i].click)
  BY DEF ClickInv, ClicksIssued, Issued
<1> HIDE DEF WasIssued, NowIssued
<1>4. /\ \A r \in queue' : r.kind = "book" => NowIssued(r.click)
      /\ \A v \in Workers : Active(v)' /\ script'[v].req.kind = "book"
                              => NowIssued(script'[v].req.click)
      /\ \A i \in DOMAIN bookings' : NowIssued(bookings'[i].click)
  BY <1>1, <1>2, <1>3
<1>5. ClicksIssued'
  BY <1>4 DEF ClicksIssued, Issued, NowIssued
<1>6. \A v \in Workers : Unrun(v)' => Unrun(v) /\ script'[v].req = script[v].req
  BY DEF Unrun, Active
<1>7. ClicksApart'
  BY <1>6 DEF ClickInv, ClicksApart
<1>8. OneRowPerClick'
  BY DEF ClickInv, OneRowPerClick
<1> QED
  BY <1>5, <1>7, <1>8 DEF ClickInv

(* Every record with a click in it has a proper one.                       *)
LEMMA ClicksTyped ==
  ASSUME TypeInv
  PROVE  /\ \A r \in queue : r.click \in Clicks
         /\ \A i \in DOMAIN bookings : bookings[i].click \in Clicks
         /\ \A v \in Workers : Active(v) => script[v].req.click \in Clicks
<1>1. \A r \in Requests : r.click \in Clicks
  BY DEF Requests
<1>2. \A i \in DOMAIN bookings : bookings[i] \in Rows
  BY DEF TypeInv, TypeOK
<1>3. \A v \in Workers : Active(v) => script[v].req \in Requests
  BY ActiveScript DEF TypeInv
<1>4. queue \subseteq Requests
  BY DEF TypeInv, TypeOK
<1> QED
  BY <1>1, <1>2, <1>3, <1>4 DEF Rows

(* The click on the button is a new one, and from then on it is made.      *)
LEMMA PayClickInv ==
  ASSUME TypeInv, ClickInv, NEW t \in Tabs, handlePayment(t)
  PROVE  ClickInv'
<1> DEFINE c == ClickOf(t)
           r == [kind |-> "book", click |-> c, prop |-> doc[t].prop,
                 due |-> doc[t].due, user |-> NoUser]
           NowIssued(d) == IssuedAt(d, load', attempt', phase')
<1>1. /\ c.tab = t /\ c.load = load[t] /\ c.attempt = attempt[t]
      /\ load[t] \in Nat /\ attempt[t] \in Nat
  BY BookingAssumption DEF ClickOf, TypeInv, TypeOK
<1>2. ~Issued(c)
  BY <1>1 DEF handlePayment, Issued, IssuedAt
<1>3. /\ queue' = queue \cup {r}
      /\ r.kind = "book" /\ r.click = c
      /\ UNCHANGED <<script, bookings, load, attempt>>
      /\ phase' = [phase EXCEPT ![t] = "processing"]
  BY DEF handlePayment
<1>4. NowIssued(c)
  BY <1>1, <1>3 DEF IssuedAt, TypeInv, TypeOK
<1>5. \A d \in Clicks : Issued(d) => NowIssued(d)
  BY <1>3, IssuedForGood DEF Issued, TypeInv, Next, BrowserStep
<1> HIDE DEF c, r, NowIssued
<1>6. /\ \A q \in queue : q.kind = "book" => Issued(q.click) /\ q.click # c
      /\ \A v \in Workers : Active(v) /\ script[v].req.kind = "book"
           => Issued(script[v].req.click) /\ script[v].req.click # c
      /\ \A i \in DOMAIN bookings : Issued(bookings[i].click) /\ bookings[i].click # c
  BY <1>2 DEF ClickInv, ClicksIssued
<1>7. ClicksIssued'
  <2>1. /\ \A q \in queue' : q.kind = "book" => NowIssued(q.click)
        /\ \A v \in Workers : Active(v)' /\ script'[v].req.kind = "book"
                                => NowIssued(script'[v].req.click)
        /\ \A i \in DOMAIN bookings' : NowIssued(bookings'[i].click)
    BY <1>3, <1>4, <1>5, <1>6, ClicksTyped DEF Active
  <2> QED
    BY <2>1 DEF ClicksIssued, Issued, NowIssued
<1>8. ClicksApart'
  <2>1. \A v \in Workers : Unrun(v)' => Unrun(v) /\ script'[v].req.click # c
    BY <1>3, <1>6 DEF Unrun, Active
  <2>2. \A q \in queue' : q \in queue \/ q = r
    BY <1>3
  <2>3. \A p, q \in queue' : p.kind = "book" /\ q.kind = "book" /\ p.click = q.click
                               => p = q
    BY <1>3, <1>6, <2>2 DEF ClickInv, ClicksApart
  <2>4. \A q \in queue', v \in Workers :
          q.kind = "book" /\ Unrun(v)' => script'[v].req.click # q.click
    BY <1>3, <2>1, <2>2 DEF ClickInv, ClicksApart
  <2>5. \A q \in queue', i \in DOMAIN bookings' :
          q.kind = "book" => bookings'[i].click # q.click
    BY <1>3, <1>6, <2>2 DEF ClickInv, ClicksApart
  <2>6. /\ \A v, w \in Workers : v # w /\ Unrun(v)' /\ Unrun(w)'
             => script'[v].req.click # script'[w].req.click
        /\ \A w \in Workers, i \in DOMAIN bookings' :
             Unrun(w)' => bookings'[i].click # script'[w].req.click
    BY <1>3, <2>1 DEF ClickInv, ClicksApart
  <2> QED
    BY <2>3, <2>4, <2>5, <2>6 DEF ClicksApart
<1>9. OneRowPerClick'
  BY <1>3 DEF ClickInv, OneRowPerClick
<1> QED
  BY <1>7, <1>8, <1>9 DEF ClickInv

(* The request moves from the queue to a script.                           *)
LEMMA AcceptClickInv ==
  ASSUME TypeInv, ClickInv, NEW w \in Workers, NEW r \in queue, Accept(w, r)
  PROVE  ClickInv'
<1>1. /\ queue' = queue \ {r}
      /\ UNCHANGED <<load, attempt, phase, bookings>>
      /\ script'[w].req = r
      /\ \A v \in Workers : v # w => script'[v] = script[v]
  BY DEF Accept, tabVars, TypeInv, TypeOK
<1>2. ~Unrun(w)
  BY DEF Accept, Active, Unrun
<1>3. ClicksIssued'
  BY <1>1 DEF ClickInv, ClicksIssued, Issued, Active
<1>4. ClicksApart'
  <2>1. \A v \in Workers : Unrun(v)' /\ v # w => Unrun(v) /\ script'[v].req = script[v].req
    BY <1>1 DEF Unrun
  <2>2. Unrun(w)' => r.kind = "book"
    BY <1>1 DEF Unrun
  <2>3. \A q \in queue', v \in Workers :
          q.kind = "book" /\ Unrun(v)' => script'[v].req.click # q.click
    BY <1>1, <2>1, <2>2 DEF ClickInv, ClicksApart
  <2>4. \A u, v \in Workers : u # v /\ Unrun(u)' /\ Unrun(v)'
          => script'[u].req.click # script'[v].req.click
    BY <1>1, <2>1, <2>2 DEF ClickInv, ClicksApart
  <2>5. \A v \in Workers, i \in DOMAIN bookings' :
          Unrun(v)' => bookings'[i].click # script'[v].req.click
    BY <1>1, <2>1, <2>2 DEF ClickInv, ClicksApart
  <2> QED
    BY <1>1, <2>3, <2>4, <2>5 DEF ClickInv, ClicksApart
<1>5. OneRowPerClick'
  BY <1>1 DEF ClickInv, OneRowPerClick
<1> QED
  BY <1>3, <1>4, <1>5 DEF ClickInv

(* The script's click gets its row, and the script can insert no more.     *)
LEMMA InsertClickInv ==
  ASSUME TypeInv, ClickInv, NEW w \in Workers, Runs(w, "book"), InsertBooking(w),
         NEW kind \in {"success", "error"}, Ends(w, script[w].me, kind, NoDoc),
         UNCHANGED <<saved, tabVars, reply, queue>>
  PROVE  ClickInv'
<1> DEFINE c == script[w].req.click
           row == [user |-> script[w].me, prop |-> script[w].req.prop,
                   total |-> script[w].req.due, click |-> c]
<1>1. Active(w) /\ Unrun(w) /\ script[w].req.kind = "book"
  BY DEF Runs, Active, Unrun
<1>2. /\ script'[w].pc = "done"
      /\ script'[w].req = script[w].req
      /\ \A v \in Workers : v # w => script'[v] = script[v]
  <2>1. script[w].me \in SessionUsers
    BY <1>1, ActiveScript DEF TypeInv
  <2>2. [kind |-> kind, doc |-> NoDoc] \in Replies
    BY DEF Replies
  <2> QED
    BY <1>1, <2>1, <2>2, EndsScript DEF TypeInv
<1>3. /\ bookings \in Seq(Rows) /\ Len(bookings) \in Nat
      /\ DOMAIN bookings = 1..Len(bookings)
  BY DEF TypeInv, TypeOK
<1>4. row.click = c
  OBVIOUS
<1> HIDE DEF row
<1>5. bookings' = Append(bookings, row)
  BY DEF InsertBooking, row
<1>6. \A i \in DOMAIN bookings' :
        \/ i \in DOMAIN bookings /\ bookings'[i] = bookings[i]
        \/ i = Len(bookings) + 1 /\ i \notin DOMAIN bookings /\ bookings'[i] = row
  BY <1>3, <1>5
<1>7. /\ UNCHANGED <<load, attempt, phase, queue>>
      /\ \A v \in Workers : Unrun(v)' => v # w /\ Unrun(v) /\ script'[v].req = script[v].req
      /\ \A v \in Workers : Active(v)' => Active(v) /\ script'[v].req = script[v].req
  BY <1>1, <1>2 DEF tabVars, Unrun, Active
<1>8. /\ Issued(c)
      /\ \A r \in queue : r.kind = "book" => r.click # c
      /\ \A v \in Workers : v # w /\ Unrun(v) => script[v].req.click # c
      /\ \A i \in DOMAIN bookings : bookings[i].click # c
  BY <1>1 DEF ClickInv, ClicksIssued, ClicksApart
<1> HIDE DEF c
<1>9. ClicksIssued'
  BY <1>4, <1>6, <1>7, <1>8 DEF ClickInv, ClicksIssued, Issued
<1>10. ClicksApart'
  <2>1. /\ \A r \in queue', i \in DOMAIN bookings' :
             r.kind = "book" => bookings'[i].click # r.click
        /\ \A v \in Workers, i \in DOMAIN bookings' :
             Unrun(v)' => bookings'[i].click # script'[v].req.click
    BY <1>4, <1>6, <1>7, <1>8 DEF ClickInv, ClicksApart
  <2> QED
    BY <1>7, <2>1 DEF ClickInv, ClicksApart
<1>11. OneRowPerClick'
  BY <1>4, <1>6, <1>8 DEF ClickInv, OneRowPerClick
<1> QED
  BY <1>9, <1>10, <1>11 DEF ClickInv

LEMMA InitClickInv == Init => ClickInv
<1> SUFFICES ASSUME Init PROVE ClickInv
  OBVIOUS
<1>1. /\ queue = {}
      /\ \A w \in Workers : ~Active(w) /\ ~Unrun(w)
      /\ DOMAIN bookings = {}
  BY DEF Init, Active, Unrun, Idle
<1> QED
  BY <1>1 DEF ClickInv, ClicksIssued, ClicksApart, OneRowPerClick

LEMMA NextClickInv == TypeInv /\ ClickInv /\ [Next]_vars => ClickInv'
<1> SUFFICES ASSUME TypeInv, ClickInv, [Next]_vars PROVE ClickInv'
  OBVIOUS
<1> DEFINE Kept == \A v \in Workers :
                     /\ Active(v)' => Active(v) /\ script'[v].req = script[v].req
                     /\ Unrun(v)' => Unrun(v)
<1>1. ASSUME UNCHANGED script PROVE Kept
  BY <1>1 DEF Active, Unrun
<1>2. ASSUME NEW t \in Tabs, BrowserStep(t) PROVE ClickInv'
  <2>1. ASSUME NEW kind \in {"payment", "login", "logout"}, NEW p, NEW u,
               Navigate(t, kind, p, u)
        PROVE  ClickInv'
    <3>1. /\ UNCHANGED <<script, bookings>>
          /\ \A r \in queue' : r.kind = "book" => r \in queue
      BY <2>1 DEF Navigate
    <3> QED
      BY <1>1, <3>1, ClickFrame
  <2>2. CASE handlePayment(t)
    BY <2>2, PayClickInv
  <2>3. CASE UNCHANGED <<queue, script, bookings>>
    BY <1>1, <2>3, ClickFrame
  <2>4. \/ RenderPage(t) \/ BookingAccepted(t) \/ ShowOverlay(t)
        \/ Alert(t) \/ NavigationFails(t)
        => UNCHANGED <<queue, script, bookings>>
    BY DEF RenderPage, BookingAccepted, ShowOverlay, Alert, NavigationFails
  <2> QED
    BY <1>2, <2>1, <2>2, <2>3, <2>4
       DEF BrowserStep, OpenPayment, SubmitLogin, FollowLogout, BookingRefused, FetchFails
<1>3. ASSUME NEW w \in Workers, ServerStep(w) PROVE ClickInv'
  <2>1. ASSUME NEW r \in queue, Accept(w, r) PROVE ClickInv'
    BY <2>1, AcceptClickInv
  <2>2. CASE StartSession(w)
    <3>1. script[w] \in ActiveScripts
      BY <2>2, ActiveScript DEF StartSession, Active, TypeInv
    <3>2. /\ script'[w].req = script[w].req
          /\ \A v \in Workers : v # w => script'[v] = script[v]
      BY <2>2, <3>1 DEF StartSession, ActiveScripts, TypeInv, TypeOK
    <3>3. UNCHANGED <<queue, bookings>> /\ script[w].pc = "blocked"
      BY <2>2 DEF StartSession
    <3>4. Kept
      BY <3>2, <3>3 DEF Active, Unrun
    <3> QED
      BY <3>3, <3>4, ClickFrame
  <2>3. ASSUME NEW kind, NEW d, NEW me \in SessionUsers, [kind |-> kind, doc |-> d] \in Replies,
               script[w].pc = "running", Ends(w, me, kind, d), UNCHANGED <<queue, bookings>>
        PROVE  ClickInv'
    <3>1. Active(w)
      BY <2>3 DEF Active
    <3>2. /\ script'[w].req = script[w].req
          /\ script'[w].pc = "done"
          /\ \A v \in Workers : v # w => script'[v] = script[v]
      BY <2>3, <3>1, EndsScript DEF TypeInv
    <3>3. Kept
      BY <3>1, <3>2 DEF Active, Unrun
    <3> QED
      BY <2>3, <3>3, ClickFrame
  <2>4. CASE Run(w)
    <3>1. script[w].pc = "running" /\ script[w].me \in SessionUsers
      <4>1. script[w].pc = "running"
        BY <2>4 DEF Run, DatabaseFails, RunPayment, RunLogin, RunLogout, RunBook, Runs
      <4> QED
        BY <4>1, ActiveScript DEF Active, TypeInv
    <3>2. /\ [kind |-> "home", doc |-> NoDoc] \in Replies
          /\ [kind |-> "error", doc |-> NoDoc] \in Replies
          /\ NoUser \in SessionUsers
      BY DEF Replies, SessionUsers
    <3>3. CASE DatabaseFails(w)
      <4>1. Ends(w, script[w].me, "error", NoDoc) /\ UNCHANGED <<queue, bookings>>
        BY <3>3 DEF DatabaseFails
      <4> QED
        BY <2>3, <3>1, <3>2, <4>1
    <3>4. CASE RunPayment(w)
      <4> DEFINE p == script[w].req.prop
                 d == [prop |-> p, due |-> TotalDue(Rent[p]), user |-> script[w].me]
      <4>1. CASE script[w].me \in Users /\ p \in Listed
        <5>1. [kind |-> "page", doc |-> d] \in Replies
          BY <4>1, BookingAssumption
             DEF Replies, Docs, TotalDue, SecurityDeposit, PlatformFee
        <5>2. Ends(w, script[w].me, "page", d) /\ UNCHANGED <<queue, bookings>>
          BY <3>4, <4>1 DEF RunPayment
        <5> QED
          BY <2>3, <3>1, <5>1, <5>2
      <4>2. CASE ~(script[w].me \in Users /\ p \in Listed)
        <5>1. Ends(w, script[w].me, "home", NoDoc) /\ UNCHANGED <<queue, bookings>>
          BY <3>4, <4>2 DEF RunPayment
        <5> QED
          BY <2>3, <3>1, <3>2, <5>1
      <4> QED
        BY <4>1, <4>2
    <3>5. CASE RunLogin(w)
      <4> DEFINE me == IF script[w].req.user \in Users THEN script[w].req.user
                                                       ELSE script[w].me
      <4>1. me \in SessionUsers
        BY <3>1 DEF SessionUsers
      <4>2. Ends(w, me, "home", NoDoc) /\ UNCHANGED <<queue, bookings>>
        BY <3>5 DEF RunLogin
      <4> QED
        BY <2>3, <3>1, <3>2, <4>1, <4>2
    <3>6. CASE RunLogout(w)
      <4>1. Ends(w, NoUser, "home", NoDoc) /\ UNCHANGED <<queue, bookings>>
        BY <3>6 DEF RunLogout
      <4> QED
        BY <2>3, <3>1, <3>2, <4>1
    <3>7. CASE RunBook(w)
      <4>1. CASE InsertBooking(w)
        <5>1. Runs(w, "book") /\ UNCHANGED <<saved, tabVars, reply, queue>>
          BY <3>7 DEF RunBook
        <5>2. \E kind \in {"success", "error"} : Ends(w, script[w].me, kind, NoDoc)
          BY <3>7 DEF RunBook
        <5> QED
          BY <4>1, <5>1, <5>2, InsertClickInv
      <4>2. CASE ~InsertBooking(w)
        <5>1. Ends(w, script[w].me, "error", NoDoc) /\ UNCHANGED <<queue, bookings>>
          BY <3>7, <4>2 DEF RunBook
        <5> QED
          BY <2>3, <3>1, <3>2, <5>1
      <4> QED
        BY <4>1, <4>2
    <3> QED
      BY <2>4, <3>3, <3>4, <3>5, <3>6, <3>7 DEF Run
  <2>5. CASE Finish(w)
    <3>1. /\ UNCHANGED <<queue, bookings>>
          /\ script' = [script EXCEPT ![w] = Idle]
      BY <2>5 DEF Finish
    <3>2. Kept
      BY <3>1 DEF Active, Unrun, Idle, TypeInv, TypeOK
    <3> QED
      BY <3>1, <3>2, ClickFrame
  <2> QED
    BY <1>3, <2>1, <2>2, <2>4, <2>5 DEF ServerStep
<1>4. CASE Restart
  <2>1. queue' = {} /\ UNCHANGED bookings /\ \A w \in Workers : ~Active(w)' /\ ~Unrun(w)'
    BY <1>4 DEF Restart, Active, Unrun, Idle
  <2> QED
    BY <2>1, ClickFrame
<1>5. CASE UNCHANGED vars
  BY <1>1, <1>5, ClickFrame DEF vars
<1> QED
  BY <1>2, <1>3, <1>4, <1>5 DEF Next

(* In every reachable state a click is at one place only, on its way, in a *)
(* script or in a row.                                                     *)
THEOREM ClickInvariance == Spec => []ClickInv
<1>1. Init /\ [][Next]_vars => []ClickInv
  <2>1. TypeInv /\ ClickInv /\ [Next]_vars => ClickInv'
    BY NextClickInv
  <2> QED
    BY <2>1, InitClickInv, TypeInvariance, PTL DEF Spec
<1> QED
  BY <1>1, PTL DEF Spec

(* No click on Pay & Confirm ever leaves two rows, whatever the numbers of *)
(* tabs, workers and retries, and whatever is lost or restarted.           *)
THEOREM NoDoubleBookingByAClick == Spec => []OneRowPerClick
<1>1. ClickInv => OneRowPerClick
  BY DEF ClickInv
<1> QED
  BY <1>1, ClickInvariance, PTL

(* Who books twice from a page was told of a failure in between: the rows  *)
(* of a page come from different attempts, and an attempt is one of those  *)
(* that an alert ended or the one under way.                               *)
THEOREM SecondBookingNeedsAlert == Spec => []DuplicatesOnlyAfterAlerts
<1> DEFINE UnderWay(t) == IF phase[t] \in {"processing", "accepted", "overlay"} THEN 1 ELSE 0
           FromPage(t) == {i \in DOMAIN bookings : /\ bookings[i].click.tab = t
                                                   /\ bookings[i].click.load = load[t]}
<1>1. ASSUME TypeInv, ClickInv, NEW t \in Tabs
      PROVE  Cardinality(FromPage(t)) <= attempt[t] + UnderWay(t)
  <2> DEFINE S == FromPage(t)
             n == attempt[t] + UnderWay(t)
             f == [i \in S |-> bookings[i].click.attempt]
  <2>1. attempt[t] \in Nat /\ UnderWay(t) \in {0, 1} /\ n \in Nat
    BY <1>1, BookingAssumption DEF TypeInv, TypeOK
  <2>2. ASSUME NEW i \in S
        PROVE  /\ bookings[i].click =
                    [tab |-> t, load |-> load[t], attempt |-> bookings[i].click.attempt]
               /\ bookings[i].click.attempt \in 0..(n - 1)
    <3>1. /\ i \in DOMAIN bookings
          /\ bookings[i].click.tab = t /\ bookings[i].click.load = load[t]
      OBVIOUS
    <3>2. bookings[i].click \in Clicks
      BY <1>1, <3>1, ClicksTyped
    <3>3. Issued(bookings[i].click)
      BY <1>1, <3>1 DEF ClickInv, ClicksIssued
    <3>4. load[t] \in Nat /\ bookings[i].click.attempt \in Nat
      BY <3>1, <3>2 DEF Clicks
    <3>5. \/ bookings[i].click.attempt < attempt[t]
          \/ bookings[i].click.attempt = attempt[t] /\ UnderWay(t) = 1
      BY <3>1, <3>3, <3>4 DEF Issued, IssuedAt
    <3>6. bookings[i].click =
            [tab |-> t, load |-> load[t], attempt |-> bookings[i].click.attempt]
      BY <3>1, <3>2 DEF Clicks
    <3> HIDE DEF UnderWay, S
    <3> QED  BY <2>1, <3>4, <3>5, <3>6
  <2>3. \A i, j \in S : bookings[i].click.attempt = bookings[j].click.attempt => i = j
    <3> SUFFICES ASSUME NEW i \in S, NEW j \in S,
                        bookings[i].click.attempt = bookings[j].click.attempt
                 PROVE  i = j
      OBVIOUS
    <3>1. i \in DOMAIN bookings /\ j \in DOMAIN bookings
      OBVIOUS
    <3>2. bookings[i].click = bookings[j].click
      BY <2>2
    <3> QED  BY <1>1, <3>1, <3>2 DEF ClickInv, OneRowPerClick
  <2> HIDE DEF S, n, UnderWay
  <2>4. f \in Injection(S, 0..(n - 1))
    BY <2>2, <2>3, Fun_IsInj
  <2>5. IsFiniteSet(0..(n - 1)) /\ Cardinality(0..(n - 1)) = n
    <3>1. /\ IsFiniteSet(0..(n - 1))
          /\ Cardinality(0..(n - 1)) = IF 0 > n - 1 THEN 0 ELSE (n - 1) - 0 + 1
      <4>1. 0 \in Int /\ n - 1 \in Int
        BY <2>1
      <4> QED  BY <4>1, FS_Interval
    <3> QED  BY <2>1, <3>1
  <2>6. Cardinality(S) <= n
    BY <2>4, <2>5, FS_Injection
  <2> QED  BY <2>6 DEF S, n
<1>2. TypeInv /\ ClickInv => DuplicatesOnlyAfterAlerts
  BY <1>1 DEF DuplicatesOnlyAfterAlerts
<1> QED  BY <1>2, TypeInvariance, ClickInvariance, PTL

-------------------------------------------------------------------------------
(* The session lock.                                                       *)

(* Steps that neither start nor end a script nor touch a session.          *)
LEMMA LockFrame ==
  ASSUME LockInv, UNCHANGED <<saved, script>>
  PROVE  LockInv'
  BY DEF LockInv, SameFile, Holds, Active, BrowserOfScript

(* w moves on, the others stay, and no file changes under a running one.   *)
LEMMA LockStep ==
  ASSUME TypeInv, LockInv, NEW w \in Workers,
         \A v \in Workers : v # w => script'[v] = script[v],
         Active(w)' => /\ Active(w)
                       /\ script'[w].req = script[w].req
                       /\ script'[w].file = script[w].file,
         Holds(w)' => Holds(w),
         script'[w].pc # "running",
         \A v \in Workers : v # w /\ script[v].pc = "running" =>
           saved'[BrowserOfScript(v)][script[v].file]
             = saved[BrowserOfScript(v)][script[v].file]
  PROVE  LockInv'
<1>1. ASSUME NEW u \in Workers, NEW v \in Workers, u # v, SameFile(u, v)',
             Holds(u)', Holds(v)'
      PROVE  FALSE
  <2>1. \A x \in {u, v} : /\ Active(x)
                          /\ script'[x].req = script[x].req
                          /\ script'[x].file = script[x].file
                          /\ Holds(x)
    BY <1>1 DEF SameFile, Holds, Active
  <2>2. SameFile(u, v)
    BY <1>1, <2>1 DEF SameFile, BrowserOfScript
  <2> QED
    BY <1>1, <2>1, <2>2 DEF LockInv
<1>2. ASSUME NEW v \in Workers, script'[v].pc = "running"
      PROVE  script'[v].me = saved'[BrowserOf[script'[v].req.click.tab]][script'[v].file]
  BY <1>2 DEF LockInv, BrowserOfScript
<1> QED
  BY <1>1, <1>2 DEF LockInv, BrowserOfScript

LEMMA AcceptLockInv ==
  ASSUME TypeInv, LockInv, NEW w \in Workers, NEW r \in queue, Accept(w, r)
  PROVE  LockInv'
<1>1. /\ script'[w].pc = "blocked"
      /\ \A v \in Workers : v # w => script'[v] = script[v]
      /\ UNCHANGED saved
  BY DEF Accept, TypeInv, TypeOK
<1>2. ~Holds(w)'
  BY <1>1 DEF Holds
<1>3. ASSUME NEW v \in Workers, Holds(v)'
      PROVE  v # w /\ script'[v] = script[v] /\ Holds(v)
  BY <1>1, <1>2, <1>3 DEF Holds
<1>4. ASSUME NEW u \in Workers, NEW v \in Workers, u # v, SameFile(u, v)'
      PROVE  ~(Holds(u) /\ Holds(v))'
  BY <1>3, <1>4 DEF LockInv, SameFile, Active, BrowserOfScript
<1>5. ASSUME NEW v \in Workers, script'[v].pc = "running"
      PROVE  script'[v].me = saved'[BrowserOf[script'[v].req.click.tab]][script'[v].file]
  BY <1>1, <1>5 DEF LockInv, BrowserOfScript
<1> QED
  BY <1>4, <1>5 DEF LockInv, BrowserOfScript

(* The guard of session_start(): nobody has the file w is about to get.    *)
LEMMA StartSessionLockInv ==
  ASSUME TypeInv, LockInv, NEW w \in Workers, StartSession(w)
  PROVE  LockInv'
<1> DEFINE me == saved[BrowserOfScript(w)][script[w].file]
<1>1. script[w] \in ActiveScripts /\ Active(w)
  BY ActiveScript DEF StartSession, Active, TypeInv
<1>2. /\ script'[w].pc = "running"
      /\ script'[w].req = script[w].req
      /\ script'[w].file = script[w].file
      /\ script'[w].me = me
      /\ \A v \in Workers : v # w => script'[v] = script[v]
      /\ UNCHANGED saved
  BY <1>1 DEF StartSession, ActiveScripts, TypeInv, TypeOK
<1>3. \A v \in Workers : ~(Holds(v) /\ SameFile(v, w))
  BY DEF StartSession
<1>4. \A v \in Workers : Holds(v)' => v = w \/ Holds(v)
  BY <1>2 DEF Holds
<1>5. \A u, v \in Workers : SameFile(u, v)' => SameFile(u, v)
  BY <1>1, <1>2 DEF SameFile, Active, BrowserOfScript
<1>6. \A u, v \in Workers : SameFile(u, v) => SameFile(v, u)
  BY DEF SameFile
<1>7. ASSUME NEW u \in Workers, NEW v \in Workers, u # v, SameFile(u, v)'
      PROVE  ~(Holds(u) /\ Holds(v))'
  BY <1>3, <1>4, <1>5, <1>6, <1>7 DEF LockInv
<1>8. ASSUME NEW v \in Workers, script'[v].pc = "running"
      PROVE  script'[v].me = saved'[BrowserOf[script'[v].req.click.tab]][script'[v].file]
  BY <1>2, <1>8 DEF LockInv, BrowserOfScript
<1> QED
  BY <1>7, <1>8 DEF LockInv, BrowserOfScript

LEMMA RunLockInv ==
  ASSUME TypeInv, LockInv, NEW w \in Workers, Run(w)
  PROVE  LockInv'
<1>1. script[w].pc = "running" /\ Active(w) /\ Holds(w)
  BY DEF Run, DatabaseFails, RunPayment, RunLogin, RunLogout, RunBook, Runs, Active, Holds
<1>2. script[w] \in ActiveScripts
  BY <1>1, ActiveScript DEF TypeInv
<1>3. PICK me, kind, d : Ends(w, me, kind, d)
  BY DEF Run, DatabaseFails, RunPayment, RunLogin, RunLogout, RunBook
<1>4. /\ script'[w].pc = "done"
      /\ script'[w].req = script[w].req
      /\ script'[w].file = script[w].file
      /\ \A v \in Workers : v # w => script'[v] = script[v]
  BY <1>2, <1>3 DEF Ends, ActiveScripts, TypeInv, TypeOK
<1>5. ASSUME NEW v \in Workers, script[v].pc = "running"
      PROVE  saved'[BrowserOfScript(v)][script[v].file]
               = saved[BrowserOfScript(v)][script[v].file]
  <2>1. CASE UNCHANGED saved
    BY <2>1
  <2>2. CASE RunLogout(w)
    <3> DEFINE b == BrowserOfScript(w)
               c == BrowserOfScript(v)
    <3>1. saved' = [saved EXCEPT ![b] = Append(@, NoUser)]
      BY <2>2 DEF RunLogout, DestroySession
    <3>2. Active(v)
      BY <1>5 DEF Active
    <3>3. script[v].file \in 1..Len(saved[c])
      BY <3>2 DEF TypeInv, FilesExist
    <3>4. c \in Browsers
      BY <3>2, ActiveScript, BookingAssumption DEF TypeInv, BrowserOfScript, Requests, Clicks
    <3>5. saved[c] \in Seq(SessionUsers) /\ NoUser \in SessionUsers
      BY <3>4 DEF TypeInv, TypeOK, SessionUsers
    <3> HIDE DEF b, c
    <3>6. Append(saved[c], NoUser)[script[v].file] = saved[c][script[v].file]
      BY <3>3, <3>5
    <3>7. saved'[c] = saved[c] \/ saved'[c] = Append(saved[c], NoUser)
      BY <3>1, <3>4 DEF TypeInv, TypeOK
    <3>8. saved'[c][script[v].file] = saved[c][script[v].file]
      BY <3>6, <3>7
    <3> QED
      BY <3>8 DEF c
  <2> QED
    BY <2>1, <2>2 DEF Run, DatabaseFails, RunPayment, RunLogin, RunBook
<1> QED
  BY <1>1, <1>4, <1>5, LockStep

(* What the end of a script writes, nobody else has open and running.      *)
LEMMA FinishLockInv ==
  ASSUME TypeInv, LockInv, NEW w \in Workers, Finish(w)
  PROVE  LockInv'
<1> DEFINE b == BrowserOfScript(w)
           f == script[w].file
<1>1. /\ script'[w] = Idle
      /\ \A v \in Workers : v # w => script'[v] = script[v]
      /\ Active(w)
  BY DEF Finish, TypeInv, TypeOK, Active
<1>2. ~Active(w)' /\ ~Holds(w)' /\ script'[w].pc # "running"
  BY <1>1 DEF Active, Holds, Idle
<1>3. ASSUME NEW v \in Workers, v # w, script[v].pc = "running"
      PROVE  saved'[BrowserOfScript(v)][script[v].file]
               = saved[BrowserOfScript(v)][script[v].file]
  <2>1. CASE ~Holds(w)
    BY <2>1 DEF Finish
  <2>2. CASE Holds(w)
    <3>1. Holds(v) /\ Active(v)
      BY <1>3 DEF Holds, Active
    <3>2. ~SameFile(v, w)
      BY <1>3, <2>2, <3>1 DEF LockInv
    <3>3. BrowserOfScript(v) # b \/ script[v].file # f
      BY <1>1, <3>1, <3>2 DEF SameFile
    <3>4. saved' = [saved EXCEPT ![b] = [@ EXCEPT ![f] = script[w].me]]
      BY <2>2 DEF Finish, SaveSession
    <3>5. b \in Browsers /\ BrowserOfScript(v) \in Browsers
      BY <1>1, <3>1, ActiveScript, BookingAssumption
         DEF TypeInv, BrowserOfScript, Requests, Clicks
    <3>6. /\ saved \in [Browsers -> Seq(SessionUsers)]
          /\ script[v].file \in 1..Len(saved[BrowserOfScript(v)])
      BY <3>1 DEF TypeInv, TypeOK, FilesExist
    <3> HIDE DEF b, f
    <3>7. CASE BrowserOfScript(v) # b
      BY <3>4, <3>5, <3>6, <3>7
    <3>8. CASE BrowserOfScript(v) = b
      <4>1. saved'[b] = [saved[b] EXCEPT ![f] = script[w].me]
        BY <3>4, <3>5, <3>6
      <4>2. script[v].file \in DOMAIN saved[b] /\ script[v].file # f
        BY <3>3, <3>5, <3>6, <3>8
      <4> QED
        BY <3>8, <4>1, <4>2
    <3> QED
      BY <3>7, <3>8
  <2> QED
    BY <2>1, <2>2
<1> QED
  BY <1>1, <1>2, <1>3, LockStep

LEMMA NextLockInv == TypeInv /\ LockInv /\ [Next]_vars => LockInv'
<1> SUFFICES ASSUME TypeInv, LockInv, [Next]_vars PROVE LockInv'
  OBVIOUS
<1>1. ASSUME NEW t \in Tabs, BrowserStep(t) PROVE UNCHANGED <<saved, script>>
  BY <1>1 DEF BrowserStep, OpenPayment, SubmitLogin, FollowLogout, Navigate, handlePayment,
              RenderPage, BookingAccepted, ShowOverlay, BookingRefused, FetchFails, Alert,
              NavigationFails
<1>2. ASSUME NEW w \in Workers, ServerStep(w) PROVE LockInv'
  BY <1>2, AcceptLockInv, StartSessionLockInv, RunLockInv, FinishLockInv DEF ServerStep
<1>3. CASE Restart
  <2>1. \A w \in Workers : ~Active(w)' /\ script'[w].pc # "running"
    BY <1>3 DEF Restart, Active, Idle
  <2> QED
    BY <2>1 DEF LockInv, SameFile
<1>4. CASE UNCHANGED vars
  BY <1>4, LockFrame DEF vars
<1> QED
  BY <1>1, <1>2, <1>3, <1>4, LockFrame DEF Next

(* In every reachable state at most one script is past session_start() on  *)
(* a session file.                                                         *)
THEOREM LockInvariance == Spec => []LockInv
<1>1. Init => LockInv
  BY DEF Init, LockInv, SameFile, Active, Idle
<1>2. Init /\ [][Next]_vars => []LockInv
  BY <1>1, NextLockInv, TypeInvariance, PTL DEF Spec
<1> QED
  BY <1>2, PTL DEF Spec

(* A running script is alone on its session file, and the file holds what  *)
(* the script read when it started.                                        *)
THEOREM SessionIsStable == Spec => []SessionStableWhileHeld
<1>1. LockInv => SessionStableWhileHeld
  BY DEF LockInv, SessionStableWhileHeld, SameFile, Holds
<1> QED
  BY <1>1, LockInvariance, PTL

-------------------------------------------------------------------------------
(* The ledger: what a step adds to the table, and what is said of it.      *)

(* The row w would insert.                                                 *)
RowOf(w) == [user |-> script[w].me, prop |-> script[w].req.prop,
             total |-> script[w].req.due, click |-> script[w].req.click]

(* The table changes only by the INSERT of a running booking script whose  *)
(* user is logged in.                                                      *)
LEMMA TableSteps ==
  ASSUME [Next]_vars
  PROVE  \/ UNCHANGED bookings
         \/ \E w \in Workers : /\ Runs(w, "book")
                               /\ script[w].me \in Users
                               /\ bookings' = Append(bookings, RowOf(w))
<1>1. ASSUME NEW t \in Tabs, BrowserStep(t) PROVE UNCHANGED bookings
  BY <1>1 DEF BrowserStep, OpenPayment, SubmitLogin, FollowLogout, Navigate, handlePayment,
              RenderPage, BookingAccepted, ShowOverlay, BookingRefused, FetchFails, Alert,
              NavigationFails
<1>2. ASSUME NEW w \in Workers, ServerStep(w)
      PROVE  \/ UNCHANGED bookings
             \/ /\ Runs(w, "book")
                /\ script[w].me \in Users
                /\ bookings' = Append(bookings, RowOf(w))
  BY <1>2 DEF ServerStep, Accept, StartSession, Run, DatabaseFails, RunPayment, RunLogin,
              RunLogout, RunBook, BookingAllowed, InsertBooking, RowOf, Finish
<1>3. Restart \/ UNCHANGED vars => UNCHANGED bookings
  BY DEF Restart, vars
<1> QED
  BY <1>1, <1>2, <1>3 DEF Next

(* What is in the table stays there.                                       *)
LEMMA EnteredForGood ==
  ASSUME TypeOK, [Next]_vars, NEW c, NEW p, NEW due, EnteredIn(bookings, c, p, due)
  PROVE  EnteredIn(bookings', c, p, due)
<1>1. CASE UNCHANGED bookings
  BY <1>1
<1>2. ASSUME NEW w \in Workers, bookings' = Append(bookings, RowOf(w))
      PROVE  EnteredIn(bookings', c, p, due)
  <2>1. bookings \in Seq(Rows)
    BY DEF TypeOK
  <2>2. PICK i \in DOMAIN bookings : /\ bookings[i].click = c
                                     /\ bookings[i].prop = p
                                     /\ bookings[i].total = due
    BY DEF EnteredIn
  <2>3. i \in DOMAIN bookings' /\ bookings'[i] = bookings[i]
    BY <1>2, <2>1, <2>2
  <2> QED
    BY <2>2, <2>3 DEF EnteredIn
<1> QED
  BY <1>1, <1>2, TableSteps

(* Only the session's user is booked for, and only at the price of a       *)
(* listed property: the table never changes in any other way.              *)
THEOREM LedgerBelongsToSessionUsers == Spec => LedgerGrowsForSessionUser
<1> DEFINE Grows == bookings' # bookings =>
       \E w \in Workers, u \in Users :
         LET r == script[w].req
         IN /\ Active(w)
            /\ saved[BrowserOfScript(w)][script[w].file] = u
            /\ r.prop \in Listed
            /\ bookings' = Append(bookings,
                 [user |-> u, prop |-> r.prop, total |-> TotalDue(Rent[r.prop]),
                  click |-> r.click])
<1>1. TypeInv /\ LockInv /\ [Next]_vars => Grows
  <2> SUFFICES ASSUME TypeInv, LockInv, [Next]_vars, bookings' # bookings
               PROVE  Grows
    OBVIOUS
  <2>1. PICK w \in Workers : /\ Runs(w, "book")
                             /\ script[w].me \in Users
                             /\ bookings' = Append(bookings, RowOf(w))
    BY TableSteps
  <2>2. /\ Active(w)
        /\ script[w].me = saved[BrowserOfScript(w)][script[w].file]
        /\ script[w].req.prop \in Listed
        /\ script[w].req.due = TotalDue(Rent[script[w].req.prop])
    BY <2>1 DEF Runs, Active, LockInv, TypeInv, DocsArePrinted, PageRequest
  <2> QED
    BY <2>1, <2>2 DEF RowOf
<1>2. Grows => [Grows]_vars
  OBVIOUS
<1> HIDE DEF Grows
<1>3. Spec => [][Grows]_vars
  BY <1>1, <1>2, TypeInvariance, LockInvariance, PTL DEF Spec
<1> QED
  BY <1>3 DEF LedgerGrowsForSessionUser, Grows

LEMMA InitSuccessInv == Init => SuccessInv
<1> SUFFICES ASSUME Init PROVE SuccessInv
  OBVIOUS
<1>1. \A w \in Workers : ~Active(w)
  BY DEF Init, Active, Idle
<1>2. \A t \in Tabs : reply[t].kind # "success" /\ phase[t] = "home"
  BY DEF Init, NoReply
<1> QED
  BY <1>1, <1>2 DEF Init, SuccessInv

(* A request goes on posting what its page shows: a page that changes what *)
(* it shows, or counts on, is past every click that was made on it.        *)
LEMMA PostsForGood ==
  ASSUME TypeInv, NEW t \in Tabs, BrowserStep(t), NEW r \in Requests,
         PostsItsPage(r), r.kind = "book" => Issued(r.click)
  PROVE  PostsAt(r, load', attempt', doc')
<1> DEFINE c == r.click
<1>1. /\ c.tab \in Tabs /\ c.load \in Nat /\ c.attempt \in Nat
      /\ load \in [Tabs -> 0..MaxLoads] /\ attempt \in [Tabs -> 0..MaxClicks]
      /\ phase \in [Tabs -> Phases] /\ doc \in [Tabs -> Docs \cup {NoDoc}]
      /\ MaxLoads \in Nat /\ MaxClicks \in Nat
      /\ load[c.tab] \in Nat /\ attempt[c.tab] \in Nat
  BY BookingAssumption DEF TypeInv, TypeOK, Requests, Clicks
<1>2. CASE UNCHANGED <<load, attempt, doc>>
  BY <1>2 DEF PostsItsPage
<1>3. ASSUME NEW kind, NEW p, NEW u, Navigate(t, kind, p, u)
      PROVE  PostsAt(r, load', attempt', doc')
  <2>1. /\ load' = [load EXCEPT ![t] = @ + 1] /\ attempt' = [attempt EXCEPT ![t] = 0]
        /\ doc' = [doc EXCEPT ![t] = NoDoc]
    BY <1>3 DEF Navigate
  <2>2. CASE c.tab = t
    BY <1>1, <2>1, <2>2 DEF PostsAt, Issued, IssuedAt
  <2>3. CASE c.tab # t
    BY <1>1, <2>1, <2>3 DEF PostsAt, PostsItsPage
  <2> QED
    BY <2>2, <2>3
<1>4. CASE RenderPage(t)
  <2>1. /\ phase[t] = "loading"
        /\ UNCHANGED <<load, attempt>>
        /\ doc' = [doc EXCEPT ![t] = reply[t].doc]
    BY <1>4 DEF RenderPage
  <2>2. CASE c.tab = t
    BY <1>1, <2>1, <2>2 DEF PostsAt, Issued, IssuedAt
  <2>3. CASE c.tab # t
    BY <1>1, <2>1, <2>3 DEF PostsAt, PostsItsPage
  <2> QED
    BY <2>2, <2>3
<1>5. CASE Alert(t)
  <2>1. UNCHANGED <<load, doc>> /\ attempt' = [attempt EXCEPT ![t] = @ + 1]
    BY <1>5 DEF Alert
  <2>2. CASE c.tab = t
    BY <1>1, <2>1, <2>2 DEF PostsAt, Issued, IssuedAt
  <2>3. CASE c.tab # t
    BY <1>1, <2>1, <2>3 DEF PostsAt, PostsItsPage
  <2> QED
    BY <2>2, <2>3
<1>6. handlePayment(t) \/ BookingAccepted(t) \/ ShowOverlay(t) \/ NavigationFails(t)
        => UNCHANGED <<load, attempt, doc>>
  BY DEF handlePayment, BookingAccepted, ShowOverlay, NavigationFails
<1> QED
  BY <1>2, <1>3, <1>4, <1>5, <1>6
     DEF BrowserStep, OpenPayment, SubmitLogin, FollowLogout, BookingRefused, FetchFails

(* Tab t says or has been sent a success.                                  *)
Told(t) == reply[t].kind = "success" \/ phase[t] \in {"accepted", "overlay"}

(* A step of a tab tells it nothing that its answer did not.               *)
LEMMA ToldByAnswer ==
  ASSUME TypeInv, NEW t \in Tabs, BrowserStep(t), NEW q \in Tabs, Told(q)'
  PROVE  /\ Told(q)
         /\ load'[q] = load[q] /\ attempt'[q] = attempt[q] /\ doc'[q] = doc[q]
<1>1. TypeOK
  BY DEF TypeInv
<1>2. ASSUME NEW kind, NEW p, NEW u, Navigate(t, kind, p, u)
      PROVE  Told(q) /\ load'[q] = load[q] /\ attempt'[q] = attempt[q] /\ doc'[q] = doc[q]
  BY <1>1, <1>2 DEF Navigate, Told, NoReply, TypeOK
<1>3. CASE handlePayment(t)
  BY <1>1, <1>3 DEF handlePayment, Told, TypeOK
<1>4. CASE RenderPage(t)
  BY <1>1, <1>4 DEF RenderPage, Told, NoReply, TypeOK
<1>5. CASE BookingAccepted(t)
  BY <1>1, <1>5 DEF BookingAccepted, Told, NoReply, TypeOK
<1>6. CASE ShowOverlay(t)
  BY <1>1, <1>6 DEF ShowOverlay, Told, TypeOK
<1>7. CASE Alert(t)
  BY <1>1, <1>7 DEF Alert, Told, NoReply, TypeOK
<1>8. CASE NavigationFails(t)
  BY <1>1, <1>8 DEF NavigationFails, Told, TypeOK
<1> QED
  BY <1>2, <1>3, <1>4, <1>5, <1>6, <1>7, <1>8
     DEF BrowserStep, OpenPayment, SubmitLogin, FollowLogout, BookingRefused, FetchFails

LEMMA BrowserSuccessInv ==
  ASSUME TypeInv, ClickInv, SuccessInv, NEW t \in Tabs, BrowserStep(t)
  PROVE  SuccessInv'
<1>1. UNCHANGED <<script, bookings>>
  BY DEF BrowserStep, OpenPayment, SubmitLogin, FollowLogout, Navigate, handlePayment,
         RenderPage, BookingAccepted, ShowOverlay, BookingRefused, FetchFails, Alert,
         NavigationFails
<1>2. ASSUME NEW r \in queue' PROVE PostsAt(r, load', attempt', doc')
  <2>1. CASE r \in queue
    <3>1. r \in Requests /\ PostsItsPage(r) /\ (r.kind = "book" => Issued(r.click))
      BY <2>1 DEF TypeInv, TypeOK, SuccessInv, ClickInv, ClicksIssued
    <3> QED
      BY <3>1, PostsForGood
  <2>2. CASE r \notin queue
    <3>1. ASSUME NEW kind \in {"payment", "login", "logout"}, NEW p, NEW u,
                 Navigate(t, kind, p, u)
          PROVE  r.kind # "book"
      BY <2>2, <3>1 DEF Navigate
    <3>2. CASE handlePayment(t)
      BY <2>2, <3>2 DEF handlePayment, PostsAt, ClickOf
    <3>3. RenderPage(t) \/ BookingAccepted(t) \/ ShowOverlay(t) \/ Alert(t)
          \/ NavigationFails(t) => queue' = queue
      BY DEF RenderPage, BookingAccepted, ShowOverlay, Alert, NavigationFails
    <3> QED
      BY <2>2, <3>1, <3>2, <3>3 DEF PostsAt, BrowserStep, OpenPayment, SubmitLogin,
                                    FollowLogout, BookingRefused, FetchFails
  <2> QED
    BY <2>1, <2>2
<1>3. ASSUME NEW w \in Workers, Active(w)
      PROVE  PostsAt(script[w].req, load', attempt', doc')
  <2>1. /\ script[w].req \in Requests
        /\ PostsItsPage(script[w].req)
        /\ script[w].req.kind = "book" => Issued(script[w].req.click)
    BY <1>3, ActiveScript DEF TypeInv, SuccessInv, ClickInv, ClicksIssued
  <2> DEFINE r == script[w].req
  <2> HIDE DEF r
  <2>2. r \in Requests /\ PostsItsPage(r) /\ (r.kind = "book" => Issued(r.click))
    BY <2>1 DEF r
  <2>3. PostsAt(r, load', attempt', doc')
    BY <2>2, PostsForGood
  <2> QED
    BY <2>3 DEF r
<1>4. ASSUME NEW q \in Tabs, Told(q)'
      PROVE  EnteredIn(bookings', ClickOf(q)', doc'[q].prop, doc'[q].due)
  <2>1. /\ Told(q) /\ load'[q] = load[q] /\ attempt'[q] = attempt[q] /\ doc'[q] = doc[q]
    BY <1>4, ToldByAnswer
  <2>2. ClickOf(q)' = ClickOf(q)
    BY <2>1 DEF ClickOf
  <2> QED
    BY <1>1, <2>1, <2>2 DEF SuccessInv, Told, Entered
<1>5. \A w \in Workers : Active(w)' => /\ Active(w)
                                       /\ script'[w] = script[w]
  BY <1>1 DEF Active
<1>6. /\ \A r \in queue' : PostsItsPage(r)'
      /\ \A w \in Workers : Active(w)' => PostsItsPage(script[w].req)'
  BY <1>1, <1>2, <1>3, <1>5 DEF PostsItsPage
<1> QED
  BY <1>1, <1>4, <1>5, <1>6 DEF SuccessInv, Told, Entered

(* Steps of the server that answer no tab and insert nothing new to say.   *)
LEMMA ServerFrame ==
  ASSUME TypeInv, SuccessInv, [Next]_vars, UNCHANGED <<load, attempt, phase, doc>>,
         \A q \in Tabs : reply'[q].kind = "success" =>
           \/ reply'[q] = reply[q]
           \/ Entered(ClickOf(q), doc[q].prop, doc[q].due),
         \A r \in queue' : r \in queue,
         \A v \in Workers : Active(v)' =>
           \/ Active(v) /\ script'[v] = script[v]
           \/ /\ PostsItsPage(script'[v].req)
              /\ script'[v].out.kind = "success" =>
                   /\ script'[v].req.kind = "book"
                   /\ EnteredIn(bookings', script'[v].req.click, script'[v].req.prop,
                                script'[v].req.due)
  PROVE  SuccessInv'
<1>1. \A c, p, due : EnteredIn(bookings, c, p, due) => EnteredIn(bookings', c, p, due)
  BY EnteredForGood DEF TypeInv
<1>2. \A r \in queue' : PostsItsPage(r)'
  BY DEF SuccessInv, PostsItsPage
<1>3. ASSUME NEW v \in Workers, Active(v)'
      PROVE  /\ PostsAt(script'[v].req, load, attempt, doc)
             /\ script'[v].out.kind = "success" =>
                  /\ script'[v].req.kind = "book"
                  /\ EnteredIn(bookings', script'[v].req.click, script'[v].req.prop,
                               script'[v].req.due)
  <2>1. CASE Active(v) /\ script'[v] = script[v]
    BY <1>1, <2>1 DEF SuccessInv, PostsItsPage, Entered
  <2>2. CASE ~(Active(v) /\ script'[v] = script[v])
    BY <1>3, <2>2 DEF PostsItsPage
  <2> QED
    BY <2>1, <2>2
<1>4. ASSUME NEW q \in Tabs, Told(q)'
      PROVE  EnteredIn(bookings', ClickOf(q), doc[q].prop, doc[q].due)
  <2>1. Told(q) \/ Entered(ClickOf(q), doc[q].prop, doc[q].due)
    BY <1>4 DEF Told
  <2> QED
    BY <1>1, <2>1 DEF SuccessInv, Told, Entered
<1>5. \A q \in Tabs : ClickOf(q)' = ClickOf(q)
  BY DEF ClickOf
<1> QED
  BY <1>2, <1>3, <1>4, <1>5 DEF SuccessInv, Told, Entered, PostsItsPage

LEMMA RunSuccessInv ==
  ASSUME TypeInv, SuccessInv, NEW w \in Workers, Run(w)
  PROVE  SuccessInv'
<1> DEFINE r == script[w].req
<1>1. [Next]_vars
  BY DEF Next, ServerStep
<1>2. /\ UNCHANGED <<load, attempt, phase, doc, reply, queue>>
      /\ script[w].pc = "running" /\ Active(w)
  BY DEF Run, DatabaseFails, RunPayment, RunLogin, RunLogout, RunBook, Runs, Active, tabVars
<1>3. script[w] \in ActiveScripts
  BY <1>2, ActiveScript DEF TypeInv
<1>4. PICK me, kind, d :
        /\ Ends(w, me, kind, d)
        /\ kind = "success" => Runs(w, "book") /\ InsertBooking(w)
  BY DEF Run, DatabaseFails, RunPayment, RunLogin, RunLogout, RunBook
<1>5. /\ script'[w].req = r
      /\ script'[w].out = [kind |-> kind, doc |-> d]
      /\ \A v \in Workers : v # w => script'[v] = script[v]
  BY <1>3, <1>4 DEF Ends, ActiveScripts, TypeInv, TypeOK
<1>6. kind = "success" => r.kind = "book" /\ EnteredIn(bookings', r.click, r.prop, r.due)
  <2> SUFFICES ASSUME kind = "success"
               PROVE  r.kind = "book" /\ EnteredIn(bookings', r.click, r.prop, r.due)
    OBVIOUS
  <2>1. r.kind = "book" /\ bookings' = Append(bookings, RowOf(w))
    BY <1>4 DEF Runs, InsertBooking, RowOf
  <2>2. bookings \in Seq(Rows)
    BY DEF TypeInv, TypeOK
  <2>3. /\ Len(bookings) + 1 \in DOMAIN bookings'
        /\ bookings'[Len(bookings) + 1] = RowOf(w)
    BY <2>1, <2>2
  <2> QED
    BY <2>1, <2>3 DEF EnteredIn, RowOf
<1>7. PostsItsPage(r)
  BY <1>2 DEF SuccessInv
<1>8. ASSUME NEW v \in Workers, Active(v)'
      PROVE  \/ Active(v) /\ script'[v] = script[v]
             \/ /\ PostsItsPage(script'[v].req)
                /\ script'[v].out.kind = "success" =>
                     /\ script'[v].req.kind = "book"
                     /\ EnteredIn(bookings', script'[v].req.click, script'[v].req.prop,
                                  script'[v].req.due)
  <2>1. CASE v = w
    BY <1>5, <1>6, <1>7, <2>1
  <2>2. CASE v # w
    BY <1>5, <1>8, <2>2 DEF Active
  <2> QED
    BY <2>1, <2>2
<1> QED
  BY <1>1, <1>2, <1>8, ServerFrame

LEMMA FinishSuccessInv ==
  ASSUME TypeInv, ClickInv, SuccessInv, NEW w \in Workers, Finish(w)
  PROVE  SuccessInv'
<1> DEFINE r == script[w].req
           o == script[w].out
           t == r.click.tab
<1>1. [Next]_vars
  BY DEF Next, ServerStep
<1>2. /\ UNCHANGED <<load, attempt, phase, doc, queue, bookings>>
      /\ script' = [script EXCEPT ![w] = Idle]
      /\ Active(w)
      /\ reply' = IF Awaited(r) THEN [reply EXCEPT ![t] = o] ELSE reply
  BY DEF Finish, tabVars, Active
<1>3. /\ PostsItsPage(r)
      /\ o.kind = "success" => r.kind = "book" /\ Entered(r.click, r.prop, r.due)
  BY <1>2 DEF SuccessInv
<1>4. ASSUME NEW q \in Tabs, reply'[q].kind = "success"
      PROVE  reply'[q] = reply[q] \/ Entered(ClickOf(q), doc[q].prop, doc[q].due)
  <2>1. CASE reply'[q] = reply[q]
    BY <2>1
  <2>2. CASE reply'[q] # reply[q]
    <3>1. q = t /\ reply'[q] = o /\ Awaited(r)
      BY <1>2, <1>4, <2>2 DEF TypeInv, TypeOK
    <3>2. r.click = ClickOf(q)
      BY <3>1 DEF Awaited
    <3>3. r.prop = doc[q].prop /\ r.due = doc[q].due
      BY <1>3, <1>4, <3>1, <3>2 DEF PostsItsPage, PostsAt, ClickOf
    <3> QED
      BY <1>3, <1>4, <3>1, <3>2, <3>3
  <2> QED
    BY <2>1, <2>2
<1>5. \A v \in Workers : Active(v)' => Active(v) /\ script'[v] = script[v]
  BY <1>2 DEF Active, Idle, TypeInv, TypeOK
<1> QED
  BY <1>1, <1>2, <1>4, <1>5, ServerFrame

LEMMA NextSuccessInv == TypeInv /\ ClickInv /\ SuccessInv /\ [Next]_vars => SuccessInv'
<1> SUFFICES ASSUME TypeInv, ClickInv, SuccessInv, [Next]_vars PROVE SuccessInv'
  OBVIOUS
<1>1. ASSUME NEW t \in Tabs, BrowserStep(t) PROVE SuccessInv'
  BY <1>1, BrowserSuccessInv
<1>2. ASSUME NEW w \in Workers, ServerStep(w) PROVE SuccessInv'
  <2>1. ASSUME NEW r \in queue, Accept(w, r) PROVE SuccessInv'
    <3>1. /\ UNCHANGED <<load, attempt, phase, doc, reply, bookings>>
          /\ queue' = queue \ {r}
          /\ script'[w].req = r /\ script'[w].out = NoReply
          /\ \A v \in Workers : v # w => script'[v] = script[v]
      BY <2>1 DEF Accept, tabVars, TypeInv, TypeOK
    <3>2. PostsItsPage(r)
      BY DEF SuccessInv
    <3>3. \A v \in Workers : Active(v)' =>
            \/ Active(v) /\ script'[v] = script[v]
            \/ PostsItsPage(script'[v].req) /\ script'[v].out.kind # "success"
      BY <3>1, <3>2 DEF Active, NoReply
    <3> QED
      BY <3>1, <3>3, ServerFrame
  <2>2. CASE StartSession(w)
    <3>1. script[w] \in ActiveScripts /\ Active(w)
      BY <2>2, ActiveScript DEF StartSession, Active, TypeInv
    <3>2. /\ UNCHANGED <<load, attempt, phase, doc, reply, queue, bookings>>
          /\ script'[w].req = script[w].req /\ script'[w].out = script[w].out
          /\ \A v \in Workers : v # w => script'[v] = script[v]
      BY <2>2, <3>1 DEF StartSession, ActiveScripts, tabVars, TypeInv, TypeOK
    <3>3. ASSUME NEW v \in Workers, Active(v)'
          PROVE  \/ Active(v) /\ script'[v] = script[v]
                 \/ /\ PostsItsPage(script'[v].req)
                    /\ script'[v].out.kind = "success" =>
                         /\ script'[v].req.kind = "book"
                         /\ EnteredIn(bookings', script'[v].req.click,
                                      script'[v].req.prop, script'[v].req.due)
      <4>1. CASE v = w
        BY <3>1, <3>2, <4>1 DEF SuccessInv, Entered
      <4>2. CASE v # w
        BY <3>2, <3>3, <4>2 DEF Active
      <4> QED
        BY <4>1, <4>2
    <3> QED
      BY <3>2, <3>3, ServerFrame
  <2> QED
    BY <1>2, <2>1, <2>2, RunSuccessInv, FinishSuccessInv DEF ServerStep
<1>3. CASE Restart
  <2>1. /\ UNCHANGED <<load, attempt, phase, doc, reply, bookings>>
        /\ queue' = {}
        /\ \A v \in Workers : ~Active(v)'
    BY <1>3 DEF Restart, tabVars, Active, Idle
  <2> QED
    BY <2>1, ServerFrame
<1>4. CASE UNCHANGED vars
  <2>1. UNCHANGED <<load, attempt, phase, doc, reply, queue, script, bookings>>
    BY <1>4 DEF vars
  <2> QED
    BY <2>1, ServerFrame DEF Active
<1> QED
  BY <1>1, <1>2, <1>3, <1>4 DEF Next

(* In every reachable state a success, wherever it has got to, answers a   *)
(* click whose row is in the table.                                        *)
THEOREM SuccessInvariance == Spec => []SuccessInv
<1>1. Init /\ [][Next]_vars => []SuccessInv
  BY InitSuccessInv, NextSuccessInv, TypeInvariance, ClickInvariance, PTL DEF Spec
<1> QED
  BY <1>1, PTL DEF Spec

(* "Your booking is confirmed" is only ever shown over a row of the table  *)
(* for the property and the total of that page.                            *)
THEOREM ConfirmationsAreRecorded == Spec => []ConfirmedMeansRecorded
<1>1. SuccessInv => ConfirmedMeansRecorded
  BY DEF SuccessInv, ConfirmedMeansRecorded, Entered, EnteredIn, RowsOf
<1> QED
  BY <1>1, SuccessInvariance, PTL
===============================================================================

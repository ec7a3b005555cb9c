----------------------------- MODULE LedgerProofs -----------------------------
(***************************************************************************)
(* Booking implements BookingLedger, for all constants: every step of      *)
(* pages, workers and failures is a step of the abstract ledger, or none.  *)
(***************************************************************************)
EXTENDS BookingProofs

(* The submission a request makes.                                         *)
Submission(r) == [click |-> r.click, prop |-> r.prop]

(* The submissions of the requests in q and of the scripts in sc.          *)
PendingIn(q, sc) ==
  {Submission(r) : r \in {x \in q : x.kind = "book"}} \cup
  {Submission(sc[w].req) : w \in {v \in Workers :
     sc[v].pc \in {"blocked", "running"} /\ sc[v].req.kind = "book"}}

Pending == {[click |-> r.click, prop |-> r.prop] : r \in Unserved}

LEMMA PendingSplit == Pending = PendingIn(queue, script)
  BY DEF Pending, PendingIn, Unserved, Submission

LEMMA PendingSplitNext == Pending' = PendingIn(queue', script')
  BY PendingSplit DEF Pending, PendingIn, Unserved, Submission

(* The confirmations before a step, and after one, tab by tab.             *)
LEMMA ConfirmedMember ==
  \A c : c \in Confirmed <=>
    \E t \in Tabs : phase[t] \in {"accepted", "overlay"} /\ c = ClickOf(t)
  BY DEF Confirmed

LEMMA PhasesTyped ==
  ASSUME TypeInv
  PROVE  phase \in [Tabs -> Phases] /\ load \in [Tabs -> 0..MaxLoads]
         /\ attempt \in [Tabs -> 0..MaxClicks]
  BY DEF TypeInv, TypeOK

Price == [p \in Properties |-> TotalDue(Rent[p])]

LEMMA LedgerInit == Init => Ledger!Init
<1> SUFFICES ASSUME Init PROVE Ledger!Init
  OBVIOUS
<1>1. Unserved = {}
  BY DEF Init, Unserved, Idle
<1>2. Confirmed = {}
  BY DEF Init, Confirmed
<1> QED
  BY <1>1, <1>2 DEF Ledger!Init, Init

(* Steps that only drop submissions, or change nothing of the ledger.      *)
LEMMA DropStep ==
  ASSUME Pending' \subseteq Pending, UNCHANGED bookings, Confirmed' = Confirmed
  PROVE  Ledger!Next
  BY DEF Ledger!Next, Ledger!Drop, Pending

(* A page other than t keeps its confirmation.                             *)
LEMMA ConfirmedKept ==
  ASSUME UNCHANGED <<load, attempt, phase>>
  PROVE  Confirmed' = Confirmed
  BY DEF Confirmed, ClickOf

LEMMA PendingKept ==
  ASSUME \A r \in queue' : r.kind = "book" => r \in queue, UNCHANGED script
  PROVE  Pending' \subseteq Pending
<1>1. PendingIn(queue', script') \subseteq PendingIn(queue, script)
  BY DEF PendingIn
<1> QED
  BY <1>1, PendingSplit, PendingSplitNext

(* A page that is left takes its confirmation with it.                     *)
LEMMA NavigateLedger ==
  ASSUME TypeInv, NEW t \in Tabs, NEW kind \in {"payment", "login", "logout"}, NEW p, NEW u,
         Navigate(t, kind, p, u)
  PROVE  [Ledger!Next]_(Ledger!lvars)
<1>1. /\ load' = [load EXCEPT ![t] = @ + 1] /\ attempt' = [attempt EXCEPT ![t] = 0]
      /\ phase' = [phase EXCEPT ![t] = "loading"]
      /\ UNCHANGED <<script, bookings>>
      /\ \A r \in queue' : r.kind = "book" => r \in queue
      /\ queue \subseteq queue'
  BY DEF Navigate
<1>2. Pending' = Pending
  <2>1. PendingIn(queue', script') = PendingIn(queue, script)
    BY <1>1 DEF PendingIn
  <2> QED
    BY <2>1, PendingSplit, PendingSplitNext
<1>3. Confirmed' = Confirmed \ {ClickOf(t)}
  <2>1. \A q \in Tabs : q # t => /\ phase'[q] = phase[q]
                                 /\ ClickOf(q)' = ClickOf(q)
                                 /\ ClickOf(q) # ClickOf(t)
    BY <1>1, PhasesTyped DEF ClickOf
  <2>2. phase'[t] = "loading"
    BY <1>1, PhasesTyped
  <2> QED
    BY <2>1, <2>2 DEF Confirmed
<1>4. CASE ClickOf(t) \in Confirmed
  BY <1>1, <1>2, <1>3, <1>4 DEF Ledger!Next, Ledger!Leave, Pending
<1>5. CASE ClickOf(t) \notin Confirmed
  <2>1. Confirmed' = Confirmed
    BY <1>3, <1>5
  <2> QED
    BY <1>1, <1>2, <2>1, DropStep
<1> QED
  BY <1>4, <1>5

(* A click is a new submission.                                            *)
LEMMA PayLedger ==
  ASSUME TypeInv, ClickInv, NEW t \in Tabs, handlePayment(t)
  PROVE  Ledger!Next
<1> DEFINE r == [kind |-> "book", click |-> ClickOf(t), prop |-> doc[t].prop,
                 due |-> doc[t].due, user |-> NoUser]
           s == Submission(r)
<1>1. /\ queue' = queue \cup {r}
      /\ UNCHANGED <<load, attempt, script, bookings>>
      /\ phase' = [phase EXCEPT ![t] = "processing"] /\ phase[t] = "ready"
  BY DEF handlePayment
<1>2. r.kind = "book" /\ r.click = ClickOf(t)
  OBVIOUS
<1> HIDE DEF r
<1>3. Pending' = Pending \cup {s}
  <2>1. PendingIn(queue', script') = PendingIn(queue, script) \cup {s}
    BY <1>1, <1>2 DEF PendingIn
  <2> QED
    BY <2>1, PendingSplit, PendingSplitNext
<1>4. s.click = ClickOf(t)
  BY <1>2 DEF Submission
<1>5. ~Issued(ClickOf(t))
  BY <1>1, BookingAssumption, PhasesTyped DEF ClickOf, Issued, IssuedAt
<1>6. /\ \A q \in queue : q.kind = "book" => q.click # ClickOf(t)
      /\ \A w \in Workers : Unrun(w) => script[w].req.click # ClickOf(t)
      /\ \A i \in DOMAIN bookings : bookings[i].click # ClickOf(t)
  BY <1>5 DEF ClickInv, ClicksIssued, Unrun, Active
<1> HIDE DEF s
<1>7. \A q \in Pending : q.click # s.click
  <2>1. \A q \in PendingIn(queue, script) : q.click # ClickOf(t)
    BY <1>6 DEF PendingIn, Submission, Unrun
  <2> QED
    BY <1>4, <2>1, PendingSplit
<1>8. Confirmed' = Confirmed
  <2>1. \A q \in Tabs : /\ ClickOf(q)' = ClickOf(q)
                        /\ phase'[q] \in {"accepted", "overlay"}
                             <=> phase[q] \in {"accepted", "overlay"}
    BY <1>1, PhasesTyped DEF ClickOf
  <2> QED
    BY <2>1 DEF Confirmed
<1>9. ~Ledger!Recorded(s.click)
  BY <1>4, <1>6 DEF Ledger!Recorded
<1> QED
  BY <1>1, <1>3, <1>7, <1>8, <1>9 DEF Ledger!Next, Ledger!Submit, Pending

(* The page learns of its row.                                             *)
LEMMA AcceptedLedger ==
  ASSUME TypeInv, SuccessInv, NEW t \in Tabs, BookingAccepted(t)
  PROVE  Ledger!Next
<1>1. /\ UNCHANGED <<load, attempt, queue, script, bookings>>
      /\ phase' = [phase EXCEPT ![t] = "accepted"] /\ reply[t].kind = "success"
  BY DEF BookingAccepted
<1>2. Pending' = Pending
  BY <1>1, PendingSplit, PendingSplitNext
<1>3. Confirmed' = Confirmed \cup {ClickOf(t)}
  <2>1. \A q \in Tabs : ClickOf(q)' = ClickOf(q) /\ (q # t => phase'[q] = phase[q])
    BY <1>1, PhasesTyped DEF ClickOf
  <2>2. phase'[t] = "accepted"
    BY <1>1, PhasesTyped
  <2> QED
    BY <2>1, <2>2 DEF Confirmed
<1>4. Ledger!Recorded(ClickOf(t))
  BY <1>1 DEF SuccessInv, Entered, EnteredIn, Ledger!Recorded
<1> QED
  BY <1>1, <1>2, <1>3, <1>4 DEF Ledger!Next, Ledger!Confirm, Pending

(* The other steps of a page.                                              *)
LEMMA PageLedger ==
  ASSUME TypeInv, NEW t \in Tabs,
         RenderPage(t) \/ ShowOverlay(t) \/ Alert(t) \/ NavigationFails(t)
  PROVE  Ledger!Next
<1>1. UNCHANGED <<load, queue, script, bookings>>
  BY DEF RenderPage, ShowOverlay, Alert, NavigationFails
<1>2. Pending' = Pending
  BY <1>1, PendingSplit, PendingSplitNext
<1>3. /\ \A q \in Tabs : phase'[q] \in {"accepted", "overlay"}
                           <=> phase[q] \in {"accepted", "overlay"}
      /\ \A q \in Tabs : phase[q] \in {"accepted", "overlay"} => ClickOf(q)' = ClickOf(q)
  <2>1. CASE UNCHANGED attempt
    <3>1. \A q \in Tabs : ClickOf(q)' = ClickOf(q)
      BY <1>1, <2>1 DEF ClickOf
    <3>2. \A q \in Tabs : phase'[q] \in {"accepted", "overlay"}
                            <=> phase[q] \in {"accepted", "overlay"}
      BY PhasesTyped DEF RenderPage, ShowOverlay, Alert, NavigationFails
    <3> QED
      BY <3>1, <3>2
  <2>2. CASE Alert(t)
    BY <2>2, PhasesTyped DEF Alert, ClickOf
  <2> QED
    BY <2>1, <2>2 DEF RenderPage, ShowOverlay, NavigationFails
<1>4. Confirmed' = Confirmed
  BY <1>3 DEF Confirmed
<1> QED
  BY <1>1, <1>2, <1>4, DropStep

(* A request on its way from the queue to its script stays one submission. *)
LEMMA AcceptLedger ==
  ASSUME TypeInv, NEW w \in Workers, NEW r \in queue, Accept(w, r)
  PROVE  Ledger!Next
<1>1. /\ UNCHANGED <<load, attempt, phase, bookings>>
      /\ queue' = queue \ {r}
      /\ script'[w].req = r
      /\ \A v \in Workers : v # w => script'[v] = script[v]
  BY DEF Accept, tabVars, TypeInv, TypeOK
<1>2. Pending' \subseteq Pending
  <2>1. PendingIn(queue', script') \subseteq PendingIn(queue, script)
    BY <1>1 DEF PendingIn
  <2> QED
    BY <2>1, PendingSplit, PendingSplitNext
<1> QED
  BY <1>1, <1>2, ConfirmedKept, DropStep

LEMMA StartSessionLedger ==
  ASSUME TypeInv, NEW w \in Workers, StartSession(w)
  PROVE  Ledger!Next
<1>1. script[w] \in ActiveScripts /\ script[w].pc = "blocked"
  BY ActiveScript DEF StartSession, Active, TypeInv
<1>2. /\ UNCHANGED <<load, attempt, phase, queue, bookings>>
      /\ script'[w].req = script[w].req
      /\ \A v \in Workers : v # w => script'[v] = script[v]
  BY <1>1 DEF StartSession, ActiveScripts, tabVars, TypeInv, TypeOK
<1>3. Pending' \subseteq Pending
  <2>1. PendingIn(queue', script') \subseteq PendingIn(queue, script)
    BY <1>1, <1>2 DEF PendingIn
  <2> QED
    BY <2>1, PendingSplit, PendingSplitNext
<1> QED
  BY <1>2, <1>3, ConfirmedKept, DropStep

(* A script that inserts settles its submission, one that does not drops   *)
(* it.                                                                     *)
LEMMA RunLedger ==
  ASSUME TypeInv, ClickInv, NEW w \in Workers, Run(w)
  PROVE  Ledger!Next
<1> DEFINE r == script[w].req
           me == script[w].me
<1>1. /\ UNCHANGED <<load, attempt, phase, doc, reply, queue>>
      /\ script[w].pc = "running" /\ Active(w)
  BY DEF Run, DatabaseFails, RunPayment, RunLogin, RunLogout, RunBook, Runs, Active, tabVars
<1>2. script[w] \in ActiveScripts
  BY <1>1, ActiveScript DEF TypeInv
<1>3. PICK m, kind, d : Ends(w, m, kind, d)
  BY DEF Run, DatabaseFails, RunPayment, RunLogin, RunLogout, RunBook
<1>4. /\ script'[w].pc = "done"
      /\ \A v \in Workers : v # w => script'[v] = script[v]
  BY <1>2, <1>3 DEF Ends, ActiveScripts, TypeInv, TypeOK
<1>5. Pending' \subseteq Pending
  <2>1. PendingIn(queue', script') \subseteq PendingIn(queue, script)
    BY <1>1, <1>4 DEF PendingIn
  <2> QED
    BY <2>1, PendingSplit, PendingSplitNext
<1>6. CASE UNCHANGED bookings
  BY <1>1, <1>5, <1>6, ConfirmedKept, DropStep
<1>7. CASE Runs(w, "book") /\ BookingAllowed(w) /\ InsertBooking(w)
  <2> DEFINE s == Submission(r)
  <2>1. /\ r.kind = "book" /\ Unrun(w)
        /\ me \in Users
        /\ bookings' = Append(bookings, RowOf(w))
    BY <1>1, <1>7 DEF Runs, BookingAllowed, InsertBooking, RowOf, Unrun
  <2>2. r.prop \in Properties /\ r.due = Price[r.prop]
    BY <1>1, <2>1, BookingAssumption DEF TypeInv, DocsArePrinted, PageRequest, Price
  <2>3. s \in Pending
    <3>1. s \in PendingIn(queue, script)
      BY <1>1, <2>1 DEF PendingIn
    <3> QED
      BY <3>1, PendingSplit
  <2>4. Pending' = Pending \ {s}
    <3>1. s.click = r.click
      BY DEF Submission
    <3>2. /\ \A q \in queue : q.kind = "book" => q.click # r.click
          /\ \A v \in Workers : v # w /\ Unrun(v) => script[v].req.click # r.click
      BY <2>1 DEF ClickInv, ClicksApart
    <3>3. \A q \in queue : q.kind = "book" => Submission(q) # s
      BY <3>1, <3>2 DEF Submission
    <3>4. \A v \in Workers : v # w /\ Unrun(v) => Submission(script[v].req) # s
      BY <3>1, <3>2 DEF Submission
    <3> HIDE DEF s
    <3>5. s \notin PendingIn(queue', script')
      BY <1>1, <1>4, <3>3, <3>4 DEF PendingIn, Unrun
    <3>6. \A x \in PendingIn(queue, script) : x = s \/ x \in PendingIn(queue', script')
      BY <1>1, <1>4 DEF PendingIn, s
    <3>7. PendingIn(queue', script') = PendingIn(queue, script) \ {s}
      BY <1>5, <3>5, <3>6, PendingSplit, PendingSplitNext
    <3> QED
      BY <3>7, PendingSplit, PendingSplitNext
  <2>5. s.prop = r.prop /\ s.click = r.click
    BY DEF Submission
  <2>6. bookings' = Append(bookings, [user |-> me, prop |-> s.prop,
                                      total |-> Price[s.prop], click |-> s.click])
    BY <2>1, <2>2, <2>5 DEF RowOf
  <2>7. Confirmed' = Confirmed
    BY <1>1, ConfirmedKept
  <2> HIDE DEF s
  <2>8. \E x \in Pending, u \in Users :
          /\ Pending' = Pending \ {x}
          /\ bookings' = Append(bookings, [user |-> u, prop |-> x.prop,
                                          total |-> Price[x.prop], click |-> x.click])
    BY <2>1, <2>3, <2>4, <2>6
  <2> QED
    BY <2>7, <2>8 DEF Ledger!Next, Ledger!Book, Pending, Price
<1> QED
  BY <1>6, <1>7 DEF Run, DatabaseFails, RunPayment, RunLogin, RunLogout, RunBook

LEMMA FinishLedger ==
  ASSUME TypeInv, NEW w \in Workers, Finish(w)
  PROVE  Ledger!Next
<1>1. /\ UNCHANGED <<load, attempt, phase, queue, bookings>>
      /\ script'[w] = Idle
      /\ \A v \in Workers : v # w => script'[v] = script[v]
  BY DEF Finish, tabVars, TypeInv, TypeOK
<1>2. Pending' \subseteq Pending
  <2>1. PendingIn(queue', script') \subseteq PendingIn(queue, script)
    BY <1>1 DEF PendingIn, Idle
  <2> QED
    BY <2>1, PendingSplit, PendingSplitNext
<1> QED
  BY <1>1, <1>2, ConfirmedKept, DropStep

LEMMA RestartLedger == Restart => Ledger!Next
<1> SUFFICES ASSUME Restart PROVE Ledger!Next
  OBVIOUS
<1>1. UNCHANGED <<load, attempt, phase, bookings>>
  BY DEF Restart, tabVars
<1>2. PendingIn(queue', script') = {}
  BY DEF Restart, PendingIn, Idle
<1>3. Pending' \subseteq Pending
  BY <1>2, PendingSplitNext
<1> QED
  BY <1>1, <1>3, ConfirmedKept, DropStep

(* The site implements the ledger: submissions are booked at most once, at *)
(* their price and for some user, confirmed only when booked, never lost   *)
(* from the table.                                                         *)
THEOREM BookingImplementsLedger == Spec => LedgerKept
<1>1. TypeInv /\ ClickInv /\ SuccessInv /\ [Next]_vars => [Ledger!Next]_(Ledger!lvars)
  <2> SUFFICES ASSUME TypeInv, ClickInv, SuccessInv, [Next]_vars
               PROVE  [Ledger!Next]_(Ledger!lvars)
    OBVIOUS
  <2>1. ASSUME NEW t \in Tabs, BrowserStep(t)
        PROVE  [Ledger!Next]_(Ledger!lvars)
    <3>1. CASE handlePayment(t)
      BY <3>1, PayLedger
    <3>2. CASE BookingAccepted(t)
      BY <3>2, AcceptedLedger
    <3>3. CASE RenderPage(t) \/ ShowOverlay(t) \/ Alert(t) \/ NavigationFails(t)
      BY <3>3, PageLedger
    <3> QED
      BY <2>1, <3>1, <3>2, <3>3, NavigateLedger
         DEF BrowserStep, OpenPayment, SubmitLogin, FollowLogout, BookingRefused, FetchFails
  <2>2. ASSUME NEW w \in Workers, ServerStep(w)
        PROVE  Ledger!Next
    BY <2>2, AcceptLedger, StartSessionLedger, RunLedger, FinishLedger DEF ServerStep
  <2>3. CASE UNCHANGED vars
    <3>1. Unserved' = Unserved /\ UNCHANGED bookings /\ Confirmed' = Confirmed
      BY <2>3 DEF vars, Unserved, Confirmed, ClickOf
    <3> QED
      BY <3>1 DEF Ledger!lvars
  <2> QED
    BY <2>1, <2>2, <2>3, RestartLedger DEF Next
<1> QED
  BY <1>1, LedgerInit, TypeInvariance, ClickInvariance, SuccessInvariance, PTL
     DEF Spec, LedgerKept, Ledger!Spec
===============================================================================

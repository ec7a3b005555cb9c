------------------------------- MODULE Booking --------------------------------
(***************************************************************************)
(* Paying for a property: the payment page in the tabs of several browsers *)
(* (payment.php and its script), the login and logout pages that change    *)
(* the session those tabs share, and the scripts on the server that answer *)
(* them (payment.php, api/book_property.php, api/login_submit.php,         *)
(* logout.php).                                                            *)
(*                                                                         *)
(* A tab sends requests; a free worker of the web server accepts one,      *)
(* queues for the session lock, runs the script and answers.  A tab that   *)
(* navigates away drops the answer but does not stop the script.  A script *)
(* runs in one step because the session lock and autocommit leave one      *)
(* effect visible to others: the row it inserts or the session it changes. *)
(* The server may be killed and restarted at any point, and a connection   *)
(* may fail before or after its script ran.                                *)
(***************************************************************************)
EXTENDS Sessions, Fees, FiniteSets

CONSTANTS Tabs,        \* the tabs that are open
          BrowserOf,   \* the browser each tab belongs to
          Workers,     \* scripts the server runs at a time (1 for php -S)
          Properties,  \* the property ids a link may carry
          Listed,      \* those that are rows of the properties table
          Rent,        \* properties.rent, in whole rupees
          NoProperty,
          MaxLoads,    \* bound: navigations per tab
          MaxClicks    \* bound: clicks on Pay & Confirm per page

ASSUME BookingAssumption ==
  /\ BrowserOf \in [Tabs -> Browsers]
  /\ Listed \subseteq Properties
  /\ Rent \in [Properties -> Int]
  /\ NoProperty \notin Properties
  /\ MaxLoads \in Nat
  /\ MaxClicks \in Nat

VARIABLES phase,    \* what the tab shows
          load,     \* navigations of the tab so far
          attempt,  \* failed clicks on the page the tab shows
          doc,      \* what payment.php printed into that page
          reply,    \* the answer on its way to the tab
          queue,    \* requests no worker has accepted
          script,   \* what each worker runs
          bookings  \* the bookings table, in the order of its ids

vars == <<saved, phase, load, attempt, doc, reply, queue, script, bookings>>
tabVars == <<phase, load, attempt, doc>>

Phases == {"home", "loading", "ready", "processing", "accepted", "overlay"}

(* The parts of a page that vary: the property and the total its script    *)
(* posts, and the user its confirmation names.                             *)
Docs  == [prop : Properties, due : Int, user : Users]
NoDoc == [prop |-> NoProperty, due |-> 0, user |-> NoUser]

(* One click on the button of one page, or one navigation.                 *)
Clicks == [tab : Tabs, load : Nat, attempt : Nat]

Kinds    == {"payment", "book", "login", "logout"}
Requests == [kind  : Kinds,
             click : Clicks,
             prop  : Properties \cup {NoProperty},
             due   : Int,
             user  : SessionUsers]

Replies == [kind : {"none", "home", "success", "error"}, doc : {NoDoc}]
             \cup [kind : {"page"}, doc : Docs]
NoReply == [kind |-> "none", doc |-> NoDoc]

Rows == [user : Users, prop : Properties, total : Int, click : Clicks]

(* pc: no request; queueing for the session file it opened; holding it;    *)
(* ended but for the answer and the release of the session.                *)
Idle          == [pc |-> "idle"]
ActiveScripts == [pc   : {"blocked", "running", "done"},
                  req  : Requests,
                  file : Nat \ {0},
                  me   : SessionUsers,
                  out  : Replies]
Scripts       == {Idle} \cup ActiveScripts

TypeOK ==
  /\ saved \in [Browsers -> Seq(SessionUsers)]
  /\ phase \in [Tabs -> Phases]
  /\ load \in [Tabs -> 0..MaxLoads]
  /\ attempt \in [Tabs -> 0..MaxClicks]
  /\ doc \in [Tabs -> Docs \cup {NoDoc}]
  /\ reply \in [Tabs -> Replies]
  /\ queue \subseteq Requests
  /\ script \in [Workers -> Scripts]
  /\ bookings \in Seq(Rows)

Init ==
  /\ SessionsInit
  /\ phase = [t \in Tabs |-> "home"]
  /\ load = [t \in Tabs |-> 0]
  /\ attempt = [t \in Tabs |-> 0]
  /\ doc = [t \in Tabs |-> NoDoc]
  /\ reply = [t \in Tabs |-> NoReply]
  /\ queue = {}
  /\ script = [w \in Workers |-> Idle]
  /\ bookings = <<>>

ClickOf(t) == [tab |-> t, load |-> load[t], attempt |-> attempt[t]]

-------------------------------------------------------------------------------
(* In the browser.                                                         *)

(* Following a link or submitting a form replaces the page of the tab: an  *)
(* answer still awaited by the old page reaches nobody.                    *)
Navigate(t, kind, p, u) ==
  /\ load[t] < MaxLoads
  /\ load' = [load EXCEPT ![t] = @ + 1]
  /\ attempt' = [attempt EXCEPT ![t] = 0]
  /\ phase' = [phase EXCEPT ![t] = "loading"]
  /\ doc' = [doc EXCEPT ![t] = NoDoc]
  /\ reply' = [reply EXCEPT ![t] = NoReply]
  /\ queue' = queue \cup
       {[kind  |-> kind,
         click |-> [tab |-> t, load |-> load[t] + 1, attempt |-> 0],
         prop  |-> p, due |-> 0, user |-> u]}
  /\ UNCHANGED <<saved, script, bookings>>

OpenPayment(t, p) == Navigate(t, "payment", p, NoUser)

(* u is whose row the e-mail and password match, NoUser when nobody's do.  *)
SubmitLogin(t, u) == Navigate(t, "login", NoProperty, u)

FollowLogout(t) == Navigate(t, "logout", NoProperty, NoUser)

(* Mutation: the button stays enabled while the request is under way.      *)
handlePayment_ButtonEnabled(t) ==
  /\ phase[t] \in {"ready", "processing"}
  /\ attempt[t] < MaxClicks
  /\ phase' = [phase EXCEPT ![t] = "processing"]
  /\ queue' = queue \cup
       {[kind  |-> "book", click |-> ClickOf(t),
         prop  |-> doc[t].prop, due |-> doc[t].due, user |-> NoUser]}
  /\ UNCHANGED <<saved, load, attempt, doc, reply, script, bookings>>

(* Pay & Confirm, with the terms ticked: without them it only warns.  The  *)
(* button is disabled from here until a failure is reported.               *)
handlePayment(t) ==
  /\ phase[t] = "ready"
  /\ attempt[t] < MaxClicks
  /\ phase' = [phase EXCEPT ![t] = "processing"]
  /\ queue' = queue \cup
       {[kind  |-> "book", click |-> ClickOf(t),
         prop  |-> doc[t].prop, due |-> doc[t].due, user |-> NoUser]}
  /\ UNCHANGED <<saved, load, attempt, doc, reply, script, bookings>>

(* The answer to a navigation: the payment page, or any page without a     *)
(* Pay button (the index a redirect leads to, an error text).              *)
RenderPage(t) ==
  /\ phase[t] = "loading"
  /\ reply[t].kind \in {"page", "home", "error"}
  /\ phase' = [phase EXCEPT ![t] = IF reply[t].kind = "page" THEN "ready"
                                                             ELSE "home"]
  /\ doc' = [doc EXCEPT ![t] = reply[t].doc]
  /\ reply' = [reply EXCEPT ![t] = NoReply]
  /\ UNCHANGED <<saved, load, attempt, queue, script, bookings>>

(* data.status === 'success': the overlay is due in half a second and the  *)
(* button stays disabled.                                                  *)
BookingAccepted(t) ==
  /\ phase[t] = "processing"
  /\ reply[t].kind = "success"
  /\ phase' = [phase EXCEPT ![t] = "accepted"]
  /\ reply' = [reply EXCEPT ![t] = NoReply]
  /\ UNCHANGED <<saved, load, attempt, doc, queue, script, bookings>>

(* Mutation: the button is enabled again when the overlay goes up.         *)
ShowOverlay_ButtonEnabled(t) ==
  /\ phase[t] = "accepted"
  /\ phase' = [phase EXCEPT ![t] = "ready"]
  /\ UNCHANGED <<saved, load, attempt, doc, reply, queue, script, bookings>>

ShowOverlay(t) ==
  /\ phase[t] = "accepted"
  /\ phase' = [phase EXCEPT ![t] = "overlay"]
  /\ UNCHANGED <<saved, load, attempt, doc, reply, queue, script, bookings>>

(* Mutation: after a failure the button stays disabled and spinning.       *)
Alert_ButtonDisabled(t) ==
  /\ phase[t] = "processing"
  /\ reply' = [reply EXCEPT ![t] = NoReply]
  /\ UNCHANGED <<saved, phase, load, attempt, doc, queue, script, bookings>>

(* Both failure branches say so and enable the button again.               *)
Alert(t) ==
  /\ phase[t] = "processing"
  /\ phase' = [phase EXCEPT ![t] = "ready"]
  /\ attempt' = [attempt EXCEPT ![t] = @ + 1]
  /\ reply' = [reply EXCEPT ![t] = NoReply]
  /\ UNCHANGED <<saved, load, doc, queue, script, bookings>>

BookingRefused(t) == reply[t].kind = "error" /\ Alert(t)

(* The connection breaks before the answer is in, whatever became of the   *)
(* request; the promise of fetch() is rejected.                            *)
FetchFails(t) == reply[t] = NoReply /\ Alert(t)

NavigationFails(t) ==
  /\ phase[t] = "loading"
  /\ reply[t] = NoReply
  /\ phase' = [phase EXCEPT ![t] = "home"]
  /\ UNCHANGED <<saved, load, attempt, doc, reply, queue, script, bookings>>

-------------------------------------------------------------------------------
(* On the server.                                                          *)

Active(w) == script[w].pc # "idle"
BrowserOfScript(w) == BrowserOf[script[w].req.click.tab]

(* Two scripts work on the same session file.                              *)
SameFile(v, w) == /\ Active(v)
                  /\ Active(w)
                  /\ BrowserOfScript(v) = BrowserOfScript(w)
                  /\ script[v].file = script[w].file

(* A script has its session file from session_start() to its end;          *)
(* session_destroy() gives it up at once.                                  *)
Holds(w) == \/ script[w].pc = "running"
            \/ script[w].pc = "done" /\ script[w].req.kind # "logout"

(* A worker takes a request and its script opens the session file.         *)
Accept(w, r) ==
  /\ ~Active(w)
  /\ r \in queue
  /\ queue' = queue \ {r}
  /\ script' = [script EXCEPT ![w] =
       [pc |-> "blocked", req |-> r, file |-> CurrentFile(BrowserOf[r.click.tab]),
        me |-> NoUser, out |-> NoReply]]
  /\ UNCHANGED <<saved, tabVars, reply, bookings>>

(* Mutation: the session is read without waiting for its lock.             *)
StartSession_NoLock(w) ==
  /\ script[w].pc = "blocked"
  /\ script' = [script EXCEPT
       ![w].pc = "running",
       ![w].me = saved[BrowserOfScript(w)][script[w].file]]
  /\ UNCHANGED <<saved, tabVars, reply, queue, bookings>>

(* session_start() returns with the lock and the contents of the file.     *)
StartSession(w) ==
  /\ script[w].pc = "blocked"
  /\ \A v \in Workers : ~(Holds(v) /\ SameFile(v, w))
  /\ script' = [script EXCEPT
       ![w].pc = "running",
       ![w].me = saved[BrowserOfScript(w)][script[w].file]]
  /\ UNCHANGED <<saved, tabVars, reply, queue, bookings>>

(* The script of w has run to its end: the session it leaves and what it   *)
(* answers.                                                                *)
Ends(w, me, kind, d) ==
  script' = [script EXCEPT ![w].pc = "done", ![w].me = me,
                           ![w].out = [kind |-> kind, doc |-> d]]

Runs(w, kind) == script[w].pc = "running" /\ script[w].req.kind = kind

(* die() of database_connect.php, or an exception of mysqli.               *)
DatabaseFails(w) ==
  /\ script[w].pc = "running"
  /\ script[w].req.kind # "logout"
  /\ Ends(w, script[w].me, "error", NoDoc)
  /\ UNCHANGED <<saved, tabVars, reply, queue, bookings>>

(* Mutation: the page is printed for whoever asks, without the guard on    *)
(* $_SESSION["user_id"].                                                   *)
RunPayment_NoGuard(w) ==
  LET me == script[w].me
      p  == script[w].req.prop
  IN /\ Runs(w, "payment")
     /\ IF p \in Listed
          THEN Ends(w, me, "page",
                    [prop |-> p, due |-> TotalDue(Rent[p]), user |-> me])
          ELSE Ends(w, me, "home", NoDoc)
     /\ UNCHANGED <<saved, tabVars, reply, queue, bookings>>

RunPayment(w) ==
  LET me == script[w].me
      p  == script[w].req.prop
  IN /\ Runs(w, "payment")
     /\ IF me \in Users /\ p \in Listed
          THEN Ends(w, me, "page",
                    [prop |-> p, due |-> TotalDue(Rent[p]), user |-> me])
          ELSE Ends(w, me, "home", NoDoc)
     /\ UNCHANGED <<saved, tabVars, reply, queue, bookings>>

(* Wrong credentials leave whoever was logged in logged in.                *)
RunLogin(w) ==
  LET u == script[w].req.user
  IN /\ Runs(w, "login")
     /\ Ends(w, IF u \in Users THEN u ELSE script[w].me, "home", NoDoc)
     /\ UNCHANGED <<saved, tabVars, reply, queue, bookings>>

RunLogout(w) ==
  /\ Runs(w, "logout")
  /\ DestroySession(BrowserOfScript(w))
  /\ Ends(w, NoUser, "home", NoDoc)
  /\ UNCHANGED <<tabVars, reply, queue, bookings>>

(* Mutation: the row carries the rent the server knows, not the total      *)
(* posted.                                                                 *)
InsertBooking_RentOnly(w) ==
  LET r == script[w].req
  IN bookings' = Append(bookings, [user |-> script[w].me, prop |-> r.prop,
                                   total |-> Rent[r.prop], click |-> r.click])

(* The INSERT of api/book_property.php, committed on its own.              *)
InsertBooking(w) ==
  LET r == script[w].req
  IN bookings' = Append(bookings, [user |-> script[w].me, prop |-> r.prop,
                                   total |-> r.due, click |-> r.click])

BookingAllowed(w) == script[w].me \in Users /\ script[w].req.due # 0

(* The last disjunct: the row is in, but the connection to the database    *)
(* breaks before the script hears of it.                                   *)
RunBook(w) ==
  /\ Runs(w, "book")
  /\ \/ /\ ~BookingAllowed(w)
        /\ Ends(w, script[w].me, "error", NoDoc)
        /\ UNCHANGED bookings
     \/ /\ BookingAllowed(w)
        /\ InsertBooking(w)
        /\ Ends(w, script[w].me, "success", NoDoc)
     \/ /\ BookingAllowed(w)
        /\ InsertBooking(w)
        /\ Ends(w, script[w].me, "error", NoDoc)
  /\ UNCHANGED <<saved, tabVars, reply, queue>>

(* Mutation: an answer is taken by whatever page the tab shows.            *)
Awaited_AnyPage(r) == phase[r.click.tab] \in {"loading", "processing"}

(* The tab still shows the page that sent the request and waits for it.    *)
Awaited(r) == /\ phase[r.click.tab] \in {"loading", "processing"}
              /\ ClickOf(r.click.tab) = r.click

(* The answer leaves, the session is written and its lock released, and    *)
(* the worker is free again.                                               *)
Finish(w) ==
  LET s == script[w]
  IN /\ s.pc = "done"
     /\ script' = [script EXCEPT ![w] = Idle]
     /\ reply' = IF Awaited(s.req) THEN [reply EXCEPT ![s.req.click.tab] = s.out]
                                   ELSE reply
     /\ IF Holds(w) THEN SaveSession(BrowserOfScript(w), s.file, s.me)
                    ELSE UNCHANGED saved
     /\ UNCHANGED <<tabVars, queue, bookings>>

(* The web server is closed and started again: requests and scripts are    *)
(* gone, what they committed or saved stays.                               *)
Restart ==
  /\ queue' = {}
  /\ script' = [w \in Workers |-> Idle]
  /\ UNCHANGED <<saved, tabVars, reply, bookings>>

-------------------------------------------------------------------------------
BrowserStep(t) ==
  \/ \E p \in Properties : OpenPayment(t, p)
  \/ \E u \in SessionUsers : SubmitLogin(t, u)
  \/ FollowLogout(t)
  \/ handlePayment(t)
  \/ RenderPage(t)
  \/ BookingAccepted(t)
  \/ ShowOverlay(t)
  \/ BookingRefused(t)
  \/ FetchFails(t)
  \/ NavigationFails(t)

Run(w) == \/ DatabaseFails(w)
          \/ RunPayment(w)
          \/ RunLogin(w)
          \/ RunLogout(w)
          \/ RunBook(w)

ServerStep(w) ==
  \/ \E r \in queue : Accept(w, r)
  \/ StartSession(w)
  \/ Run(w)
  \/ Finish(w)

Next ==
  \/ \E t \in Tabs : BrowserStep(t)
  \/ \E w \in Workers : ServerStep(w)
  \/ Restart

(* Nothing of the exchange the tab waits for is left on the server.        *)
Lost(t) == /\ \A r \in queue : ~(Awaited(r) /\ r.click.tab = t)
           /\ \A w \in Workers :
                ~(Active(w) /\ Awaited(script[w].req) /\ script[w].req.click.tab = t)

(* The server works off its requests, the lock of a session is granted to  *)
(* each script that keeps asking, the browser hands answers to the page    *)
(* and gives up an exchange that is lost.  Nobody has to click anything,   *)
(* and no connection or database has to fail.                              *)
Fairness ==
  /\ \A t \in Tabs :
       /\ WF_vars(RenderPage(t))
       /\ WF_vars(BookingAccepted(t))
       /\ WF_vars(BookingRefused(t))
       /\ WF_vars(ShowOverlay(t))
       /\ WF_vars(Lost(t) /\ FetchFails(t))
       /\ WF_vars(Lost(t) /\ NavigationFails(t))
       /\ SF_vars(\E w \in Workers, r \in queue : r.click.tab = t /\ Accept(w, r))
  /\ \A w \in Workers :
       /\ SF_vars(StartSession(w))
       /\ WF_vars(Run(w))
       /\ WF_vars(Finish(w))

Spec     == Init /\ [][Next]_vars
FairSpec == Spec /\ Fairness

-------------------------------------------------------------------------------
RowsOf(c) == {i \in DOMAIN bookings : bookings[i].click = c}

(* However requests, retries and restarts interleave, a click on Pay &     *)
(* Confirm never leaves two rows in the bookings table: book_property.php  *)
(* has no idempotency key, the page alone must not send a click twice.     *)
OneRowPerClick ==
  \A i, j \in DOMAIN bookings : bookings[i].click = bookings[j].click => i = j

(* The rows a page has caused are at most its failed clicks and the one    *)
(* under way: who books twice from a page was told of a failure in         *)
(* between, the disabled button sees to it.                                *)
DuplicatesOnlyAfterAlerts ==
  \A t \in Tabs :
    Cardinality({i \in DOMAIN bookings : /\ bookings[i].click.tab = t
                                         /\ bookings[i].click.load = load[t]})
      <= attempt[t] + (IF phase[t] \in {"processing", "accepted", "overlay"}
                         THEN 1 ELSE 0)

(* "Your booking for X is confirmed" appears only over a row for that      *)
(* property and for the total the page showed.                             *)
ConfirmedMeansRecorded ==
  \A t \in Tabs :
    phase[t] \in {"accepted", "overlay"} =>
      \E i \in RowsOf(ClickOf(t)) : /\ bookings[i].prop = doc[t].prop
                                    /\ bookings[i].total = doc[t].due

(* A script that runs is alone on its session file, and what it read there *)
(* at its start is what the file still holds: no login or logout of        *)
(* another tab of the browser gets between the check of user_id and its    *)
(* use.                                                                    *)
SessionStableWhileHeld ==
  \A w \in Workers : script[w].pc = "running" =>
    /\ script[w].me = saved[BrowserOfScript(w)][script[w].file]
    /\ \A v \in Workers : v # w /\ SameFile(v, w) => ~Holds(v)

(* Rows are only ever added, one at a time, for the user whom the session  *)
(* file of the running script names at that very moment, at three rents    *)
(* and the fee for a listed property.                                      *)
LedgerGrowsForSessionUser ==
  [][bookings' # bookings =>
       \E w \in Workers, u \in Users :
         LET r == script[w].req
         IN /\ Active(w)
            /\ saved[BrowserOfScript(w)][script[w].file] = u
            /\ r.prop \in Listed
            /\ bookings' = Append(bookings,
                 [user |-> u, prop |-> r.prop, total |-> TotalDue(Rent[r.prop]),
                  click |-> r.click])]_vars

(* A click on Pay & Confirm is answered: the page does not spin for ever.  *)
EveryClickIsAnswered ==
  \A t \in Tabs : phase[t] = "processing" ~> phase[t] # "processing"

(* payment.php:398 invites to try again because the booking failed, and    *)
(* payment.php:404 blames the connection: then nothing should have been    *)
(* booked by the clicks so answered.                                       *)
FailureMeansNotBooked ==
  \A t \in Tabs : phase[t] = "ready" =>
    \A i \in DOMAIN bookings :
      ~(bookings[i].click.tab = t /\ bookings[i].click.load = load[t])

(* payment.php:342 names the booker to whose e-mail the confirmation goes: *)
(* the row should be that user's.                                          *)
ConfirmationNamesTheBooker ==
  \A t \in Tabs : phase[t] = "overlay" =>
    \A i \in RowsOf(ClickOf(t)) : bookings[i].user = doc[t].user
-------------------------------------------------------------------------------
(* The scripts and pages keep the promise of BookingLedger: its pending    *)
(* submissions are the booking requests no script has run yet, wherever    *)
(* they are, its ledger is the table, and its confirmations are on the     *)
(* pages that wait for or show the overlay.                                *)
Unserved == {r \in queue : r.kind = "book"} \cup
            {script[w].req : w \in {v \in Workers :
               script[v].pc \in {"blocked", "running"} /\ script[v].req.kind = "book"}}

Confirmed == {ClickOf(t) : t \in {s \in Tabs : phase[s] \in {"accepted", "overlay"}}}

Ledger == INSTANCE BookingLedger WITH
            Price   <- [p \in Properties |-> TotalDue(Rent[p])],
            pending <- {[click |-> r.click, prop |-> r.prop] : r \in Unserved},
            ledger  <- bookings,
            shown   <- Confirmed

LedgerKept == Ledger!Spec
===============================================================================

------------------------------ MODULE PostProperty ----------------------------
(***************************************************************************)
(* Listing a property: the form of add_property.php in the browsers of     *)
(* several owners, and the script api/add_property_submit.php that answers *)
(* it.  The script inserts the property and then its amenities in two      *)
(* statements that are committed one by one, so a failure in between       *)
(* leaves the first without the second, and the scripts of different       *)
(* owners interleave there.                                                *)
(*                                                                         *)
(* An owner's scripts share a session and take turns: from session_start() *)
(* to its end a script holds the session lock, which therefore is held     *)
(* while a script is between its two INSERTs.  Booking models sessions in  *)
(* more detail.                                                            *)
(***************************************************************************)
EXTENDS Integers, Sequences, FiniteSets

CONSTANTS Owners,    \* one browser and one tab each
          Rents,     \* what an owner may type into the number field
          MaxRent,   \* the largest value of the column: decimal(10,2)
          NoRent,
          MaxTries,  \* bound: submissions per owner
          MaxSent,   \* bound: submissions of all owners
          Throws,    \* mysqli reports errors by exceptions, as from PHP 8.1
          Strict,    \* sql_mode holds STRICT_TRANS_TABLES (MariaDB's default)
          MayFail    \* connections and servers may fail

ASSUME PostAssumption ==
  /\ Rents \subseteq Int
  /\ MaxRent \in Nat
  /\ NoRent \notin Rents
  /\ MaxTries \in Nat
  /\ MaxSent \in Nat
  /\ Throws \in BOOLEAN
  /\ Strict \in BOOLEAN
  /\ MayFail \in BOOLEAN

VARIABLES loggedIn,  \* the owner's session has a user_id
          page,      \* what the owner's tab shows
          tries,     \* submissions of each owner so far
          opened,    \* those sent before the form now shown was opened
          alerts,    \* failures reported over that form
          script,    \* the run of the script for each submission
          listings,  \* table properties, in the order of its ids
          amenities  \* the property ids that have rows in properties_amenities

vars == <<loggedIn, page, tries, opened, alerts, script, listings, amenities>>
pageVars == <<page, tries, opened, alerts>>

Submissions == Owners \X (1..MaxTries)

(* pc: not sent; before the INSERT of the property; between the INSERTs;   *)
(* ended, with its answer.  id is its mysqli_insert_id().  Of the answers  *)
(* "broken" is any the page cannot parse, and none at all.                 *)
Unsent      == [pc |-> "unsent"]
Refusals    == {"login", "missing", "error", "broken"}
Answers     == {"none", "listed"} \cup Refusals
SentScripts == [pc : {"sent", "inserted", "ended"}, rent : Rents, id : Nat, out : Answers]
Scripts     == {Unsent} \cup SentScripts

(* by is not a column: the submission that inserted the row.               *)
Rows == [by : Submissions, rent : Int]

TypeOK ==
  /\ loggedIn \in [Owners -> BOOLEAN]
  /\ page \in [Owners -> {"away", "form", "submitting", "detail"}]
  /\ tries \in [Owners -> 0..MaxTries]
  /\ opened \in [Owners -> 0..MaxTries]
  /\ alerts \in [Owners -> 0..MaxTries]
  /\ script \in [Submissions -> Scripts]
  /\ listings \in Seq(Rows)
  /\ amenities \subseteq DOMAIN listings

Init ==
  /\ loggedIn \in [Owners -> BOOLEAN]
  /\ page = [o \in Owners |-> "away"]
  /\ tries = [o \in Owners |-> 0]
  /\ opened = [o \in Owners |-> 0]
  /\ alerts = [o \in Owners |-> 0]
  /\ script = [s \in Submissions |-> Unsent]
  /\ listings = <<>>
  /\ amenities = {}

Latest(o) == <<o, tries[o]>>

MoreMaySubmit == Cardinality({s \in Submissions : script[s].pc # "unsent"}) < MaxSent

(* A script of the owner holds the session.                                *)
Locked(o) == \E n \in 1..MaxTries : script[<<o, n>>].pc = "inserted"

-------------------------------------------------------------------------------
(* In the browser.                                                         *)

(* The owner logs in or out in another tab.                                *)
SwitchLogin(o) ==
  /\ ~Locked(o)
  /\ loggedIn' = [loggedIn EXCEPT ![o] = ~@]
  /\ UNCHANGED <<pageVars, script, listings, amenities>>

(* Following a link to the form, or reloading it, drops the answer the old *)
(* page waits for; nobody logged in is sent to the index.                  *)
OpenForm(o) ==
  /\ ~Locked(o)
  /\ page' = [page EXCEPT ![o] = IF loggedIn[o] THEN "form" ELSE "away"]
  /\ opened' = [opened EXCEPT ![o] = tries[o]]
  /\ alerts' = [alerts EXCEPT ![o] = 0]
  /\ UNCHANGED <<loggedIn, tries, script, listings, amenities>>

(* Mutation: the button is not disabled while an answer is awaited.        *)
Submit_ButtonEnabled(o, rent) ==
  /\ page[o] \in {"form", "submitting"}
  /\ tries[o] < MaxTries
  /\ MoreMaySubmit
  /\ page' = [page EXCEPT ![o] = "submitting"]
  /\ tries' = [tries EXCEPT ![o] = @ + 1]
  /\ script' = [script EXCEPT ![<<o, tries[o] + 1>>] =
       [pc |-> "sent", rent |-> rent, id |-> 0, out |-> "none"]]
  /\ UNCHANGED <<loggedIn, opened, alerts, listings, amenities>>

(* Publish Property, with every field of the form filled in: the browser   *)
(* sends it no sooner.  The button is disabled until a failure is told.    *)
Submit(o, rent) ==
  /\ page[o] = "form"
  /\ tries[o] < MaxTries
  /\ MoreMaySubmit
  /\ page' = [page EXCEPT ![o] = "submitting"]
  /\ tries' = [tries EXCEPT ![o] = @ + 1]
  /\ script' = [script EXCEPT ![<<o, tries[o] + 1>>] =
       [pc |-> "sent", rent |-> rent, id |-> 0, out |-> "none"]]
  /\ UNCHANGED <<loggedIn, opened, alerts, listings, amenities>>

(* "Property Listed Successfully!", and on to the page of the property.    *)
Succeed(o) ==
  /\ page[o] = "submitting"
  /\ script[Latest(o)].pc = "ended"
  /\ script[Latest(o)].out = "listed"
  /\ page' = [page EXCEPT ![o] = "detail"]
  /\ UNCHANGED <<loggedIn, tries, opened, alerts, script, listings, amenities>>

(* The message of the script, or "Connection error", and the button is     *)
(* enabled again.                                                          *)
Alert(o) ==
  /\ page[o] = "submitting"
  /\ page' = [page EXCEPT ![o] = "form"]
  /\ alerts' = [alerts EXCEPT ![o] = @ + 1]
  /\ UNCHANGED <<loggedIn, tries, opened, script, listings, amenities>>

(* Mutation: no catch() after the then()s, so that only what parses is     *)
(* told.                                                                   *)
Refused_NoCatch(o) ==
  /\ page[o] = "submitting"
  /\ script[Latest(o)].pc = "ended"
  /\ script[Latest(o)].out \in Refusals \ {"broken"}
  /\ Alert(o)

Refused(o) ==
  /\ page[o] = "submitting"
  /\ script[Latest(o)].pc = "ended"
  /\ script[Latest(o)].out \in Refusals
  /\ Alert(o)

(* The connection breaks, whatever becomes of the script.                  *)
FetchFails(o) == MayFail /\ Alert(o)

-------------------------------------------------------------------------------
(* On the server.                                                          *)

Ends(s, answer) ==
  script' = [script EXCEPT ![s] = [@ EXCEPT !.pc = "ended", !.out = answer]]

(* A statement the database refuses or does not answer.                    *)
DatabaseError == IF Throws THEN "broken" ELSE "error"

(* What the column makes of a rent, if it takes it at all.                 *)
Fits(rent)       == rent \in -MaxRent..MaxRent
StoredRent(rent) == IF rent > MaxRent THEN MaxRent
                    ELSE IF rent < -MaxRent THEN -MaxRent ELSE rent

Insertable(rent) == Strict => Fits(rent)

(* Mutation: the row is not committed on its own.                          *)
AddProperty_Uncommitted(s) == listings' = listings

AddProperty(s) ==
  listings' = Append(listings, [by |-> s, rent |-> StoredRent(script[s].rent)])

(* The guards of the script before its first statement.  Of the rents that *)
(* are zero PHP takes "0" for a missing one, but not "00" or "-0".         *)
Refuse(s) ==
  /\ script[s].pc = "sent"
  /\ ~Locked(s[1])
  /\ \/ ~loggedIn[s[1]] /\ Ends(s, "login")
     \/ loggedIn[s[1]] /\ script[s].rent = 0 /\ Ends(s, "missing")
  /\ UNCHANGED <<loggedIn, pageVars, listings, amenities>>

(* The INSERT INTO properties, up to mysqli_insert_id().  The last         *)
(* disjunct: the row is in, but the connection to the database breaks      *)
(* before the script hears of it.                                          *)
InsertProperty(s) ==
  LET rent == script[s].rent
  IN /\ script[s].pc = "sent"
     /\ ~Locked(s[1])
     /\ loggedIn[s[1]]
     /\ \/ ~Insertable(rent) /\ Ends(s, DatabaseError) /\ UNCHANGED listings
        \/ /\ Insertable(rent)
           /\ AddProperty(s)
           /\ script' = [script EXCEPT ![s] =
                [@ EXCEPT !.pc = "inserted", !.id = Len(listings) + 1]]
        \/ MayFail /\ Insertable(rent) /\ AddProperty(s) /\ Ends(s, DatabaseError)
     /\ UNCHANGED <<loggedIn, pageVars, amenities>>

(* Mutation: the id is taken from the table (its largest) when the         *)
(* amenities are inserted.                                                 *)
InsertAmenities_LargestId(s) ==
  /\ script[s].pc = "inserted"
  /\ \/ amenities' = amenities \cup {Len(listings)} /\ Ends(s, "listed")
     \/ /\ MayFail
        /\ amenities' \in {amenities, amenities \cup {Len(listings)}}
        /\ Ends(s, IF Throws THEN "broken" ELSE "listed")
  /\ UNCHANGED <<loggedIn, pageVars, listings>>

(* The INSERT INTO properties_amenities, one statement for both rows,      *)
(* whose result is not looked at: only an exception changes the answer.    *)
InsertAmenities(s) ==
  /\ script[s].pc = "inserted"
  /\ \/ amenities' = amenities \cup {script[s].id} /\ Ends(s, "listed")
     \/ /\ MayFail
        /\ amenities' \in {amenities, amenities \cup {script[s].id}}
        /\ Ends(s, IF Throws THEN "broken" ELSE "listed")
  /\ UNCHANGED <<loggedIn, pageVars, listings>>

(* No connection, or none any more when the INSERT is sent.                *)
DatabaseFails(s) ==
  /\ MayFail
  /\ script[s].pc = "sent"
  /\ ~Locked(s[1])
  /\ \/ Ends(s, "broken")
     \/ loggedIn[s[1]] /\ Ends(s, DatabaseError)
  /\ UNCHANGED <<loggedIn, pageVars, listings, amenities>>

(* The web server is closed: its scripts are gone, their rows stay.        *)
Restart ==
  /\ MayFail
  /\ script' = [s \in Submissions |->
       IF script[s].pc \in {"sent", "inserted"}
         THEN [script[s] EXCEPT !.pc = "ended", !.out = "broken"]
         ELSE script[s]]
  /\ UNCHANGED <<loggedIn, pageVars, listings, amenities>>

-------------------------------------------------------------------------------
BrowserStep(o) ==
  \/ SwitchLogin(o)
  \/ OpenForm(o)
  \/ \E rent \in Rents : Submit(o, rent)
  \/ Succeed(o)
  \/ Refused(o)
  \/ FetchFails(o)

Starts(s) == Refuse(s) \/ InsertProperty(s) \/ DatabaseFails(s)

Next ==
  \/ \E o \in Owners : BrowserStep(o)
  \/ \E s \in Submissions : Starts(s) \/ InsertAmenities(s)
  \/ Restart

(* The server runs what it was sent, lets a script have its session that   *)
(* keeps asking for it, and the browser hands the answer to the page.      *)
Fairness ==
  /\ \A s \in Submissions : SF_vars(Starts(s)) /\ WF_vars(InsertAmenities(s))
  /\ \A o \in Owners : WF_vars(Succeed(o)) /\ WF_vars(Refused(o))

Spec     == Init /\ [][Next]_vars
FairSpec == Spec /\ Fairness

-------------------------------------------------------------------------------
(* The listings that clicks on the form now shown have left.               *)
FromForm(o) ==
  {i \in DOMAIN listings : listings[i].by[1] = o /\ listings[i].by[2] > opened[o]}

(* A form leaves at most one listing more than it has reported failures:   *)
(* add_property_submit.php has nothing to tell a repeated form by, and     *)
(* only the disabled button keeps an impatient owner from listing twice.   *)
RelistedOnlyAfterAlerts ==
  \A o \in Owners :
    Cardinality(FromForm(o))
      <= alerts[o] + (IF page[o] \in {"submitting", "detail"} THEN 1 ELSE 0)

(* Where mysqli throws and the server is strict, who is told "Property     *)
(* Listed Successfully!" and sent to the page of the property finds there  *)
(* his own listing, at the very rent he asked for, with its amenities,     *)
(* however the scripts of others interleave between the two INSERTs        *)
(* (add_property_submit.php:37-43).                                        *)
ToldListedIsOwnAndFurnished ==
  \A o \in Owners : page[o] = "detail" =>
    LET s == Latest(o)
    IN /\ script[s].id \in amenities
       /\ listings[script[s].id] = [by |-> s, rent |-> script[s].rent]

(* Publish Property is answered: the page does not say Submitting for ever.*)
EverySubmitIsAnswered ==
  \A o \in Owners : page[o] = "submitting" ~> page[o] # "submitting"

-------------------------------------------------------------------------------
(* Pages and scripts keep the promise of Listings.                         *)
AskedRent ==
  [s \in Submissions |-> IF script[s].pc = "unsent" THEN NoRent ELSE script[s].rent]

OnSale == {listings[i] : i \in DOMAIN listings}

Furnished == {listings[i].by : i \in amenities}

Verdicts ==
  [s \in Submissions |->
     IF script[s].pc # "ended" THEN "none"
     ELSE IF script[s].out = "listed" THEN "listed" ELSE "failed"]

Catalogue == INSTANCE Listings WITH
               asked <- AskedRent, onSale <- OnSale,
               furnished <- Furnished, verdict <- Verdicts

CatalogueKept == Catalogue!Spec
===============================================================================

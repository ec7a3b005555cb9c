------------------------------ MODULE SchemaImport ----------------------------
(***************************************************************************)
(* pglife.sql, imported statement by statement into the database of a site *)
(* that may be in use: each of seven tables is dropped, created and filled *)
(* with sample rows, and the statement that should create the eighth,      *)
(* bookings, is malformed.  The client that runs the file stops at the     *)
(* first statement the server refuses, as mysql and phpMyAdmin do, and may *)
(* be killed; the import can be started again.                             *)
(*                                                                         *)
(* A row keeps its id and the ids it refers to.  What it is (a sample, a   *)
(* visitor's account or property) and what its references meant when it    *)
(* was made are not columns: they tell a row from a later one that got its *)
(* id.                                                                     *)
(***************************************************************************)
EXTENDS Integers, Sequences, FiniteSets

CONSTANTS Visitors,
          Samples,    \* sample rows of a table that others refer to
          MaxImports, \* bound: imports started
          MaxMade     \* bound: properties listed and bookings made by each visitor

ASSUME SchemaAssumption ==
  /\ Samples \in Nat \ {0}
  /\ MaxImports \in Nat
  /\ MaxMade \in Nat

VARIABLES db,      \* the tables
          import,  \* the statement the last import is at, or ended at
          imports, \* imports started so far
          outcome, \* none yet, the last import is running, or how it ended
          quiet,   \* no script of the site ran beside the last import
          session, \* the account a visitor's session was logged in to
          page,    \* the property the visitor's payment page was printed for
          pending, \* the property whose amenities are still to be inserted
          made     \* properties listed and bookings made by each visitor

vars == <<db, import, imports, outcome, quiet, session, page, pending, made>>
siteVars == <<session, page, pending, made>>
importVars == <<import, imports, outcome>>

(* Mutation: the table of properties follows the one that refers to it.    *)
Seeded_ChildrenFirst ==
  <<"cities", "users", "amenities", "properties_amenities", "properties",
    "interested_users_properties", "testimonials">>

(* Mutation: a table is forgotten.                                         *)
Seeded_WithoutAmenities ==
  <<"cities", "users", "properties", "amenities", "interested_users_properties",
    "testimonials">>

(* The tables in the order of the file.                                    *)
Seeded ==
  <<"cities", "users", "properties", "amenities", "properties_amenities",
    "interested_users_properties", "testimonials">>

SeededTables == {"cities", "users", "properties", "amenities", "properties_amenities",
                 "interested_users_properties", "testimonials"}

Tables == SeededTables \cup {"bookings"}

(* The tables whose ids a row of t refers to by foreign keys.              *)
Parents(t) == CASE t = "properties" -> {"cities"}
                [] t = "properties_amenities" -> {"properties", "amenities"}
                [] t \in {"interested_users_properties", "bookings"} -> {"users", "properties"}
                [] t = "testimonials" -> {"properties"}
                [] OTHER -> {}

Absent == [there |-> FALSE, rows |-> {}, auto |-> 1]
Empty  == [there |-> TRUE, rows |-> {}, auto |-> 1]

(* What a row may be: <<"sample", n>>, or of a visitor the account, the    *)
(* properties and the rest.                                                *)
Things == {<<"sample", n>> : n \in 1..Samples} \cup (Visitors \X (0..MaxMade))
Refs == [id : Nat \ {0}, is : Things]
Nothing == [id |-> 0, is |-> <<"sample", 0>>]

Sample(t, n) ==
  [id |-> n, is |-> <<"sample", n>>,
   to |-> [p \in Parents(t) |-> [id |-> n, is |-> <<"sample", n>>]]]

SampleRows(t) == {Sample(t, n) : n \in 1..Samples}

Filled(t) == [there |-> TRUE, rows |-> SampleRows(t), auto |-> Samples + 1]

(* The last statement, which comes after the tables' three each and those  *)
(* of indexes and views.                                                   *)
BookingsStatement == 3 * Len(Seeded) + 2

TypeOK ==
  /\ \A t \in Tables :
       /\ ~db[t].there => db[t] = Absent
       /\ db[t].auto \in Nat
       /\ \A r \in db[t].rows : /\ r.id \in 1..(db[t].auto - 1)
                                /\ r.is \in Things
                                /\ r.to \in [Parents(t) -> Refs]
       /\ \A r, q \in db[t].rows : r.id = q.id => r = q
  /\ import \in 0..BookingsStatement
  /\ imports \in 0..MaxImports
  /\ outcome \in {"none", "running", "failed", "killed"}
  /\ quiet \in BOOLEAN
  /\ session \in [Visitors -> Refs \cup {Nothing}]
  /\ page \in [Visitors -> Refs \cup {Nothing}]
  /\ pending \in [Visitors -> Refs \cup {Nothing}]
  /\ made \in [Visitors -> 0..MaxMade]

(* Before the first import: a database without tables, or the one bundled  *)
(* with the site, which has them all.                                      *)
Init ==
  /\ \/ db = [t \in Tables |-> Absent]
     \/ db = [t \in Tables |-> IF t = "bookings" THEN Empty ELSE Filled(t)]
  /\ import = 0
  /\ imports = 0
  /\ outcome = "none"
  /\ quiet = TRUE
  /\ session = [v \in Visitors |-> Nothing]
  /\ page = [v \in Visitors |-> Nothing]
  /\ pending = [v \in Visitors |-> Nothing]
  /\ made = [v \in Visitors |-> 0]

-------------------------------------------------------------------------------
(* The import.                                                             *)

Running == outcome = "running"

Start ==
  /\ ~Running
  /\ imports < MaxImports
  /\ import' = 1
  /\ imports' = imports + 1
  /\ outcome' = "running"
  /\ quiet' = \A v \in Visitors : pending[v] = Nothing
  /\ UNCHANGED <<db, siteVars>>

(* Some table that is there has foreign keys to t.                         *)
Referenced(t) == \E c \in Tables \ {t} : db[c].there /\ t \in Parents(c)

(* Mutation: foreign key checks are left on.                               *)
MayDrop_ChecksOn(t) == ~Referenced(t)

(* With FOREIGN_KEY_CHECKS = 0 a table is dropped under its children.      *)
MayDrop(t) == TRUE

(* Mutation: the samples come without their ids.                           *)
HasIds_None(t) == FALSE

(* The samples others refer to come with their ids.                        *)
HasIds(t) == t \in {"cities", "users", "properties", "amenities"}

HasId(t, id) == \E r \in db[t].rows : r.id = id

(* Mutation: the ids are not the tables' primary keys.                     *)
MaySeed_NoKey(t) == TRUE

MaySeed(t) == HasIds(t) => \A n \in 1..Samples : ~HasId(t, n)

(* One INSERT of all samples; those without ids take the next there are.   *)
Seed(t) ==
  [there |-> TRUE,
   rows  |-> db[t].rows \cup
     {[r EXCEPT !.id = IF HasIds(t) THEN @ ELSE @ + db[t].auto - 1] : r \in SampleRows(t)},
   auto  |-> db[t].auto + Samples]

Advance == import' = import + 1 /\ outcome' = outcome

Stop(how) == outcome' = how /\ import' = import

(* A table's three statements.                                             *)
TableStep ==
  LET t == Seeded[(import + 2) \div 3]
      kind == import % 3
  IN /\ Running
     /\ import \in 1..(3 * Len(Seeded))
     /\ \/ /\ kind = 1
           /\ \/ MayDrop(t) /\ db' = [db EXCEPT ![t] = Absent] /\ Advance
              \/ ~MayDrop(t) /\ UNCHANGED db /\ Stop("failed")
        \/ /\ kind = 2
           /\ db' = [db EXCEPT ![t] = Empty]
           /\ Advance
        \/ /\ kind = 0
           /\ \/ MaySeed(t) /\ db' = [db EXCEPT ![t] = Seed(t)] /\ Advance
              \/ ~MaySeed(t) /\ UNCHANGED db /\ Stop("failed")
     /\ UNCHANGED <<imports, quiet, siteVars>>

(* Indexes and views, which change no row, over tables that are all there. *)
CreateIndexes ==
  /\ Running
  /\ import = 3 * Len(Seeded) + 1
  /\ Advance
  /\ UNCHANGED <<db, imports, quiet, siteVars>>

(* The CREATE TABLE of bookings has backslashes where the others have      *)
(* backquotes: it is no SQL and refused, so that every import ends here at *)
(* the latest.                                                             *)
CreateBookings ==
  /\ Running
  /\ import = BookingsStatement
  /\ Stop("failed")
  /\ UNCHANGED <<db, imports, quiet, siteVars>>

Kill ==
  /\ Running
  /\ Stop("killed")
  /\ UNCHANGED <<db, imports, quiet, siteVars>>

-------------------------------------------------------------------------------
(* The site, whose sessions check foreign keys.  A statement the server    *)
(* refuses changes nothing.                                                *)

SiteRuns == quiet' = (quiet /\ ~Running) /\ UNCHANGED importVars

MayInsert(t, to) == db[t].there /\ \A p \in Parents(t) : HasId(p, to[p].id)

NewRow(t, is, to) ==
  db' = [db EXCEPT ![t] =
    [there |-> TRUE, rows |-> @.rows \cup {[id |-> @.auto, is |-> is, to |-> to]},
     auto |-> @.auto + 1]]

(* api/signup_submit.php, for an e-mail that has no row.                   *)
SignUp(v) ==
  /\ SiteRuns
  /\ MayInsert("users", <<>>)
  /\ \A r \in db["users"].rows : r.is # <<v, 0>>
  /\ NewRow("users", <<v, 0>>, <<>>)
  /\ UNCHANGED siteVars

(* api/login_submit.php, for a visitor's own account.  Nobody logs in to a *)
(* sample's: its password is a hash, and compared as it is.                *)
LogIn(v) ==
  /\ SiteRuns
  /\ \E r \in db["users"].rows :
       /\ r.is = <<v, 0>>
       /\ session' = [session EXCEPT ![v] = [id |-> r.id, is |-> r.is]]
  /\ UNCHANGED <<db, page, pending, made>>

(* The two INSERTs of api/add_property_submit.php.                         *)
ListProperty(v) ==
  LET is == <<v, made[v] + 1>>
      to == [p \in {"cities"} |-> [id |-> 1, is |-> <<"sample", 1>>]]
  IN /\ SiteRuns
     /\ session[v] # Nothing
     /\ pending[v] = Nothing
     /\ made[v] < MaxMade
     /\ MayInsert("properties", to)
     /\ NewRow("properties", is, to)
     /\ made' = [made EXCEPT ![v] = @ + 1]
     /\ pending' = [pending EXCEPT ![v] = [id |-> db["properties"].auto, is |-> is]]
     /\ UNCHANGED <<session, page>>

(* The second may be refused, or the script may die before it: the listing *)
(* then stays without amenities.                                           *)
InsertAmenities(v) ==
  LET to == [p \in {"properties", "amenities"} |->
               IF p = "properties" THEN pending[v] ELSE [id |-> 1, is |-> <<"sample", 1>>]]
  IN /\ SiteRuns
     /\ pending[v] # Nothing
     /\ pending' = [pending EXCEPT ![v] = Nothing]
     /\ \/ /\ MayInsert("properties_amenities", to)
           /\ NewRow("properties_amenities", pending[v].is, to)
        \/ UNCHANGED db
     /\ UNCHANGED <<session, page, made>>

(* payment.php prints a property, api/book_property.php books it.          *)
OpenPayment(v) ==
  /\ SiteRuns
  /\ session[v] # Nothing
  /\ \E r \in db["properties"].rows :
       page' = [page EXCEPT ![v] = [id |-> r.id, is |-> r.is]]
  /\ UNCHANGED <<db, session, pending, made>>

Book(v) ==
  LET to == [p \in {"users", "properties"} |->
               IF p = "users" THEN session[v] ELSE page[v]]
  IN /\ SiteRuns
     /\ session[v] # Nothing
     /\ page[v] # Nothing
     /\ made[v] < MaxMade
     /\ MayInsert("bookings", to)
     /\ NewRow("bookings", <<v, made[v] + 1>>, to)
     /\ made' = [made EXCEPT ![v] = @ + 1]
     /\ UNCHANGED <<session, page, pending>>

-------------------------------------------------------------------------------
ImportStep == Start \/ TableStep \/ CreateIndexes \/ CreateBookings \/ Kill

SiteStep(v) ==
  \/ SignUp(v)
  \/ LogIn(v)
  \/ ListProperty(v)
  \/ InsertAmenities(v)
  \/ OpenPayment(v)
  \/ Book(v)

Next == ImportStep \/ \E v \in Visitors : SiteStep(v)

Spec == Init /\ [][Next]_vars

-------------------------------------------------------------------------------
(* What the last import has done so far, running or ended: table t has been *)
(* dropped, has been filled, and at the end all of the seven have been.    *)
Imported    == import > 3 * Len(Seeded)
Dropped(t)  == Imported \/ \E k \in 1..Len(Seeded) : Seeded[k] = t /\ import > 3 * k - 2
Refilled(t) == Imported \/ \E k \in 1..Len(Seeded) : Seeded[k] = t /\ import > 3 * k

(* The references of table t, each with the table it is to.                *)
References(t) == {<<p, r.to[p]>> : p \in Parents(t), r \in db[t].rows}

(* However the site, a kill and a repeated import interleave: a table that *)
(* an import has filled has all of its samples, under the ids by which     *)
(* other samples refer to them, while the import goes on and after it      *)
(* ended, early or not (pglife.sql:21-217)...                              *)
SamplesAreBack ==
  \A t \in SeededTables : Refilled(t) =>
    \A n \in 1..Samples : \E r \in db[t].rows :
      /\ r.is = <<"sample", n>>
      /\ (\E c \in Tables : t \in Parents(c)) => r.id = n

(* ...and a table that it has dropped has from then on no row that refers  *)
(* to an id nobody has, although the import runs with foreign key checks   *)
(* off (pglife.sql:15).  Tables that are still to be dropped do dangle.    *)
NothingDangles ==
  \A t \in SeededTables : Dropped(t) =>
    \A ref \in References(t) : HasId(ref[1], ref[2].id)

(* When no script of the site ran beside it, an import is refused no       *)
(* statement but that for bookings, whatever earlier ones left that were   *)
(* killed or ran beside the site (pglife.sql:21-217).                      *)
OnlyBookingsFails == quiet /\ outcome = "failed" => import = BookingsStatement

(* And then the rows of the tables it has dropped refer to what they meant *)
(* when they were made, not to a later row that got its id; rows that the  *)
(* site adds later do, too.                                                *)
ReferencesAreTrue ==
  quiet => \A t \in SeededTables : Dropped(t) =>
    \A ref \in References(t) :
      \E r \in db[ref[1]].rows : r.id = ref[2].id /\ r.is = ref[2].is

(* After an import that came to the end of the file the application can be *)
(* used: every table its scripts use is there.  pglife.sql:280-283 says    *)
(* "Database Schema Complete" and "Ready for use with PG Life              *)
(* application".                                                           *)
ReadyForUse ==
  outcome \notin {"running", "killed"} /\ import = BookingsStatement =>
    \A t \in Tables : db[t].there
===============================================================================

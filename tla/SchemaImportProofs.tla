--------------------------- MODULE SchemaImportProofs -------------------------
(***************************************************************************)
(* Theorems of SchemaImport, for any number of visitors, samples and       *)
(* imports.                                                                *)
(***************************************************************************)
EXTENDS SchemaImport, TLAPS

(* The place of a table in the file.                                       *)
Place(t) == CASE t = "cities" -> 1
              [] t = "users" -> 2
              [] t = "properties" -> 3
              [] t = "amenities" -> 4
              [] t = "properties_amenities" -> 5
              [] t = "interested_users_properties" -> 6
              [] t = "testimonials" -> 7

(* The last import is, or has ended, past the DROP of t, past its INSERT.  *)
PastDrop(t) == import > 3 * Place(t) - 2
PastFill(t) == import > 3 * Place(t)

-------------------------------------------------------------------------------
(* The inductive invariant, part by part.                                  *)

(* The value of table t.                                                   *)
TableOK(table, t) ==
  /\ table.auto \in Nat \ {0}
  /\ ~table.there => table = Absent
  /\ \A r \in table.rows : /\ r.id \in 1..(table.auto - 1)
                           /\ r.is \in Things
                           /\ r.to \in [Parents(t) -> Refs]
  /\ \A r, q \in table.rows : r.id = q.id => r = q

(* What of each visitor his session, his page or his listing is.           *)
Kept == [Visitors -> Refs \cup {Nothing}]

TypeInv ==
  /\ db = [t \in Tables |-> db[t]]
  /\ \A t \in Tables : TableOK(db[t], t)
  /\ import \in 0..23
  /\ imports \in 0..MaxImports
  /\ outcome \in {"none", "running", "failed", "killed"}
  /\ quiet \in BOOLEAN
  /\ session \in Kept /\ page \in Kept /\ pending \in Kept
  /\ made \in [Visitors -> 0..MaxMade]

SamplesIn(t) ==
  \A n \in 1..Samples :
    \E r \in db[t].rows : r.is = <<"sample", n>> /\ (HasIds(t) => r.id = n)

(* The row ref was the reference to when it was made, or one of its id.    *)
IsThere(p, ref) == \E q \in db[p].rows : q.id = ref.id /\ q.is = ref.is

NoneDangles(t) == \A r \in db[t].rows, p \in Parents(t) : HasId(p, r.to[p].id)
AllAreTrue(t)  == \A r \in db[t].rows, p \in Parents(t) : IsThere(p, r.to[p])

(* Parents come before their children in the file, so they have their      *)
(* samples before a child has a row, and keep them as long as the child    *)
(* has one.                                                                *)
FilledInv ==
  \A t \in SeededTables : /\ PastFill(t) => SamplesIn(t)
                          /\ PastDrop(t) => NoneDangles(t)

(* Beside a quiet import no table has a row before it is filled and no     *)
(* listing is half done; after it the listings begun are of rows of now.   *)
Quietly ==
  /\ outcome = "failed" => import = 23
  /\ \A t \in SeededTables :
       /\ Running /\ import = 3 * Place(t) => db[t] = Empty
       /\ PastDrop(t) => AllAreTrue(t)
  /\ Running => \A v \in Visitors : pending[v] = Nothing
  /\ \A v \in Visitors : pending[v] # Nothing => IsThere("properties", pending[v])

QuietInv == quiet => Quietly

ImportInv == TypeInv /\ FilledInv /\ QuietInv

-------------------------------------------------------------------------------
(* The tables.                                                             *)

(* The file's order puts parents, which come with their ids, before        *)
(* children.                                                               *)
LEMMA FileOrder ==
  /\ Len(Seeded) = 7
  /\ SeededTables \subseteq Tables
  /\ \A t \in SeededTables : Place(t) \in 1..7 /\ Seeded[Place(t)] = t
  /\ \A k \in 1..7 : Seeded[k] \in SeededTables /\ Place(Seeded[k]) = k
<1>1. Len(Seeded) = 7 /\ SeededTables \subseteq Tables
  BY DEF Seeded, Tables
<1>2. \A t \in SeededTables : Place(t) \in 1..7 /\ Seeded[Place(t)] = t
  BY DEF SeededTables, Seeded, Place
<1>3. \A k \in 1..7 : Seeded[k] \in SeededTables /\ Place(Seeded[k]) = k
  <2> SUFFICES ASSUME NEW k \in 1..7
               PROVE  Seeded[k] \in SeededTables /\ Place(Seeded[k]) = k
    OBVIOUS
  <2>1. k = 1 \/ k = 2 \/ k = 3 \/ k = 4 \/ k = 5 \/ k = 6 \/ k = 7
    OBVIOUS
  <2> QED  BY <2>1 DEF SeededTables, Seeded, Place
<1> QED  BY <1>1, <1>2, <1>3

LEMMA ParentsFirst ==
  \A t \in Tables : \A p \in Parents(t) :
    /\ p \in SeededTables /\ HasIds(p)
    /\ t \in SeededTables => Place(p) < Place(t)
  BY DEF Tables, SeededTables, Parents, HasIds, Place

(* What the import has done so far, by the place it is at.                 *)
LEMMA Progress ==
  ASSUME TypeInv
  PROVE  \A t \in SeededTables : /\ Dropped(t) <=> PastDrop(t)
                                 /\ Refilled(t) <=> PastFill(t)
<1> SUFFICES ASSUME NEW t \in SeededTables
             PROVE  /\ Dropped(t) <=> PastDrop(t)
                    /\ Refilled(t) <=> PastFill(t)
  OBVIOUS
<1>1. import \in Nat /\ Place(t) \in 1..7 /\ Len(Seeded) = 7
  BY FileOrder DEF TypeInv
<1>2. \A k \in 1..7 : Seeded[k] = t <=> k = Place(t)
  BY FileOrder
<1> QED  BY <1>1, <1>2 DEF Dropped, Refilled, Imported, PastDrop, PastFill

LEMMA SamplesAreThings ==
  \A n \in 1..Samples : /\ <<"sample", n>> \in Things
                        /\ [id |-> n, is |-> <<"sample", n>>] \in Refs
<1>1. \A n \in 1..Samples : <<"sample", n>> \in Things
  BY DEF Things
<1>2. 1..Samples \subseteq Nat \ {0}
  BY SchemaAssumption
<1> QED  BY <1>1, <1>2 DEF Refs

LEMMA SampleTypes ==
  ASSUME NEW t, NEW n \in 1..Samples
  PROVE  /\ Sample(t, n).id = n /\ Sample(t, n).is = <<"sample", n>>
         /\ Sample(t, n).is \in Things
         /\ Sample(t, n).to \in [Parents(t) -> Refs]
<1>1. [p \in Parents(t) |-> [id |-> n, is |-> <<"sample", n>>]] \in [Parents(t) -> Refs]
  BY SamplesAreThings
<1> QED  BY <1>1, SamplesAreThings DEF Sample

LEMMA FreshTables == \A t : TableOK(Absent, t) /\ TableOK(Empty, t)
  BY DEF TableOK, Absent, Empty

(* A row more under the next id.                                           *)
LEMMA RowAppended ==
  ASSUME NEW t, NEW table, TableOK(table, t),
         NEW is \in Things, NEW to \in [Parents(t) -> Refs]
  PROVE  TableOK([there |-> TRUE,
                  rows |-> table.rows \cup {[id |-> table.auto, is |-> is, to |-> to]},
                  auto |-> table.auto + 1], t)
  BY DEF TableOK

LEMMA FilledOK ==
  ASSUME NEW t
  PROVE  TableOK(Filled(t), t)
<1>1. \A r \in SampleRows(t) : /\ r.id \in 1..Samples
                                /\ r = Sample(t, r.id)
  BY DEF SampleRows, Sample
<1>2. \A n \in 1..Samples : /\ Sample(t, n).is \in Things
                             /\ Sample(t, n).to \in [Parents(t) -> Refs]
  BY SampleTypes
<1>3. Samples + 1 \in Nat \ {0} /\ (Samples + 1) - 1 = Samples
  BY SchemaAssumption
<1> QED  BY <1>1, <1>2, <1>3 DEF TableOK, Filled

(* The samples, with their ids or the next there are.                      *)
LEMMA SeededRows ==
  ASSUME NEW t
  PROVE  Seed(t).rows = db[t].rows \cup
           {[id |-> IF HasIds(t) THEN n ELSE n + db[t].auto - 1,
             is |-> <<"sample", n>>, to |-> Sample(t, n).to] : n \in 1..Samples}
<1> DEFINE Id(n) == IF HasIds(t) THEN n ELSE n + db[t].auto - 1
           row(n) == [id |-> Id(n), is |-> <<"sample", n>>, to |-> Sample(t, n).to]
           moved(r) == [r EXCEPT !.id = IF HasIds(t) THEN @ ELSE @ + db[t].auto - 1]
<1>1. ASSUME NEW n \in 1..Samples
      PROVE  moved(Sample(t, n)) = row(n)
  <2> DEFINE to == Sample(t, n).to
  <2>1. Sample(t, n) = [id |-> n, is |-> <<"sample", n>>, to |-> to]
    BY DEF Sample
  <2> HIDE DEF to
  <2>2. row(n) = [id |-> Id(n), is |-> <<"sample", n>>, to |-> to]
    BY DEF to
  <2> QED  BY <2>1, <2>2
<1>2. {moved(r) : r \in SampleRows(t)} = {moved(Sample(t, n)) : n \in 1..Samples}
  BY DEF SampleRows
<1> HIDE DEF moved, row
<1>3. {moved(Sample(t, n)) : n \in 1..Samples} = {row(n) : n \in 1..Samples}
  BY <1>1
<1>4. Seed(t).rows = db[t].rows \cup {moved(r) : r \in SampleRows(t)}
  BY DEF Seed, moved
<1> QED  BY <1>2, <1>3, <1>4 DEF row

LEMMA SeedOK ==
  ASSUME NEW t, TableOK(db[t], t), MaySeed(t)
  PROVE  TableOK(Seed(t), t)
<1> DEFINE Id(n) == IF HasIds(t) THEN n ELSE n + db[t].auto - 1
           row(n) == [id |-> Id(n), is |-> <<"sample", n>>, to |-> Sample(t, n).to]
<1>1. /\ Seed(t).rows = db[t].rows \cup {row(n) : n \in 1..Samples}
      /\ Seed(t).auto = db[t].auto + Samples
      /\ Seed(t).there = TRUE
  BY SeededRows DEF Seed
<1>2. db[t].auto \in Nat \ {0} /\ Samples \in Nat \ {0}
  BY SchemaAssumption DEF TableOK
<1>3. \A n \in 1..Samples : /\ Id(n) \in 1..(db[t].auto + Samples - 1)
                             /\ \A r \in db[t].rows : r.id # Id(n)
  <2> SUFFICES ASSUME NEW n \in 1..Samples
               PROVE  /\ Id(n) \in 1..(db[t].auto + Samples - 1)
                      /\ \A r \in db[t].rows : r.id # Id(n)
    OBVIOUS
  <2>1. \A r \in db[t].rows : r.id \in 1..(db[t].auto - 1)
    BY DEF TableOK
  <2>2. HasIds(t) => \A r \in db[t].rows : r.id # n
    BY DEF MaySeed, HasId
  <2> QED  BY <1>2, <2>1, <2>2
<1>4. \A m, n \in 1..Samples : Id(m) = Id(n) => m = n
  BY <1>2
<1>5. \A n \in 1..Samples : /\ row(n).id = Id(n)
                             /\ row(n).is \in Things
                             /\ row(n).to \in [Parents(t) -> Refs]
  BY SamplesAreThings, SampleTypes
<1> HIDE DEF Id, row
<1>6. \A r \in Seed(t).rows : /\ r.id \in 1..(Seed(t).auto - 1)
                              /\ r.is \in Things
                              /\ r.to \in [Parents(t) -> Refs]
  BY <1>1, <1>2, <1>3, <1>5 DEF TableOK
<1>7. \A r, q \in Seed(t).rows : r.id = q.id => r = q
  BY <1>1, <1>3, <1>4, <1>5 DEF TableOK
<1> QED  BY <1>1, <1>2, <1>6, <1>7 DEF TableOK

-------------------------------------------------------------------------------
(* Steps of the site.                                                      *)

(* A row is added, for which the ids it refers to were there.              *)
Adds(t, is, to) ==
  /\ t \in Tables /\ is \in Things /\ to \in [Parents(t) -> Refs]
  /\ MayInsert(t, to)
  /\ NewRow(t, is, to)

LEMMA AddedRow ==
  ASSUME TypeInv, NEW t, NEW is, NEW to, Adds(t, is, to)
  PROVE  /\ db' = [u \in Tables |-> db'[u]]
         /\ \A u \in Tables : TableOK(db'[u], u)
         /\ \A u \in Tables \ {t} : db'[u] = db[u]
         /\ db'[t].rows = db[t].rows \cup {[id |-> db[t].auto, is |-> is, to |-> to]}
<1> DEFINE table == [there |-> TRUE,
                     rows |-> db[t].rows \cup {[id |-> db[t].auto, is |-> is, to |-> to]},
                     auto |-> db[t].auto + 1]
<1>1. t \in Tables /\ db = [u \in Tables |-> db[u]] /\ db' = [db EXCEPT ![t] = table]
  BY DEF Adds, NewRow, TypeInv
<1>2. TableOK(table, t)
  BY RowAppended DEF Adds, TypeInv
<1>3. table.rows = db[t].rows \cup {[id |-> db[t].auto, is |-> is, to |-> to]}
  OBVIOUS
<1> HIDE DEF table
<1>4. db' = [u \in Tables |-> IF u = t THEN table ELSE db[u]]
  BY <1>1
<1> QED  BY <1>1, <1>2, <1>3, <1>4 DEF TypeInv

(* The tables only grow, by rows whose references are there, and of a      *)
(* quiet import's listings are what they refer to: such a step keeps what  *)
(* the import established.                                                 *)
LEMMA SiteKeeps ==
  ASSUME TypeInv, FilledInv, QuietInv, SiteRuns,
         \A t \in SeededTables : db[t].rows \subseteq db'[t].rows,
         \A t \in SeededTables : \A r \in db'[t].rows \ db[t].rows : \A p \in Parents(t) :
           /\ HasId(p, r.to[p].id)
           /\ quiet /\ PastDrop(t) => IsThere(p, r.to[p]),
         quiet => \A v \in Visitors :
           pending'[v] # Nothing => IsThere("properties", pending[v])'
  PROVE  FilledInv' /\ QuietInv'
<1>1. /\ Running' = Running /\ import' = import /\ outcome' = outcome
      /\ \A t : PastFill(t)' = PastFill(t) /\ PastDrop(t)' = PastDrop(t)
  BY DEF SiteRuns, importVars, Running, PastFill, PastDrop
<1>2. \A p \in SeededTables : /\ \A id : HasId(p, id) => HasId(p, id)'
                              /\ \A ref : IsThere(p, ref) => IsThere(p, ref)'
  BY DEF HasId, IsThere
<1>3. \A t \in SeededTables : SamplesIn(t) => SamplesIn(t)'
  BY DEF SamplesIn
<1>4. \A t \in SeededTables : \A p \in Parents(t) : p \in SeededTables
  BY ParentsFirst, FileOrder
<1>5. \A t \in SeededTables : NoneDangles(t) => NoneDangles(t)'
  BY <1>2, <1>4 DEF NoneDangles
<1>6. FilledInv'
  BY <1>1, <1>3, <1>5 DEF FilledInv
<1>7. \A t \in SeededTables : quiet /\ PastDrop(t) /\ AllAreTrue(t) => AllAreTrue(t)'
  BY <1>2, <1>4 DEF AllAreTrue
<1>8. QuietInv'
  <2> SUFFICES ASSUME quiet'
               PROVE  Quietly'
    BY DEF QuietInv
  <2>1. quiet /\ ~Running /\ Quietly
    BY DEF SiteRuns, QuietInv
  <2>2. outcome' = "failed" => import' = 23
    BY <1>1, <2>1 DEF Quietly
  <2>3. ~Running'
    BY <1>1, <2>1
  <2>4. \A t \in SeededTables : PastDrop(t)' => AllAreTrue(t)'
    BY <1>1, <1>7, <2>1 DEF Quietly
  <2>5. \A v \in Visitors : pending'[v] # Nothing => IsThere("properties", pending[v])'
    BY <2>1
  <2> QED  BY <2>2, <2>3, <2>4, <2>5 DEF Quietly
<1> QED  BY <1>6, <1>8

(* What a script may do to what the visitors keep.                         *)
VisitorsKept ==
  /\ session' \in Kept /\ page' \in Kept /\ pending' \in Kept
  /\ made' \in [Visitors -> 0..MaxMade]
  /\ quiet => \A v \in Visitors :
       pending'[v] # Nothing => IsThere("properties", pending[v])'

LEMMA ScriptAdds ==
  ASSUME ImportInv, SiteRuns, VisitorsKept,
         NEW t, NEW is, NEW to, Adds(t, is, to),
         t \in SeededTables /\ quiet /\ PastDrop(t) =>
           \A p \in Parents(t) : IsThere(p, to[p])
  PROVE  ImportInv'
<1> DEFINE row == [id |-> db[t].auto, is |-> is, to |-> to]
<1>1. /\ db' = [u \in Tables |-> db'[u]]
      /\ \A u \in Tables : TableOK(db'[u], u)
      /\ \A u \in Tables \ {t} : db'[u] = db[u]
      /\ db'[t].rows = db[t].rows \cup {row}
  BY AddedRow DEF ImportInv
<1>2. row.to = to
  OBVIOUS
<1> HIDE DEF row
<1>3. TypeInv'
  BY <1>1 DEF ImportInv, TypeInv, SiteRuns, importVars, VisitorsKept
<1>4. \A u \in SeededTables : db[u].rows \subseteq db'[u].rows
  BY <1>1, FileOrder
<1>5. ASSUME NEW u \in SeededTables, NEW r \in db'[u].rows \ db[u].rows, NEW p \in Parents(u)
      PROVE  HasId(p, r.to[p].id) /\ (quiet /\ PastDrop(u) => IsThere(p, r.to[p]))
  <2>1. u = t /\ r = row
    BY <1>1, FileOrder
  <2> QED  BY <1>2, <2>1 DEF Adds, MayInsert
<1>6. FilledInv' /\ QuietInv'
  BY <1>4, <1>5, SiteKeeps DEF ImportInv, VisitorsKept
<1> QED  BY <1>3, <1>6 DEF ImportInv

LEMMA TablesStay ==
  ASSUME ImportInv, SiteRuns, VisitorsKept, db' = db
  PROVE  ImportInv'
<1>1. TypeInv'
  BY DEF ImportInv, TypeInv, SiteRuns, importVars, VisitorsKept
<1>2. FilledInv' /\ QuietInv'
  BY SiteKeeps DEF ImportInv, VisitorsKept
<1> QED  BY <1>1, <1>2 DEF ImportInv

(* Once a table that refers to them has been dropped the first samples are *)
(* there.                                                                  *)
LEMMA FirstSamples ==
  ASSUME ImportInv, NEW u \in SeededTables, PastDrop(u), NEW t \in Parents(u)
  PROVE  IsThere(t, [id |-> 1, is |-> <<"sample", 1>>])
<1>1. t \in SeededTables /\ HasIds(t) /\ Place(t) < Place(u)
  BY ParentsFirst, FileOrder
<1>2. PastFill(t)
  <2>1. import \in Nat /\ Place(t) \in 1..7 /\ Place(u) \in 1..7
    BY <1>1, FileOrder DEF ImportInv, TypeInv
  <2> QED  BY <1>1, <2>1 DEF PastDrop, PastFill
<1>3. 1 \in 1..Samples
  BY SchemaAssumption
<1> QED  BY <1>1, <1>2, <1>3 DEF ImportInv, FilledInv, SamplesIn, IsThere

LEMMA PendingStays ==
  ASSUME ImportInv, pending' = pending,
         \A r \in db["properties"].rows : r \in db'["properties"].rows
  PROVE  /\ pending' \in Kept
         /\ quiet => \A v \in Visitors :
              pending'[v] # Nothing => IsThere("properties", pending[v])'
<1>1. \A ref : IsThere("properties", ref) => \E q \in db'["properties"].rows :
                                              q.id = ref.id /\ q.is = ref.is
  BY DEF IsThere
<1> QED  BY <1>1 DEF ImportInv, TypeInv, QuietInv, Quietly, IsThere

(* A row or account that is there can be kept as a reference.              *)
LEMMA RefsOfRows ==
  ASSUME TypeInv, NEW t \in Tables, NEW r \in db[t].rows
  PROVE  [id |-> r.id, is |-> r.is] \in Refs
<1>1. TableOK(db[t], t)
  BY DEF TypeInv
<1>2. r.id \in 1..(db[t].auto - 1) /\ r.is \in Things /\ db[t].auto \in Nat
  BY <1>1 DEF TableOK
<1>3. r.id \in Nat \ {0}
  BY <1>2
<1> QED  BY <1>2, <1>3 DEF Refs

LEMMA SignUpKeeps ==
  ASSUME ImportInv, NEW v \in Visitors, SignUp(v)
  PROVE  ImportInv'
<1>1. /\ SiteRuns /\ UNCHANGED <<session, page, pending, made>>
      /\ MayInsert("users", <<>>) /\ NewRow("users", <<v, 0>>, <<>>)
  BY DEF SignUp, siteVars
<1>2. <<v, 0>> \in Things
  BY SchemaAssumption DEF Things
<1>3. Parents("users") = {} /\ "users" \in Tables /\ "properties" \in Tables \ {"users"}
  BY DEF Parents, Tables, SeededTables
<1>4. <<>> \in [Parents("users") -> Refs]
  BY <1>3
<1>5. Adds("users", <<v, 0>>, <<>>)
  BY <1>1, <1>2, <1>3, <1>4 DEF Adds
<1>6. db'["properties"] = db["properties"]
  BY <1>3, <1>5, AddedRow DEF ImportInv
<1>7. VisitorsKept
  BY <1>1, <1>6, PendingStays DEF VisitorsKept, ImportInv, TypeInv
<1> QED  BY <1>1, <1>3, <1>5, <1>7, ScriptAdds

LEMMA PagesKeep ==
  ASSUME ImportInv, NEW v \in Visitors, LogIn(v) \/ OpenPayment(v)
  PROVE  ImportInv'
<1>1. SiteRuns /\ db' = db /\ pending' = pending /\ made' = made
  BY DEF LogIn, OpenPayment
<1>2. session \in Kept /\ page \in Kept /\ "users" \in Tables /\ "properties" \in Tables
  BY DEF ImportInv, TypeInv, Tables, SeededTables
<1>3. session' \in Kept /\ page' \in Kept
  <2>1. CASE LogIn(v)
    <3>1. PICK r \in db["users"].rows : session' = [session EXCEPT ![v] = [id |-> r.id, is |-> r.is]]
      BY <2>1 DEF LogIn
    <3>2. [id |-> r.id, is |-> r.is] \in Refs
      BY <1>2, RefsOfRows DEF ImportInv
    <3>3. page' = page
      BY <2>1 DEF LogIn
    <3> QED  BY <1>2, <3>1, <3>2, <3>3 DEF Kept
  <2>2. CASE OpenPayment(v)
    <3>1. PICK r \in db["properties"].rows : page' = [page EXCEPT ![v] = [id |-> r.id, is |-> r.is]]
      BY <2>2 DEF OpenPayment
    <3>2. [id |-> r.id, is |-> r.is] \in Refs
      BY <1>2, RefsOfRows DEF ImportInv
    <3>3. session' = session
      BY <2>2 DEF OpenPayment
    <3> QED  BY <1>2, <3>1, <3>2, <3>3 DEF Kept
  <2> QED  BY <2>1, <2>2
<1>4. VisitorsKept
  BY <1>1, <1>3, PendingStays DEF VisitorsKept, ImportInv, TypeInv
<1> QED  BY <1>1, <1>4, TablesStay

LEMMA ListPropertyKeeps ==
  ASSUME ImportInv, NEW v \in Visitors, ListProperty(v)
  PROVE  ImportInv'
<1> DEFINE is == <<v, made[v] + 1>>
           city == [id |-> 1, is |-> <<"sample", 1>>]
           to == [p \in {"cities"} |-> city]
           new == [id |-> db["properties"].auto, is |-> is]
<1>1. /\ SiteRuns /\ made[v] < MaxMade /\ session' = session /\ page' = page
      /\ MayInsert("properties", to) /\ NewRow("properties", is, to)
      /\ made' = [made EXCEPT ![v] = @ + 1]
      /\ pending' = [pending EXCEPT ![v] = new]
  BY DEF ListProperty
<1>2. made[v] \in 0..MaxMade /\ made \in [Visitors -> 0..MaxMade] /\ MaxMade \in Nat
  BY SchemaAssumption DEF ImportInv, TypeInv
<1>3. is \in Things /\ made' \in [Visitors -> 0..MaxMade]
  BY <1>1, <1>2 DEF Things
<1>4. Parents("properties") = {"cities"} /\ "properties" \in Tables
  BY DEF Parents, Tables, SeededTables
<1>5. city \in Refs
  BY SamplesAreThings, SchemaAssumption
<1>6. new.id = db["properties"].auto /\ new.is = is /\ new \in Refs
  <2>1. db["properties"].auto \in Nat \ {0}
    BY <1>4 DEF ImportInv, TypeInv, TableOK
  <2> QED  BY <1>3, <2>1 DEF Refs
<1>7. to \in [Parents("properties") -> Refs] /\ \A p \in Parents("properties") : to[p] = city
  BY <1>4, <1>5
<1> HIDE DEF to, new, is, city
<1>8. Adds("properties", is, to)
  BY <1>1, <1>3, <1>4, <1>7 DEF Adds
<1>9. db'["properties"].rows = db["properties"].rows \cup
        {[id |-> db["properties"].auto, is |-> is, to |-> to]}
  BY <1>8, AddedRow DEF ImportInv
<1>10. VisitorsKept
  <2>1. \A u \in Visitors : pending'[u] = IF u = v THEN new ELSE pending[u]
    BY <1>1 DEF ImportInv, TypeInv, Kept
  <2>2. pending' \in Kept
    BY <1>1, <1>6 DEF ImportInv, TypeInv, Kept
  <2>3. \E q \in db'["properties"].rows : q.id = new.id /\ q.is = new.is
    <3> DEFINE row == [id |-> db["properties"].auto, is |-> is, to |-> to]
    <3>1. row \in db'["properties"].rows /\ row.id = new.id /\ row.is = new.is
      BY <1>6, <1>9
    <3> QED  BY <3>1
  <2>4. ASSUME quiet, NEW u \in Visitors, pending'[u] # Nothing
        PROVE  \E q \in db'["properties"].rows :
                 q.id = pending'[u].id /\ q.is = pending'[u].is
    <3>1. CASE u = v
      BY <2>1, <2>3, <3>1
    <3>2. CASE u # v
      <4>1. IsThere("properties", pending[u]) /\ pending'[u] = pending[u]
        BY <2>1, <2>4, <3>2 DEF ImportInv, QuietInv, Quietly
      <4> QED  BY <4>1, <1>9 DEF IsThere
    <3> QED  BY <3>1, <3>2
  <2> QED  BY <1>1, <1>3, <2>2, <2>4 DEF VisitorsKept, IsThere, ImportInv, TypeInv
<1>11. PastDrop("properties") => \A p \in Parents("properties") : IsThere(p, to[p])
  BY <1>7, FirstSamples DEF city, SeededTables
<1> QED  BY <1>1, <1>8, <1>10, <1>11, ScriptAdds

LEMMA AmenitiesKeep ==
  ASSUME ImportInv, NEW v \in Visitors, InsertAmenities(v)
  PROVE  ImportInv'
<1> DEFINE first == [id |-> 1, is |-> <<"sample", 1>>]
           to == [p \in {"properties", "amenities"} |->
                    IF p = "properties" THEN pending[v] ELSE first]
<1>1. /\ SiteRuns /\ pending[v] # Nothing /\ UNCHANGED <<session, page, made>>
      /\ pending' = [pending EXCEPT ![v] = Nothing]
      /\ \/ /\ MayInsert("properties_amenities", to)
            /\ NewRow("properties_amenities", pending[v].is, to)
         \/ db' = db
  BY DEF InsertAmenities
<1>2. /\ Parents("properties_amenities") = {"properties", "amenities"}
      /\ "properties_amenities" \in SeededTables
      /\ "properties_amenities" \in Tables
      /\ "properties" \in Tables \ {"properties_amenities"}
  BY DEF Parents, Tables, SeededTables
<1>3. pending \in Kept /\ pending[v] \in Refs
  BY <1>1 DEF ImportInv, TypeInv, Kept
<1>4. first \in Refs /\ pending[v].is \in Things
  BY <1>3, SamplesAreThings, SchemaAssumption DEF Refs
<1>5. /\ to \in [Parents("properties_amenities") -> Refs]
      /\ to["properties"] = pending[v] /\ to["amenities"] = first
  BY <1>2, <1>3, <1>4
<1> HIDE DEF to, first
<1>6. \A u \in Visitors : pending'[u] = IF u = v THEN Nothing ELSE pending[u]
  BY <1>1, <1>3 DEF Kept
<1>7. ASSUME db'["properties"] = db["properties"]
      PROVE  VisitorsKept
  <2>1. pending' \in Kept
    BY <1>1, <1>3 DEF Kept
  <2>2. quiet => \A u \in Visitors :
          pending'[u] # Nothing => IsThere("properties", pending[u])'
    BY <1>6, <1>7 DEF ImportInv, QuietInv, Quietly, IsThere
  <2> QED  BY <1>1, <2>1, <2>2 DEF VisitorsKept, ImportInv, TypeInv
<1>8. CASE db' = db
  BY <1>1, <1>7, <1>8, TablesStay
<1>9. CASE /\ MayInsert("properties_amenities", to)
           /\ NewRow("properties_amenities", pending[v].is, to)
  <2>1. Adds("properties_amenities", pending[v].is, to)
    BY <1>2, <1>4, <1>5, <1>9 DEF Adds
  <2>2. db'["properties"] = db["properties"]
    BY <1>2, <2>1, AddedRow DEF ImportInv
  <2>3. ASSUME quiet, PastDrop("properties_amenities")
        PROVE  \A p \in Parents("properties_amenities") : IsThere(p, to[p])
    <3>1. IsThere("properties", pending[v])
      BY <1>1, <2>3 DEF ImportInv, QuietInv, Quietly
    <3>2. IsThere("amenities", first)
      BY <1>2, <2>3, FirstSamples DEF first
    <3> QED  BY <1>2, <1>5, <3>1, <3>2
  <2> QED  BY <1>1, <1>7, <2>1, <2>2, <2>3, ScriptAdds
<1> QED  BY <1>1, <1>8, <1>9

LEMMA BookKeeps ==
  ASSUME ImportInv, NEW v \in Visitors, Book(v)
  PROVE  ImportInv'
<1> DEFINE is == <<v, made[v] + 1>>
           to == [p \in {"users", "properties"} |->
                    IF p = "users" THEN session[v] ELSE page[v]]
<1>1. /\ SiteRuns /\ made[v] < MaxMade /\ UNCHANGED <<session, page, pending>>
      /\ session[v] # Nothing /\ page[v] # Nothing
      /\ MayInsert("bookings", to) /\ NewRow("bookings", is, to)
      /\ made' = [made EXCEPT ![v] = @ + 1]
  BY DEF Book
<1>2. made[v] \in 0..MaxMade /\ made \in [Visitors -> 0..MaxMade] /\ MaxMade \in Nat
  BY SchemaAssumption DEF ImportInv, TypeInv
<1>3. is \in Things /\ made' \in [Visitors -> 0..MaxMade]
  BY <1>1, <1>2 DEF Things
<1>4. /\ Parents("bookings") = {"users", "properties"}
      /\ "bookings" \in Tables /\ "bookings" \notin SeededTables
      /\ "properties" \in Tables \ {"bookings"}
  BY DEF Parents, Tables, SeededTables
<1>5. session[v] \in Refs /\ page[v] \in Refs
  BY <1>1 DEF ImportInv, TypeInv, Kept
<1>6. to \in [Parents("bookings") -> Refs]
  BY <1>4, <1>5
<1> HIDE DEF to, is
<1>7. Adds("bookings", is, to)
  BY <1>1, <1>3, <1>4, <1>6 DEF Adds
<1>8. db'["properties"] = db["properties"]
  BY <1>4, <1>7, AddedRow DEF ImportInv
<1>9. VisitorsKept
  BY <1>1, <1>3, <1>8, PendingStays DEF VisitorsKept, ImportInv, TypeInv
<1> QED  BY <1>1, <1>4, <1>7, <1>9, ScriptAdds

LEMMA SiteStepKeeps ==
  ASSUME ImportInv, NEW v \in Visitors, SiteStep(v)
  PROVE  ImportInv'
BY SignUpKeeps, PagesKeep, ListPropertyKeeps, AmenitiesKeep, BookKeeps DEF SiteStep

-------------------------------------------------------------------------------
(* Steps of the import.                                                    *)

(* The indexes and bookings come after all tables.                         *)
LEMMA FileEnds ==
  /\ BookingsStatement = 23
  /\ \A t \in SeededTables : 3 * Place(t) \in 3..21
<1>1. BookingsStatement = 23
  BY FileOrder DEF BookingsStatement
<1>2. \A t \in SeededTables : 3 * Place(t) \in 3..21
  BY FileOrder
<1> QED  BY <1>1, <1>2

(* An import that begins claims nothing of what an earlier one did.        *)
LEMMA StartKeeps ==
  ASSUME ImportInv, Start
  PROVE  ImportInv'
<1>1. /\ import' = 1 /\ outcome' = "running" /\ imports' = imports + 1
      /\ imports < MaxImports
      /\ UNCHANGED <<db, session, page, pending, made>>
      /\ quiet' = \A v \in Visitors : pending[v] = Nothing
  BY DEF Start, siteVars
<1>2. \A t \in SeededTables : ~PastDrop(t)' /\ ~PastFill(t)' /\ import' # 3 * Place(t)
  BY <1>1, FileOrder DEF PastDrop, PastFill
<1>3. TypeInv'
  BY <1>1, SchemaAssumption DEF ImportInv, TypeInv
<1>4. FilledInv'
  BY <1>2 DEF FilledInv
<1>5. QuietInv'
  <2>1. quiet' => \A v \in Visitors : pending'[v] = Nothing
    BY <1>1
  <2> QED  BY <1>1, <1>2, <2>1 DEF QuietInv, Quietly
<1> QED  BY <1>3, <1>4, <1>5 DEF ImportInv

(* After the tables no row changes.                                        *)
LEMMA LaterStatementsKeep ==
  ASSUME ImportInv, CreateIndexes \/ CreateBookings \/ Kill
  PROVE  ImportInv'
<1>1. /\ Running
      /\ UNCHANGED <<db, imports, quiet, session, page, pending, made>>
      /\ \/ import' = import
         \/ import = 22 /\ import' = 23
      /\ outcome' \in {"running", "failed", "killed"}
      /\ outcome' = "failed" => import' = 23
      /\ outcome' = "running" => import' = 23
  BY FileOrder, FileEnds
     DEF CreateIndexes, CreateBookings, Kill, Stop, Advance, siteVars, Running
<1>2. import \in 0..23
  BY DEF ImportInv, TypeInv
<1>3. \A t \in SeededTables : /\ PastDrop(t)' => PastDrop(t)
                              /\ PastFill(t)' => PastFill(t)
  BY <1>1, <1>2, FileEnds DEF PastDrop, PastFill
<1>4. TypeInv'
  BY <1>1 DEF ImportInv, TypeInv
<1>5. FilledInv'
  BY <1>1, <1>3 DEF ImportInv, FilledInv, SamplesIn, NoneDangles, HasId
<1>6. QuietInv'
  <2> SUFFICES ASSUME quiet' PROVE Quietly'
    BY DEF QuietInv
  <2>1. quiet /\ Quietly
    BY <1>1 DEF ImportInv, QuietInv
  <2>2. \A t \in SeededTables : PastDrop(t)' => AllAreTrue(t)'
    BY <1>1, <1>3, <2>1 DEF Quietly, AllAreTrue, IsThere
  <2>3. \A v \in Visitors : pending'[v] = Nothing
    BY <1>1, <2>1 DEF Quietly
  <2>4. \A t \in SeededTables : Running' => import' # 3 * Place(t)
    BY <1>1, FileEnds DEF Running
  <2> QED  BY <1>1, <2>2, <2>3, <2>4 DEF Quietly
<1> QED  BY <1>4, <1>5, <1>6 DEF ImportInv

(* The three statements of a table, in terms of its place in the file.     *)
Drops(t)   == import = 3 * Place(t) - 2 /\ db' = [db EXCEPT ![t] = Absent] /\ Advance
Creates(t) == import = 3 * Place(t) - 1 /\ db' = [db EXCEPT ![t] = Empty] /\ Advance
Fills(t)   == /\ import = 3 * Place(t) /\ MaySeed(t)
              /\ db' = [db EXCEPT ![t] = Seed(t)] /\ Advance
Fails(t)   == import = 3 * Place(t) /\ ~MaySeed(t) /\ db' = db /\ Stop("failed")

Rest == Running /\ UNCHANGED <<imports, quiet, session, page, pending, made>>

LEMMA TableSteps ==
  ASSUME TypeInv, TableStep
  PROVE  Rest /\ \E t \in SeededTables : Drops(t) \/ Creates(t) \/ Fills(t) \/ Fails(t)
<1> DEFINE k == (import + 2) \div 3
           t == Seeded[k]
<1>1. import \in 1..21
  BY FileOrder DEF TableStep
<1>2. /\ k \in 1..7
      /\ import % 3 = 1 => import = 3 * k - 2
      /\ import % 3 = 2 => import = 3 * k - 1
      /\ import % 3 = 0 => import = 3 * k
  BY <1>1
<1>3. /\ \/ import % 3 = 1 /\ db' = [db EXCEPT ![t] = Absent] /\ Advance
         \/ import % 3 = 2 /\ db' = [db EXCEPT ![t] = Empty] /\ Advance
         \/ import % 3 = 0 /\ MaySeed(t) /\ db' = [db EXCEPT ![t] = Seed(t)] /\ Advance
         \/ import % 3 = 0 /\ ~MaySeed(t) /\ db' = db /\ Stop("failed")
      /\ Rest
  BY DEF TableStep, MayDrop, Rest, siteVars
<1> HIDE DEF k
<1>4. t \in SeededTables /\ Place(t) = k
  BY <1>2, FileOrder
<1> HIDE DEF t
<1> QED  BY <1>2, <1>3, <1>4 DEF Drops, Creates, Fills, Fails

(* A statement that succeeds: what it has to establish for its own table.  *)
LEMMA StatementKeeps ==
  ASSUME ImportInv, Rest, Advance, NEW t \in SeededTables, NEW table,
         import \in (3 * Place(t) - 2)..(3 * Place(t)),
         db' = [db EXCEPT ![t] = table], TableOK(table, t),
         import = 3 * Place(t) - 1 => table = Empty,
         import = 3 * Place(t) => SamplesIn(t)',
         NoneDangles(t)',
         quiet => AllAreTrue(t)'
  PROVE  ImportInv'
<1>1. /\ import' = import + 1 /\ outcome' = "running" /\ outcome = "running"
      /\ UNCHANGED <<imports, quiet, session, page, pending, made>>
      /\ import \in 1..21
  BY FileOrder DEF Advance, Rest, Running
<1>2. /\ db'[t] = table
      /\ \A u \in Tables : u # t => db'[u] = db[u]
      /\ db' = [u \in Tables |-> db'[u]]
  BY FileOrder DEF ImportInv, TypeInv
<1>3. \A u \in SeededTables : u # t => Place(u) # Place(t)
  BY FileOrder
<1>4. ASSUME NEW u \in SeededTables, u # t
      PROVE  /\ PastDrop(u)' => PastDrop(u) /\ Place(u) < Place(t)
             /\ PastFill(u)' => PastFill(u)
             /\ import' # 3 * Place(u)
  BY <1>1, <1>3, <1>4, FileOrder DEF PastDrop, PastFill
<1>5. ASSUME NEW u \in SeededTables, u # t, Place(u) < Place(t)
      PROVE  /\ db'[u] = db[u]
             /\ \A p \in Parents(u) : db'[p] = db[p]
  BY <1>2, <1>5, FileOrder, ParentsFirst
<1>6. TypeInv'
  <2>1. \A u \in Tables : TableOK(db'[u], u)
    BY <1>2 DEF ImportInv, TypeInv
  <2> QED  BY <1>1, <1>2, <2>1 DEF ImportInv, TypeInv
<1>7. ASSUME NEW u \in SeededTables
      PROVE  /\ PastFill(u)' => SamplesIn(u)'
             /\ PastDrop(u)' => NoneDangles(u)'
  <2>1. CASE u = t
    <3>1. PastFill(t)' => import = 3 * Place(t)
      BY <1>1, FileOrder DEF PastFill
    <3> QED  BY <2>1, <3>1
  <2>2. CASE u # t
    <3>1. db'[u] = db[u]
      BY <1>2, <2>2, FileOrder
    <3>2. SamplesIn(u) => SamplesIn(u)'
      BY <3>1 DEF SamplesIn
    <3>3. Place(u) < Place(t) /\ NoneDangles(u) => NoneDangles(u)'
      BY <1>5, <2>2 DEF NoneDangles, HasId
    <3> QED  BY <1>4, <2>2, <3>2, <3>3 DEF ImportInv, FilledInv
  <2> QED  BY <2>1, <2>2
<1>8. QuietInv'
  <2> SUFFICES ASSUME quiet' PROVE Quietly'
    BY DEF QuietInv
  <2>1. quiet /\ Quietly
    BY <1>1 DEF ImportInv, QuietInv
  <2>2. ASSUME NEW u \in SeededTables
        PROVE  /\ import' = 3 * Place(u) => db'[u] = Empty
               /\ PastDrop(u)' => AllAreTrue(u)'
    <3>1. CASE u = t
      <4>1. import' = 3 * Place(t) => import = 3 * Place(t) - 1
        BY <1>1, FileOrder
      <4> QED  BY <1>2, <2>1, <3>1, <4>1
    <3>2. CASE u # t
      <4>1. Place(u) < Place(t) /\ AllAreTrue(u) => AllAreTrue(u)'
        BY <1>5, <3>2 DEF AllAreTrue, IsThere
      <4> QED  BY <1>4, <2>1, <3>2, <4>1 DEF Quietly
    <3> QED  BY <3>1, <3>2
  <2>3. \A v \in Visitors : pending'[v] = Nothing
    BY <1>1, <2>1 DEF Quietly, Running
  <2> QED  BY <1>1, <2>2, <2>3 DEF Quietly
<1> QED  BY <1>6, <1>7, <1>8 DEF ImportInv, FilledInv

LEMMA EmptyKeeps ==
  ASSUME ImportInv, Rest, NEW t \in SeededTables, Drops(t) \/ Creates(t)
  PROVE  ImportInv'
<1> DEFINE table == IF import = 3 * Place(t) - 1 THEN Empty ELSE Absent
<1>1. /\ Advance /\ db' = [db EXCEPT ![t] = table]
      /\ import \in (3 * Place(t) - 2)..(3 * Place(t)) /\ import # 3 * Place(t)
  <2>1. Place(t) \in 1..7
    BY FileOrder
  <2>2. /\ Advance
        /\ \/ import = 3 * Place(t) - 2 /\ db' = [db EXCEPT ![t] = Absent]
           \/ import = 3 * Place(t) - 1 /\ db' = [db EXCEPT ![t] = Empty]
    BY DEF Drops, Creates
  <2>3. 3 * Place(t) - 2 # 3 * Place(t) - 1
    BY <2>1
  <2>4. db' = [db EXCEPT ![t] = table]
    BY <2>2, <2>3
  <2> QED  BY <2>1, <2>2, <2>4
<1>2. TableOK(table, t) /\ table.rows = {} /\ (import = 3 * Place(t) - 1 => table = Empty)
  BY FreshTables DEF Empty, Absent
<1> HIDE DEF table
<1>3. db'[t].rows = {}
  BY <1>1, <1>2, FileOrder DEF ImportInv, TypeInv
<1>4. NoneDangles(t)' /\ AllAreTrue(t)'
  BY <1>3 DEF NoneDangles, AllAreTrue
<1> QED  BY <1>1, <1>2, <1>4, StatementKeeps

LEMMA FillKeeps ==
  ASSUME ImportInv, Rest, NEW t \in SeededTables, Fills(t)
  PROVE  ImportInv'
<1> DEFINE Id(n) == IF HasIds(t) THEN n ELSE n + db[t].auto - 1
           row(n) == [id |-> Id(n), is |-> <<"sample", n>>, to |-> Sample(t, n).to]
<1>1. /\ import = 3 * Place(t) /\ MaySeed(t) /\ Advance
      /\ db' = [db EXCEPT ![t] = Seed(t)]
  BY DEF Fills
<1>2. import \in (3 * Place(t) - 2)..(3 * Place(t)) /\ import # 3 * Place(t) - 1
  BY <1>1, FileOrder
<1>3. TableOK(Seed(t), t)
  BY <1>1, SeedOK, FileOrder DEF ImportInv, TypeInv
<1>4. /\ db'[t].rows = db[t].rows \cup {row(n) : n \in 1..Samples}
      /\ \A p \in Parents(t) : db'[p] = db[p]
  <2>1. db'[t] = Seed(t) /\ \A u \in Tables : u # t => db'[u] = db[u]
    BY <1>1, FileOrder DEF ImportInv, TypeInv
  <2>2. \A p \in Parents(t) : p \in Tables /\ p # t
    BY FileOrder, ParentsFirst
  <2> QED  BY <2>1, <2>2, SeededRows
<1>5. ASSUME NEW n \in 1..Samples
      PROVE  /\ row(n).is = <<"sample", n>>
             /\ HasIds(t) => row(n).id = n
             /\ \A p \in Parents(t) : row(n).to[p] = [id |-> n, is |-> <<"sample", n>>]
  BY DEF Sample
<1>6. ASSUME NEW p \in Parents(t), NEW n \in 1..Samples
      PROVE  IsThere(p, [id |-> n, is |-> <<"sample", n>>])
  <2>1. p \in SeededTables /\ HasIds(p) /\ PastFill(p)
    BY <1>1, FileOrder, ParentsFirst DEF PastFill
  <2> QED  BY <2>1 DEF ImportInv, FilledInv, SamplesIn, IsThere
<1> HIDE DEF row, Id
<1>7. SamplesIn(t)'
  <2>1. \A n \in 1..Samples : row(n) \in db'[t].rows
    BY <1>4
  <2> QED  BY <1>5, <2>1 DEF SamplesIn, HasIds
<1>8. NoneDangles(t)'
  <2>1. NoneDangles(t)
    BY <1>1, FileOrder DEF ImportInv, FilledInv, PastDrop
  <2>2. ASSUME NEW n \in 1..Samples, NEW p \in Parents(t)
        PROVE  HasId(p, row(n).to[p].id)
    <3>1. IsThere(p, row(n).to[p])
      BY <1>5, <1>6
    <3> QED  BY <3>1 DEF HasId, IsThere
  <2>3. \A r \in db'[t].rows, p \in Parents(t) : HasId(p, r.to[p].id)
    BY <1>4, <2>1, <2>2 DEF NoneDangles
  <2> QED  BY <1>4, <2>3 DEF NoneDangles, HasId
<1>9. quiet => AllAreTrue(t)'
  <2> SUFFICES ASSUME quiet PROVE AllAreTrue(t)'
    OBVIOUS
  <2>1. db[t].rows = {}
    BY <1>1 DEF ImportInv, QuietInv, Quietly, Empty, Rest
  <2>2. ASSUME NEW r \in db'[t].rows, NEW p \in Parents(t)
        PROVE  IsThere(p, r.to[p])
    <3>1. PICK n \in 1..Samples : r = row(n)
      BY <1>4, <2>1
    <3> QED  BY <1>5, <1>6, <3>1
  <2> QED  BY <1>4, <2>2 DEF AllAreTrue, IsThere
<1> QED  BY <1>1, <1>2, <1>3, <1>7, <1>8, <1>9, StatementKeeps

(* Only beside the site is the INSERT of the samples refused.              *)
LEMMA FailKeeps ==
  ASSUME ImportInv, Rest, NEW t \in SeededTables, Fails(t)
  PROVE  ImportInv'
<1>1. /\ import = 3 * Place(t) /\ ~MaySeed(t) /\ Running
      /\ import' = import /\ outcome' = "failed"
      /\ UNCHANGED <<db, imports, quiet, session, page, pending, made>>
  BY DEF Fails, Stop, Rest
<1>2. ~quiet
  <2> SUFFICES ASSUME quiet PROVE FALSE
    OBVIOUS
  <2>1. db[t].rows = {}
    BY <1>1 DEF ImportInv, QuietInv, Quietly, Empty
  <2> QED  BY <1>1, <2>1 DEF MaySeed, HasId
<1>3. TypeInv'
  BY <1>1 DEF ImportInv, TypeInv
<1>4. FilledInv'
  BY <1>1 DEF ImportInv, FilledInv, PastDrop, PastFill, SamplesIn, NoneDangles, HasId
<1> QED  BY <1>1, <1>2, <1>3, <1>4 DEF ImportInv, QuietInv

LEMMA ImportStepKeeps == ImportInv /\ ImportStep => ImportInv'
<1> SUFFICES ASSUME ImportInv, ImportStep PROVE ImportInv'
  OBVIOUS
<1>1. CASE TableStep
  BY <1>1, TableSteps, EmptyKeeps, FillKeeps, FailKeeps DEF ImportInv
<1> QED  BY <1>1, StartKeeps, LaterStatementsKeep DEF ImportStep

-------------------------------------------------------------------------------
LEMMA InitiallyImportInv == Init => ImportInv
<1> SUFFICES ASSUME Init PROVE ImportInv
  OBVIOUS
<1>1. db = [t \in Tables |-> db[t]] /\ \A t \in Tables : TableOK(db[t], t)
  BY FreshTables, FilledOK DEF Init
<1>2. /\ import = 0 /\ imports = 0 /\ outcome = "none" /\ quiet = TRUE
      /\ \A v \in Visitors : pending[v] = Nothing
  BY DEF Init
<1>3. session \in Kept /\ page \in Kept /\ pending \in Kept
  BY DEF Init, Kept
<1>4. TypeInv
  BY <1>1, <1>2, <1>3, SchemaAssumption DEF TypeInv, Init
<1>5. \A t \in SeededTables : ~PastDrop(t) /\ ~PastFill(t)
  BY <1>2, FileOrder DEF PastDrop, PastFill
<1> QED  BY <1>2, <1>4, <1>5 DEF ImportInv, FilledInv, QuietInv, Quietly, Running

(* In every reachable state the tables the import has passed are as the    *)
(* file fills them, whatever was killed, repeated or done beside it.       *)
THEOREM ImportInvariance == Spec => []ImportInv
<1>1. ImportInv /\ UNCHANGED vars => ImportInv'
  <2> SUFFICES ASSUME ImportInv, UNCHANGED vars PROVE ImportInv'
    OBVIOUS
  <2>1. UNCHANGED <<db, import, imports, outcome, quiet, session, page, pending, made>>
    BY DEF vars
  <2>2. TypeInv'
    BY <2>1 DEF ImportInv, TypeInv
  <2>3. FilledInv'
    BY <2>1 DEF ImportInv, FilledInv, PastDrop, PastFill, SamplesIn, NoneDangles, HasId
  <2>4. QuietInv'
    BY <2>1 DEF ImportInv, QuietInv, Quietly, PastDrop, Running, AllAreTrue, IsThere
  <2> QED  BY <2>2, <2>3, <2>4 DEF ImportInv
<1>2. ImportInv /\ [Next]_vars => ImportInv'
  BY <1>1, ImportStepKeeps, SiteStepKeeps DEF Next
<1> QED  BY <1>2, InitiallyImportInv, PTL DEF Spec

(* Through dropping, seeding by id and without, and the site's statements  *)
(* (pglife.sql and api), a table's rows are told apart by ids below its    *)
(* counter, they refer to the tables of their foreign keys, and what a     *)
(* visitor's session, page and listing keep is a reference or nothing.     *)
THEOREM ImportTypes == Spec => []TypeOK
<1>1. ASSUME ImportInv
      PROVE  TypeOK
  <2>1. \A t \in Tables : TableOK(db[t], t)
    BY <1>1 DEF ImportInv, TypeInv
  <2> QED  BY <1>1, <2>1, FileEnds DEF ImportInv, TypeInv, TypeOK, TableOK, Kept
<1> QED  BY <1>1, ImportInvariance, PTL

(* A table that the last import has filled has from then on every sample,  *)
(* under its id where others refer to it, whether or not the import came   *)
(* to its end (pglife.sql:21-217).                                         *)
THEOREM ImportBringsSamples == Spec => []SamplesAreBack
<1>1. ASSUME ImportInv, NEW t \in SeededTables, Refilled(t), NEW n \in 1..Samples
      PROVE  \E r \in db[t].rows :
               /\ r.is = <<"sample", n>>
               /\ (\E c \in Tables : t \in Parents(c)) => r.id = n
  <2>1. SamplesIn(t)
    BY <1>1, Progress DEF ImportInv, FilledInv
  <2>2. (\E c \in Tables : t \in Parents(c)) => HasIds(t)
    BY ParentsFirst
  <2> QED  BY <2>1, <2>2 DEF SamplesIn
<1>2. ImportInv => SamplesAreBack
  BY <1>1 DEF SamplesAreBack
<1> QED  BY <1>2, ImportInvariance, PTL

(* A table that the last import has dropped has from then on, while it     *)
(* runs and after it ended, early or not, no reference to an id nobody     *)
(* has, although the import runs without foreign key checks                *)
(* (pglife.sql:15).                                                        *)
THEOREM ImportLeavesNoneDangling == Spec => []NothingDangles
<1>1. ASSUME ImportInv, NEW t \in SeededTables, Dropped(t), NEW ref \in References(t)
      PROVE  HasId(ref[1], ref[2].id)
  <2>1. NoneDangles(t)
    BY <1>1, Progress DEF ImportInv, FilledInv
  <2>2. \E p \in Parents(t), r \in db[t].rows : ref = <<p, r.to[p]>>
    BY DEF References
  <2> QED  BY <2>1, <2>2 DEF NoneDangles
<1>2. ImportInv => NothingDangles
  BY <1>1 DEF NothingDangles
<1> QED  BY <1>2, ImportInvariance, PTL

(* An import beside which no script of the site runs is refused no         *)
(* statement but the last, which creates bookings (pglife.sql:287).        *)
THEOREM QuietImportEnds == Spec => []OnlyBookingsFails
<1>1. ImportInv => OnlyBookingsFails
  BY FileEnds DEF ImportInv, QuietInv, Quietly, OnlyBookingsFails
<1> QED  BY <1>1, ImportInvariance, PTL

(* During and after a quiet import, and through all the site does from     *)
(* then on, a row of a table the import has dropped refers to what it      *)
(* meant when it was made.                                                 *)
THEOREM QuietImportKeepsMeaning == Spec => []ReferencesAreTrue
<1>1. ASSUME ImportInv, quiet,
             NEW t \in SeededTables, Dropped(t), NEW ref \in References(t)
      PROVE  \E r \in db[ref[1]].rows : r.id = ref[2].id /\ r.is = ref[2].is
  <2>1. AllAreTrue(t)
    BY <1>1, Progress DEF ImportInv, QuietInv, Quietly
  <2>2. \E p \in Parents(t), r \in db[t].rows : ref = <<p, r.to[p]>>
    BY DEF References
  <2> QED  BY <2>1, <2>2 DEF AllAreTrue, IsThere
<1>2. ImportInv => ReferencesAreTrue
  BY <1>1 DEF ReferencesAreTrue
<1> QED  BY <1>2, ImportInvariance, PTL
===============================================================================

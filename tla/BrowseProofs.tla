------------------------------ MODULE BrowseProofs ----------------------------
(***************************************************************************)
(* Theorems of Browse, for all cities, users, rents, ratings, sample rows  *)
(* and bounds.  The rows that pages speak of stay where they are: both     *)
(* tables only grow at their ends.                                         *)
(***************************************************************************)
EXTENDS Browse, SequenceTheorems, FiniteSetTheorems, FunctionTheorems, TLAPS

-------------------------------------------------------------------------------
(* Averages and stars: what they are for all ratings from 0.0 to 5.0.      *)

LEMMA SumOfTenths ==
  ASSUME NEW p \in [Criteria -> Tenths]
  PROVE  RatingSum(p) \in 0..150
<1>1. p["clean"] \in 0..50 /\ p["food"] \in 0..50 /\ p["safety"] \in 0..50
  BY DEF Criteria, Tenths
<1>2. \A a, b, c \in 0..50 : a + b + c \in 0..150
  OBVIOUS
<1> QED
  BY <1>1, <1>2 DEF RatingSum

(* A rounded third: between 0.0 and 5.0, within a third of a tenth.        *)
LEMMA RoundedThird ==
  ASSUME NEW p, RatingSum(p) \in 0..150
  PROVE  /\ TotalRating(p) \in 0..50
         /\ 3 * TotalRating(p) - RatingSum(p) \in -1..1
BY DEF TotalRating

LEMMA RatingIsTenths ==
  ASSUME NEW p \in [Criteria -> Tenths], NEW what \in Criteria \cup {"total"}
  PROVE  Rating(p, what) \in 0..50
BY SumOfTenths, RoundedThird DEF Rating, Tenths

LEMMA ExactIsNumber ==
  ASSUME NEW p \in [Criteria -> Tenths], NEW what \in Criteria \cup {"total"}
  PROVE  Exact(p, what) \in Int
<1>1. CASE what = "total"
  BY <1>1, SumOfTenths DEF Exact
<1>2. CASE what # "total"
  <2>1. p[what] \in 0..50
    BY <1>2 DEF Tenths
  <2> QED
    BY <1>2, <2>1 DEF Exact
<1> QED
  BY <1>1, <1>2

LEMMA StarIsHalves ==
  ASSUME NEW rating, NEW i PROVE Star(rating, i) \in 0..2
BY DEF Star

(* The five stars of a rating lie within two tenths of it.                 *)
LEMMA FiveStars ==
  ASSUME NEW r \in 0..50
  PROVE  5 * FilledHalves(Stars(r)) - r \in -2..2
<1>1. FilledHalves(Stars(r)) =
        Star(r, 0) + Star(r, 1) + Star(r, 2) + Star(r, 3) + Star(r, 4)
  BY DEF FilledHalves, Stars
<1> QED
  BY <1>1 DEF Star

(* The decimal beside the stars is the one nearest to the exact average.   *)
THEOREM AverageIsNearest ==
  ASSUME NEW p \in [Criteria -> Tenths], NEW what \in Criteria \cup {"total"}
  PROVE  NearestTenth(Rating(p, what), Exact(p, what))
<1>1. CASE what = "total"
  BY <1>1, SumOfTenths, RoundedThird DEF Rating, Exact, NearestTenth
<1>2. CASE what # "total"
  <2>1. p[what] \in 0..50
    BY <1>2 DEF Tenths
  <2> QED
    BY <1>2, <2>1 DEF Rating, Exact, NearestTenth
<1> QED
  BY <1>1, <1>2

(* Rounding twice never costs half a star: the row is the nearest one.     *)
THEOREM StarsAreNearest ==
  ASSUME NEW p \in [Criteria -> Tenths], NEW what \in Criteria \cup {"total"}
  PROVE  NearestHalfStar(Stars(Rating(p, what)), Exact(p, what))
<1> DEFINE r == Rating(p, what)
           exact == Exact(p, what)
           halves == FilledHalves(Stars(r))
<1>1. r \in 0..50
  BY RatingIsTenths
<1>2. 5 * halves - r \in -2..2
  BY <1>1, FiveStars
<1>3. exact \in Int /\ 3 * r - exact \in -1..1
  BY AverageIsNearest, ExactIsNumber DEF NearestTenth
<1>4. halves \in Int
  BY StarIsHalves DEF FilledHalves, Stars
<1> HIDE DEF r, exact, halves
<1>5. -15 < 2 * (15 * halves - exact) /\ 2 * (15 * halves - exact) < 15
  BY <1>1, <1>2, <1>3, <1>4
<1> QED
  BY <1>5 DEF NearestHalfStar, r, exact, halves

(* The stars fill from the left.                                           *)
THEOREM StarsFillUp ==
  ASSUME NEW r \in 0..50
  PROVE  FromTheLeft(Stars(r))
<1>1. \A i, j \in 1..5 : i < j /\ Star(r, j - 1) > 0 => Star(r, i - 1) = 2
  BY DEF Star
<1> QED
  BY <1>1 DEF FromTheLeft, Stars

-------------------------------------------------------------------------------
(* Pages and tables.                                                       *)

BookingRows == [user : Users, property : Nat]

Tables ==
  /\ properties \in Seq(PropertyRows)
  /\ bookings \in Seq(BookingRows)
  /\ \A b \in 1..Len(bookings) : bookings[b].property \in 1..Len(properties)

(* The pages about one property.                                           *)
About == {"detail", "booking", "payment", "paid"}

(* A page, given the property opened last, the number of properties and    *)
(* the bookings.                                                           *)
ListSound(pg, n) == pg.at = "list" => Range(pg.cards) \subseteq 1..n

AboutSound(pg, opened, n) ==
  pg.at \in About => pg \in [at : About, property : 1..n] /\ pg.property = opened

DashboardSound(pg, books) ==
  pg.at = "dashboard" => pg.shown \subseteq 1..Len(books)

PageSound(pg, opened, n, books) ==
  /\ ListSound(pg, n)
  /\ AboutSound(pg, opened, n)
  /\ DashboardSound(pg, books)

BrowseInv == Tables /\ PageSound(page, asked.property, Len(properties), bookings)

-------------------------------------------------------------------------------
(* Pages that speak of no row.                                             *)
LEMMA BarePages ==
  ASSUME NEW pg, pg.at \in {"home", "notFound"}
  PROVE  \A opened, n, books : PageSound(pg, opened, n, books)
BY DEF PageSound, ListSound, AboutSound, DashboardSound, About

LEMMA AboutPages ==
  ASSUME NEW at \in About, NEW n, NEW p \in 1..n
  PROVE  \A books : PageSound([at |-> at, property |-> p], p, n, books)
BY DEF PageSound, ListSound, AboutSound, DashboardSound, About

(* More rows do not hurt a page.                                           *)
LEMMA MoreProperties ==
  ASSUME NEW pg, NEW opened, NEW books, NEW n \in Nat,
         PageSound(pg, opened, n, books)
  PROVE  PageSound(pg, opened, n + 1, books)
<1>1. 1..n \subseteq 1..(n + 1)
  OBVIOUS
<1>2. ListSound(pg, n + 1)
  BY <1>1 DEF PageSound, ListSound
<1>3. AboutSound(pg, opened, n + 1)
  <2> SUFFICES ASSUME pg.at \in About
               PROVE  pg \in [at : About, property : 1..(n + 1)] /\ pg.property = opened
    BY DEF AboutSound
  <2>1. pg \in [at : About, property : 1..n] /\ pg.property = opened
    BY DEF PageSound, AboutSound
  <2> QED  BY <2>1, <1>1
<1> QED  BY <1>2, <1>3 DEF PageSound

LEMMA MoreBookings ==
  ASSUME NEW pg, NEW opened, NEW n, NEW books \in Seq(BookingRows),
         NEW row \in BookingRows, PageSound(pg, opened, n, books)
  PROVE  PageSound(pg, opened, n, Append(books, row))
<1> DEFINE more == Append(books, row)
<1>1. Len(books) \in Nat /\ Len(more) = Len(books) + 1
  OBVIOUS
<1> HIDE DEF more
<1>2. 1..Len(books) \subseteq 1..Len(more)
  BY <1>1
<1> QED  BY <1>2 DEF PageSound, ListSound, AboutSound, DashboardSound, more

-------------------------------------------------------------------------------
(* The steps of the tab.                                                   *)

LEMMA ListsAreSound ==
  ASSUME BrowseInv, NEW q, OpenList(q)
  PROVE  \A opened : PageSound(page', opened, Len(properties), bookings)
<1>1. CASE page' = [at |-> "notFound"]
  <2>1. page'.at = "notFound"
    BY <1>1
  <2> QED  BY <2>1, BarePages
<1>2. CASE page' # [at |-> "notFound"]
  <2>1. PICK cards \in SetToSeqs(Matching(q)) :
          page' = [at |-> "list", query |-> q, listed |-> Len(properties), cards |-> cards]
    BY <1>2 DEF OpenList
  <2>2. page'.at = "list" /\ page'.cards = cards
    BY <2>1
  <2>3. cards \in [1..Cardinality(Matching(q)) -> Matching(q)]
    BY <2>1 DEF SetToSeqs
  <2>4. Range(cards) \subseteq Matching(q)
    BY <2>3 DEF Range
  <2>5. Matching(q) \subseteq 1..Len(properties)
    BY DEF Matching, BrowseInv, Tables
  <2> QED
    BY <2>2, <2>4, <2>5 DEF PageSound, ListSound, AboutSound, DashboardSound, About
<1> QED  BY <1>1, <1>2

LEMMA ListStep ==
  ASSUME BrowseInv, UNCHANGED Rows, NEW q, OpenList(q)
  PROVE  BrowseInv'
<1>1. properties' = properties /\ bookings' = bookings
  BY DEF Rows
<1>2. PageSound(page', asked'.property, Len(properties), bookings)
  BY ListsAreSound
<1> QED  BY <1>1, <1>2 DEF BrowseInv, Tables

LEMMA HomeStep ==
  ASSUME BrowseInv, UNCHANGED <<properties, bookings>>, page' = Home
  PROVE  BrowseInv'
<1>1. page'.at = "home"
  BY DEF Home
<1>2. PageSound(page', asked'.property, Len(properties), bookings)
  BY <1>1, BarePages
<1> QED  BY <1>2 DEF BrowseInv, Tables

LEMMA AboutStep ==
  ASSUME BrowseInv, UNCHANGED <<properties, bookings>>,
         NEW at \in About, NEW p \in 1..Len(properties),
         page' = [at |-> at, property |-> p], asked'.property = p
  PROVE  BrowseInv'
<1>1. PageSound(page', asked'.property, Len(properties), bookings)
  BY AboutPages
<1> QED  BY <1>1 DEF BrowseInv, Tables

LEMMA OpenedStays ==
  ASSUME BrowseInv, page.at \in About
  PROVE  /\ page.property \in 1..Len(properties) /\ page.property = asked.property
         /\ page \in [at : About, property : 1..Len(properties)]
BY DEF BrowseInv, PageSound, AboutSound

LEMMA BookedRow ==
  ASSUME BrowseInv, NEW u \in Users, NEW p \in 1..Len(properties),
         bookings' = Append(bookings, [user |-> u, property |-> p]),
         properties' = properties
  PROVE  Tables'
<1>1. [user |-> u, property |-> p] \in BookingRows
  BY DEF BookingRows
<1>2. bookings' \in Seq(BookingRows) /\ Len(bookings') = Len(bookings) + 1
  BY <1>1 DEF BrowseInv, Tables
<1>3. \A b \in 1..Len(bookings') :
        bookings'[b] = IF b = Len(bookings) + 1 THEN [user |-> u, property |-> p] ELSE bookings[b]
  BY <1>1, <1>2 DEF BrowseInv, Tables
<1>4. \A b \in 1..Len(bookings') : bookings'[b].property \in 1..Len(properties)
  <2> TAKE b \in 1..Len(bookings')
  <2>1. CASE b = Len(bookings) + 1
    BY <2>1, <1>3
  <2>2. CASE b # Len(bookings) + 1
    <3>1. b \in 1..Len(bookings)
      BY <2>2, <1>2 DEF BrowseInv, Tables
    <3> QED  BY <2>2, <3>1, <1>3 DEF BrowseInv, Tables
  <2> QED  BY <2>1, <2>2
<1> QED  BY <1>2, <1>4 DEF BrowseInv, Tables

LEMMA PayStep ==
  ASSUME BrowseInv, user \in Users \cup {NoUser}, Pay
  PROVE  BrowseInv'
<1> DEFINE row == [user |-> user, property |-> page.property]
<1>1. /\ page.at = "payment" /\ user \in Users
      /\ bookings' = Append(bookings, row)
      /\ page' = [page EXCEPT !.at = "paid"]
      /\ properties' = properties /\ asked' = asked
  BY DEF Pay
<1>2. page.at \in About
  BY <1>1 DEF About
<1>3. /\ page \in [at : About, property : 1..Len(properties)]
      /\ page.property \in 1..Len(properties) /\ page.property = asked.property
  BY <1>2, OpenedStays
<1>4. Tables'
  BY <1>1, <1>3, BookedRow
<1>5. page'.at = "paid" /\ page'.property = page.property
      /\ page' \in [at : About, property : 1..Len(properties)]
  BY <1>1, <1>3 DEF About
<1>6. PageSound(page', asked'.property, Len(properties'), bookings')
  BY <1>1, <1>3, <1>5 DEF PageSound, ListSound, AboutSound, DashboardSound
<1> QED  BY <1>4, <1>6 DEF BrowseInv

LEMMA OpenDashboardStep ==
  ASSUME BrowseInv, OpenDashboard
  PROVE  BrowseInv'
<1>1. UNCHANGED <<properties, bookings, asked>>
  BY DEF OpenDashboard, Members, Show
<1>2. CASE page' = Home
  BY <1>1, <1>2, HomeStep
<1>3. CASE page' = DashboardOf(user)
  <2>1. page'.at = "dashboard" /\ page'.shown \subseteq DOMAIN bookings
    BY <1>3 DEF DashboardOf
  <2>2. DOMAIN bookings = 1..Len(bookings)
    BY DEF BrowseInv, Tables
  <2>3. PageSound(page', asked'.property, Len(properties), bookings)
    BY <2>1, <2>2 DEF PageSound, ListSound, AboutSound, DashboardSound, About
  <2> QED  BY <1>1, <2>3 DEF BrowseInv, Tables
<1> QED  BY <1>2, <1>3 DEF OpenDashboard, Members, Show

(* Home, or else one of the pages about the property at hand.              *)
LEMMA MembersStep ==
  ASSUME BrowseInv, page.at \in About, NEW at \in About,
         \/ Members([at |-> at, property |-> page.property])
         \/ Show([at |-> at, property |-> page.property])
  PROVE  BrowseInv'
<1>1. UNCHANGED <<properties, bookings, asked>>
  BY DEF Members, Show
<1>2. page' = Home \/ page' = [at |-> at, property |-> page.property]
  BY DEF Members, Show
<1>3. page.property \in 1..Len(properties) /\ page.property = asked'.property
  BY <1>1, OpenedStays
<1> QED  BY <1>1, <1>2, <1>3, HomeStep, AboutStep

LEMMA TabStep ==
  ASSUME BrowseInv, user \in Users \cup {NoUser}, Tab
  PROVE  BrowseInv'
<1>1. CASE Show(Home)
  BY <1>1, HomeStep DEF Show
<1>2. ASSUME NEW name, ChooseCity(name) PROVE BrowseInv'
  BY <1>2, ListStep DEF ChooseCity
<1>3. ASSUME NEW sort, SortLink(sort) PROVE BrowseInv'
  BY <1>3, ListStep DEF SortLink
<1>4. ASSUME NEW gender, GenderLink(gender) PROVE BrowseInv'
  BY <1>4, ListStep DEF GenderLink
<1>5. CASE ClearFilters
  BY <1>5, ListStep DEF ClearFilters
<1>6. ASSUME NEW p \in DOMAIN properties, ViewCard(p) PROVE BrowseInv'
  <2>1. p \in 1..Len(properties)
    BY DEF BrowseInv, Tables
  <2>2. page' = [at |-> "detail", property |-> p] /\ UNCHANGED <<properties, bookings>>
    BY <1>6 DEF ViewCard, DetailOf, DetailRow, Rows
  <2>3. asked'.property = p
    BY <1>6 DEF ViewCard, Nothing
  <2>4. "detail" \in About
    BY DEF About
  <2> QED  BY <2>1, <2>2, <2>3, <2>4, AboutStep
<1>7. CASE PropertyBreadcrumb
  <2>1. page.at \in About /\ "detail" \in About
    BY <1>7 DEF PropertyBreadcrumb, About
  <2>2. Show([at |-> "detail", property |-> page.property])
    BY <1>7 DEF PropertyBreadcrumb, DetailOf, DetailRow
  <2> QED  BY <2>1, <2>2, MembersStep
<1>8. CASE BookNow
  <2>1. page.at \in About /\ "booking" \in About
    BY <1>8 DEF BookNow, About
  <2> QED  BY <1>8, <2>1, MembersStep DEF BookNow
<1>9. CASE ProceedToPayment
  <2>1. page.at \in About /\ "payment" \in About
    BY <1>9 DEF ProceedToPayment, About
  <2> QED  BY <1>9, <2>1, MembersStep DEF ProceedToPayment
<1>10. CASE Pay
  BY <1>10, PayStep
<1>11. CASE OpenDashboard
  BY <1>11, OpenDashboardStep
<1> QED
  BY <1>1, <1>2, <1>3, <1>4, <1>5, <1>6, <1>7, <1>8, <1>9, <1>10, <1>11
     DEF Tab, Search, FooterLink, CityBreadcrumb

-------------------------------------------------------------------------------
(* The steps of others.                                                    *)

LEMMA ListedRow ==
  ASSUME BrowseInv,
         NEW city \in DOMAIN Cities, NEW gender \in Genders, NEW rent \in Rents,
         NEW rating \in NewRatings, List(city, gender, rent, rating)
  PROVE  BrowseInv'
<1> DEFINE row == [city |-> city, gender |-> gender, rent |-> rent, rating |-> rating]
<1>1. properties' = Append(properties, row) /\ UNCHANGED <<bookings, page, asked>>
  BY DEF List
<1>2. row \in PropertyRows
  <2>1. rating \in [Criteria -> 35..50]
    BY BrowseAssumption
  <2>2. rating \in [Criteria -> Tenths]
    BY <2>1 DEF Tenths
  <2> QED  BY <2>2 DEF PropertyRows
<1> HIDE DEF row
<1>3. /\ properties' \in Seq(PropertyRows)
      /\ Len(properties) \in Nat /\ Len(properties') = Len(properties) + 1
  BY <1>1, <1>2 DEF BrowseInv, Tables
<1>4. Tables'
  BY <1>1, <1>3 DEF BrowseInv, Tables
<1>5. PageSound(page, asked.property, Len(properties) + 1, bookings)
  BY <1>3, MoreProperties DEF BrowseInv
<1> QED  BY <1>1, <1>3, <1>4, <1>5 DEF BrowseInv

LEMMA BookStep ==
  ASSUME BrowseInv, NEW u \in Users, NEW p \in DOMAIN properties, Book(u, p)
  PROVE  BrowseInv'
<1> DEFINE row == [user |-> u, property |-> p]
<1>1. p \in 1..Len(properties) /\ p \in Nat
  BY DEF BrowseInv, Tables
<1>2. bookings' = Append(bookings, row) /\ UNCHANGED <<properties, page, asked>>
  BY DEF Book
<1>3. Tables'
  BY <1>1, <1>2, BookedRow
<1>4. row \in BookingRows
  BY <1>1 DEF BookingRows
<1>5. bookings \in Seq(BookingRows)
  BY DEF BrowseInv, Tables
<1> HIDE DEF row
<1>6. PageSound(page, asked.property, Len(properties), Append(bookings, row))
  BY <1>4, <1>5, MoreBookings DEF BrowseInv
<1> QED  BY <1>2, <1>3, <1>6 DEF BrowseInv

-------------------------------------------------------------------------------
KnownUser == user \in Users \cup {NoUser}

LEMMA BrowseInvariance == Spec => [](BrowseInv /\ KnownUser)
<1>1. Init => BrowseInv /\ KnownUser
  <2> SUFFICES ASSUME Init PROVE BrowseInv /\ KnownUser
    OBVIOUS
  <2>1. Tables
    BY BrowseAssumption DEF Init, Tables
  <2>2. page.at = "home"
    BY DEF Init, Home
  <2>3. PageSound(page, asked.property, Len(properties), bookings)
    BY <2>2, BarePages
  <2> QED  BY <2>1, <2>3 DEF BrowseInv, KnownUser, Init
<1>2. BrowseInv /\ KnownUser /\ [Next]_vars => (BrowseInv /\ KnownUser)'
  <2> SUFFICES ASSUME BrowseInv, KnownUser, [Next]_vars PROVE BrowseInv' /\ KnownUser'
    OBVIOUS
  <2>1. KnownUser'
    BY DEF KnownUser, Next, Tab, Others, Show, Search, FooterLink,
           CityBreadcrumb, ChooseCity, SortLink, GenderLink, ClearFilters, ViewCard,
           PropertyBreadcrumb, BookNow, ProceedToPayment, Members, Pay, OpenDashboard,
           Login, Logout, List, Book, Rows, vars
  <2>2. CASE Tab
    BY <2>1, <2>2, TabStep DEF KnownUser
  <2>3. CASE Others
    <3>1. CASE \/ \E u \in Users : Login(u)
               \/ Logout
      BY <2>1, <3>1 DEF Login, Logout, BrowseInv, Tables
    <3> QED  BY <2>1, <2>3, <3>1, ListedRow, BookStep DEF Others
  <2>4. CASE UNCHANGED vars
    BY <2>1, <2>4 DEF vars, BrowseInv, Tables
  <2> QED  BY <2>1, <2>2, <2>3, <2>4 DEF Next
<1> QED  BY <1>1, <1>2, PTL DEF Spec

-------------------------------------------------------------------------------
(* Types.                                                                  *)

ListPages ==
  [at : {"list"}, query : Queries, listed : 0..Len(properties), cards : Seq(DOMAIN properties)]

LEMMA PageTypes ==
  /\ \A at \in {"home", "notFound"} : [at |-> at] \in Pages
  /\ ListPages \subseteq Pages
  /\ \A at \in About, p \in DOMAIN properties : [at |-> at, property |-> p] \in Pages
  /\ \A u \in Users, shown \in SUBSET DOMAIN bookings :
       [at |-> "dashboard", profile |-> u, shown |-> shown] \in Pages
  BY DEF Pages, ListPages, About

LEMMA TypedPages ==
  ASSUME NEW pg \in Pages
  PROVE  /\ pg.at = "list" => pg \in ListPages
         /\ pg.at \in About => pg \in [at : About, property : DOMAIN properties]
  BY DEF Pages, ListPages, About

(* As the tables grow, what a tab may show stays so.                       *)
LEMMA PagesGrow ==
  ASSUME Len(properties) \in Nat, Len(properties') \in Nat,
         Len(properties) <= Len(properties'),
         DOMAIN properties \subseteq DOMAIN properties',
         DOMAIN bookings \subseteq DOMAIN bookings'
  PROVE  Pages \subseteq Pages' /\ Wishes \subseteq Wishes'
<1>1. 0..Len(properties) \subseteq 0..Len(properties')
  OBVIOUS
<1>2. Seq(DOMAIN properties) \subseteq Seq(DOMAIN properties')
  BY SeqMonotonic
<1>3. SUBSET DOMAIN bookings \subseteq SUBSET DOMAIN bookings'
  OBVIOUS
<1>4. Queries' = Queries
  BY DEF Queries, Names, Genders
<1>5. Pages \subseteq Pages'
  BY <1>1, <1>2, <1>3, <1>4 DEF Pages
<1>6. Wishes \subseteq Wishes'
  BY DEF Wishes
<1> QED  BY <1>5, <1>6

LEMMA MatchingIsFinite ==
  ASSUME NEW q, properties \in Seq(PropertyRows)
  PROVE  IsFiniteSet(Matching(q)) /\ Cardinality(Matching(q)) \in Nat
<1>1. /\ Len(properties) \in Nat /\ DOMAIN properties = 1..Len(properties)
      /\ Matching(q) \in SUBSET (1..Len(properties))
  BY DEF Matching
<1>2. IsFiniteSet(1..Len(properties))
  BY <1>1, FS_Interval
<1>3. IsFiniteSet(Matching(q))
  BY <1>1, <1>2, FS_Subset
<1> QED  BY <1>3, FS_CardinalityType

LEMMA ListIsPage ==
  ASSUME TypeOK, NEW q \in Queries, OpenList(q)
  PROVE  page' \in Pages
<1>1. CASE page' = [at |-> "notFound"]
  BY <1>1, PageTypes
<1>2. CASE page' # [at |-> "notFound"]
  <2>1. PICK cards \in SetToSeqs(Matching(q)) :
          page' = [at |-> "list", query |-> q, listed |-> Len(properties), cards |-> cards]
    BY <1>2 DEF OpenList
  <2>2. cards \in [1..Cardinality(Matching(q)) -> DOMAIN properties]
    BY <2>1 DEF SetToSeqs, Matching
  <2>3. Cardinality(Matching(q)) \in Nat
    BY MatchingIsFinite DEF TypeOK
  <2>4. cards \in Seq(DOMAIN properties)
    BY <2>2, <2>3
  <2>5. Len(properties) \in 0..Len(properties)
    BY DEF TypeOK
  <2> QED  BY <2>1, <2>4, <2>5, PageTypes DEF ListPages
<1> QED  BY <1>1, <1>2

(* The addresses of lists.                                                 *)
LEMMA QueryTypes ==
  /\ \A name \in Names \cup {Elsewhere} : Query(name) \in Queries
  /\ \A q \in Queries :
       /\ real_escape_string(q.city) \in [name : Names \cup {Elsewhere}, escaped : BOOLEAN]
       /\ \A city \in [name : Names \cup {Elsewhere}, escaped : BOOLEAN],
             gender \in Genders \cup {"any"}, sort \in {"asc", "desc", "none"} :
            [city |-> city, gender |-> gender, sort |-> sort] \in Queries
       /\ q = [city |-> q.city, gender |-> q.gender, sort |-> q.sort]
<1>1. ASSUME NEW name \in Names \cup {Elsewhere}
      PROVE  Query(name) \in Queries
  BY DEF Query, Queries
<1>2. ASSUME NEW city \in [name : Names \cup {Elsewhere}, escaped : BOOLEAN]
      PROVE  real_escape_string(city) \in [name : Names \cup {Elsewhere}, escaped : BOOLEAN]
  <2>1. real_escape_string(city) =
          [name |-> city.name, escaped |-> city.escaped \/ city.name \in Quoted]
    BY DEF real_escape_string
  <2> QED  BY <2>1
<1> QED  BY <1>1, <1>2 DEF Queries

(* A link of a list keeps what it does not set.                            *)
LinkOf(q, gender, sort) ==
  [city |-> real_escape_string(q.city), gender |-> gender, sort |-> sort]

LEMMA LinkAddresses ==
  ASSUME NEW q \in Queries
  PROVE  /\ \A sort : [q EXCEPT !.city = real_escape_string(@), !.sort = sort]
                      = LinkOf(q, q.gender, sort)
         /\ \A gender : [q EXCEPT !.city = real_escape_string(@), !.gender = gender]
                        = LinkOf(q, gender, q.sort)
         /\ [q EXCEPT !.city = real_escape_string(@), !.gender = "any", !.sort = "none"]
              = LinkOf(q, "any", "none")
         /\ \A gender \in Genders \cup {"any"}, sort \in {"asc", "desc", "none"} :
              LinkOf(q, gender, sort) \in Queries
         /\ q.gender \in Genders \cup {"any"} /\ q.sort \in {"asc", "desc", "none"}
<1> DEFINE city == real_escape_string(q.city)
<1>1. q = [city |-> q.city, gender |-> q.gender, sort |-> q.sort]
  BY QueryTypes
<1>2. /\ q.gender \in Genders \cup {"any"} /\ q.sort \in {"asc", "desc", "none"}
      /\ city \in [name : Names \cup {Elsewhere}, escaped : BOOLEAN]
  BY QueryTypes DEF Queries
<1>3. \A gender \in Genders \cup {"any"}, sort \in {"asc", "desc", "none"} :
        LinkOf(q, gender, sort) \in Queries
  BY <1>2 DEF LinkOf, Queries
<1> DEFINE c == q.city  g == q.gender  s == q.sort
<1>4. q = [city |-> c, gender |-> g, sort |-> s]
  BY <1>1
<1> HIDE DEF city, c, g, s
<1>5. ASSUME NEW gender, NEW sort
      PROVE  /\ [q EXCEPT !.city = city, !.sort = sort]
                  = [city |-> city, gender |-> g, sort |-> sort]
             /\ [q EXCEPT !.city = city, !.gender = gender]
                  = [city |-> city, gender |-> gender, sort |-> s]
             /\ [q EXCEPT !.city = city, !.gender = gender, !.sort = sort]
                  = [city |-> city, gender |-> gender, sort |-> sort]
  <2> DEFINE moved == [q EXCEPT !.city = city]
             there == [moved EXCEPT !.gender = gender]
  <2>1. moved = [city |-> city, gender |-> g, sort |-> s]
    BY <1>4
  <2> HIDE DEF moved
  <2>2. [moved EXCEPT !.sort = sort] = [city |-> city, gender |-> g, sort |-> sort]
    BY <2>1
  <2>3. there = [city |-> city, gender |-> gender, sort |-> s]
    BY <2>1
  <2> HIDE DEF there
  <2>4. [there EXCEPT !.sort = sort] = [city |-> city, gender |-> gender, sort |-> sort]
    BY <2>3
  <2> QED  BY <2>2, <2>3, <2>4 DEF moved, there
<1> USE DEF city, g, s
<1>6. \A sort : [q EXCEPT !.city = real_escape_string(@), !.sort = sort]
               = LinkOf(q, q.gender, sort)
  <2> TAKE sort
  <2> QED  BY <1>5 DEF LinkOf
<1>7. \A gender : [q EXCEPT !.city = real_escape_string(@), !.gender = gender]
                 = LinkOf(q, gender, q.sort)
  <2> TAKE gender
  <2> QED  BY <1>5 DEF LinkOf
<1>8. [q EXCEPT !.city = real_escape_string(@), !.gender = "any", !.sort = "none"]
        = LinkOf(q, "any", "none")
  BY <1>5 DEF LinkOf
<1> QED  BY <1>2, <1>3, <1>6, <1>7, <1>8

(* An address asks for what the visitor chose.                             *)
Asks(q, choice) ==
  q.city.name = choice.name /\ q.gender = choice.gender /\ q.sort = choice.sort

(* What a list shows is what was asked for, and its address still asks for *)
(* it, backslashes or not.                                                 *)
ListInv ==
  page.at = "list" =>
    /\ Asks(page.query, asked)
    /\ page.listed \in 0..Len(properties)
    /\ ListsWhatWasChosen

(* Pages and wishes speak of the tables only.                              *)
LEMMA SamePages ==
  ASSUME UNCHANGED <<properties, bookings>>
  PROVE  Pages' = Pages /\ Wishes' = Wishes
BY DEF Pages, Wishes, Queries, Names, Genders

(* A request for a list, with the choice it comes from.                    *)
ListRequest ==
  /\ asked' \in Wishes
  /\ UNCHANGED Rows
  /\ \E q \in Queries : OpenList(q) /\ Asks(q, asked')

LEMMA ChoosingAsks ==
  ASSUME NEW name \in Names \cup {Elsewhere}, ChooseCity(name)
  PROVE  ListRequest
<1>1. OpenList(Query(name)) /\ asked' = [Nothing EXCEPT !.name = name] /\ UNCHANGED Rows
  BY DEF ChooseCity
<1>2. asked' = [name |-> name, gender |-> "any", sort |-> "none", property |-> 0]
  BY <1>1 DEF Nothing
<1>3. asked' \in Wishes
  BY <1>2, BrowseAssumption DEF Wishes
<1>4. Asks(Query(name), asked')
  BY <1>2 DEF Asks, Query
<1> QED  BY <1>1, <1>3, <1>4, QueryTypes DEF ListRequest

(* A link of a list: it sets gender or order, in the address and in what   *)
(* the visitor has chosen.                                                 *)
LEMMA LinkAsks ==
  ASSUME TypeOK, ListInv, page.at = "list",
         NEW gender \in Genders \cup {"any"}, NEW sort \in {"asc", "desc", "none"},
         OpenList(LinkOf(page.query, gender, sort)),
         asked' = [asked EXCEPT !.gender = gender, !.sort = sort],
         UNCHANGED Rows
  PROVE  ListRequest
<1>1. page.query \in Queries
  BY TypedPages DEF TypeOK, ListPages
<1>2. LinkOf(page.query, gender, sort) \in Queries
  BY <1>1, LinkAddresses
<1>3. asked' \in Wishes /\ asked'.name = asked.name
      /\ asked'.gender = gender /\ asked'.sort = sort
  BY DEF TypeOK, Wishes
<1>4. real_escape_string(page.query.city).name = page.query.city.name
  BY <1>1 DEF real_escape_string, Queries
<1>5. Asks(LinkOf(page.query, gender, sort), asked')
  BY <1>3, <1>4 DEF Asks, LinkOf, ListInv
<1> QED  BY <1>2, <1>3, <1>5 DEF ListRequest

LEMMA LinkSteps ==
  ASSUME TypeOK, ListInv,
         \/ \E sort \in {"asc", "desc"} : SortLink(sort)
         \/ \E gender \in Genders \cup {"any"} : GenderLink(gender)
         \/ ClearFilters
  PROVE  ListRequest
<1>1. page.at = "list" /\ UNCHANGED Rows
  BY DEF SortLink, GenderLink, ClearFilters
<1>2. page.query \in Queries
  BY <1>1, TypedPages DEF TypeOK, ListPages
<1>3. page.query.gender = asked.gender /\ page.query.sort = asked.sort
  BY <1>1 DEF ListInv, Asks
<1>4. asked = [name |-> asked.name, gender |-> asked.gender, sort |-> asked.sort,
               property |-> asked.property]
  BY DEF TypeOK, Wishes
<1>5. ASSUME NEW sort \in {"asc", "desc"}, SortLink(sort)
      PROVE  ListRequest
  <2>1. OpenList(LinkOf(page.query, page.query.gender, sort))
    BY <1>2, <1>5, LinkAddresses DEF SortLink
  <2>2. asked' = [asked EXCEPT !.gender = page.query.gender, !.sort = sort]
    BY <1>3, <1>4, <1>5 DEF SortLink
  <2> QED  BY <1>1, <1>2, <2>1, <2>2, LinkAddresses, LinkAsks
<1>6. ASSUME NEW gender \in Genders \cup {"any"}, GenderLink(gender)
      PROVE  ListRequest
  <2>1. OpenList(LinkOf(page.query, gender, page.query.sort))
    BY <1>2, <1>6, LinkAddresses DEF GenderLink
  <2>2. asked' = [asked EXCEPT !.gender = gender, !.sort = page.query.sort]
    BY <1>3, <1>4, <1>6 DEF GenderLink
  <2> QED  BY <1>1, <1>2, <2>1, <2>2, LinkAddresses, LinkAsks
<1>7. CASE ClearFilters
  <2>1. OpenList(LinkOf(page.query, "any", "none"))
    BY <1>2, <1>7, LinkAddresses DEF ClearFilters
  <2>2. asked' = [asked EXCEPT !.gender = "any", !.sort = "none"]
    BY <1>7 DEF ClearFilters
  <2> QED  BY <1>1, <2>1, <2>2, LinkAsks
<1> QED  BY <1>5, <1>6, <1>7

(* A sequence of a finite set without repetition, as long as the set,      *)
(* leaves none of it out.                                                  *)
LEMMA CardsAreAll ==
  ASSUME TypeOK, NEW q, NEW cards \in SetToSeqs(Matching(q))
  PROVE  Range(cards) = Matching(q)
<1> DEFINE S == Matching(q)
           D == 1..Cardinality(S)
<1>1. IsFiniteSet(S) /\ Cardinality(S) \in Nat
  BY MatchingIsFinite DEF TypeOK
<1>2. cards \in [D -> S] /\ \A i, j \in D : i # j => cards[i] # cards[j]
  BY DEF SetToSeqs
<1> HIDE DEF S
<1>3. Cardinality(D) = Cardinality(S)
  <2>1. 1 \in Int /\ Cardinality(S) \in Int
    BY <1>1
  <2>2. Cardinality(D) = IF 1 > Cardinality(S) THEN 0 ELSE Cardinality(S) - 1 + 1
    BY <2>1, FS_Interval
  <2> QED  BY <1>1, <2>2
<1> HIDE DEF D
<1>4. cards \in Injection(D, S)
  BY <1>2 DEF Injection, IsInjective
<1>5. cards \in Surjection(D, S)
  BY <1>1, <1>3, <1>4, FS_Injection
<1>6. Range(cards) = S
  BY <1>5, Fun_SurjectionProperties
<1> QED  BY <1>6 DEF S

(* A list that has just been asked for is what was chosen.                 *)
LEMMA ListRequestStep ==
  ASSUME TypeOK, ListRequest
  PROVE  TypeOK' /\ ListInv'
<1>1. PICK q \in Queries : OpenList(q) /\ Asks(q, asked')
  BY DEF ListRequest
<1>2. properties' = properties /\ bookings' = bookings /\ user' = user /\ asked' \in Wishes
  BY DEF ListRequest, Rows
<1>3. TypeOK'
  BY <1>1, <1>2, ListIsPage, SamePages DEF TypeOK
<1>4. CASE page' = [at |-> "notFound"]
  <2>1. page'.at = "notFound"
    BY <1>4
  <2> QED  BY <1>3, <2>1 DEF ListInv
<1>5. CASE page' # [at |-> "notFound"]
  <2>1. PICK cards \in SetToSeqs(Matching(q)) :
          /\ InOrder(cards, q.sort)
          /\ page' = [at |-> "list", query |-> q, listed |-> Len(properties), cards |-> cards]
    BY <1>1, <1>5 DEF OpenList
  <2>2. page'.query = q /\ page'.listed = Len(properties) /\ page'.cards = cards
    BY <2>1
  <2>3. Range(cards) = Matching(q)
    BY CardsAreAll
  <2>4. /\ DOMAIN properties = 1..Len(properties)
        /\ Len(properties) \in Nat
    BY DEF TypeOK
  <2>5. Range(page'.cards) =
          {p \in 1..page'.listed : /\ Cities[properties'[p].city] = asked'.name
                                   /\ asked'.gender \in {properties'[p].gender, "any"}}
    BY <1>1, <1>2, <2>2, <2>3, <2>4 DEF Matching, Asks
  <2>6. InOrder(page.cards, asked.sort)'
    BY <1>1, <1>2, <2>1, <2>2 DEF InOrder, Asks
  <2>7. ListsWhatWasChosen'
    BY <2>5, <2>6 DEF ListsWhatWasChosen
  <2> QED  BY <1>1, <1>2, <1>3, <2>2, <2>4, <2>7 DEF ListInv
<1> QED  BY <1>4, <1>5

(* Any other page.                                                         *)
LEMMA OtherPageStep ==
  ASSUME TypeOK, page' \in Pages, page'.at # "list", asked' \in Wishes, UNCHANGED Rows
  PROVE  TypeOK' /\ ListInv'
BY SamePages DEF TypeOK, ListInv, Rows

LEMMA OpenedTypes ==
  ASSUME TypeOK, BrowseInv, page.at \in About
  PROVE  /\ page.property \in 1..Len(properties)
         /\ Cities[properties[page.property].city] \in Names
         /\ \A at \in About : [at |-> at, property |-> page.property] \in Pages
<1>1. page.property \in 1..Len(properties)
  BY OpenedStays
<1>2. properties[page.property] \in PropertyRows
  BY <1>1 DEF TypeOK
<1>3. properties[page.property].city \in DOMAIN Cities
  BY <1>2 DEF PropertyRows
<1>4. page.property \in DOMAIN properties
  BY <1>1 DEF TypeOK
<1> QED  BY <1>1, <1>3, <1>4, PageTypes DEF Names, Range

LEMMA MembersTypes ==
  ASSUME TypeOK, NEW pg \in Pages, pg.at # "list", Members(pg) \/ Show(pg)
  PROVE  TypeOK' /\ ListInv'
<1>1. UNCHANGED Rows /\ asked' = asked /\ page' \in {Home, pg}
  BY DEF Members, Show, Rows
<1>2. Home \in Pages /\ Home.at # "list"
  BY PageTypes DEF Home
<1> QED  BY <1>1, <1>2, OtherPageStep DEF TypeOK

(* A booking more.                                                         *)
LEMMA BookedTypes ==
  ASSUME TypeOK, NEW u \in Users, NEW p \in DOMAIN properties, Len(bookings) < MaxBookings,
         bookings' = Append(bookings, [user |-> u, property |-> p]),
         properties' = properties, user' = user, asked' = asked, page' \in Pages
  PROVE  TypeOK'
<1>1. [user |-> u, property |-> p] \in [user : Users, property : DOMAIN properties]
  OBVIOUS
<1>2. bookings' \in Seq([user : Users, property : DOMAIN properties])
  BY <1>1 DEF TypeOK
<1>3. Len(bookings') <= MaxBookings
  <2>1. Len(bookings) \in Nat /\ Len(bookings') = Len(bookings) + 1
    BY DEF TypeOK
  <2> QED  BY <2>1, BrowseAssumption
<1>4. Pages \subseteq Pages' /\ Wishes \subseteq Wishes'
  <2>1. DOMAIN bookings \subseteq DOMAIN bookings' /\ Len(properties) \in Nat
    BY DEF TypeOK
  <2> QED  BY <2>1, PagesGrow
<1> QED  BY <1>2, <1>3, <1>4 DEF TypeOK

LEMMA PayTypes ==
  ASSUME TypeOK, BrowseInv, Pay
  PROVE  TypeOK' /\ ListInv'
<1>1. /\ page.at = "payment" /\ user \in Users /\ Len(bookings) < MaxBookings
      /\ bookings' = Append(bookings, [user |-> user, property |-> page.property])
      /\ page' = [page EXCEPT !.at = "paid"]
      /\ properties' = properties /\ user' = user /\ asked' = asked
  BY DEF Pay, TypeOK
<1>2. page.at \in About /\ "paid" \in About
  BY <1>1 DEF About
<1>3. page = [at |-> page.at, property |-> page.property]
  BY <1>2, OpenedStays
<1>4. page' = [at |-> "paid", property |-> page.property]
  BY <1>1, <1>3
<1>5. page' \in Pages /\ page'.at # "list"
  BY <1>2, <1>4, OpenedTypes
<1>6. page.property \in DOMAIN properties
  BY <1>2, OpenedTypes DEF TypeOK
<1>7. TypeOK'
  BY <1>1, <1>5, <1>6, BookedTypes
<1> QED  BY <1>5, <1>7 DEF ListInv

LEMMA TabTypes ==
  ASSUME TypeOK, BrowseInv, ListInv, Tab
  PROVE  TypeOK' /\ ListInv'
<1>1. CASE Show(Home)
  <2>1. Home \in Pages /\ Home.at # "list"
    BY PageTypes DEF Home
  <2> QED  BY <1>1, <2>1, MembersTypes
<1>2. ASSUME NEW name \in Names \cup {Elsewhere}, ChooseCity(name)
      PROVE  TypeOK' /\ ListInv'
  BY <1>2, ChoosingAsks, ListRequestStep
<1>3. CASE CityBreadcrumb
  <2>1. page.at \in About
    BY <1>3 DEF CityBreadcrumb, About
  <2>2. ChooseCity(Cities[properties[page.property].city])
    BY <1>3 DEF CityBreadcrumb
  <2> QED  BY <1>2, <2>1, <2>2, OpenedTypes
<1>4. CASE \/ \E sort \in {"asc", "desc"} : SortLink(sort)
           \/ \E gender \in Genders \cup {"any"} : GenderLink(gender)
           \/ ClearFilters
  BY <1>4, LinkSteps, ListRequestStep
<1>5. ASSUME NEW p \in DOMAIN properties, ViewCard(p)
      PROVE  TypeOK' /\ ListInv'
  <2>1. p \in DOMAIN properties
    OBVIOUS
  <2>2. page' = [at |-> "detail", property |-> p] /\ UNCHANGED Rows
    BY <1>5 DEF ViewCard, DetailOf, DetailRow
  <2>3. asked' = [name |-> Elsewhere, gender |-> "any", sort |-> "none", property |-> p]
    BY <1>5 DEF ViewCard, Nothing
  <2>4. asked' \in Wishes
    BY <2>1, <2>3 DEF Wishes
  <2>5. page' \in Pages /\ page'.at # "list"
    BY <2>1, <2>2, PageTypes DEF About
  <2> QED  BY <2>2, <2>4, <2>5, OtherPageStep
<1>6. ASSUME NEW at \in About, page.at \in About,
             \/ Members([at |-> at, property |-> page.property])
             \/ Show([at |-> at, property |-> page.property])
      PROVE  TypeOK' /\ ListInv'
  <2>1. [at |-> at, property |-> page.property] \in Pages
    BY <1>6, OpenedTypes
  <2>2. [at |-> at, property |-> page.property].at # "list"
    BY DEF About
  <2> QED  BY <1>6, <2>1, <2>2, MembersTypes
<1>7. CASE PropertyBreadcrumb
  <2>1. page.at \in About /\ "detail" \in About
    BY <1>7 DEF PropertyBreadcrumb, About
  <2>2. Show([at |-> "detail", property |-> page.property])
    BY <1>7 DEF PropertyBreadcrumb, DetailOf, DetailRow
  <2> QED  BY <1>6, <2>1, <2>2
<1>8. CASE BookNow
  <2>1. page.at \in About /\ "booking" \in About
    BY <1>8 DEF BookNow, About
  <2> QED  BY <1>6, <1>8, <2>1 DEF BookNow
<1>9. CASE ProceedToPayment
  <2>1. page.at \in About /\ "payment" \in About
    BY <1>9 DEF ProceedToPayment, About
  <2> QED  BY <1>6, <1>9, <2>1 DEF ProceedToPayment
<1>10. CASE Pay
  BY <1>10, PayTypes
<1>11. CASE OpenDashboard
  <2>1. CASE user = NoUser
    BY <1>1, <1>11, <2>1 DEF OpenDashboard, Members
  <2>2. CASE user # NoUser
    <3>1. user \in Users
      BY <2>2 DEF TypeOK
    <3>2. DashboardOf(user) \in Pages
      BY <3>1, PageTypes DEF DashboardOf
    <3>3. DashboardOf(user).at # "list" /\ Members(DashboardOf(user))
      BY <1>11 DEF OpenDashboard, DashboardOf
    <3> QED  BY <3>2, <3>3, MembersTypes
  <2> QED  BY <2>1, <2>2
<1> QED
  BY <1>1, <1>2, <1>3, <1>4, <1>5, <1>7, <1>8, <1>9, <1>10, <1>11
     DEF Tab, Search, FooterLink

(* A property more: the rows a list was made of stay.                      *)
LEMMA ListedTypes ==
  ASSUME TypeOK, ListInv,
         NEW city \in DOMAIN Cities, NEW gender \in Genders, NEW rent \in Rents,
         NEW rating \in NewRatings, List(city, gender, rent, rating)
  PROVE  TypeOK' /\ ListInv'
<1> DEFINE row == [city |-> city, gender |-> gender, rent |-> rent, rating |-> rating]
<1>1. properties' = Append(properties, row) /\ UNCHANGED <<bookings, user, page, asked>>
  BY DEF List
<1>2. row \in PropertyRows
  <2>1. rating \in [Criteria -> 35..50]
    BY BrowseAssumption
  <2>2. rating \in [Criteria -> Tenths]
    BY <2>1 DEF Tenths
  <2> QED  BY <2>2 DEF PropertyRows
<1>3. Len(properties) < MaxProperties
  BY DEF List
<1> HIDE DEF row
<1>4. /\ properties' \in Seq(PropertyRows)
      /\ Len(properties) \in Nat /\ Len(properties') = Len(properties) + 1
      /\ \A p \in 1..Len(properties) : properties'[p] = properties[p]
  BY <1>1, <1>2 DEF TypeOK
<1>5. DOMAIN properties \subseteq DOMAIN properties'
  BY <1>4 DEF TypeOK
<1>6. bookings \in Seq([user : Users, property : DOMAIN properties'])
  <2>1. [user : Users, property : DOMAIN properties]
          \subseteq [user : Users, property : DOMAIN properties']
    BY <1>5
  <2>2. bookings \in Seq([user : Users, property : DOMAIN properties])
    BY DEF TypeOK
  <2> QED  BY <2>1, <2>2, SeqMonotonic
<1>7. TypeOK'
  <2>1. Len(properties') <= MaxProperties
    BY <1>3, <1>4, BrowseAssumption
  <2>2. Pages \subseteq Pages' /\ Wishes \subseteq Wishes'
    BY <1>1, <1>4, <1>5, PagesGrow
  <2> QED  BY <1>1, <1>4, <1>6, <2>1, <2>2 DEF TypeOK
<1>8. ListInv'
  <2> SUFFICES ASSUME page.at = "list" PROVE ListInv'
    BY <1>1 DEF ListInv
  <2>1. /\ Asks(page.query, asked) /\ page.listed \in 0..Len(properties)
        /\ Range(page.cards) =
             {p \in 1..page.listed : /\ Cities[properties[p].city] = asked.name
                                     /\ asked.gender \in {properties[p].gender, "any"}}
        /\ InOrder(page.cards, asked.sort)
    BY DEF ListInv, ListsWhatWasChosen
  <2>2. \A p \in 1..page.listed : properties'[p] = properties[p]
    BY <1>4, <2>1
  <2>3. Range(page.cards) =
          {p \in 1..page.listed : /\ Cities[properties'[p].city] = asked.name
                                  /\ asked.gender \in {properties'[p].gender, "any"}}
    BY <2>1, <2>2
  <2>4. \A i \in DOMAIN page.cards : properties'[page.cards[i]] = properties[page.cards[i]]
    BY <2>1, <2>2 DEF Range
  <2>5. InOrder(page.cards, asked.sort)'
    BY <1>1, <2>1, <2>4 DEF InOrder
  <2>6. page.listed \in 0..Len(properties')
    BY <1>4, <2>1
  <2> QED  BY <1>1, <2>1, <2>3, <2>5, <2>6 DEF ListInv, ListsWhatWasChosen
<1> QED  BY <1>7, <1>8

LEMMA BrowseTypesInvariance == Spec => [](TypeOK /\ ListInv)
<1>1. Init => TypeOK /\ ListInv
  <2> SUFFICES ASSUME Init PROVE TypeOK /\ ListInv
    OBVIOUS
  <2>1. page \in Pages /\ page.at # "list"
    BY PageTypes DEF Init, Home
  <2>2. asked \in Wishes
    BY BrowseAssumption DEF Init, Nothing, Wishes
  <2>3. /\ bookings \in Seq([user : Users, property : DOMAIN properties])
        /\ Len(bookings) <= MaxBookings
    BY BrowseAssumption DEF Init
  <2> QED  BY <2>1, <2>2, <2>3, BrowseAssumption DEF Init, TypeOK, ListInv
<1>2. TypeOK /\ ListInv /\ BrowseInv /\ [Next]_vars => TypeOK' /\ ListInv'
  <2> SUFFICES ASSUME TypeOK, ListInv, BrowseInv, [Next]_vars PROVE TypeOK' /\ ListInv'
    OBVIOUS
  <2>1. CASE Tab
    BY <2>1, TabTypes
  <2>2. ASSUME user' \in Users \cup {NoUser},
               UNCHANGED <<properties, bookings, page, asked>>
        PROVE  TypeOK' /\ ListInv'
    BY <2>2, SamePages DEF TypeOK, ListInv, ListsWhatWasChosen, InOrder
  <2>3. ASSUME NEW u \in Users, NEW p \in DOMAIN properties, Book(u, p)
        PROVE  TypeOK' /\ ListInv'
    <3>1. UNCHANGED <<properties, user, page, asked>>
      BY <2>3 DEF Book
    <3>2. TypeOK'
      BY <2>3, BookedTypes DEF Book, TypeOK
    <3> QED  BY <3>1, <3>2 DEF ListInv, ListsWhatWasChosen, InOrder
  <2>4. CASE Others
    BY <2>2, <2>3, <2>4, ListedTypes DEF Others, Login, Logout
  <2>5. CASE UNCHANGED vars
    BY <2>2, <2>5 DEF vars, TypeOK
  <2> QED  BY <2>1, <2>4, <2>5 DEF Next
<1> QED  BY <1>1, <1>2, BrowseInvariance, PTL DEF Spec

-------------------------------------------------------------------------------
(* The tables, the session, the page and what was chosen last are always   *)
(* of their types: no list, dashboard or other page of the tab is about a  *)
(* row that is not there, and no dashboard is nobody's (dashboard.php:5).  *)
THEOREM BrowseTypes == Spec => []TypeOK
BY BrowseTypesInvariance, PTL

(* However many links of a list were followed, and whatever was listed in  *)
(* the meantime, it shows all properties of the city and gender chosen     *)
(* last that were there when it was asked for, and no other, in the order  *)
(* chosen last.                                                            *)
THEOREM ListsAreWhatWasChosen == Spec => []ListsWhatWasChosen
<1>1. ListInv => ListsWhatWasChosen
  BY DEF ListInv, ListsWhatWasChosen
<1> QED  BY <1>1, BrowseTypesInvariance, PTL

(* What is shown, booked and paid for is the property whose card was       *)
(* opened last, whichever pages and tabs come between.                     *)
THEOREM WhatWasOpenedIsBooked == Spec => []BooksWhatWasOpened
<1>1. BrowseInv => BooksWhatWasOpened
  BY DEF BrowseInv, PageSound, AboutSound, BooksWhatWasOpened, About
<1> QED  BY <1>1, BrowseInvariance, PTL

(* The averages and criteria that the list, the dashboard, the page of a   *)
(* property and the page that books it show as decimal and stars are the   *)
(* nearest decimal and the nearest row of stars, for all ratings from 0.0  *)
(* to 5.0 (property_list.php:106-123, property_detail.php:44-55,           *)
(* dashboard.php:81-97, booking.php:29-39).                                *)
THEOREM ShownRatingsAreNearest == Spec => []RatingsAreNearest
<1>1. BrowseInv => RatingsAreNearest
  <2> SUFFICES ASSUME BrowseInv, NEW shown \in RatingsShown
               PROVE  LET ratings == properties[shown[1]].rating
                          exact == Exact(ratings, shown[2])
                          stars == StarsOf(shown[1], shown[2])
                      IN /\ NearestTenth(Rating(ratings, shown[2]), exact)
                         /\ NearestHalfStar(stars, exact)
                         /\ FromTheLeft(stars)
    BY DEF RatingsAreNearest
  <2>1. shown[1] \in 1..Len(properties) /\ shown[2] \in Criteria \cup {"total"}
    <3>1. CASE page.at = "list"
      <4>1. shown \in Range(page.cards) \X {"total"}
        BY <3>1 DEF RatingsShown
      <4> QED  BY <3>1, <4>1 DEF BrowseInv, PageSound, ListSound
    <3>2. CASE page.at \in {"detail", "booking"}
      <4>1. shown \in {page.property} \X (Criteria \cup {"total"})
        BY <3>2 DEF RatingsShown
      <4>2. page.property \in 1..Len(properties)
        BY <3>2, OpenedStays DEF About
      <4> QED  BY <4>1, <4>2
    <3>3. CASE page.at = "dashboard"
      <4>1. shown \in {bookings[b].property : b \in page.shown} \X {"total"}
        BY <3>3 DEF RatingsShown
      <4>2. PICK b \in page.shown : shown[1] = bookings[b].property
        BY <4>1
      <4>3. b \in 1..Len(bookings)
        BY <3>3, <4>2 DEF BrowseInv, PageSound, DashboardSound
      <4>4. shown[1] \in 1..Len(properties)
        BY <4>2, <4>3 DEF BrowseInv, Tables
      <4> QED  BY <4>1, <4>4
    <3> QED  BY <3>1, <3>2, <3>3 DEF RatingsShown
  <2> DEFINE ratings == properties[shown[1]].rating
             what == shown[2]
  <2>2. ratings \in [Criteria -> Tenths]
    <3>1. properties[shown[1]] \in PropertyRows
      BY <2>1 DEF BrowseInv, Tables
    <3> QED  BY <3>1 DEF PropertyRows
  <2>3. what \in Criteria \cup {"total"}
    BY <2>1
  <2>4. StarsOf(shown[1], shown[2]) = Stars(Rating(ratings, what))
    BY DEF StarsOf
  <2> HIDE DEF ratings, what
  <2>5. NearestTenth(Rating(ratings, what), Exact(ratings, what))
    BY <2>2, <2>3, AverageIsNearest
  <2>6. NearestHalfStar(Stars(Rating(ratings, what)), Exact(ratings, what))
    BY <2>2, <2>3, StarsAreNearest
  <2>7. FromTheLeft(Stars(Rating(ratings, what)))
    BY <2>2, <2>3, RatingIsTenths, StarsFillUp
  <2> QED  BY <2>4, <2>5, <2>6, <2>7 DEF ratings, what
<1> QED  BY <1>1, BrowseInvariance, PTL
===============================================================================

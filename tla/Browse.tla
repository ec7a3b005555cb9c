-------------------------------- MODULE Browse --------------------------------
(***************************************************************************)
(* A tab on its way through the site: search, list of a city with filter   *)
(* and order, property, booking, payment, dashboard.  The other tabs of    *)
(* the browser log in and out, and other visitors list and book, between   *)
(* any two requests of the tab.  A page reads one table that the model     *)
(* lets change, in one statement and under the user_id that the script     *)
(* took from its session at the start, so a request is a single step.      *)
(*                                                                         *)
(* What can fail on the way from Pay to the row is in Booking, the scripts *)
(* behind the new rows of properties are in PostProperty.                  *)
(***************************************************************************)
EXTENDS Ratings, Sequences, FiniteSets, SequencesExt

CONSTANTS
  Users, NoUser,
  Cities,           \* rows of the cities table: names, by id
  Quoted,           \* the names that hold an apostrophe
  Elsewhere,        \* a name that is no city's
  Rents,
  NewRatings,       \* what the listing script may draw for a new row
  SampleProperties, \* rows the properties table starts with
  MaxProperties, MaxBookings  \* bounds of the two tables

Names == Range(Cities)
Genders == {"male", "female", "unisex"}

PropertyRows ==
  [city : DOMAIN Cities, gender : Genders, rent : Rents, rating : [Criteria -> Tenths]]

ASSUME BrowseAssumption ==
  /\ NoUser \notin Users
  /\ Elsewhere \notin Names
  /\ Quoted \subseteq Names
  /\ Rents \subseteq Nat
  /\ NewRatings \subseteq [Criteria -> 35..50]
  /\ MaxProperties \in Nat
  /\ MaxBookings \in Nat
  /\ SampleProperties \in Seq(PropertyRows)
  /\ Len(SampleProperties) <= MaxProperties

VARIABLES
  properties, \* the table, by id
  bookings,   \* the table, by id
  user,       \* user_id in the session of the tab's browser
  page,       \* what the tab shows
  asked       \* what the visitor chose last: city, gender and order of a
              \* list, or the property whose card he opened

vars == <<properties, bookings, user, page, asked>>

-------------------------------------------------------------------------------
(* The address of a list.  Of a city's text only the name matters, and     *)
(* whether backslashes were added to it; "any" and "none" stand for an     *)
(* address without gender or without sort.                                 *)
Queries == [city   : [name : Names \cup {Elsewhere}, escaped : BOOLEAN],
            gender : Genders \cup {"any"},
            sort   : {"asc", "desc", "none"}]

Query(name) ==
  [city |-> [name |-> name, escaped |-> FALSE], gender |-> "any", sort |-> "none"]

(* The escaped text goes into the statement, which undoes the escaping,    *)
(* and into every link of the page, which does not.                        *)
real_escape_string(city) == [city EXCEPT !.escaped = @ \/ city.name \in Quoted]

Found(city) == ~city.escaped /\ city.name \in Names

(* What a tab may show, of the rows there are.                             *)
Pages ==
       [at : {"home", "notFound"}]
  \cup [at : {"list"}, query : Queries, listed : 0..Len(properties),
        cards : Seq(DOMAIN properties)]
  \cup [at : {"detail", "booking", "payment", "paid"}, property : DOMAIN properties]
  \cup [at : {"dashboard"}, profile : Users, shown : SUBSET DOMAIN bookings]

Wishes == [name : Names \cup {Elsewhere}, gender : Genders \cup {"any"},
           sort : {"asc", "desc", "none"}, property : {0} \cup DOMAIN properties]

TypeOK ==
  /\ properties \in Seq(PropertyRows) /\ Len(properties) <= MaxProperties
  /\ bookings \in Seq([user : Users, property : DOMAIN properties])
  /\ Len(bookings) <= MaxBookings
  /\ user \in Users \cup {NoUser}
  /\ page \in Pages
  /\ asked \in Wishes

Home == [at |-> "home"]

Nothing == [name |-> Elsewhere, gender |-> "any", sort |-> "none", property |-> 0]

Init ==
  /\ properties = SampleProperties
  /\ bookings = <<>>
  /\ user \in Users \cup {NoUser}
  /\ page = Home
  /\ asked = Nothing

-------------------------------------------------------------------------------
(* property_list.php                                                       *)

Matching(q) ==
  {p \in DOMAIN properties :
     /\ Cities[properties[p].city] = q.city.name
     /\ q.gender \in {properties[p].gender, "any"}}

InOrder(cards, sort) ==
  \A i, j \in DOMAIN cards : i < j =>
    LET r == properties[cards[i]].rent
        s == properties[cards[j]].rent
    IN (sort = "asc" => r <= s) /\ (sort = "desc" => r >= s)

OpenList(q) ==
  IF Found(q.city)
  THEN \E cards \in SetToSeqs(Matching(q)) :
         /\ InOrder(cards, q.sort)
         /\ page' = [at |-> "list", query |-> q, listed |-> Len(properties), cards |-> cards]
  ELSE page' = [at |-> "notFound"]

Rows == <<properties, bookings, user>>

(* The form of the home page (left empty, it leads home), or a link with a *)
(* city's name: of the home page, a footer or a property's breadcrumb.     *)
ChooseCity(name) ==
  /\ OpenList(Query(name))
  /\ asked' = [Nothing EXCEPT !.name = name]
  /\ UNCHANGED Rows

Search(name) == page.at = "home" /\ ChooseCity(name)

(* The sample cities, none of which has an apostrophe.                     *)
FooterLink(name) == name \in Names \ Quoted /\ ChooseCity(name)

CityBreadcrumb ==
  /\ page.at \in {"detail", "booking", "payment"}
  /\ ChooseCity(Cities[properties[page.property].city])

(* Mutation: the link for an order forgets the filter.                     *)
SortLink_Unfiltered(sort) ==
  /\ page.at = "list"
  /\ OpenList([page.query EXCEPT !.city = real_escape_string(@), !.sort = sort,
                                 !.gender = "any"])
  /\ asked' = [asked EXCEPT !.sort = sort]
  /\ UNCHANGED Rows

(* Highest or lowest rent first, with the filter that is in the address.   *)
SortLink(sort) ==
  /\ page.at = "list"
  /\ OpenList([page.query EXCEPT !.city = real_escape_string(@), !.sort = sort])
  /\ asked' = [asked EXCEPT !.sort = sort]
  /\ UNCHANGED Rows

(* The buttons of the filter, with the order that is in the address.       *)
GenderLink(gender) ==
  /\ page.at = "list"
  /\ OpenList([page.query EXCEPT !.city = real_escape_string(@), !.gender = gender])
  /\ asked' = [asked EXCEPT !.gender = gender]
  /\ UNCHANGED Rows

(* Offered on an empty list; drops filter and order.                       *)
ClearFilters ==
  /\ page.at = "list" /\ page.cards = <<>>
  /\ OpenList([page.query EXCEPT !.city = real_escape_string(@),
                                 !.gender = "any", !.sort = "none"])
  /\ asked' = [asked EXCEPT !.gender = "any", !.sort = "none"]
  /\ UNCHANGED Rows

(* The stars of a card and of the property's page.                         *)
StarsOf(p, what) == Stars(Rating(properties[p].rating, what))

(* The ratings the tab shows as decimal and stars: the average on each     *)
(* card of a list or of the dashboard and on the page that books a         *)
(* property, average and criteria on the page of a property.               *)
RatingsShown ==
  CASE page.at = "list"      -> Range(page.cards) \X {"total"}
    [] page.at = "dashboard" -> {bookings[b].property : b \in page.shown} \X {"total"}
    [] page.at = "detail"    -> {page.property} \X (Criteria \cup {"total"})
    [] page.at = "booking"   -> {page.property} \X {"total"}
    [] OTHER                 -> {}

-------------------------------------------------------------------------------
(* property_detail.php, booking.php, payment.php                           *)

(* The row of property_detail.php: SELECT * over two tables that both have *)
(* an id, of which the last, the city's, is kept, and an alias.            *)
DetailRow(p) == [id |-> properties[p].city, property_id |-> p]

(* Mutation: the page goes by the id of the row.                           *)
DetailOf_Id(p) == [at |-> "detail", property |-> DetailRow(p).id]

DetailOf(p) == [at |-> "detail", property |-> DetailRow(p).property_id]

Show(new) == page' = new /\ UNCHANGED <<properties, bookings, user, asked>>

ViewCard(p) ==
  /\ \/ page.at = "list" /\ p \in Range(page.cards)
     \/ page.at = "dashboard" /\ \E b \in page.shown : bookings[b].property = p
  /\ page' = DetailOf(p)
  /\ asked' = [Nothing EXCEPT !.property = p]
  /\ UNCHANGED Rows

PropertyBreadcrumb ==
  page.at \in {"booking", "payment"} /\ Show(DetailOf(page.property))

(* The pages that send a visitor who is not logged in home.                *)
Members(new) == Show(IF user = NoUser THEN Home ELSE new)

BookNow ==
  /\ page.at \in {"detail", "payment"}
  /\ Members([at |-> "booking", property |-> page.property])

ProceedToPayment ==
  /\ page.at = "booking"
  /\ Members([at |-> "payment", property |-> page.property])

(* Pay & Confirm where all goes well; refused, the page stays as it is.    *)
Pay ==
  /\ page.at = "payment" /\ user # NoUser
  /\ Len(bookings) < MaxBookings
  /\ bookings' = Append(bookings, [user |-> user, property |-> page.property])
  /\ page' = [page EXCEPT !.at = "paid"]
  /\ UNCHANGED <<properties, user, asked>>

-------------------------------------------------------------------------------
(* dashboard.php: the profile and the bookings of the session's user.      *)
DashboardOf(u) ==
  [at |-> "dashboard", profile |-> u,
   shown |-> {b \in DOMAIN bookings : bookings[b].user = u}]

(* Mutation: the guard is missing.                                         *)
OpenDashboard_Open == Show(DashboardOf(user))

OpenDashboard == Members(DashboardOf(user))

-------------------------------------------------------------------------------
(* Other tabs of the browser, and other visitors.                          *)

Login(u) == user' = u /\ UNCHANGED <<properties, bookings, page, asked>>

Logout == user' = NoUser /\ UNCHANGED <<properties, bookings, page, asked>>

List(city, gender, rent, rating) ==
  /\ Len(properties) < MaxProperties
  /\ properties' = Append(properties,
       [city |-> city, gender |-> gender, rent |-> rent, rating |-> rating])
  /\ UNCHANGED <<bookings, user, page, asked>>

Book(u, p) ==
  /\ Len(bookings) < MaxBookings
  /\ bookings' = Append(bookings, [user |-> u, property |-> p])
  /\ UNCHANGED <<properties, user, page, asked>>

Others ==
  \/ \E u \in Users : Login(u)
  \/ Logout
  \/ \E city \in DOMAIN Cities, gender \in Genders, rent \in Rents, rating \in NewRatings :
       List(city, gender, rent, rating)
  \/ \E u \in Users, p \in DOMAIN properties : Book(u, p)

Tab ==
  \/ Show(Home)
  \/ \E name \in Names \cup {Elsewhere} : Search(name) \/ FooterLink(name)
  \/ CityBreadcrumb
  \/ \E sort \in {"asc", "desc"} : SortLink(sort)
  \/ \E gender \in Genders \cup {"any"} : GenderLink(gender)
  \/ ClearFilters
  \/ \E p \in DOMAIN properties : ViewCard(p)
  \/ PropertyBreadcrumb
  \/ BookNow
  \/ ProceedToPayment
  \/ Pay
  \/ OpenDashboard

Next == Tab \/ Others

Spec == Init /\ [][Next]_vars

-------------------------------------------------------------------------------
(* A list shows what the visitor chose, however many links of it he        *)
(* followed: all properties of the city and gender that were there when it *)
(* was asked for and no other, in the order chosen last (property_list.php *)
(* :92, 97, 182-185 hand filter and order on in the addresses).            *)
ListsWhatWasChosen ==
  page.at = "list" =>
    /\ Range(page.cards) =
         {p \in 1..page.listed : /\ Cities[properties[p].city] = asked.name
                                 /\ asked.gender \in {properties[p].gender, "any"}}
    /\ InOrder(page.cards, asked.sort)

(* What is shown, booked and paid for is the property whose card was       *)
(* opened, although on the way its id meets that of its city under one     *)
(* name (property_detail.php:10).                                          *)
BooksWhatWasOpened ==
  page.at \in {"detail", "booking", "payment", "paid"} => page.property = asked.property

(* Rounded twice, to tenths and then to half stars by the thresholds 0.3   *)
(* and 0.8, an average is still shown by the decimal and by the number of  *)
(* half stars nearest to its exact value, filled from the left, on each of *)
(* the four pages that have the loop, and so is a criterion                *)
(* (property_list.php:106-123, property_detail.php:44-55,                  *)
(* dashboard.php:81-97, booking.php:29-39).                                *)
RatingsAreNearest ==
  \A shown \in RatingsShown :
    LET ratings == properties[shown[1]].rating
        exact == Exact(ratings, shown[2])
        stars == StarsOf(shown[1], shown[2])
    IN /\ NearestTenth(Rating(ratings, shown[2]), exact)
       /\ NearestHalfStar(stars, exact)
       /\ FromTheLeft(stars)
===============================================================================

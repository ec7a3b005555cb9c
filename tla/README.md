# PG Life: specifications and proofs

TLA+ modules, TLC configurations and TLAPS proofs for PG Life, the PHP and
MariaDB site in this repository on which students find, list and book
paying-guest accommodation.

## 1. Inventory

The site is a set of PHP scripts with no state of their own. What outlives a
request is in two places: the MariaDB database `pglife` and PHP's session
files. What outlives a response is in the browser: the page a tab shows and the
few variables its script keeps.

| Component | Code | State | Operations |
|---|---|---|---|
| Payment and booking | `payment.php`, `api/book_property.php` | the payment page of a tab (property, total, button, overlay), table `bookings` | open the page, pay, overlay, failure alerts, INSERT |
| Booking page | `booking.php` | none | open, follow the link to the payment page |
| Login, logout, session | `api/login_submit.php`, `logout.php`, `includes/login_modal.php` | PHP session file of the browser (`user_id`, `full_name`, `email`) | log in, log out; every other script reads it |
| Signup | `api/signup_submit.php`, `includes/signup_modal.php` | table `users` | look for the e-mail, INSERT |
| Listing a property | `add_property.php`, `api/add_property_submit.php` | tables `properties`, `properties_amenities` | two INSERTs, one after the other |
| Browsing | `index.php`, `property_list.php`, `property_detail.php` | none | several SELECTs per page, filter, sort, averages, stars |
| Dashboard | `dashboard.php` | none | reads user, interests, bookings |
| Header, footer | `includes/header.php`, `includes/footer.php`, `includes/head_links.php` | none | choose the links by login state |
| Database connection | `includes/database_connect.php` | none | connect or die |
| Schema and seed data | `pglife.sql` | all tables | import, import again |
| Starter script | `start_pglife.ps1` | processes | start the database, wait 3 s, `php -S` |
| Static listing wizard | `post_property_step_*.html` | none | links between mock-ups, nothing is stored |
| Third party | `local_env/`, `js/`, `css/`, `img/` | | PHP 8.1, MariaDB 10.6, Bootstrap, jQuery, assets |

How they interact: a tab sends a request (a navigation or a `fetch`); a worker
of the web server runs one script for it; the script locks the session file of
the browser from `session_start()` to its end (all but signup, which starts no
session), talks to the database in autocommitted statements, and answers. Tabs
of one browser share one session. Under `start_pglife.ps1` there is one worker
(`php -S`), under the XAMPP installation of the README there are many.

What is hard here: retries of a click whose answer was lost, pages that outlive
the session they were printed for, check-then-act over statements that are not
in one transaction, statements that commit one by one when a later one fails,
conversions between decimal, double, FLOAT and formatted amounts, and a schema
file that can be imported under a running site. `PROJECT.json` lists each
hazard at its line.

What makes each component correct:

- Booking: a click books at most once; a page books again only after it has
  reported a failure; a confirmation is shown only over a row for that property
  and total; the row belongs to the user of the session; every click is answered.
- Session: a script's view of the session does not change while it runs.
- Signup: at most one account per e-mail; who is told of an account has one and
  can log in; who is told the e-mail is taken finds it taken.
- Payment form: the marked tab is the section on show; the digits of a field can
  be typed to the end; the amount that was due is the amount shown as paid.
- Listing: who is told of a listing finds his own, at his rent, with its
  amenities; a form lists again only after it has reported a failure; every
  press of the button is answered.
- Browsing and dashboard: a list shows what was chosen, however it was reached;
  what is booked is what was opened; decimals and stars are the nearest to the
  ratings.
- Schema: an import can be killed and repeated, beside a site in use; the tables
  it has filled have their samples, and those of the seven tables it has dropped
  have no dangling reference; at the end of the file the site can be used.
- Starter script: what is served has a database, and a window that is opened
  brings the site up.

## 2. Plan

Done: `Sessions`, `Fees`, `Booking` and its promise `BookingLedger`; `Signup`
and its promise `Accounts`; `PostProperty` and its promise `Listings`;
`PaymentForm` over `Amounts`; `Browse` over `Ratings`; `SchemaImport`;
`Startup`; for each a module of theorems, which state every invariant, action
property and refinement the passing runs check.

To come: the safety parts on which the liveness properties rest, that a request
under way is always at a place from which a fair step takes it on
(`EveryClickIsAnswered`, `EverySubmitIsAnswered`).

## 3. Modules

### Sessions
`saved[b]` is the sequence of session files of browser `b`. `session_start()`
opens the last one and queues for its lock; the lock itself is not a variable,
a file is locked while a script that holds it is running. `session_destroy()`
removes the file by name: `DestroySession` appends a new empty file, so scripts
that had opened the old file keep it, which is what happens to a script that
was queueing for the lock when the logout came.

### Fees
Rent, deposit and platform fee of `payment.php:30-33`, in whole rupees.

### Booking
Per tab: `phase` (a page without a Pay button, loading, ready, processing,
accepted but overlay still due, overlay), `load` (navigations), `attempt`
(failed clicks on this page), `doc` (what `payment.php` printed into the page's
script: property, total, user) and `reply` (the answer on its way). Per worker:
`script` (`blocked` on the session file, `running`, `done`). `queue` holds the
requests nobody has accepted, `bookings` is the table in the order of its
auto-increment ids. A row's `click` is not a column: it names the click that
caused the row so that properties can speak about it.

A script runs in one step between taking the session lock and finishing. That
is enough: the only effects another script can see before the end are the one
INSERT of `book_property.php` and the removal of the session file by
`logout.php`, and `payment.php` reads rows no modelled script changes.
`Finish` is the end of a script: the response leaves, the session is written
and its lock released.

Failures: the connection may break at any time (`FetchFails`,
`NavigationFails`), before or after the script runs; the database may refuse
(`DatabaseFails`) or commit and then break (third branch of `RunBook`); the web
server may be closed and started again (`Restart`).

Left out: the back button's cached pages, and forms posted by hand with values
no page printed.

### BookingLedger
The promise of booking without tabs or messages. `Booking`'s last section maps
its state to it: pending submissions are the booking requests no script has run
yet, the ledger is the table, confirmations are the pages with the overlay due.

### MCBooking
Instances for TLC, with tabs `t1` and `t2` of one browser.

### Signup
`script[<<v, n>>]` is the run of `signup_submit.php` for the n-th submission of
visitor `v`: before its SELECT (`sent`), between SELECT and INSERT (`checked`),
ended with one of the answers the script echoes. The script starts no session,
so nothing keeps the runs apart; `Select` and `Insert` are its two autocommitted
statements. `users` holds the rows, `by` names the submission that inserted each
and its visitor stands for the password. `Fold` is what the column's
case-insensitive collation compares; the unique key uses it as the SELECT does.
A form is what the browser accepts: every text field filled in, a gender or
none. Of a text field the model keeps whether it holds an apostrophe, which ends
the SQL literal it is pasted into. `Strict` is the server's SQL mode: MariaDB's
default refuses '' for an ENUM, a server configured otherwise stores its error
value. `page` is what a visitor sees; pressing Create Account again abandons
the answer awaited, not the script.

### Accounts
The promise of signing up: submissions ask, an account is opened in one step
for an e-mail nobody has, "created" is told only by that step, "taken" only over
an account, an error says nothing.

### MCSignup
Instances for TLC: `upper` and `lower` are two spellings of one address.

### PostProperty
Per owner: whether his session is logged in, what his tab shows, the
submissions he has sent (`tries`), and for the form now shown those sent before
it was opened (`opened`) and the failures it has reported (`alerts`).
`script[<<o, n>>]` is the run of `add_property_submit.php` for the n-th
submission of owner `o`: before its first INSERT (`sent`), between its INSERTs
(`inserted`), ended with an answer; `id` is its `mysqli_insert_id()`.
`listings` is the table `properties` in the order of its ids, `amenities` the
ids with rows in `properties_amenities`. Of a form only the rent matters: zero
is refused as missing when typed as "0" and inserted when typed as "00" or "-0",
which PHP takes for true, so either may happen; a rent the column cannot hold is
refused or cut, by SQL mode (`Strict`). `Throws` is mysqli's error mode, exceptions from PHP 8.1 on,
which the site bundles. A script holds its owner's session, so scripts and
logins of one owner exclude each other (`Locked`); scripts of different owners
interleave between the two INSERTs. Failures: a connection that breaks
(`FetchFails`), a database that refuses or commits and then breaks
(`DatabaseFails`, branches of both INSERTs), a server that is closed
(`Restart`).

### Listings
The promise of listing: a submission may put one property on sale, at the rent
it asks for, then furnish it, and gets one verdict; "listed" is told only of a furnished one; a failure
says nothing of what was left behind.

### Amounts
The way of a total: `payment.php` prints it into its script, `floatval` parses
what is posted, a FLOAT column keeps 24 binary digits, and the dashboard reads
it back as text of six significant digits. `Nearest(Spacing(...))` is rounding
to so many digits of a base; five digits lost are more than any total loses, as
the column of rents, DECIMAL(10,2), has eight before its point.

### PaymentForm
The payment page up to the dashboard: sections and tabs (`switchPay`,
`selectWallet`), the fields of card number and expiry date, of which only the
number of digits is kept, and the amount of `Amounts`. `EditCard` and
`EditExpiry` are one event each: a key or paste over a selection, within the
field's `maxlength`, and the rewriting by `formatCard` or `formatExpiry`.

### Ratings
Averages of three ratings in tenths, rounded to a tenth, and the stars of a
rating, with the definitions of nearest they are measured against. The same loop
stands in `property_list.php`, `property_detail.php`, `dashboard.php` and
`booking.php`; `RatingsShown` of `Browse` says what each of them prints.

### Browse
A tab on its way through the site: `page` is what it shows, with the address
where a list depends on it, `asked` what the visitor chose last. Lists carry
filter and order only in their addresses, which every link has to hand on.
Each page reads one table that changes here, in one statement, for the user_id
its script took from the session at its start, so a request for it is one step;
`DashboardOf(u)` is what `dashboard.php` prints for user `u`. Between any two
steps other tabs of the browser log in and out, and others list and book.

### SchemaImport
`import` is the statement of `pglife.sql` the client is at, or was at when the
last import ended, and `outcome` how it ended. A table's DROP, CREATE and INSERT
are three steps (`TableStep`), followed by the indexes and views in one
(`CreateIndexes`) and the malformed statement for `bookings` (`CreateBookings`).
A row keeps its id, the ids it refers to and, though no columns, what it is and
what its references meant when it was made, which tell a row from a later one
under the same id. The client stops at the first refused statement, may be
killed, and the import can be started again. Signup, login, the two INSERTs of a
listing (after the first of which its script may die), payment page and booking
run beside it; of a visitor `session`, `page` and `pending` keep the account
logged in to, the property on the payment page and the one whose amenities are
due. `quiet` records whether any script ran since the last import began.

### Startup
A window is where `start_pglife.ps1` runs; `mysqld[w]` the database process it
started, which outlives it. One process can have the data directory, one server
the port. `bundle` says which parts of `local_env` are there.
`ServedOverADatabase` is the safety half of what the script is for,
`BringsTheSiteUp` the whole.

### MCPostProperty, MCPaymentForm, MCBrowse, MCSchemaImport, MCStartup
Instances for TLC, section 4.

### The modules named ...Proofs
Theorems, section 5.

## 4. Runs

| Run | Instance | What it shows |
|---|---|---|
| `booking_retries` | 2 tabs of 1 browser, a listed and an unlisted property, 2 users, 2 workers, 1 navigation and 2 clicks per page | one row per click, duplicates only after alerts, overlay only over its row; refinement of `BookingLedger`; every click is answered |
| `booking_sessions` | the same, one property, 2 navigations, 1 click | types; the session lock covers check and use; rows belong to the session's user |
| `booking_failure_alert` | 1 tab, 1 worker | violated: a reported failure may have booked |
| `booking_wrong_booker` | 2 tabs of 1 browser, 1 worker | violated: the confirmed page names another user than the row |
| `signup_races` | 2 visitors, 2 submissions each, 2 spellings, one flaw at a time, failures | types; one account per e-mail; who is told of an account can log in; refinement of `Accounts` |
| `signup_gender` | 1 visitor, nothing fails | violated: a form without a gender is refused |
| `listing` | 2 owners, 2 submissions in all, rents -2, 0, 2 and 9 where the column holds 5, failures | types; listed again only after an alert; who is told of a listing finds his own, at his rent and furnished; every press is answered; refinement of `Listings` |
| `import` | 1 visitor who makes 2 rows, 2 samples, 2 imports, kills | types; tables filled have their samples, tables dropped have no dangling reference, at every moment; a quiet import is refused nothing but its last statement, and the references in its tables are true |
| `import_ready` | the same | violated: after an import into an empty database there is no table `bookings` |
| `payment_form` | 3 wallets, 25 rents about the powers of 10 and 2 | types; tabs tell the method; the expiry date has room; what is paid is close to what was due |
| `browsing` | 2 cities, one with an apostrophe, 2 users, 3 sample properties and a new one, 2 bookings | types; lists, bookings and ratings as above |
| `startup` | 3 windows, complete and incomplete bundles | types; a served site has a database, ready or starting; a script that begins brings the site up |

Bounds. `MaxLoads` bounds the navigations of a tab and `MaxClicks` the clicks
on one page; both only guard actions of the visitor, never of the server. Two
clicks give a retry, with the answers of both on their way; two navigations give a page that outlives its predecessor's scripts. Two workers
and two tabs are the smallest instance in which two scripts of one session meet
(the lock) or two sessions run side by side. `MaxTries` bounds the submissions
of a visitor: two visitors with two each give races between visitors and a
visitor's race with a submission given up. `MaxSent` bounds those of all owners:
two are a form submitted again, or two owners between whose INSERTs the other's
fall. `MaxImports`: two, so that one starts over what a killed one left.
`MaxMade`: two, so that a visitor has a property of before an import and a row
that should not refer to it after. `MaxProperties` and `MaxBookings` leave room
for one more property and two bookings while a tab is on its way; the samples
include a property whose id is another city's. The ratings of the instance lie
on the edges of half and full stars; the theorem covers the others. Rents in
`payment_form` are those about the totals at which a decimal or binary digit is
lost, zero, a negative one and the largest the column holds. Three windows: one
to win the data directory, one to win the port, one to be closed.

Workers, users, visitors, wallets and the tabs of one browser are
interchangeable, which the symmetry sets use, but in no run that checks
liveness. Deadlock is checked only in `browsing`, where a tab can always go
home: elsewhere a visitor may stop, and the bounds stop every visitor.

Fairness. In `Booking` the web server accepts waiting requests and runs its
scripts, a session lock is granted to a script that keeps asking for it (strong
fairness, as other scripts may take it in between), the browser delivers
answers to the page and rejects a `fetch` whose connection is gone.
`PostProperty` has the same: strong fairness for the start of a script, which
needs the session, weak fairness for its end and for the page's reaction to an
answer. In `Startup` an open window goes on with its script and a process that
was started comes to an end of its initialization, one way or the other. Nobody
has to click, and no failure has to happen.

## 5. Proofs

All theorems hold for every value of the constants that satisfies the named
assumptions (`NoUserAssumption`, `BookingAssumption`, `SignupAssumption`,
`PostAssumption`, `FormAssumption`, `AmountsAssumption`, `BrowseAssumption`,
`SchemaAssumption`).

`BookingProofs` builds on four invariants, each inductive relative to the ones
before it:

- `TypeInv`: `TypeOK`, and that scripts work on session files that exist, that
  everything with a Pay button was printed by `payment.php` (so what it posts is
  a listed property with its total), and that a click under way is within the
  bound. Theorem `TypeCorrectness`.
- `ClickInv`: every request, script and row belongs to a click already made, no
  click is in two of them, and hence in two rows. `OneRowPerClick` is not
  inductive by itself: a row might be added for a request whose click has a row
  already, and only the separation of places rules that out. Theorem
  `NoDoubleBookingByAClick`. With it rows of one page are told apart by their
  attempts, and attempts lie below the page's alerts and the one under way: the
  rows are injected into an interval, which bounds their number. Theorem
  `SecondBookingNeedsAlert`.
- `LockInv`: of the scripts on one session file at most one is past
  `session_start()`, and what it read is what the file holds. Theorems
  `SessionIsStable`, and, as an action property, `LedgerBelongsToSessionUsers`.
- `SuccessInv`: a success on its way to a page, in a script or at the page,
  answers a click whose row is in the table with the property and total of that
  page. Theorem `ConfirmationsAreRecorded`.

`LedgerProofs` proves that `Booking` implements `BookingLedger`
(`BookingImplementsLedger`): each action is a step of the ledger or leaves
pending submissions, rows and confirmations alone; `ClickInv` shows that a
submission is new when its button is pressed, `SuccessInv` that a confirmation
is recorded when its overlay becomes due.

`SignupProofs` proves `SignupInv`: types, submissions sent in order, rows left
by scripts that ended, a row behind every "created", pages that show their own
script's answer, and `OneAccountPerEmail`. From it follow `SignupTypes`,
`AccountsAreUnique`, `ToldCreatedIsTrue`, and that `Signup` implements
`Accounts` (`SignupImplementsAccounts`).

`PostPropertyProofs` proves `PostInv`: types, submissions sent in order, rows at
the rent asked for (where the server is strict), ids of scripts that are the
places of their own rows, answers that are "listed" only over a furnished row
(where mysqli throws), and a count: the submissions of the form now shown are
its alerts and at most one more. A submission inserts at
most one row, which gives the bound on rows. Neither `RelistedOnlyAfterAlerts`
nor `ToldListedIsOwnAndFurnished` is inductive: a row comes from a script long
after its button was pressed, and its page may be another by then. Theorems
`PostTypes`, `RelistingNeedsAlert`, and, where `Throws` and `Strict` hold, as
they do for the bundled PHP and MariaDB's default, `ToldListedIsTrue` and
`PostPropertyImplementsListings`. Both are false without `Throws`, as the result
of the second INSERT is not looked at, and without `Strict`, as the column cuts
a rent it cannot hold.

`PaymentFormProofs` proves `FormInv`, types and `TabsTellTheMethod` together,
which needs that no wallet has the name of a method (`FormTypes`,
`TabsAreRight`), and from it `ExpiryCanBeTyped`. For the amount it proves
`AmountInv`, which says what the total has become at each stage. The spacing of
24 binary digits at a total is a power of two up to 32, that of six decimal ones
a power of ten (`BinarySpacing`, `DecimalSpacing`), so the column takes at most
17 rupees and nothing below 2^24, and the second rounding loses half a unit of
the sixth digit. Both together stay below one unit; the case that needs care is
a total that the column takes over a power of ten, where the unit is another
one: then the power itself is shown (`RoundingArithmetic`, `TwoRoundings`).
Theorem `PaidStaysClose`, for every whole-rupee rent the column can hold.

`BrowseProofs` begins with lemmas about averages and stars: a rounded third is
within a third of a tenth, five stars are within two tenths of the rounded
rating, and the two errors together stay below half of half a star
(`AverageIsNearest`, `StarsAreNearest`, `StarsFillUp`). Its invariants are

- `BrowseInv`: rows of both tables have their types, and a page speaks only of
  rows there are, about the property opened last. Both tables only grow, which
  keeps all of it. Theorems `WhatWasOpenedIsBooked`, `ShownRatingsAreNearest`.
- `TypeOK` and `ListInv`, relative to it: the address of a list asks for the
  city, gender and order chosen last, with backslashes or without, and the list
  is of rows that were there. `ListsWhatWasChosen` alone is not inductive: the
  next link takes its filter and order from the address, not from the choice.
  The sequence of cards has no card twice and is as long as the set of matching
  rows, which is finite, so none is left out (`CardsAreAll`). Theorems
  `BrowseTypes`, `ListsAreWhatWasChosen`.

`SchemaImportProofs` proves `ImportInv`, over the place the import is at:

- `TypeInv`: types, ids that tell the rows of a table apart and lie below its
  counter, and that what a visitor's session, page and listing keep are
  references or nothing.
- `FilledInv`: a table the import has refilled since it began holds its samples,
  and one it has dropped has no row that refers to an id nobody has. Parents
  come before their children in the file, so they are filled before a child can
  have a row, and the site, beside the import or after it, adds rows only under
  foreign keys and removes none.
- `QuietInv`: where no script of the site ran beside the last import, no
  statement before its last was refused, and references of the tables it has
  dropped are to the rows they were made for, as is what a visitor's page will
  refer to. What the site adds after the import leaves both alone.

What the run checks beyond types is not inductive: a table that is about to be
dropped may dangle, the next statement drops one and another fills it, and what
a child's rows may refer to takes how far its parents have come. The invariants
speak of the place of a table in the file, which `Progress` relates to what the
import has dropped and filled. Theorems `ImportTypes`, `ImportBringsSamples`,
`ImportLeavesNoneDangling`, `QuietImportEnds`, `QuietImportKeepsMeaning`; the
last two do not speak of `bookings`, which no import drops.

`StartupProofs` proves `StartupInv`: types, that a script past its first step
has started a database where there is one to start, none before, and that with
tables in the directory a database gives up only for another that is ready.
Theorems `StartupTypes`, `ServedSitesHaveADatabase`.

Only model-checked: the liveness properties `EveryClickIsAnswered`,
`EverySubmitIsAnswered` and `BringsTheSiteUp`, as the proof system has no rules
for fairness here. The four violated statements are refuted by TLC's traces.

## 6. Findings

Shown by a run:

- `booking_failure_alert`: "Failed to complete booking. Please try again." and
  the connection alert appear also when the row is in the table; trying again
  books twice.
- `booking_wrong_booker`: the confirmation names the user for whom the page was
  printed, the row the user of the session at the time of the booking script.
- `signup_gender`: the form lets a visitor leave out the gender and the schema
  makes the column optional, but the script posts '' and the account is refused.
- `import_ready`: `pglife.sql:279-283` says "Database Schema Complete" and "Ready
  for use with PG Life application", but the statement that should create
  `bookings` (line 287) has backslashes for quotes and creates nothing: on a
  fresh database the site cannot book, and its dashboard fails.

Met while modelling, and in the models as the code has them:

- `api/add_property_submit.php:39` gives a listing "a generic amenity or two"
  in a statement of its own: after a failure in between it has none, and the
  page asks for another submission. A rent typed as 0 is refused as a missing
  field (line 19, `!$rent`), one typed as 00 and a negative one are listed.
- The import resets the ids of `users` and `properties` and leaves `bookings`,
  so bookings of before, and sessions that are logged in, refer to whoever signs
  up next. A signup or listing between the CREATE of its table and the INSERT of
  the samples takes the id of the first, and the import stops there. The sample
  users cannot log
  in with "password123" (line 59): their rows hold hashes, and the login
  compares the column with what was typed.
- The card field is full after 13 typed digits: `payment.php:361` separates
  groups by two spaces, `maxlength` counts one (line 248).
- A city with an apostrophe in its name is found from the home page but lost by
  the sort and filter links, which carry its escaped text
  (`property_list.php:6`, 92, 97, 182-185). "Clear Filters" drops the order,
  too.
- From a million rupees on, "Total Paid" on the dashboard is rounded to six
  digits (`bookings.total_rent` is FLOAT).
- The web server may serve before the database is ready
  (`start_pglife.ps1:28-29`): the script waits three seconds, whatever happens.
- `dashboard.php:31` falls back to an empty list when the query for bookings
  fails, but since PHP 8.1 the query throws.
- The repository's README names `api/mark_interested.php`,
  `js/property_list.js` and `js/dashboard.js`, which are not there.

## 7. Not modelled

- Header and footer: their links are actions of `Browse`; which of them are
  printed, by login state, restricts nothing, as a tab may still show what was
  printed before.
- Interests and testimonials: only read, and written by no script.
- The choice of a stay on the booking page, the terms checkbox and whatever the
  payment form holds: never sent.
- The static wizard (`post_property_step_*.html`): mock-ups without state; its
  last step reports success and stores nothing.
- Names, addresses, descriptions, images and markup; of text fields the models
  keep what a statement or a comparison tells apart. The lengths of the varchar
  columns are left out: `Signup` has no text a column cannot hold, which a strict
  server would refuse with the answer of any other failed INSERT.
- Bundled PHP and MariaDB, Bootstrap and jQuery. The headers of MariaDB under
  `local_env/` are by far most of the repository's lines of C; nothing of the
  site is compiled against them. The program itself is PHP, SQL, PowerShell and
  the JavaScript in its pages, and the models are of these. What the scripts
  rely on of PHP and MariaDB (the session lock, autocommit, unique and foreign
  keys, auto-increment, SQL modes, exceptions) is modelled from how the scripts
  use it.

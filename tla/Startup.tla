-------------------------------- MODULE Startup -------------------------------
(***************************************************************************)
(* start_pglife.ps1, run in one window or in several: it starts the        *)
(* bundled database in the background, sleeps three seconds and becomes    *)
(* the web server.  The database is a process of its own, which outlives   *)
(* the window; only one can open the data directory.                       *)
(***************************************************************************)
EXTENDS FiniteSets

CONSTANT Windows

VARIABLES
  bundle, \* what local_env has: mysqld, php, and filled, the data directory
  script, \* the script in each window
  mysqld  \* the database process started from each window

vars == <<bundle, script, mysqld>>

TypeOK ==
  /\ bundle \in SUBSET {"mysqld", "php", "filled"}
  /\ script \in [Windows -> {"unopened", "begins", "sleeps", "awake", "serves",
                             "ended", "closed"}]
  /\ mysqld \in [Windows -> IF "mysqld" \in bundle
                             THEN {"none", "starting", "ready", "exited"} ELSE {"none"}]

Init ==
  /\ bundle \in SUBSET {"mysqld", "php", "filled"}
  /\ script = [w \in Windows |-> "unopened"]
  /\ mysqld = [w \in Windows |-> "none"]

Served == \E w \in Windows : script[w] = "serves"
Ready == \E w \in Windows : mysqld[w] = "ready"

-------------------------------------------------------------------------------
(* The script.                                                             *)

Goes(w, from, to) == script[w] = from /\ script' = [script EXCEPT ![w] = to]

Open(w) == Goes(w, "unopened", "begins") /\ UNCHANGED <<bundle, mysqld>>

(* Mutation: mysqld is started without a look at the directory.            *)
StartMariaDB_Unchecked(w) ==
  /\ Goes(w, "begins", "sleeps")
  /\ mysqld' = [mysqld EXCEPT ![w] = "starting"]
  /\ UNCHANGED bundle

(* Mutation: the database is left to the window that was opened first.     *)
StartMariaDB_First(w) ==
  /\ Goes(w, "begins", "sleeps")
  /\ IF "mysqld" \in bundle /\ \A v \in Windows \ {w} : script[v] = "unopened"
     THEN mysqld' = [mysqld EXCEPT ![w] = "starting"] ELSE UNCHANGED mysqld
  /\ UNCHANGED bundle

(* A data directory that is missing is created, but empty; a missing       *)
(* mysqld is reported and no more.                                         *)
StartMariaDB(w) ==
  /\ Goes(w, "begins", "sleeps")
  /\ IF "mysqld" \in bundle THEN mysqld' = [mysqld EXCEPT ![w] = "starting"]
                            ELSE UNCHANGED mysqld
  /\ UNCHANGED bundle

StartSleep(w) == Goes(w, "sleeps", "awake") /\ UNCHANGED <<bundle, mysqld>>

(* Mutation: the script gives up if the database is not ready.             *)
StartPhp_IfReady(w) ==
  /\ \/ "php" \in bundle /\ Ready /\ Goes(w, "awake", "serves")
     \/ ("php" \in bundle /\ Ready => Served) /\ Goes(w, "awake", "ended")
  /\ UNCHANGED <<bundle, mysqld>>

(* php -S on a port that has a server may end at once; whether it does is  *)
(* up to the system.                                                       *)
StartPhp(w) ==
  /\ \/ "php" \in bundle /\ Goes(w, "awake", "serves")
     \/ ("php" \in bundle => Served) /\ Goes(w, "awake", "ended")
  /\ UNCHANGED <<bundle, mysqld>>

Close(w) ==
  /\ script[w] \notin {"unopened", "closed"}
  /\ script' = [script EXCEPT ![w] = "closed"]
  /\ UNCHANGED <<bundle, mysqld>>

-------------------------------------------------------------------------------
(* The database: it becomes ready in its own time, or exits, because there *)
(* are no tables in its directory or another process has it open.          *)
Initialize(w) ==
  /\ mysqld[w] = "starting"
  /\ mysqld' = [mysqld EXCEPT ![w] =
                  IF "filled" \in bundle /\ ~Ready THEN "ready" ELSE "exited"]
  /\ UNCHANGED <<bundle, script>>

-------------------------------------------------------------------------------
Runs(w) == StartMariaDB(w) \/ StartSleep(w) \/ StartPhp(w)

Next == \E w \in Windows : Open(w) \/ Runs(w) \/ Close(w) \/ Initialize(w)

Spec == Init /\ [][Next]_vars

(* An open window goes on with its script, and a database that was started *)
(* comes to an end of its initialization.                                  *)
Fairness == \A w \in Windows : WF_vars(Runs(w)) /\ WF_vars(Initialize(w))

FairSpec == Spec /\ Fairness

-------------------------------------------------------------------------------
(* Where nothing is missing, the site is not served without a database: it *)
(* is ready, or still starting, whichever window serves, whichever one's   *)
(* database won the directory, and whichever were closed and when          *)
(* (start_pglife.ps1:25, 29, 36).                                          *)
ServedOverADatabase ==
  bundle = {"mysqld", "php", "filled"} /\ Served =>
    Ready \/ \E w \in Windows : mysqld[w] = "starting"

Closed == {w \in Windows : script[w] = "closed"}

(* Whatever was opened or closed before, whichever windows are opened      *)
(* beside it and whichever database process wins the data directory: a     *)
(* script that begins brings the site up, web server and database, unless  *)
(* from then on a window is closed.                                        *)
BringsTheSiteUp ==
  bundle = {"mysqld", "php", "filled"} =>
    \A w \in Windows, before \in SUBSET Windows :
      (script[w] = "begins" /\ Closed = before) ~> (Closed # before \/ (Served /\ Ready))
===============================================================================

----------------------------- MODULE StartupProofs ----------------------------
(***************************************************************************)
(* Theorems of Startup for any number of windows.                          *)
(***************************************************************************)
EXTENDS Startup, TLAPS

(* A script starts its database in its first step, if it can, and no other *)
(* step does.                                                              *)
StartedInv ==
  \A w \in Windows :
    /\ script[w] \in {"unopened", "begins"} => mysqld[w] = "none"
    /\ "mysqld" \in bundle /\ script[w] \in {"sleeps", "awake", "serves"} => mysqld[w] # "none"

(* With tables in the directory a database gives up only for another.      *)
GivesUpForAnother ==
  "filled" \in bundle /\ (\E w \in Windows : mysqld[w] = "exited") => Ready

StartupInv == TypeOK /\ StartedInv /\ GivesUpForAnother

-------------------------------------------------------------------------------
(* A step of a script that leaves the databases alone.                     *)
LEMMA ScriptStep ==
  ASSUME StartupInv, UNCHANGED <<bundle, mysqld>>,
         NEW w \in Windows,
         NEW to \in {"begins", "awake", "serves", "ended", "closed"},
         script' = [script EXCEPT ![w] = to],
         to = "begins" => script[w] = "unopened",
         to \in {"awake", "serves"} => script[w] \in {"sleeps", "awake"}
  PROVE  StartupInv'
<1>1. TypeOK'
  BY DEF StartupInv, TypeOK
<1>2. StartedInv'
  <2> SUFFICES ASSUME NEW v \in Windows
               PROVE  /\ script'[v] \in {"unopened", "begins"} => mysqld[v] = "none"
                      /\ "mysqld" \in bundle /\ script'[v] \in {"sleeps", "awake", "serves"}
                           => mysqld[v] # "none"
    BY DEF StartedInv
  <2>1. script'[v] = IF v = w THEN to ELSE script[v]
    BY DEF StartupInv, TypeOK
  <2> QED  BY <2>1 DEF StartupInv, StartedInv
<1>3. GivesUpForAnother'
  BY DEF StartupInv, GivesUpForAnother, Ready
<1> QED  BY <1>1, <1>2, <1>3 DEF StartupInv

LEMMA StartMariaDBStep ==
  ASSUME StartupInv, NEW w \in Windows, StartMariaDB(w)
  PROVE  StartupInv'
<1>1. /\ script[w] = "begins" /\ script' = [script EXCEPT ![w] = "sleeps"]
      /\ bundle' = bundle
      /\ mysqld' = IF "mysqld" \in bundle THEN [mysqld EXCEPT ![w] = "starting"] ELSE mysqld
  BY DEF StartMariaDB, Goes
<1>2. TypeOK'
  BY <1>1 DEF StartupInv, TypeOK
<1>3. \A v \in Windows :
        /\ script'[v] = IF v = w THEN "sleeps" ELSE script[v]
        /\ mysqld'[v] = IF v = w /\ "mysqld" \in bundle THEN "starting" ELSE mysqld[v]
  BY <1>1 DEF StartupInv, TypeOK
<1>4. StartedInv'
  BY <1>1, <1>3 DEF StartupInv, StartedInv
<1>5. mysqld[w] = "none"
  BY <1>1 DEF StartupInv, StartedInv
<1>6. GivesUpForAnother'
  BY <1>1, <1>3, <1>5 DEF StartupInv, GivesUpForAnother, Ready
<1> QED  BY <1>2, <1>4, <1>6 DEF StartupInv

LEMMA InitializeStep ==
  ASSUME StartupInv, NEW w \in Windows, Initialize(w)
  PROVE  StartupInv'
<1> DEFINE end == IF "filled" \in bundle /\ ~Ready THEN "ready" ELSE "exited"
<1>1. /\ mysqld[w] = "starting" /\ mysqld' = [mysqld EXCEPT ![w] = end]
      /\ bundle' = bundle /\ script' = script
  BY DEF Initialize
<1>2. end \in {"ready", "exited"} /\ ("filled" \in bundle /\ end = "exited" => Ready)
  OBVIOUS
<1> HIDE DEF end
<1>3. "mysqld" \in bundle
  BY <1>1 DEF StartupInv, TypeOK
<1>4. TypeOK'
  BY <1>1, <1>2, <1>3 DEF StartupInv, TypeOK
<1>5. \A v \in Windows : mysqld'[v] = IF v = w THEN end ELSE mysqld[v]
  BY <1>1, <1>3 DEF StartupInv, TypeOK
<1>6. StartedInv'
  BY <1>1, <1>2, <1>5 DEF StartupInv, StartedInv
<1>7. GivesUpForAnother'
  <2> SUFFICES ASSUME "filled" \in bundle PROVE Ready'
    BY <1>1 DEF GivesUpForAnother
  <2>1. CASE Ready
    BY <1>1, <1>5, <2>1 DEF Ready
  <2>2. CASE ~Ready
    BY <1>2, <1>5, <2>2 DEF Ready
  <2> QED  BY <2>1, <2>2
<1> QED  BY <1>4, <1>6, <1>7 DEF StartupInv

LEMMA StartupInvariance == Spec => []StartupInv
<1>1. Init => StartupInv
  BY DEF Init, StartupInv, TypeOK, StartedInv, GivesUpForAnother
<1>2. StartupInv /\ [Next]_vars => StartupInv'
  <2> SUFFICES ASSUME StartupInv, [Next]_vars PROVE StartupInv'
    OBVIOUS
  <2>1. CASE UNCHANGED vars
    BY <2>1 DEF vars, StartupInv, TypeOK, StartedInv, GivesUpForAnother, Ready
  <2>2. ASSUME NEW w \in Windows, Open(w) PROVE StartupInv'
    BY <2>2, ScriptStep DEF Open, Goes
  <2>3. ASSUME NEW w \in Windows, StartMariaDB(w) PROVE StartupInv'
    BY <2>3, StartMariaDBStep
  <2>4. ASSUME NEW w \in Windows, StartSleep(w) PROVE StartupInv'
    BY <2>4, ScriptStep DEF StartSleep, Goes
  <2>5. ASSUME NEW w \in Windows, StartPhp(w) PROVE StartupInv'
    BY <2>5, ScriptStep DEF StartPhp, Goes
  <2>6. ASSUME NEW w \in Windows, Close(w) PROVE StartupInv'
    BY <2>6, ScriptStep DEF Close
  <2>7. ASSUME NEW w \in Windows, Initialize(w) PROVE StartupInv'
    BY <2>7, InitializeStep
  <2> QED  BY <2>1, <2>2, <2>3, <2>4, <2>5, <2>6, <2>7 DEF Next, Runs
<1> QED  BY <1>1, <1>2, PTL DEF Spec

(* Types, and that no database process is started where mysqld is missing. *)
THEOREM StartupTypes == Spec => []TypeOK
<1>1. StartupInv => TypeOK
  BY DEF StartupInv
<1> QED  BY <1>1, StartupInvariance, PTL

(* With a complete bundle, a site that is served has a database, or one    *)
(* that is still starting, for any number of windows opened and closed.    *)
THEOREM ServedSitesHaveADatabase == Spec => []ServedOverADatabase
<1>1. StartupInv => ServedOverADatabase
  <2> SUFFICES ASSUME StartupInv, bundle = {"mysqld", "php", "filled"}, Served,
                      ~ \E w \in Windows : mysqld[w] = "starting"
               PROVE  Ready
    BY DEF ServedOverADatabase
  <2>1. PICK w \in Windows : script[w] = "serves"
    BY DEF Served
  <2>2. mysqld[w] # "none" /\ mysqld[w] # "starting"
    BY <2>1 DEF StartupInv, StartedInv
  <2>3. mysqld[w] \in {"ready", "exited"}
    BY <2>2 DEF StartupInv, TypeOK
  <2> QED  BY <2>3 DEF StartupInv, GivesUpForAnother, Ready
<1> QED  BY <1>1, StartupInvariance, PTL
===============================================================================

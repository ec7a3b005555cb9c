------------------------------- MODULE Sessions -------------------------------
(***************************************************************************)
(* The session store behind session_start() and session_destroy(), as the  *)
(* scripts of this site use it: PHP's default handler, one file per        *)
(* browser (the PHPSESSID cookie), locked from session_start() until the   *)
(* script ends.  Of a session only user_id matters: every guard of the     *)
(* site tests isset($_SESSION["user_id"]) and nothing else.                *)
(*                                                                         *)
(* session_destroy() removes the file by name, so a script that opened it  *)
(* before and is still queueing for the lock goes on with the removed      *)
(* file, contents included, while the next session_start() finds a new     *)
(* empty one.  Hence a browser has a sequence of files, the last of which  *)
(* is the one its name leads to.                                           *)
(***************************************************************************)
EXTENDS Sequences, Naturals

CONSTANTS Browsers,   \* the browsers, one session cookie each
          Users,      \* rows of the users table
          NoUser      \* $_SESSION["user_id"] is not set

ASSUME NoUserAssumption == NoUser \notin Users

VARIABLE saved        \* saved[b][f]: the user_id in file f of browser b

SessionUsers == Users \cup {NoUser}

(* A browser may come with the cookie of a session it logged in earlier.   *)
SessionsInit == saved \in [Browsers -> {<<u>> : u \in SessionUsers}]

CurrentFile(b) == Len(saved[b])

(* What the end of a script writes back to the file it has locked.         *)
SaveSession(b, f, u) == saved' = [saved EXCEPT ![b][f] = u]

(* session_unset(); session_destroy(): the name now leads to no file, and  *)
(* whoever starts a session next gets an empty one.                        *)
DestroySession(b) == saved' = [saved EXCEPT ![b] = Append(@, NoUser)]
===============================================================================

-------------------------------- MODULE MCSignup ------------------------------
(***************************************************************************)
(* Instances of Signup for TLC.  upper and lower are one address typed in  *)
(* two ways, which the collation of the table takes for equal.             *)
(***************************************************************************)
EXTENDS Signup, TLC

CONSTANTS v1, v2, upper, lower

MCFold == [e \in Emails |-> IF e = upper THEN lower ELSE e]

Filled(e) == [email |-> e, apostrophe |-> "nowhere", gender |-> "male"]

(* Two spellings of one address, and one flaw at a time.                   *)
MCForms == {Filled(e) : e \in Emails}
             \cup {[Filled(lower) EXCEPT !.apostrophe = a] : a \in {"name", "email"}}
             \cup {[Filled(lower) EXCEPT !.gender = "unset"]}

Symmetry == Permutations(Visitors)
===============================================================================

----------------------------- MODULE MCPostProperty ---------------------------
(***************************************************************************)
(* Instance of PostProperty for TLC: an ordinary rent, a negative one and  *)
(* zero, which neither form nor table refuses, and one beyond the column.  *)
(***************************************************************************)
EXTENDS PostProperty

CONSTANTS o1, o2

MCRents == {-2, 0, 2, 9}
===============================================================================

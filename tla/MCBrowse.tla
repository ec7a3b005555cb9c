-------------------------------- MODULE MCBrowse ------------------------------
(***************************************************************************)
(* Instance of Browse for TLC: two cities, one with an apostrophe in its   *)
(* name, and properties whose ids differ from those of their cities.       *)
(***************************************************************************)
EXTENDS Browse, TLC

CONSTANTS Ann, Bob, Delhi, Kings

TwoCities == <<Delhi, Kings>>

Symmetry == Permutations(Users)

Rated(clean, food, safety) ==
  [c \in Criteria |-> CASE c = "clean" -> clean [] c = "food" -> food [] c = "safety" -> safety]

Samples ==
  <<[city |-> 2, gender |-> "male",   rent |-> 1, rating |-> Rated(43, 34, 48)],
    [city |-> 1, gender |-> "unisex", rent |-> 2, rating |-> Rated(0, 0, 0)],
    [city |-> 1, gender |-> "male",   rent |-> 1, rating |-> Rated(42, 42, 43)]>>

(* Averages of 42.67 and 47.67 tenths: half a star and a whole by rounding.*)
Drawn == {Rated(42, 43, 43), Rated(47, 48, 48)}
===============================================================================

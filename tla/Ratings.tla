------------------------------- MODULE Ratings --------------------------------
(***************************************************************************)
(* The ratings of a property as its cards and its page print them: five    *)
(* stars for one of three criteria, or for their average, which is rounded *)
(* to a tenth first.  A rating is a number of tenths and a star the number *)
(* of its halves that are filled; the floating point of the code agrees    *)
(* with the integers here on every rating from 0.0 to 5.0.                 *)
(***************************************************************************)
EXTENDS Integers

Criteria == {"clean", "food", "safety"}

Tenths == 0..50

RatingSum(p) == p["clean"] + p["food"] + p["safety"]

(* Mutation: the average is cut off after its first decimal.               *)
TotalRating_Cut(p) == RatingSum(p) \div 3

(* A third of the sum, rounded to the nearest tenth.                       *)
TotalRating(p) == (2 * RatingSum(p) + 3) \div 6

Rating(p, what) == IF what = "total" THEN TotalRating(p) ELSE p[what]

(* Mutation: a star counts half only from its middle.                      *)
Star_FromMiddle(rating, i) ==
  IF rating >= 10 * i + 8 THEN 2 ELSE IF rating >= 10 * i + 5 THEN 1 ELSE 0

(* Star i, from 0: full from i + 0.8, half from i + 0.3.                   *)
Star(rating, i) ==
  IF rating >= 10 * i + 8 THEN 2 ELSE IF rating >= 10 * i + 3 THEN 1 ELSE 0

Stars(rating) == [n \in 1..5 |-> Star(rating, n - 1)]

-------------------------------------------------------------------------------
(* What the numbers should be, from three times the exact rating.  A half  *)
(* star is fifteen thirds of a tenth.                                      *)
Exact(p, what) == IF what = "total" THEN RatingSum(p) ELSE 3 * p[what]

NearestTenth(rating, exact) == 3 * rating - exact \in -1..1

FilledHalves(stars) == stars[1] + stars[2] + stars[3] + stars[4] + stars[5]

NearestHalfStar(stars, exact) ==
  LET d == 15 * FilledHalves(stars) - exact IN -15 < 2 * d /\ 2 * d < 15

(* Before a star that is not empty all are full.                           *)
FromTheLeft(stars) ==
  \A i, j \in 1..5 : i < j /\ stars[j] > 0 => stars[i] = 2
===============================================================================

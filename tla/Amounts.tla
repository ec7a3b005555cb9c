-------------------------------- MODULE Amounts -------------------------------
(***************************************************************************)
(* The way of an amount, in rupees, from the payment page to the dashboard:*)
(* printed into the page's script, posted, parsed, stored in a FLOAT       *)
(* column, and read back as text of at most six significant digits.        *)
(***************************************************************************)
EXTENDS Fees

CONSTANT Rents  \* whole rupees, as the listing form takes them

Magnitude(a) == IF a < 0 THEN -a ELSE a

(* The column of rents, DECIMAL(10,2), has eight digits before the point.  *)
ASSUME AmountsAssumption == Rents \subseteq {r \in Int : Magnitude(r) < 10 ^ 8}

VARIABLES rent,   \* of the property
          stage,  \* how far its total has come
          amount  \* what the total has become

amountVars == <<rent, stage, amount>>

Stages == {"due", "posted", "stored", "paid"}

(* The distance of numbers with so many digits in the given base, at a.    *)
(* No total is so large that it loses more than five.                      *)
Spacing(base, digits, a) ==
  base ^ (CHOOSE lost \in 0..5 :
            /\ Magnitude(a) < base ^ (digits + lost)
            /\ lost > 0 => Magnitude(a) >= base ^ (digits + lost - 1))

(* The multiples of a unit nearest to a; two of them where a is half way.  *)
Nearest(unit, a) ==
  {m \in {unit * (a \div unit), unit * (a \div unit) + unit} :
     2 * Magnitude(m - a) <= unit}

-------------------------------------------------------------------------------
(* Total Due Today.                                                        *)
PrintTotal ==
  /\ rent \in Rents
  /\ stage = "due"
  /\ amount = TotalDue(rent)

Goes(from, to) == stage = from /\ stage' = to /\ UNCHANGED rent

(* Mutation: the total is posted as it is shown, with commas, and floatval *)
(* stops at the first one.                                                 *)
Post_Formatted ==
  /\ Goes("due", "posted")
  /\ amount' = IF Magnitude(amount) < 1000 THEN amount
               ELSE amount \div (1000 ^ (CHOOSE k \in 1..2 :
                                           Magnitude(amount) \div 1000 ^ k < 1000))

(* Printed without commas, so floatval finds the same number; only 0 would *)
(* be refused.                                                             *)
Post == Goes("due", "posted") /\ amount # 0 /\ UNCHANGED amount

(* FLOAT: 24 binary digits.                                                *)
Store == Goes("posted", "stored") /\ amount' \in Nearest(Spacing(2, 24, amount), amount)

(* Total Paid.                                                             *)
Show == Goes("stored", "paid") /\ amount' \in Nearest(Spacing(10, 6, amount), amount)

-------------------------------------------------------------------------------
(* A total of less than a million rupees comes back as it was due, through *)
(* both roundings, and a larger one within a unit of its sixth digit       *)
(* (payment.php:202, dashboard.php:119).                                   *)
PaidIsClose ==
  stage = "paid" =>
    LET due == TotalDue(rent)
        off == Magnitude(amount - due)
    IN IF Magnitude(due) < 1000000 THEN off = 0 ELSE off < Spacing(10, 6, due)
===============================================================================

------------------------------ MODULE MCPaymentForm ---------------------------
(***************************************************************************)
(* Instance of PaymentForm for TLC, with wallets of the page and rents     *)
(* whose totals lie about the powers of ten and of two at which a digit is *)
(* lost, up to the largest rent the column holds.                          *)
(***************************************************************************)
EXTENDS PaymentForm, TLC

CONSTANTS Paytm, PhonePe, AmazonPay

Symmetry == Permutations(Wallets)

About(total) == LET r == (total - PlatformFee) \div 3 IN (r - 1)..(r + 2)

BoundaryRents ==
  {-1, 0, 8500} \cup About(1000000) \cup About(10000000) \cup About(2 ^ 24)
  \cup About(2 ^ 25) \cup About(2 ^ 28) \cup {99999998, 99999999}
===============================================================================

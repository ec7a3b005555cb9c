--------------------------------- MODULE Fees ---------------------------------
(***************************************************************************)
(* What payment.php asks for a property, in whole rupees.                  *)
(***************************************************************************)
EXTENDS Integers

PlatformFee == 499

SecurityDeposit(rent) == 2 * rent

TotalDue(rent) == rent + SecurityDeposit(rent) + PlatformFee
===============================================================================

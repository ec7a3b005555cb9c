SPECIFICATION Spec
CONSTANTS
  Paytm = Paytm  PhonePe = PhonePe  AmazonPay = AmazonPay
  Wallets = {Paytm, PhonePe, AmazonPay}
  Rents <- BoundaryRents
\* An amount on the dashboard has come to its end.
CHECK_DEADLOCK FALSE
SYMMETRY Symmetry
INVARIANTS
  TypeOK
  TabsTellTheMethod
  ExpiryHasRoom
  PaidIsClose

---------------------------- MODULE PaymentFormProofs -------------------------
(***************************************************************************)
(* Theorems of PaymentForm for every set of wallets and of rents.          *)
(***************************************************************************)
EXTENDS PaymentForm, TLAPS

FormInv == TypeOK /\ TabsTellTheMethod

LEMMA SwitchPreserves ==
  ASSUME FormInv, NEW type \in Methods, SwitchPay(type), UNCHANGED amountVars
  PROVE  FormInv'
<1>1. /\ active' = {type} /\ shown' = {type}
      /\ card' = card /\ expiry' = expiry
      /\ rent' = rent /\ stage' = stage
  BY DEF SwitchPay, amountVars
<1>2. type \notin Wallets
  BY FormAssumption
<1>3. TypeOK'
  BY <1>1 DEF FormInv, TypeOK
<1>4. TabsTellTheMethod'
  BY <1>1, <1>2 DEF TabsTellTheMethod
<1> QED  BY <1>3, <1>4 DEF FormInv

LEMMA SelectPreserves ==
  ASSUME FormInv, NEW w \in Wallets, SelectWallet(w), UNCHANGED amountVars
  PROVE  FormInv'
<1>1. /\ "wallet" \in shown
      /\ active' = (active \ Wallets) \cup {w}
      /\ shown' = shown /\ card' = card /\ expiry' = expiry
      /\ rent' = rent /\ stage' = stage
  BY DEF SelectWallet, amountVars
<1>2. active' \cap Methods = active \cap Methods
  BY <1>1, FormAssumption
<1>3. active' \cap Wallets = {w}
  BY <1>1
<1>4. TypeOK'
  BY <1>1 DEF FormInv, TypeOK
<1>5. TabsTellTheMethod'
  <2>1. \E s \in Methods : shown' = {s} /\ active' \cap Methods = {s}
    BY <1>1, <1>2 DEF FormInv, TabsTellTheMethod
  <2> QED  BY <1>1, <1>3, <2>1 DEF TabsTellTheMethod
<1> QED  BY <1>4, <1>5 DEF FormInv

LEMMA FieldsPreserve ==
  ASSUME FormInv, Fields, UNCHANGED amountVars
  PROVE  FormInv'
<1>1. shown' = shown /\ active' = active /\ rent' = rent /\ stage' = stage
  BY DEF Fields, EditCard, EditExpiry, amountVars
<1>2. card' \in 0..16 /\ expiry' \in 0..4
  <2>1. ASSUME NEW cut \in 0..CardMaxLength, NEW new \in 0..CardMaxLength,
               NEW gaps \in 0..6, EditCard(cut, gaps, new)
        PROVE  card' \in 0..16 /\ expiry' \in 0..4
    BY <2>1 DEF EditCard, Smaller, CardMaxLength, FormInv, TypeOK
  <2>2. ASSUME NEW cut \in 0..ExpiryMaxLength, NEW new \in 0..ExpiryMaxLength,
               NEW gaps \in 0..3, EditExpiry(cut, gaps, new)
        PROVE  card' \in 0..16 /\ expiry' \in 0..4
    BY <2>2 DEF EditExpiry, Smaller, ExpiryMaxLength, FormInv, TypeOK
  <2> QED  BY <2>1, <2>2 DEF Fields
<1> QED  BY <1>1, <1>2 DEF FormInv, TypeOK, TabsTellTheMethod

LEMMA PayPreserves ==
  ASSUME FormInv, Pay
  PROVE  FormInv'
<1>1. /\ shown' = shown /\ active' = active /\ card' = card /\ expiry' = expiry
      /\ rent' = rent /\ stage' \in Stages
  BY DEF Pay, formVars, Post, Store, Show, Goes, Stages
<1> QED  BY <1>1 DEF FormInv, TypeOK, TabsTellTheMethod

LEMMA FormInvariance == Spec => []FormInv
<1>1. Init => FormInv
  <2> SUFFICES ASSUME Init PROVE FormInv
    OBVIOUS
  <2>1. shown = {"card"} /\ active = {"card"} /\ card = 0 /\ expiry = 0
    BY DEF Init
  <2>2. "card" \in Methods /\ "card" \notin Wallets
    BY FormAssumption DEF Methods
  <2>3. rent \in Rents /\ stage \in Stages
    BY DEF Init, PrintTotal, Stages
  <2> QED  BY <2>1, <2>2, <2>3 DEF FormInv, TypeOK, TabsTellTheMethod
<1>2. FormInv /\ [Next]_vars => FormInv'
  <2> SUFFICES ASSUME FormInv, [Next]_vars PROVE FormInv'
    OBVIOUS
  <2>1. CASE UNCHANGED vars
    BY <2>1 DEF vars, formVars, amountVars, FormInv, TypeOK, TabsTellTheMethod
  <2>2. CASE OnPage
    BY <2>2, SwitchPreserves, SelectPreserves, FieldsPreserve DEF OnPage
  <2>3. CASE Pay
    BY <2>3, PayPreserves
  <2> QED  BY <2>1, <2>2, <2>3 DEF Next
<1> QED  BY <1>1, <1>2, PTL DEF Spec

(* The fields keep at most sixteen and four digits, however a visitor      *)
(* types, pastes and deletes.                                              *)
THEOREM FormTypes == Spec => []TypeOK
<1>1. FormInv => TypeOK
  BY DEF FormInv
<1> QED  BY <1>1, FormInvariance, PTL

(* The tabs tell the method on show, and a wallet only among the wallets,  *)
(* for any number of wallets.                                              *)
THEOREM TabsAreRight == Spec => []TabsTellTheMethod
<1>1. FormInv => TabsTellTheMethod
  BY DEF FormInv
<1> QED  BY <1>1, FormInvariance, PTL

(* While digits of the expiry date are missing there is room for the next. *)
THEOREM ExpiryCanBeTyped == Spec => []ExpiryHasRoom
<1>1. TypeOK => ExpiryHasRoom
  BY DEF TypeOK, ExpiryHasRoom, ExpiryLength, ExpiryMaxLength
<1> QED  BY <1>1, FormTypes, PTL

-------------------------------------------------------------------------------
(* The amount.  Totals have at most 29 binary and nine decimal digits.     *)

(* A unit in the 24th binary digit of what is less than 400 million.       *)
LEMMA BinarySpacing ==
  ASSUME NEW a \in Int, Magnitude(a) < 400000000
  PROVE  /\ Spacing(2, 24, a) \in {1, 2, 4, 8, 16, 32}
         /\ Magnitude(a) < 16777216 * Spacing(2, 24, a)
         /\ Spacing(2, 24, a) > 1 => 8388608 * Spacing(2, 24, a) <= Magnitude(a)
<1> DEFINE m == Magnitude(a)
           Fits(lost) == /\ m < 2 ^ (24 + lost)
                         /\ lost > 0 => m >= 2 ^ (24 + lost - 1)
           least == CHOOSE lost \in 0..5 : Fits(lost)
<1>1. m \in Nat /\ m < 400000000
  BY DEF Magnitude
<1>2. Spacing(2, 24, a) = 2 ^ least
  BY DEF Spacing
<1> HIDE DEF m
<1>3. /\ Fits(0) <=> m < 16777216
      /\ Fits(1) <=> m < 33554432 /\ m >= 16777216
      /\ Fits(2) <=> m < 67108864 /\ m >= 33554432
      /\ Fits(3) <=> m < 134217728 /\ m >= 67108864
      /\ Fits(4) <=> m < 268435456 /\ m >= 134217728
      /\ Fits(5) <=> m < 536870912 /\ m >= 268435456
  <2>1. /\ 2 ^ 24 = 16777216 /\ 2 ^ 25 = 33554432 /\ 2 ^ 26 = 67108864
        /\ 2 ^ 27 = 134217728 /\ 2 ^ 28 = 268435456 /\ 2 ^ 29 = 536870912
    OBVIOUS
  <2>2. /\ 24 + 0 = 24 /\ 24 + 1 = 25 /\ 24 + 2 = 26
        /\ 24 + 3 = 27 /\ 24 + 4 = 28 /\ 24 + 5 = 29
        /\ 25 - 1 = 24 /\ 26 - 1 = 25 /\ 27 - 1 = 26
        /\ 28 - 1 = 27 /\ 29 - 1 = 28
    OBVIOUS
  <2> QED  BY <1>1, <2>1, <2>2
<1> HIDE DEF Fits
<1>4. Fits(0) \/ Fits(1) \/ Fits(2) \/ Fits(3) \/ Fits(4) \/ Fits(5)
  BY <1>1, <1>3
<1>5. least \in 0..5 /\ Fits(least)
  BY <1>4
<1> HIDE DEF least
<1>6. 2 ^ 0 = 1 /\ 2 ^ 1 = 2 /\ 2 ^ 2 = 4 /\ 2 ^ 3 = 8 /\ 2 ^ 4 = 16 /\ 2 ^ 5 = 32
  OBVIOUS
<1>7. CASE least = 0
  BY <1>1, <1>2, <1>3, <1>5, <1>6, <1>7 DEF m
<1>8. CASE least = 1
  BY <1>1, <1>2, <1>3, <1>5, <1>6, <1>8 DEF m
<1>9. CASE least = 2
  BY <1>1, <1>2, <1>3, <1>5, <1>6, <1>9 DEF m
<1>10. CASE least = 3
  BY <1>1, <1>2, <1>3, <1>5, <1>6, <1>10 DEF m
<1>11. CASE least = 4
  BY <1>1, <1>2, <1>3, <1>5, <1>6, <1>11 DEF m
<1>12. CASE least = 5
  BY <1>1, <1>2, <1>3, <1>5, <1>6, <1>12 DEF m
<1> QED  BY <1>5, <1>7, <1>8, <1>9, <1>10, <1>11, <1>12

(* A unit in its sixth decimal digit.                                      *)
LEMMA DecimalSpacing ==
  ASSUME NEW a \in Int, Magnitude(a) < 400000000
  PROVE  /\ Spacing(10, 6, a) \in {1, 10, 100, 1000, 10000, 100000}
         /\ Magnitude(a) < 1000000 * Spacing(10, 6, a)
         /\ Spacing(10, 6, a) > 1 => 100000 * Spacing(10, 6, a) <= Magnitude(a)
<1> DEFINE m == Magnitude(a)
           Fits(lost) == /\ m < 10 ^ (6 + lost)
                         /\ lost > 0 => m >= 10 ^ (6 + lost - 1)
           least == CHOOSE lost \in 0..5 : Fits(lost)
<1>1. m \in Nat /\ m < 400000000
  BY DEF Magnitude
<1>2. Spacing(10, 6, a) = 10 ^ least
  BY DEF Spacing
<1> HIDE DEF m
<1>3. /\ Fits(0) <=> m < 1000000
      /\ Fits(1) <=> m < 10000000 /\ m >= 1000000
      /\ Fits(2) <=> m < 100000000 /\ m >= 10000000
      /\ Fits(3) <=> m < 1000000000 /\ m >= 100000000
      /\ Fits(4) <=> m < 10000000000 /\ m >= 1000000000
      /\ Fits(5) <=> m < 100000000000 /\ m >= 10000000000
  <2>1. /\ 10 ^ 6 = 1000000 /\ 10 ^ 7 = 10000000 /\ 10 ^ 8 = 100000000
        /\ 10 ^ 9 = 1000000000 /\ 10 ^ 10 = 10000000000 /\ 10 ^ 11 = 100000000000
    OBVIOUS
  <2>2. /\ 6 + 0 = 6 /\ 6 + 1 = 7 /\ 6 + 2 = 8
        /\ 6 + 3 = 9 /\ 6 + 4 = 10 /\ 6 + 5 = 11
        /\ 7 - 1 = 6 /\ 8 - 1 = 7 /\ 9 - 1 = 8
        /\ 10 - 1 = 9 /\ 11 - 1 = 10
    OBVIOUS
  <2> QED  BY <1>1, <2>1, <2>2
<1> HIDE DEF Fits
<1>4. Fits(0) \/ Fits(1) \/ Fits(2) \/ Fits(3) \/ Fits(4) \/ Fits(5)
  BY <1>1, <1>3
<1>5. least \in 0..5 /\ Fits(least)
  BY <1>4
<1> HIDE DEF least
<1>6. 10 ^ 0 = 1 /\ 10 ^ 1 = 10 /\ 10 ^ 2 = 100 /\ 10 ^ 3 = 1000 /\ 10 ^ 4 = 10000 /\ 10 ^ 5 = 100000
  OBVIOUS
<1>7. CASE least = 0
  BY <1>1, <1>2, <1>3, <1>5, <1>6, <1>7 DEF m
<1>8. CASE least = 1
  BY <1>1, <1>2, <1>3, <1>5, <1>6, <1>8 DEF m
<1>9. CASE least = 2
  BY <1>1, <1>2, <1>3, <1>5, <1>6, <1>9 DEF m
<1>10. CASE least = 3
  BY <1>1, <1>2, <1>3, <1>5, <1>6, <1>10 DEF m
<1>11. CASE least = 4
  BY <1>1, <1>2, <1>3, <1>5, <1>6, <1>11 DEF m
<1>12. CASE least = 5
  BY <1>1, <1>2, <1>3, <1>5, <1>6, <1>12 DEF m
<1> QED  BY <1>5, <1>7, <1>8, <1>9, <1>10, <1>11, <1>12

(* Rounding ends at a multiple, no farther than half a unit away.          *)
LEMMA NearestIsNear ==
  ASSUME NEW unit \in Nat \ {0}, NEW a \in Int, NEW m \in Nearest(unit, a)
  PROVE  /\ m \in Int
         /\ -unit <= 2 * (m - a) /\ 2 * (m - a) <= unit
         /\ \E n \in Int : m = unit * n
<1> DEFINE n == a \div unit
<1>1. n \in Int
  OBVIOUS
<1>2. m \in {unit * n, unit * n + unit} /\ 2 * Magnitude(m - a) <= unit
  BY DEF Nearest
<1> HIDE DEF n
<1>3. unit * n \in Int /\ unit * n + unit = unit * (n + 1) /\ n + 1 \in Int
  BY <1>1
<1>4. m \in Int
  BY <1>2, <1>3
<1>5. -unit <= 2 * (m - a) /\ 2 * (m - a) <= unit
  BY <1>2, <1>4 DEF Magnitude
<1>6. \E i \in Int : m = unit * i
  BY <1>1, <1>2, <1>3
<1> QED  BY <1>4, <1>5, <1>6

(* What TwoRoundings needs of the numbers.                                 *)
LEMMA RoundingArithmetic ==
  ASSUME NEW due \in Int, NEW stored \in Int, NEW paid \in Int, NEW n \in Int,
         NEW d \in {100, 1000}, NEW s \in {100, 1000},
         paid = s * n,
         due >= 16777216, due < 1000000 * d, due >= 100000 * d, 
         -17 <= stored - due, stored - due <= 17,
         stored < 1000000 * s, stored >= 100000 * s,
         -s <= 2 * (paid - stored), 2 * (paid - stored) <= s
  PROVE  -d < paid - due /\ paid - due < d
<1>1. CASE s = 100
  BY <1>1
<1>2. CASE s = 1000 /\ d = 1000
  BY <1>2
<1>3. CASE s = 1000 /\ d = 100
  BY <1>3
<1> QED  BY <1>1, <1>2, <1>3

(* A number of less than a million is kept by both roundings.  Of a larger *)
(* one less than a unit in the sixth digit is lost: what the column takes  *)
(* is no more than 17 rupees, and where that crosses a power of ten, it is *)
(* the power of ten that is shown.                                         *)
LEMMA TwoRoundings ==
  ASSUME NEW due \in Int, Magnitude(due) < 300001000,
         NEW stored \in Nearest(Spacing(2, 24, due), due),
         NEW paid \in Nearest(Spacing(10, 6, stored), stored)
  PROVE  IF Magnitude(due) < 1000000 THEN Magnitude(paid - due) = 0
         ELSE Magnitude(paid - due) < Spacing(10, 6, due)
<1> DEFINE b == Spacing(2, 24, due)
           d == Spacing(10, 6, due)
           s == Spacing(10, 6, stored)
           x == Magnitude(due)
           y == Magnitude(stored)
<1>1. x \in Int /\ x < 300001000 /\ x < 400000000
  BY DEF Magnitude
<1>2. /\ b \in {1, 2, 4, 8, 16, 32}
      /\ x < 16777216 * b /\ (b > 1 => 8388608 * b <= x)
  BY <1>1, BinarySpacing
<1>3. /\ d \in {1, 10, 100, 1000, 10000, 100000}
      /\ x < 1000000 * d /\ (d > 1 => 100000 * d <= x)
  BY <1>1, DecimalSpacing
<1> HIDE DEF b, d, s, x, y
<1>4. stored \in Nearest(b, due) /\ paid \in Nearest(s, stored)
  BY DEF b, s
<1>5. b \in Nat \ {0}
  BY <1>2
<1>6. stored \in Int /\ -b <= 2 * (stored - due) /\ 2 * (stored - due) <= b
  BY <1>4, <1>5, NearestIsNear
<1>7. b <= 32
  BY <1>2
<1>8. -17 <= stored - due /\ stored - due <= 17
  BY <1>6, <1>5, <1>7
<1>9. y \in Int /\ y < 400000000
  <2>1. y \in Int /\ y <= x + 17
    BY <1>6, <1>8 DEF x, y, Magnitude
  <2> QED  BY <1>1, <2>1
<1>10. /\ s \in {1, 10, 100, 1000, 10000, 100000}
       /\ y < 1000000 * s /\ (s > 1 => 100000 * s <= y)
  BY <1>6, <1>9, DecimalSpacing DEF s, y
<1>11. s \in Nat \ {0}
  BY <1>10
<1>12. /\ paid \in Int /\ -s <= 2 * (paid - stored) /\ 2 * (paid - stored) <= s
       /\ \E n \in Int : paid = s * n
  BY <1>4, <1>6, <1>11, NearestIsNear
<1>13. CASE b = 1
  <2>1. stored = due
    BY <1>6, <1>13
  <2>2. s = d /\ y = x
    BY <2>1 DEF s, d, x, y
  <2>3. CASE x < 1000000
    <3>1. d = 1
      BY <1>1, <1>3, <2>3
    <3>2. paid = due
      BY <1>12, <2>1, <2>2, <3>1
    <3> QED  BY <2>3, <3>2 DEF x, Magnitude
  <2>4. CASE ~(x < 1000000)
    <3>1. d \in Nat /\ d > 1
      BY <1>1, <1>3, <2>4
    <3>2. -d < paid - due /\ paid - due < d
      BY <1>12, <2>1, <2>2, <3>1
    <3>3. Magnitude(paid - due) < d
      BY <1>12, <3>1, <3>2 DEF Magnitude
    <3> QED  BY <2>4, <3>3 DEF x, d
  <2> QED  BY <2>3, <2>4
<1>14. CASE b # 1
  <2>1. b > 1
    BY <1>2, <1>14
  <2>2. x >= 16777216
    BY <1>1, <1>2, <2>1
  <2>3. d \in {100, 1000}
    BY <1>1, <1>3, <2>2
  <2>4. PICK n \in Int : paid = s * n
    BY <1>12
  <2>5. y >= 16777216 - 17
    BY <1>6, <1>8, <2>2 DEF x, y, Magnitude
  <2>6. s \in {100, 1000}
    BY <1>9, <1>10, <2>5
  <2>7. -d < paid - due /\ paid - due < d
    <3>1. CASE due >= 0
      <4>1. x = due /\ y = stored
        BY <1>6, <1>8, <2>2, <3>1 DEF x, y, Magnitude
      <4> QED
        BY <1>3, <1>6, <1>8, <1>10, <1>12, <2>2, <2>3, <2>4, <2>6, <4>1, RoundingArithmetic
    <3>2. CASE due < 0
      <4>1. x = -due /\ y = -stored
        BY <1>6, <1>8, <2>2, <3>2 DEF x, y, Magnitude
      <4>2. -paid = s * (-n) /\ -paid \in Int /\ -n \in Int
        BY <1>12, <2>4, <2>6
      <4>3. /\ -due \in Int /\ -stored \in Int
            /\ -17 <= (-stored) - (-due) /\ (-stored) - (-due) <= 17
            /\ -s <= 2 * ((-paid) - (-stored)) /\ 2 * ((-paid) - (-stored)) <= s
        BY <1>6, <1>8, <1>11, <1>12
      <4>4. -d < (-paid) - (-due) /\ (-paid) - (-due) < d
        BY <1>3, <1>10, <2>2, <2>3, <2>6, <4>1, <4>2, <4>3, RoundingArithmetic
      <4> QED  BY <1>12, <2>3, <4>4
    <3> QED  BY <3>1, <3>2
  <2>8. Magnitude(paid - due) < d
    BY <1>12, <2>3, <2>7 DEF Magnitude
  <2>9. ~(x < 1000000)
    BY <1>1, <2>2
  <2> QED  BY <2>8, <2>9 DEF x, d
<1> QED  BY <1>13, <1>14

-------------------------------------------------------------------------------
(* What a total has become at each stage.                                  *)
AmountInv ==
  /\ stage \in Stages
  /\ rent \in Rents
  /\ stage \in {"due", "posted"} => amount = TotalDue(rent)
  /\ stage = "stored" => amount \in Nearest(Spacing(2, 24, TotalDue(rent)), TotalDue(rent))
  /\ PaidIsClose

LEMMA TotalIsSmall ==
  ASSUME rent \in Rents
  PROVE  TotalDue(rent) \in Int /\ Magnitude(TotalDue(rent)) < 300001000
<1>1. rent \in Int /\ Magnitude(rent) < 10 ^ 8
  BY AmountsAssumption
<1>2. 10 ^ 8 = 100000000
  OBVIOUS
<1>3. Magnitude(rent) < 100000000
  BY <1>1, <1>2
<1>4. TotalDue(rent) = 3 * rent + 499
  BY <1>1 DEF TotalDue, SecurityDeposit, PlatformFee
<1> QED  BY <1>1, <1>3, <1>4 DEF Magnitude

LEMMA ShowIsClose ==
  ASSUME AmountInv, Show
  PROVE  AmountInv'
<1> DEFINE due == TotalDue(rent)
<1>1. /\ stage = "stored" /\ stage' = "paid" /\ rent' = rent
      /\ amount' \in Nearest(Spacing(10, 6, amount), amount)
  BY DEF Show, Goes
<1>2. amount \in Nearest(Spacing(2, 24, due), due)
  BY <1>1 DEF AmountInv
<1>3. due \in Int /\ Magnitude(due) < 300001000
  BY TotalIsSmall DEF AmountInv
<1> HIDE DEF due
<1>4. IF Magnitude(due) < 1000000 THEN Magnitude(amount' - due) = 0
      ELSE Magnitude(amount' - due) < Spacing(10, 6, due)
  BY <1>1, <1>2, <1>3, TwoRoundings
<1>5. TotalDue(rent') = due
  BY <1>1 DEF due
<1>6. PaidIsClose'
  BY <1>4, <1>5 DEF PaidIsClose
<1> QED  BY <1>1, <1>6 DEF AmountInv, Stages

LEMMA AmountInvariance == Spec => []AmountInv
<1>1. Init => AmountInv
  BY DEF Init, PrintTotal, AmountInv, Stages, PaidIsClose
<1>2. AmountInv /\ [Next]_vars => AmountInv'
  <2> SUFFICES ASSUME AmountInv, [Next]_vars PROVE AmountInv'
    OBVIOUS
  <2>1. CASE UNCHANGED amountVars
    <3>1. rent' = rent /\ stage' = stage /\ amount' = amount
      BY <2>1 DEF amountVars
    <3>2. PaidIsClose'
      BY <3>1 DEF AmountInv, PaidIsClose
    <3> QED  BY <3>1, <3>2 DEF AmountInv
  <2>2. CASE Post
    BY <2>2 DEF Post, Goes, AmountInv, PaidIsClose, Stages
  <2>3. CASE Store
    <3>1. /\ stage = "posted" /\ stage' = "stored" /\ rent' = rent
          /\ amount' \in Nearest(Spacing(2, 24, amount), amount)
      BY <2>3 DEF Store, Goes
    <3> QED  BY <3>1 DEF AmountInv, PaidIsClose, Stages
  <2>4. CASE Show
    BY <2>4, ShowIsClose
  <2> QED  BY <2>1, <2>2, <2>3, <2>4 DEF Next, OnPage, Pay, vars
<1> QED  BY <1>1, <1>2, PTL DEF Spec

(* Every rent the column can hold: what the dashboard says was paid is the *)
(* total that was due if that is less than a million rupees, and otherwise *)
(* less than a unit of its sixth digit away.                               *)
THEOREM PaidStaysClose == Spec => []PaidIsClose
<1>1. AmountInv => PaidIsClose
  BY DEF AmountInv
<1> QED  BY <1>1, AmountInvariance, PTL
===============================================================================

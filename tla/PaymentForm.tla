------------------------------- MODULE PaymentForm ----------------------------
(***************************************************************************)
(* What the visitor does on the payment page: the tabs of the payment      *)
(* methods and of the wallets, which share one style class, the fields of  *)
(* card number and expiry date, whose text the page's script rewrites      *)
(* after every change of it, and Pay, after which the amount goes its way  *)
(* to the dashboard while the page stays.  Of a text only the number of    *)
(* its digits is kept; the rewriting decides the rest.  What can fail      *)
(* between Pay and the row is in Booking.                                  *)
(***************************************************************************)
EXTENDS Amounts, FiniteSets

CONSTANT Wallets     \* the tabs of the section of wallets

Methods == {"card", "upi", "netbank", "wallet"}

ASSUME FormAssumption == Wallets \cap Methods = {}

VARIABLES shown,  \* the sections with class show
          active, \* the tabs with class active
          card,   \* digits in the card number
          expiry  \* digits in the expiry date

formVars == <<shown, active, card, expiry>>
vars == <<formVars, amountVars>>

TypeOK ==
  /\ shown \subseteq Methods
  /\ active \subseteq Methods \cup Wallets
  /\ card \in 0..16
  /\ expiry \in 0..4
  /\ rent \in Rents
  /\ stage \in Stages

Init ==
  /\ shown = {"card"}
  /\ active = {"card"}
  /\ card = 0
  /\ expiry = 0
  /\ PrintTotal

-------------------------------------------------------------------------------
(* The tabs.                                                               *)

(* Mutation: only the tabs of the methods are cleared.                     *)
SwitchPay_MethodsOnly(type) ==
  /\ active' = (active \ Methods) \cup {type}
  /\ shown' = {s \in Methods : s = type}
  /\ UNCHANGED <<card, expiry>>

(* Clears every tab of the page, those of the wallets included.            *)
SwitchPay(type) ==
  /\ active' = {type}
  /\ shown' = {s \in Methods : s = type}
  /\ UNCHANGED <<card, expiry>>

(* Clears the tabs of the wallets.  They can be seen only in their section.*)
SelectWallet(w) ==
  /\ "wallet" \in shown
  /\ active' = (active \ Wallets) \cup {w}
  /\ UNCHANGED <<shown, card, expiry>>

-------------------------------------------------------------------------------
(* The fields.  The browser lets a visitor insert only what keeps a text   *)
(* within its maxlength; the script may make it longer.                    *)

CardMaxLength   == 19
ExpiryMaxLength == 7

(* Two spaces after every group of four digits, but none at the end.       *)
CardLength(n) == IF n = 0 THEN 0 ELSE n + 2 * ((n - 1) \div 4)

(* Mutation: two spaces on each side of the slash.                         *)
ExpiryLength_Wide(m) == IF m < 2 THEN m ELSE m + 5

(* " / " as soon as the month is there.                                    *)
ExpiryLength(m) == IF m < 2 THEN m ELSE m + 3

Smaller(x, y) == IF x < y THEN x ELSE y

Room(max, length) == IF length < max THEN max - length ELSE 0

(* Mutation: the digits are not cut off at sixteen.                        *)
EditCard_Uncut(cut, gaps, new) ==
  /\ cut <= card
  /\ gaps <= CardLength(card) - card
  /\ new <= Room(CardMaxLength, CardLength(card) - cut - gaps)
  /\ card' = card - cut + new
  /\ UNCHANGED <<shown, active, expiry>>

(* A key or a paste: new digits in the place of a selection of digits and  *)
(* of spaces between them, which may be empty.                             *)
EditCard(cut, gaps, new) ==
  /\ cut <= card
  /\ gaps <= CardLength(card) - card
  /\ new <= Room(CardMaxLength, CardLength(card) - cut - gaps)
  /\ card' = Smaller(16, card - cut + new)
  /\ UNCHANGED <<shown, active, expiry>>

EditExpiry(cut, gaps, new) ==
  /\ cut <= expiry
  /\ gaps <= ExpiryLength(expiry) - expiry
  /\ new <= Room(ExpiryMaxLength, ExpiryLength(expiry) - cut - gaps)
  /\ expiry' = Smaller(4, expiry - cut + new)
  /\ UNCHANGED <<shown, active, card>>

-------------------------------------------------------------------------------
Fields ==
  /\ "card" \in shown
  /\ \/ \E cut, new \in 0..CardMaxLength, gaps \in 0..6 : EditCard(cut, gaps, new)
     \/ \E cut, new \in 0..ExpiryMaxLength, gaps \in 0..3 : EditExpiry(cut, gaps, new)

(* The page is there until the dashboard is opened from it.                *)
OnPage ==
  /\ stage # "paid"
  /\ \/ \E type \in Methods : SwitchPay(type)
     \/ \E w \in Wallets : SelectWallet(w)
     \/ Fields
  /\ UNCHANGED amountVars

Pay == (Post \/ Store \/ Show) /\ UNCHANGED formVars

Next == OnPage \/ Pay

Spec == Init /\ [][Next]_vars

-------------------------------------------------------------------------------
(* The tabs never tell another method than the section that is shown: one  *)
(* method is marked, the one on show, and a wallet only while the wallets  *)
(* are, although the two rows of tabs are cleared by each other's code.    *)
TabsTellTheMethod ==
  /\ \E s \in Methods : shown = {s} /\ active \cap Methods = {s}
  /\ active \cap Wallets # {} => "wallet" \in shown
  /\ \A w, x \in active \cap Wallets : w = x

(* An expiry date can be typed to its end: while digits are missing the    *)
(* field has room for the next.                                            *)
ExpiryHasRoom == expiry < 4 => ExpiryLength(expiry) < ExpiryMaxLength
===============================================================================

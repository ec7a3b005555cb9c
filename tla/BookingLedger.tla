----------------------------- MODULE BookingLedger ----------------------------
(***************************************************************************)
(* What booking promises, without browsers, sessions, locks or messages:   *)
(* submissions wait; each is booked once, at the price of its property,    *)
(* or dropped; a confirmation is shown only for a submission that is in    *)
(* the ledger; nothing leaves the ledger.                                  *)
(***************************************************************************)
EXTENDS Sequences

CONSTANTS Users, Properties,
          Price     \* what booking a property costs

VARIABLES pending,  \* submissions not decided yet
          ledger,   \* the rows, oldest first
          shown     \* the submissions on whose page a confirmation is due

lvars == <<pending, ledger, shown>>

Recorded(id) == \E i \in DOMAIN ledger : ledger[i].click = id

Init == pending = {} /\ ledger = <<>> /\ shown = {}

Submit(s) ==
  /\ ~Recorded(s.click)
  /\ \A q \in pending : q.click # s.click
  /\ pending' = pending \cup {s}
  /\ UNCHANGED <<ledger, shown>>

Book(s, u) ==
  /\ pending' = pending \ {s}
  /\ ledger' = Append(ledger, [user |-> u, prop |-> s.prop,
                               total |-> Price[s.prop], click |-> s.click])
  /\ UNCHANGED shown

(* Refused, or lost with the server.                                       *)
Drop == pending' \subseteq pending /\ UNCHANGED <<ledger, shown>>

Confirm(id) ==
  /\ Recorded(id)
  /\ shown' = shown \cup {id}
  /\ UNCHANGED <<pending, ledger>>

(* The page is left.                                                       *)
Leave(id) == shown' = shown \ {id} /\ UNCHANGED <<pending, ledger>>

Next ==
  \/ \E s \in pending' : Submit(s)
  \/ \E s \in pending, u \in Users : Book(s, u)
  \/ Drop
  \/ \E id \in shown' : Confirm(id)
  \/ \E id \in shown : Leave(id)

Spec == Init /\ [][Next]_lvars
===============================================================================

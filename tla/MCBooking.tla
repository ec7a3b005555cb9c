------------------------------- MODULE MCBooking ------------------------------
(***************************************************************************)
(* Instances of Booking for TLC.  t1 and t2 are tabs of one browser, so    *)
(* they share a session.                                                   *)
(***************************************************************************)
EXTENDS Booking, TLC

CONSTANTS t1, t2, b1, p1, p2, u1, u2, w1, w2

MCBrowserOf == [t \in Tabs |-> b1]
MCRent      == [p \in Properties |-> IF p = p1 THEN 8500 ELSE -500]

(* Workers do not differ, nor do users.                                    *)
Symmetry == Permutations(Workers) \cup Permutations(Users)

(* Nor do the tabs.                                                        *)
TabSymmetry == Symmetry \cup Permutations({t1, t2})
===============================================================================

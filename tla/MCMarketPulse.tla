----------------------------- MODULE MCMarketPulse -----------------------------
(* Values of the constants of MarketPulse for TLC. *)
EXTENDS MarketPulse, TLC

CONSTANTS b1, b2, b3, a1, p1

MCApartmentOf == [b \in Bookings |-> a1]
MCSnapshots == {[segment |-> "s1", blended |-> TRUE], [segment |-> "s1", blended |-> FALSE]}

MCSymmetry == Permutations({b1, b2, b3})
===============================================================================

----------------------------- MODULE MCBackOffice -----------------------------
(* Values of the constants of BackOffice for TLC. *)
EXTENDS BackOffice

CONSTANTS a1, a2

MCPool == <<a1, a2>>
MCSpecs == <<
  [shape |-> Shape("electricity", "property", "variable", "monthly", FALSE, None), method |-> "calendar_day"],
  [shape |-> Shape("ota_fee", "booking", "variable", "per_booking", TRUE, "15%"), method |-> "booking"],
  [shape |-> Shape("office_rent", "company", "fixed", "monthly", FALSE, None), method |-> "weighted"],
  [shape |-> Shape("maintenance", "property", "semi_variable", "one_off", FALSE, None), method |-> "direct"]>>
MCOldBills == <<
  [apartment |-> a1, concept |-> "electricity", costType |-> "variable", month |-> 1],
  [apartment |-> a1, concept |-> "maintenance", costType |-> "one_time", month |-> 1],
  [apartment |-> a1, concept |-> "maintenance", costType |-> "variable", month |-> 1]>>
===============================================================================

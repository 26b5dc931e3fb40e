-------------------------- MODULE MCLakehouseConsumer --------------------------
(***************************************************************************)
(* Small instances of LakehouseConsumer.  The model has no unbounded       *)
(* counter: decisions, shards, crashes and compactions are few.            *)
(***************************************************************************)
EXTENDS LakehouseConsumer

CONSTANTS d1, d2, removal

TwoDecisions == {d1, d2}
OneRemoval == {removal}
===============================================================================

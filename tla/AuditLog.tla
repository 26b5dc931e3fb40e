------------------------------- MODULE AuditLog -------------------------------
(***************************************************************************)
(* What the lakehouse promises of price_decision_raw, whatever reads the   *)
(* stream and however often it dies: a decision the hot table captured has *)
(* at most one row, and once it is settled it has exactly one, for good.   *)
(* Until then its row may come and go, because a batch that was written    *)
(* and not checkpointed is deleted and written again.                      *)
(***************************************************************************)
EXTENDS Naturals

CONSTANT Decisions      \* decision_id values

VARIABLES
  captured,             \* decisions the stream has captured
  settled,              \* decisions no later read of the stream will return
  rows                  \* rows of price_decision_raw, by decision_id

auditVars == <<captured, settled, rows>>

Unsettled == captured \ settled

AuditInit ==
  /\ captured = {}
  /\ settled = {}
  /\ rows = [d \in Decisions |-> 0]

Capture(d) ==
  /\ d \in Decisions \ captured
  /\ captured' = captured \union {d}
  /\ UNCHANGED <<settled, rows>>

WriteRows(batch) ==
  /\ \A d \in batch : rows[d] = 0
  /\ rows' = [d \in Decisions |-> IF d \in batch THEN 1 ELSE rows[d]]
  /\ UNCHANGED <<captured, settled>>

RetractRows(batch) ==
  /\ rows' = [d \in Decisions |-> IF d \in batch THEN 0 ELSE rows[d]]
  /\ UNCHANGED <<captured, settled>>

Settle(batch) ==
  /\ \A d \in batch : rows[d] = 1
  /\ settled' = settled \union batch
  /\ UNCHANGED <<captured, rows>>

AuditNext ==
  \/ \E d \in Decisions : Capture(d)
  \/ \E batch \in SUBSET Unsettled :
       WriteRows(batch) \/ RetractRows(batch) \/ Settle(batch)

AuditSpec == AuditInit /\ [][AuditNext]_auditVars
===============================================================================

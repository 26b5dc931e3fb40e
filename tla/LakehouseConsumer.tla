--------------------------- MODULE LakehouseConsumer ---------------------------
(***************************************************************************)
(* lakehouse-consumer copies the stream of the price_decision table into   *)
(* the Iceberg table price_decision_raw, shard by shard, and               *)
(* lakehouse-maintenance rewrites that table now and then.  Both are       *)
(* single processes that docker restarts when they exit; every exception   *)
(* of a call ends the process, because neither catches one.                *)
(*                                                                         *)
(* The stream, the checkpoint table and pyiceberg are external: a shard is *)
(* an append-only list that may close, get children and leave the list of  *)
(* shards; a commit to the Iceberg table succeeds only on top of the       *)
(* snapshot the writer has loaded, and a writer never reloads by itself.   *)
(***************************************************************************)
EXTENDS Naturals, Sequences, FiniteSets

CONSTANTS
  Decisions,        \* decision_id values, one per stored price decision
  Removals,         \* deletions of an item: records without a new image
  MaxShards,        \* bound: shards the stream ever opens
  BatchLimit,       \* the Limit of get_records
  MaxCrashes,       \* bound: processes killed
  MaxCompactions    \* bound: compactions begun

ASSUME BoundsAssumption ==
  /\ MaxShards \in Nat \ {0}
  /\ BatchLimit \in Nat \ {0}
  /\ MaxCrashes \in Nat
  /\ MaxCompactions \in Nat

ASSUME EventsAssumption == Decisions \intersect Removals = {}

Shards == 1 .. MaxShards
NoShard == 0
Events == Decisions \union Removals

VARIABLES
  opened,        \* how many shards the stream has opened; their ids are 1 .. opened
  listed,        \* shards describe_stream returns
  closed,        \* shards that take no more records
  parent,        \* ParentShardId of every shard, or NoShard
  records,       \* records of every shard, oldest first
  checkpoint,    \* stream_checkpoints: position of the last record processed, 0 if none
  rows,          \* price_decision_raw: number of rows with each decision_id
  pc,            \* what the consumer is about to do
  drained,       \* drained_shard_ids, in memory
  todo,          \* shards of this pass still to be read
  shard,         \* the shard whose batch is in memory
  upto,          \* position of the last record of that batch
  ended,         \* that batch came without a NextShardIterator
  stale,         \* somebody committed on top of the snapshot the consumer has loaded
  scan,          \* full_data of the compaction under way, or NoScan
  scanStale,     \* somebody committed on top of the snapshot it was read from
  crashes, compactions

streamVars == <<opened, listed, closed, parent, records>>
batchVars == <<shard, upto, ended>>
consumerVars == <<pc, drained, todo, batchVars, stale>>
maintenanceVars == <<scan, scanStale>>
bounds == <<crashes, compactions>>
vars == <<streamVars, checkpoint, rows, consumerVars, maintenanceVars, bounds>>

NoScan == <<>>

-------------------------------------------------------------------------------
(* The stream. *)

Captured == {e \in Events : \E s \in Shards : \E i \in 1 .. Len(records[s]) : records[s][i] = e}
Open == (1 .. opened) \ closed

\* The sink stores a decision, or an item is deleted.
PutItem(e) ==
  /\ e \notin Captured
  /\ \E s \in Open : records' = [records EXCEPT ![s] = Append(@, e)]
  /\ UNCHANGED <<opened, listed, closed, parent, checkpoint, rows, consumerVars, maintenanceVars, bounds>>

\* A shard is rolled over, or split in two.
RotateShard(p) ==
  /\ p \in Open
  /\ \E n \in 1 .. 2 :
       /\ opened + n <= MaxShards
       /\ opened' = opened + n
       /\ listed' = listed \union (opened + 1 .. opened + n)
       /\ parent' = [s \in Shards |-> IF s \in opened + 1 .. opened + n THEN p ELSE parent[s]]
  /\ closed' = closed \union {p}
  /\ UNCHANGED <<records, checkpoint, rows, consumerVars, maintenanceVars, bounds>>

\* The records of a closed shard pass the retention of the stream, an ancestor's
\* before its own, and the shard leaves the list, whether or not it was read.
ExpireShard(p) ==
  /\ p \in closed \intersect listed
  /\ parent[p] \notin listed
  /\ listed' = listed \ {p}
  /\ UNCHANGED <<opened, closed, parent, records, checkpoint, rows, consumerVars, maintenanceVars, bounds>>

-------------------------------------------------------------------------------
(* The consumer. *)

\* Mutant: A closed parent counts as drained.
ParentPendingOpen(s) == parent[s] \in listed \ closed

\* Defined in order_shards_for_processing.
ParentPending(s) == parent[s] \in listed \ drained
ReadyShards == {s \in listed : ~ParentPending(s)}
ReadBefore(s, t) ==
  IF (parent[s] = NoShard) = (parent[t] = NoShard) THEN s < t ELSE parent[s] = NoShard
IsNext(s) == s \in todo /\ \A t \in todo \ {s} : ReadBefore(s, t)

BatchPositions == checkpoint[shard] + 1 .. upto
BatchIds == {records[shard][i] : i \in BatchPositions} \intersect Decisions

\* The process is gone and its memory with it.
Exit ==
  /\ pc' = "down"
  /\ drained' = {}
  /\ todo' = {}
  /\ shard' = NoShard
  /\ upto' = 0
  /\ ended' = FALSE
  /\ stale' = FALSE

Start ==
  /\ pc = "down"
  /\ pc' = "polling"
  /\ UNCHANGED <<streamVars, checkpoint, rows, drained, todo, batchVars, stale, maintenanceVars, bounds>>

\* One turn of the while loop: describe_stream, and the shards to read.
BeginPass ==
  /\ pc = "polling"
  /\ todo = {}
  /\ todo' = ReadyShards
  /\ UNCHANGED <<streamVars, checkpoint, rows, pc, drained, batchVars, stale, maintenanceVars, bounds>>

Drains(s, isLast) == drained' = IF isLast THEN drained \union {s} ELSE drained

\* Mutant: Only a read that returned records marks its shard as drained.
ReadNothingEarlyReturn(s) ==
  /\ pc = "polling" /\ IsNext(s) /\ s \in listed
  /\ checkpoint[s] = Len(records[s])
  /\ todo' = todo \ {s}
  /\ UNCHANGED <<streamVars, checkpoint, rows, pc, drained, batchVars, stale, maintenanceVars, bounds>>

\* get_records after the checkpoint finds nothing.
ReadNothing(s) ==
  /\ pc = "polling" /\ IsNext(s) /\ s \in listed
  /\ checkpoint[s] = Len(records[s])
  /\ Drains(s, s \in closed)
  /\ todo' = todo \ {s}
  /\ UNCHANGED <<streamVars, checkpoint, rows, pc, batchVars, stale, maintenanceVars, bounds>>

\* get_records returns the next records, as many as the service likes up to the limit.
ReadBatch(s) ==
  /\ pc = "polling" /\ IsNext(s) /\ s \in listed
  /\ \E last \in checkpoint[s] + 1 .. Len(records[s]) :
       /\ last <= checkpoint[s] + BatchLimit
       /\ upto' = last
       /\ ended' = (s \in closed /\ last = Len(records[s]))
  /\ shard' = s
  /\ todo' = todo \ {s}
  /\ pc' = "merging"
  /\ UNCHANGED <<streamVars, checkpoint, rows, drained, stale, maintenanceVars, bounds>>

\* The shard left the list during the pass: get_shard_iterator raises.
ReadExpired(s) ==
  /\ pc = "polling" /\ IsNext(s) /\ s \notin listed
  /\ Exit
  /\ UNCHANGED <<streamVars, checkpoint, rows, maintenanceVars, bounds>>

\* A commit on top of the snapshot the consumer has loaded.
ConsumerCommits(newRows) ==
  /\ ~stale
  /\ rows' = newRows
  /\ scanStale' = (scan # NoScan)
  /\ UNCHANGED <<streamVars, checkpoint, drained, todo, batchVars, stale, scan, bounds>>

\* CommitFailedException.
CommitFails ==
  /\ stale
  /\ Exit
  /\ UNCHANGED <<streamVars, checkpoint, rows, maintenanceVars, bounds>>

Matching == {d \in BatchIds : rows[d] > 0}

\* merge_rows has no row to write, so it returns at once.
MergeNothing ==
  /\ pc = "merging"
  /\ BatchIds = {}
  /\ pc' = "checkpointing"
  /\ UNCHANGED <<streamVars, checkpoint, rows, drained, todo, batchVars, stale, maintenanceVars, bounds>>

\* table.delete: a commit when a row matches, nothing otherwise.
DeleteRows ==
  /\ pc = "merging"
  /\ BatchIds # {}
  /\ \/ /\ Matching = {}
        /\ pc' = "appending"
        /\ UNCHANGED <<streamVars, checkpoint, rows, drained, todo, batchVars, stale, maintenanceVars, bounds>>
     \/ /\ Matching # {}
        /\ ConsumerCommits([d \in Decisions |-> IF d \in BatchIds THEN 0 ELSE rows[d]])
        /\ pc' = "appending"
     \/ /\ Matching # {}
        /\ CommitFails

\* Mutant: The exception of a refused commit is caught and logged.
AppendRowsSwallowsFailure ==
  /\ pc = "appending"
  /\ pc' = "checkpointing"
  /\ \/ ConsumerCommits([d \in Decisions |-> IF d \in BatchIds THEN rows[d] + 1 ELSE rows[d]])
     \/ /\ stale
        /\ UNCHANGED <<streamVars, checkpoint, rows, drained, todo, batchVars, stale, maintenanceVars, bounds>>

\* table.append
AppendRows ==
  /\ pc = "appending"
  /\ \/ /\ ConsumerCommits([d \in Decisions |-> IF d \in BatchIds THEN rows[d] + 1 ELSE rows[d]])
        /\ pc' = "checkpointing"
     \/ CommitFails

\* Mutant: The sequence number of the next record is stored.
PutCheckpointOneTooFar ==
  /\ pc = "checkpointing"
  /\ checkpoint' = [checkpoint EXCEPT ![shard] = upto + 1]
  /\ Drains(shard, ended)
  /\ pc' = "polling"
  /\ shard' = NoShard /\ upto' = 0 /\ ended' = FALSE
  /\ UNCHANGED <<streamVars, rows, todo, stale, maintenanceVars, bounds>>

\* put_checkpoint, and run_forever notes a drained shard.
PutCheckpoint ==
  /\ pc = "checkpointing"
  /\ checkpoint' = [checkpoint EXCEPT ![shard] = upto]
  /\ Drains(shard, ended)
  /\ pc' = "polling"
  /\ shard' = NoShard /\ upto' = 0 /\ ended' = FALSE
  /\ UNCHANGED <<streamVars, rows, todo, stale, maintenanceVars, bounds>>

\* The process is killed, at any point.
CrashConsumer ==
  /\ pc # "down"
  /\ crashes < MaxCrashes
  /\ crashes' = crashes + 1
  /\ Exit
  /\ UNCHANGED <<streamVars, checkpoint, rows, maintenanceVars, compactions>>

ConsumerStep ==
  \/ Start \/ BeginPass
  \/ \E s \in todo : ReadNothing(s) \/ ReadBatch(s) \/ ReadExpired(s)
  \/ MergeNothing \/ DeleteRows \/ AppendRows \/ PutCheckpoint

-------------------------------------------------------------------------------
(* The maintenance. *)

\* compact_once loads and scans the table; there is nothing to do on an empty one.
ScanTable ==
  /\ scan = NoScan
  /\ compactions < MaxCompactions
  /\ compactions' = compactions + 1
  /\ \E d \in Decisions : rows[d] > 0
  /\ scan' = rows
  /\ scanStale' = FALSE
  /\ UNCHANGED <<streamVars, checkpoint, rows, consumerVars, crashes>>

\* Mutant: The table is loaded again for the overwrite.
OverwriteTableReloaded ==
  /\ scan # NoScan
  /\ rows' = scan
  /\ stale' = (pc # "down")
  /\ scan' = NoScan
  /\ UNCHANGED <<streamVars, checkpoint, pc, drained, todo, batchVars, scanStale, bounds>>

\* table.overwrite: one commit that deletes every row and appends the scanned ones.
OverwriteTable ==
  /\ scan # NoScan
  /\ ~scanStale
  /\ rows' = scan
  /\ stale' = (pc # "down")
  /\ scan' = NoScan
  /\ UNCHANGED <<streamVars, checkpoint, pc, drained, todo, batchVars, scanStale, bounds>>

\* The commit is refused, or the process is killed before it.
AbandonScan ==
  /\ scan # NoScan
  /\ \/ scanStale /\ UNCHANGED crashes
     \/ crashes < MaxCrashes /\ crashes' = crashes + 1
  /\ scan' = NoScan
  /\ scanStale' = FALSE
  /\ UNCHANGED <<streamVars, checkpoint, rows, consumerVars, compactions>>

-------------------------------------------------------------------------------
Init ==
  /\ opened = 1
  /\ listed = {1}
  /\ closed = {}
  /\ parent = [s \in Shards |-> NoShard]
  /\ records = [s \in Shards |-> <<>>]
  /\ checkpoint = [s \in Shards |-> 0]
  /\ rows = [d \in Decisions |-> 0]
  /\ pc = "down"
  /\ drained = {}
  /\ todo = {}
  /\ shard = NoShard
  /\ upto = 0
  /\ ended = FALSE
  /\ stale = FALSE
  /\ scan = NoScan
  /\ scanStale = FALSE
  /\ crashes = 0
  /\ compactions = 0

Next ==
  \/ \E e \in Events : PutItem(e)
  \/ \E p \in 1 .. opened : RotateShard(p) \/ ExpireShard(p)
  \/ ConsumerStep
  \/ CrashConsumer
  \/ ScanTable \/ OverwriteTable \/ AbandonScan

Spec == Init /\ [][Next]_vars

\* The consumer is a loop in a container that is restarted whenever it exits.
FairSpec == Spec /\ WF_vars(ConsumerStep)

-------------------------------------------------------------------------------
(* Properties *)

BatchInMemory == pc \in {"merging", "appending", "checkpointing"}

TypeOK ==
  /\ opened \in Shards
  /\ listed \subseteq 1 .. opened
  /\ closed \subseteq 1 .. opened
  /\ parent \in [Shards -> {NoShard} \union Shards]
  /\ records \in [Shards -> Seq(Events)]
  /\ checkpoint \in [Shards -> Nat]
  /\ \A s \in Shards : checkpoint[s] <= Len(records[s])
  /\ rows \in [Decisions -> Nat]
  /\ pc \in {"down", "polling", "merging", "appending", "checkpointing"}
  /\ drained \subseteq closed
  /\ todo \subseteq 1 .. opened
  /\ BatchInMemory => shard \in 1 .. opened
  /\ ~BatchInMemory => shard = NoShard
  /\ upto \in Nat
  /\ ended \in BOOLEAN
  /\ stale \in BOOLEAN
  /\ scan \in [Decisions -> Nat] \union {NoScan}
  /\ scanStale \in BOOLEAN
  /\ crashes \in 0 .. MaxCrashes
  /\ compactions \in 0 .. MaxCompactions

SettledPositions(s) == 1 .. checkpoint[s]
Settled == {d \in Decisions : \E s \in Shards : \E i \in SettledPositions(s) : records[s][i] = d}

\* No crash, refused commit or compaction makes the checkpoint pass over a decision:
\* what no later read will return is in the table (put_checkpoint after merge_rows).
SettledIsLogged == \A d \in Settled : rows[d] >= 1

\* A decision is in the table at most once, however often its batch is read again
\* (merge_rows deletes before it appends).
NeverTwice == \A d \in Decisions : rows[d] <= 1

FullyRead(s) == s \in closed /\ checkpoint[s] = Len(records[s])

\* A shard is read only when its parent has been read to its end or has expired,
\* also after a restart that forgot which shards were drained.
ParentsFirst ==
  \A s \in 1 .. opened :
    (checkpoint[s] > 0 \/ shard = s) /\ parent[s] \in listed => FullyRead(parent[s])

\* The consumer and the maintenance implement the audit log: a settled row is
\* never touched again, and until then it is there once or not at all.
Audit == INSTANCE AuditLog WITH
  captured <- Captured \intersect Decisions, settled <- Settled

ImplementsAuditLog == Audit!AuditSpec

\* Every decision the stream captures reaches the table for good, unless its shard
\* expired first, although merges fail on a snapshot a compaction has replaced.
EveryDecisionIsLogged ==
  \A d \in Decisions :
    d \in Captured ~>
      d \in Settled \/ \E s \in (1 .. opened) \ listed : \E i \in 1 .. Len(records[s]) : records[s][i] = d
===============================================================================

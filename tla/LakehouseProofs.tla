---------------------------- MODULE LakehouseProofs ----------------------------
(***************************************************************************)
(* Proofs about LakehouseConsumer, for any decisions, removals and bounds. *)
(* The inductive invariant adds to the properties the runs check: a record *)
(* is at one place of one shard, what is known of the rows of the batch in *)
(* memory at each step of the merge, that a scan nobody committed after is *)
(* the table, and that a shard is to be read only when its parent is done. *)
(***************************************************************************)
EXTENDS LakehouseConsumer, TLAPS

\* A record is captured once (every decision has a fresh decision_id).
RecordsAreDistinct ==
  \A s, t \in Shards : \A i \in 1 .. Len(records[s]), j \in 1 .. Len(records[t]) :
    records[s][i] = records[t][j] => s = t /\ i = j

Unopened ==
  /\ \A s \in Shards : s > opened => checkpoint[s] = 0
  /\ \A s \in Shards : parent[s] <= opened

BatchIsUnread ==
  BatchInMemory =>
    /\ checkpoint[shard] < upto
    /\ upto <= Len(records[shard])
    /\ ended => shard \in closed /\ upto = Len(records[shard])

SettledOnce ==
  \A s \in Shards : \A i \in 1 .. checkpoint[s] :
    records[s][i] \in Decisions => rows[records[s][i]] = 1

MergeProgress ==
  /\ pc = "appending" => \A d \in BatchIds : rows[d] = 0
  /\ pc = "checkpointing" => \A d \in BatchIds : rows[d] = 1

ScanIsTable == scan # NoScan /\ ~scanStale => scan = rows

DrainedAreRead ==
  /\ \A s \in drained : FullyRead(s)
  /\ \A s \in todo : parent[s] \in listed => parent[s] \in drained

RowsInv == SettledOnce /\ NeverTwice /\ MergeProgress /\ ScanIsTable

\* The type invariant in parts.
StreamTypes ==
  /\ opened \in Shards
  /\ listed \subseteq 1 .. opened
  /\ closed \subseteq 1 .. opened
  /\ parent \in [Shards -> {NoShard} \union Shards]
  /\ records \in [Shards -> Seq(Events)]

TableTypes ==
  /\ checkpoint \in [Shards -> Nat]
  /\ \A s \in Shards : checkpoint[s] <= Len(records[s])
  /\ rows \in [Decisions -> Nat]

ConsumerTypes ==
  /\ pc \in {"down", "polling", "merging", "appending", "checkpointing"}
  /\ drained \subseteq closed
  /\ todo \subseteq 1 .. opened
  /\ BatchInMemory => shard \in 1 .. opened
  /\ ~BatchInMemory => shard = NoShard
  /\ upto \in Nat

FlagTypes == ended \in BOOLEAN /\ stale \in BOOLEAN /\ scanStale \in BOOLEAN

ScanTypes == scan \in [Decisions -> Nat] \union {NoScan}

BoundTypes == crashes \in 0 .. MaxCrashes /\ compactions \in 0 .. MaxCompactions

LEMMA TypeParts ==
  TypeOK <=> StreamTypes /\ TableTypes /\ ConsumerTypes /\ FlagTypes /\ ScanTypes /\ BoundTypes
BY Zenon DEF TypeOK, StreamTypes, TableTypes, ConsumerTypes, FlagTypes, ScanTypes, BoundTypes

\* What the type invariant says of single shards.
LEMMA ShardFacts ==
  ASSUME TypeOK
  PROVE  /\ opened \in Nat /\ 1 .. opened \subseteq Shards
         /\ listed \subseteq Shards /\ closed \subseteq Shards
         /\ drained \subseteq Shards /\ todo \subseteq Shards
         /\ BatchInMemory => shard \in Shards
         /\ shard # NoShard => BatchInMemory
         /\ \A s \in Shards : Len(records[s]) \in Nat /\ checkpoint[s] \in Nat
         /\ \A s \in Shards : checkpoint[s] <= Len(records[s])
         /\ \A s \in Shards : parent[s] \in Nat
         /\ MaxShards \in Nat /\ upto \in Nat /\ NoShard \notin Shards
<1>1. StreamTypes /\ TableTypes /\ ConsumerTypes
  BY TypeParts
<1>2. opened \in Nat /\ 1 .. opened \subseteq Shards
  BY <1>1, BoundsAssumption DEF StreamTypes, Shards
<1> QED
  BY <1>1, <1>2, BoundsAssumption, SMTT(30) DEF StreamTypes, TableTypes, ConsumerTypes, Shards, NoShard

IInv ==
  /\ TypeOK
  /\ RecordsAreDistinct
  /\ Unopened
  /\ BatchIsUnread
  /\ RowsInv
  /\ DrainedAreRead
  /\ ParentsFirst

LEMMA InitIInv == Init => IInv
<1> USE BoundsAssumption DEF Init
<1> SUFFICES ASSUME Init PROVE IInv
  OBVIOUS
<1>1. TypeOK
  <2>1. 1 \in Shards
    BY DEF Shards
  <2>2. records \in [Shards -> Seq(Events)] /\ \A s \in Shards : Len(records[s]) = 0
    OBVIOUS
  <2>3. StreamTypes
    BY <2>1, <2>2 DEF StreamTypes
  <2>4. TableTypes
    BY <2>2 DEF TableTypes
  <2>5. ConsumerTypes
    BY DEF ConsumerTypes, BatchInMemory
  <2>6. FlagTypes /\ ScanTypes
    BY DEF FlagTypes, ScanTypes
  <2>7. BoundTypes
    BY DEF BoundTypes
  <2> QED
    BY <2>3, <2>4, <2>5, <2>6, <2>7, TypeParts
<1>2. RecordsAreDistinct /\ Unopened /\ BatchIsUnread
  BY DEF RecordsAreDistinct, Unopened, BatchIsUnread, BatchInMemory, Shards, NoShard
<1>3. RowsInv
  BY DEF RowsInv, SettledOnce, NeverTwice, MergeProgress, ScanIsTable, Shards
<1>4. DrainedAreRead /\ ParentsFirst
  BY DEF DrainedAreRead, ParentsFirst, Shards, NoShard
<1> QED
  BY <1>1, <1>2, <1>3, <1>4 DEF IInv

\* What a put does to the records of every shard.
LEMMA PutItemAppends ==
  ASSUME TypeOK, NEW e \in Events, NEW s \in Open,
         records' = [records EXCEPT ![s] = Append(@, e)]
  PROVE  /\ s \in Shards
         /\ records' \in [Shards -> Seq(Events)]
         /\ Len(records'[s]) = Len(records[s]) + 1
         /\ records'[s][Len(records[s]) + 1] = e
         /\ \A i \in 1 .. Len(records[s]) : records'[s][i] = records[s][i]
         /\ \A t \in Shards \ {s} : records'[t] = records[t]
<1>1. s \in Shards
  BY BoundsAssumption DEF TypeOK, Open, Shards
<1>2. records[s] \in Seq(Events) /\ records'[s] = Append(records[s], e)
  BY <1>1 DEF TypeOK
<1> QED
  BY <1>1, <1>2 DEF TypeOK

\* A put changes the records of one open shard, behind everything that was read.
LEMMA PutItemStep ==
  ASSUME IInv, NEW e \in Events, PutItem(e)
  PROVE  IInv'
<1> USE DEF IInv
<1>1. PICK s \in Open : records' = [records EXCEPT ![s] = Append(@, e)]
  BY DEF PutItem
<1>2. /\ s \in Shards
      /\ records' \in [Shards -> Seq(Events)]
      /\ Len(records'[s]) = Len(records[s]) + 1
      /\ records'[s][Len(records[s]) + 1] = e
      /\ \A i \in 1 .. Len(records[s]) : records'[s][i] = records[s][i]
      /\ \A t \in Shards \ {s} : records'[t] = records[t]
  BY <1>1, PutItemAppends
<1>3. /\ UNCHANGED <<opened, listed, closed, parent, checkpoint, rows, pc, drained, todo, shard, upto, ended, stale, scan, scanStale, crashes, compactions>>
      /\ \A t \in Shards : Len(records[t]) \in Nat /\ Len(records'[t]) \in Nat
      /\ \A t \in Shards : Len(records[t]) <= Len(records'[t])
      /\ \A t \in Shards : \A i \in 1 .. Len(records[t]) : records'[t][i] = records[t][i]
  BY <1>2 DEF PutItem, TypeOK, consumerVars, maintenanceVars, bounds, batchVars
<1>4. TypeOK'
  <2>1. StreamTypes'
    BY <1>2, <1>3, TypeParts DEF StreamTypes
  <2>2. TableTypes'
    BY <1>3, TypeParts DEF TableTypes
  <2>3. ConsumerTypes'
    BY <1>3, TypeParts DEF ConsumerTypes, BatchInMemory
  <2>4. FlagTypes' /\ ScanTypes' /\ BoundTypes'
    BY <1>3, TypeParts DEF FlagTypes, ScanTypes, BoundTypes
  <2> QED
    BY <2>1, <2>2, <2>3, <2>4, Zenon DEF TypeOK, StreamTypes, TableTypes, ConsumerTypes, FlagTypes, ScanTypes, BoundTypes
<1>5. RecordsAreDistinct'
  <2>1. \A t \in Shards : \A i \in 1 .. Len(records[t]) : records[t][i] # e
    BY DEF PutItem, Captured
  <2>2. \A t \in Shards : \A i \in 1 .. Len(records'[t]) :
           \/ i \in 1 .. Len(records[t]) /\ records'[t][i] = records[t][i]
           \/ t = s /\ i = Len(records[s]) + 1 /\ records'[t][i] = e
    BY <1>2, <1>3
  <2> QED
    BY <2>1, <2>2, SMTT(30) DEF RecordsAreDistinct
<1>6. Unopened'
  BY <1>3 DEF Unopened
<1>7. \A t \in Shards : \A i \in 1 .. checkpoint[t] : i \in 1 .. Len(records[t])
  BY ShardFacts
<1>8. s \notin closed
  BY DEF Open
<1>9. \A t \in Shards : FullyRead(t) => FullyRead(t)'
  BY <1>2, <1>3, <1>8 DEF FullyRead
<1>10. BatchIsUnread'
  <2> SUFFICES ASSUME BatchInMemory PROVE BatchIsUnread'
    BY <1>3 DEF BatchIsUnread, BatchInMemory
  <2>1. shard \in Shards /\ checkpoint[shard] < upto /\ upto <= Len(records[shard])
    BY ShardFacts DEF BatchIsUnread
  <2>2. upto <= Len(records'[shard])
    BY <1>3, <2>1, ShardFacts
  <2>3. ended => shard \in closed /\ upto = Len(records'[shard])
    BY <1>2, <1>8, <2>1 DEF BatchIsUnread
  <2> QED
    BY <1>3, <2>1, <2>2, <2>3 DEF BatchIsUnread
<1>11. BatchInMemory => BatchIds' = BatchIds
  <2> SUFFICES ASSUME BatchInMemory PROVE BatchIds' = BatchIds
    OBVIOUS
  <2>1. shard \in Shards
    BY ShardFacts
  <2>2. \A i \in BatchPositions : i \in 1 .. Len(records[shard])
    BY <2>1, ShardFacts DEF BatchPositions, BatchIsUnread
  <2>3. BatchPositions' = BatchPositions
    BY <1>3 DEF BatchPositions
  <2> QED
    BY <1>3, <2>1, <2>2, <2>3 DEF BatchIds
<1>12. RowsInv'
  <2>1. SettledOnce'
    BY <1>3, <1>7 DEF RowsInv, SettledOnce
  <2>2. MergeProgress'
    BY <1>3, <1>11 DEF RowsInv, MergeProgress, BatchInMemory
  <2>3. NeverTwice' /\ ScanIsTable'
    BY <1>3 DEF RowsInv, NeverTwice, ScanIsTable
  <2> QED
    BY <2>1, <2>2, <2>3 DEF RowsInv
<1>13. DrainedAreRead'
  BY <1>3, <1>9, ShardFacts DEF DrainedAreRead
<1>14. ParentsFirst'
  BY <1>3, <1>9, ShardFacts DEF ParentsFirst
<1> QED
  BY <1>4, <1>5, <1>6, <1>10, <1>12, <1>13, <1>14

\* A rotation opens shards nobody has read and closes one that keeps its records.
LEMMA RotateShardStep ==
  ASSUME IInv, NEW p \in 1 .. opened, RotateShard(p)
  PROVE  IInv'
<1> USE DEF IInv
<1>1. PICK n \in 1 .. 2 :
        /\ opened + n <= MaxShards
        /\ opened' = opened + n
        /\ listed' = listed \union (opened + 1 .. opened + n)
        /\ parent' = [s \in Shards |-> IF s \in opened + 1 .. opened + n THEN p ELSE parent[s]]
  BY DEF RotateShard
<1>2. /\ UNCHANGED <<records, checkpoint, rows, pc, drained, todo, shard, upto, ended, stale, scan, scanStale, crashes, compactions>>
      /\ closed' = closed \union {p}
  BY DEF RotateShard, consumerVars, maintenanceVars, bounds, batchVars
<1>3. /\ opened \in Nat /\ opened' \in Nat /\ opened < opened'
      /\ opened + 1 .. opened + n \subseteq Shards
      /\ p \in Shards /\ p \in 1 .. opened
  BY <1>1, ShardFacts DEF Shards
<1>4. TypeOK'
  <2>1. StreamTypes'
    <3>1. StreamTypes
      BY TypeParts
    <3>2. parent' \in [Shards -> {NoShard} \union Shards]
      BY <1>1, <1>3, <3>1 DEF StreamTypes
    <3>3. opened' \in Shards /\ listed' \subseteq 1 .. opened' /\ closed' \subseteq 1 .. opened'
      BY <1>1, <1>2, <1>3, <3>1, BoundsAssumption DEF StreamTypes, Shards
    <3> QED
      BY <1>2, <3>1, <3>2, <3>3 DEF StreamTypes
  <2>2. TableTypes'
    BY <1>2, TypeParts DEF TableTypes
  <2>3. ConsumerTypes'
    BY <1>2, <1>3, TypeParts DEF ConsumerTypes, BatchInMemory
  <2>4. FlagTypes' /\ ScanTypes' /\ BoundTypes'
    BY <1>2, TypeParts DEF FlagTypes, ScanTypes, BoundTypes
  <2> QED
    BY <2>1, <2>2, <2>3, <2>4, Zenon DEF TypeOK, StreamTypes, TableTypes, ConsumerTypes, FlagTypes, ScanTypes, BoundTypes
<1>5. RecordsAreDistinct'
  BY <1>2 DEF RecordsAreDistinct
<1>6. Unopened'
  BY <1>1, <1>2, <1>3, ShardFacts DEF Unopened
<1>7. BatchIsUnread'
  BY <1>2, Zenon DEF BatchIsUnread, BatchInMemory
<1>8. RowsInv'
  BY <1>2 DEF RowsInv, SettledOnce, NeverTwice, MergeProgress, ScanIsTable, BatchIds, BatchPositions
\* A shard that was open before keeps its parent, and its parent its place in the list.
<1>9. \A s \in 1 .. opened : parent'[s] = parent[s] /\ (parent'[s] \in listed' => parent[s] \in listed)
  BY <1>1, <1>3, ShardFacts DEF Unopened
<1>10. \A s \in Shards : FullyRead(s) => FullyRead(s)'
  BY <1>2 DEF FullyRead
<1>11. DrainedAreRead'
  <2>1. todo \subseteq 1 .. opened
    BY DEF TypeOK
  <2> QED
    BY <1>2, <1>9, <1>10, <2>1, ShardFacts DEF DrainedAreRead
<1>12. ParentsFirst'
  <2> SUFFICES ASSUME NEW s \in 1 .. opened',
                      (checkpoint[s] > 0 \/ shard = s) /\ parent'[s] \in listed'
               PROVE  FullyRead(parent[s])'
    BY <1>2, Zenon DEF ParentsFirst
  <2>1. s \in Shards
    BY <1>1, <1>3, ShardFacts DEF Shards
  <2>2. s \in 1 .. opened
    <3>1. checkpoint[s] > 0 => ~ s > opened
      BY <2>1 DEF Unopened
    <3>2. shard = s => s \in 1 .. opened
      <4>1. shard = s => BatchInMemory
        BY <2>1, ShardFacts
      <4> QED
        BY <4>1 DEF TypeOK
    <3> QED
      BY <1>3, <3>1, <3>2
  <2>3. parent'[s] = parent[s] /\ parent[s] \in listed
    BY <1>9, <2>2
  <2> QED
    BY <1>10, <2>2, <2>3, ShardFacts DEF ParentsFirst
<1> QED
  BY <1>4, <1>5, <1>6, <1>7, <1>8, <1>11, <1>12

\* An expired shard only leaves the list.
LEMMA ExpireShardStep ==
  ASSUME IInv, NEW p \in 1 .. opened, ExpireShard(p)
  PROVE  IInv'
<1> USE DEF IInv
<1>1. /\ UNCHANGED <<opened, closed, parent, records, checkpoint, rows, pc, drained, todo, shard, upto, ended, stale, scan, scanStale, crashes, compactions>>
      /\ listed' \subseteq listed
  BY DEF ExpireShard, consumerVars, maintenanceVars, bounds, batchVars
<1>2. TypeOK'
  <2>1. StreamTypes' /\ TableTypes'
    BY <1>1, TypeParts DEF StreamTypes, TableTypes
  <2>2. ConsumerTypes'
    BY <1>1, TypeParts DEF ConsumerTypes, BatchInMemory
  <2>3. FlagTypes' /\ ScanTypes' /\ BoundTypes'
    BY <1>1, TypeParts DEF FlagTypes, ScanTypes, BoundTypes
  <2> QED
    BY <2>1, <2>2, <2>3, Zenon DEF TypeOK, StreamTypes, TableTypes, ConsumerTypes, FlagTypes, ScanTypes, BoundTypes
<1>3. RecordsAreDistinct' /\ Unopened'
  BY <1>1 DEF RecordsAreDistinct, Unopened
<1>4. BatchIsUnread'
  BY <1>1, Zenon DEF BatchIsUnread, BatchInMemory
<1>5. RowsInv'
  BY <1>1 DEF RowsInv, SettledOnce, NeverTwice, MergeProgress, ScanIsTable, BatchIds, BatchPositions
<1>6. DrainedAreRead' /\ ParentsFirst'
  BY <1>1 DEF DrainedAreRead, ParentsFirst, FullyRead
<1> QED
  BY <1>2, <1>3, <1>4, <1>5, <1>6

\* A process that exits forgets what it had read; what it had checked stays true of the tables.
LEMMA ExitStep ==
  ASSUME IInv, Exit, BoundTypes',
         UNCHANGED <<streamVars, checkpoint, rows, maintenanceVars>>
  PROVE  IInv'
<1> USE DEF IInv
<1>1. UNCHANGED <<opened, listed, closed, parent, records, checkpoint, rows, scan, scanStale>>
  BY DEF streamVars, maintenanceVars
<1>2. /\ pc' = "down" /\ drained' = {} /\ todo' = {} /\ shard' = NoShard /\ upto' = 0
      /\ ended' = FALSE /\ stale' = FALSE /\ ~BatchInMemory'
  BY DEF Exit, BatchInMemory
<1>3. TypeOK'
  <2>1. StreamTypes' /\ TableTypes'
    BY <1>1, TypeParts DEF StreamTypes, TableTypes
  <2>2. ConsumerTypes'
    BY <1>1, <1>2, TypeParts DEF ConsumerTypes
  <2>3. FlagTypes' /\ ScanTypes'
    BY <1>1, <1>2, TypeParts DEF FlagTypes, ScanTypes
  <2> QED
    BY <2>1, <2>2, <2>3, Zenon DEF TypeOK, StreamTypes, TableTypes, ConsumerTypes, FlagTypes, ScanTypes, BoundTypes
<1>4. RecordsAreDistinct' /\ Unopened'
  BY <1>1 DEF RecordsAreDistinct, Unopened
<1>5. BatchIsUnread' /\ DrainedAreRead'
  BY <1>2 DEF BatchIsUnread, DrainedAreRead
<1>6. RowsInv'
  BY <1>1, <1>2 DEF RowsInv, SettledOnce, NeverTwice, MergeProgress, ScanIsTable
<1>7. ParentsFirst'
  BY <1>1, <1>2, ShardFacts DEF ParentsFirst, FullyRead
<1> QED
  BY <1>3, <1>4, <1>5, <1>6, <1>7

\* What a consumer step that only touches its own memory leaves to be shown.
LEMMA MemoryStep ==
  ASSUME IInv, ConsumerTypes', ended' \in BOOLEAN, stale' \in BOOLEAN,
         BatchIsUnread', MergeProgress', DrainedAreRead', ParentsFirst',
         UNCHANGED <<streamVars, checkpoint, rows, maintenanceVars, bounds>>
  PROVE  IInv'
<1> USE DEF IInv
<1>1. UNCHANGED <<opened, listed, closed, parent, records, checkpoint, rows, scan, scanStale, crashes, compactions>>
  BY DEF streamVars, maintenanceVars, bounds
<1>2. StreamTypes' /\ TableTypes' /\ ScanTypes' /\ BoundTypes'
  BY <1>1, TypeParts DEF StreamTypes, TableTypes, ScanTypes, BoundTypes
<1>3. FlagTypes'
  BY <1>1, TypeParts, Zenon DEF FlagTypes
<1>4. TypeOK'
  BY <1>2, <1>3, Zenon DEF TypeOK, StreamTypes, TableTypes, ConsumerTypes, FlagTypes, ScanTypes, BoundTypes
<1>5. RecordsAreDistinct' /\ Unopened'
  BY <1>1 DEF RecordsAreDistinct, Unopened
<1>6. RowsInv'
  BY <1>1 DEF RowsInv, SettledOnce, NeverTwice, ScanIsTable
<1> QED
  BY <1>4, <1>5, <1>6

LEMMA StartStep ==
  ASSUME IInv, Start
  PROVE  IInv'
<1> USE DEF IInv
<1>1. /\ pc = "down" /\ pc' = "polling"
      /\ UNCHANGED <<opened, listed, closed, parent, records, checkpoint, rows, drained, todo, shard, upto, ended, stale>>
      /\ UNCHANGED <<streamVars, checkpoint, rows, maintenanceVars, bounds>>
  BY DEF Start, streamVars, batchVars
<1>2. ~BatchInMemory /\ ~BatchInMemory'
  BY <1>1 DEF BatchInMemory
<1>3. ConsumerTypes'
  BY <1>1, <1>2, TypeParts DEF ConsumerTypes
<1>4. BatchIsUnread' /\ MergeProgress'
  BY <1>1, <1>2 DEF BatchIsUnread, MergeProgress
<1>5. DrainedAreRead' /\ ParentsFirst'
  BY <1>1 DEF DrainedAreRead, ParentsFirst, FullyRead
<1>6. ended' \in BOOLEAN /\ stale' \in BOOLEAN
  BY <1>1, TypeParts DEF FlagTypes
<1> QED
  BY <1>1, <1>3, <1>4, <1>5, <1>6, MemoryStep

\* The ready shards are those whose parents are drained or not listed.
LEMMA BeginPassStep ==
  ASSUME IInv, BeginPass
  PROVE  IInv'
<1> USE DEF IInv
<1>1. /\ pc = "polling" /\ todo' = ReadyShards
      /\ UNCHANGED <<opened, listed, closed, parent, records, checkpoint, rows, pc, drained, shard, upto, ended, stale>>
      /\ UNCHANGED <<streamVars, checkpoint, rows, maintenanceVars, bounds>>
  BY DEF BeginPass, streamVars, batchVars
<1>2. ~BatchInMemory /\ ~BatchInMemory'
  BY <1>1 DEF BatchInMemory
<1>3. todo' \subseteq listed /\ \A s \in todo' : parent[s] \in listed => parent[s] \in drained
  BY <1>1 DEF ReadyShards, ParentPending
<1>4. ConsumerTypes'
  BY <1>1, <1>2, <1>3, TypeParts DEF ConsumerTypes, StreamTypes
<1>5. BatchIsUnread' /\ MergeProgress'
  BY <1>1, <1>2 DEF BatchIsUnread, MergeProgress
<1>6. DrainedAreRead' /\ ParentsFirst'
  BY <1>1, <1>3 DEF DrainedAreRead, ParentsFirst, FullyRead
<1>7. ended' \in BOOLEAN /\ stale' \in BOOLEAN
  BY <1>1, TypeParts DEF FlagTypes
<1> QED
  BY <1>1, <1>4, <1>5, <1>6, <1>7, MemoryStep

\* A closed shard with nothing after its checkpoint has been read to its end.
LEMMA ReadNothingStep ==
  ASSUME IInv, NEW s \in todo, ReadNothing(s)
  PROVE  IInv'
<1> USE DEF IInv
<1>1. /\ pc = "polling" /\ todo' = todo \ {s} /\ checkpoint[s] = Len(records[s])
      /\ UNCHANGED <<opened, listed, closed, parent, records, checkpoint, rows, pc, shard, upto, ended, stale>>
      /\ UNCHANGED <<streamVars, checkpoint, rows, maintenanceVars, bounds>>
  BY DEF ReadNothing, streamVars, batchVars
<1>2. ~BatchInMemory /\ ~BatchInMemory'
  BY <1>1 DEF BatchInMemory
<1>3. /\ drained \subseteq drained'
      /\ \A t \in drained' : t \in drained \/ FullyRead(t)
  BY <1>1 DEF ReadNothing, Drains, FullyRead
<1>4. \A t \in drained' : FullyRead(t)
  BY <1>3 DEF DrainedAreRead
<1>5. ConsumerTypes'
  BY <1>1, <1>2, <1>4, TypeParts DEF ConsumerTypes, FullyRead
<1>6. BatchIsUnread' /\ MergeProgress'
  BY <1>1, <1>2 DEF BatchIsUnread, MergeProgress
<1>7. DrainedAreRead' /\ ParentsFirst'
  BY <1>1, <1>3, <1>4 DEF DrainedAreRead, ParentsFirst, FullyRead
<1>8. ended' \in BOOLEAN /\ stale' \in BOOLEAN
  BY <1>1, TypeParts DEF FlagTypes
<1> QED
  BY <1>1, <1>5, <1>6, <1>7, <1>8, MemoryStep

\* A batch is read from a shard whose parent, if listed, was drained, so fully read.
LEMMA ReadBatchStep ==
  ASSUME IInv, NEW s \in todo, ReadBatch(s)
  PROVE  IInv'
<1> USE DEF IInv
<1>1. PICK last \in checkpoint[s] + 1 .. Len(records[s]) :
        upto' = last /\ ended' = (s \in closed /\ last = Len(records[s]))
  BY DEF ReadBatch
<1>2. /\ pc = "polling" /\ pc' = "merging" /\ todo' = todo \ {s} /\ shard' = s
      /\ UNCHANGED <<opened, listed, closed, parent, records, checkpoint, rows, drained, stale>>
      /\ UNCHANGED <<streamVars, checkpoint, rows, maintenanceVars, bounds>>
  BY DEF ReadBatch, streamVars
<1>3. s \in 1 .. opened /\ s \in Shards
  BY ShardFacts, TypeParts DEF ConsumerTypes
<1>4. ~BatchInMemory /\ BatchInMemory' /\ shard = NoShard
  BY <1>2, TypeParts DEF BatchInMemory, ConsumerTypes
<1>5. last \in Nat /\ checkpoint[s] < last /\ last <= Len(records[s])
  BY <1>3, ShardFacts
<1>6. ConsumerTypes'
  BY <1>1, <1>2, <1>3, <1>4, <1>5, TypeParts DEF ConsumerTypes
<1>7. BatchIsUnread'
  <2>1. checkpoint'[shard'] < upto' /\ upto' <= Len(records'[shard'])
    BY <1>1, <1>2, <1>5
  <2>2. ended' => shard' \in closed' /\ upto' = Len(records'[shard'])
    BY <1>1, <1>2
  <2> QED
    BY <2>1, <2>2 DEF BatchIsUnread
<1>8. MergeProgress'
  BY <1>2 DEF MergeProgress
<1>9. DrainedAreRead'
  BY <1>2 DEF DrainedAreRead, FullyRead
<1>10. parent[s] \in listed => FullyRead(parent[s])
  BY DEF DrainedAreRead
<1>11. ParentsFirst'
  BY <1>2, <1>4, <1>10 DEF ParentsFirst, FullyRead
<1>12. ended' \in BOOLEAN /\ stale' \in BOOLEAN
  BY <1>1, <1>2, TypeParts, Zenon DEF FlagTypes
<1> QED
  BY <1>2, <1>6, <1>7, <1>8, <1>9, <1>11, <1>12, MemoryStep

LEMMA MergeNothingStep ==
  ASSUME IInv, MergeNothing
  PROVE  IInv'
<1> USE DEF IInv
<1>1. /\ pc = "merging" /\ pc' = "checkpointing" /\ BatchIds = {}
      /\ UNCHANGED <<opened, listed, closed, parent, records, checkpoint, rows, drained, todo, shard, upto, ended, stale>>
      /\ UNCHANGED <<streamVars, checkpoint, rows, maintenanceVars, bounds>>
  BY DEF MergeNothing, streamVars, batchVars
<1>2. BatchInMemory /\ BatchInMemory'
  BY <1>1 DEF BatchInMemory
<1>3. ConsumerTypes'
  BY <1>1, <1>2, TypeParts DEF ConsumerTypes
<1>4. BatchIsUnread'
  BY <1>1, <1>2, Zenon DEF BatchIsUnread
<1>5. BatchIds' = {}
  BY <1>1 DEF BatchIds, BatchPositions
<1>6. MergeProgress'
  BY <1>1, <1>5 DEF MergeProgress
<1>7. DrainedAreRead' /\ ParentsFirst'
  BY <1>1 DEF DrainedAreRead, ParentsFirst, FullyRead
<1>8. ended' \in BOOLEAN /\ stale' \in BOOLEAN
  BY <1>1, TypeParts DEF FlagTypes
<1> QED
  BY <1>1, <1>3, <1>4, <1>6, <1>7, <1>8, MemoryStep

\* Nothing of the batch in memory is settled: its records are behind the checkpoint.
LEMMA BatchIsNotSettled ==
  ASSUME IInv, BatchInMemory, NEW s \in Shards, NEW i \in 1 .. checkpoint[s]
  PROVE  records[s][i] \notin BatchIds
<1> USE DEF IInv
<1> SUFFICES ASSUME NEW j \in BatchPositions, records[shard][j] = records[s][i]
             PROVE  FALSE
  BY DEF BatchIds
<1>1. shard \in Shards /\ upto \in Nat /\ upto <= Len(records[shard])
  BY ShardFacts DEF BatchIsUnread
<1>2. j \in 1 .. Len(records[shard]) /\ j > checkpoint[shard]
  BY <1>1, ShardFacts DEF BatchPositions
<1>3. i \in 1 .. Len(records[s])
  BY ShardFacts
<1>4. s = shard /\ i = j
  BY <1>1, <1>2, <1>3 DEF RecordsAreDistinct
<1> QED
  BY <1>1, <1>2, <1>4, ShardFacts

\* A step of merge_rows that leaves the rows of the batch at one count, which its
\* next step relies on, and every other row alone.
LEMMA CommitStep ==
  ASSUME IInv, BatchInMemory, NEW count \in {0, 1},
         pc' = IF count = 0 THEN "appending" ELSE "checkpointing",
         rows' = [d \in Decisions |-> IF d \in BatchIds THEN count ELSE rows[d]],
         scanStale' = (scan # NoScan),
         UNCHANGED <<streamVars, checkpoint, drained, todo, batchVars, stale, scan, bounds>>
  PROVE  IInv'
<1> USE DEF IInv
<1>1. UNCHANGED <<opened, listed, closed, parent, records, checkpoint, drained, todo, shard, upto, ended, stale, scan, crashes, compactions>>
  BY DEF streamVars, batchVars, bounds
<1>2. BatchInMemory' /\ pc' \in {"appending", "checkpointing"}
  BY DEF BatchInMemory
<1>3. BatchIds' = BatchIds /\ BatchIds \subseteq Decisions
  BY <1>1 DEF BatchIds, BatchPositions
<1>4. TypeOK'
  <2>1. StreamTypes' /\ ScanTypes' /\ BoundTypes'
    BY <1>1, TypeParts DEF StreamTypes, ScanTypes, BoundTypes
  <2>2. rows' \in [Decisions -> Nat]
    BY TypeParts DEF TableTypes
  <2>3. TableTypes'
    BY <1>1, <2>2, TypeParts DEF TableTypes
  <2>4. ConsumerTypes'
    BY <1>1, <1>2, TypeParts DEF ConsumerTypes
  <2>5. FlagTypes'
    BY <1>1, TypeParts, Zenon DEF FlagTypes
  <2> QED
    BY <2>1, <2>3, <2>4, <2>5, Zenon DEF TypeOK, StreamTypes, TableTypes, ConsumerTypes, FlagTypes, ScanTypes, BoundTypes
<1>5. RecordsAreDistinct' /\ Unopened'
  BY <1>1 DEF RecordsAreDistinct, Unopened
<1>6. BatchIsUnread'
  BY <1>1, <1>2, Zenon DEF BatchIsUnread
<1>7. RowsInv'
  <2>1. SettledOnce'
    <3> SUFFICES ASSUME NEW s \in Shards, NEW i \in 1 .. checkpoint[s], records[s][i] \in Decisions
                 PROVE  rows'[records[s][i]] = 1
      BY <1>1 DEF SettledOnce
    <3>1. records[s][i] \notin BatchIds
      BY BatchIsNotSettled
    <3>2. rows[records[s][i]] = 1
      BY DEF RowsInv, SettledOnce
    <3> QED
      BY <3>1, <3>2
  <2>2. NeverTwice'
    BY DEF RowsInv, NeverTwice
  <2>3. MergeProgress'
    BY <1>3 DEF MergeProgress
  <2>4. ScanIsTable'
    BY <1>1 DEF ScanIsTable
  <2> QED
    BY <2>1, <2>2, <2>3, <2>4 DEF RowsInv
<1>8. DrainedAreRead' /\ ParentsFirst'
  BY <1>1 DEF DrainedAreRead, ParentsFirst, FullyRead
<1> QED
  BY <1>4, <1>5, <1>6, <1>7, <1>8

LEMMA CommitFailsStep ==
  ASSUME IInv, CommitFails
  PROVE  IInv'
<1>1. BoundTypes'
  BY TypeParts DEF IInv, CommitFails, bounds, BoundTypes
<1> QED
  BY <1>1, ExitStep DEF CommitFails

\* The delete leaves no row of the batch, whether or not there was one.
LEMMA DeleteRowsStep ==
  ASSUME IInv, DeleteRows
  PROVE  IInv'
<1>1. pc = "merging" /\ BatchInMemory
  BY DEF DeleteRows, BatchInMemory
<1>2. CASE /\ Matching = {} /\ pc' = "appending"
           /\ UNCHANGED <<streamVars, checkpoint, rows, drained, todo, batchVars, stale, maintenanceVars, bounds>>
  <2>1. UNCHANGED <<opened, listed, closed, parent, records, checkpoint, rows, drained, todo, shard, upto, ended, stale>>
    BY <1>2 DEF streamVars, batchVars
  <2>2. BatchInMemory'
    BY <1>2 DEF BatchInMemory
  <2>3. BatchIds' = BatchIds /\ BatchIds \subseteq Decisions
    BY <2>1 DEF BatchIds, BatchPositions
  <2>4. MergeProgress'
    BY <1>2, <2>1, <2>3, TypeParts DEF MergeProgress, Matching, IInv, TableTypes
  <2>5. ConsumerTypes'
    BY <1>1, <1>2, <2>1, <2>2, TypeParts DEF ConsumerTypes, IInv
  <2>6. BatchIsUnread'
    BY <1>1, <2>1, <2>2, Zenon DEF BatchIsUnread, IInv
  <2>7. DrainedAreRead' /\ ParentsFirst'
    BY <2>1 DEF DrainedAreRead, ParentsFirst, FullyRead, IInv
  <2>8. ended' \in BOOLEAN /\ stale' \in BOOLEAN
    BY <2>1, TypeParts DEF FlagTypes, IInv
  <2> QED
    BY <1>2, <2>4, <2>5, <2>6, <2>7, <2>8, MemoryStep
<1>3. CASE /\ pc' = "appending"
           /\ ConsumerCommits([d \in Decisions |-> IF d \in BatchIds THEN 0 ELSE rows[d]])
  BY <1>1, <1>3, CommitStep DEF ConsumerCommits
<1>4. CASE CommitFails
  BY <1>4, CommitFailsStep
<1> QED
  BY <1>2, <1>3, <1>4, Zenon DEF DeleteRows

\* The append adds one row to none.
LEMMA AppendRowsStep ==
  ASSUME IInv, AppendRows
  PROVE  IInv'
<1>1. pc = "appending" /\ BatchInMemory
  BY DEF AppendRows, BatchInMemory
<1>2. CASE /\ pc' = "checkpointing"
           /\ ConsumerCommits([d \in Decisions |-> IF d \in BatchIds THEN rows[d] + 1 ELSE rows[d]])
  <2>1. \A d \in BatchIds : rows[d] = 0
    BY <1>1 DEF IInv, RowsInv, MergeProgress
  <2>2. rows' = [d \in Decisions |-> IF d \in BatchIds THEN 1 ELSE rows[d]]
    BY <1>2, <2>1 DEF ConsumerCommits
  <2> QED
    BY <1>1, <1>2, <2>2, CommitStep DEF ConsumerCommits
<1>3. CASE CommitFails
  BY <1>3, CommitFailsStep
<1> QED
  BY <1>2, <1>3, Zenon DEF AppendRows

\* The checkpoint passes the batch once each of its decisions has its row, and a
\* shard counts as drained once its last batch is behind the checkpoint.
LEMMA PutCheckpointStep ==
  ASSUME IInv, PutCheckpoint
  PROVE  IInv'
<1> USE DEF IInv
<1>1. /\ pc = "checkpointing" /\ pc' = "polling" /\ shard' = NoShard /\ upto' = 0 /\ ended' = FALSE
      /\ checkpoint' = [checkpoint EXCEPT ![shard] = upto]
      /\ UNCHANGED <<opened, listed, closed, parent, records, rows, todo, stale, scan, scanStale, crashes, compactions>>
  BY DEF PutCheckpoint, streamVars, maintenanceVars, bounds
<1>2. BatchInMemory /\ ~BatchInMemory'
  BY <1>1 DEF BatchInMemory
<1>3. /\ shard \in Shards /\ shard \in 1 .. opened
      /\ checkpoint[shard] < upto /\ upto <= Len(records[shard])
  BY <1>2, ShardFacts, TypeParts DEF BatchIsUnread, ConsumerTypes
<1>4. /\ checkpoint'[shard] = upto
      /\ \A s \in Shards \ {shard} : checkpoint'[s] = checkpoint[s]
      /\ checkpoint' \in [Shards -> Nat]
      /\ \A s \in Shards : checkpoint'[s] <= Len(records'[s])
  BY <1>1, <1>3, ShardFacts, TypeParts DEF TableTypes
<1>5. \A s \in Shards : FullyRead(s) => FullyRead(s)'
  BY <1>1, <1>3, <1>4, ShardFacts DEF FullyRead
<1>6. /\ drained \subseteq drained'
      /\ \A s \in drained' : FullyRead(s)'
  <2>1. \A s \in {shard} : ended => FullyRead(s)'
    BY <1>1, <1>2, <1>4 DEF BatchIsUnread, FullyRead
  <2>2. \A s \in drained : FullyRead(s)'
    BY <1>5, ShardFacts DEF DrainedAreRead
  <2>3. drained \subseteq drained' /\ \A s \in drained' : s \in drained \/ (ended /\ s = shard)
    BY Zenon DEF PutCheckpoint, Drains
  <2> QED
    BY <2>1, <2>2, <2>3
<1>7. TypeOK'
  <2>1. StreamTypes' /\ ScanTypes' /\ BoundTypes'
    BY <1>1, TypeParts DEF StreamTypes, ScanTypes, BoundTypes
  <2>2. TableTypes'
    BY <1>1, <1>4, TypeParts DEF TableTypes
  <2>3. ConsumerTypes'
    BY <1>1, <1>2, <1>6, TypeParts DEF ConsumerTypes, FullyRead
  <2>4. FlagTypes'
    BY <1>1, TypeParts, Zenon DEF FlagTypes
  <2> QED
    BY <2>1, <2>2, <2>3, <2>4, Zenon DEF TypeOK, StreamTypes, TableTypes, ConsumerTypes, FlagTypes, ScanTypes, BoundTypes
<1>8. RecordsAreDistinct' /\ Unopened'
  BY <1>1, <1>3, <1>4, ShardFacts DEF RecordsAreDistinct, Unopened
<1>9. BatchIsUnread'
  BY <1>2 DEF BatchIsUnread
<1>10. SettledOnce'
  <2> SUFFICES ASSUME NEW s \in Shards, NEW i \in 1 .. checkpoint'[s], records[s][i] \in Decisions
               PROVE  rows[records[s][i]] = 1
    BY <1>1 DEF SettledOnce
  <2>1. CASE i \in 1 .. checkpoint[s]
    BY <2>1 DEF RowsInv, SettledOnce
  <2>2. CASE i \notin 1 .. checkpoint[s]
    <3>1. s = shard
      BY <1>4, <2>2
    <3>2. i \in 1 .. upto
      BY <1>4, <3>1
    <3>3. i \in BatchPositions
      BY <1>3, <2>2, <3>1, <3>2, ShardFacts DEF BatchPositions
    <3>4. records[s][i] \in BatchIds
      BY <3>1, <3>3 DEF BatchIds
    <3> QED
      BY <1>1, <3>4 DEF RowsInv, MergeProgress
  <2> QED
    BY <2>1, <2>2
<1>11. RowsInv'
  BY <1>1, <1>10 DEF RowsInv, NeverTwice, MergeProgress, ScanIsTable
<1>12. DrainedAreRead'
  BY <1>1, <1>6 DEF DrainedAreRead
<1>13. ParentsFirst'
  <2> SUFFICES ASSUME NEW s \in 1 .. opened, checkpoint'[s] > 0, parent[s] \in listed
               PROVE  FullyRead(parent[s])'
    BY <1>1, ShardFacts, Zenon DEF ParentsFirst, FullyRead
  <2>1. checkpoint[s] > 0 \/ shard = s
    BY <1>4, ShardFacts
  <2> QED
    BY <1>1, <1>5, <2>1, ShardFacts DEF ParentsFirst
<1> QED
  BY <1>7, <1>8, <1>9, <1>11, <1>12, <1>13

LEMMA ScanTableStep ==
  ASSUME IInv, ScanTable
  PROVE  IInv'
<1> USE DEF IInv
<1>1. /\ scan' = rows /\ scanStale' = FALSE /\ compactions < MaxCompactions /\ compactions' = compactions + 1
      /\ UNCHANGED <<opened, listed, closed, parent, records, checkpoint, rows, pc, drained, todo, shard, upto, ended, stale, crashes>>
  BY DEF ScanTable, streamVars, consumerVars, batchVars
<1>2. TypeOK'
  <2>1. StreamTypes' /\ TableTypes'
    BY <1>1, TypeParts DEF StreamTypes, TableTypes
  <2>2. ConsumerTypes'
    BY <1>1, TypeParts DEF ConsumerTypes, BatchInMemory
  <2>3. ScanTypes'
    BY <1>1, TypeParts DEF ScanTypes, TableTypes
  <2>4. FlagTypes'
    BY <1>1, TypeParts, Zenon DEF FlagTypes
  <2>5. BoundTypes'
    BY <1>1, TypeParts, BoundsAssumption DEF BoundTypes
  <2> QED
    BY <2>1, <2>2, <2>3, <2>4, <2>5, Zenon DEF TypeOK, StreamTypes, TableTypes, ConsumerTypes, FlagTypes, ScanTypes, BoundTypes
<1>3. RecordsAreDistinct' /\ Unopened' /\ DrainedAreRead' /\ ParentsFirst'
  BY <1>1 DEF RecordsAreDistinct, Unopened, DrainedAreRead, ParentsFirst, FullyRead
<1>4. BatchIsUnread'
  BY <1>1, Zenon DEF BatchIsUnread, BatchInMemory
<1>5. RowsInv'
  BY <1>1 DEF RowsInv, SettledOnce, NeverTwice, MergeProgress, ScanIsTable, BatchIds, BatchPositions
<1> QED
  BY <1>2, <1>3, <1>4, <1>5

\* An overwrite that is let through writes the table as it is.
LEMMA OverwriteTableStep ==
  ASSUME IInv, OverwriteTable
  PROVE  IInv' /\ rows' = rows
<1> USE DEF IInv
<1>1. rows' = rows
  BY DEF OverwriteTable, RowsInv, ScanIsTable
<1>2. /\ scan' = NoScan /\ stale' = (pc # "down")
      /\ UNCHANGED <<opened, listed, closed, parent, records, checkpoint, rows, pc, drained, todo, shard, upto, ended, scanStale, crashes, compactions>>
  BY <1>1 DEF OverwriteTable, streamVars, batchVars, bounds
<1>3. TypeOK'
  <2>1. StreamTypes' /\ TableTypes' /\ BoundTypes'
    BY <1>2, TypeParts DEF StreamTypes, TableTypes, BoundTypes
  <2>2. ConsumerTypes'
    BY <1>2, TypeParts DEF ConsumerTypes, BatchInMemory
  <2>3. FlagTypes' /\ ScanTypes'
    BY <1>2, TypeParts, Zenon DEF FlagTypes, ScanTypes
  <2> QED
    BY <2>1, <2>2, <2>3, Zenon DEF TypeOK, StreamTypes, TableTypes, ConsumerTypes, FlagTypes, ScanTypes, BoundTypes
<1>4. RecordsAreDistinct' /\ Unopened' /\ DrainedAreRead' /\ ParentsFirst'
  BY <1>2 DEF RecordsAreDistinct, Unopened, DrainedAreRead, ParentsFirst, FullyRead
<1>5. BatchIsUnread'
  BY <1>2, Zenon DEF BatchIsUnread, BatchInMemory
<1>6. RowsInv'
  BY <1>2 DEF RowsInv, SettledOnce, NeverTwice, MergeProgress, ScanIsTable, BatchIds, BatchPositions
<1> QED
  BY <1>1, <1>3, <1>4, <1>5, <1>6

LEMMA AbandonScanStep ==
  ASSUME IInv, AbandonScan
  PROVE  IInv'
<1> USE DEF IInv
<1>1. /\ scan' = NoScan /\ scanStale' = FALSE
      /\ UNCHANGED <<opened, listed, closed, parent, records, checkpoint, rows, pc, drained, todo, shard, upto, ended, stale, compactions>>
      /\ crashes' = crashes \/ (crashes < MaxCrashes /\ crashes' = crashes + 1)
  BY DEF AbandonScan, streamVars, consumerVars, batchVars
<1>2. TypeOK'
  <2>1. StreamTypes' /\ TableTypes'
    BY <1>1, TypeParts DEF StreamTypes, TableTypes
  <2>2. ConsumerTypes'
    BY <1>1, TypeParts DEF ConsumerTypes, BatchInMemory
  <2>3. FlagTypes' /\ ScanTypes'
    BY <1>1, TypeParts, Zenon DEF FlagTypes, ScanTypes
  <2>4. BoundTypes'
    BY <1>1, TypeParts, BoundsAssumption DEF BoundTypes
  <2> QED
    BY <2>1, <2>2, <2>3, <2>4, Zenon DEF TypeOK, StreamTypes, TableTypes, ConsumerTypes, FlagTypes, ScanTypes, BoundTypes
<1>3. RecordsAreDistinct' /\ Unopened' /\ DrainedAreRead' /\ ParentsFirst'
  BY <1>1 DEF RecordsAreDistinct, Unopened, DrainedAreRead, ParentsFirst, FullyRead
<1>4. BatchIsUnread'
  BY <1>1, Zenon DEF BatchIsUnread, BatchInMemory
<1>5. RowsInv'
  BY <1>1 DEF RowsInv, SettledOnce, NeverTwice, MergeProgress, ScanIsTable, BatchIds, BatchPositions
<1> QED
  BY <1>2, <1>3, <1>4, <1>5

LEMMA NextIInv == IInv /\ [Next]_vars => IInv'
<1> SUFFICES ASSUME IInv, [Next]_vars
             PROVE  IInv'
  OBVIOUS
<1>1. CASE \E e \in Events : PutItem(e)
  BY <1>1, PutItemStep
<1>2. CASE \E p \in 1 .. opened : RotateShard(p) \/ ExpireShard(p)
  BY <1>2, RotateShardStep, ExpireShardStep
<1>3. CASE Start \/ BeginPass
  BY <1>3, StartStep, BeginPassStep
<1>4. CASE \E s \in todo : ReadNothing(s) \/ ReadBatch(s)
  BY <1>4, ReadNothingStep, ReadBatchStep
<1>5. CASE \E s \in todo : ReadExpired(s)
  <2>1. BoundTypes'
    BY <1>5, TypeParts DEF ReadExpired, bounds, BoundTypes, IInv
  <2> QED
    BY <1>5, <2>1, ExitStep DEF ReadExpired
<1>6. CASE MergeNothing \/ DeleteRows
  BY <1>6, MergeNothingStep, DeleteRowsStep
<1>7. CASE AppendRows \/ PutCheckpoint
  BY <1>7, AppendRowsStep, PutCheckpointStep
<1>8. CASE CrashConsumer
  <2>1. BoundTypes'
    BY <1>8, TypeParts, BoundsAssumption DEF CrashConsumer, BoundTypes, IInv
  <2> QED
    BY <1>8, <2>1, ExitStep DEF CrashConsumer
<1>9. CASE ScanTable \/ OverwriteTable \/ AbandonScan
  BY <1>9, ScanTableStep, OverwriteTableStep, AbandonScanStep
<1>10. CASE UNCHANGED vars
  <2>1. UNCHANGED <<opened, listed, closed, parent, records, checkpoint, rows, pc, drained, todo, shard, upto, ended, stale, scan, scanStale, crashes, compactions>>
    BY <1>10 DEF vars, streamVars, consumerVars, batchVars, maintenanceVars, bounds
  <2>2. StreamTypes' /\ TableTypes' /\ ConsumerTypes' /\ FlagTypes' /\ ScanTypes' /\ BoundTypes'
    BY <2>1, TypeParts, Zenon DEF IInv, StreamTypes, TableTypes, ConsumerTypes, FlagTypes, ScanTypes, BoundTypes, BatchInMemory
  <2>3. TypeOK'
    BY <2>2, Zenon DEF TypeOK, StreamTypes, TableTypes, ConsumerTypes, FlagTypes, ScanTypes, BoundTypes
  <2>4. RecordsAreDistinct' /\ Unopened' /\ DrainedAreRead' /\ ParentsFirst'
    BY <2>1 DEF IInv, RecordsAreDistinct, Unopened, DrainedAreRead, ParentsFirst, FullyRead
  <2>5. BatchIsUnread'
    BY <2>1, Zenon DEF IInv, BatchIsUnread, BatchInMemory
  <2>6. RowsInv'
    BY <2>1 DEF IInv, RowsInv, SettledOnce, NeverTwice, MergeProgress, ScanIsTable, BatchIds, BatchPositions
  <2> QED
    BY <2>3, <2>4, <2>5, <2>6 DEF IInv
<1> QED
  BY <1>1, <1>2, <1>3, <1>4, <1>5, <1>6, <1>7, <1>8, <1>9, <1>10, Zenon DEF Next, ConsumerStep

\* Every reachable state satisfies the inductive invariant.
THEOREM InvariantHolds == Spec => []IInv
BY InitIInv, NextIInv, PTL DEF Spec

\* No crash, refused commit or compaction makes the consumer skip a decision or log
\* it twice, and it reads no shard before its parent.
THEOREM LoggedOnceInOrder == Spec => [](TypeOK /\ SettledIsLogged /\ NeverTwice /\ ParentsFirst)
<1>1. IInv => TypeOK /\ NeverTwice /\ ParentsFirst
  BY DEF IInv, RowsInv
<1>2. IInv => SettledIsLogged
  BY DEF IInv, RowsInv, SettledOnce, SettledIsLogged, Settled, SettledPositions
<1> QED
  BY <1>1, <1>2, InvariantHolds, PTL

\* The streams, the tables and the memory of both processes keep their shape.
THEOREM TypesHold == Spec => []TypeOK
BY LoggedOnceInOrder, PTL

\* A restart that forgot which shards were drained reads no child before its parent.
THEOREM ParentsAreReadFirst == Spec => []ParentsFirst
BY LoggedOnceInOrder, PTL

-------------------------------------------------------------------------------
(* Refinement. *)

\* A step that leaves records, checkpoints and rows alone is none of the audit log's.
LEMMA QuietStep ==
  ASSUME UNCHANGED <<records, checkpoint, rows>>
  PROVE  UNCHANGED Audit!auditVars
BY DEF Audit!auditVars, Captured, Settled, SettledPositions

\* The batch in memory is captured and not settled.
LEMMA BatchIsUnsettled ==
  ASSUME IInv, BatchInMemory
  PROVE  BatchIds \in SUBSET Audit!Unsettled
<1>1. shard \in Shards /\ upto \in Nat /\ upto <= Len(records[shard])
  BY ShardFacts DEF IInv, BatchIsUnread
<1>2. \A i \in BatchPositions : i \in 1 .. Len(records[shard])
  BY <1>1, ShardFacts DEF IInv, BatchPositions
<1>3. BatchIds \subseteq Captured \intersect Decisions
  BY <1>1, <1>2 DEF BatchIds, Captured, Events
<1>4. BatchIds \intersect Settled = {}
  BY BatchIsNotSettled, Zenon DEF Settled, SettledPositions
<1> QED
  BY <1>3, <1>4 DEF Audit!Unsettled

\* A put captures its decision, or nothing when an item is deleted.
LEMMA PutItemRefines ==
  ASSUME IInv, NEW e \in Events, PutItem(e)
  PROVE  Audit!Capture(e) \/ UNCHANGED Audit!auditVars
<1>1. PICK s \in Open : records' = [records EXCEPT ![s] = Append(@, e)]
  BY DEF PutItem
<1>2. /\ s \in Shards
      /\ Len(records'[s]) = Len(records[s]) + 1
      /\ records'[s][Len(records[s]) + 1] = e
      /\ \A i \in 1 .. Len(records[s]) : records'[s][i] = records[s][i]
      /\ \A t \in Shards \ {s} : records'[t] = records[t]
  BY <1>1, PutItemAppends DEF IInv
<1>3. UNCHANGED <<checkpoint, rows>> /\ e \notin Captured
  BY DEF PutItem
<1>r. \A t \in Shards : Len(records[t]) \in Nat
  BY ShardFacts DEF IInv
<1>4. \A t \in Shards : \A i \in 1 .. Len(records'[t]) :
         \/ i \in 1 .. Len(records[t]) /\ records'[t][i] = records[t][i]
         \/ t = s /\ i = Len(records[s]) + 1 /\ records'[t][i] = e
  BY <1>2, <1>r, SMTT(30)
<1>5. \A t \in Shards : \A i \in 1 .. Len(records[t]) :
         i \in 1 .. Len(records'[t]) /\ records'[t][i] = records[t][i]
  BY <1>2, <1>r, SMTT(30)
<1>6. Captured' = Captured \union {e}
  <2>1. \A x \in Events : x \in Captured' => x \in Captured \/ x = e
    BY <1>4 DEF Captured
  <2>2. \A x \in Captured : x \in Captured'
    BY <1>5 DEF Captured
  <2>3. e \in Captured'
    <3>1. Len(records[s]) + 1 \in 1 .. Len(records'[s])
      BY <1>2, ShardFacts DEF IInv
    <3> QED
      BY <1>2, <3>1 DEF Captured
  <2>4. Captured \subseteq Events /\ Captured' \subseteq Events
    BY DEF Captured
  <2> QED
    BY <2>1, <2>2, <2>3, <2>4
<1>7. Settled' = Settled
  <2>1. \A t \in Shards : \A i \in SettledPositions(t) : records'[t][i] = records[t][i]
    BY <1>5, ShardFacts DEF IInv, SettledPositions
  <2> QED
    BY <1>3, <2>1 DEF Settled, SettledPositions
<1>8. CASE e \in Decisions
  BY <1>3, <1>6, <1>7, <1>8 DEF Audit!Capture
<1>9. CASE e \notin Decisions
  BY <1>3, <1>6, <1>7, <1>9 DEF Audit!auditVars
<1> QED
  BY <1>8, <1>9

\* A checkpoint settles the decisions of its batch, which have their row.
LEMMA PutCheckpointRefines ==
  ASSUME IInv, PutCheckpoint
  PROVE  Audit!Settle(BatchIds)
<1> USE DEF IInv
<1>1. /\ pc = "checkpointing" /\ BatchInMemory
      /\ checkpoint' = [checkpoint EXCEPT ![shard] = upto]
      /\ UNCHANGED <<records, rows>>
  BY DEF PutCheckpoint, streamVars, BatchInMemory
<1>2. shard \in Shards /\ upto \in Nat /\ checkpoint[shard] < upto
  BY <1>1, ShardFacts DEF BatchIsUnread
<1>3. /\ checkpoint'[shard] = upto
      /\ \A s \in Shards \ {shard} : checkpoint'[s] = checkpoint[s]
  BY <1>1, <1>2, ShardFacts, TypeParts DEF TableTypes
<1>4. \A s \in Shards : \A i \in 1 .. checkpoint'[s] :
         i \in 1 .. checkpoint[s] \/ (s = shard /\ i \in BatchPositions)
  BY <1>2, <1>3, ShardFacts DEF BatchPositions
<1>5. \A s \in Shards : \A i \in 1 .. checkpoint[s] : i \in 1 .. checkpoint'[s]
  BY <1>2, <1>3, ShardFacts
<1>6. \A i \in BatchPositions : i \in 1 .. checkpoint'[shard]
  BY <1>2, <1>3, ShardFacts DEF BatchPositions
<1>7. Settled' = Settled \union BatchIds
  <2>1. \A d \in Settled' : d \in Settled \/ d \in BatchIds
    BY <1>1, <1>4 DEF Settled, SettledPositions, BatchIds
  <2>2. \A d \in Settled : d \in Settled'
    BY <1>1, <1>5 DEF Settled, SettledPositions
  <2>3. \A d \in BatchIds : d \in Settled'
    BY <1>1, <1>2, <1>6 DEF Settled, SettledPositions, BatchIds
  <2> QED
    BY <2>1, <2>2, <2>3
<1>8. \A d \in BatchIds : rows[d] = 1
  BY <1>1 DEF RowsInv, MergeProgress
<1>9. Captured' = Captured
  BY <1>1 DEF Captured
<1> QED
  BY <1>1, <1>7, <1>8, <1>9 DEF Audit!Settle

LEMMA DeleteRowsRefines ==
  ASSUME IInv, DeleteRows
  PROVE  Audit!RetractRows(BatchIds) \/ UNCHANGED Audit!auditVars
<1>1. UNCHANGED <<records, checkpoint>>
  BY DEF DeleteRows, ConsumerCommits, CommitFails, streamVars
<1>2. Captured' = Captured /\ Settled' = Settled
  BY <1>1 DEF Captured, Settled, SettledPositions
<1>3. rows' = [d \in Decisions |-> IF d \in BatchIds THEN 0 ELSE rows[d]] \/ UNCHANGED rows
  BY DEF DeleteRows, ConsumerCommits, CommitFails
<1> QED
  BY <1>1, <1>2, <1>3, QuietStep DEF Audit!RetractRows

LEMMA AppendRowsRefines ==
  ASSUME IInv, AppendRows
  PROVE  Audit!WriteRows(BatchIds) \/ UNCHANGED Audit!auditVars
<1>1. UNCHANGED <<records, checkpoint>>
  BY DEF AppendRows, ConsumerCommits, CommitFails, streamVars
<1>2. Captured' = Captured /\ Settled' = Settled
  BY <1>1 DEF Captured, Settled, SettledPositions
<1>3. \A d \in BatchIds : rows[d] = 0
  BY DEF AppendRows, IInv, RowsInv, MergeProgress
<1>4. rows' = [d \in Decisions |-> IF d \in BatchIds THEN 1 ELSE rows[d]] \/ UNCHANGED rows
  BY <1>3 DEF AppendRows, ConsumerCommits, CommitFails
<1> QED
  BY <1>1, <1>2, <1>3, <1>4, QuietStep DEF Audit!WriteRows

LEMMA NextRefines == IInv /\ [Next]_vars => [Audit!AuditNext]_Audit!auditVars
<1> SUFFICES ASSUME IInv, [Next]_vars
             PROVE  Audit!AuditNext \/ UNCHANGED Audit!auditVars
  BY Zenon
<1>1. CASE \E e \in Events : PutItem(e)
  <2>1. PICK e \in Events : PutItem(e)
    BY <1>1
  <2>2. Audit!Capture(e) => e \in Decisions
    BY DEF Audit!Capture
  <2> QED
    BY <2>1, <2>2, PutItemRefines DEF Audit!AuditNext
<1>2. CASE PutCheckpoint
  <2>1. BatchInMemory
    BY <1>2 DEF PutCheckpoint, BatchInMemory
  <2> QED
    BY <1>2, <2>1, PutCheckpointRefines, BatchIsUnsettled DEF Audit!AuditNext
<1>3. CASE DeleteRows
  <2>1. BatchInMemory
    BY <1>3 DEF DeleteRows, BatchInMemory
  <2> QED
    BY <1>3, <2>1, DeleteRowsRefines, BatchIsUnsettled DEF Audit!AuditNext
<1>4. CASE AppendRows
  <2>1. BatchInMemory
    BY <1>4 DEF AppendRows, BatchInMemory
  <2> QED
    BY <1>4, <2>1, AppendRowsRefines, BatchIsUnsettled DEF Audit!AuditNext
<1>5. CASE OverwriteTable
  <2>1. UNCHANGED <<records, checkpoint, rows>>
    BY <1>5, OverwriteTableStep DEF OverwriteTable, streamVars
  <2> QED
    BY <2>1, QuietStep
<1>6. CASE \/ \E p \in 1 .. opened : RotateShard(p) \/ ExpireShard(p)
           \/ Start \/ BeginPass \/ MergeNothing
           \/ \E s \in todo : ReadNothing(s) \/ ReadBatch(s) \/ ReadExpired(s)
           \/ CrashConsumer \/ ScanTable \/ AbandonScan
           \/ UNCHANGED vars
  <2>1. UNCHANGED <<records, checkpoint, rows>>
    BY <1>6 DEF RotateShard, ExpireShard, Start, BeginPass, MergeNothing, ReadNothing, ReadBatch,
       ReadExpired, CrashConsumer, ScanTable, AbandonScan, vars, streamVars
  <2> QED
    BY <2>1, QuietStep
<1> QED
  BY <1>1, <1>2, <1>3, <1>4, <1>5, <1>6, Zenon DEF Next, ConsumerStep

\* The consumer and the maintenance implement the audit log: what is settled is in the
\* table once and for good.
THEOREM LakehouseImplementsAuditLog == Spec => ImplementsAuditLog
<1>1. Init => Audit!AuditInit
  <2> SUFFICES ASSUME Init
               PROVE  Audit!AuditInit
    OBVIOUS
  <2>1. \A s \in Shards : Len(records[s]) = 0 /\ checkpoint[s] = 0
    BY DEF Init
  <2>2. Captured = {} /\ Settled = {}
    BY <2>1 DEF Captured, Settled, SettledPositions
  <2> QED
    BY <2>2 DEF Init, Audit!AuditInit
<1> QED
  BY <1>1, NextRefines, InvariantHolds, PTL DEF Spec, ImplementsAuditLog, Audit!AuditSpec
===============================================================================

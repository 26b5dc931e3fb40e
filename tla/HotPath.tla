-------------------------------- MODULE HotPath --------------------------------
(***************************************************************************)
(* The end of the pipeline, fed by MarketFeed: a market record makes       *)
(* Stage B price its night for the apartments of the segment, Stage C      *)
(* publishes an override in place of the price where one is active, and    *)
(* the sink puts the decision into DynamoDB, where the dashboard reads it. *)
(*                                                                         *)
(* What Stage B decides is the subject of PriceDecision; here a decision   *)
(* is the algorithm's or an override's.  Decisions that cost changes make  *)
(* are left out: they only price a night once more.  A job that fails      *)
(* reads both topics again from its last checkpoint, and a connector that  *)
(* is started again sends rows of manual_overrides again.                  *)
(***************************************************************************)
EXTENDS MarketFeed

CONSTANTS
  ApartmentsOf,  \* apartments of a segment
  None,
  MaxOverrides,  \* bound: rows written to manual_overrides
  Overridden     \* bound: the apartments and nights they are about

Apartments == UNION {ApartmentsOf[s] : s \in Market}
ASSUME HotPathAssumption ==
  /\ None \notin Nat /\ MaxOverrides \in Nat
  /\ \A s \in Market : IsFiniteSet(ApartmentsOf[s])
  /\ Overridden \subseteq Apartments \X Nights

VARIABLES
  offset,     \* records of log the job has read
  known,      \* segments and nights with a blended rate, at the last checkpoint
  decisions,  \* on their way from Stage B to the sink
  overrides,  \* what was written to manual_overrides: what each row is about
  expired,    \* those whose valid_until has passed
  changes,    \* the topic of manual_overrides, from the last checkpoint on
  seen,       \* rows of changes Stage C has read
  kept,       \* its broadcast state at the last checkpoint
  item        \* DynamoDB: 0 for the algorithm's price, or the override's index

hot == <<offset, known, decisions, overrides, expired, changes, seen, kept, item>>
vars == <<feed, hot>>

Pairs == Apartments \X Nights
Algorithm == 0

HotInit ==
  /\ offset = 0 /\ known = {} /\ decisions = << >>
  /\ overrides = << >> /\ expired = {}
  /\ changes = << >> /\ seen = 0 /\ kept = [p \in Pairs |-> Algorithm]
  /\ item = [p \in Pairs |-> None]

\* A person inserts or updates the row of an apartment and night.
WriteOverride ==
  /\ Len(overrides) < MaxOverrides
  /\ \E p \in Overridden : overrides' = Append(overrides, p)
  /\ changes' = Append(changes, Len(overrides) + 1)
  /\ UNCHANGED <<feed, offset, known, decisions, expired, seen, kept, item>>

\* The connector restarted: it sends again every row from some row on.
Redeliver ==
  /\ Fault
  /\ \E k \in DOMAIN overrides :
       changes' = changes \o [i \in 1 .. Len(overrides) + 1 - k |-> k + i - 1]
  /\ UNCHANGED <<ingestor, stream, bridge, log, offset, known, decisions,
                 overrides, expired, seen, kept, item>>

Expire ==
  /\ \E i \in DOMAIN overrides \ expired : expired' = expired \union {i}
  /\ UNCHANGED <<feed, offset, known, decisions, overrides, changes, seen, kept, item>>

\* Mutant: the broadcast state is not part of a checkpoint.
NewestSinceCheckpoint(pair, n) ==
  LET of == {i \in 1..n : overrides[changes[i]] = pair}
  IN IF of = {} THEN Algorithm ELSE changes[Max(of)]

\* The entry of an apartment and night once n rows of changes are read: the last
\* one that came, whichever it is, for a row says nothing of its version.
Newest(pair, n) ==
  LET of == {i \in 1..n : overrides[changes[i]] = pair}
  IN IF of = {} THEN kept[pair] ELSE changes[Max(of)]

ProcessBroadcastElement ==
  /\ seen < Len(changes) /\ seen' = seen + 1
  /\ UNCHANGED <<feed, offset, known, decisions, overrides, expired, changes, kept, item>>

\* The nights Stage B knows a blended rate of when it has read n records.
Known(n) ==
  known \union {<<log[i].segment, log[i].night>> : i \in {j \in 1..n : log[j].channel = "blended"}}

\* Stage B prices the night of a record, its blended rate or a channel's, as soon
\* as the blended one is known.  No record is stale here: those of a segment
\* arrive in their order, and a replay finds the state of its checkpoint.
PriceNight ==
  /\ offset < Len(log) /\ decisions = << >>
  /\ offset' = offset + 1
  /\ LET r == log[offset + 1]
     IN decisions' = IF <<r.segment, r.night>> \in Known(offset + 1)
                     THEN SetToSeq({<<a, r.night>> : a \in ApartmentsOf[r.segment]})
                     ELSE << >>
  /\ UNCHANGED <<feed, known, overrides, expired, changes, seen, kept, item>>

\* Mutant: an override in the broadcast state is used without looking at its valid_until.
ProcessElementUnexpired(pair) == Newest(pair, seen)

\* What Stage C publishes: the entry of its broadcast state; one that has expired
\* stays there but is not used.
ProcessElement(pair) ==
  LET i == Newest(pair, seen) IN IF i \in expired THEN Algorithm ELSE i

\* put_item, unconditional; a put that fails to the end fails the job.
PutItem(pair) ==
  /\ decisions # << >> /\ Head(decisions) = pair
  /\ item' = [item EXCEPT ![pair] = ProcessElement(pair)]
  /\ decisions' = Tail(decisions)
  /\ UNCHANGED <<feed, offset, known, overrides, expired, changes, seen, kept>>

\* What a checkpoint saves; nothing is between the operators when the barrier has
\* passed them.
SaveState ==
  /\ decisions = << >> /\ (offset > 0 \/ seen > 0)
  /\ known' = Known(offset)
  /\ log' = SubSeq(log, offset + 1, Len(log))
  /\ kept' = [p \in Pairs |-> Newest(p, seen)]
  /\ changes' = SubSeq(changes, seen + 1, Len(changes)) /\ seen' = 0

\* Mutant: keeps counting records from the beginning of the topic.
CheckpointByIndex ==
  /\ SaveState /\ offset' = offset
  /\ UNCHANGED <<ingestor, stream, bridge, faults, decisions, overrides, expired, item>>

Checkpoint ==
  /\ SaveState /\ offset' = 0
  /\ UNCHANGED <<ingestor, stream, bridge, faults, decisions, overrides, expired, item>>

FailJob ==
  /\ Fault
  /\ offset' = 0 /\ seen' = 0 /\ decisions' = << >>
  /\ UNCHANGED <<ingestor, stream, bridge, log, known, overrides, expired, changes, kept, item>>

JobSteps == PriceNight \/ (\E p \in Pairs : PutItem(p))

Init == FeedInit /\ HotInit
Next ==
  \/ FeedNext /\ UNCHANGED hot
  \/ WriteOverride \/ Redeliver \/ Expire
  \/ ProcessBroadcastElement \/ JobSteps \/ Checkpoint \/ FailJob

\* The containers and the job are started again and make progress; overrides,
\* refusals and failures may or may not come.
Fairness ==
  /\ WF_vars((RunTick \/ PutRecords) /\ UNCHANGED hot)
  /\ WF_vars((StartBridge \/ (\E s \in Shards : PollShard(s)) \/ Republish) /\ UNCHANGED hot)
  /\ WF_vars(ProcessBroadcastElement) /\ WF_vars(JobSteps) /\ WF_vars(Checkpoint)
Spec == Init /\ [][Next]_vars
FairSpec == Spec /\ Fairness

----------------------------------------------------------------------------
(* Properties                                                                *)

Records == [segment : Market, night : Nights, channel : {"blended"} \union ToSet(Channels)]

\* The types of the variables, and that no position is past what it is a position of.
TypeOK ==
  /\ tick \in 0 .. ForecastDays - 1 /\ attempt \in 0..MaxRetries
  /\ pending \in Seq(Records) /\ inHand \in Seq(Records) /\ log \in Seq(Records)
  /\ stream \in [Shards -> Seq(Records)] /\ bridgeUp \in BOOLEAN
  /\ offset \in 0..Len(log) /\ known \subseteq Market \X Nights
  /\ decisions \in Seq(Pairs)
  /\ overrides \in Seq(Pairs) /\ expired \subseteq DOMAIN overrides
  /\ changes \in Seq(DOMAIN overrides) /\ seen \in 0..Len(changes)
  /\ kept \in [Pairs -> {Algorithm} \union DOMAIN overrides]
  /\ item \in [Pairs -> {None, Algorithm} \union DOMAIN overrides]
  /\ faults \in 0..MaxFaults

\* Whatever is dropped, missed and restarted on the way, every night of every
\* apartment is priced again and again (market_ingestor/main.py:35-38).
EveryNightIsRefreshed == \A p \in Pairs : []<><<PutItem(p)>>_vars

\* What should be published: the last override that was written, while it is valid.
LastWritten(pair) ==
  LET of == {i \in DOMAIN overrides : overrides[i] = pair}
  IN IF of = {} THEN Algorithm ELSE Max(of)
Due(pair) == LET i == LastWritten(pair) IN IF i \in expired THEN Algorithm ELSE i

\* Overrides and their expiry wait for the next decision of the night, a job that
\* fails puts old decisions and forgets overrides it had applied, and a row that
\* is sent again takes its entry back to an older override; in the end the item
\* is always what is due (dynamodb_sink.py:36, Stage C).
DueIsServed == \A p \in Pairs : <>[](item[p] = Due(p))

\* Nothing but rows it has still to read again takes an item back to an older
\* override: while Stage C has read all there are, a published override gives way
\* to a later one, or to the algorithm's price when it or a later one is expired,
\* whatever was sent twice, checkpointed and replayed before.
CaughtUpNeverGoesBack ==
  [][\A p \in Pairs : item[p] \in DOMAIN overrides /\ seen = Len(changes) =>
       \/ item'[p] \in DOMAIN overrides /\ item'[p] >= item[p]
       \/ item'[p] = Algorithm /\ \E i \in expired : i >= item[p] /\ overrides[i] = p]_vars
=============================================================================

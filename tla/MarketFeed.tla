------------------------------- MODULE MarketFeed -------------------------------
(***************************************************************************)
(* market-ingestor puts the rates of one night per tick into Kinesis, and  *)
(* kinesis-kafka-bridge carries them to the Kafka topic the job reads.     *)
(*                                                                         *)
(* Neither keeps a position: the ingestor begins its cycle of nights again *)
(* when it is restarted, the bridge begins at the newest record.  A record *)
(* is what it prices, [segment, night, channel]; rates and time stamps are *)
(* left out, and so are days that pass, which move all nights alike.       *)
(***************************************************************************)
EXTENDS Integers, Sequences, FiniteSets, SequencesExt

CONSTANTS
  Segments,        \* SEGMENTS, a sequence
  Channels,        \* the channels priced beside the blended rate, a sequence
  ForecastDays,    \* forecast_days
  Shards, ShardOf, \* shards of the stream, and where a partition key is put
  MaxRetries,      \* publish_max_retries
  MaxFaults,       \* bound: calls in which Kinesis refuses records, lost records, restarts, failures
  MaxQueue,        \* bound: records the bridge has not read, per shard
  MaxLog           \* bound: records of the topic since the last checkpoint

Nights == 1..ForecastDays
Market == {Segments[i] : i \in DOMAIN Segments}
ASSUME FeedAssumption ==
  /\ Segments \in Seq(Market) /\ Channels \in Seq(ToSet(Channels))
  /\ ForecastDays \in Nat \ {0} /\ MaxRetries \in Nat
  /\ ShardOf \in [Market -> Shards]
  /\ {MaxFaults, MaxQueue, MaxLog} \subseteq Nat

VARIABLES
  tick,      \* tick_count, of which only the night it gives is kept
  pending,   \* the records publish_batch has still to put
  attempt,   \* its retries
  stream,    \* per shard, what was put and is not read
  bridgeUp,
  inHand,    \* what the bridge has read and not sent
  log,       \* the Kafka topic, from the last checkpoint of the job on
  faults

ingestor == <<tick, pending, attempt>>
bridge == <<bridgeUp, inHand>>
feed == <<ingestor, stream, bridge, log, faults>>

Record(segment, night, channel) == [segment |-> segment, night |-> night, channel |-> channel]

FeedInit ==
  /\ tick = 0 /\ pending = << >> /\ attempt = 0
  /\ stream = [s \in Shards |-> << >>]
  /\ bridgeUp = TRUE /\ inHand = << >>
  /\ log = << >>
  /\ faults = 0

Fault == faults < MaxFaults /\ faults' = faults + 1

\* Mutant: counts from today, so the last night of the forecast is never priced.
NightOfFromToday(count) == count % ForecastDays

NightOf(count) == 1 + (count % ForecastDays)

\* The blended rate of a segment, then one per channel.
EventsOf(segment, night) ==
  <<Record(segment, night, "blended")>> \o [i \in DOMAIN Channels |-> Record(segment, night, Channels[i])]

RunTick ==
  /\ pending = << >> /\ attempt = 0
  /\ pending' = FlattenSeq([i \in DOMAIN Segments |-> EventsOf(Segments[i], NightOf(tick))])
  /\ UNCHANGED <<tick, attempt, stream, bridge, log, faults>>

\* The records at some indices, in their order.
Subseq(records, indices) ==
  LET kept[i \in 0..Len(records)] ==
        IF i = 0 THEN << >>
        ELSE IF i \in indices THEN Append(kept[i - 1], records[i]) ELSE kept[i - 1]
  IN kept[Len(records)]

\* One call of put_records: some records may be refused.  They alone are put
\* again, behind all others, until the retries are used up and they are dropped.
PutRecords ==
  /\ pending # << >>
  /\ \A s \in Shards : Len(stream[s]) < MaxQueue
  /\ \E refused \in SUBSET DOMAIN pending :
       LET accepted(s) ==
             {i \in DOMAIN pending \ refused : ShardOf[pending[i].segment] = s}
           over == refused = {} \/ attempt >= MaxRetries
       IN /\ IF refused = {} THEN UNCHANGED faults ELSE Fault
          /\ stream' = [s \in Shards |-> stream[s] \o Subseq(pending, accepted(s))]
          /\ pending' = IF over THEN << >> ELSE Subseq(pending, refused)
          /\ attempt' = IF over THEN 0 ELSE attempt + 1
          /\ tick' = IF over THEN (tick + 1) % ForecastDays ELSE tick
  /\ UNCHANGED <<bridge, log>>

\* A call that raises, or a kill: the cycle begins again.
RestartIngestor ==
  /\ Fault
  /\ tick' = 0 /\ pending' = << >> /\ attempt' = 0
  /\ UNCHANGED <<stream, bridge, log>>

----------------------------------------------------------------------------
\* At its start the bridge asks for what comes from now on.
StartBridge ==
  /\ ~ bridgeUp /\ bridgeUp' = TRUE
  /\ stream' = [s \in Shards |-> << >>]
  /\ UNCHANGED <<ingestor, inHand, log, faults>>

PollShard(s) ==
  /\ bridgeUp /\ inHand = << >> /\ stream[s] # << >>
  /\ inHand' = stream[s]
  /\ stream' = [stream EXCEPT ![s] = << >>]
  /\ UNCHANGED <<ingestor, bridgeUp, log, faults>>

\* producer.send() is asynchronous and its result is not looked at: a record
\* that Kafka does not take is gone, and the next one is sent.
Republish ==
  /\ inHand # << >> /\ inHand' = Tail(inHand)
  /\ \/ Len(log) < MaxLog /\ log' = Append(log, Head(inHand)) /\ UNCHANGED faults
     \/ Fault /\ UNCHANGED log
  /\ UNCHANGED <<ingestor, stream, bridgeUp>>

StopBridge ==
  /\ bridgeUp /\ Fault
  /\ bridgeUp' = FALSE /\ inHand' = << >>
  /\ UNCHANGED <<ingestor, stream, log>>

FeedSteps == RunTick \/ PutRecords \/ StartBridge \/ (\E s \in Shards : PollShard(s)) \/ Republish
FeedNext == FeedSteps \/ RestartIngestor \/ StopBridge
=============================================================================

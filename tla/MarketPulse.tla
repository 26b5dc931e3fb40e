------------------------------ MODULE MarketPulse ------------------------------
(***************************************************************************)
(* market-pulse-job counts bookings and averages market rates over         *)
(* tumbling windows of event time and stores one row per key and window.   *)
(* Three branches share this module: bookings created, bookings cancelled  *)
(* (both of the topic of bookings) and the market pulse.                   *)
(*                                                                         *)
(* Kafka, Flink and DynamoDB are external.  Event time is the time stamp   *)
(* of the Kafka record.  A pane is the state of one key and window, a row  *)
(* what was last stored for it; both are given by the records they count,  *)
(* so all panes are one set, and all rows another (counts, averages and    *)
(* profits follow from them and are left out).  A job that fails           *)
(* starts again from its last checkpoint, which has offsets, deduplication *)
(* state, lookups under way, panes and timers but no watermark.            *)
(***************************************************************************)
EXTENDS Integers, Sequences, FiniteSets, FiniteSetsExt

CONSTANTS
  Bookings, Apartments, ApartmentOf,
  Snapshots,       \* market prices: [segment, blended]; the rates are left out
  Partitions,      \* partitions of the market topic; that of bookings has one
  Window,          \* bookings_window_minutes, market_pulse_window_minutes
  OutOfOrderness,  \* watermark_out_of_orderness_seconds
  AllowedLateness, \* ALLOWED_LATENESS_MS
  Skews,           \* bound: how far a record's time stamp may lie behind the clock
  MaxTime,         \* bound: the clock
  MaxRecords,      \* bound: records published
  MaxFailures      \* bound: failures of the job

ASSUME TimesAssumption ==
  /\ Window \in Nat \ {0}
  /\ OutOfOrderness \in Nat
  /\ AllowedLateness \in Nat
  /\ Skews \subseteq Nat /\ MaxTime \in Nat /\ MaxRecords \in Nat /\ MaxFailures \in Nat

ASSUME InputsAssumption ==
  /\ ApartmentOf \in [Bookings -> Apartments]
  /\ \A s \in Snapshots : s.blended \in BOOLEAN
  /\ "bookings" \notin Partitions

VARIABLES
  now,         \* processing time
  topic,       \* records of every partition
  job,         \* what a checkpoint holds: offset, seen, pending, held, due
  saved,       \* the last checkpoint
  maxTime,     \* largest time stamp read of a partition since the job started
  watermark,   \* of each source
  rows,        \* the tables: what the stored rows count
  late,        \* what was logged as late
  highest,     \* largest watermark each source ever had
  counted,     \* all that a stored row ever counted
  failures

vars == <<now, topic, job, saved, maxTime, watermark, rows, late, highest, counted, failures>>

Sources == {"bookings", "market"}
AllPartitions == {"bookings"} \union Partitions
PartitionsOf(source) == IF source = "bookings" THEN {"bookings"} ELSE Partitions
SourceOf(branch) == IF branch = "pulse" THEN "market" ELSE "bookings"

\* An element is a record on its way through a branch: <<branch, partition, offset>>.
RecordOf(e) == topic[e[2]][e[3]]

\* Its key and window.
PaneOf(e) ==
  [branch |-> e[1],
   key |-> IF e[1] = "pulse" THEN RecordOf(e).snapshot.segment ELSE ApartmentOf[RecordOf(e).booking],
   start |-> (RecordOf(e).time \div Window) * Window]
InPanes(elements, panes) == {e \in elements : PaneOf(e) \in panes}

\* The time stamp of a state that was never written, and of a partition never read.
Never == -1
NoWatermark == Never - OutOfOrderness - 1

-------------------------------------------------------------------------------
(* The topics. *)

Published == MapThenSumSet(LAMBDA p : Len(topic[p]), AllPartitions)
TimeStamps == {now - k : k \in {skew \in Skews : skew <= now}}

\* A booking is inserted, updated or delivered again; it is never confirmed again.
PublishBooking(b) ==
  /\ Published < MaxRecords
  /\ \E t \in TimeStamps, c \in BOOLEAN :
       /\ (\E i \in DOMAIN topic["bookings"] :
             topic["bookings"][i].booking = b /\ topic["bookings"][i].cancelled) => c
       /\ topic' = [topic EXCEPT !["bookings"] =
                      Append(@, [booking |-> b, cancelled |-> c, time |-> t])]
  /\ UNCHANGED <<now, job, saved, maxTime, watermark, rows, late, highest, counted, failures>>

PublishSnapshot(s, p) ==
  /\ Published < MaxRecords
  /\ \E t \in TimeStamps : topic' = [topic EXCEPT ![p] = Append(@, [snapshot |-> s, time |-> t])]
  /\ UNCHANGED <<now, job, saved, maxTime, watermark, rows, late, highest, counted, failures>>

Tick ==
  /\ now < MaxTime
  /\ now' = now + 1
  /\ UNCHANGED <<topic, job, saved, maxTime, watermark, rows, late, highest, counted, failures>>

-------------------------------------------------------------------------------
(* Windows: TumblingEventTimeWindows, allowed_lateness, side_output_late_data. *)

LastInstant(x) == x.start + Window - 1
LatenessOf(x) == IF x.branch = "pulse" THEN 0 ELSE AllowedLateness
HasClosed(x, mark) == LastInstant(x) <= mark
IsCleared(x, mark) == LastInstant(x) + LatenessOf(x) <= mark
CurrentMark(x) == watermark[SourceOf(x.branch)]

\* put_item of the row of each of these panes, with what is held for it.
Stored(held, panes) == (rows \ InPanes(rows, panes)) \union InPanes(held, panes)
Stores(held, panes) == rows' = Stored(held, panes) /\ counted' = counted \union rows'

\* Element e reaches the windows of the job in state j: it is late, or its pane waits
\* for its timer, or has closed and is stored again.
EnterWindow(j, e) ==
  LET x == PaneOf(e)
  IN \/ /\ IsCleared(x, CurrentMark(x))
        /\ job' = j
        /\ late' = late \union ({e} \ {"pulse"} \X Partitions \X Nat)
        /\ UNCHANGED <<rows, counted>>
     \/ /\ ~HasClosed(x, CurrentMark(x))
        /\ job' = [j EXCEPT !.held = @ \union {e}, !.due = @ \union {x}]
        /\ UNCHANGED <<rows, counted, late>>
     \/ /\ HasClosed(x, CurrentMark(x)) /\ ~IsCleared(x, CurrentMark(x))
        /\ job' = [j EXCEPT !.held = @ \union {e}]
        /\ Stores(j.held \union {e}, {x})
        /\ UNCHANGED late

-------------------------------------------------------------------------------
(* The job. *)

\* DEDUP_TTL_MINUTES: the length of a window and its lateness, in processing time.
DedupTtl == Window + AllowedLateness

\* Mutant: Creation and cancellation share one descriptor.
FirstSeenShared(branch, b) ==
  job.seen["created"][b] = Never \/ job.seen["created"][b] + DedupTtl <= now

\* The ValueState of the booking is empty or has expired.
FirstSeen(branch, b) == job.seen[branch][b] = Never \/ job.seen[branch][b] + DedupTtl <= now

Takes(p) == [job EXCEPT !.offset[p] = @ + 1]
Unread(p) == job.offset[p] < Len(topic[p])
NextRecord(p) == topic[p][job.offset[p] + 1]
NotesTime(p) == maxTime' = [maxTime EXCEPT ![p] = Max({@, NextRecord(p).time})]

\* A booking is read: both deduplications see it at once, the created one starts a
\* lookup, the cancelled one hands it to its window.
ReadBooking ==
  LET p == "bookings"
      b == NextRecord(p).booking
      i == job.offset[p] + 1
      isNewCancellation == NextRecord(p).cancelled /\ FirstSeen("cancelled", b)
      created == IF FirstSeen("created", b)
                   THEN [Takes(p) EXCEPT !.seen["created"][b] = now, !.pending = @ \union {i}]
                   ELSE Takes(p)
  IN /\ Unread(p)
     /\ NotesTime(p)
     /\ \/ /\ isNewCancellation
           /\ EnterWindow([created EXCEPT !.seen["cancelled"][b] = now], <<"cancelled", p, i>>)
        \/ /\ ~isNewCancellation
           /\ job' = created
           /\ UNCHANGED <<rows, counted, late>>
     /\ UNCHANGED <<now, topic, saved, watermark, highest, failures>>

\* A lookup of the profit ends, in any order: with the item, without one, with an error
\* or a timeout; the booking goes on to its window, with its profit or without.
EndLookup(i) ==
  /\ i \in job.pending
  /\ EnterWindow([job EXCEPT !.pending = @ \ {i}], <<"created", "bookings", i>>)
  /\ UNCHANGED <<now, topic, saved, maxTime, watermark, highest, failures>>

\* A market price is read; the price of a channel is filtered out.
ReadSnapshot(p) ==
  /\ Unread(p)
  /\ NotesTime(p)
  /\ \/ /\ NextRecord(p).snapshot.blended
        /\ EnterWindow(Takes(p), <<"pulse", p, job.offset[p] + 1>>)
     \/ /\ ~NextRecord(p).snapshot.blended
        /\ job' = Takes(p)
        /\ UNCHANGED <<rows, counted, late>>
  /\ UNCHANGED <<now, topic, saved, watermark, highest, failures>>

\* The watermarks a source may emit next: the least of its partitions, but for those
\* that have been read to their end and count as idle.  A watermark does not overtake
\* a lookup that began before it.
NextWatermarks(source) ==
  {mark \in {Min({maxTime[p] : p \in active}) - OutOfOrderness - 1 :
               active \in {a \in SUBSET PartitionsOf(source) :
                             a # {} /\ \A p \in PartitionsOf(source) \ a : ~Unread(p)}} :
     mark > watermark[source] /\ (source = "bookings" => job.pending = {})}

Passes(source, mark) == highest' = [highest EXCEPT ![source] = Max({@, mark})]
Fired(source, mark) == {x \in job.due : SourceOf(x.branch) = source /\ HasClosed(x, mark)}
\* Mutant: A pane is cleared when it is fired, lateness or not.
ClearedWhenFired(source, mark) == Fired(source, mark)

\* Mutant: The watermark of one source clears the panes of the other.
ClearedByAnySource(source, mark) == {x \in {PaneOf(e) : e \in job.held} : IsCleared(x, mark)}

Cleared(source, mark) ==
  {x \in {PaneOf(e) : e \in job.held} : SourceOf(x.branch) = source /\ IsCleared(x, mark)}

\* A watermark passes the operators: due panes are stored, those past their lateness
\* are cleared.
AdvanceWatermark(source) ==
  /\ \E mark \in NextWatermarks(source) :
       /\ watermark' = [watermark EXCEPT ![source] = mark]
       /\ Passes(source, mark)
       /\ Stores(job.held, Fired(source, mark))
       /\ job' = [job EXCEPT !.due = @ \ Fired(source, mark),
                             !.held = @ \ InPanes(@, Cleared(source, mark))]
  /\ UNCHANGED <<now, topic, saved, maxTime, late, failures>>

\* (A checkpoint that no failure goes back to is left out.)
Checkpoint ==
  /\ saved # job
  /\ failures < MaxFailures
  /\ saved' = job
  /\ UNCHANGED <<now, topic, job, maxTime, watermark, rows, late, highest, counted, failures>>

\* The job fails and starts again: a process is lost, or the fourth attempt at a put
\* raises after other rows of the same watermark were stored.
Fail ==
  /\ failures < MaxFailures
  /\ failures' = failures + 1
  /\ \/ UNCHANGED <<rows, counted, highest>>
     \/ \E source \in Sources : \E mark \in NextWatermarks(source) :
          /\ \E panes \in SUBSET Fired(source, mark) : Stores(job.held, panes)
          /\ Passes(source, mark)
  /\ job' = saved
  /\ maxTime' = [p \in AllPartitions |-> Never]
  /\ watermark' = [s \in Sources |-> NoWatermark]
  /\ UNCHANGED <<now, topic, saved, late>>

JobStep ==
  \/ ReadBooking
  \/ \E i \in job.pending : EndLookup(i)
  \/ \E p \in Partitions : ReadSnapshot(p)
  \/ \E s \in Sources : AdvanceWatermark(s)

-------------------------------------------------------------------------------
Init ==
  /\ now = 0
  /\ topic = [p \in AllPartitions |-> <<>>]
  /\ job = [offset |-> [p \in AllPartitions |-> 0],
            seen |-> [k \in {"created", "cancelled"} |-> [b \in Bookings |-> Never]],
            pending |-> {}, held |-> {}, due |-> {}]
  /\ saved = job
  /\ maxTime = [p \in AllPartitions |-> Never]
  /\ watermark = [s \in Sources |-> NoWatermark]
  /\ rows = {}
  /\ late = {}
  /\ highest = watermark
  /\ counted = {}
  /\ failures = 0

Next ==
  \/ \E b \in Bookings : PublishBooking(b)
  \/ \E s \in Snapshots, p \in Partitions : PublishSnapshot(s, p)
  \/ Tick
  \/ JobStep
  \/ Checkpoint
  \/ Fail

Spec == Init /\ [][Next]_vars

-------------------------------------------------------------------------------
(* Properties *)

Branches == {"created", "cancelled"}
Elements ==
  Branches \X {"bookings"} \X (Nat \ {0}) \union {"pulse"} \X Partitions \X (Nat \ {0})

RecordsOf(p) ==
  IF p = "bookings" THEN [booking : Bookings, cancelled : BOOLEAN, time : 0 .. now]
                    ELSE [snapshot : Snapshots, time : 0 .. now]

\* What a checkpoint holds refers to records before its offsets, and what waits for
\* a timer is held.
JobTypeOK(j) ==
  /\ j \in [offset : [AllPartitions -> Nat],
            seen : [Branches -> [Bookings -> {Never} \union 0 .. now]],
            pending : SUBSET (1 .. j.offset["bookings"]),
            held : SUBSET Elements,
            due : SUBSET {PaneOf(e) : e \in j.held}]
  /\ \A p \in AllPartitions : j.offset[p] <= Len(topic[p])
  /\ \A e \in j.held : e[3] <= j.offset[e[2]]

\* The types of the variables; no watermark runs ahead of the clock.
TypeOK ==
  /\ now \in 0 .. MaxTime /\ failures \in 0 .. MaxFailures
  /\ DOMAIN topic = AllPartitions /\ \A p \in AllPartitions : topic[p] \in Seq(RecordsOf(p))
  /\ JobTypeOK(job) /\ JobTypeOK(saved)
  /\ maxTime \in [AllPartitions -> {Never} \union 0 .. now]
  /\ watermark \in [Sources -> Int] /\ highest \in [Sources -> Int]
  /\ \A s \in Sources : NoWatermark <= watermark[s] /\ watermark[s] <= highest[s] /\ highest[s] <= now
  /\ rows \subseteq counted
  /\ counted \union late \subseteq Elements /\ \A e \in counted \union late : e[3] <= Len(topic[e[2]])

\* The first record of a booking, or the first that cancels it: no deduplication
\* drops it, in whatever state it is read.
FirstOf(branch, i) ==
  /\ i \in DOMAIN topic["bookings"]
  /\ branch = "cancelled" => topic["bookings"][i].cancelled
  /\ \A h \in 1 .. i - 1 :
       topic["bookings"][h].booking = topic["bookings"][i].booking =>
         branch = "cancelled" /\ ~topic["bookings"][h].cancelled

\* The job takes e whenever it reads it.
AlwaysTaken(e) == e[1] = "pulse" \/ FirstOf(e[1], e[3])

\* The job has read e, again if it failed since, and its watermark is as far as ever.
Knows(e) ==
  /\ watermark[SourceOf(e[1])] = highest[SourceOf(e[1])]
  /\ e[3] <= job.offset[e[2]]
  /\ ~(e[1] = "created" /\ e[3] \in job.pending)

\* A stored row never loses a record it counts, however late records, timers and the
\* clearing of panes fall, except while a job that was started again has its watermark
\* to regain or the record to read again: until then it knows neither which windows
\* were closed nor all they held (ALLOWED_LATENESS_MS, put_item).  A record that was
\* counted although the booking had been seen, which a reader who is quicker the
\* second time drops, is safe as long as the job has not failed.
RowsOnlyGrow ==
  [][\A e \in rows : Knows(e) /\ (failures = 0 \/ AlwaysTaken(e)) => e \in rows']_vars

\* The first record of every booking, and the first that cancels it whatever was seen
\* before, has been in the row of its window or is in the log of late ones as soon as
\* the job has read a booking that closes the window and has no lookup or watermark
\* left to pass on; also when it has failed and reads its topic again, but then it
\* takes another such booking, for event time starts over (dedup, unordered_wait,
\* windows).  Whether it is in the row still is what RowsOnlyGrow says.
ClosedMeansStored ==
  NextWatermarks("bookings") = {} /\ job.pending = {} =>
    \A branch \in Branches, i \in 1 .. job.offset["bookings"] :
      LET e == <<branch, "bookings", i>>
      IN FirstOf(branch, i) /\ HasClosed(PaneOf(e), maxTime["bookings"] - OutOfOrderness - 1)
           => e \in counted \union late

\* BookingCreatedDedupFunction: "redelivery of the same booking never passes through
\* twice"; a booking is counted as created in one window only.
CreatedOnce ==
  \A e, f \in {g \in rows : g[1] = "created"} : RecordOf(e).booking = RecordOf(f).booking => e = f
===============================================================================

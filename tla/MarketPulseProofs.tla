--------------------------- MODULE MarketPulseProofs ---------------------------
(***************************************************************************)
(* What the market pulse job guarantees for any topics, windows, lateness, *)
(* partitions and failures: what it read and closed was stored or logged,  *)
(* and a stored row loses nothing that the job knows of.  The records that *)
(* no deduplication drops carry both proofs: each of them is held, waits   *)
(* for its lookup or lies in a pane that some watermark has cleared, in    *)
(* the running job and in the checkpoint alike (Known).                    *)
(***************************************************************************)
EXTENDS MarketPulse, TLAPS, WellFoundedInduction

\* A record that its branch lets through.
Passing(e) == e[1] = "pulse" => RecordOf(e).snapshot.blended

\* A booking the job has seen is one it has read.
SeenIsRead(j) ==
  \A k \in Branches, b \in Bookings :
    j.seen[k][b] # Never =>
      \E h \in 1 .. j.offset["bookings"] :
        topic["bookings"][h].booking = b /\ (k = "cancelled" => topic["bookings"][h].cancelled)

\* Records that are always taken and that the job has read.
Settled(j) == {e \in Elements : e[3] <= j.offset[e[2]] /\ AlwaysTaken(e) /\ Passing(e)}
AwaitsLookup(j, e) == e[1] = "created" /\ e[3] \in j.pending
GoneBy(e, marks) == IsCleared(PaneOf(e), marks[SourceOf(e[1])])
IsGone(e) == GoneBy(e, highest)

\* The job holds them, unless a watermark has cleared their pane.
Known(j) == \A e \in Settled(j) : e \in j.held \/ AwaitsLookup(j, e) \/ IsGone(e)

\* Bookings among them are stored or logged, or wait for a timer.
Stays(j) ==
  \A e \in Settled(j) :
    e[1] # "pulse" =>
      \/ e \in counted \union late
      \/ e \in j.held /\ PaneOf(e) \in j.due
      \/ AwaitsLookup(j, e)

\* A pane that waits for its timer has not closed.
DueIsOpen == \A x \in job.due : ~HasClosed(x, CurrentMark(x))

\* A job that never failed holds all it stored.
NothingForgotten == failures = 0 => \A e \in rows : e \in job.held \/ IsGone(e)

JobOK(j) ==
  /\ SeenIsRead(j)
  /\ \A e \in j.held : Passing(e)
  /\ Known(j)
  /\ Stays(j)

PulseInv ==
  /\ TypeOK
  /\ JobOK(job) /\ JobOK(saved)
  /\ \A e \in counted : Passing(e)
  /\ DueIsOpen
  /\ NothingForgotten

\* Element e has gone from the job's hands into its windows.
HandedOn(e) ==
  /\ e \in job'.held \/ GoneBy(e, highest')
  /\ e[1] # "pulse" => e \in counted' \union late' \/ (e \in job'.held /\ PaneOf(e) \in job'.due)

\* What every step of the job does to the elements.
Progress ==
  /\ topic' = topic
  /\ \A s \in Sources : highest[s] <= highest'[s]
  /\ counted \subseteq counted' /\ late \subseteq late' /\ rows' \subseteq counted'
  /\ \A e \in late' : e \in late \/ (e \in Elements /\ e[3] <= Len(topic[e[2]]))
  /\ counted' \subseteq counted \union job.held \union job'.held
  /\ rows' \subseteq rows \union job.held \union job'.held
  /\ \A e \in job'.held \ job.held : Passing(e)
  /\ \A e \in job.held : e \in job'.held \/ GoneBy(e, highest')
  /\ \A e \in job.held : PaneOf(e) \in job.due =>
       e \in counted' \/ (e \in job'.held /\ PaneOf(e) \in job'.due)
  /\ \A e \in Settled(job') : e \in Settled(job) \/ AwaitsLookup(job', e) \/ HandedOn(e)
  /\ \A e \in Settled(job) : AwaitsLookup(job, e) => AwaitsLookup(job', e) \/ HandedOn(e)
  /\ \A f \in rows \ rows' : f \notin job.held /\ ~GoneBy(f, watermark)
  /\ \A x \in job'.due : ~HasClosed(x, watermark'[SourceOf(x.branch)])
  /\ SeenIsRead(job')

-------------------------------------------------------------------------------
(* Least and largest elements. *)

\* A set of time stamps and of Never has a least element.
LEMMA LeastOf ==
  ASSUME NEW S, S # {}, S \subseteq Nat \union {Never}
  PROVE  /\ Min(S) \in S
         /\ \A x \in S : Min(S) <= x
<1> DEFINE Less == {ss \in Nat \X Nat : ss[1] < ss[2]}
           T == {x + 1 : x \in S}
<1>1. IsWellFoundedOn(Less, Nat)
  BY NatLessThanWellFounded DEF OpToRel
<1>2. T \subseteq Nat /\ T # {}
  <2>1. \A x \in S : x + 1 \in Nat
    BY DEF Never
  <2> QED BY <2>1
<1>3. \E y \in T : \A z \in T : ~ (<<z, y>> \in Less)
  <2> HIDE DEF T, Less
  <2> QED BY <1>1, <1>2, WFMin
<1>4. PICK y \in T : \A z \in T : ~ (<<z, y>> \in Less)
  BY <1>3
<1>5. PICK m \in S : y = m + 1
  OBVIOUS
<1>6. \A x \in S : m <= x
  <2> SUFFICES ASSUME NEW x \in S PROVE m <= x
    OBVIOUS
  <2>1. x + 1 \in T /\ x + 1 \in Nat /\ m + 1 \in Nat
    BY DEF Never
  <2>2. ~ (x + 1 < m + 1)
    BY <2>1, <1>4, <1>5
  <2> QED BY <2>1, <2>2, <1>5 DEF Never
<1> QED BY <1>5, <1>6 DEF Min

LEMMA LargerOf ==
  ASSUME NEW a \in Int, NEW b \in Int
  PROVE  Max({a, b}) \in {a, b} /\ Max({a, b}) >= a /\ Max({a, b}) >= b
<1>1. \E x \in {a, b} : \A y \in {a, b} : x >= y
  <2>1. CASE a >= b
    BY <2>1
  <2>2. CASE ~ (a >= b)
    BY <2>2
  <2> QED BY <2>1, <2>2
<1> QED BY <1>1 DEF Max

-------------------------------------------------------------------------------
(* The windows. *)

JobRecord(j) ==
  /\ j = [offset |-> j.offset, seen |-> j.seen, pending |-> j.pending, held |-> j.held, due |-> j.due]
  /\ j.offset \in [AllPartitions -> Nat]
  /\ j.seen \in [Branches -> [Bookings -> {Never} \union 0 .. now]]

LEMMA JobFields ==
  ASSUME NEW j, JobTypeOK(j)
  PROVE  /\ JobRecord(j)
         /\ j.pending \subseteq 1 .. j.offset["bookings"]
         /\ j.held \subseteq Elements
         /\ j.due \subseteq {PaneOf(e) : e \in j.held}
         /\ \A p \in AllPartitions : j.offset[p] <= Len(topic[p])
         /\ \A e \in j.held : e[3] <= j.offset[e[2]]
BY DEF JobTypeOK, JobRecord

LEMMA ElementFacts ==
  ASSUME NEW e \in Elements
  PROVE  /\ e = <<e[1], e[2], e[3]>>
         /\ e[1] \in Branches \union {"pulse"} /\ e[2] \in AllPartitions /\ e[3] \in Nat \ {0}
         /\ e[1] # "pulse" => e[2] = "bookings" /\ e \notin {"pulse"} \X Partitions \X Nat
         /\ e[1] = "pulse" => e[2] \in Partitions /\ e \in {"pulse"} \X Partitions \X Nat
         /\ SourceOf(e[1]) \in Sources /\ e[2] \in PartitionsOf(SourceOf(e[1]))
BY DEF Elements, Branches, AllPartitions, SourceOf, Sources, PartitionsOf

\* What becomes of an element that reaches the windows, and of the rest.
LEMMA EnterWindowFacts ==
  ASSUME NEW j, NEW e \in Elements, JobRecord(j), EnterWindow(j, e)
  PROVE  /\ JobRecord(job')
         /\ job'.offset = j.offset /\ job'.seen = j.seen /\ job'.pending = j.pending
         /\ j.held \subseteq job'.held /\ job'.held \subseteq j.held \union {e}
         /\ j.due \subseteq job'.due /\ job'.due \subseteq j.due \union {PaneOf(e)}
         /\ PaneOf(e) \in job'.due \ j.due =>
              e \in job'.held /\ ~HasClosed(PaneOf(e), CurrentMark(PaneOf(e)))
         /\ e \in job'.held \/ IsCleared(PaneOf(e), CurrentMark(PaneOf(e)))
         /\ e[1] # "pulse" =>
              \/ e \in counted' \union late'
              \/ e \in job'.held /\ PaneOf(e) \in job'.due
         /\ late' \in {late, late \union {e}}
         /\ \/ rows' = rows /\ counted' = counted
            \/ /\ rows' \subseteq rows \union job'.held
               /\ counted' = counted \union rows'
               /\ \A f \in rows \ rows' :
                    f \notin job'.held /\ ~IsCleared(PaneOf(f), CurrentMark(PaneOf(f)))
<1> DEFINE x == PaneOf(e)
<1>1. e[1] # "pulse" => e \notin {"pulse"} \X Partitions \X Nat
  BY ElementFacts
<1>2. CASE IsCleared(x, CurrentMark(x)) /\ job' = j /\ UNCHANGED <<rows, counted>>
           /\ late' = late \union ({e} \ {"pulse"} \X Partitions \X Nat)
  <2> HIDE DEF x
  <2> QED BY <1>1, <1>2 DEF x
<1>3. CASE ~HasClosed(x, CurrentMark(x)) /\ UNCHANGED <<rows, counted, late>>
           /\ job' = [j EXCEPT !.held = @ \union {e}, !.due = @ \union {x}]
  <2>1. JobRecord(job')
        /\ job'.offset = j.offset /\ job'.seen = j.seen /\ job'.pending = j.pending
        /\ job'.held = j.held \union {e} /\ job'.due = j.due \union {x}
    BY <1>3 DEF JobRecord
  <2> QED BY <2>1, <1>3
<1>4. CASE /\ HasClosed(x, CurrentMark(x)) /\ ~IsCleared(x, CurrentMark(x)) /\ UNCHANGED late
           /\ job' = [j EXCEPT !.held = @ \union {e}]
           /\ Stores(j.held \union {e}, {x})
  <2>1. JobRecord(job')
        /\ job'.offset = j.offset /\ job'.seen = j.seen /\ job'.pending = j.pending
        /\ job'.held = j.held \union {e} /\ job'.due = j.due
    BY <1>4 DEF JobRecord
  <2>2. /\ rows' \subseteq rows \union job'.held
        /\ \A f \in rows \ rows' : f \notin job'.held /\ PaneOf(f) = x
        /\ e \in rows'
    BY <1>4, <2>1 DEF Stores, Stored, InPanes
  <2>3. counted' = counted \union rows'
    BY <1>4 DEF Stores
  <2> QED BY <2>1, <2>2, <2>3, <1>4
<1> QED BY <1>2, <1>3, <1>4 DEF EnterWindow

\* Panes start at or after time zero; their branch is that of their elements.
LEMMA PaneFacts ==
  ASSUME TypeOK, NEW e \in Elements, e[3] <= Len(topic[e[2]])
  PROVE  /\ PaneOf(e).branch = e[1]
         /\ CurrentMark(PaneOf(e)) = watermark[SourceOf(e[1])]
         /\ LastInstant(PaneOf(e)) \in Nat
         /\ LatenessOf(PaneOf(e)) \in Nat
<1>1. RecordOf(e) \in RecordsOf(e[2])
  <2>1. topic[e[2]] \in Seq(RecordsOf(e[2])) /\ e[3] \in 1 .. Len(topic[e[2]])
    BY ElementFacts DEF TypeOK
  <2> QED BY <2>1 DEF RecordOf
<1>2. RecordOf(e).time \in Nat
  <2>1. now \in Nat
    BY TimesAssumption DEF TypeOK
  <2> QED BY <1>1, <2>1 DEF RecordsOf
<1> DEFINE k == RecordOf(e).time \div Window
<1>3. k \in Nat
  BY <1>2, TimesAssumption
<1>4. k * Window \in Nat
  <2> HIDE DEF k
  <2> QED BY <1>3, TimesAssumption
<1>5. PaneOf(e).branch = e[1] /\ PaneOf(e).start = k * Window
  BY DEF PaneOf
<1> HIDE DEF k
<1>6. LastInstant(PaneOf(e)) \in Nat
  BY <1>4, <1>5, TimesAssumption DEF LastInstant
<1>7. LatenessOf(PaneOf(e)) \in Nat
  BY TimesAssumption DEF LatenessOf
<1> QED BY <1>5, <1>6, <1>7 DEF CurrentMark

\* A pane that is cleared has closed, and stays closed and cleared.
LEMMA ClearedFacts ==
  ASSUME TypeOK, NEW e \in Elements, e[3] <= Len(topic[e[2]]),
         NEW m \in Int, NEW n \in Int, m <= n
  PROVE  /\ IsCleared(PaneOf(e), m) => HasClosed(PaneOf(e), m)
         /\ IsCleared(PaneOf(e), m) => IsCleared(PaneOf(e), n)
         /\ HasClosed(PaneOf(e), m) => HasClosed(PaneOf(e), n)
         /\ ~HasClosed(PaneOf(e), NoWatermark)
<1>1. NoWatermark \in Int /\ NoWatermark < 0
  BY TimesAssumption DEF NoWatermark, Never
<1> QED BY <1>1, PaneFacts DEF IsCleared, HasClosed

LEMMA WatermarkFacts ==
  ASSUME TypeOK, NEW s \in Sources, NEW mark \in NextWatermarks(s)
  PROVE  mark \in Int /\ watermark[s] < mark /\ mark <= now
<1>1. PICK active \in SUBSET PartitionsOf(s) :
        active # {} /\ mark = Min({maxTime[p] : p \in active}) - OutOfOrderness - 1
  BY DEF NextWatermarks
<1>2. \A p \in active : maxTime[p] \in Nat \union {Never} /\ maxTime[p] <= now
  <2>1. now \in Nat
    BY TimesAssumption DEF TypeOK
  <2>2. active \subseteq AllPartitions
    BY DEF PartitionsOf, AllPartitions
  <2> QED BY <2>1, <2>2 DEF TypeOK, Never
<1> DEFINE least == Min({maxTime[p] : p \in active})
<1>3. least \in {maxTime[p] : p \in active}
  <2>1. {maxTime[p] : p \in active} # {} /\ {maxTime[p] : p \in active} \subseteq Nat \union {Never}
    BY <1>1, <1>2
  <2> QED BY <2>1, LeastOf
<1>4. least \in Int /\ least <= now
  BY <1>2, <1>3 DEF Never
<1>5. mark = least - OutOfOrderness - 1
  BY <1>1
<1> HIDE DEF least
<1>6. mark > watermark[s]
  BY DEF NextWatermarks
<1>7. now \in Int
  BY DEF TypeOK
<1> QED BY <1>4, <1>5, <1>6, <1>7, TimesAssumption DEF TypeOK

\* The largest watermark is raised to the new one.
LEMMA PassesFacts ==
  ASSUME TypeOK, NEW s \in Sources, NEW mark \in NextWatermarks(s), Passes(s, mark)
  PROVE  /\ highest' \in [Sources -> Int]
         /\ \A r \in Sources : highest[r] <= highest'[r] /\ highest'[r] <= now
         /\ mark <= highest'[s]
<1>1. mark \in Int /\ mark <= now /\ highest[s] \in Int /\ highest[s] <= now
  BY WatermarkFacts DEF TypeOK
<1> DEFINE m == Max({highest[s], mark})
<1>2. m \in Int /\ m <= now /\ m >= highest[s] /\ m >= mark
  BY <1>1, LargerOf
<1>3. highest' = [highest EXCEPT ![s] = m]
  BY DEF Passes
<1> HIDE DEF m
<1>4. now \in Int /\ highest \in [Sources -> Int] /\ \A r \in Sources : highest[r] <= now
  BY DEF TypeOK
<1> QED BY <1>2, <1>3, <1>4

-------------------------------------------------------------------------------
(* The steps of the job. *)

\* What reaches the windows while the watermarks stand still.
WindowsKeep ==
  /\ job.held \subseteq job'.held /\ job.due \subseteq job'.due
  /\ late \subseteq late' /\ counted' = counted \union rows'
  /\ rows' \subseteq rows \union job'.held
  /\ \A e \in job'.held \ job.held : Passing(e)
  /\ \A f \in rows \ rows' : f \notin job'.held /\ ~GoneBy(f, watermark)
  /\ \A x \in job'.due : ~HasClosed(x, CurrentMark(x))

LEMMA Entering ==
  ASSUME TypeOK, DueIsOpen, UNCHANGED <<topic, watermark, highest>>,
         NEW e \in Elements, e[3] <= Len(topic[e[2]]), Passing(e),
         NEW j, JobRecord(j), j.held = job.held, j.due = job.due, EnterWindow(j, e)
  PROVE  /\ HandedOn(e)
         /\ WindowsKeep
         /\ job'.held \subseteq job.held \union {e} /\ late' \subseteq late \union {e}
         /\ job'.due \subseteq {PaneOf(f) : f \in job'.held}
<1>1. /\ job.held \subseteq job'.held /\ job'.held \subseteq job.held \union {e}
      /\ e \in job'.held \/ GoneBy(e, watermark)
  <2>1. /\ j.held \subseteq job'.held /\ job'.held \subseteq j.held \union {e}
        /\ e \in job'.held \/ IsCleared(PaneOf(e), CurrentMark(PaneOf(e)))
    BY EnterWindowFacts
  <2> QED BY <2>1, PaneFacts DEF GoneBy
<1>2. GoneBy(e, watermark) => GoneBy(e, highest')
  <2>1. SourceOf(e[1]) \in Sources
    BY ElementFacts
  <2> QED BY <2>1, ClearedFacts DEF TypeOK, GoneBy
<1>3. HandedOn(e)
  BY <1>1, <1>2, EnterWindowFacts DEF HandedOn
<1>4. \A f \in rows \ rows' : f \notin job'.held /\ ~GoneBy(f, watermark)
  <2> SUFFICES ASSUME NEW f \in rows \ rows' PROVE f \notin job'.held /\ ~GoneBy(f, watermark)
    OBVIOUS
  <2>1. f \in Elements /\ f[3] <= Len(topic[f[2]])
    BY DEF TypeOK
  <2>2. f \notin job'.held /\ ~IsCleared(PaneOf(f), CurrentMark(PaneOf(f)))
    BY EnterWindowFacts
  <2> QED BY <2>1, <2>2, PaneFacts DEF GoneBy
<1>5. late \subseteq late' /\ late' \subseteq late \union {e}
      /\ rows' \subseteq rows \union job'.held /\ counted' = counted \union rows'
  BY EnterWindowFacts DEF TypeOK
<1>6. /\ job.due \subseteq job'.due
      /\ \A x \in job'.due :
           \/ x \in job.due
           \/ x = PaneOf(e) /\ e \in job'.held /\ ~HasClosed(x, CurrentMark(x))
  <2>1. /\ j.due \subseteq job'.due /\ job'.due \subseteq j.due \union {PaneOf(e)}
        /\ PaneOf(e) \in job'.due \ j.due =>
             e \in job'.held /\ ~HasClosed(PaneOf(e), CurrentMark(PaneOf(e)))
    BY EnterWindowFacts
  <2> QED BY <2>1
<1>7. job'.due \subseteq {PaneOf(f) : f \in job'.held}
  <2>1. job.due \subseteq {PaneOf(f) : f \in job.held}
    BY JobFields DEF TypeOK
  <2> QED BY <2>1, <1>1, <1>6
<1>8. WindowsKeep
  BY <1>1, <1>4, <1>5, <1>6 DEF WindowsKeep, DueIsOpen
<1> QED BY <1>1, <1>3, <1>5, <1>7, <1>8

\* Nothing reaches the windows.
LEMMA NotEntering ==
  ASSUME TypeOK, DueIsOpen, job'.held = job.held, job'.due = job.due, UNCHANGED <<rows, counted, late>>
  PROVE  WindowsKeep
BY DEF WindowsKeep, DueIsOpen, TypeOK

\* What a step of the job does to its types.
JobTypes(j) ==
  /\ JobRecord(j)
  /\ j.pending \subseteq 1 .. j.offset["bookings"]
  /\ j.held \subseteq Elements
  /\ j.due \subseteq {PaneOf(e) : e \in j.held}
  /\ \A p \in AllPartitions : j.offset[p] <= Len(topic[p])
  /\ \A e \in j.held : e[3] <= j.offset[e[2]]

LEMMA NextRecordFacts ==
  ASSUME TypeOK, NEW p \in AllPartitions, Unread(p)
  PROVE  /\ job.offset[p] + 1 \in 1 .. Len(topic[p]) /\ job.offset[p] + 1 \in Nat \ {0}
         /\ NextRecord(p) \in RecordsOf(p)
         /\ NextRecord(p) = topic[p][job.offset[p] + 1]
<1>1. JobRecord(job) /\ topic[p] \in Seq(RecordsOf(p))
  BY JobFields DEF TypeOK
<1>2. job.offset[p] \in Nat /\ job.offset[p] < Len(topic[p]) /\ Len(topic[p]) \in Nat
  BY <1>1 DEF JobRecord, Unread
<1> QED BY <1>1, <1>2 DEF NextRecord

LEMMA ElementsOfBranches ==
  ASSUME NEW i \in Nat \ {0}
  PROVE  /\ \A k \in Branches : <<k, "bookings", i>> \in Elements
         /\ \A p \in Partitions : <<"pulse", p, i>> \in Elements
BY DEF Elements

\* A booking is read.
LEMMA ReadBookingFacts ==
  ASSUME PulseInv, ReadBooking
  PROVE  Progress /\ JobTypes(job')
<1> DEFINE p == "bookings"
           i == job.offset[p] + 1
           r == NextRecord(p)
           e == <<"cancelled", p, i>>
           isNew == r.cancelled /\ FirstSeen("cancelled", r.booking)
           created == IF FirstSeen("created", r.booking)
                        THEN [Takes(p) EXCEPT !.seen["created"][r.booking] = now,
                                              !.pending = @ \union {i}]
                        ELSE Takes(p)
           counting == [created EXCEPT !.seen["cancelled"][r.booking] = now]
<1>1. /\ UNCHANGED <<now, topic, saved, watermark, highest, failures>>
      /\ Unread(p)
      /\ \/ isNew /\ EnterWindow(counting, e)
         \/ ~isNew /\ job' = created /\ UNCHANGED <<rows, counted, late>>
  BY DEF ReadBooking
<1>2. TypeOK /\ DueIsOpen /\ JobRecord(job) /\ SeenIsRead(job) /\ JobTypes(job)
  BY JobFields DEF PulseInv, TypeOK, JobOK, JobTypes
<1>3. /\ p \in AllPartitions /\ i \in 1 .. Len(topic[p]) /\ i \in Nat \ {0}
      /\ r \in [booking : Bookings, cancelled : BOOLEAN, time : 0 .. now] /\ r = topic[p][i]
  <2>1. p \in AllPartitions
    BY DEF AllPartitions
  <2> QED BY <2>1, <1>1, <1>2, NextRecordFacts DEF RecordsOf
<1>4. e \in Elements /\ e[3] <= Len(topic[e[2]]) /\ Passing(e)
  <2>1. e \in Elements
    BY <1>3, ElementsOfBranches DEF Branches
  <2> QED BY <2>1, <1>3 DEF Passing
<1>5. now \in 0 .. now
  BY <1>2, TimesAssumption DEF TypeOK
<1>6. /\ JobRecord(created)
      /\ created.offset = [job.offset EXCEPT ![p] = i]
      /\ created.held = job.held /\ created.due = job.due
      /\ job.pending \subseteq created.pending /\ created.pending \subseteq job.pending \union {i}
      /\ FirstSeen("created", r.booking) => i \in created.pending
      /\ \A k \in Branches, b \in Bookings :
           created.seen[k][b] = job.seen[k][b] \/ (k = "created" /\ b = r.booking)
  <2>1. CASE FirstSeen("created", r.booking)
    <3>1. created = [offset |-> [job.offset EXCEPT ![p] = i],
                     seen |-> [job.seen EXCEPT !["created"][r.booking] = now],
                     pending |-> job.pending \union {i},
                     held |-> job.held, due |-> job.due]
      BY <2>1, <1>2 DEF JobRecord, Takes
    <3> HIDE DEF created, r, i
    <3> QED BY <3>1, <2>1, <1>2, <1>3, <1>5 DEF JobRecord, Branches
  <2>2. CASE ~FirstSeen("created", r.booking)
    <3>1. created = [offset |-> [job.offset EXCEPT ![p] = i], seen |-> job.seen,
                     pending |-> job.pending, held |-> job.held, due |-> job.due]
      BY <2>2, <1>2 DEF JobRecord, Takes
    <3> HIDE DEF created, r, i
    <3> QED BY <3>1, <2>2, <1>2, <1>3 DEF JobRecord
  <2> QED BY <2>1, <2>2
<1>7. /\ JobRecord(counting)
      /\ counting.offset = created.offset /\ counting.pending = created.pending
      /\ counting.held = job.held /\ counting.due = job.due
      /\ \A k \in Branches, b \in Bookings :
           counting.seen[k][b] = created.seen[k][b] \/ (k = "cancelled" /\ b = r.booking)
  <2> DEFINE seen == [created.seen EXCEPT !["cancelled"][r.booking] = now]
  <2>1. counting = [created EXCEPT !.seen = seen]
    OBVIOUS
  <2> HIDE DEF created, counting, r
  <2>2. seen \in [Branches -> [Bookings -> {Never} \union 0 .. now]]
    BY <1>3, <1>5, <1>6 DEF JobRecord, Branches
  <2>3. \A k \in Branches, b \in Bookings :
          seen[k][b] = created.seen[k][b] \/ (k = "cancelled" /\ b = r.booking)
    BY <1>6 DEF JobRecord, Branches
  <2> HIDE DEF seen
  <2> QED BY <2>1, <2>2, <2>3, <1>6 DEF JobRecord
<1> HIDE DEF r, i, e, isNew, created, counting
\* The record is taken, and a new cancellation has gone to its window.
<1>8. /\ JobRecord(job') /\ WindowsKeep
      /\ job'.offset = created.offset /\ job'.pending = created.pending
      /\ \A k \in Branches, b \in Bookings :
           \/ job'.seen[k][b] = job.seen[k][b]
           \/ b = r.booking /\ (k = "cancelled" => r.cancelled)
      /\ job'.held \subseteq job.held \union {e} /\ late' \subseteq late \union {e}
      /\ job'.due \subseteq {PaneOf(f) : f \in job'.held}
      /\ isNew => HandedOn(e)
  <2>1. CASE isNew /\ EnterWindow(counting, e)
    <3>1. /\ HandedOn(e) /\ WindowsKeep
          /\ job'.held \subseteq job.held \union {e} /\ late' \subseteq late \union {e}
          /\ job'.due \subseteq {PaneOf(f) : f \in job'.held}
      BY <2>1, <1>1, <1>2, <1>4, <1>7, Entering
    <3>2. /\ JobRecord(job') /\ job'.offset = counting.offset
          /\ job'.pending = counting.pending /\ job'.seen = counting.seen
      BY <2>1, <1>4, <1>7, EnterWindowFacts
    <3>3. r.cancelled
      BY <2>1 DEF isNew
    <3>4. \A k \in Branches, b \in Bookings :
            \/ job'.seen[k][b] = job.seen[k][b]
            \/ b = r.booking /\ (k = "cancelled" => r.cancelled)
      BY <3>2, <3>3, <1>6, <1>7
    <3> QED BY <3>1, <3>2, <3>4, <1>7
  <2>2. CASE ~isNew /\ job' = created /\ UNCHANGED <<rows, counted, late>>
    <3>1. WindowsKeep
      BY <2>2, <1>2, <1>6, NotEntering
    <3>2. job'.due \subseteq {PaneOf(f) : f \in job'.held}
      BY <2>2, <1>2, <1>6 DEF JobTypes
    <3>3. \A k \in Branches, b \in Bookings :
            \/ job'.seen[k][b] = job.seen[k][b]
            \/ b = r.booking /\ (k = "cancelled" => r.cancelled)
      BY <2>2, <1>6
    <3> QED BY <2>2, <3>1, <3>2, <3>3, <1>6
  <2> QED BY <1>1, <2>1, <2>2
<1>9. SeenIsRead(job')
  <2> SUFFICES ASSUME NEW k \in Branches, NEW b \in Bookings, job'.seen[k][b] # Never
               PROVE  \E h \in 1 .. job'.offset[p] :
                        topic[p][h].booking = b /\ (k = "cancelled" => topic[p][h].cancelled)
    BY DEF SeenIsRead, p
  <2>1. job'.offset[p] = i /\ i = job.offset[p] + 1 /\ job.offset[p] \in Nat
    BY <1>2, <1>3, <1>6, <1>8 DEF JobRecord, i
  <2>2. CASE job'.seen[k][b] = job.seen[k][b]
    <3>1. PICK h \in 1 .. job.offset[p] :
            topic[p][h].booking = b /\ (k = "cancelled" => topic[p][h].cancelled)
      BY <2>2, <1>2 DEF SeenIsRead
    <3> QED BY <3>1, <2>1
  <2>3. CASE b = r.booking /\ (k = "cancelled" => r.cancelled)
    <3>1. i \in 1 .. job'.offset[p]
      BY ONLY <2>1
    <3>2. topic[p][i].booking = b /\ (k = "cancelled" => topic[p][i].cancelled)
      BY ONLY <2>3, <1>3
    <3> QED BY <3>1, <3>2
  <2> QED BY <2>2, <2>3, <1>8
<1>10. \A f \in Settled(job') : f \in Settled(job) \/ AwaitsLookup(job', f) \/ HandedOn(f)
  <2> SUFFICES ASSUME NEW f \in Settled(job'), f \notin Settled(job)
               PROVE  AwaitsLookup(job', f) \/ HandedOn(f)
    OBVIOUS
  <2>1. f \in Elements /\ f[3] <= job'.offset[f[2]] /\ AlwaysTaken(f) /\ ~(f[3] <= job.offset[f[2]])
    BY DEF Settled
  <2>2. f[2] = p /\ f[3] = i
    BY <2>1, <1>2, <1>6, <1>8, ElementFacts DEF JobRecord, i
  <2>3. f = <<f[1], p, i>> /\ f[1] \in Branches
    BY <2>1, <2>2, ElementFacts, InputsAssumption
  <2>4. FirstOf(f[1], i)
    BY <2>1, <2>2, <2>3 DEF AlwaysTaken, Branches
  <2>5. CASE f[1] = "created"
    <3>1. job.seen["created"][r.booking] = Never
      <4> SUFFICES ASSUME job.seen["created"][r.booking] # Never PROVE FALSE
        OBVIOUS
      <4>1. PICK h \in 1 .. job.offset[p] : topic[p][h].booking = r.booking
        BY <1>2, <1>3 DEF SeenIsRead, Branches
      <4>2. h \in 1 .. i - 1
        BY <4>1, <1>2, <1>3 DEF JobRecord, i
      <4> QED BY <4>1, <4>2, <2>4, <2>5, <1>3 DEF FirstOf
    <3> QED BY <3>1, <1>6, <1>8, <2>2, <2>5 DEF FirstSeen, AwaitsLookup
  <2>6. CASE f[1] = "cancelled"
    <3>1. r.cancelled
      BY <2>4, <2>6, <1>3 DEF FirstOf
    <3>2. job.seen["cancelled"][r.booking] = Never
      <4> SUFFICES ASSUME job.seen["cancelled"][r.booking] # Never PROVE FALSE
        OBVIOUS
      <4>1. PICK h \in 1 .. job.offset[p] : topic[p][h].booking = r.booking /\ topic[p][h].cancelled
        BY <1>2, <1>3 DEF SeenIsRead, Branches
      <4>2. h \in 1 .. i - 1
        BY <4>1, <1>2, <1>3 DEF JobRecord, i
      <4> QED BY <4>1, <4>2, <2>4, <2>6, <1>3 DEF FirstOf
    <3>3. isNew /\ f = e
      BY <3>1, <3>2, <2>3, <2>6 DEF isNew, FirstSeen, e
    <3> QED BY <3>3, <1>8
  <2> QED BY <2>3, <2>5, <2>6 DEF Branches
<1>11. JobTypes(job')
  <2>1. job'.offset \in [AllPartitions -> Nat] /\ job'.offset[p] = i /\ job.offset[p] < i
        /\ \A q \in AllPartitions : job.offset[q] <= job'.offset[q] /\ job'.offset[q] <= Len(topic[q])
    BY <1>2, <1>3, <1>6, <1>8 DEF JobTypes, JobRecord, i
  <2>2. job'.pending \subseteq 1 .. job'.offset["bookings"]
    BY <2>1, <1>2, <1>3, <1>6, <1>8 DEF JobTypes, JobRecord, p
  <2>3. job'.held \subseteq Elements
    BY <1>2, <1>4, <1>8 DEF JobTypes
  <2>4. \A f \in job'.held : f[3] <= job'.offset[f[2]]
    <3> SUFFICES ASSUME NEW f \in job'.held PROVE f[3] <= job'.offset[f[2]]
      OBVIOUS
    <3>1. CASE f \in job.held
      <4>1. f[3] <= job.offset[f[2]] /\ f[2] \in AllPartitions /\ f[3] \in Nat
        BY <3>1, <1>2, ElementFacts DEF JobTypes
      <4> QED BY <4>1, <2>1, <1>2 DEF JobRecord
    <3>2. CASE f = e
      BY <3>2, <2>1, <1>3 DEF e
    <3> QED BY <3>1, <3>2, <1>8
  <2> QED BY <2>1, <2>2, <2>3, <2>4, <1>8 DEF JobTypes
<1>12. \A s \in Sources : highest[s] <= highest'[s]
  BY <1>1, <1>2 DEF TypeOK
<1>13. \A f \in Settled(job) : AwaitsLookup(job, f) => AwaitsLookup(job', f) \/ HandedOn(f)
  BY <1>6, <1>8 DEF AwaitsLookup
<1> QED
  <2>1. rows \subseteq counted
    BY <1>2 DEF TypeOK
  <2> QED BY <2>1, <1>1, <1>4, <1>8, <1>9, <1>10, <1>11, <1>12, <1>13
          DEF Progress, WindowsKeep, CurrentMark

\* A lookup ends.
LEMMA EndLookupFacts ==
  ASSUME PulseInv, NEW i \in job.pending, EndLookup(i)
  PROVE  Progress /\ JobTypes(job')
<1> DEFINE e == <<"created", "bookings", i>>
           rest == [job EXCEPT !.pending = @ \ {i}]
<1>1. UNCHANGED <<now, topic, saved, maxTime, watermark, highest, failures>> /\ EnterWindow(rest, e)
  BY DEF EndLookup
<1>2. TypeOK /\ DueIsOpen /\ JobRecord(job) /\ SeenIsRead(job) /\ JobTypes(job)
  BY JobFields DEF PulseInv, TypeOK, JobOK, JobTypes
<1>3. i \in 1 .. job.offset["bookings"] /\ job.offset["bookings"] <= Len(topic["bookings"])
      /\ job.offset["bookings"] \in Nat /\ Len(topic["bookings"]) \in Nat
  BY <1>2 DEF JobTypes, JobRecord, AllPartitions, TypeOK
<1>4. e \in Elements /\ e[3] <= Len(topic[e[2]]) /\ Passing(e)
  <2>1. i \in Nat \ {0}
    BY <1>3
  <2>2. e \in Elements
    BY <2>1, ElementsOfBranches DEF Branches
  <2> QED BY <2>2, <1>3 DEF Passing
<1>5. /\ JobRecord(rest) /\ rest.offset = job.offset /\ rest.seen = job.seen
      /\ rest.pending = job.pending \ {i} /\ rest.held = job.held /\ rest.due = job.due
  <2>1. rest = [job EXCEPT !.pending = @ \ {i}]
    OBVIOUS
  <2> HIDE DEF rest
  <2> QED BY <1>2, <2>1 DEF JobRecord
<1> HIDE DEF e, rest
<1>6. /\ HandedOn(e) /\ WindowsKeep
      /\ job'.held \subseteq job.held \union {e} /\ late' \subseteq late \union {e}
      /\ job'.due \subseteq {PaneOf(f) : f \in job'.held}
  BY <1>1, <1>2, <1>4, <1>5, Entering
<1>7. /\ JobRecord(job') /\ job'.offset = job.offset /\ job'.seen = job.seen
      /\ job'.pending = job.pending \ {i}
  BY <1>1, <1>4, <1>5, EnterWindowFacts
<1>8. SeenIsRead(job') /\ Settled(job') = Settled(job)
  BY <1>2, <1>7 DEF SeenIsRead, Settled
<1>9. \A f \in Settled(job) : AwaitsLookup(job, f) => AwaitsLookup(job', f) \/ HandedOn(f)
  <2> SUFFICES ASSUME NEW f \in Settled(job), f[1] = "created", f[3] = i PROVE HandedOn(f)
    BY <1>7 DEF AwaitsLookup
  <2>1. f = e
    BY ElementFacts DEF Settled, e
  <2> QED BY <2>1, <1>6
<1>10. JobTypes(job')
  BY <1>2, <1>3, <1>4, <1>6, <1>7 DEF JobTypes, e
<1>11. \A s \in Sources : highest[s] <= highest'[s]
  BY <1>1, <1>2 DEF TypeOK
<1> QED
  <2>1. rows \subseteq counted
    BY <1>2 DEF TypeOK
  <2> QED BY <2>1, <1>1, <1>4, <1>6, <1>8, <1>9, <1>10, <1>11 DEF Progress, WindowsKeep, CurrentMark

\* A market price is read.
LEMMA ReadSnapshotFacts ==
  ASSUME PulseInv, NEW p \in Partitions, ReadSnapshot(p)
  PROVE  Progress /\ JobTypes(job')
<1> DEFINE i == job.offset[p] + 1
           e == <<"pulse", p, i>>
           rest == Takes(p)
<1>1. /\ UNCHANGED <<now, topic, saved, watermark, highest, failures>>
      /\ Unread(p)
      /\ \/ NextRecord(p).snapshot.blended /\ EnterWindow(rest, e)
         \/ ~NextRecord(p).snapshot.blended /\ job' = rest /\ UNCHANGED <<rows, counted, late>>
  BY DEF ReadSnapshot
<1>2. TypeOK /\ DueIsOpen /\ JobRecord(job) /\ SeenIsRead(job) /\ JobTypes(job)
  BY JobFields DEF PulseInv, TypeOK, JobOK, JobTypes
<1>3. /\ p \in AllPartitions /\ i \in 1 .. Len(topic[p]) /\ i \in Nat \ {0}
      /\ NextRecord(p) = topic[p][i]
  <2>1. p \in AllPartitions
    BY DEF AllPartitions
  <2> QED BY <2>1, <1>1, <1>2, NextRecordFacts
<1>4. e \in Elements /\ e[3] <= Len(topic[e[2]]) /\ RecordOf(e) = NextRecord(p)
  <2>1. e \in Elements
    BY <1>3, ElementsOfBranches
  <2> QED BY <2>1, <1>3 DEF RecordOf
<1>5. /\ JobRecord(rest) /\ rest.offset = [job.offset EXCEPT ![p] = i] /\ rest.seen = job.seen
      /\ rest.pending = job.pending /\ rest.held = job.held /\ rest.due = job.due
  <2>1. rest = [offset |-> [job.offset EXCEPT ![p] = i], seen |-> job.seen, pending |-> job.pending,
                held |-> job.held, due |-> job.due]
    BY <1>2 DEF JobRecord, Takes
  <2> HIDE DEF rest, i
  <2> QED BY <2>1, <1>2, <1>3 DEF JobRecord
<1> HIDE DEF i, e, rest
<1>6. /\ JobRecord(job') /\ WindowsKeep
      /\ job'.offset = [job.offset EXCEPT ![p] = i] /\ job'.seen = job.seen
      /\ job'.pending = job.pending
      /\ job'.held \subseteq job.held \union {e} /\ late' \subseteq late \union {e}
      /\ job'.due \subseteq {PaneOf(f) : f \in job'.held}
      /\ NextRecord(p).snapshot.blended => HandedOn(e)
  <2>1. CASE NextRecord(p).snapshot.blended /\ EnterWindow(rest, e)
    <3>1. Passing(e)
      BY <2>1, <1>4 DEF Passing
    <3>2. /\ HandedOn(e) /\ WindowsKeep
          /\ job'.held \subseteq job.held \union {e} /\ late' \subseteq late \union {e}
          /\ job'.due \subseteq {PaneOf(f) : f \in job'.held}
      BY <3>1, <2>1, <1>1, <1>2, <1>4, <1>5, Entering
    <3>3. /\ JobRecord(job') /\ job'.offset = rest.offset
          /\ job'.pending = rest.pending /\ job'.seen = rest.seen
      BY <2>1, <1>4, <1>5, EnterWindowFacts
    <3> QED BY <3>2, <3>3, <1>5
  <2>2. CASE ~NextRecord(p).snapshot.blended /\ job' = rest /\ UNCHANGED <<rows, counted, late>>
    <3>1. WindowsKeep
      BY <2>2, <1>2, <1>5, NotEntering
    <3>2. job'.due \subseteq {PaneOf(f) : f \in job'.held}
      BY <2>2, <1>2, <1>5 DEF JobTypes
    <3> QED BY <2>2, <3>1, <3>2, <1>5
  <2> QED BY <1>1, <2>1, <2>2
<1>7. job'.offset \in [AllPartitions -> Nat] /\ job'.offset["bookings"] = job.offset["bookings"]
      /\ \A q \in AllPartitions : job.offset[q] <= job'.offset[q] /\ job'.offset[q] <= Len(topic[q])
  <2>1. "bookings" \in AllPartitions /\ p # "bookings"
    BY InputsAssumption DEF AllPartitions
  <2> QED BY <2>1, <1>2, <1>3, <1>6 DEF JobTypes, JobRecord, i
<1>8. SeenIsRead(job')
  BY <1>2, <1>6, <1>7 DEF SeenIsRead
<1>9. \A f \in Settled(job') : f \in Settled(job) \/ HandedOn(f)
  <2> SUFFICES ASSUME NEW f \in Settled(job'), f \notin Settled(job) PROVE HandedOn(f)
    OBVIOUS
  <2>1. f \in Elements /\ f[3] <= job'.offset[f[2]] /\ Passing(f) /\ ~(f[3] <= job.offset[f[2]])
    BY DEF Settled
  <2>2. f[2] = p /\ f[3] = i
    BY <2>1, <1>2, <1>6, ElementFacts DEF JobRecord, i
  <2>3. f = e /\ f[1] = "pulse"
    BY <2>1, <2>2, ElementFacts, InputsAssumption DEF e
  <2> QED BY <2>1, <2>3, <1>4, <1>6 DEF Passing
<1>10. JobTypes(job')
  <2>1. \A f \in job'.held : f[3] <= job'.offset[f[2]]
    <3> SUFFICES ASSUME NEW f \in job'.held PROVE f[3] <= job'.offset[f[2]]
      OBVIOUS
    <3>1. CASE f \in job.held
      <4>1. f[3] <= job.offset[f[2]] /\ f[2] \in AllPartitions /\ f[3] \in Nat
        BY <3>1, <1>2, ElementFacts DEF JobTypes
      <4> QED BY <4>1, <1>7, <1>2 DEF JobRecord
    <3>2. CASE f = e
      BY <3>2, <1>2, <1>3, <1>6 DEF e, JobRecord
    <3> QED BY <3>1, <3>2, <1>6
  <2>2. job'.held \subseteq Elements
    BY <1>2, <1>4, <1>6 DEF JobTypes
  <2> QED BY <2>1, <2>2, <1>2, <1>6, <1>7 DEF JobTypes
<1>11. \A s \in Sources : highest[s] <= highest'[s]
  BY <1>1, <1>2 DEF TypeOK
<1>12. \A f \in Settled(job) : AwaitsLookup(job, f) => AwaitsLookup(job', f)
  BY <1>6 DEF AwaitsLookup
<1> QED
  <2>1. rows \subseteq counted
    BY <1>2 DEF TypeOK
  <2> QED BY <2>1, <1>1, <1>4, <1>6, <1>8, <1>9, <1>10, <1>11, <1>12
          DEF Progress, WindowsKeep, CurrentMark

\* Panes that wait for their timer are stored: what their rows lose, the job does not
\* hold, and no watermark it has now clears.
LEMMA StoringDuePanes ==
  ASSUME PulseInv, NEW panes \in SUBSET job.due, Stores(job.held, panes)
  PROVE  /\ rows' \subseteq rows \union job.held /\ counted' = counted \union rows'
         /\ counted' \subseteq counted \union job.held
         /\ \A e \in job.held : PaneOf(e) \in panes => e \in counted'
         /\ \A f \in rows \ rows' : f \notin job.held /\ ~GoneBy(f, watermark)
<1>1. rows' = (rows \ InPanes(rows, panes)) \union InPanes(job.held, panes)
      /\ counted' = counted \union rows'
  BY DEF Stores, Stored
<1>2. TypeOK /\ DueIsOpen /\ rows \subseteq counted /\ counted \subseteq Elements
  BY DEF PulseInv, TypeOK
<1>3. \A f \in rows \ rows' : f \notin job.held /\ ~GoneBy(f, watermark)
  <2> SUFFICES ASSUME NEW f \in rows \ rows' PROVE f \notin job.held /\ ~GoneBy(f, watermark)
    OBVIOUS
  <2>1. PaneOf(f) \in panes /\ f \notin job.held
    BY <1>1 DEF InPanes
  <2>2. f \in Elements /\ f[3] <= Len(topic[f[2]])
    BY <1>2 DEF TypeOK
  <2>3. ~HasClosed(PaneOf(f), CurrentMark(PaneOf(f)))
    BY <2>1, <1>2 DEF DueIsOpen
  <2>4. CurrentMark(PaneOf(f)) = watermark[SourceOf(f[1])] /\ watermark[SourceOf(f[1])] \in Int
    BY <2>2, <1>2, PaneFacts, ElementFacts DEF TypeOK
  <2> QED BY <2>1, <2>2, <2>3, <2>4, <1>2, ClearedFacts DEF GoneBy
<1> QED BY <1>1, <1>2, <1>3 DEF InPanes

\* A watermark passes.
LEMMA AdvanceWatermarkFacts ==
  ASSUME PulseInv, NEW s \in Sources, AdvanceWatermark(s)
  PROVE  /\ Progress /\ JobTypes(job')
         /\ watermark' \in [Sources -> Int] /\ highest' \in [Sources -> Int]
         /\ \A r \in Sources :
              NoWatermark <= watermark'[r] /\ watermark'[r] <= highest'[r] /\ highest'[r] <= now
<1>1. PICK mark \in NextWatermarks(s) :
        /\ watermark' = [watermark EXCEPT ![s] = mark]
        /\ Passes(s, mark)
        /\ Stores(job.held, Fired(s, mark))
        /\ job' = [job EXCEPT !.due = @ \ Fired(s, mark),
                              !.held = @ \ InPanes(@, Cleared(s, mark))]
  BY DEF AdvanceWatermark
<1>2. UNCHANGED <<now, topic, saved, maxTime, late, failures>>
  BY DEF AdvanceWatermark
<1>3. TypeOK /\ DueIsOpen /\ JobRecord(job) /\ SeenIsRead(job) /\ JobTypes(job)
  BY JobFields DEF PulseInv, TypeOK, JobOK, JobTypes
<1> DEFINE fired == Fired(s, mark)
           cleared == InPanes(job.held, Cleared(s, mark))
<1>4. /\ JobRecord(job') /\ job'.offset = job.offset /\ job'.seen = job.seen
      /\ job'.pending = job.pending
      /\ job'.due = job.due \ fired /\ job'.held = job.held \ cleared
  BY <1>1, <1>3 DEF JobRecord
<1>5. mark \in Int /\ watermark[s] < mark /\ mark <= now
  BY <1>3, WatermarkFacts
<1>6. /\ highest' \in [Sources -> Int] /\ mark <= highest'[s]
      /\ \A r \in Sources : highest[r] <= highest'[r] /\ highest'[r] <= now
  BY <1>1, <1>3, PassesFacts
<1>7. /\ watermark' \in [Sources -> Int] /\ watermark'[s] = mark
      /\ \A r \in Sources : r # s => watermark'[r] = watermark[r]
  BY <1>1, <1>3, <1>5 DEF TypeOK
<1>8. \A r \in Sources :
        NoWatermark <= watermark'[r] /\ watermark'[r] <= highest'[r] /\ highest'[r] <= now
  <2> SUFFICES ASSUME NEW r \in Sources
               PROVE  NoWatermark <= watermark'[r] /\ watermark'[r] <= highest'[r] /\ highest'[r] <= now
    OBVIOUS
  <2>1. /\ NoWatermark \in Int /\ watermark[r] \in Int /\ highest[r] \in Int
        /\ NoWatermark <= watermark[r] /\ watermark[r] <= highest[r] /\ now \in Int
    BY <1>3, TimesAssumption DEF TypeOK, NoWatermark, Never
  <2>2. highest[r] <= highest'[r] /\ highest'[r] <= now /\ highest'[r] \in Int
    BY <1>6
  <2>3. CASE r = s
    BY <2>1, <2>2, <2>3, <1>5, <1>6, <1>7
  <2>4. CASE r # s
    BY <2>1, <2>2, <2>4, <1>7
  <2> QED BY <2>3, <2>4
<1>9. /\ rows' \subseteq rows \union job.held /\ counted' = counted \union rows'
      /\ counted' \subseteq counted \union job.held
      /\ \A e \in job.held : PaneOf(e) \in fired => e \in counted'
      /\ \A f \in rows \ rows' : f \notin job.held /\ ~GoneBy(f, watermark)
  <2>1. fired \in SUBSET job.due
    BY DEF Fired
  <2> QED BY <2>1, <1>1, StoringDuePanes
\* A pane that is cleared was due no longer.
<1>10. \A e \in cleared : /\ e \in job.held /\ e \in Elements /\ e[3] <= Len(topic[e[2]])
                          /\ SourceOf(e[1]) = s /\ IsCleared(PaneOf(e), mark)
                          /\ PaneOf(e) \in job.due => PaneOf(e) \in fired
  <2> SUFFICES ASSUME NEW e \in cleared
               PROVE  /\ e \in job.held /\ e \in Elements /\ e[3] <= Len(topic[e[2]])
                      /\ SourceOf(e[1]) = s /\ IsCleared(PaneOf(e), mark)
                      /\ PaneOf(e) \in job.due => PaneOf(e) \in fired
    OBVIOUS
  <2>1. e \in job.held /\ SourceOf(PaneOf(e).branch) = s /\ IsCleared(PaneOf(e), mark)
    BY DEF InPanes, Cleared
  <2>2. e \in Elements /\ e[3] <= job.offset[e[2]] /\ job.offset[e[2]] <= Len(topic[e[2]])
    BY <2>1, <1>3, ElementFacts DEF JobTypes
  <2>3. e[3] <= Len(topic[e[2]])
    <3>1. e[3] \in Nat /\ job.offset[e[2]] \in Nat /\ Len(topic[e[2]]) \in Nat
      BY <2>2, <1>3, ElementFacts DEF JobRecord, TypeOK
    <3> QED BY <3>1, <2>2
  <2>4. HasClosed(PaneOf(e), mark)
    BY <2>1, <2>2, <2>3, <1>3, <1>5, ClearedFacts
  <2>5. PaneOf(e).branch = e[1]
    BY <2>2, <2>3, <1>3, PaneFacts
  <2> QED BY <2>1, <2>2, <2>3, <2>4, <2>5 DEF Fired
<1>11. \A e \in job.held : e \in job'.held \/ GoneBy(e, highest')
  <2> SUFFICES ASSUME NEW e \in cleared PROVE GoneBy(e, highest')
    BY <1>4
  <2>1. highest'[s] \in Int
    BY <1>6
  <2> QED BY <2>1, <1>3, <1>5, <1>6, <1>10, ClearedFacts DEF GoneBy
<1>12. \A e \in job.held : PaneOf(e) \in job.due =>
         e \in counted' \/ (e \in job'.held /\ PaneOf(e) \in job'.due)
  <2> HIDE DEF fired, cleared
  <2> QED BY <1>4, <1>9, <1>10
<1>13. \A x \in job'.due : ~HasClosed(x, watermark'[SourceOf(x.branch)])
  <2> SUFFICES ASSUME NEW x \in job'.due PROVE ~HasClosed(x, watermark'[SourceOf(x.branch)])
    OBVIOUS
  <2>1. x \in job.due /\ x \notin fired /\ ~HasClosed(x, watermark[SourceOf(x.branch)])
    BY <1>3, <1>4 DEF DueIsOpen, CurrentMark
  <2>2. SourceOf(x.branch) \in Sources
    BY DEF SourceOf, Sources
  <2>3. CASE SourceOf(x.branch) = s
    BY <2>1, <2>3, <1>7 DEF Fired
  <2>4. CASE SourceOf(x.branch) # s
    BY <2>1, <2>2, <2>4, <1>7
  <2> QED BY <2>3, <2>4
<1>14. SeenIsRead(job') /\ Settled(job') = Settled(job)
       /\ \A f : AwaitsLookup(job', f) <=> AwaitsLookup(job, f)
  BY <1>3, <1>4 DEF SeenIsRead, Settled, AwaitsLookup
<1>15. JobTypes(job')
  <2>1. \A x \in job'.due : \E e \in job'.held : x = PaneOf(e)
    <3> SUFFICES ASSUME NEW x \in job'.due PROVE \E e \in job'.held : x = PaneOf(e)
      OBVIOUS
    <3>1. x \in job.due /\ x \notin fired
      BY <1>4
    <3>2. PICK e \in job.held : x = PaneOf(e)
      BY <3>1, <1>3 DEF JobTypes
    <3>3. e \notin cleared
      BY <3>1, <3>2, <1>10
    <3> QED BY <3>2, <3>3, <1>4
  <2> QED BY <2>1, <1>3, <1>4 DEF JobTypes
<1> QED
  <2> HIDE DEF fired, cleared
  <2> QED BY <1>2, <1>4, <1>6, <1>7, <1>8, <1>9, <1>11, <1>12, <1>13, <1>14, <1>15 DEF Progress

-------------------------------------------------------------------------------
(* The invariant. *)

\* What is known of an element does not change while the topics stand still.
LEMMA TopicStands ==
  ASSUME topic' = topic, NEW e
  PROVE  /\ PaneOf(e)' = PaneOf(e) /\ Passing(e)' = Passing(e) /\ AlwaysTaken(e)' = AlwaysTaken(e)
         /\ IsGone(e)' = GoneBy(e, highest')
<1>1. PaneOf(e)' = PaneOf(e) /\ Passing(e)' = Passing(e)
  BY DEF PaneOf, Passing, RecordOf
<1>2. AlwaysTaken(e)' = AlwaysTaken(e)
  BY DEF AlwaysTaken, FirstOf
<1>3. IsGone(e)' = GoneBy(e, highest')
  BY <1>1 DEF IsGone, GoneBy
<1> QED BY <1>1, <1>2, <1>3

LEMMA JobTypesAfter ==
  ASSUME TypeOK, topic' = topic, now' = now, NEW j, JobTypes(j)
  PROVE  JobTypeOK(j)'
<1>1. {PaneOf(e) : e \in j.held} = {PaneOf(e)' : e \in j.held}
  BY TopicStands
<1>2. j.due \subseteq {PaneOf(e)' : e \in j.held}
  BY <1>1 DEF JobTypes
<1> QED BY <1>2 DEF JobTypes, JobRecord, JobTypeOK

\* A job that stays as it is, while others count, log and pass watermarks.
LEMMA JobStands ==
  ASSUME TypeOK, topic' = topic, counted \subseteq counted', late \subseteq late',
         highest' \in [Sources -> Int], \A s \in Sources : highest[s] <= highest'[s],
         NEW j, JobTypeOK(j), JobOK(j)
  PROVE  JobOK(j)'
<1>1. SeenIsRead(j)' /\ \A e \in j.held : Passing(e)'
  BY TopicStands DEF JobOK, SeenIsRead
<1>2. \A e : e \in Settled(j)' <=> e \in Settled(j)
  BY TopicStands DEF Settled
<1>3. \A e \in Settled(j) : IsGone(e) => IsGone(e)'
  <2> SUFFICES ASSUME NEW e \in Settled(j), IsGone(e) PROVE IsGone(e)'
    OBVIOUS
  <2>1. e \in Elements /\ e[3] <= j.offset[e[2]] /\ e[2] \in AllPartitions /\ e[3] \in Nat
        /\ SourceOf(e[1]) \in Sources
    BY ElementFacts DEF Settled
  <2>2. e[3] <= Len(topic[e[2]])
    <3>1. j.offset[e[2]] \in Nat /\ j.offset[e[2]] <= Len(topic[e[2]]) /\ Len(topic[e[2]]) \in Nat
      BY <2>1, JobFields DEF JobRecord, TypeOK
    <3> QED BY <2>1, <3>1
  <2>3. GoneBy(e, highest')
    BY <2>1, <2>2, ClearedFacts DEF IsGone, GoneBy, TypeOK
  <2> QED BY <2>3, TopicStands
<1>4. Known(j)'
  BY <1>2, <1>3 DEF JobOK, Known, AwaitsLookup
<1>5. Stays(j)'
  BY <1>2, TopicStands DEF JobOK, Stays, AwaitsLookup
<1> QED BY <1>1, <1>4, <1>5 DEF JobOK

\* A pane once cleared stays cleared.
LEMMA GoneStays ==
  ASSUME TypeOK, topic' = topic,
         highest' \in [Sources -> Int], \A s \in Sources : highest[s] <= highest'[s],
         NEW e \in Elements, e[3] <= Len(topic[e[2]]), IsGone(e)
  PROVE  IsGone(e)'
<1>1. SourceOf(e[1]) \in Sources
  BY ElementFacts
<1>2. GoneBy(e, highest')
  BY <1>1, ClearedFacts DEF IsGone, GoneBy, TypeOK
<1> QED BY <1>2, TopicStands

LEMMA SettledFacts ==
  ASSUME TypeOK, NEW j, JobTypes(j), NEW e \in Settled(j)
  PROVE  e \in Elements /\ e[3] <= Len(topic[e[2]])
<1>1. e \in Elements /\ e[3] <= j.offset[e[2]] /\ e[2] \in AllPartitions /\ e[3] \in Nat
  BY ElementFacts DEF Settled
<1>2. j.offset[e[2]] \in Nat /\ j.offset[e[2]] <= Len(topic[e[2]]) /\ Len(topic[e[2]]) \in Nat
  BY <1>1 DEF JobTypes, JobRecord, TypeOK
<1> QED BY <1>1, <1>2

\* A job that makes progress keeps what it knows.
LEMMA JobMoves ==
  ASSUME PulseInv, Progress, JobTypes(job'), highest' \in [Sources -> Int]
  PROVE  JobOK(job)'
<1>1. TypeOK /\ JobOK(job) /\ JobTypes(job) /\ topic' = topic
  BY JobFields DEF PulseInv, Progress, TypeOK, JobTypes
<1>2. SeenIsRead(job)'
  BY <1>1 DEF Progress, SeenIsRead
<1>3. \A e \in job'.held : Passing(e)'
  BY <1>1, TopicStands DEF Progress, JobOK
<1>4. \A e : e \in Settled(job)' <=> e \in Settled(job')
  BY <1>1, TopicStands DEF Settled
<1>5. \A e \in Settled(job') : e \in Elements /\ e[3] <= Len(topic[e[2]])
  BY <1>1, SettledFacts
<1>6. Known(job)'
  <2> SUFFICES ASSUME NEW e \in Settled(job')
               PROVE  e \in job'.held \/ AwaitsLookup(job', e) \/ IsGone(e)'
    BY <1>4 DEF Known, AwaitsLookup
  <2>1. HandedOn(e) => e \in job'.held \/ IsGone(e)'
    BY <1>1, TopicStands DEF HandedOn
  <2>2. CASE e \in Settled(job)
    <3>1. CASE e \in job.held
      BY <3>1, <1>1, TopicStands DEF Progress
    <3>2. CASE AwaitsLookup(job, e)
      BY <3>2, <2>1, <2>2 DEF Progress
    <3>3. CASE IsGone(e)
      BY <3>3, <1>1, <1>5, GoneStays DEF Progress
    <3> QED BY <3>1, <3>2, <3>3, <2>2, <1>1 DEF JobOK, Known
  <2> QED BY <2>1, <2>2 DEF Progress
<1>7. Stays(job)'
  <2> SUFFICES ASSUME NEW e \in Settled(job'), e[1] # "pulse"
               PROVE  \/ e \in counted' \union late'
                      \/ e \in job'.held /\ PaneOf(e) \in job'.due
                      \/ AwaitsLookup(job', e)
    BY <1>1, <1>4, TopicStands DEF Stays, AwaitsLookup
  <2>1. CASE e \in Settled(job)
    <3>1. CASE e \in counted \union late
      BY <3>1 DEF Progress
    <3>2. CASE e \in job.held /\ PaneOf(e) \in job.due
      BY <3>2 DEF Progress
    <3>3. CASE AwaitsLookup(job, e)
      BY <3>3, <2>1 DEF Progress, HandedOn
    <3> QED BY <3>1, <3>2, <3>3, <2>1, <1>1 DEF JobOK, Stays
  <2> QED BY <2>1 DEF Progress, HandedOn
<1> QED BY <1>2, <1>3, <1>6, <1>7 DEF JobOK

LEMMA RestMoves ==
  ASSUME PulseInv, Progress, highest' \in [Sources -> Int], failures' = failures
  PROVE  /\ \A e \in counted' : Passing(e)'
         /\ DueIsOpen'
         /\ NothingForgotten'
<1>1. TypeOK /\ JobOK(job) /\ JobTypes(job) /\ topic' = topic
  BY JobFields DEF PulseInv, Progress, TypeOK, JobTypes
<1>2. \A e \in counted' : Passing(e)'
  BY <1>1, TopicStands DEF Progress, JobOK, PulseInv
<1>3. DueIsOpen'
  BY DEF DueIsOpen, CurrentMark, Progress
<1>4. NothingForgotten'
  <2> SUFFICES ASSUME failures = 0, NEW e \in rows' PROVE e \in job'.held \/ IsGone(e)'
    BY DEF NothingForgotten
  <2>1. CASE e \in job.held
    BY <2>1, <1>1, TopicStands DEF Progress
  <2>2. CASE e \in rows /\ e \notin job.held
    <3>1. e \in Elements /\ e[3] <= Len(topic[e[2]]) /\ IsGone(e)
      BY <2>2, <1>1 DEF TypeOK, PulseInv, NothingForgotten
    <3> QED BY <3>1, <1>1, GoneStays DEF Progress
  <2> QED BY <2>1, <2>2 DEF Progress
<1> QED BY <1>2, <1>3, <1>4

\* What is stored or logged is a record of the topics.
LEMMA CountedTypes ==
  ASSUME TypeOK, NEW j, JobTypes(j)
  PROVE  j.held \subseteq Elements /\ \A e \in j.held : e[3] <= Len(topic[e[2]])
<1> SUFFICES ASSUME NEW e \in j.held PROVE e[3] <= Len(topic[e[2]])
  BY DEF JobTypes
<1>1. e[3] \in Nat /\ e[2] \in AllPartitions /\ e[3] <= j.offset[e[2]]
  BY ElementFacts DEF JobTypes
<1>2. j.offset[e[2]] \in Nat /\ j.offset[e[2]] <= Len(topic[e[2]]) /\ Len(topic[e[2]]) \in Nat
  BY <1>1 DEF JobTypes, JobRecord, TypeOK
<1> QED BY <1>1, <1>2

\* The types after a step of the job.
LEMMA TypesMove ==
  ASSUME PulseInv, Progress, JobTypes(job'), UNCHANGED <<now, failures, saved>>,
         maxTime' \in [AllPartitions -> {Never} \union 0 .. now],
         watermark' \in [Sources -> Int], highest' \in [Sources -> Int],
         \A r \in Sources :
           NoWatermark <= watermark'[r] /\ watermark'[r] <= highest'[r] /\ highest'[r] <= now
  PROVE  TypeOK'
<1>1. TypeOK /\ JobTypes(job) /\ JobTypes(saved) /\ topic' = topic /\ now' = now
  BY JobFields DEF PulseInv, Progress, TypeOK, JobTypes
<1>2. JobTypeOK(job)' /\ JobTypeOK(saved)'
  <2>1. JobTypeOK(job)'
    BY <1>1, JobTypesAfter
  <2>2. JobTypeOK(saved)'
    BY <1>1, JobTypesAfter
  <2> QED BY <2>1, <2>2
<1>3. counted' \subseteq Elements /\ \A e \in counted' : e[3] <= Len(topic[e[2]])
  BY <1>1, CountedTypes DEF Progress, TypeOK
<1>4. late' \subseteq Elements /\ \A e \in late' : e[3] <= Len(topic[e[2]])
  BY <1>1 DEF Progress, TypeOK
<1>5. \A p \in AllPartitions : topic'[p] \in Seq(RecordsOf(p)')
  BY <1>1 DEF TypeOK, RecordsOf
<1>6. now' \in 0 .. MaxTime /\ failures' \in 0 .. MaxFailures /\ DOMAIN topic' = AllPartitions
      /\ maxTime' \in [AllPartitions -> {Never} \union 0 .. now'] /\ rows' \subseteq counted'
  BY <1>1 DEF TypeOK, Progress
<1> QED BY <1>1, <1>2, <1>3, <1>4, <1>5, <1>6 DEF TypeOK

LEMMA NotesTimeFacts ==
  ASSUME TypeOK, NEW p \in AllPartitions, Unread(p), NotesTime(p)
  PROVE  maxTime' \in [AllPartitions -> {Never} \union 0 .. now]
<1> DEFINE time == NextRecord(p).time
           m == Max({maxTime[p], time})
<1>1. NextRecord(p) \in RecordsOf(p)
  BY NextRecordFacts
<1>2. time \in 0 .. now
  BY <1>1 DEF RecordsOf
<1>3. maxTime \in [AllPartitions -> {Never} \union 0 .. now] /\ now \in Int
  BY DEF TypeOK
<1>4. maxTime[p] \in Int /\ time \in Int
  BY <1>2, <1>3 DEF Never
<1>5. m \in {maxTime[p], time}
  BY <1>4, LargerOf
<1>6. maxTime' = [maxTime EXCEPT ![p] = m]
  BY DEF NotesTime
<1> HIDE DEF m, time
<1> QED BY <1>2, <1>3, <1>5, <1>6

\* A step of the job keeps the invariant.
LEMMA JobStepKeeps ==
  ASSUME PulseInv, JobStep
  PROVE  PulseInv' /\ Progress
<1>1. TypeOK /\ "bookings" \in AllPartitions /\ Partitions \subseteq AllPartitions
  BY DEF PulseInv, AllPartitions
<1>2. UNCHANGED <<now, saved, failures>>
  BY DEF JobStep, ReadBooking, EndLookup, ReadSnapshot, AdvanceWatermark
<1>3. /\ Progress /\ JobTypes(job')
      /\ maxTime' \in [AllPartitions -> {Never} \union 0 .. now]
      /\ watermark' \in [Sources -> Int] /\ highest' \in [Sources -> Int]
      /\ \A r \in Sources :
           NoWatermark <= watermark'[r] /\ watermark'[r] <= highest'[r] /\ highest'[r] <= now
  <2>1. CASE ReadBooking
    <3>1. Unread("bookings") /\ NotesTime("bookings") /\ UNCHANGED <<watermark, highest>>
      BY <2>1 DEF ReadBooking
    <3>2. Progress /\ JobTypes(job')
      BY <2>1, ReadBookingFacts
    <3>3. maxTime' \in [AllPartitions -> {Never} \union 0 .. now]
      BY <3>1, <1>1, NotesTimeFacts
    <3> QED BY <3>1, <3>2, <3>3, <1>1 DEF TypeOK
  <2>2. CASE \E i \in job.pending : EndLookup(i)
    <3>1. UNCHANGED <<maxTime, watermark, highest>>
      BY <2>2 DEF EndLookup
    <3>2. Progress /\ JobTypes(job')
      BY <2>2, EndLookupFacts
    <3> QED BY <3>1, <3>2, <1>1 DEF TypeOK
  <2>3. CASE \E p \in Partitions : ReadSnapshot(p)
    <3>1. PICK p \in Partitions : ReadSnapshot(p)
      BY <2>3
    <3>2. Unread(p) /\ NotesTime(p) /\ UNCHANGED <<watermark, highest>>
      BY <3>1 DEF ReadSnapshot
    <3>3. Progress /\ JobTypes(job')
      BY <3>1, ReadSnapshotFacts
    <3>4. maxTime' \in [AllPartitions -> {Never} \union 0 .. now]
      BY <3>2, <1>1, NotesTimeFacts
    <3> QED BY <3>2, <3>3, <3>4, <1>1 DEF TypeOK
  <2>4. CASE \E s \in Sources : AdvanceWatermark(s)
    <3>1. PICK s \in Sources : AdvanceWatermark(s)
      BY <2>4
    <3>2. UNCHANGED maxTime
      BY <3>1 DEF AdvanceWatermark
    <3> QED BY <3>1, <3>2, <1>1, AdvanceWatermarkFacts DEF TypeOK
  <2> QED BY <2>1, <2>2, <2>3, <2>4 DEF JobStep
<1>4. TypeOK'
  BY <1>2, <1>3, TypesMove
<1>5. JobOK(job)'
  BY <1>3, JobMoves
<1>6. JobOK(saved)'
  <2>1. JobTypeOK(saved) /\ JobOK(saved) /\ TypeOK
    BY DEF PulseInv, TypeOK
  <2> QED BY <1>2, <1>3, <2>1, JobStands DEF Progress
<1>7. (\A e \in counted : Passing(e))' /\ DueIsOpen' /\ NothingForgotten'
  BY <1>2, <1>3, RestMoves
<1> QED BY <1>3, <1>4, <1>5, <1>6, <1>7 DEF PulseInv

\* A new record changes nothing that is known of the older ones.
LEMMA TopicGrows ==
  ASSUME TypeOK, NEW p \in AllPartitions, NEW r, topic' = [topic EXCEPT ![p] = Append(@, r)]
  PROVE  /\ \A q \in AllPartitions :
              /\ Len(topic[q]) \in Nat /\ Len(topic'[q]) \in Nat /\ Len(topic[q]) <= Len(topic'[q])
              /\ \A i \in 1 .. Len(topic[q]) : topic'[q][i] = topic[q][i]
         /\ \A e \in Elements : e[3] <= Len(topic[e[2]]) =>
              /\ e[3] <= Len(topic'[e[2]])
              /\ PaneOf(e)' = PaneOf(e) /\ Passing(e)' = Passing(e)
              /\ AlwaysTaken(e)' = AlwaysTaken(e) /\ IsGone(e)' = GoneBy(e, highest')
<1>1. \A q \in AllPartitions :
        /\ Len(topic[q]) \in Nat /\ Len(topic'[q]) \in Nat /\ Len(topic[q]) <= Len(topic'[q])
        /\ \A i \in 1 .. Len(topic[q]) : topic'[q][i] = topic[q][i]
  <2> SUFFICES ASSUME NEW q \in AllPartitions
               PROVE  /\ Len(topic[q]) \in Nat /\ Len(topic'[q]) \in Nat
                      /\ Len(topic[q]) <= Len(topic'[q])
                      /\ \A i \in 1 .. Len(topic[q]) : topic'[q][i] = topic[q][i]
    OBVIOUS
  <2>1. topic[q] \in Seq(RecordsOf(q)) /\ q \in DOMAIN topic
    BY DEF TypeOK
  <2>2. CASE q = p
    <3>1. topic'[q] = Append(topic[q], r)
      BY <2>1, <2>2
    <3> QED BY <2>1, <3>1
  <2>3. CASE q # p
    <3>1. topic'[q] = topic[q]
      BY <2>1, <2>3
    <3> QED BY <2>1, <3>1
  <2> QED BY <2>2, <2>3
<1> SUFFICES ASSUME NEW e \in Elements, e[3] <= Len(topic[e[2]])
               PROVE  /\ e[3] <= Len(topic'[e[2]])
                      /\ PaneOf(e)' = PaneOf(e) /\ Passing(e)' = Passing(e)
                      /\ AlwaysTaken(e)' = AlwaysTaken(e) /\ IsGone(e)' = GoneBy(e, highest')
  BY <1>1
<1>3. e[2] \in AllPartitions /\ e[3] \in 1 .. Len(topic[e[2]])
      /\ (e[1] # "pulse" => e[2] = "bookings")
  BY <1>1, ElementFacts
<1>4. e[3] <= Len(topic'[e[2]])
  BY <1>1, <1>3
<1>5. topic'[e[2]][e[3]] = topic[e[2]][e[3]]
  BY <1>1, <1>3
<1>6. PaneOf(e)' = PaneOf(e) /\ Passing(e)' = Passing(e)
  <2>1. RecordOf(e)' = RecordOf(e)
    BY <1>5 DEF RecordOf
  <2>2. PaneOf(e)' = PaneOf(e)
    BY <2>1 DEF PaneOf
  <2>3. Passing(e)' = Passing(e)
    BY <2>1 DEF Passing
  <2> QED BY <2>2, <2>3
<1>7. AlwaysTaken(e)' = AlwaysTaken(e)
  <2>1. CASE e[1] = "pulse"
    BY <2>1 DEF AlwaysTaken
  <2>2. CASE e[1] # "pulse"
    <3>1. "bookings" \in AllPartitions /\ e[3] \in 1 .. Len(topic["bookings"])
      BY <2>2, <1>3
    <3>2. topic["bookings"] \in Seq(RecordsOf("bookings"))
      BY <3>1 DEF TypeOK
    <3>3. topic'["bookings"] \in Seq(RecordsOf("bookings") \union {r})
      <4>1. CASE p = "bookings"
        <5>1. topic'["bookings"] = Append(topic["bookings"], r)
          BY <4>1, <3>1 DEF TypeOK
        <5> QED BY <5>1, <3>2
      <4>2. CASE p # "bookings"
        BY <4>2, <3>1, <3>2 DEF TypeOK
      <4> QED BY <4>1, <4>2
    <3>4. e[3] \in DOMAIN topic["bookings"] /\ e[3] \in DOMAIN topic'["bookings"]
      BY <3>1, <3>2, <3>3, <1>1
    <3>5. \A h \in 1 .. e[3] : topic'["bookings"][h] = topic["bookings"][h]
      BY <3>1, <1>1
    <3>6. e[3] \in 1 .. e[3] /\ \A h \in 1 .. e[3] - 1 : h \in 1 .. e[3]
      BY <1>3
    <3> QED BY <2>2, <3>4, <3>5, <3>6 DEF AlwaysTaken, FirstOf
  <2> QED BY <2>1, <2>2
<1>8. IsGone(e)' = GoneBy(e, highest')
  BY <1>6 DEF IsGone, GoneBy
<1> QED BY <1>4, <1>6, <1>7, <1>8

LEMMA JobTypesPublished ==
  ASSUME TypeOK, NEW p \in AllPartitions, NEW r, topic' = [topic EXCEPT ![p] = Append(@, r)],
         now' = now, NEW j, JobTypes(j)
  PROVE  JobTypeOK(j)'
<1>1. \A e \in j.held : PaneOf(e)' = PaneOf(e)
  BY CountedTypes, TopicGrows
<1>2. {PaneOf(e) : e \in j.held} = {PaneOf(e)' : e \in j.held}
  BY <1>1
<1>3. j.due \subseteq {PaneOf(e)' : e \in j.held}
  BY <1>2 DEF JobTypes
<1>4. \A q \in AllPartitions : j.offset[q] <= Len(topic'[q])
  BY TopicGrows DEF JobTypes, JobRecord
<1> QED BY <1>3, <1>4 DEF JobTypes, JobRecord, JobTypeOK

LEMMA JobPublished ==
  ASSUME TypeOK, NEW p \in AllPartitions, NEW r, topic' = [topic EXCEPT ![p] = Append(@, r)],
         UNCHANGED <<counted, late, highest>>, NEW j, JobTypes(j), JobOK(j)
  PROVE  JobOK(j)'
<1>1. \A e \in j.held : Passing(e)'
  BY CountedTypes, TopicGrows DEF JobOK
<1>2. SeenIsRead(j)'
  <2>1. j.offset["bookings"] \in Nat /\ j.offset["bookings"] <= Len(topic["bookings"])
    BY DEF JobTypes, JobRecord, AllPartitions
  <2>2. \A h \in 1 .. j.offset["bookings"] : topic'["bookings"][h] = topic["bookings"][h]
    BY <2>1, TopicGrows DEF AllPartitions
  <2> SUFFICES ASSUME NEW k \in Branches, NEW b \in Bookings, j.seen[k][b] # Never
               PROVE  \E h \in 1 .. j.offset["bookings"] :
                        topic'["bookings"][h].booking = b
                        /\ (k = "cancelled" => topic'["bookings"][h].cancelled)
    BY DEF SeenIsRead
  <2>3. PICK h \in 1 .. j.offset["bookings"] :
          topic["bookings"][h].booking = b /\ (k = "cancelled" => topic["bookings"][h].cancelled)
    BY DEF JobOK, SeenIsRead
  <2>4. topic'["bookings"][h] = topic["bookings"][h]
    BY <2>2
  <2> QED BY <2>3, <2>4
<1>3. \A e : e \in Settled(j)' =>
               /\ e \in Settled(j) /\ PaneOf(e)' = PaneOf(e) /\ IsGone(e)' = IsGone(e)
  <2> SUFFICES ASSUME NEW e, e \in Settled(j)'
               PROVE  e \in Settled(j) /\ PaneOf(e)' = PaneOf(e) /\ IsGone(e)' = IsGone(e)
    OBVIOUS
  <2>1. e \in Elements /\ e[3] <= j.offset[e[2]] /\ AlwaysTaken(e)' /\ Passing(e)'
    BY DEF Settled
  <2>2. e[2] \in AllPartitions /\ e[3] \in Nat
    BY <2>1, ElementFacts
  <2>3. e[3] <= Len(topic[e[2]])
    <3>1. j.offset[e[2]] \in Nat /\ j.offset[e[2]] <= Len(topic[e[2]]) /\ Len(topic[e[2]]) \in Nat
      BY <2>2 DEF JobTypes, JobRecord, TypeOK
    <3> QED BY <2>1, <2>2, <3>1
  <2> QED BY <2>1, <2>3, TopicGrows DEF Settled, IsGone
<1>4. Known(j)'
  BY <1>3 DEF JobOK, Known, AwaitsLookup
<1>5. Stays(j)'
  BY <1>3 DEF JobOK, Stays, AwaitsLookup
<1> QED BY <1>1, <1>2, <1>4, <1>5 DEF JobOK

LEMMA PublishKeeps ==
  ASSUME PulseInv, NEW p \in AllPartitions, NEW r \in RecordsOf(p),
         topic' = [topic EXCEPT ![p] = Append(@, r)],
         UNCHANGED <<now, job, saved, maxTime, watermark, rows, late, highest, counted, failures>>
  PROVE  PulseInv'
<1>1. TypeOK /\ JobTypes(job) /\ JobTypes(saved) /\ JobOK(job) /\ JobOK(saved)
  BY JobFields DEF PulseInv, TypeOK, JobTypes
<1>2. JobTypeOK(job)' /\ JobTypeOK(saved)'
  <2>1. JobTypeOK(job)'
    BY <1>1, JobTypesPublished
  <2>2. JobTypeOK(saved)'
    BY <1>1, JobTypesPublished
  <2> QED BY <2>1, <2>2
<1>3. JobOK(job)' /\ JobOK(saved)'
  <2>1. JobOK(job)'
    BY <1>1, JobPublished
  <2>2. JobOK(saved)'
    BY <1>1, JobPublished
  <2> QED BY <2>1, <2>2
<1>4. \A q \in AllPartitions : topic'[q] \in Seq(RecordsOf(q)')
  <2> SUFFICES ASSUME NEW q \in AllPartitions PROVE topic'[q] \in Seq(RecordsOf(q))
    BY DEF RecordsOf
  <2>1. topic[q] \in Seq(RecordsOf(q)) /\ q \in DOMAIN topic
    BY <1>1 DEF TypeOK
  <2>2. CASE q = p
    <3>1. topic'[q] = Append(topic[q], r)
      BY <2>1, <2>2
    <3> QED BY <2>1, <2>2, <3>1
  <2>3. CASE q # p
    BY <2>1, <2>3
  <2> QED BY <2>2, <2>3
<1>5. \A e \in counted \union late : e \in Elements /\ e[3] <= Len(topic'[e[2]])
  BY <1>1, TopicGrows DEF TypeOK
<1>6. TypeOK'
  BY <1>1, <1>2, <1>4, <1>5 DEF TypeOK
<1>7. \A e \in counted : Passing(e)' /\ IsGone(e)' = IsGone(e)
  BY <1>1, TopicGrows DEF TypeOK, PulseInv, IsGone
<1>8. DueIsOpen'
  BY DEF PulseInv, DueIsOpen, CurrentMark
<1>9. NothingForgotten'
  BY <1>1, <1>7 DEF PulseInv, NothingForgotten, TypeOK
<1> QED BY <1>3, <1>6, <1>7, <1>8, <1>9 DEF PulseInv

LEMMA SeqGrows ==
  ASSUME NEW S, NEW T, S \subseteq T, NEW s \in Seq(S)
  PROVE  s \in Seq(T)
<1>1. Len(s) \in Nat /\ s \in [1 .. Len(s) -> S]
  OBVIOUS
<1>2. s \in [1 .. Len(s) -> T]
  BY <1>1
<1> QED BY <1>1, <1>2

LEMMA TickKeeps ==
  ASSUME PulseInv, Tick
  PROVE  PulseInv'
<1>1. TypeOK /\ JobTypes(job) /\ JobTypes(saved) /\ JobOK(job) /\ JobOK(saved)
  BY JobFields DEF PulseInv, TypeOK, JobTypes
<1>2. /\ now' = now + 1 /\ now' \in 0 .. MaxTime /\ now \in Nat
      /\ UNCHANGED <<topic, job, saved, maxTime, watermark, rows, late, highest, counted, failures>>
  BY <1>1, TimesAssumption DEF Tick, TypeOK
<1>3. 0 .. now \subseteq 0 .. now'
  BY <1>2
<1>4. \A j : JobTypes(j) => JobTypeOK(j)'
  <2> SUFFICES ASSUME NEW j, JobTypes(j) PROVE JobTypeOK(j)'
    OBVIOUS
  <2>1. {PaneOf(e) : e \in j.held} = {PaneOf(e)' : e \in j.held}
    BY <1>2, TopicStands
  <2>2. j.due \subseteq {PaneOf(e)' : e \in j.held}
    BY <2>1 DEF JobTypes
  <2>3. j.seen \in [Branches -> [Bookings -> {Never} \union 0 .. now']]
    BY <1>3 DEF JobTypes, JobRecord
  <2> QED BY <1>2, <2>2, <2>3 DEF JobTypes, JobRecord, JobTypeOK
<1>5. \A q \in AllPartitions : topic'[q] \in Seq(RecordsOf(q)')
  <2> SUFFICES ASSUME NEW q \in AllPartitions PROVE topic[q] \in Seq(RecordsOf(q)')
    BY <1>2
  <2>1. RecordsOf(q) \subseteq RecordsOf(q)'
    BY <1>3 DEF RecordsOf
  <2> QED BY <2>1, <1>1, SeqGrows DEF TypeOK
<1>6. TypeOK'
  <2>1. maxTime' \in [AllPartitions -> {Never} \union 0 .. now']
    BY <1>1, <1>2, <1>3 DEF TypeOK
  <2>2. \A s \in Sources : highest'[s] <= now'
    BY <1>1, <1>2 DEF TypeOK
  <2>3. JobTypeOK(job)' /\ JobTypeOK(saved)'
    BY <1>1, <1>2, <1>4
  <2> QED BY <2>1, <2>2, <2>3, <1>1, <1>2, <1>5 DEF TypeOK
<1>7. JobOK(job)' /\ JobOK(saved)'
  <2>1. JobTypeOK(job) /\ JobTypeOK(saved) /\ highest' \in [Sources -> Int]
        /\ \A s \in Sources : highest[s] <= highest'[s]
    BY <1>1, <1>2 DEF TypeOK
  <2>2. JobOK(job)'
    BY <2>1, <1>1, <1>2, JobStands
  <2>3. JobOK(saved)'
    BY <2>1, <1>1, <1>2, JobStands
  <2> QED BY <2>2, <2>3
<1>8. \A e : Passing(e)' = Passing(e) /\ IsGone(e)' = IsGone(e)
  BY <1>2, TopicStands DEF IsGone
<1> QED BY <1>2, <1>6, <1>7, <1>8 DEF PulseInv, DueIsOpen, CurrentMark, NothingForgotten

LEMMA CheckpointKeeps ==
  ASSUME PulseInv, Checkpoint
  PROVE  PulseInv'
<1>1. TypeOK /\ JobTypes(job) /\ JobTypeOK(job) /\ JobOK(job)
  BY JobFields DEF PulseInv, TypeOK, JobTypes
<1>2. saved' = job
      /\ UNCHANGED <<now, topic, job, maxTime, watermark, rows, late, highest, counted, failures>>
  BY DEF Checkpoint
<1>3. highest' \in [Sources -> Int] /\ \A s \in Sources : highest[s] <= highest'[s]
  BY <1>1, <1>2 DEF TypeOK
<1>4. JobOK(job)' /\ JobOK(saved)'
  <2>1. JobOK(job)'
    BY <1>1, <1>2, <1>3, JobStands
  <2>2. JobOK(saved)'
    BY <1>1, <1>2, <1>3, JobStands
  <2> QED BY <2>1, <2>2
<1>5. JobTypeOK(job)' /\ JobTypeOK(saved)'
  <2>1. JobTypeOK(job)'
    BY <1>1, <1>2, JobTypesAfter
  <2>2. JobTypeOK(saved)'
    BY <1>1, <1>2, JobTypesAfter
  <2> QED BY <2>1, <2>2
<1>6. TypeOK'
  BY <1>1, <1>2, <1>5 DEF TypeOK, RecordsOf
<1>7. \A e : Passing(e)' = Passing(e) /\ IsGone(e)' = IsGone(e)
  BY <1>2, TopicStands DEF IsGone
<1> QED BY <1>2, <1>4, <1>6, <1>7 DEF PulseInv, DueIsOpen, CurrentMark, NothingForgotten

\* A job that fails has what its checkpoint has, and no watermark.
LEMMA FailFacts ==
  ASSUME PulseInv, Fail
  PROVE  /\ PulseInv'
         /\ \A f \in rows \ rows' : f \notin job.held /\ ~GoneBy(f, watermark)
<1>1. /\ TypeOK /\ JobTypes(job) /\ JobTypes(saved) /\ JobTypeOK(saved) /\ JobOK(job) /\ JobOK(saved)
      /\ rows \subseteq counted
  BY JobFields DEF PulseInv, TypeOK, JobTypes
<1>2. /\ failures < MaxFailures /\ failures' = failures + 1 /\ job' = saved
      /\ maxTime' = [p \in AllPartitions |-> Never]
      /\ watermark' = [s \in Sources |-> NoWatermark]
      /\ UNCHANGED <<now, topic, saved, late>>
  BY DEF Fail
<1>3. /\ rows' \subseteq rows \union job.held /\ counted \subseteq counted' /\ rows' \subseteq counted'
      /\ counted' \subseteq counted \union job.held
      /\ \A f \in rows \ rows' : f \notin job.held /\ ~GoneBy(f, watermark)
      /\ highest' \in [Sources -> Int]
      /\ \A s \in Sources : highest[s] <= highest'[s] /\ highest'[s] <= now
  <2>1. CASE UNCHANGED <<rows, counted, highest>>
    BY <2>1, <1>1 DEF TypeOK
  <2>2. CASE \E source \in Sources : \E mark \in NextWatermarks(source) :
               /\ \E panes \in SUBSET Fired(source, mark) : Stores(job.held, panes)
               /\ Passes(source, mark)
    <3>0. PICK source \in Sources : \E mark \in NextWatermarks(source) :
            /\ \E panes \in SUBSET Fired(source, mark) : Stores(job.held, panes)
            /\ Passes(source, mark)
      BY <2>2
    <3>1. PICK mark \in NextWatermarks(source) :
            /\ \E panes \in SUBSET Fired(source, mark) : Stores(job.held, panes)
            /\ Passes(source, mark)
      BY <3>0
    <3>2. PICK panes \in SUBSET Fired(source, mark) : Stores(job.held, panes)
      BY <3>1
    <3>3. panes \in SUBSET job.due
      BY DEF Fired
    <3>4. /\ highest' \in [Sources -> Int]
          /\ \A s \in Sources : highest[s] <= highest'[s] /\ highest'[s] <= now
      BY <3>1, <1>1, PassesFacts
    <3> QED BY <3>2, <3>3, <3>4, <1>1, StoringDuePanes
  <2> QED BY <2>1, <2>2 DEF Fail
<1>4. JobOK(saved)' /\ JobOK(job)'
  <2>1. JobOK(saved)'
    BY <1>1, <1>2, <1>3, JobStands
  <2>2. JobOK(job)'
    BY <1>1, <1>2, <1>3, JobStands
  <2> QED BY <2>1, <2>2
<1>5. JobTypeOK(saved)' /\ JobTypeOK(job)'
  <2>1. JobTypeOK(saved)'
    BY <1>1, <1>2, JobTypesAfter
  <2>2. JobTypeOK(job)'
    BY <1>1, <1>2, JobTypesAfter
  <2> QED BY <2>1, <2>2
<1>6. TypeOK'
  <2>1. /\ NoWatermark \in Int /\ watermark' \in [Sources -> Int]
        /\ \A s \in Sources : NoWatermark <= watermark'[s] /\ watermark'[s] <= highest'[s]
    <3>1. NoWatermark \in Int
      BY TimesAssumption DEF NoWatermark, Never
    <3>2. \A s \in Sources : NoWatermark <= highest[s] /\ highest[s] \in Int
      BY <3>1, <1>1 DEF TypeOK
    <3>3. \A s \in Sources : NoWatermark <= highest'[s]
      BY <3>1, <3>2, <1>3
    <3> QED BY <3>1, <3>3, <1>2
  <2>2. counted' \subseteq Elements /\ \A e \in counted' : e[3] <= Len(topic[e[2]])
    BY <1>1, <1>3, CountedTypes DEF TypeOK
  <2>3. failures' \in 0 .. MaxFailures
    BY <1>1, <1>2, TimesAssumption DEF TypeOK
  <2>4. maxTime' \in [AllPartitions -> {Never} \union 0 .. now]
    BY <1>2
  <2> QED BY <2>1, <2>2, <2>3, <2>4, <1>1, <1>2, <1>3, <1>5 DEF TypeOK, RecordsOf
<1>7. \A e \in counted' : Passing(e)'
  BY <1>1, <1>2, <1>3, TopicStands DEF JobOK, PulseInv
<1>8. DueIsOpen'
  <2> SUFFICES ASSUME NEW x \in saved.due PROVE ~HasClosed(x, watermark'[SourceOf(x.branch)])
    BY <1>2 DEF DueIsOpen, CurrentMark
  <2>1. PICK e \in saved.held : x = PaneOf(e)
    BY <1>1 DEF JobTypes
  <2>2. e \in Elements /\ e[3] <= Len(topic[e[2]])
    BY <1>1, CountedTypes
  <2>3. watermark'[SourceOf(x.branch)] = NoWatermark
    BY <1>2 DEF SourceOf, Sources
  <2>4. NoWatermark \in Int
    BY TimesAssumption DEF NoWatermark, Never
  <2> QED BY <2>1, <2>2, <2>3, <2>4, <1>1, ClearedFacts
<1>9. NothingForgotten'
  BY <1>1, <1>2 DEF NothingForgotten, TypeOK
<1> QED BY <1>3, <1>4, <1>6, <1>7, <1>8, <1>9 DEF PulseInv

LEMMA PulseInit == Init => PulseInv
<1> SUFFICES ASSUME Init PROVE PulseInv
  OBVIOUS
<1>1. /\ now = 0 /\ topic = [p \in AllPartitions |-> <<>>]
      /\ job = [offset |-> [p \in AllPartitions |-> 0],
                seen |-> [k \in {"created", "cancelled"} |-> [b \in Bookings |-> Never]],
                pending |-> {}, held |-> {}, due |-> {}]
      /\ saved = job /\ maxTime = [p \in AllPartitions |-> Never]
      /\ watermark = [s \in Sources |-> NoWatermark] /\ highest = watermark
      /\ rows = {} /\ late = {} /\ counted = {} /\ failures = 0
  BY DEF Init
<1>2. NoWatermark \in Int /\ NoWatermark <= 0 /\ now \in 0 .. MaxTime /\ failures \in 0 .. MaxFailures
  BY <1>1, TimesAssumption DEF NoWatermark, Never
<1>3. /\ job.offset = [p \in AllPartitions |-> 0] /\ job.held = {} /\ job.due = {} /\ job.pending = {}
      /\ job.seen = [k \in Branches |-> [b \in Bookings |-> Never]] /\ JobRecord(job)
  BY <1>1 DEF JobRecord, Branches
<1>4. JobTypeOK(job)
  BY <1>1, <1>3 DEF JobRecord, JobTypeOK
<1>5. TypeOK
  BY <1>1, <1>2, <1>4 DEF TypeOK
<1>6. Settled(job) = {}
  <2> SUFFICES ASSUME NEW e \in Settled(job) PROVE FALSE
    OBVIOUS
  <2>1. e \in Elements /\ e[3] <= job.offset[e[2]]
    BY DEF Settled
  <2>2. e[2] \in AllPartitions /\ e[3] \in Nat \ {0}
    BY <2>1, ElementFacts
  <2> QED BY <2>1, <2>2, <1>3
<1>7. JobOK(job)
  BY <1>3, <1>6 DEF JobOK, SeenIsRead, Known, Stays
<1> QED BY <1>1, <1>3, <1>5, <1>7 DEF PulseInv, DueIsOpen, NothingForgotten

\* Every step keeps the invariant, and a row only loses what the job does not hold and
\* no watermark it has clears.
LEMMA PulseStep ==
  ASSUME PulseInv, [Next]_vars
  PROVE  /\ PulseInv'
         /\ \A f \in rows \ rows' : f \notin job.held /\ ~GoneBy(f, watermark)
<1>1. TypeOK /\ now \in Nat /\ "bookings" \in AllPartitions /\ Partitions \subseteq AllPartitions
  BY TimesAssumption DEF PulseInv, TypeOK, AllPartitions
<1>2. TimeStamps \subseteq 0 .. now
  BY <1>1, TimesAssumption DEF TimeStamps
<1>3. CASE \E b \in Bookings : PublishBooking(b)
  <2>1. PICK b \in Bookings, t \in TimeStamps, c \in BOOLEAN :
          topic' = [topic EXCEPT !["bookings"] =
                      Append(@, [booking |-> b, cancelled |-> c, time |-> t])]
    BY <1>3 DEF PublishBooking
  <2>2. [booking |-> b, cancelled |-> c, time |-> t] \in RecordsOf("bookings")
    BY <1>2 DEF RecordsOf
  <2>3. UNCHANGED <<now, job, saved, maxTime, watermark, rows, late, highest, counted, failures>>
    BY <1>3 DEF PublishBooking
  <2>4. PulseInv'
    BY <2>1, <2>2, <2>3, <1>1, PublishKeeps
  <2> QED BY <2>3, <2>4
<1>4. CASE \E s \in Snapshots, p \in Partitions : PublishSnapshot(s, p)
  <2>1. PICK s \in Snapshots, p \in Partitions : PublishSnapshot(s, p)
    BY <1>4
  <2>2. PICK t \in TimeStamps : topic' = [topic EXCEPT ![p] = Append(@, [snapshot |-> s, time |-> t])]
    BY <2>1 DEF PublishSnapshot
  <2>3. [snapshot |-> s, time |-> t] \in RecordsOf(p)
    BY <1>2, InputsAssumption DEF RecordsOf
  <2>4. UNCHANGED <<now, job, saved, maxTime, watermark, rows, late, highest, counted, failures>>
    BY <2>1 DEF PublishSnapshot
  <2>5. PulseInv'
    BY <2>2, <2>3, <2>4, <1>1, PublishKeeps
  <2> QED BY <2>4, <2>5
<1>5. CASE Tick
  BY <1>5, TickKeeps DEF Tick
<1>6. CASE JobStep
  BY <1>6, JobStepKeeps DEF Progress
<1>7. CASE Checkpoint
  BY <1>7, CheckpointKeeps DEF Checkpoint
<1>8. CASE Fail
  BY <1>8, FailFacts
<1>9. CASE UNCHANGED vars
  <2>1. UNCHANGED <<now, topic, job, saved, maxTime, watermark, rows, late, highest, counted, failures>>
    BY <1>9 DEF vars
  <2>2. TypeOK' /\ JobOK(job)' /\ JobOK(saved)'
    <3>1. JobTypeOK(job) /\ JobTypeOK(saved) /\ JobOK(job) /\ JobOK(saved)
          /\ JobTypes(job) /\ JobTypes(saved)
          /\ highest' \in [Sources -> Int] /\ \A s \in Sources : highest[s] <= highest'[s]
      BY <2>1, JobFields DEF PulseInv, TypeOK, JobTypes
    <3>2. JobOK(job)'
      BY <3>1, <2>1, <1>1, JobStands
    <3>3. JobOK(saved)'
      BY <3>1, <2>1, <1>1, JobStands
    <3>4. JobTypeOK(job)'
      BY <3>1, <2>1, <1>1, JobTypesAfter
    <3>5. JobTypeOK(saved)'
      BY <3>1, <2>1, <1>1, JobTypesAfter
    <3> QED BY <3>2, <3>3, <3>4, <3>5, <2>1, <1>1 DEF TypeOK, RecordsOf
  <2>3. \A e : Passing(e)' = Passing(e) /\ IsGone(e)' = IsGone(e)
    BY <2>1, TopicStands DEF IsGone
  <2> QED BY <2>1, <2>2, <2>3 DEF PulseInv, DueIsOpen, CurrentMark, NothingForgotten
<1> QED BY <1>3, <1>4, <1>5, <1>6, <1>7, <1>8, <1>9 DEF Next

LEMMA PulseInvariant == Spec => []PulseInv
<1>1. Init => PulseInv
  BY PulseInit
<1>2. PulseInv /\ [Next]_vars => PulseInv'
  BY PulseStep
<1> QED BY <1>1, <1>2, PTL DEF Spec

-------------------------------------------------------------------------------
(* Theorems. *)

\* Offsets, deduplication states, panes and checkpoints stay within the topics, and no
\* watermark runs ahead of the clock (build_job).
THEOREM TypesHold == Spec => []TypeOK
<1>1. PulseInv => TypeOK
  BY DEF PulseInv
<1> QED BY <1>1, PulseInvariant, PTL

\* No booking is dropped without a trace, whatever fails and however often: what the
\* job has read and closed has been stored or is in the log of late records
\* (BookingCreatedDedupFunction, BookingCancelledDedupFunction, side_output_late_data).
THEOREM ClosedPanesAreStored == Spec => []ClosedMeansStored
<1>1. PulseInv => ClosedMeansStored
  <2> SUFFICES ASSUME PulseInv, NextWatermarks("bookings") = {}, job.pending = {},
                      NEW branch \in Branches, NEW i \in 1 .. job.offset["bookings"],
                      FirstOf(branch, i),
                      HasClosed(PaneOf(<<branch, "bookings", i>>),
                                maxTime["bookings"] - OutOfOrderness - 1)
               PROVE  <<branch, "bookings", i>> \in counted \union late
    BY DEF ClosedMeansStored
  <2> DEFINE e == <<branch, "bookings", i>>
             mark == maxTime["bookings"] - OutOfOrderness - 1
  <2>1. TypeOK /\ DueIsOpen /\ Stays(job) /\ JobTypes(job)
    BY JobFields DEF PulseInv, JobOK, TypeOK, JobTypes
  <2>2. "bookings" \in AllPartitions /\ "bookings" \in Sources
    BY DEF AllPartitions, Sources
  <2>3. e \in Elements /\ i \in Nat \ {0}
    <3>1. i \in Nat \ {0}
      BY <2>1, <2>2 DEF JobTypes, JobRecord
    <3> QED BY <3>1, ElementsOfBranches
  <2>4. e \in Settled(job)
    BY <2>1, <2>3 DEF Settled, AlwaysTaken, Passing, Branches
  <2>5. e[3] <= Len(topic[e[2]])
    BY <2>1, <2>4, SettledFacts
  <2>6. mark \in Int /\ watermark["bookings"] \in Int /\ mark <= watermark["bookings"]
    <3>1. maxTime["bookings"] \in Nat \union {Never} /\ watermark["bookings"] \in Int
      <4>1. now \in Nat
        BY <2>1, TimesAssumption DEF TypeOK
      <4> QED BY <4>1, <2>1, <2>2 DEF TypeOK
    <3>2. mark \in Int
      BY <3>1, TimesAssumption DEF Never
    <3>3. Min({maxTime[p] : p \in {"bookings"}}) = maxTime["bookings"]
      <4>1. {maxTime[p] : p \in {"bookings"}} = {maxTime["bookings"]}
        OBVIOUS
      <4>2. Min({maxTime["bookings"]}) \in {maxTime["bookings"]}
        BY <3>1, LeastOf
      <4> QED BY <4>1, <4>2
    <3>4. SUFFICES ASSUME mark > watermark["bookings"] PROVE mark \in NextWatermarks("bookings")
      BY <3>1, <3>2
    <3>5. {"bookings"} \in {a \in SUBSET PartitionsOf("bookings") :
                              a # {} /\ \A p \in PartitionsOf("bookings") \ a : ~Unread(p)}
      BY DEF PartitionsOf
    <3> QED BY <3>3, <3>4, <3>5 DEF NextWatermarks
  <2>7. PaneOf(e) \notin job.due
    <3>1. HasClosed(PaneOf(e), watermark["bookings"])
      BY <2>1, <2>3, <2>5, <2>6, ClearedFacts
    <3>2. CurrentMark(PaneOf(e)) = watermark["bookings"]
      BY <2>1, <2>3, <2>5, PaneFacts DEF SourceOf, Branches
    <3> QED BY <3>1, <3>2, <2>1 DEF DueIsOpen
  <2>8. ~AwaitsLookup(job, e)
    BY DEF AwaitsLookup
  <2>9. e[1] # "pulse"
    BY DEF Branches
  <2> QED BY <2>1, <2>4, <2>7, <2>8, <2>9 DEF Stays
<1> QED BY <1>1, PulseInvariant, PTL

\* A row loses nothing that the job knows of, and without a failure nothing at all
\* (Stored, ALLOWED_LATENESS_MS, put_item).
THEOREM RowsGrow == Spec => RowsOnlyGrow
<1>1. ASSUME PulseInv, [Next]_vars
      PROVE  \A e \in rows : Knows(e) /\ (failures = 0 \/ AlwaysTaken(e)) => e \in rows'
  <2> SUFFICES ASSUME NEW e \in rows, Knows(e), failures = 0 \/ AlwaysTaken(e), e \notin rows'
               PROVE  FALSE
    OBVIOUS
  <2>1. e \notin job.held /\ ~GoneBy(e, watermark)
    BY <1>1, PulseStep
  <2>2. ~IsGone(e)
    BY <2>1 DEF Knows, IsGone, GoneBy
  <2>3. CASE failures = 0
    BY <1>1, <2>1, <2>2, <2>3 DEF PulseInv, NothingForgotten
  <2>4. CASE AlwaysTaken(e)
    <3>1. e \in Elements /\ Passing(e)
      BY <1>1 DEF PulseInv, TypeOK
    <3>2. e \in Settled(job)
      BY <3>1, <2>4 DEF Settled, Knows
    <3>3. ~AwaitsLookup(job, e)
      BY DEF Knows, AwaitsLookup
    <3> QED BY <1>1, <2>1, <2>2, <3>2, <3>3 DEF PulseInv, JobOK, Known
  <2> QED BY <2>3, <2>4
<1> QED BY <1>1, PulseInvariant, PTL DEF Spec, RowsOnlyGrow

===============================================================================

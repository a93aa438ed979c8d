------------------------------ MODULE Analytics ------------------------------
(***************************************************************************)
(* internal/analytics: what BuildDocument derives from a sequence of        *)
(* events.  Counts are exact; a probability is the pair of numbers that it  *)
(* divides, and the intervals around it (Wilson, Beta, Poisson), which are  *)
(* functions of these counts in floating point, are left out.               *)
(*                                                                          *)
(* The maps of the code are functions on the keys present.                  *)
(***************************************************************************)
EXTENDS Integers, Sequences, SequencesExt, FiniteSets, FiniteSetsExt, Functions, TLC

CONSTANTS
  Sizes,        \* the names of the window specs
  Duration,     \* [Sizes -> ticks]
  Intervals     \* survival intervals: a sequence of [from, to], to = 0: open

\* normalizeWindowSpecs keeps the specs, a list, with a positive duration.
ASSUME DurationAssumption == IsFiniteSet(Sizes) /\ Duration \in [Sizes -> Nat \ {0}]

\* DefaultSurvivalIntervals: from 0 on, without gaps, the last one open.
ASSUME IntervalAssumption ==
  /\ Intervals \in Seq([from : Nat, to : Nat]) /\ Intervals # <<>>
  /\ Intervals[1].from = 0 /\ Intervals[Len(Intervals)].to = 0
  /\ \A i \in 1 .. Len(Intervals) - 1 :
       /\ Intervals[i].from < Intervals[i].to
       /\ Intervals[i].to = Intervals[i + 1].from

\* Mutant: to the nearest start of a window.
Nearest(at, duration) == ((at + duration \div 2) \div duration) * duration
\* time.Time.Truncate: to the start of the window.
Truncate(at, duration) == at - (at % duration)

\* The entry of a map, or the zero value; and the map with an entry put.
Entry(map, key, zero) == IF key \in DOMAIN map THEN map[key] ELSE zero
Put(map, key, value) ==
  [k \in DOMAIN map \cup {key} |-> IF k = key THEN value ELSE map[k]]
EventsOf(events) == {events[i] : i \in DOMAIN events}
Sum(S, f(_)) == MapThenSumSet(f, S)
MinOrZero(S) == IF S = {} THEN 0 ELSE Min(S)

-----------------------------------------------------------------------------
\* buildWindows.
WindowOf(e, size) == [size |-> size, start |-> Truncate(e.at, Duration[size])]

\* addEventToAggregate.
Counts(events) ==
  [total |-> Cardinality(events),
   byType |-> [type \in {e.type : e \in events} |->
                 Cardinality({e \in events : e.type = type})],
   byStatus |-> [k \in {<<e.type, e.status>> : e \in events} |->
                   Cardinality({e \in events : <<e.type, e.status>> = k})],
   quantity |-> [t \in {e.ticket : e \in events} \ {0} |->
                   Sum({e \in events : e.ticket = t}, LAMBDA e : e.quantity)],
   checkIns |-> Cardinality({e \in events : e.type = "checkin.completed"})]

Windows(events) ==
  LET all == EventsOf(events)
  IN [w \in {WindowOf(e, size) : e \in all, size \in Sizes} |->
        Counts({e \in all : WindowOf(e, w.size) = w})]

-----------------------------------------------------------------------------
\* buildFunnelRecords.  saleReachedPending of the status the sale has now.
\* Mutant: without the sales that went on to be paid.
OnlyPending(status) == status = "PENDING_PAYMENT"
ReachedPending(status) == status \in {"PENDING_PAYMENT", "COMPLETED"}

NoRecord ==
  [at |-> 0, accepted |-> FALSE, pending |-> FALSE, paid |-> FALSE,
   provider |-> "", issued |-> FALSE, checkedIn |-> FALSE]

\* What a payment does to a record.
Paying(record, e) ==
  [record EXCEPT !.provider = e.provider,
                 !.paid = @ \/ e.status = "APPROVED"]

\* Mutant: a record that appears later knows nothing of the sale's payment.
NoDefaults(f, e) == NoRecord

\* A record begins with what is known of its sale.
Inherited(f, e) ==
  [Entry(f.defaults, e.sale, NoRecord) EXCEPT !.issued = FALSE, !.checkedIn = FALSE]

ApplyTo(record, e) ==
  CASE e.type = "sale.item.created" ->
         [record EXCEPT !.accepted = TRUE,
                        !.pending = @ \/ ReachedPending(e.status),
                        !.at = IF @ = 0 \/ e.at < @ THEN e.at ELSE @]
    [] e.type = "ticket.issued" -> [record EXCEPT !.issued = TRUE]
    [] e.type = "checkin.completed" -> [record EXCEPT !.checkedIn = TRUE]

\* One event after another, in the order of the history.
AddToFunnel(f, e) ==
  CASE e.type = "sale.created" ->
         [f EXCEPT !.defaults = Put(@, e.sale,
            [Entry(f.defaults, e.sale, NoRecord) EXCEPT
               !.at = e.at, !.accepted = TRUE, !.pending = ReachedPending(e.status)])]
    [] e.type = "payment.processed" ->
         [defaults |-> Put(f.defaults, e.sale,
                           Paying(Entry(f.defaults, e.sale, NoRecord), e)),
          records |-> [k \in DOMAIN f.records |->
                         IF k[1] = e.sale THEN Paying(f.records[k], e)
                                          ELSE f.records[k]]]
    [] e.ticket # 0 ->
         LET k == <<e.sale, e.ticket>>
         IN [f EXCEPT !.records = Put(@, k, ApplyTo(Entry(@, k, Inherited(f, e)), e))]
    [] OTHER -> f

\* Records by sale and ticket type; those never accepted are dropped.
FunnelRecords(events) ==
  LET empty == [k \in {} |-> 0]
      built == FoldLeft(AddToFunnel, [defaults |-> empty, records |-> empty],
                        events).records
  IN [k \in {q \in DOMAIN built : built[q].at # 0} |->
        [built[k] EXCEPT !.provider = IF @ = "" THEN "unknown" ELSE @]]

\* BuildFunnelSegments and addRecordToFunnelCounts.
SegmentOf(k, record, size) ==
  [ticket |-> k[2], provider |-> record.provider, size |-> size,
   start |-> Truncate(record.at, Duration[size])]

\* buildFunnelSteps: trials and successes of each step.
Steps == << <<"accepted", "pending">>, <<"pending", "paid">>,
            <<"paid", "issued">>, <<"issued", "checkedIn">> >>

FunnelSegments(events) ==
  LET records == FunnelRecords(events)
      accepted == {k \in DOMAIN records : records[k].accepted}
  IN [g \in {SegmentOf(k, records[k], size) : k \in accepted, size \in Sizes} |->
        LET inside == {k \in accepted : SegmentOf(k, records[k], g.size) = g}
            reached(stage) == Cardinality({k \in inside : records[k][stage]})
        IN [i \in DOMAIN Steps |-> [trials |-> reached(Steps[i][1]),
                                    successes |-> reached(Steps[i][2])]]]

-----------------------------------------------------------------------------
\* buildSurvivalRecords: the earliest event of each kind, for a sale or for a
\* ticket type of it.
Earliest(events, Wanted(_)) == MinOrZero({e.at : e \in {x \in EventsOf(events) : Wanted(x)}})

AcceptedAt(events, s) ==
  Earliest(events, LAMBDA e : e.sale = s /\ e.type \in {"sale.created", "sale.item.created"})
PaymentAt(events, s) ==
  Earliest(events, LAMBDA e : /\ e.sale = s /\ e.type = "payment.processed"
                              /\ e.status = "APPROVED")
EmailSentAt(events, s) ==
  Earliest(events, LAMBDA e : e.sale = s /\ e.type = "email.sent")
ItemAt(events, k) ==
  Earliest(events, LAMBDA e : <<e.sale, e.ticket>> = k /\ e.type = "sale.item.created")
CheckInAt(events, k) ==
  Earliest(events, LAMBDA e : <<e.sale, e.ticket>> = k /\ e.type = "checkin.completed")

\* survivalObservationFromTimes; of records that were accepted.
Observations(start, end, censorAt) ==
  [k \in {q \in DOMAIN start : start[q] # 0} |->
     LET until == IF end[k] = 0 THEN censorAt ELSE end[k]
     IN [duration |-> Max({0, until - start[k]}), observed |-> end[k] # 0]]

\* Mutant: both ends of an interval belong to it.
Within2(d, interval) == d >= interval.from /\ (interval.to = 0 \/ d <= interval.to)
\* durationInInterval.
Within(d, interval) == d >= interval.from /\ (interval.to = 0 \/ d < interval.to)

\* buildHazardTable.
HazardTable(obs) ==
  [i \in DOMAIN Intervals |->
     LET inside == {k \in DOMAIN obs : Within(obs[k].duration, Intervals[i])}
     IN [atRisk |-> Cardinality({k \in DOMAIN obs : obs[k].duration >= Intervals[i].from}),
         events |-> Cardinality({k \in inside : obs[k].observed}),
         censored |-> Cardinality({k \in inside : ~obs[k].observed})]]

\* nearestRankPercentile.
NearestRank(sorted, percent) ==
  LET rank == (percent * Len(sorted) + 99) \div 100
  IN sorted[Min({Max({rank, 1}), Len(sorted)})]

\* The durations in ascending order: the i-th is the least that i of them do
\* not exceed.
Ascending(obs, observed) ==
  LET upTo(d) == Cardinality({k \in observed : obs[k].duration <= d})
  IN [i \in 1 .. Cardinality(observed) |->
        Min({d \in {obs[k].duration : k \in observed} : upTo(d) >= i})]

\* observedPercentiles.
Percentiles(obs) ==
  LET observed == {k \in DOMAIN obs : obs[k].observed}
  IN IF observed = {} THEN <<>>
     ELSE [p \in {50, 90, 95} |-> NearestRank(Ascending(obs, observed), p)]

\* newSurvivalAnalysis.
Analysis(obs) ==
  [observationCount |-> Cardinality(DOMAIN obs),
   eventCount |-> Cardinality({k \in DOMAIN obs : obs[k].observed}),
   percentiles |-> Percentiles(obs),
   hazardTable |-> HazardTable(obs)]

\* The observations of time_to_payment, time_to_email_sent, time_to_check_in.
SurvivalObservations(events, censorAt) ==
  LET all == EventsOf(events)
      saleIds == {e.sale : e \in all}
      lines == {<<e.sale, e.ticket>> : e \in {x \in all : x.ticket # 0}}
      accepted == [s \in saleIds |-> AcceptedAt(events, s)]
  IN << Observations(accepted, [s \in saleIds |-> PaymentAt(events, s)], censorAt),
        Observations(accepted, [s \in saleIds |-> EmailSentAt(events, s)], censorAt),
        Observations([k \in lines |-> ItemAt(events, k)],
                     [k \in lines |-> CheckInAt(events, k)], censorAt) >>

\* BuildSurvivalAnalyses: of those that have an observation.
SurvivalAnalyses(events, censorAt) ==
  LET observations == SurvivalObservations(events, censorAt)
  IN [i \in {j \in DOMAIN observations : DOMAIN observations[j] # {}} |->
        Analysis(observations[i])]
=============================================================================

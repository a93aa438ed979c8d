--------------------------- MODULE AnalyticsExport ---------------------------
(***************************************************************************)
(* The analytics export over the history of the sales: what BuildDocument   *)
(* says, in every state of the tables, against what the tables say.         *)
(***************************************************************************)
EXTENDS SalesHistory, AnalyticsDemand

CONSTANTS
  Bounds,       \* bounds of the period that an export may be given; 0: none
  Limits        \* limits on its events

ASSUME LimitAssumption == Limits \subseteq Nat

\* What the exports of this state may be built from.
Everything == Sorted(AllEvents)
Exports ==
  {ReadEvents(AllEvents, start, end, limit) : start, end \in Bounds, limit \in Limits}

-----------------------------------------------------------------------------
(* The funnel has one record for every line of every sale, and it says what *)
(* the tables say of it: accepted when the sale or its line was written,     *)
(* whichever is earlier, pending, paid, issued and checked in as they are,   *)
(* with the provider of the payment; whatever the times that the API and     *)
(* the payment provider wrote, and so in whatever order the events come.     *)
FunnelMatchesTables ==
  LET records == FunnelRecords(Everything)
  IN /\ DOMAIN records = UNION {{s} \X Line(s) : s \in DOMAIN sales}
     /\ \A k \in DOMAIN records :
          LET r == sales[k[1]]
          IN records[k] = [at |-> Min({r.createdAt, r.itemsAt}),
                           accepted |-> TRUE,
                           pending |-> r.status \in {"PENDING_PAYMENT", "COMPLETED"},
                           paid |-> r.payment = "APPROVED",
                           provider |-> r.provider,
                           issued |-> r.issuedAt > 0,
                           checkedIn |-> \E u \in DOMAIN r.checkIns : u[1] = k[2]]

(* In the funnel of the whole history a stage never has more successes than *)
(* trials, so that no conversion is clamped to 1, unless a sale was reset by *)
(* a repeated request after tickets were issued; and the segments of every   *)
(* window size count every line once.                                        *)
FunnelCascades ==
  LET segments == FunnelSegments(Everything)
      lines == UNION {{s} \X Line(s) : s \in DOMAIN sales}
  IN /\ \A g \in DOMAIN segments, i \in DOMAIN Steps :
          \/ segments[g][i].successes <= segments[g][i].trials
          \/ \E s \in reopened : sales[s].issuedAt > 0 /\ g.ticket \in Line(s)
     /\ \A size \in Sizes :
          Sum({g \in DOMAIN segments : g.size = size},
              LAMBDA g : segments[g][1].trials) = Cardinality(lines)

IsChain(a) ==
  LET table == a.hazardTable
      gone(b) == b.events + b.censored
  IN /\ table[1].atRisk = a.observationCount
     /\ \A i \in 1 .. Len(table) - 1 : table[i + 1].atRisk = table[i].atRisk - gone(table[i])
     /\ table[Len(table)].atRisk = gone(table[Len(table)])
     /\ FoldLeft(LAMBDA n, b : n + b.events, 0, table) = a.eventCount

IsPercentile(obs, p, value) ==
  LET observed == {k \in DOMAIN obs : obs[k].observed}
      upTo(v) == 100 * Cardinality({k \in observed : obs[k].duration <= v})
  IN value = Min({v \in {obs[k].duration : k \in observed} :
                    upTo(v) >= p * Cardinality(observed)})

\* Of one set of observations.
AddsUp(obs) ==
  LET a == Analysis(obs)
  IN IsChain(a) /\ \A p \in DOMAIN a.percentiles : IsPercentile(obs, p, a.percentiles[p])

(* Every observation is in one interval of the hazard table, the table is a *)
(* chain (who is at risk in an interval was at risk in the one before and    *)
(* neither had the event nor was censored there), and a percentile is the    *)
(* smallest observed duration that enough observations do not exceed.        *)
SurvivalAddsUp ==
  \A events \in Exports :
    LET observations == SurvivalObservations(events, now)
    IN \A i \in DOMAIN observations : AddsUp(observations[i])

Inside(w, e) == w.start <= e.at /\ e.at < w.start + Duration[w.size]

\* Of the windows of some events.
Partitioned(events) ==
  LET windows == Windows(events)
      totals(W) == Sum(W, LAMBDA w : windows[w].total)
      ofSize(size) == {w \in DOMAIN windows : w.size = size}
  IN /\ \A size \in Sizes : totals(ofSize(size)) = Len(events)
     /\ \A w \in DOMAIN windows :
          /\ windows[w] = Counts({e \in EventsOf(events) : Inside(w, e)})
          /\ \A size \in Sizes :
               Duration[w.size] % Duration[size] = 0 =>
                 windows[w].total =
                   totals({v \in ofSize(size) : Inside(w, [at |-> v.start])})

(* The windows of a size partition the events: each window counts exactly   *)
(* the events from its start to its end, and a window of a longer size is   *)
(* the sum of the shorter ones inside it.                                    *)
WindowsPartition == \A events \in Exports : Partitioned(events)

Between(mean, values) ==
  /\ Min(Range(values)) * mean.count <= mean.sum
  /\ mean.sum <= Max(Range(values)) * mean.count

\* A forecast of a series of demands.
Forecasts(f, series) ==
  /\ f.train > 0 /\ f.test \in 1 .. f.train
  /\ f.train + f.test = Len(series)
  /\ Between(f.forecast, series)
  /\ \A i \in DOMAIN f.predicted : Between(f.predicted[i], SubSeq(series, 1, i - 1))

\* The stockout risk of a ticket type of which some are left.
RiskAgrees(events, t, left) ==
  LET risk == StockoutRisk(events, t, left)
      forecasts == DemandForecasts(events)
      k == <<t, StockoutSize>>
  IN left > 0 =>
       /\ risk.status = "estimated" <=> k \in DOMAIN forecasts
       /\ k \in DOMAIN forecasts =>
            risk.windows = forecasts[k].train + forecasts[k].test

(* No sale is lost between the windows of a demand series, whatever its     *)
(* window size; a forecast learns from at least one window and is tested on *)
(* another, never on more windows than it learns from, it lies between the  *)
(* least and the greatest demand seen; and the forecasts and the stockout    *)
(* risks, which are computed apart, agree on which tickets have enough       *)
(* history.                                                                  *)
DemandAddsUp ==
  \A events \in Exports :
    LET forecasts == DemandForecasts(events)
    IN /\ \A t \in Ticket, size \in Sizes :
            Total(Series(events, t, size)) =
              Sum({e \in Items(events) : e.ticket = t}, LAMBDA e : e.quantity)
       /\ \A k \in DOMAIN forecasts : Forecasts(forecasts[k], Series(events, k[1], k[2]))
       /\ \A t \in Ticket : RiskAgrees(events, t, available[t])

(* The two exporters agree: the sample of the simulation priors, counted    *)
(* from events, is the summary that cmd/optiflow-export counts from rows,    *)
(* and its mode is the demand of a sale;                                     *)
(* the analyses of survival have an event for each sale completed and for   *)
(* each email sent; the priors of the conversion stages count every line     *)
(* once for EACH window size.                                                *)
ExportsAgree ==
  LET events == Everything
      sample == SampleSize(events)
      analyses == SurvivalAnalyses(events, now)
      priors == StagePriors(FunnelSegments(events))
      windows == Windows(events)
      lines(P(_)) == Sum({s \in DOMAIN sales : P(s)}, LAMBDA s : Cardinality(Line(s)))
  IN /\ sample.saleCount = SalesSummary.saleCount
     /\ sample.completedSaleCount = SalesSummary.completedSaleCount
     /\ sample.totalItems = SalesSummary.totalItems
     /\ DOMAIN sample.demands # {} =>
          /\ Deviations(sample.demands) < Cardinality(DOMAIN sample.demands)
          /\ sample.completedItems >= Mode(sample.demands)
     /\ sample.saleCount > 0 =>
          /\ analyses[1].eventCount = SalesSummary.completedSaleCount
          /\ analyses[2].eventCount = Cardinality({s \in DOMAIN sales : sales[s].sentAt > 0})
     /\ priors[2].successes =
          Cardinality(Sizes) * lines(LAMBDA s : sales[s].status = "COMPLETED")
     /\ Sum({w \in DOMAIN windows : w.size = StockoutSize},
            LAMBDA w : windows[w].checkIns) = SalesSummary.checkedIn
=============================================================================

--------------------------- MODULE AnalyticsDemand ---------------------------
(***************************************************************************)
(* internal/analytics, continued: demand series and their forecasts,        *)
(* stockout risks, and the priors that a simulation takes from all of it.   *)
(* A mean is the pair of its sum and its count.                             *)
(***************************************************************************)
EXTENDS Analytics

CONSTANTS
  AverageWindow,    \* windows of a moving average
  MaxSeries,        \* longest series that is forecast
  StockoutSize      \* the window size of the stockout risks

\* DefaultDemandForecastOptions, DefaultStockoutRiskOptions.
ASSUME DemandAssumption ==
  AverageWindow \in Nat \ {0} /\ MaxSeries \in Nat /\ StockoutSize \in Sizes

\* eventQuantity.
Quantity(e) == IF e.quantity <= 0 THEN 1 ELSE e.quantity

\* Mutant: the window that is still open is not part of the series.
UntilLast(first, last, duration) == (last - first) \div duration
\* denseDemandWindowCount.
WindowCount(first, last, duration) == (last - first) \div duration + 1

\* buildDemandSeries and denseDemandQuantities: the windows without a sale,
\* between two with one, count as 0.
Items(events) == {e \in EventsOf(events) : e.type = "sale.item.created"}
Series(events, ticket, size) ==
  LET items == {e \in Items(events) : e.ticket = ticket}
      starts == {WindowOf(e, size).start : e \in items}
      d == Duration[size]
  IN IF items = {} THEN <<>>
     ELSE [i \in 1 .. WindowCount(Min(starts), Max(starts), d) |->
             Sum({e \in items : WindowOf(e, size).start = Min(starts) + (i - 1) * d},
                 Quantity)]

Total(quantities) == FoldLeft(+, 0, quantities)

\* movingAverage.
MovingAverage(values) ==
  LET last == SubSeq(values, Max({1, Len(values) - AverageWindow + 1}), Len(values))
  IN [sum |-> Total(last), count |-> Len(last)]

\* demandTestWindowCount: a quarter of the series.
TestWindows(n) == Min({(n + 3) \div 4, n - 1})

\* buildDemandForecast.
Forecast(quantities) ==
  LET n == Len(quantities)
      train == n - TestWindows(n)
  IN [train |-> train,
      test |-> TestWindows(n),
      predicted |-> [i \in train + 1 .. n |-> MovingAverage(SubSeq(quantities, 1, i - 1))],
      forecast |-> MovingAverage(quantities)]

\* BuildDemandForecasts.
DemandForecasts(events) ==
  LET series == [k \in {e.ticket : e \in Items(events)} \X Sizes |->
                   Series(events, k[1], k[2])]
  IN [k \in {q \in DOMAIN series : Len(series[q]) \in 2 .. MaxSeries} |->
        Forecast(series[k])]

\* buildStockoutRisk: the status, and the mean that the Poisson rate is.
StockoutRisk(events, ticket, available) ==
  LET series == Series(events, ticket, StockoutSize)
      risk == [status |-> "estimated", windows |-> Len(series), demand |-> Total(series)]
  IN CASE available <= 0 ->
            [risk EXCEPT !.status = "stockout", !.windows = 0, !.demand = 0]
       [] available > 0 /\ series = <<>> -> [risk EXCEPT !.status = "no_observed_demand"]
       [] available > 0 /\ Len(series) > MaxSeries ->
            [status |-> "insufficient_history", windows |-> 0, demand |-> 0]
       [] available > 0 /\ Len(series) = 1 ->
            [risk EXCEPT !.status = "insufficient_history"]
       [] OTHER -> risk

-----------------------------------------------------------------------------
\* Mutant: a payment that was rejected completes the sale too.
Processed(events, s) ==
  \E e \in EventsOf(events) : e.sale = s /\ e.type = "payment.processed"
\* buildSalePriorRecords: whether the sale counts as completed.
Completed(events, s) ==
  \E e \in EventsOf(events) :
    /\ e.sale = s
    /\ \/ e.type = "sale.created" /\ e.status = "COMPLETED"
       \/ e.type = "payment.processed" /\ e.status = "APPROVED"

Demand(events, s) == Sum({e \in Items(events) : e.sale = s}, Quantity)

\* simulationPriorSampleSize, and the demands of the completed sales.
SampleSize(events) ==
  LET saleIds == {e.sale : e \in EventsOf(events)}
      completed == {s \in saleIds : Completed(events, s)}
  IN [saleCount |-> Cardinality(saleIds),
      completedSaleCount |-> Cardinality(completed),
      cancelledSaleCount |-> Cardinality(saleIds) - Cardinality(completed),
      totalItems |-> Sum(saleIds, LAMBDA s : Demand(events, s)),
      completedItems |-> Sum(completed, LAMBDA s : Demand(events, s)),
      demands |-> [s \in {c \in completed : Demand(events, c) > 0} |-> Demand(events, s)]]

\* intMode: the smallest of the most frequent.
Mode(demands) ==
  LET times(v) == Cardinality({s \in DOMAIN demands : demands[s] = v})
      values == Range(demands)
  IN MinOrZero({v \in values : \A w \in values : times(w) <= times(v)})
Deviations(demands) == Cardinality({s \in DOMAIN demands : demands[s] # Mode(demands)})

\* aggregateConversionStagePriors: over the segments of all window sizes.
StagePriors(segments) ==
  [i \in DOMAIN Steps |->
     [trials |-> Sum(DOMAIN segments, LAMBDA g : segments[g][i].trials),
      successes |-> Sum(DOMAIN segments, LAMBDA g : segments[g][i].successes)]]
=============================================================================

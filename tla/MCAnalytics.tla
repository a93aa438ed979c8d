----------------------------- MODULE MCAnalytics -----------------------------
\* Two sales of two ticket types, at four moments.
EXTENDS AnalyticsExport

MCSale == {1, 2}
MCTicket == {1, 2}
MCStock == (1 :> 3) @@ (2 :> 2)
MCOrders == {(1 :> 2) @@ (2 :> 0), (1 :> 1) @@ (2 :> 1)}
MCDuration == ("1m" :> 1) @@ ("5m" :> 2)
MCIntervals == <<[from |-> 0, to |-> 1], [from |-> 1, to |-> 3], [from |-> 3, to |-> 0]>>
=============================================================================

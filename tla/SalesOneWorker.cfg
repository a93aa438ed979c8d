\* One worker process, as docker-compose.yml deploys it; no ticket twice in a
\* request.
SPECIFICATION FairSpec
CONSTANTS
  Sale = {s1, s2}
  NoSale = NoSale
  Ticket = {t1, t2}
  Worker = {w1}
  Provider = {"card", "pix"}
  Stock <- MCStock
  MaxQuantity = 2
  Quantities = {2}
  FurtherLines = {0}
  Requests <- MCRequests
  MaxFaults = 2
INVARIANTS TypeOK StockConserved SettlementConsistent AckedIsPersisted
PROPERTIES LifecycleSpec AcceptedIsDecided
CHECK_DEADLOCK FALSE

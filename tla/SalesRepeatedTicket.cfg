\* A request that names a ticket in two lines.
SPECIFICATION Spec
CONSTANTS
  Sale = {s1}
  NoSale = NoSale
  Ticket = {t1}
  Worker = {w1}
  Provider = {"card"}
  Stock <- MCStock
  MaxQuantity = 1
  Quantities = {1}
  FurtherLines = {0, 1}
  Requests <- MCRequests
  MaxFaults = 0
INVARIANTS FailedSalesRestoreStock
CHECK_DEADLOCK FALSE

\* One sale on its way to the door, with a crash, a lost connection or a batch
\* of the relay that is undone, twice.
SPECIFICATION FairSystemSpec
CONSTANTS
  Sale = {s1}
  NoSale = NoSale
  Ticket = {t1}
  Worker = {w1, w2}
  Provider = {"card"}
  Gate = {g1}
  NoUnit = NoUnit
  Stock <- MCStock
  MaxQuantity = 1
  Quantities = {1}
  FurtherLines = {0}
  Requests <- MCRequests
  MaxFaults = 2
PROPERTIES PaidGetsTickets
CHECK_DEADLOCK FALSE

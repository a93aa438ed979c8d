\* From POST /sales to the door: two workers, two gates, and two sales that
\* compete for one ticket type.
SPECIFICATION SystemSpec
CONSTANTS
  Sale = {s1, s2}
  NoSale = NoSale
  Ticket = {t1}
  Worker = {w1, w2}
  Provider = {"card"}
  Gate = {g1, g2}
  NoUnit = NoUnit
  Stock <- MCStock
  MaxQuantity = 1
  Quantities = {1}
  FurtherLines = {0}
  Requests <- MCRequests
  MaxFaults = 1
SYMMETRY Symmetry
INVARIANTS SystemTypeOK NeverOversold AdmittedWithinStock SettlementsBounded
PROPERTIES PromiseSpec
CHECK_DEADLOCK FALSE

\* Two workers publish; batches of two events may be undone, twice.
SPECIFICATION FairSpec
CONSTANTS
  Event = {e1, e2}
  Routable = {e1}
  Publisher = {p1, p2}
  BatchSize = 2
  MaxFaults = 2
INVARIANTS TypeOK CopiesBounded OpenIsSelectable
PROPERTIES RelaySpec EventDecided
CHECK_DEADLOCK FALSE

\* A call on a connection that was lost.
SPECIFICATION FairSpec
CONSTANTS
  Call = {m1, m2}
  NoCall = NoCall
  Unroutable = {}
  Cancellable = {}
  MayClose = TRUE
PROPERTIES EveryCallReturns
CHECK_DEADLOCK FALSE

\* Three calls on one connection: one may be cancelled, one is unroutable, and
\* the connection may be lost.
SPECIFICATION FairSpec
CONSTANTS
  Call = {m1, m2, m3}
  NoCall = NoCall
  Unroutable = {m3}
  Cancellable = {m1}
  MayClose = TRUE
INVARIANTS TypeOK NilMeansEnqueued ErrorMeansNotEnqueued
PROPERTIES ReturnsWhileOpen
CHECK_DEADLOCK FALSE

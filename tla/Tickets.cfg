\* One sale published twice, two workers, two retriers, every kind of fault.
SPECIFICATION FairSpec
CONSTANTS
  Sale = {s1}
  NoSale = NoSale
  Consumer = {c1, c2}
  Retrier = {r1, r2}
  MaxAttempts = 5
  BatchSize = 1
  MaxCopies = 2
  MaxFaults = 2
INVARIANTS TypeOK SentIsTrue EmailsBounded UnsentIsOnRecord
PROPERTIES EmailedOrGivenUp
CHECK_DEADLOCK FALSE

\* A runner of an old release and two of a new one, started four times in all,
\* with two faults; two of the four files have the same version.
SPECIFICATION MigrateSpec
CONSTANTS
  old = old
  new = new
  next = next
  broken = broken
  bad = bad
  one = one
  two = two
  other = other
  three = three
  Runner = {old, new, next, broken}
  File = {one, two, other, three, bad}
  Malformed = {bad}
  Version <- MCVersion
  Up <- MCUp
  Directory <- MCDirectory
  MaxRuns = 4
  MaxFaults = 2
INVARIANTS TypeOK AppliedOnce AppliedInOrder SuccessIsComplete
CHECK_DEADLOCK FALSE

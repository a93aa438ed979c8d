\* Three transactions at a time, on two sales of two customers for one event.
SPECIFICATION LocksSpec
CONSTANTS
  n1 = n1
  n2 = n2
  n3 = n3
  s1 = s1
  s2 = s2
  e = e
  c = c
  d = d
  t1 = t1
  t2 = t2
  Session = {n1, n2, n3}
  Sale = {s1, s2}
  Event <- MCEvent
  Customer <- MCCustomer
  Lines <- MCLines
SYMMETRY Symmetry
INVARIANTS  ReleaseNeverWaits

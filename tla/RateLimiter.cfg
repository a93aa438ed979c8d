\* Two clients, one of them spelled in two ways, and two requests at a time;
\* the time to live is as short as the assumption allows.
SPECIFICATION LimiterSpec
CONSTANTS
  a1 = a1
  a2 = a2
  a3 = a3
  v4 = v4
  v6 = v6
  Address = {a1, a2, a3}
  Client = {v4, v6}
  ClientOf <- MCClientOf
  Request = {q1, q2}
  Idle = Idle
  NoAnswer = NoAnswer
  Burst = 2
  Cost = 2
  Ttl = 4
  MaxWait = 1
  MaxTime = 11
INVARIANTS TypeOK
PROPERTIES NeverForgets
CHECK_DEADLOCK FALSE

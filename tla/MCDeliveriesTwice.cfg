\* As MCDeliveries, but a lease may lapse while its handler runs, so that a second
\* runner is given the message.
SPECIFICATION Spec
CONSTANTS
  Runners = {r1, r2}
  Drainers = {d1, d2}
  Messages = {m1, m2}
  Values = {v1, v2}
  Nothing = Nothing
  MaxRetries = 1
  MaxSeq = 2
  MaxDeliveries = 3
  Exclusive = FALSE
SYMMETRY Symmetry
INVARIANTS AppliedOnce

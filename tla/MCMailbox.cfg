\* Two runners poll the inbox of one worker; callers number their messages
\* above every number in use.  Bounds: five keys, so that both messages can be
\* requeued or replayed; a clock of three readings, so that a lease (one tick)
\* can lapse and its successor be granted; a retry budget of two, below the
\* count's limit of three.  An idle inbox is a proper end.
SPECIFICATION Spec
CONSTANTS
  Runners = {r1, r2}
  Messages = {m1, m2}
  NoMsg = NoMsg
  MaxSeq = 4
  MaxCount = 3
  MaxTime = 2
  LeaseTtl = 1
  RequeueMax = 2
  RetryBudget = 2
  Coordinated = TRUE
SYMMETRY Symmetry
CHECK_DEADLOCK FALSE
INVARIANTS LeaseHonoured ExclusiveClaim HeadOnly FrameMatches NoMessageLost SingleCopy IInv
PROPERTY ImplementsLedger

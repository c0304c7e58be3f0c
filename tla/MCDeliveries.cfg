\* Two runners with publishers that both start at 0, two drains, two messages;
\* four calls of the shim, so that one message is delivered again after any
\* failure while the other is under way; one retry; outbox numbers 0 and 1.
SPECIFICATION Spec
CONSTANTS
  Runners = {r1, r2}
  Drainers = {d1, d2}
  Messages = {m1, m2}
  Values = {v1, v2}
  Nothing = Nothing
  MaxRetries = 1
  MaxSeq = 2
  MaxDeliveries = 4
  Exclusive = TRUE
SYMMETRY Symmetry
INVARIANTS AppliedOnce AnswersAreBacked NoReplyLost

\* A failure or a stop against a receiver between its look and its sleep.
SPECIFICATION Spec
CONSTANTS
  NumWorkers = 3
  Mailboxes = {"a", "b"}
  Inboxes <- MCInboxes
  Outboxes <- MCOutboxes
  Depth = 1
  MaxCalls = 2
  None = None
CHECK_DEADLOCK FALSE
INVARIANT JoinNotStranded

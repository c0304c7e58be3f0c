\* One sender, two receivers of different mailboxes.  Bounds: depth one, so that
\* a send can be refused; two calls a guest, so that a receiver can be woken for
\* nothing and wait again.  A cleared session, or one waiting for its caller or for
\* mail, is a proper end.
SPECIFICATION FairSpec
CONSTANTS
  NumWorkers = 3
  Mailboxes = {"a", "b"}
  Inboxes <- MCInboxes
  Outboxes <- MCOutboxes
  Depth = 1
  MaxCalls = 2
  None = None
CHECK_DEADLOCK FALSE
INVARIANTS PhaseTruthful ErrorSurfaces NoMailMissed
PROPERTY JoinReturns

--------------------------- MODULE MessageLedger ---------------------------
(***************************************************************************)
(* What a worker's inbox promises about each message, whatever runners,    *)
(* leases and sequence numbers do underneath: a message is in exactly one  *)
(* place, is acknowledged only after its handler succeeded on it, and      *)
(* becomes a dead letter only after its handler failed often enough.       *)
(* Handlers run at least once and may run again at any later time.         *)
(***************************************************************************)
EXTENDS Naturals

CONSTANTS Messages, RetryBudget

VARIABLES
  place,     \* where each message is
  handled,   \* messages whose handler has succeeded at least once
  failed     \* retryable handler failures, counted up to RetryBudget

vars == <<place, handled, failed>>

Places == {"unsent", "queued", "dead", "settled", "drained"}

Init ==
  /\ place = [m \in Messages |-> "unsent"]
  /\ handled = {}
  /\ failed = [m \in Messages |-> 0]

Move(m, from, to) ==
  /\ place[m] = from
  /\ place' = [place EXCEPT ![m] = to]
  /\ UNCHANGED <<handled, failed>>

Send(m)   == Move(m, "unsent", "queued")
Settle(m) == m \in handled /\ Move(m, "queued", "settled")
Bury(m)   == failed[m] = RetryBudget /\ Move(m, "queued", "dead")
Replay(m) == Move(m, "dead", "queued")
Drain(m)  == Move(m, "dead", "drained")

Succeed(m) ==
  /\ place[m] # "unsent"
  /\ handled' = handled \cup {m}
  /\ UNCHANGED <<place, failed>>

Fail(m) ==
  /\ place[m] # "unsent"
  /\ failed[m] < RetryBudget
  /\ failed' = [failed EXCEPT ![m] = @ + 1]
  /\ UNCHANGED <<place, handled>>

Next ==
  \E m \in Messages :
    \/ Send(m) \/ Settle(m) \/ Bury(m) \/ Replay(m) \/ Drain(m)
    \/ Succeed(m) \/ Fail(m)

Spec == Init /\ [][Next]_vars

============================================================================

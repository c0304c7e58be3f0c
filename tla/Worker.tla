------------------------------- MODULE Worker -------------------------------
(***************************************************************************)
(* The worker threads of runners that share one database: the loop of      *)
(* runner_thread_main, its tick (inbox first, then due timers), its idle   *)
(* sleep, and the calls that start, stop, shut down and join it.           *)
(*                                                                         *)
(* A transaction is one step; between two steps of a thread the other      *)
(* threads, the producers, a restore or the caller may step.  Any write    *)
(* transaction may be refused with ERR_BUSY.  The poll of the inbox, which *)
(* Mailbox models, is one step with any outcome.  No db gate is set: it    *)
(* could only remove interleavings.                                        *)
(***************************************************************************)
EXTENDS Timers

CONSTANTS
  Threads,       \* the workers followed step by step
  MaxBatch,      \* worker->max_batch
  MaxIdle,       \* worker->max_idle_sleep_ms
  RepairLimit,   \* TIMER_REPAIR_LIMIT
  MaxClock       \* bound on the clock

ASSUME WorkerAssumption ==
  /\ Threads \subseteq Workers
  /\ {MaxBatch, MaxIdle, RepairLimit, MaxClock} \subseteq Nat \ {0}

VARIABLES
  clock,      \* the time, as now_ms_fn gives it
  pc,         \* where each thread is; "none" without a thread
  up,         \* runner.state is RUNNING
  stop,       \* stop_requested
  job,        \* what the locals of the thread hold
  unserved    \* history: timers no handler has accepted since they were stored

vars == <<timers, clock, pc, up, stop, job, unserved>>

\* left: what remains of the batch; done: items processed in this tick;
\* why: who called read_valid_min_timer; busy: the tick answered ERR_BUSY;
\* wake: when the sleep ends.
Jobs == [left : 0 .. MaxBatch, done : 0 .. MaxBatch, now : 0 .. MaxClock,
         why : {"drain", "idle"}, rounds : 0 .. RepairLimit,
         find : [how : {"none", "seed", "prune", "upsert", "timer"},
                 key : Keys, to : Workers \cup {NoRow}],
         busy : BOOLEAN, wake : 0 .. MaxClock + MaxIdle]

NoJob == [left |-> 0, done |-> 0, now |-> 0, why |-> "drain", rounds |-> 0,
          find |-> Nothing, busy |-> FALSE, wake |-> 0]

Init ==
  /\ TimersInit
  /\ clock = 0
  /\ pc = [w \in Threads |-> "none"]
  /\ up = [w \in Threads |-> TRUE]
  /\ stop = [w \in Threads |-> FALSE]
  /\ job = [w \in Threads |-> NoJob]
  /\ unserved = {}

lifecycle == <<up, stop>>

---------------------------------------------------------------------------
(* Moves of a thread                                                       *)

Goto(w, where, j) == pc' = [pc EXCEPT ![w] = where] /\ job' = [job EXCEPT ![w] = j]

\* The thread returns: the runner is STOPPED, whoever asked for it.
End(w) ==
  /\ Goto(w, "ended", NoJob)
  /\ up' = [up EXCEPT ![w] = FALSE]
  /\ UNCHANGED stop

Continue(w, where, j) == Goto(w, where, j) /\ UNCHANGED lifecycle

\* Compute the idle sleep, after a tick that answered BUSY or found nothing.
Idle(w, busy) == Continue(w, "read", [NoJob EXCEPT !.why = "idle", !.busy = busy])

\* The tick answers ERR_BUSY.
Busy(w) == IF stop[w] THEN End(w) ELSE Idle(w, TRUE)

\* The tick answers ERR_OK, having processed n items.
TickOk(w, n) == IF n = 0 THEN Idle(w, FALSE) ELSE Continue(w, "top", NoJob)

\* scheduler compute_sleep_ms, and at least 1 after a BUSY.
SleepTime(now, due) == IF due <= now THEN 0 ELSE Min({due - now, MaxIdle})

Sleep(w, ms) ==
  LET t == IF job[w].busy THEN Max({ms, 1}) ELSE ms IN
  IF t = 0 THEN Continue(w, "top", NoJob)
  ELSE Continue(w, "asleep", [NoJob EXCEPT !.wake = clock + t])

---------------------------------------------------------------------------
(* The loop and the inbox                                                  *)

Top(w) ==
  /\ pc[w] = "top"
  /\ IF stop[w] THEN End(w)
     ELSE IF ~up[w] THEN Busy(w)
     ELSE Continue(w, "poll", NoJob)
  /\ UNCHANGED <<timers, clock, unserved>>

Wake(w) ==
  /\ pc[w] = "asleep"
  /\ clock >= job[w].wake \/ clock = MaxClock
  /\ Continue(w, "top", NoJob)
  /\ UNCHANGED <<timers, clock, unserved>>

\* poll_inbox_with_clock answers the number n of messages processed, or BUSY, or
\* a handler's error: NOT_FOUND, CONFLICT and OOM become BUSY, others end the
\* thread.  A runner shut down answers BUSY.  Due timers get what the inbox left
\* of the batch, nothing if it is full; the time is read once for all of them.
PollShort(w) ==
  /\ pc[w] = "poll" /\ up[w]
  /\ \E n \in 0 .. MaxBatch - 1 :
       Continue(w, "read", [NoJob EXCEPT !.left = MaxBatch - n, !.done = n, !.now = clock])
  /\ UNCHANGED <<timers, clock, unserved>>

PollFull(w) ==
  /\ pc[w] = "poll" /\ up[w]
  /\ TickOk(w, MaxBatch)
  /\ UNCHANGED <<timers, clock, unserved>>

PollBusy(w) ==
  /\ pc[w] = "poll"
  /\ Busy(w)
  /\ UNCHANGED <<timers, clock, unserved>>

PollFails(w) ==
  /\ pc[w] = "poll" /\ up[w]
  /\ End(w)
  /\ UNCHANGED <<timers, clock, unserved>>

---------------------------------------------------------------------------
(* Finding the earliest timer, for the drain or for the sleep              *)

\* What the caller of read_valid_min_timer does with no timer.
NoTimer(w) ==
  IF job[w].why = "drain" THEN TickOk(w, job[w].done) ELSE Sleep(w, MaxIdle)

TakeTimer(w, f) ==
  IF job[w].why = "idle" THEN Sleep(w, SleepTime(clock, f.key.due))
  ELSE IF f.key.due > job[w].now THEN NoTimer(w)
  ELSE Continue(w, "handle", [job[w] EXCEPT !.find = f, !.rounds = 0])

ReadRound(w) ==
  /\ pc[w] = "read" /\ job[w].rounds < RepairLimit
  /\ LET f == RoundFinds IN
     CASE f.how = "timer" -> TakeTimer(w, f)
       [] f.how = "seed"  -> Continue(w, "seed", job[w])
       [] OTHER           -> Continue(w, "repair", [job[w] EXCEPT !.find = f])
  /\ UNCHANGED <<timers, clock, unserved>>

\* ERR_CORRUPT, to the tick or to the idle sleep.
GiveUp(w) ==
  /\ pc[w] = "read" /\ job[w].rounds = RepairLimit
  /\ End(w)
  /\ UNCHANGED <<timers, clock, unserved>>

SeedRead(w) ==
  /\ pc[w] = "seed"
  /\ IF SeedFinds = Nothing THEN NoTimer(w)
     ELSE Continue(w, "repair", [job[w] EXCEPT !.find = SeedFinds])
  /\ UNCHANGED <<timers, clock, unserved>>

RepairIndex(w) ==
  /\ pc[w] = "repair"
  /\ Repair(job[w].find)
  /\ Continue(w, "read", [job[w] EXCEPT !.rounds = @ + 1, !.find = Nothing])
  /\ UNCHANGED <<clock, unserved>>

\* The tick survives a refused repair, the computation of the sleep does not.
RepairRefused(w) ==
  /\ pc[w] = "repair"
  /\ IF job[w].why = "drain" THEN Busy(w) ELSE End(w)
  /\ UNCHANGED <<timers, clock, unserved>>

---------------------------------------------------------------------------
(* A due timer                                                             *)

Mine(w) == up[w] /\ job[w].find.to = w

Accept(w) ==
  /\ pc[w] = "handle" /\ Mine(w)
  /\ Continue(w, "delete", job[w])
  /\ unserved' = unserved \ {job[w].find.key}
  /\ UNCHANGED <<timers, clock>>

\* Seeded fault: the result of the handler is not looked at.
DeclineIgnored(w) ==
  /\ pc[w] = "handle"
  /\ Continue(w, "delete", job[w])
  /\ UNCHANGED <<timers, clock, unserved>>

\* A runner shut down, a timer of another worker, or a handler that fails for
\* now: the drain stops here, with this timer at the head.
Decline(w) ==
  /\ pc[w] = "handle"
  /\ Busy(w)
  /\ UNCHANGED <<timers, clock, unserved>>

HandlerFails(w) ==
  /\ pc[w] = "handle" /\ Mine(w)
  /\ End(w)
  /\ UNCHANGED <<timers, clock, unserved>>

\* Seeded fault: the drain goes on past its budget.
DeleteUnbounded(w) ==
  /\ pc[w] = "delete"
  /\ LET f == job[w].find IN
     /\ DeleteIfMatch(f.key, f.to)
     /\ IF ~Matches(f.key, f.to) THEN Busy(w)
        ELSE Continue(w, "read", [job[w] EXCEPT !.left = @ - 1, !.done = @ + 1,
                                                !.find = Nothing])
  /\ UNCHANGED <<clock, unserved>>

Delete(w) ==
  /\ pc[w] = "delete"
  /\ LET f == job[w].find IN
     /\ DeleteIfMatch(f.key, f.to)
     /\ IF ~Matches(f.key, f.to) THEN Busy(w)
        ELSE IF job[w].left = 1 THEN TickOk(w, job[w].done + 1)
        ELSE Continue(w, "read", [job[w] EXCEPT !.left = @ - 1, !.done = @ + 1,
                                                !.find = Nothing])
  /\ UNCHANGED <<clock, unserved>>

DeleteRefused(w) ==
  /\ pc[w] = "delete"
  /\ Busy(w)
  /\ UNCHANGED <<timers, clock, unserved>>

Thread(w) ==
  \/ Top(w) \/ Wake(w)
  \/ PollShort(w) \/ PollFull(w) \/ PollBusy(w) \/ PollFails(w)
  \/ ReadRound(w) \/ GiveUp(w) \/ SeedRead(w) \/ RepairIndex(w) \/ RepairRefused(w)
  \/ Accept(w) \/ Decline(w) \/ HandlerFails(w) \/ Delete(w) \/ DeleteRefused(w)

---------------------------------------------------------------------------
(* The other workers: each repairs the index and serves its own timers.    *)
(* run_step refuses a worker the timers of another, so these never race    *)
(* for one timer; they meet in the index and at the head of the timers.    *)

ElsewhereServed(w) ==
  /\ RoundFinds.how = "timer" /\ RoundFinds.to = w /\ RoundFinds.key.due <= clock
  /\ DeleteIfMatch(RoundFinds.key, w)
  /\ unserved' = unserved \ {RoundFinds.key}
  /\ UNCHANGED <<clock, pc, lifecycle, job>>

ElsewhereRepaired ==
  /\ RoundFinds.how \in {"prune", "upsert"}
  /\ Repair(RoundFinds)
  /\ UNCHANGED <<clock, pc, lifecycle, job, unserved>>

Others == Workers \ Threads

Elsewhere ==
  \/ \E w \in Others : ElsewhereServed(w)
  \/ Others # {} /\ ElsewhereRepaired

---------------------------------------------------------------------------
(* The callers                                                             *)

\* worker_init, of a worker that has no thread: it also rebuilds the index.
InitWorker(w) ==
  /\ pc[w] = "none" /\ ~up[w]
  /\ SyncIndex
  /\ up' = [up EXCEPT ![w] = TRUE]
  /\ stop' = [stop EXCEPT ![w] = FALSE]
  /\ UNCHANGED <<clock, pc, job, unserved>>

Start(w) ==
  /\ pc[w] = "none"
  /\ stop' = [stop EXCEPT ![w] = FALSE]
  /\ pc' = [pc EXCEPT ![w] = "top"]
  /\ UNCHANGED <<timers, clock, up, job, unserved>>

RequestStop(w) ==
  /\ ~stop[w]
  /\ stop' = [stop EXCEPT ![w] = TRUE]
  /\ UNCHANGED <<timers, clock, pc, up, job, unserved>>

\* The second half of worker_shutdown, which asks for the stop first.
Shutdown(w) ==
  /\ stop[w] /\ up[w]
  /\ up' = [up EXCEPT ![w] = FALSE]
  /\ UNCHANGED <<timers, clock, pc, stop, job, unserved>>

Join(w) ==
  /\ pc[w] = "ended"
  /\ pc' = [pc EXCEPT ![w] = "none"]
  /\ UNCHANGED <<timers, clock, lifecycle, job, unserved>>

Arm(due, to) ==
  /\ Append(due, to)
  /\ unserved' = unserved \cup {[due |-> due, seq |-> nextSeq]}
  /\ UNCHANGED <<clock, pc, lifecycle, job>>

TakeCheckpoint ==
  /\ Checkpoint
  /\ UNCHANGED <<clock, pc, lifecycle, job, unserved>>

\* A timer whose handler has just accepted it is still served.
RestoreCheckpoint ==
  /\ Restore
  /\ unserved' = Stored(saved) \ {job[w].find.key : w \in {v \in Threads : pc[v] = "delete"}}
  /\ UNCHANGED <<clock, pc, lifecycle, job>>

Tick ==
  /\ clock < MaxClock
  /\ clock' = clock + 1
  /\ UNCHANGED <<timers, pc, lifecycle, job, unserved>>

Calls(w) == InitWorker(w) \/ Start(w) \/ RequestStop(w) \/ Shutdown(w) \/ Join(w)

Next ==
  \/ \E w \in Threads : Thread(w) \/ Calls(w)
  \/ \E due \in Dues, to \in Workers : Arm(due, to)
  \/ Elsewhere \/ TakeCheckpoint \/ RestoreCheckpoint \/ Tick

\* Threads are scheduled, time passes, a handler and a transaction tried again and
\* again succeed in the end, and the inbox is not full for ever.
Fairness ==
  /\ WF_vars(Tick)
  /\ \A w \in Others : SF_vars(ElsewhereServed(w))
  /\ \A w \in Threads :
       WF_vars(Thread(w)) /\ SF_vars(Accept(w)) /\ SF_vars(Delete(w))
       /\ SF_vars(RepairIndex(w)) /\ SF_vars(PollShort(w))

Spec == Init /\ [][Next]_vars /\ Fairness

---------------------------------------------------------------------------
(* Properties                                                              *)

\* Every variable has its type.
TypeOK ==
  /\ rows \in Contents /\ index \in Contents /\ saved \in Contents
  /\ nextSeq \in 0 .. MaxSeq /\ restores \in 0 .. MaxRestores
  /\ clock \in 0 .. MaxClock
  /\ pc \in [Threads -> {"none", "top", "poll", "read", "seed", "repair", "handle",
                         "delete", "asleep", "ended"}]
  /\ up \in [Threads -> BOOLEAN] /\ stop \in [Threads -> BOOLEAN]
  /\ job \in [Threads -> Jobs]
  /\ unserved \subseteq Keys

\* A timer leaves the database only after a handler has accepted it, whatever
\* repairs, refusals and other threads come between its reading and its deletion.
TimerKept == \A k \in unserved : rows[k] # NoRow

\* The timer a thread is about to run is the earliest one stored, with the
\* payload stored, however wrong the index was when the search began.
PicksOldest ==
  [][\A w \in Threads : pc[w] # "handle" /\ pc'[w] = "handle" =>
       LET f == job'[w].find IN
       /\ rows[f.key] = f.to
       /\ f.key.due <= clock
       /\ \A k \in Stored(rows) : f.key.due <= k.due]_vars

AllUp == \A w \in Threads : up[w] /\ ~stop[w] /\ pc[w] \notin {"none", "ended"}

\* While the threads run, no timer that is due stays: no stale or missing row of
\* the index, no timer of another worker at the head, no sleep and no refusal
\* keeps the timers waiting for ever.
TimersServed == <>[]AllUp => []<>(\A k \in Stored(rows) : k.due > clock)
=============================================================================

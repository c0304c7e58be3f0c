------------------------------ MODULE Session ------------------------------
(***************************************************************************)
(* One orchestration session: the control thread that launches, stops,     *)
(* joins and drops it, and a thread per worker replica that runs a guest   *)
(* and calls the session's mailboxes.                                      *)
(*                                                                         *)
(* Three critical sections matter.  state_mutex guards the phase and the   *)
(* counts; nothing waits while holding it, so each use of it is one        *)
(* action.  mailbox_mutex guards the mailboxes and is held by a receiver   *)
(* from its look at an empty mailbox until it sleeps on mailbox_cond, in   *)
(* which time it also looks at the phase: `lock' is its holder.  The       *)
(* broadcasts of stop and of set_error are made with neither mutex held    *)
(* and are actions of their own.                                           *)
(*                                                                         *)
(* A guest is any program that sends, receives and ends; its calls on the  *)
(* store do not touch what is modelled here.  Sends and receives on        *)
(* mailboxes outside the worker's policy are refused without effect and    *)
(* left out.  The slot of a session is not used again after it is cleared. *)
(***************************************************************************)
EXTENDS Integers, Sequences, FiniteSets

CONSTANTS
  NumWorkers,   \* worker replicas of the plan, launched in order
  Mailboxes,
  Inboxes,      \* the mailboxes each worker may receive from
  Outboxes,     \* the mailboxes each worker may send to
  Depth,        \* CROFT_ORCH_DEFAULT_MAILBOX_DEPTH
  MaxCalls,     \* bound on the calls and spurious wakeups of a guest
  None          \* no holder, no mailbox

Workers == 1 .. NumWorkers

ASSUME PlanAssumption ==
  /\ NumWorkers \in Nat
  /\ Inboxes \in [Workers -> SUBSET Mailboxes]
  /\ Outboxes \in [Workers -> SUBSET Mailboxes]
  /\ None \notin Mailboxes \cup Nat
ASSUME DepthAssumption == Depth \in Nat \ {0} /\ MaxCalls \in Nat

VARIABLES
  phase,      \* session->phase
  counted,    \* session->worker_count
  running,    \* session->running_count
  main,       \* where the control thread is
  next,       \* the worker its loop is at
  drop,       \* does the stop or join in progress end in slot_clear?
  started,    \* workers with thread_started
  joined,     \* workers with joined
  pc,         \* where each worker thread is
  wants,      \* the mailbox each worker receives from
  lock,       \* the holder of mailbox_mutex
  queue,      \* how many messages each mailbox holds
  calls,      \* calls and spurious wakeups of each guest, up to MaxCalls
  erred       \* history: workers that have reported an error

control == <<main, next, drop, started, joined>>
worker  == <<pc, wants, lock, queue, calls, erred>>
vars    == <<phase, counted, running, control, worker>>

Phases == {"building", "launching", "running", "stopping", "stopped", "failed"}
Ended  == {"failed", "stopping", "stopped"}

\* Only the control thread visits these; "open" is between its calls.
Controls == {"new", "launch", "create", "undone", "fail", "open", "stop",
             "tell", "join", "gone"}

\* "look" to "asleep": inside recv.  "bind" and "err" owe a broadcast.
Stages == {"none", "created", "bind", "guest", "look", "wait", "asleep",
           "awake", "err", "exit", "done"}

Init ==
  /\ phase = "building" /\ counted = 0 /\ running = 0
  /\ main = "new" /\ next = 1 /\ drop = FALSE
  /\ started = {} /\ joined = {}
  /\ pc = [w \in Workers |-> "none"]
  /\ wants = [w \in Workers |-> None]
  /\ lock = None
  /\ queue = [m \in Mailboxes |-> 0]
  /\ calls = [w \in Workers |-> 0]
  /\ erred = {}

---------------------------------------------------------------------------
(* Shared steps                                                            *)

\* host_cond_broadcast(&mailbox_cond), as a step of a thread whose own stage
\* becomes `to'.
Woken(p) == [w \in Workers |-> IF p[w] = "asleep" THEN "awake" ELSE p[w]]
BroadcastBy(w, to) == pc' = [Woken(pc) EXCEPT ![w] = to]

\* Seeded fault: the count is taken down without a look at the phase.
ReleaseSilently == running' = running - 1 /\ UNCHANGED phase

\* A worker thread's last critical section.
Release ==
  /\ running' = IF running > 0 THEN running - 1 ELSE 0
  /\ phase' = IF running' = 0 /\ phase = "running" THEN "stopped" ELSE phase

\* Seeded fault: the launch does not look whether a worker has failed.
SettledBlindly == IF running > 0 THEN "running" ELSE "stopped"

\* The phase a launch ends in.
Settled == IF phase = "failed" THEN "failed"
           ELSE IF running > 0 THEN "running" ELSE "stopped"

---------------------------------------------------------------------------
(* The control thread                                                      *)

Go(to) == main' = to /\ UNCHANGED <<started, joined>>

BeginLaunch ==
  /\ main = "new"
  /\ phase' = "launching"
  /\ Go("launch") /\ UNCHANGED <<next, drop, counted, running, worker>>

\* A worker's policy and startup value are ready: it is counted before its
\* thread exists.
CountWorker ==
  /\ main = "launch" /\ next <= NumWorkers
  /\ counted' = counted + 1
  /\ running' = running + 1
  /\ Go("create") /\ UNCHANGED <<next, drop, phase, worker>>

CreateThread ==
  /\ main = "create"
  /\ pc' = [pc EXCEPT ![next] = "created"]
  /\ started' = started \cup {next}
  /\ next' = next + 1
  /\ main' = "launch"
  /\ UNCHANGED <<drop, joined, phase, counted, running, wants, lock, queue, calls,
                 erred>>

CreateFails ==
  /\ main = "create"
  /\ counted' = counted - 1
  /\ running' = IF running > 0 THEN running - 1 ELSE 0
  /\ Go("undone") /\ UNCHANGED <<next, drop, phase, worker>>

\* session_set_error of a failed launch, whatever step of it failed ...
LaunchFails ==
  /\ \/ main = "launch" /\ next <= NumWorkers
     \/ main = "undone"
  /\ phase' = "failed"
  /\ Go("fail") /\ UNCHANGED <<next, drop, counted, running, worker>>

\* ... its broadcast, and the call of abort_launch_session.
LaunchAborts ==
  /\ main = "fail"
  /\ pc' = Woken(pc)
  /\ drop' = TRUE
  /\ Go("stop")
  /\ UNCHANGED <<next, phase, counted, running, wants, lock, queue, calls, erred>>

EndLaunch ==
  /\ main = "launch" /\ next > NumWorkers
  /\ phase' = Settled
  /\ Go("open") /\ UNCHANGED <<next, drop, counted, running, worker>>

\* The caller's choice among session.stop, session.join and session.drop.
Call ==
  /\ main = "open"
  /\ next' = 1
  /\ \/ drop' = FALSE /\ Go("stop")
     \/ drop' = FALSE /\ Go("join")
     \/ drop' = TRUE /\ Go("stop")
  /\ UNCHANGED <<phase, counted, running, worker>>

\* stop_session: the phase ...
Stop ==
  /\ main = "stop"
  /\ phase' = IF phase \in {"failed", "stopped"} THEN phase ELSE "stopping"
  /\ Go("tell") /\ UNCHANGED <<next, drop, counted, running, worker>>

\* ... and the broadcast.  A drop or an aborted launch goes on to join.
StopBroadcast ==
  /\ main = "tell"
  /\ pc' = Woken(pc)
  /\ next' = 1
  /\ Go(IF drop THEN "join" ELSE "open")
  /\ UNCHANGED <<drop, phase, counted, running, wants, lock, queue, calls, erred>>

\* Seeded fault: the last thread is not joined.
ToJoinButLast == 1 .. counted - 1

\* The workers join_session goes through.
ToJoin == 1 .. counted

JoinWorker ==
  /\ main = "join" /\ next \in ToJoin
  /\ next \in started \ joined => pc[next] = "done"
  /\ joined' = joined \cup ({next} \cap started)
  /\ next' = next + 1
  /\ UNCHANGED <<main, drop, started, phase, counted, running, worker>>

EndJoin ==
  /\ main = "join" /\ next \notin ToJoin
  /\ phase' = IF phase = "failed" THEN "failed" ELSE "stopped"
  /\ running' = 0
  /\ Go(IF drop THEN "gone" ELSE "open")
  /\ UNCHANGED <<next, drop, counted, worker>>

---------------------------------------------------------------------------
(* A worker thread                                                         *)

\* The guest is instantiated and its imports are bound, or they are not.
StartGuest(w) ==
  /\ pc[w] = "created"
  /\ pc' = [pc EXCEPT ![w] = "guest"]
  /\ UNCHANGED <<phase, counted, running, control, wants, lock, queue, calls, erred>>

BindFails(w) ==
  /\ pc[w] = "created"
  /\ phase' = "failed"
  /\ erred' = erred \cup {w}
  /\ pc' = [pc EXCEPT ![w] = "bind"]
  /\ UNCHANGED <<counted, running, control, wants, lock, queue, calls>>

\* This path returns without taking the worker off running_count.
BindBroadcast(w) ==
  /\ pc[w] = "bind"
  /\ BroadcastBy(w, "done")
  /\ UNCHANGED <<phase, counted, running, control, wants, lock, queue, calls, erred>>

\* Seeded fault: host_cond_signal for host_cond_broadcast.
SendWakesOne(w) ==
  \/ pc' = pc /\ \A v \in Workers : pc[v] # "asleep"
  \/ \E v \in Workers : pc[v] = "asleep" /\ pc' = [pc EXCEPT ![v] = "awake"]

\* A successful send wakes every receiver, whichever mailbox it waits for.
SendWakes(w) == BroadcastBy(w, "guest")

\* mailbox.send: a full mailbox answers "busy".
Send(w, m) ==
  /\ pc[w] = "guest" /\ m \in Outboxes[w] /\ calls[w] < MaxCalls
  /\ lock = None
  /\ calls' = [calls EXCEPT ![w] = @ + 1]
  /\ \/ /\ queue[m] < Depth
        /\ queue' = [queue EXCEPT ![m] = @ + 1]
        /\ SendWakes(w)
     \/ queue[m] >= Depth /\ UNCHANGED <<pc, queue>>
  /\ UNCHANGED <<phase, counted, running, control, wants, lock, erred>>

\* Take mailbox_mutex and try to receive from m: a message ends the call, an
\* empty mailbox leads to a look at the phase with the mutex held.
TryRecv(w, m) ==
  /\ lock = None
  /\ \/ /\ queue[m] > 0
        /\ queue' = [queue EXCEPT ![m] = @ - 1]
        /\ wants' = [wants EXCEPT ![w] = None]
        /\ pc' = [pc EXCEPT ![w] = "guest"]
        /\ UNCHANGED lock
     \/ /\ queue[m] = 0
        /\ lock' = w
        /\ wants' = [wants EXCEPT ![w] = m]
        /\ pc' = [pc EXCEPT ![w] = "look"]
        /\ UNCHANGED queue
  /\ UNCHANGED <<phase, counted, running, control, erred>>

Recv(w, m) ==
  /\ pc[w] = "guest" /\ m \in Inboxes[w] /\ calls[w] < MaxCalls
  /\ calls' = [calls EXCEPT ![w] = @ + 1]
  /\ TryRecv(w, m)

\* Seeded fault: the way out of recv forgets the mutex.
LeaveLocked(w) ==
  /\ pc' = [pc EXCEPT ![w] = "guest"]
  /\ wants' = [wants EXCEPT ![w] = None]
  /\ UNCHANGED lock

\* The way out of recv without a message.
Leave(w) ==
  /\ pc' = [pc EXCEPT ![w] = "guest"]
  /\ wants' = [wants EXCEPT ![w] = None]
  /\ lock' = None

\* The look at the phase: an ended session answers "empty".
Look(w) ==
  /\ pc[w] = "look"
  /\ IF phase \in Ended
     THEN Leave(w)
     ELSE pc' = [pc EXCEPT ![w] = "wait"] /\ UNCHANGED <<wants, lock>>
  /\ UNCHANGED <<phase, counted, running, control, queue, calls, erred>>

\* host_cond_wait gives up the mutex and sleeps in one step ...
Sleep(w) ==
  /\ pc[w] = "wait"
  /\ pc' = [pc EXCEPT ![w] = "asleep"]
  /\ lock' = None
  /\ UNCHANGED <<phase, counted, running, control, wants, queue, calls, erred>>

\* ... and may return without a broadcast.
SpuriousWake(w) ==
  /\ pc[w] = "asleep" /\ calls[w] < MaxCalls
  /\ calls' = [calls EXCEPT ![w] = @ + 1]
  /\ pc' = [pc EXCEPT ![w] = "awake"]
  /\ UNCHANGED <<phase, counted, running, control, wants, lock, queue, erred>>

RecvAgain(w) ==
  /\ pc[w] = "awake"
  /\ TryRecv(w, wants[w])
  /\ UNCHANGED calls

\* The guest's export returns: ok, or an error reply or trap.
GuestOk(w) ==
  /\ pc[w] = "guest"
  /\ pc' = [pc EXCEPT ![w] = "exit"]
  /\ UNCHANGED <<phase, counted, running, control, wants, lock, queue, calls, erred>>

GuestFails(w) ==
  /\ pc[w] = "guest"
  /\ phase' = "failed"
  /\ erred' = erred \cup {w}
  /\ pc' = [pc EXCEPT ![w] = "err"]
  /\ UNCHANGED <<counted, running, control, wants, lock, queue, calls>>

ErrorBroadcast(w) ==
  /\ pc[w] = "err"
  /\ BroadcastBy(w, "exit")
  /\ UNCHANGED <<phase, counted, running, control, wants, lock, queue, calls, erred>>

EndThread(w) ==
  /\ pc[w] = "exit"
  /\ Release
  /\ pc' = [pc EXCEPT ![w] = "done"]
  /\ UNCHANGED <<counted, control, wants, lock, queue, calls, erred>>

---------------------------------------------------------------------------
\* What the control thread does by itself once a call has begun.
Main == \/ BeginLaunch \/ CountWorker \/ CreateThread \/ CreateFails
        \/ LaunchFails \/ LaunchAborts \/ EndLaunch
        \/ Stop \/ StopBroadcast \/ JoinWorker \/ EndJoin

Thread(w) ==
  \/ StartGuest(w) \/ BindFails(w) \/ BindBroadcast(w)
  \/ \E m \in Mailboxes : Send(w, m) \/ Recv(w, m)
  \/ Look(w) \/ Sleep(w) \/ RecvAgain(w)
  \/ GuestOk(w) \/ GuestFails(w) \/ ErrorBroadcast(w) \/ EndThread(w)

Next == Main \/ Call \/ \E w \in Workers : Thread(w) \/ SpuriousWake(w)

Spec == Init /\ [][Next]_vars

\* Every thread that can run is scheduled; callers call when they like.
Fairness == WF_vars(Main) /\ \A w \in Workers : WF_vars(Thread(w))

FairSpec == Spec /\ Fairness

---------------------------------------------------------------------------
(* Properties                                                              *)

\* Types; mailbox_mutex is held exactly between a look and a sleep.
TypeOK ==
  /\ phase \in Phases
  /\ counted \in 0 .. NumWorkers
  /\ running \in 0 .. NumWorkers
  /\ main \in Controls
  /\ next \in 1 .. NumWorkers + 1
  /\ drop \in BOOLEAN
  /\ started \subseteq Workers
  /\ joined \subseteq started
  /\ pc \in [Workers -> Stages]
  /\ wants \in [Workers -> Mailboxes \cup {None}]
  /\ queue \in [Mailboxes -> 0 .. Depth]
  /\ calls \in [Workers -> 0 .. MaxCalls]
  /\ erred \subseteq Workers
  /\ lock \in Workers \cup {None}
  /\ \A w \in Workers : lock = w <=> pc[w] \in {"look", "wait"}

Over(w) == pc[w] \in {"none", "exit", "done"}

\* What session.status reports is true of the threads, however the launch,
\* the ends of the workers and a stop interleave: a RUNNING session has a
\* worker that has not ended, a STOPPED one has none in its guest.  The slot,
\* its mutexes and its mailboxes are destroyed only when no thread of the
\* session is left, also when a launch failed half way.
PhaseTruthful ==
  /\ phase = "running" => \E w \in started : pc[w] # "done"
  /\ phase = "stopped" => \A w \in Workers : Over(w)
  /\ main = "gone" => \A w \in started : pc[w] = "done" /\ w \in joined

\* A worker's error surfaces as a failed session and stays: no late end of
\* another worker, no end of a launch, no stop and no join covers it.
ErrorSurfaces == erred # {} => phase = "failed"

\* No receiver sleeps on a mailbox that has mail: between its look at the
\* empty mailbox and its sleep no send slips in, and every send wakes it.
NoMailMissed == \A w \in Workers : pc[w] = "asleep" => queue[wants[w]] = 0

\* If a join never returns, some worker sleeps for good on an empty mailbox:
\* nothing else in the session can keep a join from returning.
JoinReturns ==
  <>[](main = "join") =>
     \E w \in Workers : <>[](pc[w] = "asleep" /\ queue[wants[w]] = 0)

\* After a failure or a stop has been broadcast, no worker that a join waits
\* for is left asleep in recv.
JoinNotStranded ==
  /\ main = "join"
  /\ phase \in Ended
  /\ \A w \in Workers : pc[w] \notin {"err", "bind"}
  => \A w \in Workers : pc[w] # "asleep"

============================================================================

--------------------------- MODULE SessionProofs ---------------------------
(* Proofs about Session, for every plan, depth of mailboxes and guest. *)
EXTENDS Session, FiniteSetTheorems, TLAPS

---------------------------------------------------------------------------
(* The inductive invariant                                                 *)

\* The threads a launch has started and that have not returned.
Alive == {w \in Workers : pc[w] \notin {"none", "done"}}

\* Where the control thread is says how far the launch has come: workers are
\* counted and started in order, and one is counted before its thread exists.
Launched ==
  /\ main = "new" => /\ phase = "building" /\ counted = 0 /\ running = 0
                     /\ next = 1 /\ erred = {}
  /\ main \in {"launch", "undone"} => counted = next - 1
  /\ main = "create" => counted = next
  /\ started = 1 .. (IF main = "create" THEN counted - 1 ELSE counted)
  /\ \A w \in Workers : pc[w] = "none" <=> w \notin started
  /\ main \in {"launch", "create", "undone"} => phase \in {"launching", "failed"}
  /\ main = "fail" => phase = "failed"
  /\ main \in {"open", "stop", "tell", "join", "gone"}
       => phase \in {"running", "stopping", "stopped", "failed"}

\* A thread is joined after it has returned, and a join goes in order.
Joins ==
  /\ \A w \in joined : pc[w] = "done"
  /\ main = "join" => \A w \in started : w < next => w \in joined
  /\ main = "gone" => started \subseteq joined

\* A thread that owes the broadcast of an error has failed the session.
Failures ==
  /\ ErrorSurfaces
  /\ \A w \in Workers : pc[w] \in {"bind", "err"} => phase = "failed"

\* Unless the session has failed running_count is exact: a worker whose guest
\* cannot be bound returns without taking itself off the count, but fails the
\* session first.
Counts ==
  /\ running <= counted
  /\ phase # "failed" => running = Cardinality(Alive) + (IF main = "create" THEN 1 ELSE 0)
  /\ phase = "running" => running > 0
  /\ phase = "stopped" => Alive = {}

\* Who is inside recv waits for a mailbox; it is empty from the look, which keeps
\* mailbox_mutex, to the end of the sleep.
Mail ==
  /\ \A w \in Workers : pc[w] \in {"look", "wait", "asleep", "awake"} => wants[w] \in Mailboxes
  /\ \A w \in Workers : pc[w] \in {"look", "wait", "asleep"} => queue[wants[w]] = 0

IInv == TypeOK /\ Launched /\ Joins /\ Failures /\ Counts /\ Mail

---------------------------------------------------------------------------
(* Moves of the threads                                                    *)

\* A broadcast moves sleepers and nobody else.
LEMMA WokenMoves ==
  ASSUME TypeOK
  PROVE  /\ Woken(pc) \in [Workers -> Stages]
         /\ \A w \in Workers : Woken(pc)[w] # "asleep"
         /\ \A w \in Workers :
              \/ Woken(pc)[w] = pc[w]
              \/ pc[w] = "asleep" /\ Woken(pc)[w] = "awake"
BY DEF TypeOK, Woken, Stages

\* A step of a worker thread: its own stage, sleepers it may wake, and a phase it
\* may only take to "failed", or from "running" to "stopped".
LEMMA ThreadMoves ==
  ASSUME TypeOK, NEW w \in Workers, Thread(w) \/ SpuriousWake(w)
  PROVE  /\ UNCHANGED <<control, counted>>
         /\ pc[w] \notin {"none", "done"} /\ pc'[w] # "none"
         /\ \A v \in Workers \ {w} :
              pc'[v] = pc[v] \/ (pc[v] = "asleep" /\ pc'[v] = "awake")
         /\ phase' \in {phase, "failed"} \/ (phase = "running" /\ phase' = "stopped")
<1>0. pc \in [Workers -> Stages]
  BY DEF TypeOK
<1>. USE <1>0 DEF control
<1>1. CASE StartGuest(w)
  BY <1>1 DEF StartGuest
<1>2. CASE BindFails(w)
  BY <1>2 DEF BindFails
<1>3. CASE BindBroadcast(w)
  BY <1>3, WokenMoves DEF BindBroadcast, BroadcastBy
<1>4. ASSUME NEW m \in Mailboxes, Send(w, m)
      PROVE  /\ UNCHANGED <<control, counted, phase>>
             /\ pc[w] = "guest" /\ pc'[w] = "guest"
             /\ \A v \in Workers \ {w} :
                  pc'[v] = pc[v] \/ (pc[v] = "asleep" /\ pc'[v] = "awake")
  BY <1>4, WokenMoves DEF Send, SendWakes, BroadcastBy
<1>5. ASSUME NEW m \in Mailboxes, Recv(w, m)
      PROVE  /\ UNCHANGED <<control, counted, phase>>
             /\ pc[w] = "guest" /\ pc'[w] \in {"guest", "look"}
             /\ \A v \in Workers \ {w} : pc'[v] = pc[v]
  BY <1>5 DEF Recv, TryRecv
<1>6. CASE Look(w)
  BY <1>6 DEF Look, Leave
<1>7. CASE Sleep(w)
  BY <1>7 DEF Sleep
<1>8. CASE RecvAgain(w)
  BY <1>8 DEF RecvAgain, TryRecv
<1>9. CASE GuestOk(w)
  BY <1>9 DEF GuestOk
<1>10. CASE GuestFails(w)
  BY <1>10 DEF GuestFails
<1>11. CASE ErrorBroadcast(w)
  BY <1>11, WokenMoves DEF ErrorBroadcast, BroadcastBy
<1>12. CASE EndThread(w)
  BY <1>12 DEF EndThread, Release
<1>13. CASE SpuriousWake(w)
  BY <1>13 DEF SpuriousWake
<1>. QED
  BY <1>1, <1>2, <1>3, <1>4, <1>5, <1>6, <1>7, <1>8, <1>9, <1>10, <1>11, <1>12,
     <1>13 DEF Thread

---------------------------------------------------------------------------
(* Types                                                                   *)

\* What the control thread does keeps the types: the launch counts no more
\* workers than the plan has.
LEMMA ControlType ==
  ASSUME IInv, Main \/ Call
  PROVE  TypeOK'
<1>. USE PlanAssumption DEF IInv, TypeOK, Phases, Controls, Go, worker
<1>1. CASE BeginLaunch
  BY <1>1 DEF BeginLaunch
<1>2. CASE CountWorker
  <2>1. counted' \in 0 .. NumWorkers /\ running' \in 0 .. NumWorkers
    BY <1>2 DEF CountWorker, Launched, Counts
  <2>. QED  BY <1>2, <2>1 DEF CountWorker
<1>3. CASE CreateThread
  <2>1. next \in Workers /\ pc[next] = "none" /\ next + 1 \in 1 .. NumWorkers + 1
    BY <1>3 DEF CreateThread, Launched, Workers
  <2>. QED  BY <1>3, <2>1 DEF CreateThread, Stages
<1>4. CASE CreateFails
  BY <1>4 DEF CreateFails, Launched
<1>5. CASE LaunchFails
  BY <1>5 DEF LaunchFails
<1>6. CASE LaunchAborts
  BY <1>6, WokenMoves DEF LaunchAborts
<1>7. CASE EndLaunch
  BY <1>7 DEF EndLaunch, Settled
<1>8. CASE Stop
  BY <1>8 DEF Stop
<1>9. CASE StopBroadcast
  BY <1>9, WokenMoves DEF StopBroadcast
<1>10. CASE JoinWorker
  BY <1>10 DEF JoinWorker, ToJoin
<1>11. CASE EndJoin
  BY <1>11 DEF EndJoin
<1>12. CASE Call
  <2>1. main' \in Controls /\ UNCHANGED <<started, joined>>
    BY <1>12 DEF Call
  <2>2. next' \in 1 .. NumWorkers + 1
    BY <1>12 DEF Call
  <2>3. drop' \in BOOLEAN
    BY <1>12 DEF Call
  <2>. QED  BY <1>12, <2>1, <2>2, <2>3 DEF Call
<1>. QED
  BY <1>1, <1>2, <1>3, <1>4, <1>5, <1>6, <1>7, <1>8, <1>9, <1>10, <1>11, <1>12 DEF Main

\* A receive keeps the types: the mutex is taken with the look and by nobody else.
LEMMA TryRecvType ==
  ASSUME IInv, NEW w \in Workers, NEW m \in Mailboxes, pc[w] \in {"guest", "awake"},
         calls' \in [Workers -> 0 .. MaxCalls], TryRecv(w, m)
  PROVE  TypeOK'
<1>. USE DEF IInv, TypeOK
<1>1. None \notin Workers /\ lock = None
  BY PlanAssumption DEF TryRecv, Workers
<1>2. queue' \in [Mailboxes -> 0 .. Depth]
  BY DepthAssumption DEF TryRecv
<1>3. /\ pc' \in [Workers -> Stages] /\ wants' \in [Workers -> Mailboxes \cup {None}]
      /\ lock' \in Workers \cup {None}
      /\ \A v \in Workers : lock' = v <=> pc'[v] \in {"look", "wait"}
  BY <1>1 DEF TryRecv, Stages
<1>4. UNCHANGED <<phase, counted, running, main, next, drop, started, joined, erred>>
  BY DEF TryRecv, control
<1>. QED  BY <1>2, <1>3, <1>4

\* What a worker thread does keeps the types.
LEMMA ThreadType ==
  ASSUME IInv, NEW w \in Workers, Thread(w) \/ SpuriousWake(w)
  PROVE  TypeOK'
<1>0. None \notin Workers
  BY PlanAssumption DEF Workers
<1>. USE <1>0, DepthAssumption DEF IInv, TypeOK, control, Phases, Stages
<1>1. CASE StartGuest(w)
  BY <1>1 DEF StartGuest
<1>2. CASE BindFails(w)
  BY <1>2 DEF BindFails
<1>3. CASE BindBroadcast(w)
  BY <1>3, WokenMoves DEF BindBroadcast, BroadcastBy
<1>4. ASSUME NEW m \in Mailboxes, Send(w, m) PROVE TypeOK'
  BY <1>4, WokenMoves DEF Send, SendWakes, BroadcastBy
<1>5. ASSUME NEW m \in Mailboxes, Recv(w, m) PROVE TypeOK'
  <2>1. calls' \in [Workers -> 0 .. MaxCalls]
    BY <1>5 DEF Recv
  <2>. QED  BY <1>5, <2>1, TryRecvType DEF Recv
<1>6. CASE Look(w)
  BY <1>6 DEF Look, Leave
<1>7. CASE Sleep(w)
  BY <1>7 DEF Sleep
<1>8. CASE RecvAgain(w)
  BY <1>8, TryRecvType DEF RecvAgain, Mail
<1>9. CASE GuestOk(w)
  BY <1>9 DEF GuestOk
<1>10. CASE GuestFails(w)
  BY <1>10 DEF GuestFails
<1>11. CASE ErrorBroadcast(w)
  BY <1>11, WokenMoves DEF ErrorBroadcast, BroadcastBy
<1>12. CASE EndThread(w)
  BY <1>12, PlanAssumption DEF EndThread, Release
<1>13. CASE SpuriousWake(w)
  BY <1>13 DEF SpuriousWake
<1>. QED
  BY <1>1, <1>2, <1>3, <1>4, <1>5, <1>6, <1>7, <1>8, <1>9, <1>10, <1>11, <1>12,
     <1>13 DEF Thread

---------------------------------------------------------------------------
(* The launch and the joins                                                *)

\* The control thread keeps the account of its launch.
LEMMA ControlLaunched ==
  ASSUME IInv, TypeOK', Main \/ Call
  PROVE  Launched'
<1>. USE PlanAssumption DEF IInv, TypeOK, Launched, Workers, Go, worker
<1>1. CASE BeginLaunch
  BY <1>1 DEF BeginLaunch
<1>2. CASE CountWorker
  BY <1>2 DEF CountWorker
<1>3. CASE CreateThread
  BY <1>3 DEF CreateThread
<1>4. CASE CreateFails
  BY <1>4 DEF CreateFails
<1>5. CASE LaunchFails
  BY <1>5 DEF LaunchFails
<1>6. CASE LaunchAborts
  BY <1>6, WokenMoves DEF LaunchAborts
<1>7. CASE EndLaunch
  BY <1>7 DEF EndLaunch, Settled
<1>8. CASE Stop
  BY <1>8 DEF Stop
<1>9. CASE StopBroadcast
  BY <1>9, WokenMoves DEF StopBroadcast
<1>10. CASE JoinWorker
  BY <1>10 DEF JoinWorker
<1>11. CASE EndJoin
  BY <1>11 DEF EndJoin
<1>12. CASE Call
  BY <1>12 DEF Call
<1>. QED
  BY <1>1, <1>2, <1>3, <1>4, <1>5, <1>6, <1>7, <1>8, <1>9, <1>10, <1>11, <1>12 DEF Main

\* A thread changes none of it but the phase, which it may end.
LEMMA ThreadLaunched ==
  ASSUME IInv, NEW w \in Workers, Thread(w) \/ SpuriousWake(w)
  PROVE  Launched'
<1>1. /\ UNCHANGED <<main, next, started, counted>>
      /\ \A v \in Workers : pc'[v] = "none" <=> pc[v] = "none"
      /\ phase' \in {phase, "failed"} \/ (phase = "running" /\ phase' = "stopped")
      /\ pc[w] # "none"
  BY ThreadMoves DEF IInv, control
<1>2. main # "new" /\ main \in Controls
  BY <1>1 DEF IInv, TypeOK, Launched, Workers
<1>. QED  BY <1>1, <1>2 DEF IInv, Launched, Controls

\* Joins wait for the threads that were started, and no thread returns to life.
LEMMA JoinsStep ==
  ASSUME IInv, Next
  PROVE  Joins'
<1>. USE DEF IInv
<1>1. CASE Main \/ Call
  <2>. USE DEF TypeOK, Launched, Joins, Go, worker
  <2>1. CASE CreateThread
    BY <2>1 DEF CreateThread, Workers
  <2>2. CASE LaunchAborts
    BY <2>2, WokenMoves DEF LaunchAborts
  <2>3. CASE StopBroadcast
    BY <2>3, WokenMoves DEF StopBroadcast
  <2>4. CASE Call
    <3>1. next' = 1 /\ main' \in {"stop", "join"} /\ UNCHANGED <<started, joined, pc>>
      BY <2>4 DEF Call
    <3>2. \A w \in started : ~(w < 1)
      BY DEF Workers
    <3>. QED  BY <3>1, <3>2
  <2>5. CASE JoinWorker
    BY <2>5, PlanAssumption DEF JoinWorker, ToJoin, Workers
  <2>6. CASE EndJoin
    BY <2>6, PlanAssumption DEF EndJoin, ToJoin, Workers
  <2>7. CASE \/ BeginLaunch \/ CountWorker \/ CreateFails \/ LaunchFails
             \/ EndLaunch \/ Stop
    <3>1. UNCHANGED <<started, joined, pc>> /\ main' \notin {"join", "gone"}
      BY <2>7 DEF BeginLaunch, CountWorker, CreateFails, LaunchFails, EndLaunch, Stop
    <3>. QED  BY <3>1
  <2>. QED  BY <1>1, <2>1, <2>2, <2>3, <2>4, <2>5, <2>6, <2>7 DEF Main
<1>2. ASSUME NEW w \in Workers, Thread(w) \/ SpuriousWake(w) PROVE Joins'
  <2>1. UNCHANGED <<main, next, started, joined>> /\ w \notin joined
    BY <1>2, ThreadMoves DEF control, Joins
  <2>2. \A v \in joined : v \in Workers /\ pc'[v] = pc[v]
    BY <1>2, <2>1, ThreadMoves DEF TypeOK, Joins
  <2>. QED  BY <2>1, <2>2 DEF Joins
<1>. QED  BY <1>1, <1>2 DEF Next

---------------------------------------------------------------------------
(* Failures                                                                *)

\* Nothing takes a session out of "failed", and a thread fails it no later than
\* it reports its error.
LEMMA FailuresStep ==
  ASSUME IInv, Next
  PROVE  Failures'
<1>. USE DEF IInv, Failures, ErrorSurfaces
<1>1. CASE Main \/ Call
  <2>1. UNCHANGED erred
    BY <1>1 DEF Main, BeginLaunch, CountWorker, CreateThread, CreateFails, LaunchFails,
                LaunchAborts, EndLaunch, Stop, StopBroadcast, JoinWorker, EndJoin, Call,
                worker
  <2>2. phase = "failed" => phase' = "failed"
    BY <1>1 DEF Main, BeginLaunch, CountWorker, CreateThread, CreateFails, LaunchFails,
                LaunchAborts, EndLaunch, Settled, Stop, StopBroadcast, JoinWorker,
                EndJoin, Call, Launched
  <2>3. \A v \in Workers : pc'[v] \in {"bind", "err"} => pc[v] \in {"bind", "err"}
    <3>1. CASE CreateThread
      BY <3>1 DEF CreateThread, TypeOK
    <3>2. CASE LaunchAborts \/ StopBroadcast
      BY <3>2, WokenMoves DEF LaunchAborts, StopBroadcast
    <3>3. CASE UNCHANGED pc
      BY <3>3
    <3>. QED
      BY <1>1, <3>1, <3>2, <3>3
         DEF Main, BeginLaunch, CountWorker, CreateFails, LaunchFails, EndLaunch, Stop,
             JoinWorker, EndJoin, Call, worker
  <2>. QED  BY <2>1, <2>2, <2>3
<1>2. ASSUME NEW w \in Workers, Thread(w) \/ SpuriousWake(w) PROVE Failures'
  <2>1. CASE BindFails(w) \/ GuestFails(w)
    BY <2>1 DEF BindFails, GuestFails
  <2>2. CASE ~BindFails(w) /\ ~GuestFails(w)
    <3>1. UNCHANGED erred
      BY <1>2, <2>2
         DEF Thread, StartGuest, BindBroadcast, Send, Recv, TryRecv, Look, Sleep,
             RecvAgain, GuestOk, ErrorBroadcast, EndThread, SpuriousWake
    <3>2. phase = "failed" => phase' = "failed"
      BY <1>2, ThreadMoves
    <3>3. pc'[w] \notin {"bind", "err"}
      BY <1>2, <2>2, WokenMoves
         DEF Thread, StartGuest, BindBroadcast, Send, SendWakes, Recv, TryRecv, Look,
             Leave, Sleep, RecvAgain, GuestOk, ErrorBroadcast, BroadcastBy, EndThread,
             SpuriousWake, TypeOK
    <3>4. \A v \in Workers : pc'[v] \in {"bind", "err"} => pc[v] \in {"bind", "err"}
      BY <1>2, <3>3, ThreadMoves
    <3>. QED  BY <3>1, <3>2, <3>4
  <2>. QED  BY <2>1, <2>2
<1>. QED  BY <1>1, <1>2 DEF Next

---------------------------------------------------------------------------
(* The count of running workers                                            *)

\* The threads that live are finitely many.
LEMMA AliveFinite == IsFiniteSet(Alive) /\ Cardinality(Alive) \in Nat
<1>1. IsFiniteSet(Workers)
  BY PlanAssumption, FS_Interval DEF Workers
<1>2. Alive \in SUBSET Workers
  BY DEF Alive
<1>. QED  BY <1>1, <1>2, FS_Subset, FS_CardinalityType

\* The control thread counts a worker before it creates its thread.
LEMMA ControlCounts ==
  ASSUME IInv, Main \/ Call
  PROVE  Counts'
<1>0. /\ running \in Nat /\ counted \in Nat /\ Cardinality(Alive) \in Nat
      /\ running <= counted /\ main \in Controls
  BY AliveFinite DEF IInv, TypeOK, Counts
<1>1. CASE CreateThread
  <2>1. next \in Workers \ Alive /\ Alive' = Alive \cup {next}
    BY <1>1 DEF CreateThread, IInv, TypeOK, Launched, Workers, Alive
  <2>2. Cardinality(Alive') = Cardinality(Alive) + 1
    BY <2>1, AliveFinite, FS_AddElement
  <2>. QED  BY <1>0, <1>1, <2>2 DEF CreateThread, IInv, Launched, Counts
<1>2. CASE ~CreateThread
  <2>1. Alive' = Alive
    <3>1. CASE LaunchAborts \/ StopBroadcast
      BY <3>1, WokenMoves DEF LaunchAborts, StopBroadcast, Alive, IInv
    <3>2. CASE UNCHANGED pc
      BY <3>2 DEF Alive
    <3>. QED
      BY <1>2, <3>1, <3>2
         DEF Main, BeginLaunch, CountWorker, CreateFails, LaunchFails, EndLaunch, Stop,
             JoinWorker, EndJoin, Call, worker
  <2>. HIDE DEF Alive
  <2>. USE <1>0, <2>1 DEF IInv, Launched, Counts, Go
  <2>2. CASE BeginLaunch
    BY <2>2 DEF BeginLaunch
  <2>3. CASE CountWorker
    BY <2>3 DEF CountWorker
  <2>4. CASE CreateFails
    BY <2>4 DEF CreateFails, TypeOK
  <2>5. CASE LaunchFails
    BY <2>5 DEF LaunchFails
  <2>6. CASE LaunchAborts
    BY <2>6 DEF LaunchAborts
  <2>7. CASE EndLaunch
    <3>1. phase # "failed" /\ running = 0 => Alive = {}
      BY <2>7, AliveFinite, FS_EmptySet DEF EndLaunch
    <3>. QED  BY <2>7, <3>1 DEF EndLaunch, Settled
  <2>8. CASE Stop
    BY <2>8 DEF Stop
  <2>9. CASE StopBroadcast \/ JoinWorker \/ Call
    BY <2>9 DEF StopBroadcast, JoinWorker, Call
  <2>10. CASE EndJoin
    <3>1. ASSUME NEW w \in Workers PROVE pc[w] \in {"none", "done"}
      <4>1. next \in Nat /\ next >= 1 /\ next > counted /\ started = 1 .. counted
        BY <2>10 DEF EndJoin, ToJoin, TypeOK
      <4>2. CASE w \in started
        BY <2>10, <4>1, <4>2 DEF EndJoin, Joins
      <4>. QED  BY <4>2
    <3>2. Alive = {}
      BY <3>1 DEF Alive
    <3>. QED  BY <2>10, <3>2, FS_EmptySet DEF EndJoin
  <2>. QED
    BY <1>2, <2>2, <2>3, <2>4, <2>5, <2>6, <2>7, <2>8, <2>9, <2>10 DEF Main
<1>. QED  BY <1>1, <1>2

\* A thread takes itself off the count when it ends, unless its guest could not be
\* bound; the last one stops a running session.
LEMMA ThreadCounts ==
  ASSUME IInv, NEW w \in Workers, Thread(w) \/ SpuriousWake(w)
  PROVE  Counts'
<1>0. /\ running \in Nat /\ counted \in Nat /\ Cardinality(Alive) \in Nat
      /\ running <= counted
  BY AliveFinite DEF IInv, TypeOK, Counts
<1>1. /\ UNCHANGED <<main, counted>> /\ w \in Alive
      /\ \A v \in Workers \ {w} : v \in Alive' <=> v \in Alive
  BY ThreadMoves DEF IInv, control, Alive
<1>2. phase = "failed" => phase' = "failed"
  BY ThreadMoves DEF IInv
<1>3. CASE EndThread(w)
  <2>1. Alive' = Alive \ {w}
    BY <1>1, <1>3 DEF EndThread, Alive, IInv, TypeOK
  <2>2. Cardinality(Alive') = Cardinality(Alive) - 1
    BY <1>1, <2>1, AliveFinite, FS_RemoveElement
  <2>3. Cardinality(Alive') \in Nat /\ (Cardinality(Alive') = 0 => Alive' = {})
    BY <2>1, AliveFinite, FS_RemoveElement, FS_EmptySet, FS_CardinalityType
  <2>4. main = "create" => phase # "running"
    BY DEF IInv, Launched
  <2>. HIDE DEF Alive
  <2>. QED
    BY <1>0, <1>1, <1>3, <2>2, <2>3, <2>4 DEF EndThread, Release, IInv, Counts
<1>4. CASE ~EndThread(w)
  <2>1. /\ running' = running /\ phase' \in {phase, "failed"}
        /\ pc'[w] # "done" \/ phase' = "failed"
    BY <1>2, <1>4, WokenMoves
       DEF Thread, StartGuest, BindFails, BindBroadcast, Send, SendWakes, Recv, TryRecv,
           Look, Leave, Sleep, RecvAgain, GuestOk, GuestFails, ErrorBroadcast,
           BroadcastBy, SpuriousWake, IInv, TypeOK, Failures
  <2>2. pc'[w] # "done" => Alive' = Alive
    BY <1>1, ThreadMoves DEF Alive, IInv
  <2>. HIDE DEF Alive
  <2>. QED  BY <1>0, <1>1, <2>1, <2>2 DEF IInv, Counts
<1>. QED  BY <1>3, <1>4

---------------------------------------------------------------------------
(* Who waits for mail                                                      *)

\* While a receiver has the mutex nobody sends or receives, and a send leaves
\* nobody asleep.
LEMMA MailStep ==
  ASSUME IInv, Next
  PROVE  Mail'
<1>. USE DEF IInv
<1>1. CASE Main \/ Call
  <2>1. UNCHANGED <<wants, queue>>
    BY <1>1 DEF Main, BeginLaunch, CountWorker, CreateThread, CreateFails, LaunchFails,
                LaunchAborts, EndLaunch, Stop, StopBroadcast, JoinWorker, EndJoin, Call,
                worker
  <2>2. CASE CreateThread
    BY <2>1, <2>2 DEF CreateThread, TypeOK, Mail
  <2>3. CASE LaunchAborts \/ StopBroadcast
    BY <2>1, <2>3, WokenMoves DEF LaunchAborts, StopBroadcast, Mail
  <2>4. CASE UNCHANGED pc
    BY <2>1, <2>4 DEF Mail
  <2>. QED
    BY <1>1, <2>2, <2>3, <2>4
       DEF Main, BeginLaunch, CountWorker, CreateFails, LaunchFails, EndLaunch, Stop,
           JoinWorker, EndJoin, Call, worker
<1>2. ASSUME NEW w \in Workers, Thread(w) \/ SpuriousWake(w) PROVE Mail'
  <2>. USE DEF TypeOK, Mail
  <2>1. ASSUME NEW m \in Mailboxes, Send(w, m) PROVE Mail'
    <3>1. \A v \in Workers : pc[v] \notin {"look", "wait"}
      BY <2>1, PlanAssumption DEF Send, Workers
    <3>2. wants' = wants /\ \A v \in Workers : pc'[v] \notin {"look", "wait"}
      <4>1. wants' = wants /\ pc'[w] = "guest"
        BY <2>1, WokenMoves DEF Send, SendWakes, BroadcastBy
      <4>. QED  BY <1>2, <3>1, <4>1, ThreadMoves
    <3>3. CASE queue' = queue /\ pc' = pc
      BY <3>2, <3>3
    <3>4. CASE pc' = [Woken(pc) EXCEPT ![w] = "guest"]
      <4>1. \A v \in Workers : pc'[v] # "asleep"
        BY <3>4, WokenMoves
      <4>2. \A v \in Workers : pc'[v] = "awake" => pc[v] \in {"asleep", "awake"}
        BY <3>4, WokenMoves
      <4>. QED  BY <3>2, <4>1, <4>2
    <3>. QED  BY <2>1, <3>3, <3>4 DEF Send, SendWakes, BroadcastBy
  <2>2. ASSUME NEW m \in Mailboxes, TryRecv(w, m) PROVE Mail'
    <3>1. CASE queue[m] > 0 /\ queue' = [queue EXCEPT ![m] = @ - 1]
      BY <2>2, <3>1 DEF TryRecv
    <3>2. CASE queue[m] = 0
      BY <2>2, <3>2 DEF TryRecv
    <3>. QED  BY <2>2, <3>1, <3>2 DEF TryRecv
  <2>3. ASSUME NEW m \in Mailboxes, Recv(w, m) PROVE Mail'
    BY <2>2, <2>3 DEF Recv
  <2>4. CASE RecvAgain(w)
    BY <2>2, <2>4 DEF RecvAgain
  <2>5. CASE Look(w) \/ Sleep(w) \/ SpuriousWake(w)
    BY <2>5 DEF Look, Leave, Sleep, SpuriousWake
  <2>6. CASE BindBroadcast(w) \/ ErrorBroadcast(w)
    BY <2>6, WokenMoves DEF BindBroadcast, ErrorBroadcast, BroadcastBy
  <2>7. CASE \/ StartGuest(w) \/ BindFails(w) \/ GuestOk(w) \/ GuestFails(w)
             \/ EndThread(w)
    BY <2>7 DEF StartGuest, BindFails, GuestOk, GuestFails, EndThread
  <2>. QED  BY <1>2, <2>1, <2>3, <2>4, <2>5, <2>6, <2>7 DEF Thread
<1>. QED  BY <1>1, <1>2 DEF Next

---------------------------------------------------------------------------
(* Theorems                                                                *)

\* A session that nobody has launched satisfies the invariant.
LEMMA InitInvariant == Init => IInv
<1>. SUFFICES ASSUME Init PROVE IInv
  OBVIOUS
<1>1. TypeOK
  <2>1. /\ phase \in Phases /\ main \in Controls
        /\ counted \in 0 .. NumWorkers /\ running \in 0 .. NumWorkers
        /\ next \in 1 .. NumWorkers + 1
    BY PlanAssumption DEF Init, Phases, Controls
  <2>2. /\ started \subseteq Workers /\ joined \subseteq started /\ erred \subseteq Workers
        /\ queue \in [Mailboxes -> 0 .. Depth] /\ calls \in [Workers -> 0 .. MaxCalls]
    BY DepthAssumption DEF Init
  <2>3. /\ pc \in [Workers -> Stages] /\ wants \in [Workers -> Mailboxes \cup {None}]
        /\ lock \in Workers \cup {None}
        /\ \A w \in Workers : lock = w <=> pc[w] \in {"look", "wait"}
    BY PlanAssumption DEF Init, Stages, Workers
  <2>4. drop \in BOOLEAN
    BY DEF Init
  <2>. QED  BY <2>1, <2>2, <2>3, <2>4 DEF TypeOK
<1>2. Alive = {}
  BY DEF Init, Alive
<1>3. Counts
  BY <1>2, FS_EmptySet DEF Init, Counts
<1>4. Launched
  <2>1. started = 1 .. 0
    BY DEF Init
  <2>. QED  BY <2>1 DEF Init, Launched
<1>5. Joins /\ Failures /\ Mail
  <2>1. Joins /\ ErrorSurfaces
    BY DEF Init, Joins, ErrorSurfaces
  <2>2. \A w \in Workers : pc[w] = "none"
    BY DEF Init
  <2>. QED  BY <2>1, <2>2 DEF Failures, Mail
<1>. QED  BY <1>1, <1>3, <1>4, <1>5 DEF IInv

\* Every step keeps it.
LEMMA NextInvariant == IInv /\ [Next]_vars => IInv'
<1>. SUFFICES ASSUME IInv, [Next]_vars PROVE IInv'
  OBVIOUS
<1>1. CASE Main \/ Call
  <2>1. TypeOK'
    BY <1>1, ControlType
  <2>. QED
    BY <1>1, <2>1, ControlLaunched, JoinsStep, FailuresStep, ControlCounts, MailStep
       DEF IInv, Next
<1>2. ASSUME NEW w \in Workers, Thread(w) \/ SpuriousWake(w) PROVE IInv'
  <2>1. TypeOK' /\ Launched' /\ Counts'
    BY <1>2, ThreadType, ThreadLaunched, ThreadCounts
  <2>. QED  BY <1>2, <2>1, JoinsStep, FailuresStep, MailStep DEF IInv, Next
<1>3. CASE UNCHANGED vars
  BY <1>3 DEF vars, control, worker, IInv, TypeOK, Launched, Joins, Failures,
              ErrorSurfaces, Counts, Alive, Mail
<1>. QED  BY <1>1, <1>2, <1>3 DEF Next

\* The inductive invariant holds of every session: launches that succeed, fail or
\* are aborted, stops, joins, drops and guests that end in any way.
THEOREM InvariantHolds == Spec => []IInv
BY InitInvariant, NextInvariant, PTL DEF Spec

\* Every variable has its type; mailbox_mutex is held exactly between the look at
\* an empty mailbox and the sleep.
THEOREM TypeCorrect == Spec => []TypeOK
<1>1. IInv => TypeOK
  BY DEF IInv
<1>. QED  BY <1>1, InvariantHolds, PTL

\* What session.status reports is true of the threads, and a session is cleared
\* only when each of its threads has returned and been joined.
THEOREM PhaseIsTruthful == Spec => []PhaseTruthful
<1>1. IInv => PhaseTruthful
  <2>. SUFFICES ASSUME IInv PROVE PhaseTruthful
    OBVIOUS
  <2>1. ASSUME phase = "running" PROVE \E w \in started : pc[w] # "done"
    <3>1. main # "create" /\ running > 0
      BY <2>1 DEF IInv, Launched, Counts
    <3>2. Alive # {}
      BY <2>1, <3>1, FS_EmptySet DEF IInv, Counts
    <3>. QED  BY <3>2 DEF IInv, Launched, Alive
  <2>2. ASSUME phase = "stopped" PROVE \A w \in Workers : Over(w)
    BY <2>2 DEF IInv, Counts, Alive, Over
  <2>3. ASSUME main = "gone" PROVE \A w \in started : pc[w] = "done" /\ w \in joined
    BY <2>3 DEF IInv, Joins
  <2>. QED  BY <2>1, <2>2, <2>3 DEF PhaseTruthful
<1>. QED  BY <1>1, InvariantHolds, PTL

\* An error that a worker has reported is never covered by a stop, a join, the end
\* of the launch or the ends of other workers.
THEOREM ErrorsSurface == Spec => []ErrorSurfaces
<1>1. IInv => ErrorSurfaces
  BY DEF IInv, Failures
<1>. QED  BY <1>1, InvariantHolds, PTL

\* No receiver sleeps on a mailbox that holds mail, with any number of senders and
\* receivers, although one condition variable serves all mailboxes.
THEOREM NoMailIsMissed == Spec => []NoMailMissed
<1>1. IInv => NoMailMissed
  BY DEF IInv, Mail, NoMailMissed
<1>. QED  BY <1>1, InvariantHolds, PTL

\* The fair sessions, of which the runs check the joins, are among them.
COROLLARY FairSessions ==
  FairSpec => [](PhaseTruthful /\ ErrorSurfaces /\ NoMailMissed)
BY PhaseIsTruthful, ErrorsSurface, NoMailIsMissed, PTL DEF FairSpec
============================================================================

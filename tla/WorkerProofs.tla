---------------------------- MODULE WorkerProofs ----------------------------
(* Proofs about Worker and its Timers, for any threads, workers, due times *)
(* and bounds.                                                             *)
EXTENDS Worker, WellFoundedInduction, TLAPS

---------------------------------------------------------------------------
(* The inductive invariant                                                 *)

\* A number is used for one timer: those stored, now or in the checkpoint, have
\* numbers below the next one.
Numbered == \A k \in Keys : rows[k] # NoRow \/ saved[k] # NoRow => k.seq < nextSeq

\* What a thread remembers of the timer it runs: it was stored, and once its
\* handler has accepted it nobody waits for it any more.
Chosen(w) ==
  /\ pc[w] \in {"handle", "delete"} => job[w].find.key.seq < nextSeq
  /\ pc[w] = "delete" => job[w].find.key \notin unserved

\* The locals of the drain: the clock it read, and what the batch has left.
Budget(w) ==
  /\ job[w].now <= clock
  /\ pc[w] \in {"handle", "delete"} => job[w].why = "drain"
  /\ pc[w] \in {"seed", "repair"} => job[w].rounds < RepairLimit
  /\ pc[w] \in {"read", "seed", "repair", "handle", "delete"} /\ job[w].why = "drain"
       => job[w].left >= 1 /\ job[w].left + job[w].done = MaxBatch

IInv == /\ TypeOK /\ TimerKept /\ Numbered
        /\ \A w \in Threads : Chosen(w) /\ Budget(w)

---------------------------------------------------------------------------
(* The first timer                                                         *)

\* The less-than relation of the naturals, as a set of pairs.
NatLess == {p \in Nat \X Nat : p[1] < p[2]}

\* A non-empty set of naturals has a least element.
LEMMA LeastExists ==
  ASSUME NEW S \in SUBSET Nat, S # {}
  PROVE  \E s \in S : \A t \in S : s <= t
<1>1. IsWellFoundedOn(NatLess, Nat)
  <2>1. OpToRel(<, Nat) = NatLess
    BY DEF OpToRel, NatLess
  <2>. QED  BY <2>1, NatLessThanWellFounded
<1>2. PICK s \in S : \A t \in S : ~(<<t, s>> \in NatLess)
  BY <1>1, WFMin, Zenon
<1>3. ASSUME NEW t \in S PROVE s <= t
  <2>1. <<t, s>> \notin NatLess
    BY <1>2
  <2>2. t \in Nat /\ s \in Nat
    OBVIOUS
  <2>3. ~(t < s)
    BY <2>1, <2>2 DEF NatLess
  <2>. QED  BY <2>2, <2>3
<1>. QED  BY <1>3

\* A set of timers has a first one, in any order that tells due times apart and
\* then goes by number.
LEMMA FirstExists ==
  ASSUME NEW S \in SUBSET Keys, S # {}, NEW time \in [Dues -> Nat],
         \A d, e \in Dues : time[d] = time[e] => d = e
  PROVE  \E k \in S : \A l \in S \ {k} :
           time[k.due] < time[l.due] \/ (time[k.due] = time[l.due] /\ k.seq < l.seq)
<1>. DEFINE T == {time[k.due] : k \in S}
<1>1. T \in SUBSET Nat /\ T # {}
  BY DEF Keys
<1>2. PICK j \in S : \A l \in S : time[j.due] <= time[l.due]
  <2>1. \E t \in T : \A u \in T : t <= u
    <3>. HIDE DEF T
    <3>. QED  BY <1>1, LeastExists
  <2>. QED  BY <2>1
<1>. DEFINE Q == {k.seq : k \in {l \in S : l.due = j.due}}
<1>3. Q \in SUBSET Nat /\ Q # {}
  BY TimersAssumption DEF Keys
<1>4. PICK k \in S : k.due = j.due /\ \A l \in S : l.due = j.due => k.seq <= l.seq
  <2>1. \E q \in Q : \A p \in Q : q <= p
    <3>. HIDE DEF Q
    <3>. QED  BY <1>3, LeastExists
  <2>. QED  BY <2>1
<1>5. ASSUME NEW l \in S \ {k}
      PROVE  time[k.due] < time[l.due] \/ (time[k.due] = time[l.due] /\ k.seq < l.seq)
  <2>. HIDE DEF T, Q
  <2>0. k \in Keys /\ l \in Keys
    OBVIOUS
  <2>1. /\ k.due \in Dues /\ l.due \in Dues /\ k.seq \in Nat /\ l.seq \in Nat
        /\ time[k.due] \in Nat /\ time[l.due] \in Nat
    <3>1. k.due \in Dues /\ l.due \in Dues
      BY <2>0 DEF Keys
    <3>2. k.seq \in 0 .. MaxSeq - 1 /\ l.seq \in 0 .. MaxSeq - 1
      BY <2>0 DEF Keys
    <3>3. MaxSeq \in Nat
      BY TimersAssumption
    <3>. QED  BY <3>1, <3>2, <3>3
  <2>2. CASE time[k.due] = time[l.due]
    <3>1. l.due = k.due
      BY <2>1, <2>2
    <3>2. k.seq # l.seq
      BY <2>0, <3>1 DEF Keys
    <3>. QED  BY <1>4, <2>1, <2>2, <3>1, <3>2
  <2>3. CASE time[k.due] # time[l.due]
    BY <1>2, <1>4, <2>1, <2>3
  <2>. QED  BY <2>2, <2>3
<1>. QED  BY <1>5

\* Both orders of keys tell due times apart: a time fits its width.
LEMMA TimesApart ==
  ASSUME NEW d \in Dues, NEW e \in Dues
  PROVE  /\ RawTime(d) \in Nat /\ IndexTime(d) \in Nat
         /\ RawTime(d) = RawTime(e) => d = e
         /\ IndexTime(d) = IndexTime(e) => d = e
<1>. DEFINE H == Word \div 2
<1>1. /\ Word \in Nat /\ H \in Nat /\ Word = 2 * H /\ Word > 0
      /\ d \in -H .. H - 1 /\ e \in -H .. H - 1
  BY TimersAssumption
<1>. HIDE DEF H
<1>2. ASSUME NEW x \in -H .. H - 1
      PROVE  /\ x % Word = (IF x >= 0 THEN x ELSE x + Word)
             /\ (x + H) % Word = x + H
  BY <1>1
<1>3. RawTime(d) = (IF d >= 0 THEN d ELSE d + Word)
      /\ RawTime(e) = (IF e >= 0 THEN e ELSE e + Word)
  BY <1>1, <1>2 DEF RawTime
<1>4. IndexTime(d) = d + H /\ IndexTime(e) = e + H
  BY <1>1, <1>2 DEF IndexTime, H
<1>. QED  BY <1>1, <1>3, <1>4

\* The first row and the first entry of the index are there if anything is.
LEMMA LeastIsFirst ==
  ASSUME NEW S \in SUBSET Keys, S # {}
  PROVE  /\ Least(S, RawTime) \in S
         /\ \A l \in S \ {Least(S, RawTime)} : RawTime(Least(S, RawTime).due) <= RawTime(l.due)
         /\ Least(S, IndexTime) \in S
<1>. DEFINE raw == [d \in Dues |-> RawTime(d)]
            flipped == [d \in Dues |-> IndexTime(d)]
<1>1. raw \in [Dues -> Nat] /\ flipped \in [Dues -> Nat]
  BY TimesApart
<1>2. \A d, e \in Dues : raw[d] = raw[e] => d = e
  BY TimesApart
<1>3. \A d, e \in Dues : flipped[d] = flipped[e] => d = e
  BY TimesApart
<1>4. \A k \in S : raw[k.due] = RawTime(k.due) /\ flipped[k.due] = IndexTime(k.due)
  BY DEF Keys
<1>5. \E k \in S : \A l \in S \ {k} :
        raw[k.due] < raw[l.due] \/ (raw[k.due] = raw[l.due] /\ k.seq < l.seq)
  <2>. HIDE DEF raw, flipped
  <2>. QED  BY <1>1, <1>2, FirstExists
<1>6. \E k \in S : \A l \in S \ {k} :
        flipped[k.due] < flipped[l.due] \/ (flipped[k.due] = flipped[l.due] /\ k.seq < l.seq)
  <2>. HIDE DEF raw, flipped
  <2>. QED  BY <1>1, <1>3, FirstExists
<1>7. \E k \in S : \A l \in S \ {k} :
        RawTime(k.due) < RawTime(l.due) \/ (RawTime(k.due) = RawTime(l.due) /\ k.seq < l.seq)
  <2>. HIDE DEF raw, flipped
  <2>. QED  BY <1>4, <1>5
<1>8. \E k \in S : \A l \in S \ {k} :
        \/ IndexTime(k.due) < IndexTime(l.due)
        \/ IndexTime(k.due) = IndexTime(l.due) /\ k.seq < l.seq
  <2>. HIDE DEF raw, flipped
  <2>. QED  BY <1>4, <1>6
<1>9. PICK k \in S : k = Least(S, RawTime) /\ \A l \in S \ {k} :
        RawTime(k.due) < RawTime(l.due) \/ (RawTime(k.due) = RawTime(l.due) /\ k.seq < l.seq)
  BY <1>7 DEF Least
<1>10. Least(S, IndexTime) \in S
  BY <1>8 DEF Least
<1>11. \A l \in S : RawTime(l.due) \in Nat
  BY TimesApart DEF Keys
<1>12. ASSUME NEW l \in S \ {k} PROVE RawTime(k.due) <= RawTime(l.due)
  <2>. HIDE DEF raw, flipped
  <2>1. RawTime(k.due) < RawTime(l.due) \/ RawTime(k.due) = RawTime(l.due)
    BY <1>9
  <2>2. RawTime(k.due) \in Nat /\ RawTime(l.due) \in Nat
    BY <1>11
  <2>. QED  BY <2>1, <2>2
<1>. QED  BY <1>9, <1>10, <1>12

---------------------------------------------------------------------------
(* What a search finds                                                     *)

Finds == [how : {"none", "seed", "prune", "upsert", "timer"},
          key : Keys, to : Workers \cup {NoRow}]

\* There are keys.
LEMMA KeysExist == Somewhere \in Keys /\ Nothing \in Finds /\ NoJob \in Jobs
<1>1. \E k : k \in Keys
  <2>1. PICK d : d \in Dues
    BY TimersAssumption
  <2>2. 0 \in 0 .. MaxSeq - 1
    BY TimersAssumption
  <2>3. [due |-> d, seq |-> 0] \in Keys
    BY <2>1, <2>2 DEF Keys
  <2>. QED  BY <2>3
<1>2. Somewhere \in Keys
  BY <1>1 DEF Somewhere
<1>3. Nothing \in Finds
  BY <1>2 DEF Nothing, Found, Finds
<1>4. NoJob \in Jobs
  BY <1>3, WorkerAssumption DEF NoJob, Jobs, Finds
<1>. QED  BY <1>2, <1>3, <1>4

\* A round of read_valid_min_timer answers a timer only if it is the first row
\* and stored; what it repairs is a key with its row.
LEMMA RoundAnswer ==
  ASSUME TypeOK
  PROVE  /\ RoundFinds \in Finds
         /\ RoundFinds.how = "timer" =>
              /\ rows[RoundFinds.key] # NoRow /\ RoundFinds.to = rows[RoundFinds.key]
              /\ RoundFinds.key = FirstRow
<1>1. /\ Stored(rows) \in SUBSET Keys /\ Stored(index) \in SUBSET Keys
      /\ rows \in [Keys -> Workers \cup {NoRow}]
  BY DEF Stored, TypeOK, Contents
<1>2. CASE Stored(index) = {}
  BY <1>2, KeysExist DEF RoundFinds, Found, Finds
<1>3. CASE Stored(index) # {}
  <2>1. PICK min : min = IndexMin
    OBVIOUS
  <2>2. min \in Keys
    BY <1>1, <1>3, <2>1, LeastIsFirst DEF IndexMin
  <2>3. PICK first : first = FirstRow
    OBVIOUS
  <2>4. rows[min] # NoRow => first \in Keys
    <3>1. rows[min] # NoRow => Stored(rows) # {}
      BY <2>2 DEF Stored
    <3>. QED  BY <1>1, <2>3, <3>1, LeastIsFirst DEF FirstRow
  <2>5. RoundFinds =
          IF rows[min] = NoRow THEN Found("prune", min, NoRow)
          ELSE IF first # min THEN Found("upsert", first, rows[first])
          ELSE IF index[min] # rows[min] THEN Found("upsert", min, rows[min])
          ELSE Found("timer", min, rows[min])
    BY <1>3, <2>1, <2>3 DEF RoundFinds
  <2>. QED  BY <1>1, <2>2, <2>3, <2>4, <2>5 DEF Found, Finds
<1>. QED  BY <1>2, <1>3

\* So is what it seeds the index with.
LEMMA SeedAnswer == TypeOK => SeedFinds \in Finds
<1>. SUFFICES ASSUME TypeOK PROVE SeedFinds \in Finds
  OBVIOUS
<1>1. /\ Stored(rows) \in SUBSET Keys
      /\ rows \in [Keys -> Workers \cup {NoRow}]
  BY DEF Stored, TypeOK, Contents
<1>2. CASE Stored(rows) = {}
  BY <1>2, KeysExist DEF SeedFinds
<1>3. CASE Stored(rows) # {}
  <2>1. FirstRow \in Keys
    BY <1>1, <1>3, LeastIsFirst DEF FirstRow
  <2>. QED  BY <1>1, <1>3, <2>1 DEF SeedFinds, Found, Finds
<1>. QED  BY <1>2, <1>3

---------------------------------------------------------------------------
(* Moves of a thread                                                       *)

Stages == {"none", "top", "poll", "read", "seed", "repair", "handle", "delete",
           "asleep", "ended"}

\* A step of w leaves the other threads where they are.
OnlyMoves(w) ==
  /\ pc' \in [Threads -> Stages] /\ job' \in [Threads -> Jobs]
  /\ up' \in [Threads -> BOOLEAN] /\ stop' \in [Threads -> BOOLEAN]
  /\ \A v \in Threads \ {w} : pc'[v] = pc[v] /\ job'[v] = job[v]

\* The thread is done with its search or its timer: it keeps nothing of them.
Rests(w) ==
  /\ OnlyMoves(w)
  /\ pc'[w] \in {"top", "poll", "read", "asleep", "ended"}
  /\ job'[w].now = 0 /\ (pc'[w] = "read" => job'[w].why = "idle")

\* Goto writes the stage and the locals of one thread.
LEMMA Goes ==
  ASSUME TypeOK, NEW w \in Threads, NEW where \in Stages, NEW j \in Jobs,
         Continue(w, where, j)
  PROVE  OnlyMoves(w) /\ pc'[w] = where /\ job'[w] = j
BY DEF Continue, Goto, lifecycle, TypeOK, OnlyMoves, Stages

\* The thread ends.
LEMMA Ends ==
  ASSUME TypeOK, NEW w \in Threads, End(w)
  PROVE  Rests(w)
<1>1. /\ pc' = [pc EXCEPT ![w] = "ended"] /\ job' = [job EXCEPT ![w] = NoJob]
      /\ up' = [up EXCEPT ![w] = FALSE] /\ stop' = stop
  BY DEF End, Goto
<1>2. pc' \in [Threads -> Stages] /\ pc'[w] = "ended"
      /\ \A v \in Threads \ {w} : pc'[v] = pc[v]
  BY <1>1 DEF TypeOK, Stages
<1>3. job' \in [Threads -> Jobs] /\ job'[w] = NoJob
      /\ \A v \in Threads \ {w} : job'[v] = job[v]
  BY <1>1, KeysExist DEF TypeOK
<1>4. up' \in [Threads -> BOOLEAN] /\ stop' \in [Threads -> BOOLEAN]
  BY <1>1 DEF TypeOK
<1>. QED  BY <1>2, <1>3, <1>4 DEF Rests, OnlyMoves, NoJob

\* The idle sleep is computed.
LEMMA Idles ==
  ASSUME TypeOK, NEW w \in Threads, NEW busy \in BOOLEAN, Idle(w, busy)
  PROVE  Rests(w)
<1>. DEFINE j == [NoJob EXCEPT !.why = "idle", !.busy = busy]
<1>1. j \in Jobs
  BY KeysExist DEF Jobs
<1>2. j.now = 0 /\ j.why = "idle"
  BY KeysExist DEF NoJob
<1>3. Continue(w, "read", j)
  BY DEF Idle
<1>. HIDE DEF j
<1>4. OnlyMoves(w) /\ pc'[w] = "read" /\ job'[w] = j
  BY <1>1, <1>3, Goes DEF Stages
<1>. QED  BY <1>2, <1>4 DEF Rests

\* The thread goes back to the top of its loop, or to the inbox.
LEMMA Tops ==
  ASSUME TypeOK, NEW w \in Threads, NEW where \in {"top", "poll"},
         Continue(w, where, NoJob)
  PROVE  Rests(w)
<1>1. OnlyMoves(w) /\ pc'[w] = where /\ job'[w] = NoJob
  BY KeysExist, Goes DEF Stages
<1>. QED  BY <1>1 DEF Rests, NoJob

\* A tick that answers BUSY, and one that answers OK.
LEMMA Ticks ==
  ASSUME TypeOK, NEW w \in Threads
  PROVE  /\ Busy(w) => Rests(w)
         /\ \A n \in Nat : TickOk(w, n) => Rests(w)
<1>1. Busy(w) => Rests(w)
  BY Ends, Idles DEF Busy
<1>2. ASSUME NEW n \in Nat, TickOk(w, n) PROVE Rests(w)
  BY <1>2, Idles, Tops DEF TickOk
<1>. QED  BY <1>1, <1>2

\* The scheduler's answer is a time to sleep.
LEMMA SleepTimes ==
  ASSUME NEW now \in Nat, NEW due \in Dues
  PROVE  SleepTime(now, due) \in 0 .. MaxIdle
<1>1. due \in Int /\ MaxIdle \in Nat \ {0}
  BY TimersAssumption, WorkerAssumption
<1>2. CASE due <= now
  BY <1>1, <1>2 DEF SleepTime
<1>3. CASE ~(due <= now)
  <2>1. due - now \in Nat
    BY <1>1, <1>3
  <2>2. PICK a : a = due - now
    OBVIOUS
  <2>3. \E m \in {a, MaxIdle} : \A n \in {a, MaxIdle} : m <= n
    BY <1>1, <2>1, <2>2
  <2>4. Min({a, MaxIdle}) \in {a, MaxIdle} /\ Min({a, MaxIdle}) <= MaxIdle
    BY <2>3 DEF Min
  <2>5. Min({a, MaxIdle}) \in 0 .. MaxIdle
    BY <1>1, <2>1, <2>2, <2>4
  <2>. QED  BY <1>3, <2>2, <2>5 DEF SleepTime
<1>. QED  BY <1>2, <1>3

\* The thread sleeps, if there is any time to sleep.
LEMMA Sleeps ==
  ASSUME TypeOK, NEW w \in Threads, NEW ms \in 0 .. MaxIdle, Sleep(w, ms)
  PROVE  Rests(w)
<1>. DEFINE t == IF job[w].busy THEN Max({ms, 1}) ELSE ms
            j == [NoJob EXCEPT !.wake = clock + t]
<1>1. MaxIdle \in Nat \ {0} /\ MaxClock \in Nat /\ clock \in 0 .. MaxClock
  BY WorkerAssumption DEF TypeOK
<1>2. t \in 0 .. MaxIdle
  <2>1. Max({ms, 1}) \in 0 .. MaxIdle
    BY <1>1 DEF Max
  <2>. QED  BY <2>1
<1>3. CASE t = 0
  BY <1>3, Tops DEF Sleep
<1>4. CASE t # 0
  <2>1. Continue(w, "asleep", j)
    BY <1>4 DEF Sleep
  <2>. HIDE DEF t
  <2>2. clock + t \in 0 .. MaxClock + MaxIdle
    BY <1>1, <1>2
  <2>3. j \in Jobs
    BY <2>2, KeysExist DEF Jobs
  <2>4. j.now = 0
    BY KeysExist DEF NoJob
  <2>. HIDE DEF j
  <2>5. OnlyMoves(w) /\ pc'[w] = "asleep" /\ job'[w] = j
    BY <2>1, <2>3, Goes DEF Stages
  <2>. QED  BY <2>4, <2>5 DEF Rests
<1>. QED  BY <1>3, <1>4

\* Without a timer the tick ends, or the thread sleeps as long as it may.
LEMMA TimerMissing ==
  ASSUME TypeOK, NEW w \in Threads, NoTimer(w)
  PROVE  Rests(w)
<1>1. job[w].done \in Nat /\ MaxIdle \in 0 .. MaxIdle
  BY WorkerAssumption DEF TypeOK, Jobs
<1>. QED  BY <1>1, Ticks, Sleeps DEF NoTimer

\* Rows no timer that waits is stored in may go; the rest is what w knows now.
LEMMA ThreadKeeps ==
  ASSUME IInv, NEW w \in Threads, OnlyMoves(w),
         UNCHANGED <<saved, nextSeq, restores, clock>>,
         rows' \in Contents, index' \in Contents,
         \A k \in Keys : rows'[k] # NoRow => rows[k] # NoRow,
         unserved' \subseteq unserved, \A k \in unserved' : rows'[k] # NoRow,
         Chosen(w)', Budget(w)'
  PROVE  IInv'
<1>1. TypeOK'
  BY DEF IInv, TypeOK, OnlyMoves, Stages
<1>2. TimerKept' /\ Numbered'
  BY DEF IInv, TimerKept, Numbered
<1>3. ASSUME NEW v \in Threads PROVE Chosen(v)' /\ Budget(v)'
  <2>1. CASE v = w
    BY <2>1
  <2>2. CASE v # w
    <3>1. pc'[v] = pc[v] /\ job'[v] = job[v] /\ nextSeq' = nextSeq /\ clock' = clock
      BY <2>2 DEF OnlyMoves
    <3>2. Chosen(v) /\ Budget(v)
      BY DEF IInv
    <3>3. Chosen(v)'
      BY <3>1, <3>2 DEF Chosen
    <3>4. Budget(v)'
      BY <3>1, <3>2 DEF Budget
    <3>. QED  BY <3>3, <3>4
  <2>. QED  BY <2>1, <2>2
<1>. QED  BY <1>1, <1>2, <1>3 DEF IInv

\* A thread that rests breaks nothing.
LEMMA RestsKeep ==
  ASSUME IInv, NEW w \in Threads, Rests(w), UNCHANGED <<timers, clock, unserved>>
  PROVE  IInv'
<1>1. clock \in 0 .. MaxClock /\ MaxClock \in Nat
  BY WorkerAssumption DEF IInv, TypeOK
<1>2. Chosen(w)'
  BY DEF Rests, Chosen
<1>3. Budget(w)'
  BY <1>1 DEF Rests, Budget
<1>4. /\ rows' = rows /\ index' = index /\ saved' = saved
      /\ nextSeq' = nextSeq /\ restores' = restores /\ clock' = clock /\ unserved' = unserved
  BY DEF timers
<1>5. /\ rows' \in Contents /\ index' \in Contents
      /\ \A k \in unserved' : rows'[k] # NoRow
  BY <1>4 DEF IInv, TypeOK, TimerKept
<1>6. OnlyMoves(w)
  BY DEF Rests
<1>. QED  BY <1>2, <1>3, <1>4, <1>5, <1>6, ThreadKeeps

\* So does one that goes on with locals that say the truth.
LEMMA GoesKeeps ==
  ASSUME IInv, NEW w \in Threads, NEW where \in Stages, NEW j \in Jobs,
         Continue(w, where, j), UNCHANGED <<timers, clock, unserved>>,
         where # "delete",
         where = "handle" => j.find.key.seq < nextSeq /\ j.why = "drain",
         where \in {"seed", "repair"} => j.rounds < RepairLimit,
         j.now <= clock,
         where \in {"read", "seed", "repair", "handle"} /\ j.why = "drain"
           => j.left >= 1 /\ j.left + j.done = MaxBatch
  PROVE  IInv'
<1>1. OnlyMoves(w) /\ pc'[w] = where /\ job'[w] = j
  BY Goes DEF IInv
<1>2. /\ rows' = rows /\ index' = index /\ saved' = saved
      /\ nextSeq' = nextSeq /\ restores' = restores /\ clock' = clock /\ unserved' = unserved
  BY DEF timers
<1>3. Chosen(w)'
  BY <1>1, <1>2 DEF Chosen
<1>4. Budget(w)'
  BY <1>1, <1>2 DEF Budget
<1>5. /\ rows' \in Contents /\ index' \in Contents
      /\ \A k \in unserved' : rows'[k] # NoRow
  BY <1>2 DEF IInv, TypeOK, TimerKept
<1>. QED  BY <1>1, <1>2, <1>3, <1>4, <1>5, ThreadKeeps

---------------------------------------------------------------------------
(* The steps of a thread                                                   *)

\* The steps after which a thread keeps nothing of its search or its timer.
LEMMA RestSteps ==
  ASSUME IInv, NEW w \in Threads,
         \/ Top(w) \/ Wake(w) \/ PollFull(w) \/ PollBusy(w) \/ PollFails(w)
         \/ GiveUp(w) \/ RepairRefused(w) \/ Decline(w) \/ HandlerFails(w)
         \/ DeleteRefused(w)
  PROVE  IInv'
<1>0. TypeOK /\ MaxBatch \in Nat
  BY WorkerAssumption DEF IInv
<1>1. UNCHANGED <<timers, clock, unserved>>
  BY DEF Top, Wake, PollFull, PollBusy, PollFails, GiveUp, RepairRefused, Decline,
         HandlerFails, DeleteRefused
<1>8. Rests(w)
  <2>1. CASE Top(w)
    BY <1>0, <2>1, Ends, Ticks, Tops DEF Top
  <2>2. CASE Wake(w)
    BY <1>0, <2>2, Tops DEF Wake
  <2>3. CASE PollFull(w)
    BY <1>0, <2>3, Ticks DEF PollFull
  <2>4. CASE PollBusy(w) \/ Decline(w) \/ DeleteRefused(w)
    BY <1>0, <2>4, Ticks DEF PollBusy, Decline, DeleteRefused
  <2>5. CASE PollFails(w) \/ GiveUp(w) \/ HandlerFails(w)
    BY <1>0, <2>5, Ends DEF PollFails, GiveUp, HandlerFails
  <2>6. CASE RepairRefused(w)
    BY <1>0, <2>6, Ends, Ticks DEF RepairRefused
  <2>. QED  BY <2>1, <2>2, <2>3, <2>4, <2>5, <2>6
<1>. QED  BY <1>1, <1>8, RestsKeep

\* The poll leaves something of the batch for the timers.
LEMMA PollShortKeeps ==
  ASSUME IInv, NEW w \in Threads, PollShort(w)
  PROVE  IInv'
<1>0. MaxBatch \in Nat \ {0} /\ MaxClock \in Nat /\ RepairLimit \in Nat /\ clock \in 0 .. MaxClock
  BY WorkerAssumption DEF IInv, TypeOK
<1>1. PICK n \in 0 .. MaxBatch - 1 :
        Continue(w, "read", [NoJob EXCEPT !.left = MaxBatch - n, !.done = n, !.now = clock])
  BY DEF PollShort
<1>. DEFINE j == [NoJob EXCEPT !.left = MaxBatch - n, !.done = n, !.now = clock]
<1>2. MaxBatch - n \in 1 .. MaxBatch /\ n \in 0 .. MaxBatch
  BY <1>0
<1>3. j \in Jobs
  <2>1. ASSUME NEW a \in 0 .. MaxBatch, NEW b \in 0 .. MaxBatch, NEW c \in 0 .. MaxClock
        PROVE  [NoJob EXCEPT !.left = a, !.done = b, !.now = c] \in Jobs
    BY KeysExist DEF Jobs
  <2>2. MaxBatch - n \in 0 .. MaxBatch
    BY <1>0, <1>2
  <2>. QED  BY <1>0, <1>2, <2>1, <2>2
<1>4. j.now = clock /\ j.left = MaxBatch - n /\ j.done = n
  BY DEF NoJob
<1>5. Continue(w, "read", j)
  BY <1>1
<1>. HIDE DEF j
<1>6. UNCHANGED <<timers, clock, unserved>>
  BY DEF PollShort
<1>7. j.now <= clock /\ j.left >= 1 /\ j.left + j.done = MaxBatch
  BY <1>0, <1>2, <1>4
<1>8. "read" \in Stages
  BY DEF Stages
<1>. QED  BY <1>3, <1>5, <1>6, <1>7, <1>8, GoesKeeps

\* What a search knows after a round, or after the seeding of the index.
LEMMA ReadRoundKeeps ==
  ASSUME IInv, NEW w \in Threads, ReadRound(w)
  PROVE  IInv'
<1>0. /\ TypeOK /\ job[w] \in Jobs /\ Budget(w) /\ Numbered
      /\ UNCHANGED <<timers, clock, unserved>> /\ pc[w] = "read"
      /\ job[w].rounds < RepairLimit /\ MaxBatch \in Nat /\ MaxIdle \in Nat /\ clock \in Nat
  BY WorkerAssumption DEF ReadRound, IInv, TypeOK
<1>1. PICK f : f = RoundFinds
  OBVIOUS
<1>2. f \in Finds /\ (f.how = "timer" => rows[f.key] # NoRow)
  BY <1>0, <1>1, RoundAnswer
<1>3. \/ f.how = "timer" /\ TakeTimer(w, f)
      \/ f.how = "seed" /\ Continue(w, "seed", job[w])
      \/ f.how \notin {"timer", "seed"} /\ Continue(w, "repair", [job[w] EXCEPT !.find = f])
  BY <1>1 DEF ReadRound
<1>4. CASE f.how = "seed" /\ Continue(w, "seed", job[w])
  BY <1>0, <1>4, GoesKeeps DEF Budget, Stages
<1>5. CASE f.how \notin {"timer", "seed"} /\ Continue(w, "repair", [job[w] EXCEPT !.find = f])
  <2>1. PICK j : j = [job[w] EXCEPT !.find = f]
    OBVIOUS
  <2>2. j \in Jobs
    BY <1>0, <1>2, <2>1 DEF Jobs, Finds
  <2>3. /\ j.now = job[w].now /\ j.rounds = job[w].rounds /\ j.why = job[w].why
        /\ j.left = job[w].left /\ j.done = job[w].done
    BY <1>0, <2>1 DEF Jobs
  <2>. QED  BY <1>0, <1>5, <2>1, <2>2, <2>3, GoesKeeps DEF Budget, Stages
<1>6. CASE f.how = "timer" /\ TakeTimer(w, f)
  <2>1. CASE job[w].why = "idle"
    <3>1. Sleep(w, SleepTime(clock, f.key.due))
      BY <1>6, <2>1 DEF TakeTimer
    <3>2. SleepTime(clock, f.key.due) \in 0 .. MaxIdle
      BY <1>0, <1>2, SleepTimes DEF Finds, Keys
    <3>. QED  BY <1>0, <3>1, <3>2, Sleeps, RestsKeep
  <2>2. CASE job[w].why # "idle" /\ f.key.due > job[w].now
    BY <1>0, <1>6, <2>2, TimerMissing, RestsKeep DEF TakeTimer
  <2>3. CASE job[w].why # "idle" /\ ~(f.key.due > job[w].now)
    <3>1. PICK j : j = [job[w] EXCEPT !.find = f, !.rounds = 0]
      OBVIOUS
    <3>2. j \in Jobs
      <4>1. 0 \in 0 .. RepairLimit
        BY WorkerAssumption
      <4>. QED  BY <1>0, <1>2, <3>1, <4>1 DEF Jobs, Finds
    <3>3. /\ j.now = job[w].now /\ j.find = f /\ j.why = job[w].why
          /\ j.left = job[w].left /\ j.done = job[w].done
      BY <1>0, <3>1 DEF Jobs
    <3>4. Continue(w, "handle", j)
      BY <1>6, <2>3, <3>1 DEF TakeTimer
    <3>5. f.key.seq < nextSeq /\ job[w].why = "drain"
      BY <1>0, <1>2, <1>6, <2>3 DEF Numbered, Finds, Jobs
    <3>. QED  BY <1>0, <3>2, <3>3, <3>4, <3>5, GoesKeeps DEF Budget, Stages
  <2>. QED  BY <2>1, <2>2, <2>3
<1>. QED  BY <1>3, <1>4, <1>5, <1>6

LEMMA SeedReadKeeps ==
  ASSUME IInv, NEW w \in Threads, SeedRead(w)
  PROVE  IInv'
<1>0. /\ TypeOK /\ job[w] \in Jobs /\ Budget(w)
      /\ UNCHANGED <<timers, clock, unserved>> /\ pc[w] = "seed"
      /\ MaxBatch \in Nat /\ MaxIdle \in Nat
  BY WorkerAssumption DEF SeedRead, IInv, TypeOK
<1>1. PICK f : f = SeedFinds
  OBVIOUS
<1>2. f \in Finds
  BY <1>0, <1>1, SeedAnswer
<1>3. CASE NoTimer(w)
  BY <1>0, <1>3, TimerMissing, RestsKeep
<1>4. CASE Continue(w, "repair", [job[w] EXCEPT !.find = f])
  <2>1. PICK j : j = [job[w] EXCEPT !.find = f]
    OBVIOUS
  <2>2. j \in Jobs
    BY <1>0, <1>2, <2>1 DEF Jobs, Finds
  <2>3. /\ j.now = job[w].now /\ j.rounds = job[w].rounds /\ j.why = job[w].why
        /\ j.left = job[w].left /\ j.done = job[w].done
    BY <1>0, <2>1 DEF Jobs
  <2>. QED  BY <1>0, <1>4, <2>1, <2>2, <2>3, GoesKeeps DEF Budget, Stages
<1>. QED  BY <1>1, <1>3, <1>4 DEF SeedRead

\* A repair of the index is one of no more than RepairLimit.
LEMMA RepairIndexKeeps ==
  ASSUME IInv, NEW w \in Threads, RepairIndex(w)
  PROVE  IInv'
<1>0. /\ TypeOK /\ job[w] \in Jobs /\ Budget(w) /\ pc[w] = "repair"
      /\ RepairLimit \in Nat /\ MaxClock \in Nat /\ MaxBatch \in Nat /\ Repair(job[w].find)
  BY WorkerAssumption DEF RepairIndex, IInv, TypeOK
<1>1. PICK j : j = [job[w] EXCEPT !.rounds = @ + 1, !.find = Nothing]
  OBVIOUS
<1>2. job[w].rounds + 1 \in 0 .. RepairLimit
  BY <1>0 DEF Budget, Jobs
<1>3. j \in Jobs
  <2>1. ASSUME NEW a \in 0 .. RepairLimit
        PROVE  [job[w] EXCEPT !.rounds = a, !.find = Nothing] \in Jobs
    BY <1>0, KeysExist DEF Jobs, Finds
  <2>. QED  BY <1>1, <1>2, <2>1
<1>4. /\ j.now = job[w].now /\ j.why = job[w].why
      /\ j.left = job[w].left /\ j.done = job[w].done
  BY <1>0, <1>1 DEF Jobs
<1>5. OnlyMoves(w) /\ pc'[w] = "read" /\ job'[w] = j
  BY <1>0, <1>1, <1>3, Goes DEF RepairIndex, Stages
<1>6. UNCHANGED <<rows, saved, nextSeq, restores, clock, unserved>>
  BY DEF RepairIndex, Repair
<1>7. index' \in Contents
  BY <1>0 DEF Repair, TypeOK, Contents, Jobs
<1>8. Chosen(w)'
  BY <1>5 DEF Chosen
<1>9. Budget(w)'
  BY <1>0, <1>4, <1>5, <1>6 DEF Budget
<1>10. /\ rows' \in Contents
       /\ \A k \in unserved' : rows'[k] # NoRow
       /\ \A k \in Keys : rows'[k] # NoRow => rows[k] # NoRow
  BY <1>6 DEF IInv, TypeOK, TimerKept
<1>. QED  BY <1>5, <1>6, <1>7, <1>8, <1>9, <1>10, ThreadKeeps

\* The handler has accepted the timer.
LEMMA AcceptKeeps ==
  ASSUME IInv, NEW w \in Threads, Accept(w)
  PROVE  IInv'
<1>0. /\ TypeOK /\ job[w] \in Jobs /\ Budget(w) /\ Chosen(w) /\ pc[w] = "handle"
      /\ UNCHANGED <<timers, clock>> /\ unserved' = unserved \ {job[w].find.key}
  BY DEF Accept, IInv, TypeOK
<1>1. OnlyMoves(w) /\ pc'[w] = "delete" /\ job'[w] = job[w]
  BY <1>0, Goes DEF Accept, Stages
<1>2. UNCHANGED <<rows, index, saved, nextSeq, restores, clock>>
  BY <1>0 DEF timers
<1>3. Chosen(w)'
  BY <1>0, <1>1, <1>2 DEF Chosen
<1>4. Budget(w)'
  BY <1>0, <1>1, <1>2 DEF Budget
<1>5. /\ rows' \in Contents /\ index' \in Contents
      /\ \A k \in unserved' : rows'[k] # NoRow
      /\ \A k \in Keys : rows'[k] # NoRow => rows[k] # NoRow
  BY <1>0, <1>2 DEF IInv, TypeOK, TimerKept
<1>. QED  BY <1>0, <1>1, <1>2, <1>3, <1>4, <1>5, ThreadKeeps

\* The row that goes is one nobody waits for.
LEMMA DeleteKeeps ==
  ASSUME IInv, NEW w \in Threads, Delete(w)
  PROVE  IInv'
<1>0. /\ TypeOK /\ job[w] \in Jobs /\ Budget(w) /\ Chosen(w) /\ pc[w] = "delete"
      /\ clock' = clock /\ unserved' = unserved
      /\ DeleteIfMatch(job[w].find.key, job[w].find.to)
      /\ MaxBatch \in Nat /\ MaxClock \in Nat
  BY WorkerAssumption DEF Delete, IInv, TypeOK
<1>1. PICK k \in Keys : k = job[w].find.key
  BY <1>0 DEF Jobs
<1>2. k \notin unserved
  BY <1>0, <1>1 DEF Chosen
<1>3. UNCHANGED <<saved, nextSeq, restores, clock>>
  BY <1>0 DEF DeleteIfMatch
<1>4. \/ rows' = [rows EXCEPT ![k] = NoRow] /\ index' = [index EXCEPT ![k] = NoRow]
      \/ rows' = rows /\ index' = index
  BY <1>0, <1>1 DEF DeleteIfMatch
<1>5. /\ rows' \in Contents /\ index' \in Contents
      /\ \A l \in Keys : rows'[l] # NoRow => rows[l] # NoRow
  BY <1>0, <1>4 DEF TypeOK, Contents
<1>6. \A l \in unserved' : rows'[l] # NoRow
  BY <1>0, <1>2, <1>4 DEF IInv, TypeOK, TimerKept, Contents
<1>7. \/ Rests(w)
      \/ /\ job[w].left # 1
         /\ Continue(w, "read", [job[w] EXCEPT !.left = @ - 1, !.done = @ + 1, !.find = Nothing])
  <2>1. job[w].done + 1 \in Nat
    BY <1>0 DEF Jobs
  <2>. QED  BY <1>0, <2>1, Ticks DEF Delete
<1>8. CASE Rests(w)
  <2>1. Chosen(w)' /\ Budget(w)' /\ OnlyMoves(w)
    BY <1>0, <1>8 DEF Rests, Chosen, Budget, TypeOK
  <2>. QED  BY <1>0, <1>3, <1>5, <1>6, <2>1, ThreadKeeps
<1>9. CASE /\ job[w].left # 1
           /\ Continue(w, "read", [job[w] EXCEPT !.left = @ - 1, !.done = @ + 1,
                                                 !.find = Nothing])
  <2>1. PICK j : j = [job[w] EXCEPT !.left = @ - 1, !.done = @ + 1, !.find = Nothing]
    OBVIOUS
  <2>2. /\ job[w].left - 1 \in 0 .. MaxBatch /\ job[w].done + 1 \in 0 .. MaxBatch
        /\ job[w].left - 1 >= 1
    BY <1>0, <1>9 DEF Budget, Jobs
  <2>3. j \in Jobs
    <3>1. ASSUME NEW a \in 0 .. MaxBatch, NEW b \in 0 .. MaxBatch
          PROVE  [job[w] EXCEPT !.left = a, !.done = b, !.find = Nothing] \in Jobs
      BY <1>0, KeysExist DEF Jobs, Finds
    <3>. QED  BY <2>1, <2>2, <3>1
  <2>4. /\ j.now = job[w].now /\ j.left = job[w].left - 1 /\ j.done = job[w].done + 1
        /\ j.why = job[w].why
    BY <1>0, <2>1 DEF Jobs
  <2>5. OnlyMoves(w) /\ pc'[w] = "read" /\ job'[w] = j
    BY <1>0, <1>9, <2>1, <2>3, Goes DEF Stages
  <2>6. Chosen(w)'
    BY <2>5 DEF Chosen
  <2>7. job[w].left + job[w].done = MaxBatch /\ job[w].left \in Nat /\ job[w].done \in Nat
    BY <1>0 DEF Budget, Jobs
  <2>8. Budget(w)'
    BY <1>0, <2>2, <2>4, <2>5, <2>7 DEF Budget
  <2>. QED  BY <1>0, <1>3, <1>5, <1>6, <2>5, <2>6, <2>8, ThreadKeeps
<1>. QED  BY <1>7, <1>8, <1>9

\* One step for each action of a thread.
LEMMA ThreadSteps ==
  ASSUME IInv, NEW w \in Threads, Thread(w)
  PROVE  IInv'
<1>1. CASE \/ Top(w) \/ Wake(w) \/ PollFull(w) \/ PollBusy(w) \/ PollFails(w)
           \/ GiveUp(w) \/ RepairRefused(w) \/ Decline(w) \/ HandlerFails(w)
           \/ DeleteRefused(w)
  BY <1>1, RestSteps
<1>2. CASE PollShort(w)
  BY <1>2, PollShortKeeps
<1>3. CASE ReadRound(w)
  BY <1>3, ReadRoundKeeps
<1>4. CASE SeedRead(w)
  BY <1>4, SeedReadKeeps
<1>5. CASE RepairIndex(w)
  BY <1>5, RepairIndexKeeps
<1>6. CASE Accept(w)
  BY <1>6, AcceptKeeps
<1>7. CASE Delete(w)
  BY <1>7, DeleteKeeps
<1>. QED  BY <1>1, <1>2, <1>3, <1>4, <1>5, <1>6, <1>7 DEF Thread

---------------------------------------------------------------------------
(* The steps of the callers, of the other workers and of the clock         *)

\* A call moves a thread in or out of its loop and leaves its locals alone.
LEMMA CallsKeep ==
  ASSUME IInv, NEW w \in Threads, Calls(w)
  PROVE  IInv'
<1>1. /\ UNCHANGED <<rows, saved, nextSeq, restores, clock, job, unserved>>
      /\ index' \in Contents
  BY DEF Calls, InitWorker, Start, RequestStop, Shutdown, Join, SyncIndex, timers,
         lifecycle, IInv, TypeOK
<1>2. \/ pc' = pc
      \/ \E where \in {"none", "top"} : pc' = [pc EXCEPT ![w] = where]
  BY DEF Calls, InitWorker, Start, RequestStop, Shutdown, Join
<1>3. up' \in [Threads -> BOOLEAN]
  BY DEF Calls, InitWorker, Start, RequestStop, Shutdown, Join, lifecycle, IInv, TypeOK
<1>4. stop' \in [Threads -> BOOLEAN]
  BY DEF Calls, InitWorker, Start, RequestStop, Shutdown, Join, lifecycle, IInv, TypeOK
<1>5. /\ pc' \in [Threads -> Stages]
      /\ \A v \in Threads : pc'[v] = pc[v] \/ pc'[v] \in {"none", "top"}
  BY <1>2 DEF IInv, TypeOK, Stages
<1>6. TypeOK'
  BY <1>1, <1>3, <1>4, <1>5 DEF IInv, TypeOK, Stages
<1>7. TimerKept' /\ Numbered'
  BY <1>1 DEF IInv, TimerKept, Numbered
<1>8. ASSUME NEW v \in Threads PROVE Chosen(v)' /\ Budget(v)'
  <2>1. Chosen(v) /\ Budget(v)
    BY DEF IInv
  <2>2. Chosen(v)'
    BY <1>1, <1>5, <2>1 DEF Chosen
  <2>3. Budget(v)'
    BY <1>1, <1>5, <2>1 DEF Budget
  <2>. QED  BY <2>2, <2>3
<1>. QED  BY <1>6, <1>7, <1>8 DEF IInv

\* A step of nobody's thread: numbers in use grow, waiting timers are stored, and
\* a timer whose handler has accepted it does not come back.
LEMMA OutsideKeeps ==
  ASSUME IInv, UNCHANGED <<pc, lifecycle, job>>,
         rows' \in Contents, index' \in Contents, saved' \in Contents,
         nextSeq' \in 0 .. MaxSeq, restores' \in 0 .. MaxRestores,
         clock' \in 0 .. MaxClock, clock <= clock', nextSeq <= nextSeq',
         unserved' \subseteq Keys, TimerKept', Numbered',
         \A w \in Threads : pc[w] = "delete" /\ job[w].find.key \in unserved'
                              => job[w].find.key \in unserved
  PROVE  IInv'
<1>0. /\ nextSeq \in Int /\ nextSeq' \in Int /\ clock \in Int /\ clock' \in Int
      /\ MaxClock \in Nat
  BY TimersAssumption, WorkerAssumption DEF IInv, TypeOK
<1>1. TypeOK'
  BY DEF IInv, TypeOK, lifecycle
<1>2. ASSUME NEW w \in Threads PROVE Chosen(w)' /\ Budget(w)'
  <2>1. Chosen(w) /\ Budget(w) /\ job[w] \in Jobs
    BY DEF IInv, TypeOK
  <2>2. job[w].find.key.seq \in Int /\ job[w].now \in Int
    <3>1. job[w].find.key \in Keys /\ job[w].now \in 0 .. MaxClock
      BY <2>1 DEF Jobs
    <3>2. MaxSeq \in Nat
      BY TimersAssumption
    <3>. QED  BY <1>0, <3>1, <3>2 DEF Keys
  <2>3. Chosen(w)'
    BY <1>0, <2>1, <2>2 DEF Chosen
  <2>4. Budget(w)'
    BY <1>0, <2>1, <2>2 DEF Budget
  <2>. QED  BY <2>3, <2>4
<1>. QED  BY <1>1, <1>2 DEF IInv

LEMMA ArmKeeps ==
  ASSUME IInv, NEW due \in Dues, NEW to \in Workers, Arm(due, to)
  PROVE  IInv'
<1>0. /\ TypeOK /\ Numbered /\ TimerKept /\ MaxSeq \in Nat /\ nextSeq \in 0 .. MaxSeq
      /\ nextSeq < MaxSeq /\ MaxClock \in Nat /\ NoRow \notin Workers
  BY TimersAssumption, WorkerAssumption DEF Arm, Append, IInv, TypeOK
<1>1. PICK k : k = [due |-> due, seq |-> nextSeq]
  OBVIOUS
<1>2. nextSeq \in 0 .. MaxSeq - 1
  BY <1>0
<1>3. k \in Keys /\ k.seq = nextSeq
  BY <1>1, <1>2 DEF Keys
<1>4. /\ rows' = [rows EXCEPT ![k] = to] /\ index' = [index EXCEPT ![k] = to]
      /\ nextSeq' = nextSeq + 1 /\ unserved' = unserved \cup {k}
      /\ UNCHANGED <<saved, restores, clock, pc, lifecycle, job>>
  BY <1>1 DEF Arm, Append
<1>5. /\ rows' \in Contents /\ index' \in Contents /\ saved' \in Contents
      /\ restores' \in 0 .. MaxRestores /\ clock' \in 0 .. MaxClock
      /\ unserved' \subseteq Keys
  BY <1>0, <1>3, <1>4 DEF TypeOK, Contents
<1>6. nextSeq' \in 0 .. MaxSeq /\ nextSeq <= nextSeq' /\ clock <= clock'
  BY <1>0, <1>4 DEF TypeOK
<1>7. TimerKept'
  BY <1>0, <1>3, <1>4 DEF TimerKept, TypeOK, Contents
<1>8. Numbered'
  <2>1. ASSUME NEW l \in Keys, rows'[l] # NoRow \/ saved'[l] # NoRow
        PROVE  l.seq < nextSeq'
    <3>1. l = k \/ l.seq < nextSeq
      BY <1>0, <1>4, <2>1 DEF Numbered, TypeOK, Contents
    <3>2. l.seq \in Int
      BY <1>0 DEF Keys
    <3>. QED  BY <1>0, <1>3, <1>4, <3>1, <3>2
  <2>. QED  BY <2>1 DEF Numbered
<1>9. ASSUME NEW w \in Threads, pc[w] = "delete", job[w].find.key \in unserved'
      PROVE  job[w].find.key \in unserved
  <2>1. job[w].find.key.seq < nextSeq
    BY <1>9 DEF IInv, Chosen
  <2>2. job[w].find.key # k
    BY <1>0, <1>3, <2>1
  <2>. QED  BY <1>4, <1>9, <2>2
<1>. QED  BY <1>4, <1>5, <1>6, <1>7, <1>8, <1>9, OutsideKeeps

LEMMA CheckpointKeeps ==
  ASSUME IInv, TakeCheckpoint
  PROVE  IInv'
<1>1. /\ saved' = rows /\ UNCHANGED <<rows, index, nextSeq, restores, clock, unserved>>
      /\ UNCHANGED <<pc, lifecycle, job>>
  BY DEF TakeCheckpoint, Checkpoint
<1>2. nextSeq \in Int /\ clock \in Int
  BY TimersAssumption, WorkerAssumption DEF IInv, TypeOK
<1>3. TimerKept' /\ Numbered'
  BY <1>1 DEF IInv, TimerKept, Numbered
<1>. QED  BY <1>1, <1>2, <1>3, OutsideKeeps DEF IInv, TypeOK

\* A restore brings timers back, except those whose handler has just accepted them.
LEMMA RestoreKeeps ==
  ASSUME IInv, RestoreCheckpoint
  PROVE  IInv'
<1>1. /\ rows' = saved /\ restores' = restores + 1 /\ restores < MaxRestores
      /\ UNCHANGED <<index, nextSeq, saved, clock>> /\ UNCHANGED <<pc, lifecycle, job>>
      /\ unserved' = Stored(saved) \ {job[w].find.key : w \in {v \in Threads : pc[v] = "delete"}}
  BY DEF RestoreCheckpoint, Restore
<1>2. nextSeq \in Int /\ clock \in Int /\ restores' \in 0 .. MaxRestores
  BY <1>1, TimersAssumption, WorkerAssumption DEF IInv, TypeOK
<1>3. TimerKept' /\ Numbered' /\ unserved' \subseteq Keys
  BY <1>1 DEF IInv, TimerKept, Numbered, Stored
<1>. QED  BY <1>1, <1>2, <1>3, OutsideKeeps DEF IInv, TypeOK

\* Another worker serves the timer it was given, or repairs the index.
LEMMA ElsewhereKeeps ==
  ASSUME IInv, Elsewhere
  PROVE  IInv'
<1>0. TypeOK /\ nextSeq \in Int /\ clock \in Int /\ nextSeq \in 0 .. MaxSeq
  BY TimersAssumption, WorkerAssumption DEF IInv, TypeOK
<1>1. PICK f : f = RoundFinds
  OBVIOUS
<1>2. f \in Finds
  BY <1>0, <1>1, RoundAnswer
<1>3. UNCHANGED <<saved, nextSeq, restores, clock>> /\ UNCHANGED <<pc, lifecycle, job>>
  BY DEF Elsewhere, ElsewhereServed, ElsewhereRepaired, DeleteIfMatch, Repair
<1>4. ASSUME NEW w \in Others, ElsewhereServed(w) PROVE IInv'
  <2>1. /\ DeleteIfMatch(f.key, w) /\ unserved' = unserved \ {f.key} /\ f.key \in Keys
    BY <1>1, <1>2, <1>4 DEF ElsewhereServed, Finds
  <2>2. \/ rows' = [rows EXCEPT ![f.key] = NoRow] /\ index' = [index EXCEPT ![f.key] = NoRow]
        \/ rows' = rows /\ index' = index
    BY <2>1 DEF DeleteIfMatch
  <2>3. /\ rows' \in Contents /\ index' \in Contents
        /\ \A l \in Keys : rows'[l] = rows[l] \/ (l = f.key /\ rows'[l] = NoRow)
    BY <1>0, <2>1, <2>2 DEF TypeOK, Contents
  <2>4. TimerKept' /\ Numbered'
    BY <1>3, <2>1, <2>3 DEF IInv, TimerKept, Numbered, TypeOK
  <2>. QED  BY <1>0, <1>3, <2>1, <2>3, <2>4, OutsideKeeps DEF IInv, TypeOK
<1>5. CASE ElsewhereRepaired
  <2>1. UNCHANGED <<rows, unserved>> /\ Repair(f) /\ f.how \in {"prune", "upsert"}
    BY <1>1, <1>5 DEF ElsewhereRepaired, Repair
  <2>2. index' \in Contents
    BY <1>0, <1>2, <2>1 DEF Repair, TypeOK, Contents, Finds
  <2>3. TimerKept' /\ Numbered'
    BY <1>3, <2>1 DEF IInv, TimerKept, Numbered
  <2>. QED  BY <1>0, <1>3, <2>1, <2>2, <2>3, OutsideKeeps DEF IInv, TypeOK
<1>. QED  BY <1>4, <1>5 DEF Elsewhere

LEMMA TickKeeps ==
  ASSUME IInv, Tick
  PROVE  IInv'
<1>1. /\ clock' = clock + 1 /\ clock < MaxClock
      /\ UNCHANGED <<rows, index, saved, nextSeq, restores, unserved>>
      /\ UNCHANGED <<pc, lifecycle, job>>
  BY DEF Tick, timers
<1>2. /\ nextSeq \in Int /\ clock \in Int /\ clock' \in 0 .. MaxClock /\ clock <= clock'
  BY <1>1, TimersAssumption, WorkerAssumption DEF IInv, TypeOK
<1>3. TimerKept' /\ Numbered'
  BY <1>1 DEF IInv, TimerKept, Numbered
<1>. QED  BY <1>1, <1>2, <1>3, OutsideKeeps DEF IInv, TypeOK

---------------------------------------------------------------------------
(* The invariant, and what follows from it                                 *)

LEMMA Initially == Init => IInv
<1>. SUFFICES ASSUME Init PROVE IInv
  OBVIOUS
<1>1. /\ MaxSeq \in Nat /\ MaxRestores \in Nat /\ MaxClock \in Nat /\ RepairLimit \in Nat \ {0}
  BY TimersAssumption, WorkerAssumption
<1>2. Empty \in Contents /\ \A k \in Keys : Empty[k] = NoRow
  BY DEF Empty, Contents
<1>3. job \in [Threads -> Jobs]
  BY KeysExist DEF Init
<1>4. pc \in [Threads -> Stages] /\ up \in [Threads -> BOOLEAN] /\ stop \in [Threads -> BOOLEAN]
  BY DEF Init, Stages
<1>5. TypeOK
  BY <1>1, <1>2, <1>3, <1>4 DEF Init, TimersInit, TypeOK, Stages
<1>6. TimerKept /\ Numbered
  BY <1>2 DEF Init, TimersInit, TimerKept, Numbered
<1>7. ASSUME NEW w \in Threads PROVE Chosen(w) /\ Budget(w)
  BY <1>1 DEF Init, Chosen, Budget, NoJob
<1>. QED  BY <1>5, <1>6, <1>7 DEF IInv

LEMMA Always == IInv /\ [Next]_vars => IInv'
<1>. SUFFICES ASSUME IInv, [Next]_vars PROVE IInv'
  OBVIOUS
<1>1. ASSUME NEW w \in Threads, Thread(w) PROVE IInv'
  BY <1>1, ThreadSteps
<1>2. ASSUME NEW w \in Threads, Calls(w) PROVE IInv'
  BY <1>2, CallsKeep
<1>3. ASSUME NEW due \in Dues, NEW to \in Workers, Arm(due, to) PROVE IInv'
  BY <1>3, ArmKeeps
<1>4. CASE Elsewhere
  BY <1>4, ElsewhereKeeps
<1>5. CASE TakeCheckpoint
  BY <1>5, CheckpointKeeps
<1>6. CASE RestoreCheckpoint
  BY <1>6, RestoreKeeps
<1>7. CASE Tick
  BY <1>7, TickKeeps
<1>8. CASE UNCHANGED vars
  BY <1>8 DEF vars, timers, IInv, TypeOK, TimerKept, Numbered, Chosen, Budget
<1>. QED  BY <1>1, <1>2, <1>3, <1>4, <1>5, <1>6, <1>7, <1>8 DEF Next

\* Every reachable state satisfies the inductive invariant.
THEOREM InvariantHolds == Spec => []IInv
BY Initially, Always, PTL DEF Spec

\* Every variable has its type: no budget, repair count or sleep leaves its range.
THEOREM TypeCorrect == Spec => []TypeOK
<1>1. IInv => TypeOK
  BY DEF IInv
<1>. QED  BY <1>1, InvariantHolds, PTL

\* A timer leaves the database only after a handler has accepted it, for any number
\* of threads, other workers, timers, checkpoints and restores.
THEOREM TimersStay == Spec => []TimerKept
<1>1. IInv => TimerKept
  BY DEF IInv
<1>. QED  BY <1>1, InvariantHolds, PTL

---------------------------------------------------------------------------
(* The timer a thread is about to run                                      *)

\* Due times all of one sign have the order of their bytes.
OneSign == \A d, e \in Dues : d >= 0 <=> e >= 0

LEMMA BytesInOrder ==
  ASSUME OneSign, NEW d \in Dues, NEW e \in Dues, RawTime(d) <= RawTime(e)
  PROVE  d <= e
<1>. DEFINE H == Word \div 2
<1>1. /\ Word \in Nat /\ H \in Nat /\ Word = 2 * H /\ Word > 0
      /\ d \in -H .. H - 1 /\ e \in -H .. H - 1 /\ (d >= 0 <=> e >= 0)
  BY TimersAssumption DEF OneSign
<1>. HIDE DEF H
<1>2. ASSUME NEW x \in -H .. H - 1
      PROVE  x % Word = IF x >= 0 THEN x ELSE x + Word
  BY <1>1
<1>3. RawTime(d) = (IF d >= 0 THEN d ELSE d + Word)
      /\ RawTime(e) = (IF e >= 0 THEN e ELSE e + Word)
  BY <1>1, <1>2 DEF RawTime
<1>. QED  BY <1>1, <1>3

\* A step that sends a thread to a handler is the round that found its timer.
LEMMA HandlerChosen ==
  ASSUME IInv, [Next]_vars, NEW w \in Threads, pc[w] # "handle", pc'[w] = "handle"
  PROVE  ReadRound(w)
<1>0. TypeOK
  BY DEF IInv
<1>1. ASSUME NEW v \in Threads, v # w, Thread(v) PROVE FALSE
  <2>1. \A z \in Threads : z # v => pc'[z] = pc[z]
    BY <1>0, <1>1 DEF Thread, Top, Wake, PollShort, PollFull, PollBusy, PollFails, ReadRound,
         GiveUp, SeedRead, RepairIndex, RepairRefused, Accept, Decline, HandlerFails,
         Delete, DeleteRefused, Goto, Continue, End, Idle, Busy, TickOk, Sleep, NoTimer,
         TakeTimer, TypeOK
  <2>. QED  BY <1>1, <2>1
<1>2. ASSUME Thread(w), ~ReadRound(w) PROVE FALSE
  <2>1. pc'[w] # "handle"
    BY <1>0, <1>2 DEF Thread, Top, Wake, PollShort, PollFull, PollBusy, PollFails,
         GiveUp, SeedRead, RepairIndex, RepairRefused, Accept, Decline, HandlerFails,
         Delete, DeleteRefused, Goto, Continue, End, Idle, Busy, TickOk, Sleep, NoTimer,
         TypeOK
  <2>. QED  BY <2>1
<1>3. ASSUME NEW v \in Threads, Calls(v) PROVE FALSE
  BY <1>0, <1>3 DEF Calls, InitWorker, Start, RequestStop, Shutdown, Join, TypeOK
<1>4. ASSUME pc' = pc PROVE FALSE
  BY <1>4
<1>. QED
  BY <1>1, <1>2, <1>3, <1>4 DEF Next, Arm, Elsewhere, ElsewhereServed, ElsewhereRepaired,
     TakeCheckpoint, RestoreCheckpoint, Tick, vars

\* What that round found is the first row, as it is stored, and due by the clock
\* the drain read.
LEMMA RoundChooses ==
  ASSUME OneSign, IInv, NEW w \in Threads, ReadRound(w), pc'[w] = "handle"
  PROVE  LET f == job'[w].find IN
         /\ rows[f.key] = f.to
         /\ f.key.due <= clock
         /\ \A k \in Stored(rows) : f.key.due <= k.due
<1>0. /\ TypeOK /\ job[w] \in Jobs /\ Budget(w) /\ pc[w] = "read"
      /\ MaxClock \in Nat /\ MaxIdle \in Nat /\ clock \in Nat
  BY WorkerAssumption DEF ReadRound, IInv, TypeOK
<1>ints. ASSUME NEW d \in Dues PROVE d \in Int
  BY TimersAssumption
<1>1. PICK f : f = RoundFinds
  OBVIOUS
<1>2. /\ f \in Finds
      /\ f.how = "timer" => rows[f.key] # NoRow /\ f.to = rows[f.key] /\ f.key = FirstRow
  BY <1>0, <1>1, RoundAnswer
<1>3. f.how = "timer" /\ TakeTimer(w, f)
  <2>1. \/ f.how = "timer" /\ TakeTimer(w, f)
        \/ f.how = "seed" /\ Continue(w, "seed", job[w])
        \/ f.how \notin {"timer", "seed"} /\ Continue(w, "repair", [job[w] EXCEPT !.find = f])
    BY <1>1 DEF ReadRound
  <2>2. ~Continue(w, "seed", job[w])
    BY <1>0 DEF Continue, Goto, TypeOK
  <2>3. ~Continue(w, "repair", [job[w] EXCEPT !.find = f])
    BY <1>0 DEF Continue, Goto, TypeOK
  <2>. QED  BY <2>1, <2>2, <2>3
<1>4. ~Rests(w)
  BY DEF Rests
<1>5. job[w].why # "idle"
  <2>1. SleepTime(clock, f.key.due) \in 0 .. MaxIdle
    BY <1>0, <1>2, SleepTimes DEF Finds, Keys
  <2>. QED  BY <1>0, <1>3, <1>4, <2>1, Sleeps DEF TakeTimer
<1>6. ~(f.key.due > job[w].now)
  BY <1>0, <1>3, <1>4, <1>5, TimerMissing DEF TakeTimer
<1>7. job'[w].find = f
  <2>1. job' = [job EXCEPT ![w] = [job[w] EXCEPT !.find = f, !.rounds = 0]]
    BY <1>3, <1>5, <1>6 DEF TakeTimer, Continue, Goto
  <2>. QED  BY <1>0, <2>1 DEF TypeOK, Jobs
<1>8. f.key.due <= clock
  <2>1. f.key.due \in Int /\ job[w].now \in Int /\ clock \in Int
    BY <1>0, <1>2, <1>ints DEF Finds, Keys, Jobs
  <2>. QED  BY <1>0, <1>6, <2>1 DEF Budget
<1>9. ASSUME NEW k \in Stored(rows) PROVE f.key.due <= k.due
  <2>1. Stored(rows) \in SUBSET Keys /\ Stored(rows) # {}
    BY DEF Stored
  <2>2. f.key.due \in Dues /\ k.due \in Dues /\ f.key = FirstRow
    BY <1>2, <1>3, <2>1 DEF Finds, Keys
  <2>3. CASE k = f.key
    <3>1. k.due \in Int
      BY <2>2, <1>ints
    <3>. QED  BY <2>3, <3>1
  <2>4. CASE k # f.key
    <3>1. RawTime(f.key.due) <= RawTime(k.due)
      BY <2>1, <2>2, <2>4, LeastIsFirst DEF FirstRow
    <3>. QED  BY <2>2, <3>1, BytesInOrder
  <2>. QED  BY <2>3, <2>4
<1>. QED  BY <1>2, <1>3, <1>7, <1>8, <1>9

\* However wrong the index, and whoever repairs it, the timer a thread is about to
\* run is the earliest stored, with its payload, when due times have one sign.
THEOREM OldestFirst == ASSUME OneSign PROVE Spec => PicksOldest
<1>1. IInv /\ [Next]_vars =>
        [\A w \in Threads : pc[w] # "handle" /\ pc'[w] = "handle" =>
           LET f == job'[w].find IN
           /\ rows[f.key] = f.to
           /\ f.key.due <= clock
           /\ \A k \in Stored(rows) : f.key.due <= k.due]_vars
  BY HandlerChosen, RoundChooses
<1>. QED  BY <1>1, InvariantHolds, PTL DEF Spec, PicksOldest

=============================================================================

--------------------------- MODULE MailboxProofs ---------------------------
(* Proofs about Mailbox, for every value of its constants. *)
EXTENDS Mailbox, WellFoundedInduction, FiniteSetTheorems, TLAPS

---------------------------------------------------------------------------
(* The ends of a set of sequence numbers                                   *)

\* The less-than relation of the naturals, as a set of pairs.
NatLess == {p \in Nat \X Nat : p[1] < p[2]}

\* The naturals are well founded: every set of sequence numbers has a lowest.
LEMMA NatLessWellFounded == IsWellFoundedOn(NatLess, Nat)
<1>1. OpToRel(<, Nat) = NatLess
  BY DEF OpToRel, NatLess
<1>. QED  BY <1>1, NatLessThanWellFounded

\* A non-empty set of naturals has a least element.
LEMMA LeastExists ==
  ASSUME NEW S \in SUBSET Nat, S # {}
  PROVE  \E s \in S : \A t \in S : s <= t
<1>1. PICK s \in S : \A t \in S : ~(<<t, s>> \in NatLess)
  BY NatLessWellFounded, WFMin, Zenon
<1>2. ASSUME NEW t \in S PROVE s <= t
  <2>1. <<t, s>> \notin NatLess
    BY <1>1
  <2>2. t \in Nat /\ s \in Nat
    OBVIOUS
  <2>3. ~(t < s)
    BY <2>1, <2>2 DEF NatLess
  <2>. QED  BY <2>2, <2>3
<1>. QED  BY <1>2

\* read_next_inbox_frame's seek finds the lowest number of a non-empty inbox.
LEMMA LowestIsLeast ==
  ASSUME NEW S \in SUBSET Seqs, S # {}
  PROVE  /\ Lowest(S) \in S
         /\ \A t \in S : Lowest(S) <= t
<1>1. S \in SUBSET Nat
  BY DEF Seqs
<1>. QED  BY <1>1, LeastExists DEF Lowest

\* next_inbox_seq_for_worker's walk ends on the highest number.
LEMMA HighestIsGreatest ==
  ASSUME NEW S \in SUBSET Seqs, S # {}
  PROVE  /\ Highest(S) \in S
         /\ \A t \in S : t <= Highest(S)
<1>. DEFINE T == {MaxSeq - s : s \in S}
<1>1. T \in SUBSET Nat /\ T # {}
  <2>1. \A s \in S : MaxSeq - s \in Nat
    BY BoundsAssumption DEF Seqs
  <2>. QED  BY <2>1
<1>2. \E d \in T : \A e \in T : d <= e
  <2>. HIDE DEF T
  <2>. QED  BY <1>1, LeastExists
<1>3. PICK s \in S : \A e \in T : MaxSeq - s <= e
  BY <1>2
<1>4. ASSUME NEW t \in S PROVE t <= s
  <2>1. MaxSeq - s <= MaxSeq - t
    BY <1>3
  <2>2. s \in Int /\ t \in Int /\ MaxSeq \in Int
    BY BoundsAssumption DEF Seqs
  <2>. QED  BY <2>1, <2>2
<1>. QED  BY <1>3, <1>4 DEF Highest

---------------------------------------------------------------------------
(* Type correctness                                                        *)

\* The requeue loop's new number is a number above nothing in particular.
LEMMA NextInboxSeqType ==
  ASSUME NEW s \in Seqs
  PROVE  NextInboxSeq(s) \in Nat
<1>1. Occupied \in SUBSET Seqs
  BY DEF Occupied
<1>2. Occupied # {} => Highest(Occupied) \in Seqs
  BY <1>1, HighestIsGreatest
<1>. QED  BY <1>2 DEF NextInboxSeq, Seqs

\* The empty values have their types, and so has what a claim writes.
LEMMA LocalTypes ==
  /\ NoLease \in Leases /\ NoJob \in Jobs
  /\ NoLetter \notin Letters
  /\ \A l \in Leases, t \in Nat : NextLease(l, t) \in Leases
<1>1. NoLease \in Leases
  BY DEF NoLease, Leases
<1>2. NoLetter \notin Letters
  BY MessagesAssumption DEF NoLetter, Letters
<1>3. NoJob \in Jobs
  BY <1>1, BoundsAssumption DEF NoJob, Jobs, Seqs
<1>4. \A l \in Leases, t \in Nat : NextLease(l, t) \in Leases
  BY PolicyAssumption DEF NextLease, Leases
<1>. QED  BY <1>1, <1>2, <1>3, <1>4

\* The empty store and idle runners have their types.
LEMMA InitType == Init => TypeOK
<1>. SUFFICES ASSUME Init PROVE TypeOK
  OBVIOUS
<1>1. "idle" \in Stages
  BY DEF Stages
<1>. QED
  BY <1>1, LocalTypes, BoundsAssumption, PolicyAssumption DEF Init, TypeOK, Seqs

\* What producers, replays, drains and the clock do keeps the types.
LEMMA CallersType == TypeOK /\ (Tick \/ Callers) => TypeOK'
<1>. SUFFICES ASSUME TypeOK, Tick \/ Callers PROVE TypeOK'
  OBVIOUS
<1>. USE BoundsAssumption, CallerAssumption, LocalTypes DEF TypeOK
<1>1. CASE Tick
  BY <1>1 DEF Tick, store, history
<1>2. ASSUME NEW m \in Messages, InboxPut(m) PROVE TypeOK'
  <2>1. nextSeq \in Seqs /\ nextSeq' \in 1 .. MaxSeq + 1
    BY <1>2 DEF InboxPut, Seqs
  <2>. QED  BY <1>2, <2>1 DEF InboxPut
<1>3. ASSUME NEW s \in Seqs, NEW to \in ReplaySeqs, Replay(s, to) PROVE TypeOK'
  <2>1. to \in Seqs /\ nextSeq' \in 1 .. MaxSeq + 1
    BY <1>3 DEF Replay, ReplaySeqs, Seqs
  <2>2. dead[s].msg \in Messages
    BY <1>3 DEF Replay, Letters
  <2>. QED  BY <1>3, <2>1, <2>2 DEF Replay, history
<1>4. CASE DrainRead
  <2>. DEFINE W == {s \in Seqs : dead[s] # NoLetter}
  <2>1. W # {} /\ W \in SUBSET Seqs
    BY <1>4 DEF DrainRead
  <2>2. Lowest(W) \in Seqs
    <3>. HIDE DEF W
    <3>. QED  BY <2>1, LowestIsLeast
  <2>3. drain' = [seq |-> Lowest(W), letter |-> dead[Lowest(W)]]
    BY <1>4 DEF DrainRead
  <2>. HIDE DEF W
  <2>. QED  BY <1>4, <2>2, <2>3 DEF DrainRead, store, history
<1>5. CASE DrainDelete
  <2>1. drain' \in [seq : Seqs, letter : Letters \cup {NoLetter}]
    BY <1>5 DEF DrainDelete, Seqs
  <2>2. drain.letter.msg \in Messages
    BY <1>5 DEF DrainDelete, Letters
  <2>3. dead' \in [Seqs -> Letters \cup {NoLetter}]
    BY <1>5 DEF DrainDelete
  <2>4. drained' \in SUBSET Messages
    BY <1>5, <2>2 DEF DrainDelete
  <2>. QED  BY <1>5, <2>1, <2>3, <2>4 DEF DrainDelete
<1>. QED  BY <1>1, <1>2, <1>3, <1>4, <1>5 DEF Callers

\* What TypeOK says of the runners' own state.
RunnersTyped ==
  /\ pc \in [Runners -> Stages]
  /\ job \in [Runners -> Jobs]
  /\ \A r \in Runners : pc[r] # "idle" => job[r].frame \in Messages

\* A runner whose poll ends has the locals of an idle one.
LEMMA RestTyped ==
  ASSUME RunnersTyped, NEW r \in Runners, Rest(r)
  PROVE  RunnersTyped'
<1>1. "idle" \in Stages
  BY DEF Stages
<1>. QED  BY <1>1, LocalTypes DEF RunnersTyped, Rest

\* A runner that moves to a stage of the poll loop is at a stage.
LEMMA GotoTyped ==
  ASSUME RunnersTyped, NEW r \in Runners, NEW stage \in Stages, Goto(r, stage),
         UNCHANGED job, pc[r] # "idle"
  PROVE  RunnersTyped'
BY DEF RunnersTyped, Goto

\* A step that moves on and rewrites some of the locals.
LEMMA UpdateTyped ==
  ASSUME RunnersTyped, NEW r \in Runners, NEW stage \in Stages, Goto(r, stage),
         NEW j \in Jobs, job' = [job EXCEPT ![r] = j], j.frame \in Messages
  PROVE  RunnersTyped'
BY DEF RunnersTyped, Goto

\* Every step of the poll loop keeps the types, sequence numbers and counts included.
LEMMA PollType ==
  ASSUME TypeOK, NEW r \in Runners, Poll(r)
  PROVE  TypeOK'
<1>. USE BoundsAssumption
<1>0. RunnersTyped /\ job[r] \in Jobs
  BY DEF TypeOK, RunnersTyped
<1>1. SUFFICES /\ RunnersTyped'
               /\ inbox' \in [Seqs -> Messages \cup {NoMsg}]
               /\ lease' \in [Seqs -> Leases]
               /\ dead' \in [Seqs -> Letters \cup {NoLetter}]
               /\ retry' \in [Messages -> 0 .. MaxCount]
               /\ nextSeq' \in 1 .. MaxSeq + 1
               /\ handled' \in SUBSET Messages
               /\ failed' \in [Messages -> 0 .. RetryBudget]
               /\ settled' \in SUBSET Messages
               /\ UNCHANGED <<now, drain, sent, drained>>
  BY DEF TypeOK, RunnersTyped
<1>2. CASE Read(r)
  <2>. DEFINE s == Lowest(Occupied)
              j == [NoJob EXCEPT !.seq = s, !.frame = inbox[s], !.stamp = now]
  <2>1. s \in Occupied
    <3>. Occupied \in SUBSET Seqs /\ Occupied # {}
      BY <1>2 DEF Read, Occupied
    <3>. QED  BY LowestIsLeast
  <2>2. s \in Seqs /\ inbox[s] \in Messages
    BY <2>1 DEF Occupied, TypeOK
  <2>3. j \in Jobs /\ j.frame \in Messages
    <3>1. now \in Nat /\ NoJob \in Jobs
      BY LocalTypes DEF TypeOK
    <3>. QED  BY <2>2, <3>1 DEF Jobs
  <2>4. job' = [job EXCEPT ![r] = j] /\ Goto(r, "read") /\ "read" \in Stages
    BY <1>2 DEF Read, Stages
  <2>5. RunnersTyped'
    <3>. HIDE DEF j
    <3>. QED  BY <1>0, <2>3, <2>4, UpdateTyped
  <2>. QED  BY <1>2, <2>5 DEF Read, TypeOK, store, history
<1>3. CASE Claim(r)
  <2>1. CASE Rest(r) /\ UNCHANGED lease
    BY <1>0, <1>3, <2>1, RestTyped DEF Claim, TypeOK, history
  <2>2. CASE ~(Rest(r) /\ UNCHANGED lease)
    <3>. DEFINE s == job[r].seq
    <3>1. PICK t \in job[r].stamp .. now :
            /\ lease' = [lease EXCEPT ![s] = NextLease(lease[s], t)]
            /\ job' = [job EXCEPT ![r].lease = NextLease(lease[s], t),
                                  ![r].stamp = 0]
      BY <1>3, <2>2 DEF Claim
    <3>. DEFINE l == NextLease(lease[s], t)
                j == [job[r] EXCEPT !.lease = l, !.stamp = 0]
    <3>2. s \in Seqs /\ job[r].stamp \in Nat /\ now \in Nat
      BY <1>0 DEF Jobs, TypeOK
    <3>3. l \in Leases
      <4>1. t \in Nat /\ lease[s] \in Leases
        BY <3>2 DEF TypeOK
      <4>. QED  BY <4>1, LocalTypes
    <3>4. j \in Jobs /\ j.frame \in Messages
      <4>1. job[r].frame \in Messages
        BY <1>3 DEF Claim, TypeOK
      <4>. HIDE DEF l
      <4>. QED  BY <1>0, <3>3, <4>1 DEF Jobs
    <3>5. job' = [job EXCEPT ![r] = j] /\ Goto(r, "claimed") /\ "claimed" \in Stages
      BY <1>0, <1>3, <2>2, <3>1 DEF Claim, Stages, RunnersTyped
    <3>6. RunnersTyped'
      <4>. HIDE DEF j
      <4>. QED  BY <1>0, <3>4, <3>5, UpdateTyped
    <3>. HIDE DEF l
    <3>. QED  BY <1>3, <3>1, <3>3, <3>6 DEF Claim, TypeOK, history, l
  <2>. QED  BY <2>1, <2>2
<1>4. CASE HandleOk(r)
  <2>1. job[r].frame \in Messages
    BY <1>4 DEF HandleOk, TypeOK
  <2>2. RunnersTyped'
    BY <1>0, <1>4, GotoTyped DEF HandleOk, Stages
  <2>. QED  BY <1>4, <2>1, <2>2 DEF HandleOk, TypeOK, store
<1>5. CASE HandleRetryable(r)
  <2>1. RunnersTyped'
    BY <1>0, <1>5, GotoTyped DEF HandleRetryable, Stages
  <2>2. failed' \in [Messages -> 0 .. RetryBudget]
    BY <1>5, PolicyAssumption DEF HandleRetryable, TypeOK
  <2>. QED  BY <1>5, <2>1, <2>2 DEF HandleRetryable, TypeOK, store
<1>6. CASE HandleFatal(r)
  <2>1. RunnersTyped'
    BY <1>0, <1>6, GotoTyped DEF HandleFatal, Stages
  <2>. QED  BY <1>6, <2>1 DEF HandleFatal, TypeOK, store, history
<1>7. CASE Ack(r)
  <2>1. RunnersTyped'
    BY <1>0, <1>7, GotoTyped, RestTyped DEF Ack, Stages
  <2>2. /\ inbox' \in [Seqs -> Messages \cup {NoMsg}]
        /\ lease' \in [Seqs -> Leases]
    <3>1. inbox' \in [Seqs -> Messages \cup {NoMsg}]
      BY <1>7 DEF Ack, TypeOK
    <3>2. lease' \in [Seqs -> Leases]
      BY <1>7, LocalTypes DEF Ack, DropLease, TypeOK
    <3>. QED  BY <3>1, <3>2
  <2>3. settled' \in SUBSET Messages
    <3>1. job[r].seq \in Seqs
      BY <1>0 DEF Jobs
    <3>. QED  BY <1>7, <3>1 DEF Ack, TypeOK
  <2>. QED  BY <1>7, <2>1, <2>2, <2>3 DEF Ack, TypeOK
<1>8. CASE Count(r)
  <2>1. CASE Rest(r) /\ UNCHANGED retry
    BY <1>0, <1>8, <2>1, RestTyped DEF Count, TypeOK, history
  <2>2. CASE ~(Rest(r) /\ UNCHANGED retry)
    <3>. DEFINE m == job[r].frame
                j == [job[r] EXCEPT !.count = retry[m] + 1]
    <3>1. m \in Messages /\ retry[m] + 1 \in 0 .. MaxCount
      BY <1>8, <2>2 DEF Count, CountFull, TypeOK
    <3>2. j \in Jobs /\ j.frame \in Messages
      BY <1>0, <3>1 DEF Jobs
    <3>3. PICK stage \in Stages : Goto(r, stage)
      BY <1>8, <2>2 DEF Count, Stages
    <3>4. job' = [job EXCEPT ![r] = j]
      BY <1>0, <1>8, <2>2 DEF Count, RunnersTyped
    <3>5. RunnersTyped'
      <4>. HIDE DEF j
      <4>. QED  BY <1>0, <3>2, <3>3, <3>4, UpdateTyped
    <3>6. retry' \in [Messages -> 0 .. MaxCount]
      BY <1>8, <2>2, <3>1 DEF Count, TypeOK
    <3>. QED  BY <1>8, <3>5, <3>6 DEF Count, TypeOK, history
  <2>. QED  BY <2>1, <2>2
<1>9. CASE Bury(r)
  <2>1. RunnersTyped'
    BY <1>0, <1>9, GotoTyped, RestTyped DEF Bury, Stages
  <2>2. /\ inbox' \in [Seqs -> Messages \cup {NoMsg}]
        /\ lease' \in [Seqs -> Leases]
    <3>1. inbox' \in [Seqs -> Messages \cup {NoMsg}]
      BY <1>9 DEF Bury, TypeOK
    <3>2. lease' \in [Seqs -> Leases]
      BY <1>9, LocalTypes DEF Bury, DropLease, TypeOK
    <3>. QED  BY <3>1, <3>2
  <2>3. dead' \in [Seqs -> Letters \cup {NoLetter}]
    <3>1. job[r].seq \in Seqs /\ job[r].count \in 0 .. MaxCount
      BY <1>0 DEF Jobs
    <3>. QED  BY <1>9, <3>1 DEF Bury, TypeOK, Letters
  <2>. QED  BY <1>9, <2>1, <2>2, <2>3 DEF Bury, TypeOK, history
<1>10. CASE Clear(r)
  <2>1. RunnersTyped'
    BY <1>0, <1>10, RestTyped DEF Clear
  <2>. QED  BY <1>10, <2>1 DEF Clear, TypeOK, history
<1>11. CASE ChooseSeq(r)
  <2>1. CASE Rest(r)
    BY <1>0, <1>11, <2>1, RestTyped DEF ChooseSeq, TypeOK, store, history
  <2>2. CASE ~Rest(r)
    <3>. DEFINE n == NextInboxSeq(job[r].seq)
                j == [job[r] EXCEPT !.target = n]
    <3>1. n \in Seqs
      <4>1. n \in Nat
        BY <1>0, NextInboxSeqType DEF Jobs
      <4>2. n <= MaxSeq
        BY <1>11, <2>2 DEF ChooseSeq
      <4>. HIDE DEF n
      <4>. QED  BY <4>1, <4>2 DEF Seqs
    <3>2. j \in Jobs /\ j.frame \in Messages
      <4>1. job[r].frame \in Messages
        BY <1>11 DEF ChooseSeq, TypeOK
      <4>. HIDE DEF n
      <4>. QED  BY <1>0, <3>1, <4>1 DEF Jobs
    <3>3. job' = [job EXCEPT ![r] = j] /\ Goto(r, "place") /\ "place" \in Stages
      BY <1>0, <1>11, <2>2 DEF ChooseSeq, Stages, RunnersTyped
    <3>4. RunnersTyped'
      <4>. HIDE DEF j
      <4>. QED  BY <1>0, <3>2, <3>3, UpdateTyped
    <3>. QED  BY <1>11, <3>4 DEF ChooseSeq, TypeOK, store, history
  <2>. QED  BY <2>1, <2>2
<1>12. CASE Place(r)
  <2>. DEFINE s == job[r].seq
              to == job[r].target
  <2>1. s \in Seqs /\ to \in Seqs
    BY <1>0 DEF Jobs
  <2>2. RunnersTyped'
    <3>1. CASE Rest(r)
      BY <1>0, <3>1, RestTyped
    <3>2. CASE ~Rest(r)
      <4>. DEFINE j == [job[r] EXCEPT !.tries = @ + 1, !.target = 0]
      <4>1. j \in Jobs /\ j.frame \in Messages
        <5>1. job[r].frame \in Messages /\ 0 \in Seqs
          BY <1>12 DEF Place, TypeOK, Seqs
        <5>2. job[r].tries + 1 \in Nat
          BY <1>0 DEF Jobs
        <5>. QED  BY <1>0, <5>1, <5>2 DEF Jobs
      <4>2. job' = [job EXCEPT ![r] = j] /\ Goto(r, "requeue") /\ "requeue" \in Stages
        BY <1>0, <1>12, <3>2 DEF Place, Stages, RunnersTyped
      <4>. HIDE DEF j
      <4>. QED  BY <1>0, <4>1, <4>2, UpdateTyped
    <3>. QED  BY <3>1, <3>2
  <2>3. inbox' \in [Seqs -> Messages \cup {NoMsg}]
    BY <1>12, <2>1 DEF Place, TypeOK
  <2>4. lease' \in [Seqs -> Leases]
    BY <1>12, LocalTypes DEF Place, DropLease, TypeOK
  <2>5. nextSeq' \in 1 .. MaxSeq + 1
    BY <1>12, <2>1 DEF Place, TypeOK, Seqs
  <2>. QED  BY <1>12, <2>2, <2>3, <2>4, <2>5 DEF Place, TypeOK, history
<1>. QED
  BY <1>2, <1>3, <1>4, <1>5, <1>6, <1>7, <1>8, <1>9, <1>10, <1>11, <1>12 DEF Poll

\* Every action keeps every variable, and every runner's locals, in its type.
THEOREM TypeCorrect == Spec => []TypeOK
<1>1. TypeOK /\ [Next]_vars => TypeOK'
  <2>1. TypeOK /\ UNCHANGED vars => TypeOK'
    BY DEF TypeOK, vars, store, history
  <2>. QED  BY <2>1, CallersType, PollType DEF Next
<1>. QED  BY InitType, <1>1, PTL DEF Spec

---------------------------------------------------------------------------
(* Fencing: keys, leases and tokens when callers are coordinated           *)

\* With nothing stored there is nothing to fence.
LEMMA InitFencing == Init => Fencing
BY DEF Init, Fencing, StoreOK, Contiguous, LeasesAtHead, LettersBelow,
       RunnerOK, KeyOK, FrameOK, TokenOK, TargetOK, LeaseOK, Holding,
       DistinctTokens

\* The next-number walk sees a contiguous inbox: past the last key is nextSeq.
LEMMA NextIsNextSeq ==
  ASSUME TypeOK, Contiguous, NEW s \in Seqs, inbox[s] # NoMsg
  PROVE  NextInboxSeq(s) = nextSeq
<1>1. Occupied \in SUBSET Seqs /\ s \in Occupied
  BY DEF Occupied
<1>. DEFINE h == Highest(Occupied)
<1>2. h \in Occupied /\ \A t \in Occupied : t <= h
  BY <1>1, HighestIsGreatest
<1>3. h + 1 = nextSeq
  <2>1. s < nextSeq /\ h < nextSeq
    BY <1>2 DEF Contiguous, Occupied
  <2>2. nextSeq - 1 \in Seqs /\ s <= nextSeq - 1
    BY <2>1, BoundsAssumption DEF TypeOK, Seqs
  <2>3. nextSeq - 1 \in Occupied
    BY <2>2 DEF Contiguous, Occupied, TypeOK
  <2>4. nextSeq - 1 <= h
    BY <1>2, <2>3
  <2>. HIDE DEF h
  <2>. QED  BY <1>2, <2>1, <2>4 DEF Occupied, Seqs, TypeOK
<1>4. h + 1 # s
  BY <1>3 DEF Contiguous, TypeOK, Seqs
<1>. QED  BY <1>1, <1>3, <1>4 DEF NextInboxSeq

\* What a step does to the runners other than the one that takes it.
OnlyMoves(r) ==
  \A q \in Runners \ {r} : pc'[q] = pc[q] /\ job'[q] = job[q]

\* A runner that stays where it is on its message: same key, frame and token.
KeepsClaim(r) ==
  /\ pc[r] # "idle" /\ (Holding(r)' => Holding(r)) /\ pc[r] # "clear"
  /\ job'[r].seq = job[r].seq /\ job'[r].frame = job[r].frame
  /\ job'[r].lease = job[r].lease

\* Moves that leave inbox, leases and dead letters alone: the clock, handler
\* results, retry counts, the choice of a requeue's target, failures.
LEMMA LocalMove ==
  ASSUME TypeOK, TypeOK', Fencing, UNCHANGED <<inbox, lease, nextSeq>>,
         now <= now',
         \A s \in Seqs : dead'[s] \in {dead[s], NoLetter},
         \A r \in Runners : \/ pc'[r] = pc[r] /\ job'[r] = job[r]
                            \/ pc'[r] = "idle"
                            \/ KeepsClaim(r) /\ TargetOK(r)'
  PROVE  Fencing'
<1>1. StoreOK'
  BY DEF Fencing, StoreOK, Contiguous, LeasesAtHead, LettersBelow
<1>2. ASSUME NEW r \in Runners PROVE RunnerOK(r)'
  <2>1. RunnerOK(r) /\ now \in Int /\ now' \in Int
        /\ job[r].lease.deadline \in Int
    BY DEF Fencing, TypeOK, Jobs, Leases
  <2>2. CASE pc'[r] = pc[r] /\ job'[r] = job[r]
    BY <2>1, <2>2 DEF RunnerOK, KeyOK, FrameOK, TokenOK, TargetOK, LeaseOK,
                      Holding, Owns
  <2>3. CASE pc'[r] = "idle"
    BY <2>3 DEF RunnerOK, KeyOK, FrameOK, TokenOK, TargetOK, LeaseOK, Holding
  <2>4. CASE KeepsClaim(r) /\ TargetOK(r)'
    <3>1. KeyOK(r)' /\ FrameOK(r)'
      BY <2>1, <2>4 DEF KeepsClaim, RunnerOK, KeyOK, FrameOK
    <3>2. TokenOK(r)' /\ LeaseOK(r)'
      BY <2>1, <2>4 DEF KeepsClaim, RunnerOK, TokenOK, LeaseOK, Owns
    <3>. QED  BY <2>4, <3>1, <3>2 DEF RunnerOK
  <2>. QED  BY <2>2, <2>3, <2>4
<1>3. DistinctTokens'
  <2>1. ASSUME NEW r \in Runners, Holding(r)'
        PROVE  /\ Holding(r) /\ job'[r].seq = job[r].seq
               /\ job'[r].lease = job[r].lease
    BY <2>1 DEF KeepsClaim, Holding
  <2>. QED  BY <2>1 DEF Fencing, DistinctTokens
<1>. QED  BY <1>1, <1>2, <1>3 DEF Fencing

\* A caller fills the key nextSeq: above every runner's key and every lease.
LEMMA FillMove ==
  ASSUME TypeOK, TypeOK', Fencing, nextSeq <= MaxSeq,
         NEW m \in Messages, inbox' = [inbox EXCEPT ![nextSeq] = m],
         nextSeq' = nextSeq + 1, UNCHANGED <<now, lease, pc, job>>,
         \A s \in Seqs : dead'[s] \in {dead[s], NoLetter}
  PROVE  Fencing'
<1>0. nextSeq \in Seqs /\ m # NoMsg
  BY MessagesAssumption DEF TypeOK, Seqs
<1>1. \A s \in Seqs : inbox'[s] = IF s = nextSeq THEN m ELSE inbox[s]
  BY DEF TypeOK
<1>2. Contiguous'
  BY <1>0, <1>1 DEF Fencing, StoreOK, Contiguous, Seqs
<1>3. LeasesAtHead'
  BY <1>0, <1>1 DEF Fencing, StoreOK, Contiguous, LeasesAtHead, Seqs
<1>4. LettersBelow'
  BY <1>0, <1>1 DEF Fencing, StoreOK, LettersBelow, Seqs
<1>5. ASSUME NEW r \in Runners PROVE RunnerOK(r)'
  <2>1. RunnerOK(r) /\ job[r].seq \in Seqs /\ job[r].target \in Seqs
    BY DEF Fencing, TypeOK, Jobs
  <2>2. CASE pc[r] = "idle"
    BY <2>2 DEF RunnerOK, KeyOK, FrameOK, TokenOK, TargetOK, LeaseOK, Holding
  <2>3. CASE pc[r] # "idle"
    <3>1. job[r].seq < nextSeq /\ inbox'[job[r].seq] = inbox[job[r].seq]
      BY <1>1, <2>1, <2>3 DEF RunnerOK, KeyOK, Seqs
    <3>2. KeyOK(r)'
      BY <1>0, <1>1, <2>1, <2>3, <3>1 DEF RunnerOK, KeyOK, Seqs
    <3>3. FrameOK(r)' /\ TokenOK(r)' /\ LeaseOK(r)'
      BY <2>1, <3>1 DEF RunnerOK, FrameOK, TokenOK, LeaseOK, Holding, Owns
    <3>4. TargetOK(r)'
      BY <1>0, <2>1, <3>1 DEF RunnerOK, TargetOK, Seqs
    <3>. QED  BY <3>2, <3>3, <3>4 DEF RunnerOK
  <2>. QED  BY <2>2, <2>3
<1>6. DistinctTokens'
  <2>1. ASSUME NEW r \in Runners, Holding(r) PROVE inbox'[job[r].seq] = inbox[job[r].seq]
    <3>1. job[r].seq \in Seqs /\ job[r].seq < nextSeq
      BY <2>1 DEF Fencing, RunnerOK, KeyOK, Holding, TypeOK, Jobs
    <3>. QED  BY <1>1, <3>1 DEF Seqs
  <2>. QED  BY <2>1 DEF Fencing, DistinctTokens, Holding
<1>. QED  BY <1>2, <1>3, <1>4, <1>5, <1>6 DEF Fencing, StoreOK

\* What a runner's place says when its message is still there: the key is the
\* head of the inbox, so a valid claim is the only one.
LEMMA AtHead ==
  ASSUME TypeOK, Fencing, NEW r \in Runners, pc[r] # "idle",
         inbox[job[r].seq] # NoMsg
  PROVE  /\ job[r].seq \in Seqs /\ job[r].seq < nextSeq
         /\ \A t \in Seqs : inbox[t] # NoMsg => job[r].seq <= t
         /\ \A t \in Seqs : lease[t] # NoLease => t = job[r].seq
<1>1. job[r].seq \in Seqs
  BY DEF TypeOK, Jobs
<1>2. KeyOK(r) /\ LeasesAtHead
  BY DEF Fencing, StoreOK, RunnerOK
<1>3. ASSUME NEW t \in Seqs, lease[t] # NoLease PROVE t = job[r].seq
  <2>1. t <= job[r].seq /\ job[r].seq <= t
    BY <1>1, <1>2, <1>3 DEF KeyOK, LeasesAtHead
  <2>. QED  BY <1>1, <2>1 DEF Seqs
<1>. QED  BY <1>1, <1>2, <1>3 DEF KeyOK

\* Two holders of valid tokens on one message would be two equal tokens.
LEMMA OwnersAgree ==
  ASSUME TypeOK, Fencing, NEW r \in Runners, NEW q \in Runners,
         Holding(r), Owns(r), Holding(q), Owns(q),
         job[r].seq = job[q].seq, inbox[job[r].seq] # NoMsg
  PROVE  r = q
BY DEF Fencing, DistinctTokens, Owns

\* mailbox_v0_claim grants: the lease row changes hands, and only that.
LEMMA ClaimMove ==
  ASSUME TypeOK, TypeOK', Fencing, NEW r \in Runners, OnlyMoves(r),
         pc[r] = "read", pc'[r] = "claimed", inbox[job[r].seq] # NoMsg,
         NEW t \in Nat, t <= now,
         lease[job[r].seq] = NoLease \/ Expired(lease[job[r].seq], t),
         lease' = [lease EXCEPT ![job[r].seq] = NextLease(lease[job[r].seq], t)],
         job'[r].seq = job[r].seq, job'[r].frame = job[r].frame,
         job'[r].lease = NextLease(lease[job[r].seq], t),
         UNCHANGED <<now, inbox, dead, nextSeq>>
  PROVE  Fencing'
<1>. DEFINE s == job[r].seq
            l == NextLease(lease[s], t)
<1>0. /\ s \in Seqs /\ RunnerOK(r)
      /\ lease[s] \in Leases /\ lease[s].attempts \in Nat
      /\ l.attempts = lease[s].attempts + 1
  BY DEF Fencing, TypeOK, Jobs, Leases, NextLease
<1>1. \A u \in Seqs : lease'[u] = IF u = s THEN l ELSE lease[u]
  BY <1>0 DEF TypeOK
<1>2. StoreOK'
  <2>1. Contiguous' /\ LettersBelow'
    BY DEF Fencing, StoreOK, Contiguous, LettersBelow
  <2>2. ASSUME NEW u \in Seqs, lease'[u] # NoLease
        PROVE  /\ lease'[u].attempts >= 1
               /\ inbox[u] # NoMsg
               /\ \A v \in Seqs : inbox[v] # NoMsg => u <= v
    <3>1. CASE u = s
      <4>1. \A v \in Seqs : inbox[v] # NoMsg => s <= v
        BY AtHead
      <4>. HIDE DEF l
      <4>. QED  BY <1>0, <1>1, <3>1, <4>1
    <3>2. CASE u # s
      BY <1>1, <2>2, <3>2 DEF Fencing, StoreOK, LeasesAtHead
    <3>. QED  BY <3>1, <3>2
  <2>. QED  BY <2>1, <2>2 DEF StoreOK, LeasesAtHead
<1>3. ASSUME NEW q \in Runners, q # r, Holding(q), job[q].seq = s
      PROVE  job[q].lease.attempts < l.attempts
  <2>1. TokenOK(q) /\ job[q].lease.attempts \in Nat
    BY <1>3 DEF Fencing, RunnerOK, TypeOK, Jobs, Leases
  <2>. HIDE DEF l
  <2>. QED  BY <1>0, <1>3, <2>1 DEF TokenOK
<1>4. ASSUME NEW q \in Runners PROVE RunnerOK(q)'
  <2>1. CASE q = r
    <3>1. KeyOK(r)' /\ FrameOK(r)'
      BY <1>0 DEF RunnerOK, KeyOK, FrameOK
    <3>2. Owns(r)' /\ job'[r].lease.attempts >= 1
      BY <1>0, <1>1 DEF Owns
    <3>3. TokenOK(r)' /\ LeaseOK(r)'
      BY <1>0, <1>1, <3>2 DEF TokenOK, LeaseOK
    <3>4. TargetOK(r)'
      BY DEF TargetOK
    <3>. QED  BY <2>1, <3>1, <3>3, <3>4 DEF RunnerOK
  <2>2. CASE q # r
    <3>0. pc'[q] = pc[q] /\ job'[q] = job[q] /\ RunnerOK(q) /\ job[q].seq \in Seqs
      BY <2>2 DEF OnlyMoves, Fencing, TypeOK, Jobs
    <3>1. KeyOK(q)' /\ FrameOK(q)' /\ TargetOK(q)'
      BY <3>0 DEF RunnerOK, KeyOK, FrameOK, TargetOK
    <3>2. CASE ~Holding(q)
      BY <3>0, <3>1, <3>2 DEF RunnerOK, TokenOK, LeaseOK, Holding
    <3>3. CASE Holding(q) /\ job[q].seq # s
      <4>1. lease'[job[q].seq] = lease[job[q].seq]
        BY <1>1, <3>0, <3>3
      <4>. QED  BY <3>0, <3>1, <4>1 DEF RunnerOK, TokenOK, LeaseOK, Holding, Owns
    <3>4. CASE Holding(q) /\ job[q].seq = s
      <4>1. job[q].lease.attempts < l.attempts /\ lease'[s] = l
        BY <1>0, <1>1, <1>3, <2>2, <3>4
      <4>2. job[q].lease.attempts \in Nat /\ l.attempts \in Nat
            /\ job[q].lease.deadline \in Nat /\ now \in Int
        BY <1>0 DEF TypeOK, Jobs, Leases
      <4>3. TokenOK(q)'
        <5>. HIDE DEF l
        <5>. QED  BY <3>0, <3>4, <4>1, <4>2 DEF RunnerOK, TokenOK, Holding
      <4>4. LeaseOK(q)'
        <5>1. SUFFICES ASSUME now <= job[q].lease.deadline PROVE FALSE
          BY <3>0 DEF LeaseOK
        <5>2. lease[s] = job[q].lease /\ job[q].lease.attempts >= 1
          BY <3>0, <3>4, <5>1 DEF RunnerOK, TokenOK, LeaseOK, Owns
        <5>3. lease[s] # NoLease
          BY <5>2 DEF NoLease
        <5>. QED  BY <4>2, <5>1, <5>2, <5>3 DEF Expired
      <4>. QED  BY <3>1, <4>3, <4>4 DEF RunnerOK
    <3>. QED  BY <3>2, <3>3, <3>4
  <2>. QED  BY <2>1, <2>2
<1>5. DistinctTokens'
  <2>1. SUFFICES ASSUME NEW q1 \in Runners, NEW q2 \in Runners, q1 # q2,
                        Holding(q1)', Holding(q2)', job'[q1].seq = job'[q2].seq,
                        inbox[job'[q1].seq] # NoMsg
                 PROVE  job'[q1].lease.attempts # job'[q2].lease.attempts
    BY DEF DistinctTokens
  <2>2. CASE q1 # r /\ q2 # r
    BY <2>1, <2>2 DEF OnlyMoves, Fencing, DistinctTokens, Holding
  <2>3. ASSUME NEW q \in Runners, q # r, Holding(q)', job'[q].seq = s
        PROVE  job'[q].lease.attempts # l.attempts
    <3>1. Holding(q) /\ job[q].seq = s /\ job'[q] = job[q]
      BY <2>3 DEF OnlyMoves, Holding
    <3>2. job[q].lease.attempts \in Nat /\ l.attempts \in Nat
      BY <1>0 DEF TypeOK, Jobs, Leases
    <3>. HIDE DEF l
    <3>. QED  BY <1>3, <2>3, <3>1, <3>2
  <2>. QED  BY <2>1, <2>2, <2>3
<1>. QED  BY <1>2, <1>4, <1>5 DEF Fencing

\* What removing the message and lease of r's key does to another runner q.
LEMMA OthersAfterRemoval ==
  ASSUME TypeOK, TypeOK', Fencing,
         NEW r \in Runners, Holding(r), Owns(r), inbox[job[r].seq] # NoMsg,
         NEW q \in Runners, q # r, pc'[q] = pc[q], job'[q] = job[q],
         inbox'[job[q].seq] \in {inbox[job[q].seq], NoMsg},
         job[q].seq = job[r].seq => inbox'[job[q].seq] = NoMsg,
         job[q].seq # job[r].seq => lease'[job[q].seq] = lease[job[q].seq],
         nextSeq <= nextSeq', UNCHANGED now, KeyOK(q)'
  PROVE  RunnerOK(q)'
<1>1. RunnerOK(q) /\ job[q].seq \in Seqs /\ job[q].target \in Seqs
      /\ nextSeq \in Nat /\ nextSeq' \in Nat
  BY DEF Fencing, TypeOK, Jobs
<1>2. FrameOK(q)'
  BY <1>1 DEF RunnerOK, FrameOK
<1>3. TargetOK(q)'
  BY <1>1 DEF RunnerOK, TargetOK, Seqs
<1>4. TokenOK(q)'
  BY <1>1 DEF RunnerOK, TokenOK, Holding, Owns
<1>5. LeaseOK(q)'
  <2>1. CASE job[q].seq = job[r].seq
    <3>1. Holding(q) => ~Owns(q)
      BY <2>1, OwnersAgree
    <3>. QED  BY <1>1, <3>1 DEF RunnerOK, LeaseOK, Holding
  <2>2. CASE job[q].seq # job[r].seq
    BY <1>1, <2>2 DEF RunnerOK, LeaseOK, Holding, Owns
  <2>. QED  BY <2>1, <2>2
<1>. QED  BY <1>1, <1>2, <1>3, <1>4, <1>5 DEF RunnerOK

\* ack and dead_letter_v0_move: the head leaves the inbox with its lease.
LEMMA RemoveMove ==
  ASSUME TypeOK, TypeOK', Fencing, NEW r \in Runners, OnlyMoves(r),
         Holding(r), Owns(r), inbox[job[r].seq] # NoMsg, pc'[r] = "clear",
         inbox' = [inbox EXCEPT ![job[r].seq] = NoMsg],
         lease' = [lease EXCEPT ![job[r].seq] = NoLease],
         \A s \in Seqs : s # job[r].seq => dead'[s] = dead[s],
         job'[r].seq = job[r].seq,
         UNCHANGED <<now, nextSeq>>
  PROVE  Fencing'
<1>. DEFINE s == job[r].seq
<1>0. /\ s \in Seqs /\ s < nextSeq /\ pc[r] # "idle"
      /\ \A t \in Seqs : inbox[t] # NoMsg => s <= t
      /\ \A t \in Seqs : lease[t] # NoLease => t = s
  BY AtHead DEF Holding
<1>1. /\ \A u \in Seqs : inbox'[u] = IF u = s THEN NoMsg ELSE inbox[u]
      /\ \A u \in Seqs : lease'[u] = IF u = s THEN NoLease ELSE lease[u]
  BY <1>0 DEF TypeOK
<1>2. StoreOK'
  <2>1. Contiguous'
    <3>1. ASSUME NEW t \in Seqs, NEW u \in Seqs, inbox'[t] # NoMsg, t <= u, u < nextSeq
          PROVE  inbox'[u] # NoMsg
      <4>1. inbox[t] # NoMsg /\ t # s /\ s <= t
        BY <1>0, <1>1, <3>1
      <4>2. u # s /\ inbox[u] # NoMsg
        BY <1>0, <3>1, <4>1 DEF Fencing, StoreOK, Contiguous, Seqs
      <4>. QED  BY <1>1, <4>2
    <3>2. \A t \in Seqs : inbox'[t] # NoMsg => t < nextSeq
      BY <1>1 DEF Fencing, StoreOK, Contiguous
    <3>. QED  BY <3>1, <3>2 DEF Contiguous
  <2>2. LeasesAtHead'
    BY <1>0, <1>1 DEF LeasesAtHead
  <2>3. LettersBelow'
    BY <1>0, <1>1 DEF Fencing, StoreOK, LettersBelow
  <2>. QED  BY <2>1, <2>2, <2>3 DEF StoreOK
<1>3. ASSUME NEW q \in Runners PROVE RunnerOK(q)'
  <2>1. job[q].seq \in Seqs /\ RunnerOK(q)
    BY DEF Fencing, TypeOK, Jobs
  <2>2. CASE q = r
    BY <1>0, <1>1, <2>1, <2>2 DEF RunnerOK, KeyOK, FrameOK, TokenOK, TargetOK, LeaseOK, Holding
  <2>3. CASE q # r
    <3>1. pc'[q] = pc[q] /\ job'[q] = job[q]
      BY <2>3 DEF OnlyMoves
    <3>2. KeyOK(q)'
      BY <1>1, <2>1, <3>1 DEF RunnerOK, KeyOK
    <3>3. nextSeq <= nextSeq'
      BY DEF TypeOK
    <3>. QED  BY <1>1, <2>1, <2>3, <3>1, <3>2, <3>3, OthersAfterRemoval
  <2>. QED  BY <2>2, <2>3
<1>4. DistinctTokens'
  <2>1. ASSUME NEW q \in Runners, Holding(q)', inbox'[job'[q].seq] # NoMsg
        PROVE  /\ Holding(q) /\ job'[q] = job[q]
               /\ inbox[job[q].seq] # NoMsg
    <3>1. q # r
      BY <2>1 DEF Holding
    <3>2. job'[q] = job[q] /\ job[q].seq \in Seqs
      BY <3>1 DEF OnlyMoves, TypeOK, Jobs
    <3>. QED  BY <1>1, <2>1, <3>1, <3>2 DEF OnlyMoves, Holding
  <2>2. ASSUME NEW q1 \in Runners, NEW q2 \in Runners, q1 # q2,
               Holding(q1)', Holding(q2)', job'[q1].seq = job'[q2].seq,
               inbox'[job'[q1].seq] # NoMsg
        PROVE  job'[q1].lease.attempts # job'[q2].lease.attempts
    BY <2>1, <2>2 DEF Fencing, DistinctTokens
  <2>. QED  BY <2>2 DEF DistinctTokens
<1>. QED  BY <1>2, <1>3, <1>4 DEF Fencing

\* mailbox_v0_requeue: the head moves to the end of the inbox.
LEMMA PlaceMove ==
  ASSUME TypeOK, TypeOK', Fencing, NEW r \in Runners, OnlyMoves(r),
         pc[r] = "place", Owns(r), inbox[job[r].seq] # NoMsg, pc'[r] = "idle",
         job[r].target = nextSeq,
         inbox' = [inbox EXCEPT ![nextSeq] = inbox[job[r].seq],
                                ![job[r].seq] = NoMsg],
         lease' = [lease EXCEPT ![job[r].seq] = NoLease],
         nextSeq' = nextSeq + 1, UNCHANGED <<now, dead>>
  PROVE  Fencing'
<1>. DEFINE s == job[r].seq
            m == inbox[s]
<1>0. /\ s \in Seqs /\ s < nextSeq /\ Holding(r) /\ nextSeq \in Seqs
      /\ \A t \in Seqs : inbox[t] # NoMsg => s <= t
      /\ \A t \in Seqs : lease[t] # NoLease => t = s
  BY AtHead DEF Holding, TypeOK, Jobs
<1>1. /\ \A u \in Seqs : inbox'[u] = IF u = s THEN NoMsg
                                     ELSE IF u = nextSeq THEN m ELSE inbox[u]
      /\ \A u \in Seqs : lease'[u] = IF u = s THEN NoLease ELSE lease[u]
  BY <1>0 DEF TypeOK, Seqs
<1>2. StoreOK'
  <2>1. Contiguous'
    <3>1. ASSUME NEW t \in Seqs, NEW u \in Seqs, inbox'[t] # NoMsg, t <= u, u < nextSeq'
          PROVE  inbox'[u] # NoMsg
      <4>1. s < t
        BY <1>0, <1>1, <3>1 DEF Seqs
      <4>2. CASE u = nextSeq
        <5>1. s # u
          BY <1>0, <4>2 DEF Seqs
        <5>2. inbox'[u] = m
          BY <1>1, <3>1, <4>2, <5>1
        <5>. QED  BY <5>2
      <4>3. CASE u < nextSeq
        <5>1. inbox[u] # NoMsg /\ u # s /\ u # nextSeq
          BY <1>0, <1>1, <3>1, <4>1, <4>3 DEF Fencing, StoreOK, Contiguous, Seqs
        <5>. QED  BY <1>1, <5>1
      <4>. QED  BY <1>0, <3>1, <4>2, <4>3 DEF Seqs
    <3>2. \A t \in Seqs : inbox'[t] # NoMsg => t < nextSeq'
      BY <1>0, <1>1 DEF Fencing, StoreOK, Contiguous, Seqs
    <3>. QED  BY <3>1, <3>2 DEF Contiguous
  <2>2. LeasesAtHead'
    BY <1>0, <1>1 DEF LeasesAtHead
  <2>3. LettersBelow'
    <3>1. ASSUME NEW u \in Seqs, dead[u] # NoLetter
          PROVE  u < nextSeq' /\ inbox'[u] = NoMsg
      <4>1. u < nextSeq /\ inbox[u] = NoMsg
        BY <3>1 DEF Fencing, StoreOK, LettersBelow
      <4>2. u < nextSeq + 1 /\ u # nextSeq
        BY <1>0, <4>1 DEF Seqs
      <4>. QED  BY <1>1, <4>1, <4>2
    <3>. QED  BY <3>1 DEF LettersBelow
  <2>. QED  BY <2>1, <2>2, <2>3 DEF StoreOK
<1>3. ASSUME NEW q \in Runners PROVE RunnerOK(q)'
  <2>1. job[q].seq \in Seqs /\ RunnerOK(q)
    BY DEF Fencing, TypeOK, Jobs
  <2>2. CASE q = r
    BY <2>2 DEF RunnerOK, KeyOK, FrameOK, TokenOK, TargetOK, LeaseOK, Holding
  <2>3. CASE q # r /\ pc[q] = "idle"
    BY <2>3 DEF OnlyMoves, RunnerOK, KeyOK, FrameOK, TokenOK, TargetOK, LeaseOK, Holding
  <2>4. CASE q # r /\ pc[q] # "idle"
    <3>1. pc'[q] = pc[q] /\ job'[q] = job[q]
      BY <2>4 DEF OnlyMoves
    <3>2. job[q].seq < nextSeq /\ job[q].seq <= s
      BY <1>0, <2>1, <2>4 DEF RunnerOK, KeyOK
    <3>3. KeyOK(q)'
      <4>1. ASSUME NEW u \in Seqs, inbox'[u] # NoMsg PROVE job[q].seq <= u
        <5>1. CASE u = nextSeq
          BY <1>0, <2>1, <3>2, <5>1 DEF Seqs
        <5>2. CASE u # nextSeq
          BY <1>1, <2>1, <2>4, <4>1, <5>2 DEF RunnerOK, KeyOK
        <5>. QED  BY <5>1, <5>2
      <4>2. job[q].seq < nextSeq'
        BY <1>0, <2>1, <3>2 DEF Seqs
      <4>. QED  BY <3>1, <4>1, <4>2 DEF KeyOK
    <3>4. nextSeq <= nextSeq' /\ job[q].seq # nextSeq
      BY <1>0, <2>1, <3>2 DEF Seqs
    <3>5. /\ inbox'[job[q].seq] \in {inbox[job[q].seq], NoMsg}
          /\ job[q].seq = s => inbox'[job[q].seq] = NoMsg
      BY <1>1, <2>1, <3>4
    <3>6. job[q].seq # s => lease'[job[q].seq] = lease[job[q].seq]
      BY <1>1, <2>1
    <3>7. Holding(r) /\ q # r /\ UNCHANGED now
      BY <1>0, <2>4
    <3>. QED  BY <3>1, <3>3, <3>4, <3>5, <3>6, <3>7, OthersAfterRemoval
  <2>. QED  BY <2>2, <2>3, <2>4
<1>4. DistinctTokens'
  <2>1. ASSUME NEW q \in Runners, Holding(q)', inbox'[job'[q].seq] # NoMsg
        PROVE  /\ Holding(q) /\ job'[q] = job[q]
               /\ inbox[job[q].seq] # NoMsg
    <3>1. q # r
      BY <2>1 DEF Holding
    <3>2. job'[q] = job[q] /\ pc'[q] = pc[q] /\ job[q].seq \in Seqs
      BY <3>1 DEF OnlyMoves, TypeOK, Jobs
    <3>3. job[q].seq < nextSeq
      BY <2>1, <3>2 DEF Fencing, RunnerOK, KeyOK, Holding
    <3>. QED  BY <1>0, <1>1, <2>1, <3>2, <3>3 DEF Holding, Seqs
  <2>2. ASSUME NEW q1 \in Runners, NEW q2 \in Runners, q1 # q2,
               Holding(q1)', Holding(q2)', job'[q1].seq = job'[q2].seq,
               inbox'[job'[q1].seq] # NoMsg
        PROVE  job'[q1].lease.attempts # job'[q2].lease.attempts
    BY <2>1, <2>2 DEF Fencing, DistinctTokens
  <2>. QED  BY <2>2 DEF DistinctTokens
<1>. QED  BY <1>2, <1>3, <1>4 DEF Fencing

\* A read takes the head of the inbox, whatever other runners hold.
LEMMA ReadMove ==
  ASSUME TypeOK, TypeOK', Fencing, NEW r \in Runners, Read(r)
  PROVE  Fencing'
<1>. DEFINE h == Lowest(Occupied)
<1>1. h \in Seqs /\ inbox[h] # NoMsg /\ \A s \in Seqs : inbox[s] # NoMsg => h <= s
  <2>1. Occupied \in SUBSET Seqs /\ Occupied # {}
    BY DEF Read, Occupied
  <2>2. h \in Occupied /\ \A s \in Occupied : h <= s
    BY <2>1, LowestIsLeast
  <2>. HIDE DEF h
  <2>. QED  BY <2>2 DEF Occupied
<1>2. /\ pc'[r] = "read" /\ job'[r].seq = h /\ job'[r].frame = inbox[h]
      /\ OnlyMoves(r) /\ UNCHANGED <<now, inbox, lease, dead, nextSeq>>
  BY DEF Read, Goto, OnlyMoves, TypeOK, store, NoJob
<1>3. StoreOK'
  BY <1>2 DEF Fencing, StoreOK, Contiguous, LeasesAtHead, LettersBelow
<1>4. ASSUME NEW q \in Runners PROVE RunnerOK(q)'
  <2>1. CASE q = r
    <3>. HIDE DEF h
    <3>1. KeyOK(r)' /\ FrameOK(r)'
      BY <1>1, <1>2 DEF KeyOK, FrameOK, Fencing, StoreOK, Contiguous
    <3>. QED  BY <1>2, <2>1, <3>1 DEF RunnerOK, TokenOK, TargetOK, LeaseOK, Holding
  <2>2. CASE q # r
    BY <1>2, <2>2 DEF OnlyMoves, Fencing, RunnerOK, KeyOK, FrameOK, TokenOK,
                      TargetOK, LeaseOK, Holding, Owns
  <2>. QED  BY <2>1, <2>2
<1>5. DistinctTokens'
  <2>1. ASSUME NEW q \in Runners, Holding(q)' PROVE Holding(q) /\ job'[q] = job[q]
    BY <1>2, <2>1 DEF OnlyMoves, Holding
  <2>. QED  BY <1>2, <2>1 DEF Fencing, DistinctTokens
<1>. QED  BY <1>3, <1>4, <1>5 DEF Fencing

\* Producers, replays, drains and the clock do not disturb the fence.
LEMMA CallersFencing ==
  ASSUME Coordinated, TypeOK, TypeOK', Fencing, Tick \/ Callers
  PROVE  Fencing'
<1>1. CASE Tick
  <2>1. now <= now'
    BY <1>1 DEF Tick, TypeOK
  <2>. QED  BY <1>1, <2>1, LocalMove DEF Tick, store
<1>2. ASSUME NEW m \in Messages, InboxPut(m) PROVE Fencing'
  BY <1>2, FillMove DEF InboxPut
<1>3. ASSUME NEW s \in Seqs, NEW to \in ReplaySeqs, Replay(s, to) PROVE Fencing'
  <2>1. to = nextSeq /\ dead[s].msg \in Messages
    BY <1>3 DEF Replay, ReplaySeqs, TypeOK, Letters
  <2>2. \A u \in Seqs : dead'[u] \in {dead[u], NoLetter}
    BY <1>3 DEF Replay, TypeOK
  <2>. QED  BY <1>3, <2>1, <2>2, FillMove DEF Replay
<1>4. CASE DrainRead
  <2>1. now <= now'
    BY <1>4 DEF DrainRead, TypeOK
  <2>. QED  BY <1>4, <2>1, LocalMove DEF DrainRead, store
<1>5. CASE DrainDelete
  <2>1. now <= now' /\ \A u \in Seqs : dead'[u] \in {dead[u], NoLetter}
    BY <1>5 DEF DrainDelete, TypeOK
  <2>. QED  BY <1>5, <2>1, LocalMove DEF DrainDelete
<1>. QED  BY <1>1, <1>2, <1>3, <1>4, <1>5 DEF Callers

\* A runner that gives up its poll disturbs nothing.
LEMMA RestMove ==
  ASSUME TypeOK, TypeOK', Fencing, NEW r \in Runners, Rest(r),
         UNCHANGED <<now, inbox, lease, dead, nextSeq>>
  PROVE  Fencing'
<1>1. \A q \in Runners : \/ pc'[q] = pc[q] /\ job'[q] = job[q]
                         \/ pc'[q] = "idle"
  BY DEF Rest, TypeOK
<1>2. now <= now'
  BY DEF TypeOK
<1>. QED  BY <1>1, <1>2, LocalMove

\* A runner goes on with the message it holds.
LEMMA StageMove ==
  ASSUME TypeOK, TypeOK', Fencing, NEW r \in Runners, OnlyMoves(r),
         UNCHANGED <<now, inbox, lease, dead, nextSeq>>,
         Holding(r), job'[r].seq = job[r].seq, job'[r].frame = job[r].frame,
         job'[r].lease = job[r].lease, TargetOK(r)'
  PROVE  Fencing'
<1>1. KeepsClaim(r) /\ TargetOK(r)'
  BY DEF KeepsClaim, Holding
<1>2. \A q \in Runners : \/ pc'[q] = pc[q] /\ job'[q] = job[q]
                         \/ KeepsClaim(q) /\ TargetOK(q)'
  BY <1>1 DEF OnlyMoves
<1>3. now <= now'
  BY DEF TypeOK
<1>. QED  BY <1>2, <1>3, LocalMove

\* Every step of the poll loop keeps the fence: the heart of the argument.
LEMMA PollFencing ==
  ASSUME Coordinated, TypeOK, TypeOK', Fencing, NEW r \in Runners, Poll(r)
  PROVE  Fencing'
<1>0. /\ job[r] \in Jobs /\ job[r].seq \in Seqs
      /\ job \in [Runners -> Jobs] /\ pc \in [Runners -> Stages]
  BY DEF TypeOK, Jobs
<1>1. CASE Read(r)
  BY <1>1, ReadMove
<1>2. CASE Claim(r)
  <2>1. CASE Rest(r) /\ UNCHANGED lease
    BY <1>2, <2>1, RestMove DEF Claim
  <2>2. CASE ~(Rest(r) /\ UNCHANGED lease)
    <3>. DEFINE s == job[r].seq
    <3>1. PICK t \in job[r].stamp .. now :
            /\ lease[s] = NoLease \/ Expired(lease[s], t)
            /\ lease' = [lease EXCEPT ![s] = NextLease(lease[s], t)]
            /\ job' = [job EXCEPT ![r].lease = NextLease(lease[s], t),
                                  ![r].stamp = 0]
      BY <1>2, <2>2 DEF Claim
    <3>2. t \in Nat /\ t <= now
      BY <1>0 DEF Jobs, TypeOK
    <3>3. job'[r] = [job[r] EXCEPT !.lease = NextLease(lease[s], t), !.stamp = 0]
      BY <1>0, <3>1
    <3>4. /\ job'[r].seq = s /\ job'[r].frame = job[r].frame
          /\ job'[r].lease = NextLease(lease[s], t)
      BY <1>0, <3>3 DEF Jobs
    <3>5. OnlyMoves(r) /\ pc'[r] = "claimed"
      BY <1>2, <2>2, <3>1 DEF Claim, Goto, OnlyMoves, TypeOK
    <3>6. /\ inbox[s] # NoMsg /\ pc[r] = "read"
          /\ UNCHANGED <<now, inbox, dead, nextSeq>>
      BY <1>2, <2>2 DEF Claim
    <3>. QED  BY <3>1, <3>2, <3>4, <3>5, <3>6, ClaimMove
  <2>. QED  BY <2>1, <2>2
<1>3. CASE HandleOk(r) \/ HandleRetryable(r) \/ HandleFatal(r)
  <2>1. /\ OnlyMoves(r) /\ Holding(r) /\ job' = job /\ pc'[r] # "place"
        /\ UNCHANGED <<now, inbox, lease, dead, nextSeq>>
    BY <1>0, <1>3 DEF HandleOk, HandleRetryable, HandleFatal, Goto, OnlyMoves,
                      Holding, store
  <2>2. TargetOK(r)'
    BY <2>1 DEF TargetOK
  <2>. QED  BY <2>1, <2>2, StageMove
<1>4. CASE Ack(r)
  <2>1. CASE Rest(r) /\ UNCHANGED <<inbox, lease, settled>>
    BY <1>4, <2>1, RestMove DEF Ack
  <2>2. CASE ~(Rest(r) /\ UNCHANGED <<inbox, lease, settled>>)
    <3>1. OnlyMoves(r) /\ Holding(r) /\ pc'[r] = "clear" /\ job' = job
      BY <1>0, <1>4, <2>2 DEF Ack, Goto, OnlyMoves, Holding
    <3>. QED  BY <1>4, <2>2, <3>1, RemoveMove DEF Ack, DropLease
  <2>. QED  BY <2>1, <2>2
<1>5. CASE Count(r)
  <2>1. CASE Rest(r) /\ UNCHANGED retry
    BY <1>5, <2>1, RestMove DEF Count
  <2>2. CASE ~(Rest(r) /\ UNCHANGED retry)
    <3>1. /\ OnlyMoves(r) /\ Holding(r) /\ pc'[r] \in {"bury", "requeue"}
          /\ UNCHANGED <<now, inbox, lease, dead, nextSeq>>
      BY <1>0, <1>5, <2>2 DEF Count, Goto, OnlyMoves, Holding
    <3>2. job'[r] = [job[r] EXCEPT !.count = retry[job[r].frame] + 1]
      BY <1>0, <1>5, <2>2 DEF Count
    <3>3. /\ job'[r].seq = job[r].seq /\ job'[r].frame = job[r].frame
          /\ job'[r].lease = job[r].lease
      BY <1>0, <3>2 DEF Jobs
    <3>4. TargetOK(r)'
      BY <3>1 DEF TargetOK
    <3>. QED  BY <3>1, <3>3, <3>4, StageMove
  <2>. QED  BY <2>1, <2>2
<1>6. CASE Bury(r)
  <2>1. CASE Rest(r) /\ UNCHANGED <<inbox, lease, dead>>
    BY <1>6, <2>1, RestMove DEF Bury
  <2>2. CASE ~(Rest(r) /\ UNCHANGED <<inbox, lease, dead>>)
    <3>1. OnlyMoves(r) /\ Holding(r) /\ pc'[r] = "clear" /\ job' = job
      BY <1>0, <1>6, <2>2 DEF Bury, Goto, OnlyMoves, Holding
    <3>2. \A u \in Seqs : u # job[r].seq => dead'[u] = dead[u]
      BY <1>6, <2>2 DEF Bury, TypeOK
    <3>. QED  BY <1>6, <2>2, <3>1, <3>2, RemoveMove DEF Bury, DropLease
  <2>. QED  BY <2>1, <2>2
<1>7. CASE Clear(r)
  BY <1>7, RestMove DEF Clear
<1>8. CASE ChooseSeq(r)
  <2>1. CASE Rest(r)
    BY <1>8, <2>1, RestMove DEF ChooseSeq, store
  <2>2. CASE ~Rest(r)
    <3>. DEFINE n == NextInboxSeq(job[r].seq)
    <3>1. /\ OnlyMoves(r) /\ Holding(r)
          /\ UNCHANGED <<now, inbox, lease, dead, nextSeq>>
      BY <1>0, <1>8, <2>2 DEF ChooseSeq, Goto, OnlyMoves, Holding, store
    <3>2. job'[r] = [job[r] EXCEPT !.target = n]
      BY <1>0, <1>8, <2>2 DEF ChooseSeq
    <3>3. /\ job'[r].seq = job[r].seq /\ job'[r].frame = job[r].frame
          /\ job'[r].lease = job[r].lease /\ job'[r].target = n
      <4>. HIDE DEF n
      <4>. QED  BY <1>0, <3>2 DEF Jobs
    <3>4. TargetOK(r)'
      <4>1. ASSUME inbox[job[r].seq] # NoMsg
            PROVE  job[r].seq < n /\ n <= nextSeq
        <5>1. n = nextSeq
          BY <1>0, <4>1, NextIsNextSeq DEF Fencing, StoreOK
        <5>2. job[r].seq < nextSeq
          BY <1>0, <4>1 DEF Fencing, StoreOK, Contiguous
        <5>. HIDE DEF n
        <5>. QED  BY <5>1, <5>2 DEF TypeOK
      <4>. HIDE DEF n
      <4>. QED  BY <3>1, <3>3, <4>1 DEF TargetOK
    <3>. QED  BY <3>1, <3>3, <3>4, StageMove
  <2>. QED  BY <2>1, <2>2
<1>9. CASE Place(r)
  <2>1. CASE Rest(r) /\ UNCHANGED <<inbox, lease, nextSeq>>
    BY <1>9, <2>1, RestMove DEF Place
  <2>2. CASE job' = [job EXCEPT ![r].tries = @ + 1, ![r].target = 0]
             /\ Goto(r, "requeue") /\ UNCHANGED <<inbox, lease, nextSeq>>
    <3>1. /\ OnlyMoves(r) /\ Holding(r) /\ pc'[r] = "requeue"
          /\ UNCHANGED <<now, inbox, lease, dead, nextSeq>>
      BY <1>0, <1>9, <2>2 DEF Place, Goto, OnlyMoves, Holding
    <3>2. job'[r] = [job[r] EXCEPT !.tries = @ + 1, !.target = 0]
      BY <1>0, <2>2
    <3>3. /\ job'[r].seq = job[r].seq /\ job'[r].frame = job[r].frame
          /\ job'[r].lease = job[r].lease
      BY <1>0, <3>2 DEF Jobs
    <3>4. TargetOK(r)'
      BY <3>1 DEF TargetOK
    <3>. QED  BY <3>1, <3>3, <3>4, StageMove
  <2>3. CASE /\ Owns(r) /\ inbox[job[r].seq] # NoMsg /\ Rest(r)
             /\ inbox[job[r].target] = NoMsg
             /\ inbox' = [inbox EXCEPT ![job[r].target] = inbox[job[r].seq],
                                       ![job[r].seq] = NoMsg]
             /\ lease' = [lease EXCEPT ![job[r].seq] = NoLease]
             /\ nextSeq' = IF Coordinated /\ job[r].target >= nextSeq
                           THEN job[r].target + 1 ELSE nextSeq
    <3>1. job[r].target \in Seqs /\ pc[r] = "place"
      BY <1>9 DEF Place, TypeOK, Jobs
    <3>2. job[r].seq < job[r].target /\ job[r].target <= nextSeq
      BY <2>3, <3>1 DEF Fencing, RunnerOK, TargetOK
    <3>3. ~(job[r].target < nextSeq)
      BY <1>0, <2>3, <3>1, <3>2 DEF Fencing, StoreOK, Contiguous, Seqs
    <3>4. job[r].target = nextSeq /\ nextSeq' = nextSeq + 1
      BY <2>3, <3>1, <3>2, <3>3 DEF TypeOK, Seqs
    <3>5. OnlyMoves(r) /\ pc'[r] = "idle"
      BY <1>0, <2>3 DEF Rest, OnlyMoves
    <3>. QED  BY <1>9, <2>3, <3>1, <3>4, <3>5, PlaceMove DEF Place
  <2>. QED  BY <1>9, <2>1, <2>2, <2>3 DEF Place, Free, DropLease
<1>. QED
  BY <1>1, <1>2, <1>3, <1>4, <1>5, <1>6, <1>7, <1>8, <1>9 DEF Poll

\* The invariant about keys and tokens holds whenever callers number their
\* messages above every number in use.
THEOREM FencingHolds == ASSUME Coordinated PROVE Spec => [](TypeOK /\ Fencing)
<1>. DEFINE I == TypeOK /\ Fencing
<1>1. Init => I
  BY InitType, InitFencing
<1>2. I /\ [Next]_vars => I'
  <2>. SUFFICES ASSUME I, [Next]_vars PROVE I'
    OBVIOUS
  <2>1. TypeOK'
    BY CallersType, PollType DEF Next, TypeOK, vars, store, history
  <2>2. CASE UNCHANGED vars
    <3>1. now <= now'
      BY <2>2 DEF vars, TypeOK
    <3>. QED  BY <2>1, <2>2, <3>1, LocalMove DEF vars, store
  <2>3. CASE Next
    BY <2>1, <2>3, CallersFencing, PollFencing DEF Next
  <2>. QED  BY <2>2, <2>3
<1>. QED  BY <1>1, <1>2, PTL DEF Spec

\* A lease is never taken from its holder before its deadline.
THEOREM LeasesHonoured == ASSUME Coordinated PROVE Spec => []LeaseHonoured
<1>1. TypeOK /\ Fencing => LeaseHonoured
  BY DEF Fencing, RunnerOK, LeaseOK, LeaseHonoured
<1>. QED  BY <1>1, FencingHolds, PTL

\* Two runners never both hold a token that disposes of the same message.
THEOREM ClaimsExclusive == ASSUME Coordinated PROVE Spec => []ExclusiveClaim
<1>1. TypeOK /\ Fencing => ExclusiveClaim
  <2>. SUFFICES ASSUME TypeOK, Fencing, NEW r1 \in Runners, NEW r2 \in Runners,
                       Holding(r1), Owns(r1), Holding(r2), Owns(r2),
                       job[r1].seq = job[r2].seq
                PROVE  r1 = r2
    BY DEF ExclusiveClaim
  <2>1. job[r1].seq \in Seqs /\ lease[job[r1].seq].attempts >= 1
    BY DEF Fencing, RunnerOK, TokenOK, TypeOK, Jobs, Owns
  <2>2. lease[job[r1].seq] # NoLease
    BY <2>1 DEF NoLease
  <2>3. inbox[job[r1].seq] # NoMsg
    BY <2>1, <2>2 DEF Fencing, StoreOK, LeasesAtHead
  <2>. QED  BY <2>3, OwnersAgree
<1>. QED  BY <1>1, FencingHolds, PTL

\* Only the head of the inbox is ever leased: messages are worked in order.
THEOREM HeadsOnly == ASSUME Coordinated PROVE Spec => []HeadOnly
<1>1. TypeOK /\ Fencing => HeadOnly
  <2>. SUFFICES ASSUME TypeOK, Fencing, NEW s \in Seqs, lease[s] # NoLease
                PROVE  inbox[s] # NoMsg /\ s = Lowest(Occupied)
    BY DEF HeadOnly
  <2>1. inbox[s] # NoMsg /\ \A t \in Seqs : inbox[t] # NoMsg => s <= t
    BY DEF Fencing, StoreOK, LeasesAtHead
  <2>2. Occupied \in SUBSET Seqs /\ s \in Occupied
    BY <2>1 DEF Occupied
  <2>3. Lowest(Occupied) \in Occupied /\ Lowest(Occupied) <= s
    BY <2>2, LowestIsLeast
  <2>4. s <= Lowest(Occupied) /\ Lowest(Occupied) \in Seqs
    BY <2>1, <2>3 DEF Occupied
  <2>. QED  BY <2>1, <2>3, <2>4 DEF Seqs
<1>. QED  BY <1>1, FencingHolds, PTL

\* Whoever may dispose of a message has run its handler on that message.
THEOREM FramesMatch == ASSUME Coordinated PROVE Spec => []FrameMatches
<1>1. TypeOK /\ Fencing => FrameMatches
  <2>. SUFFICES ASSUME TypeOK, Fencing, NEW r \in Runners, Holding(r), Owns(r)
                PROVE  inbox[job[r].seq] = job[r].frame
    BY DEF FrameMatches
  <2>1. job[r].seq \in Seqs /\ lease[job[r].seq].attempts >= 1
    BY DEF Fencing, RunnerOK, TokenOK, TypeOK, Jobs, Owns
  <2>2. lease[job[r].seq] # NoLease
    BY <2>1 DEF NoLease
  <2>3. inbox[job[r].seq] # NoMsg
    BY <2>1, <2>2 DEF Fencing, StoreOK, LeasesAtHead
  <2>. QED  BY <2>3 DEF Fencing, RunnerOK, FrameOK, Holding
<1>. QED  BY <1>1, FencingHolds, PTL

---------------------------------------------------------------------------
(* Accounting: every message that was sent is in exactly one place         *)

\* With nothing sent there is nothing to account for.
LEMMA InitAccounting == Init => Accounting
<1>. SUFFICES ASSUME Init PROVE Accounting
  OBVIOUS
<1>1. \A m \in Messages : ~Queued(m) /\ ~Buried(m)
  BY MessagesAssumption DEF Init, Queued, Buried, NoLetter
<1>. QED  BY <1>1 DEF Init, Accounting, NoMessageLost, SingleCopy

\* Steps that leave inbox, dead letters and the histories of removals alone.
LEMMA SameAccount ==
  ASSUME TypeOK, Accounting, UNCHANGED <<inbox, dead, sent, settled, drained>>,
         \A r \in Runners :
           pc'[r] # "idle" => job'[r].frame \in sent
  PROVE  Accounting'
<1>1. /\ \A m : Queued(m)' <=> Queued(m)
      /\ \A m : Buried(m)' <=> Buried(m)
  BY DEF Queued, Buried
<1>2. NoMessageLost'
  BY <1>1 DEF Accounting, NoMessageLost
<1>3. SingleCopy'
  BY <1>1 DEF Accounting, SingleCopy
<1>. QED  BY <1>2, <1>3 DEF Accounting

\* A runner's frame is a message that was sent, also after its step.
LEMMA FramesAfterPoll ==
  ASSUME TypeOK, Accounting, NEW r \in Runners, Poll(r)
  PROVE  \A q \in Runners : pc'[q] # "idle" => job'[q].frame \in sent
<1>0. /\ job \in [Runners -> Jobs] /\ pc \in [Runners -> Stages] /\ job[r] \in Jobs
      /\ \A q \in Runners : pc[q] # "idle" => job[q].frame \in sent
  BY DEF TypeOK, Accounting
<1>1. CASE Rest(r)
  BY <1>0, <1>1 DEF Rest
<1>2. CASE Read(r)
  <2>1. Occupied \in SUBSET Seqs /\ Occupied # {}
    BY <1>2 DEF Read, Occupied
  <2>2. Lowest(Occupied) \in Occupied
    BY <2>1, LowestIsLeast
  <2>3. inbox[Lowest(Occupied)] \in sent
    BY <2>2 DEF Occupied, Accounting, SingleCopy, Queued, TypeOK
  <2>4. OnlyMoves(r) /\ job'[r].frame = inbox[Lowest(Occupied)]
    BY <1>0, <1>2 DEF Read, Goto, OnlyMoves, NoJob
  <2>. QED  BY <1>0, <2>3, <2>4 DEF OnlyMoves
<1>3. CASE ~Rest(r) /\ ~Read(r)
  <2>1. OnlyMoves(r) /\ pc[r] # "idle"
    BY <1>0, <1>3 DEF Poll, Claim, HandleOk, HandleRetryable, HandleFatal, Ack,
                      Count, Bury, Clear, ChooseSeq, Place, Goto, OnlyMoves
  <2>2. job'[r].frame = job[r].frame
    <3>1. CASE job' = job
      BY <3>1
    <3>2. CASE Claim(r)
      BY <1>0, <1>3, <3>2 DEF Claim, Jobs
    <3>3. CASE Count(r) \/ ChooseSeq(r) \/ Place(r)
      <4>1. \/ \E c : job' = [job EXCEPT ![r].count = c]
            \/ \E c : job' = [job EXCEPT ![r].target = c]
            \/ \E c, d : job' = [job EXCEPT ![r].tries = c, ![r].target = d]
        BY <1>3, <3>3 DEF Count, ChooseSeq, Place
      <4>2. ASSUME NEW c, job' = [job EXCEPT ![r].count = c]
            PROVE  job'[r].frame = job[r].frame
        BY <1>0, <4>2 DEF Jobs
      <4>3. ASSUME NEW c, job' = [job EXCEPT ![r].target = c]
            PROVE  job'[r].frame = job[r].frame
        BY <1>0, <4>3 DEF Jobs
      <4>4. ASSUME NEW c, NEW d, job' = [job EXCEPT ![r].tries = c, ![r].target = d]
            PROVE  job'[r].frame = job[r].frame
        BY <1>0, <4>4 DEF Jobs
      <4>. QED  BY <4>1, <4>2, <4>3, <4>4
    <3>. QED
      BY <1>3, <3>1, <3>2, <3>3 DEF Poll, HandleOk, HandleRetryable, HandleFatal,
                                    Ack, Bury, Clear
  <2>. QED  BY <1>0, <2>1, <2>2 DEF OnlyMoves
<1>. QED  BY <1>1, <1>2, <1>3

\* inbox_put of a new message fills an empty key.
LEMMA PutMoves ==
  ASSUME TypeOK, Fencing, NEW m \in Messages, InboxPut(m)
  PROVE  /\ nextSeq \in Seqs /\ m # NoMsg /\ inbox[nextSeq] = NoMsg /\ m \notin sent
         /\ sent' = sent \cup {m}
         /\ UNCHANGED <<dead, settled, drained, handled, failed, pc, job>>
         /\ \A s \in Seqs : inbox'[s] = IF s = nextSeq THEN m ELSE inbox[s]
         /\ \A k \in Messages : Queued(k)' <=> Queued(k) \/ k = m
         /\ \A k : Buried(k)' <=> Buried(k)
<1>1. /\ nextSeq \in Seqs /\ m # NoMsg /\ inbox[nextSeq] = NoMsg /\ m \notin sent
      /\ sent' = sent \cup {m}
      /\ UNCHANGED <<dead, settled, drained, handled, failed, pc, job>>
      /\ \A s \in Seqs : inbox'[s] = IF s = nextSeq THEN m ELSE inbox[s]
  BY MessagesAssumption DEF InboxPut, TypeOK, Fencing, StoreOK, Contiguous, Seqs
<1>2. /\ \A k \in Messages : Queued(k)' <=> Queued(k) \/ k = m
      /\ \A k : Buried(k)' <=> Buried(k)
  BY <1>1, MessagesAssumption DEF Queued, Buried
<1>. QED  BY <1>1, <1>2

\* A message that is put had no account and is queued from then on.
LEMMA PutAccount ==
  ASSUME TypeOK, Fencing, Accounting, NEW m \in Messages, InboxPut(m)
  PROVE  Accounting'
<1>1. /\ nextSeq \in Seqs /\ m # NoMsg /\ m \notin sent
      /\ sent' = sent \cup {m} /\ UNCHANGED <<dead, settled, drained, pc, job>>
      /\ \A s \in Seqs : inbox'[s] = IF s = nextSeq THEN m ELSE inbox[s]
  BY PutMoves
<1>2. ~Queued(m) /\ ~Buried(m) /\ m \notin settled \cup drained
  BY <1>1 DEF Accounting, SingleCopy
<1>3. /\ \A k \in Messages : Queued(k)' <=> Queued(k) \/ k = m
      /\ \A k : Buried(k)' <=> Buried(k)
  BY PutMoves
<1>4. NoMessageLost'
  BY <1>1, <1>3 DEF Accounting, NoMessageLost, TypeOK
<1>5. SingleCopy'
  <2>1. \A s, t \in Seqs : inbox'[s] # NoMsg /\ inbox'[s] = inbox'[t] => s = t
    BY <1>1, <1>2 DEF Accounting, SingleCopy, Queued
  <2>2. \A k \in Messages :
          /\ Queued(k)' => ~Buried(k)'
          /\ Queued(k)' \/ Buried(k)' => k \in sent' \ (settled \cup drained)'
    BY <1>1, <1>2, <1>3 DEF Accounting, SingleCopy
  <2>. QED  BY <1>1, <2>1, <2>2 DEF Accounting, SingleCopy
<1>. QED  BY <1>1, <1>4, <1>5 DEF Accounting

\* A replay moves one message from the dead letters to the inbox.
LEMMA ReplayMoves ==
  ASSUME TypeOK, Accounting, NEW s \in Seqs, NEW to \in Seqs, Replay(s, to)
  PROVE  /\ dead[s] # NoLetter /\ dead[s].msg \in Messages /\ dead[s].msg # NoMsg
         /\ inbox[to] = NoMsg /\ Buried(dead[s].msg) /\ ~Queued(dead[s].msg)
         /\ UNCHANGED <<sent, settled, drained, handled, failed, pc, job>>
         /\ \A u \in Seqs : inbox'[u] = IF u = to THEN dead[s].msg ELSE inbox[u]
         /\ \A u \in Seqs : dead'[u] = IF u = s THEN NoLetter ELSE dead[u]
         /\ \A k \in Messages : Queued(k)' <=> Queued(k) \/ k = dead[s].msg
         /\ \A k \in Messages : Buried(k)' <=> Buried(k) /\ k # dead[s].msg
<1>. DEFINE m == dead[s].msg
<1>1. /\ dead[s] # NoLetter /\ m \in Messages /\ m # NoMsg /\ inbox[to] = NoMsg
      /\ UNCHANGED <<sent, settled, drained, handled, failed, pc, job>>
      /\ \A u \in Seqs : inbox'[u] = IF u = to THEN m ELSE inbox[u]
      /\ \A u \in Seqs : dead'[u] = IF u = s THEN NoLetter ELSE dead[u]
  BY MessagesAssumption DEF Replay, Free, TypeOK, Letters, history
<1>2. Buried(m) /\ ~Queued(m)
  BY <1>1 DEF Accounting, SingleCopy, Buried
<1>. HIDE DEF m
<1>3. \A k \in Messages : Queued(k)' <=> Queued(k) \/ k = m
  BY <1>1, MessagesAssumption DEF Queued
<1>4. \A k \in Messages : Buried(k)' <=> Buried(k) /\ k # m
  <2>1. \A u \in Seqs : dead[u].msg = m => u = s
    <3>1. ASSUME NEW u \in Seqs, dead[u].msg = m PROVE u = s
      <4>1. dead[u] # NoLetter
        BY <1>1, <3>1 DEF NoLetter
      <4>. QED  BY <1>1, <3>1, <4>1 DEF Accounting, SingleCopy, m
    <3>. QED  BY <3>1
  <2>2. NoLetter.msg = NoMsg
    BY DEF NoLetter
  <2>. QED  BY <1>1, <2>1, <2>2, MessagesAssumption DEF Buried, m
<1>. QED  BY <1>1, <1>2, <1>3, <1>4 DEF m

\* It leaves the message one place.
LEMMA ReplayAccount ==
  ASSUME TypeOK, Accounting, NEW s \in Seqs, NEW to \in Seqs, Replay(s, to)
  PROVE  Accounting'
<1>. DEFINE m == dead[s].msg
<1>1. /\ m \in Messages /\ m # NoMsg /\ UNCHANGED <<sent, settled, drained, pc, job>>
      /\ \A u \in Seqs : inbox'[u] = IF u = to THEN m ELSE inbox[u]
      /\ \A u \in Seqs : dead'[u] = IF u = s THEN NoLetter ELSE dead[u]
  BY ReplayMoves
<1>2. Buried(m) /\ ~Queued(m)
  BY ReplayMoves
<1>3. \A k \in Messages : Queued(k)' <=> Queued(k) \/ k = m
  BY ReplayMoves
<1>4. \A k \in Messages : Buried(k)' <=> Buried(k) /\ k # m
  BY ReplayMoves
<1>. HIDE DEF m
<1>5. NoMessageLost'
  BY <1>1, <1>3, <1>4 DEF Accounting, NoMessageLost, TypeOK
<1>6. SingleCopy'
  <2>1. \A u, t \in Seqs : inbox'[u] # NoMsg /\ inbox'[u] = inbox'[t] => u = t
    BY <1>1, <1>2 DEF Accounting, SingleCopy, Queued
  <2>2. \A u, t \in Seqs : dead'[u] # NoLetter /\ dead'[u].msg = dead'[t].msg => u = t
    <3>1. ASSUME NEW u \in Seqs, NEW t \in Seqs, dead'[u] # NoLetter,
                 dead'[u].msg = dead'[t].msg
          PROVE  u = t
      <4>1. u # s /\ dead[u] = dead'[u] /\ dead[u].msg \in Messages
        BY <1>1, <3>1 DEF TypeOK, Letters
      <4>2. t # s
        BY <1>1, <3>1, <4>1, MessagesAssumption DEF NoLetter
      <4>. QED  BY <1>1, <3>1, <4>1, <4>2 DEF Accounting, SingleCopy
    <3>. QED  BY <3>1
  <2>3. \A k \in Messages :
          /\ Queued(k)' => ~Buried(k)'
          /\ Queued(k)' \/ Buried(k)' => k \in sent' \ (settled \cup drained)'
    BY <1>1, <1>2, <1>3, <1>4 DEF Accounting, SingleCopy
  <2>. QED  BY <1>1, <2>1, <2>2, <2>3 DEF Accounting, SingleCopy
<1>. QED  BY <1>1, <1>5, <1>6 DEF Accounting

\* An ack or a burial takes one message out of the inbox.
LEMMA RemoveMoves ==
  ASSUME TypeOK, Fencing, Accounting, NEW s \in Seqs, inbox[s] # NoMsg,
         inbox' = [inbox EXCEPT ![s] = NoMsg]
  PROVE  /\ inbox[s] \in Messages /\ Queued(inbox[s]) /\ dead[s] = NoLetter
         /\ ~Buried(inbox[s]) /\ inbox[s] \in sent /\ inbox[s] \notin settled \cup drained
         /\ \A u \in Seqs : inbox'[u] = IF u = s THEN NoMsg ELSE inbox[u]
         /\ \A k \in Messages : Queued(k)' <=> Queued(k) /\ k # inbox[s]
<1>1. /\ inbox[s] \in Messages /\ Queued(inbox[s]) /\ dead[s] = NoLetter
      /\ \A u \in Seqs : inbox'[u] = IF u = s THEN NoMsg ELSE inbox[u]
  BY DEF TypeOK, Fencing, StoreOK, LettersBelow, Queued
<1>2. ~Buried(inbox[s]) /\ inbox[s] \in sent /\ inbox[s] \notin settled \cup drained
  BY <1>1 DEF Accounting, SingleCopy
<1>3. \A k \in Messages : Queued(k)' <=> Queued(k) /\ k # inbox[s]
  BY <1>1, MessagesAssumption DEF Queued, Accounting, SingleCopy
<1>. QED  BY <1>1, <1>2, <1>3

\* A burial fills the empty dead-letter key of the message.
LEMMA BurialMoves ==
  ASSUME TypeOK, NEW s \in Seqs, dead[s] = NoLetter, inbox[s] \in Messages,
         NEW c \in 0 .. MaxCount,
         dead' = [dead EXCEPT ![s] = [msg |-> inbox[s], attempts |-> c]]
  PROVE  /\ dead'[s].msg = inbox[s] /\ dead'[s] # NoLetter /\ dead[s].msg = NoMsg
         /\ \A u \in Seqs : u # s => dead'[u] = dead[u]
         /\ \A k \in Messages : Buried(k)' <=> Buried(k) \/ k = inbox[s]
<1>1. \A u \in Seqs : dead'[u] = IF u = s THEN [msg |-> inbox[s], attempts |-> c]
                                 ELSE dead[u]
  BY DEF TypeOK
<1>2. dead'[s].msg = inbox[s] /\ dead'[s] # NoLetter /\ dead[s].msg = NoMsg
  BY <1>1, MessagesAssumption DEF NoLetter
<1>3. \A u \in Seqs : u # s => dead'[u] = dead[u]
  BY <1>1
<1>4. \A k \in Messages : Buried(k)' <=> Buried(k) \/ k = inbox[s]
  BY <1>2, <1>3, MessagesAssumption DEF Buried
<1>. QED  BY <1>2, <1>3, <1>4

\* Either gives the message its new place.
LEMMA RemoveAccount ==
  ASSUME TypeOK, Fencing, Accounting, NEW s \in Seqs, inbox[s] # NoMsg,
         inbox' = [inbox EXCEPT ![s] = NoMsg], UNCHANGED <<sent, drained>>,
         \/ settled' = settled \cup {inbox[s]} /\ dead' = dead
         \/ /\ settled' = settled
            /\ \E c \in 0 .. MaxCount :
                 dead' = [dead EXCEPT ![s] = [msg |-> inbox[s], attempts |-> c]],
         \A r \in Runners : pc'[r] # "idle" => job'[r].frame \in sent
  PROVE  Accounting'
<1>. DEFINE m == inbox[s]
<1>1. /\ m \in Messages /\ Queued(m) /\ dead[s] = NoLetter
      /\ \A u \in Seqs : inbox'[u] = IF u = s THEN NoMsg ELSE inbox[u]
  BY RemoveMoves
<1>2. ~Buried(m) /\ m \in sent /\ m \notin settled \cup drained
  BY RemoveMoves
<1>3. \A k \in Messages : Queued(k)' <=> Queued(k) /\ k # m
  BY RemoveMoves
<1>4. \A u, t \in Seqs : inbox'[u] # NoMsg /\ inbox'[u] = inbox'[t] => u = t
  BY <1>1 DEF Accounting, SingleCopy
<1>5. CASE settled' = settled \cup {m} /\ dead' = dead
  <2>1. \A k : Buried(k)' <=> Buried(k)
    BY <1>5 DEF Buried
  <2>2. NoMessageLost'
    BY <1>3, <1>5, <2>1 DEF Accounting, NoMessageLost, TypeOK
  <2>3. SingleCopy'
    BY <1>1, <1>2, <1>3, <1>4, <1>5, <2>1 DEF Accounting, SingleCopy
  <2>. QED  BY <1>2, <1>5, <2>2, <2>3 DEF Accounting
<1>6. ASSUME NEW c \in 0 .. MaxCount, settled' = settled,
             dead' = [dead EXCEPT ![s] = [msg |-> inbox[s], attempts |-> c]]
      PROVE  Accounting'
  <2>2. dead'[s].msg = m /\ dead'[s] # NoLetter /\ dead[s].msg = NoMsg
    BY <1>1, <1>6, BurialMoves
  <2>3. \A u \in Seqs : u # s => dead'[u] = dead[u]
    BY <1>1, <1>6, BurialMoves
  <2>4. \A k \in Messages : Buried(k)' <=> Buried(k) \/ k = m
    BY <1>1, <1>6, BurialMoves
  <2>. HIDE DEF m
  <2>5. \A u \in Seqs : u # s => dead[u].msg # m
    BY <1>2 DEF Buried
  <2>6. \A u, t \in Seqs : dead'[u] # NoLetter /\ dead'[u].msg = dead'[t].msg => u = t
    BY <2>2, <2>3, <2>5 DEF Accounting, SingleCopy
  <2>7. NoMessageLost'
    BY <1>3, <1>6, <2>4 DEF Accounting, NoMessageLost, TypeOK
  <2>8. SingleCopy'
    BY <1>2, <1>3, <1>4, <1>6, <2>4, <2>6 DEF Accounting, SingleCopy
  <2>. QED  BY <1>6, <2>7, <2>8 DEF Accounting
<1>. QED  BY <1>5, <1>6

\* A message that moves from one key of the inbox to an empty one stays queued.
LEMMA PlaceMoves ==
  ASSUME TypeOK, Accounting, NEW s \in Seqs, NEW to \in Seqs,
         inbox[s] # NoMsg, inbox[to] = NoMsg,
         inbox' = [inbox EXCEPT ![to] = inbox[s], ![s] = NoMsg]
  PROVE  \A k \in Messages : Queued(k)' <=> Queued(k)
<1>0. PICK m : m = inbox[s]
  OBVIOUS
<1>1. /\ m \in Messages /\ s # to
      /\ \A u \in Seqs : inbox'[u] = IF u = s THEN NoMsg
                                     ELSE IF u = to THEN m ELSE inbox[u]
  BY <1>0 DEF TypeOK
<1>2. \A k \in Messages : Queued(k)' <=> Queued(k)
  <2>1. Queued(m) /\ Queued(m)'
    BY <1>0, <1>1 DEF Queued
  <2>2. ASSUME NEW k \in Messages, k # m PROVE Queued(k)' <=> Queued(k)
    <3>1. \A u \in Seqs : inbox'[u] = k <=> inbox[u] = k
      BY <1>0, <1>1, <2>2, MessagesAssumption
    <3>. QED  BY <3>1 DEF Queued
  <2>. QED  BY <2>1, <2>2
<1>. QED  BY <1>2

\* So it keeps its account.
LEMMA MoveAccount ==
  ASSUME TypeOK, Accounting, NEW s \in Seqs, NEW to \in Seqs,
         inbox[s] # NoMsg, inbox[to] = NoMsg,
         inbox' = [inbox EXCEPT ![to] = inbox[s], ![s] = NoMsg],
         UNCHANGED <<dead, sent, settled, drained>>,
         \A r \in Runners : pc'[r] # "idle" => job'[r].frame \in sent
  PROVE  Accounting'
<1>0. PICK m : m = inbox[s]
  OBVIOUS
<1>1. /\ m \in Messages /\ s # to
      /\ \A u \in Seqs : inbox'[u] = IF u = s THEN NoMsg
                                     ELSE IF u = to THEN m ELSE inbox[u]
  BY <1>0 DEF TypeOK
<1>2. \A u \in Seqs : inbox[u] = m => u = s
  BY <1>0 DEF Accounting, SingleCopy
<1>3. \A k \in Messages : Queued(k)' <=> Queued(k)
  BY PlaceMoves
<1>4. \A k : Buried(k)' <=> Buried(k)
  BY DEF Buried
<1>5. \A u, t \in Seqs : inbox'[u] # NoMsg /\ inbox'[u] = inbox'[t] => u = t
  BY <1>0, <1>1, <1>2 DEF Accounting, SingleCopy
<1>6. NoMessageLost'
  BY <1>3, <1>4 DEF Accounting, NoMessageLost, TypeOK
<1>7. SingleCopy'
  BY <1>3, <1>4, <1>5 DEF Accounting, SingleCopy
<1>. QED  BY <1>6, <1>7 DEF Accounting

\* A drained dead letter leaves the store.
LEMMA DrainMoves ==
  ASSUME TypeOK, Accounting, StillThere, drain.letter # NoLetter,
         dead' = [dead EXCEPT ![drain.seq] = NoLetter], UNCHANGED inbox
  PROVE  /\ drain.seq \in Seqs /\ drain.letter.msg \in Messages
         /\ dead[drain.seq] # NoLetter /\ dead[drain.seq].msg = drain.letter.msg
         /\ \A u \in Seqs : dead'[u] = IF u = drain.seq THEN NoLetter ELSE dead[u]
         /\ Buried(drain.letter.msg) /\ ~Queued(drain.letter.msg)
         /\ drain.letter.msg \in sent /\ drain.letter.msg \notin settled \cup drained
         /\ \A k \in Messages : Buried(k)' <=> Buried(k) /\ k # drain.letter.msg
         /\ \A k : Queued(k)' <=> Queued(k)
<1>. DEFINE s == drain.seq
            m == drain.letter.msg
<1>0. s \in Seqs
  BY DEF TypeOK
<1>1. dead[s].msg = m /\ dead[s] # NoLetter /\ m \in Messages
  BY <1>0 DEF StillThere, TypeOK, Letters
<1>2. \A u \in Seqs : dead'[u] = IF u = s THEN NoLetter ELSE dead[u]
  BY <1>0 DEF TypeOK
<1>3. \A u \in Seqs : dead[u].msg = m => u = s
  <2>. HIDE DEF m, s
  <2>. QED  BY <1>0, <1>1 DEF Accounting, SingleCopy
<1>4. Buried(m) /\ ~Queued(m) /\ m \in sent /\ m \notin settled \cup drained
  <2>. HIDE DEF m, s
  <2>. QED  BY <1>0, <1>1 DEF Buried, Accounting, SingleCopy
<1>5. \A k \in Messages : Buried(k)' <=> Buried(k) /\ k # m
  <2>1. NoLetter.msg \notin Messages
    BY MessagesAssumption DEF NoLetter
  <2>. HIDE DEF m, s
  <2>. QED  BY <1>0, <1>1, <1>2, <1>3, <2>1 DEF Buried
<1>6. \A k : Queued(k)' <=> Queued(k)
  BY DEF Queued
<1>. QED  BY <1>0, <1>1, <1>2, <1>4, <1>5, <1>6

\* It has its place among the drained ones.
LEMMA DrainAccount ==
  ASSUME TypeOK, Accounting, DrainDelete
  PROVE  Accounting'
<1>. DEFINE s == drain.seq
            m == drain.letter.msg
<1>0. s \in Seqs /\ UNCHANGED <<inbox, sent, settled, pc, job>>
  BY DEF DrainDelete, TypeOK
<1>1. CASE UNCHANGED <<dead, drained>>
  BY <1>0, <1>1, SameAccount DEF Accounting
<1>2. CASE /\ StillThere /\ drain.letter # NoLetter
           /\ dead' = [dead EXCEPT ![s] = NoLetter]
           /\ drained' = drained \cup {m}
  <2>1. dead[s].msg = m /\ dead[s] # NoLetter /\ m \in Messages
    BY <1>0, <1>2, DrainMoves
  <2>2. \A u \in Seqs : dead'[u] = IF u = s THEN NoLetter ELSE dead[u]
    BY <1>0, <1>2, DrainMoves
  <2>4. Buried(m) /\ ~Queued(m) /\ m \in sent /\ m \notin settled \cup drained
    BY <1>0, <1>2, DrainMoves
  <2>5. \A k \in Messages : Buried(k)' <=> Buried(k) /\ k # m
    BY <1>0, <1>2, DrainMoves
  <2>6. \A k : Queued(k)' <=> Queued(k)
    BY <1>0, <1>2, DrainMoves
  <2>. HIDE DEF m, s
  <2>7. \A u, t \in Seqs : dead'[u] # NoLetter /\ dead'[u].msg = dead'[t].msg => u = t
    <3>1. ASSUME NEW u \in Seqs, NEW t \in Seqs, dead'[u] # NoLetter,
                 dead'[u].msg = dead'[t].msg
          PROVE  u = t
      <4>1. u # s /\ dead[u] = dead'[u] /\ dead[u].msg \in Messages
        BY <2>2, <3>1 DEF TypeOK, Letters
      <4>2. t # s
        BY <2>2, <3>1, <4>1, MessagesAssumption DEF NoLetter
      <4>. QED  BY <2>2, <3>1, <4>1, <4>2 DEF Accounting, SingleCopy
    <3>. QED  BY <3>1
  <2>8. NoMessageLost'
    BY <1>0, <1>2, <2>5, <2>6 DEF Accounting, NoMessageLost, TypeOK
  <2>9. SingleCopy'
    BY <1>0, <1>2, <2>4, <2>5, <2>6, <2>7 DEF Accounting, SingleCopy
  <2>. QED  BY <1>0, <1>2, <2>4, <2>8, <2>9 DEF Accounting
<1>. QED  BY <1>1, <1>2 DEF DrainDelete

\* What producers, replays and drains do keeps the account.
LEMMA CallersAccounting ==
  ASSUME Coordinated, TypeOK, Fencing, Accounting, Tick \/ Callers
  PROVE  Accounting'
<1>0. \A r \in Runners : pc[r] # "idle" => job[r].frame \in sent
  BY DEF Accounting
<1>1. CASE Tick
  BY <1>0, <1>1, SameAccount DEF Tick, store, history
<1>2. ASSUME NEW m \in Messages, InboxPut(m) PROVE Accounting'
  BY <1>2, PutAccount
<1>3. ASSUME NEW s \in Seqs, NEW to \in ReplaySeqs, Replay(s, to) PROVE Accounting'
  <2>1. to \in Seqs
    BY <1>3 DEF Replay, ReplaySeqs, TypeOK, Seqs
  <2>. QED  BY <1>3, <2>1, ReplayAccount
<1>4. CASE DrainRead
  BY <1>0, <1>4, SameAccount DEF DrainRead, store, history
<1>5. CASE DrainDelete
  BY <1>5, DrainAccount
<1>. QED  BY <1>1, <1>2, <1>3, <1>4, <1>5 DEF Callers

\* Every step of the poll loop keeps the account.
LEMMA PollAccounting ==
  ASSUME TypeOK, Fencing, Accounting, NEW r \in Runners, Poll(r)
  PROVE  Accounting'
<1>0. /\ job[r].seq \in Seqs /\ job[r].target \in Seqs /\ job[r].count \in 0 .. MaxCount
      /\ \A q \in Runners : pc'[q] # "idle" => job'[q].frame \in sent
  BY FramesAfterPoll DEF TypeOK, Jobs
<1>1. CASE UNCHANGED <<inbox, dead, sent, settled, drained>>
  BY <1>0, <1>1, SameAccount
<1>2. CASE Ack(r) /\ ~UNCHANGED <<inbox, dead, sent, settled, drained>>
  BY <1>0, <1>2, RemoveAccount DEF Ack
<1>3. CASE Bury(r) /\ ~UNCHANGED <<inbox, dead, sent, settled, drained>>
  BY <1>0, <1>3, RemoveAccount DEF Bury, history
<1>4. CASE Place(r) /\ ~UNCHANGED <<inbox, dead, sent, settled, drained>>
  BY <1>0, <1>4, MoveAccount DEF Place, Free, history
<1>5. CASE ~(Ack(r) \/ Bury(r) \/ Place(r))
  BY <1>1, <1>5 DEF Poll, Read, Claim, HandleOk, HandleRetryable, HandleFatal,
                    Count, Clear, ChooseSeq, store, history
<1>. QED  BY <1>1, <1>2, <1>3, <1>4, <1>5

\* The whole inductive invariant.
THEOREM InvariantHolds == ASSUME Coordinated PROVE Spec => []IInv
<1>1. Init => Accounting
  BY InitAccounting
<1>2. TypeOK /\ Fencing /\ Accounting /\ [Next]_vars => Accounting'
  <2>. SUFFICES ASSUME TypeOK, Fencing, Accounting, [Next]_vars PROVE Accounting'
    OBVIOUS
  <2>1. CASE UNCHANGED vars
    BY <2>1, SameAccount DEF vars, store, history, Accounting
  <2>2. CASE Next
    BY <2>2, CallersAccounting, PollAccounting DEF Next
  <2>. QED  BY <2>1, <2>2
<1>3. TypeOK /\ Fencing /\ Accounting => IInv
  BY DEF IInv
<1>. QED  BY <1>1, <1>2, <1>3, FencingHolds, PTL DEF Spec

\* With coordinated callers no interleaving loses a message ...
THEOREM MessagesKept == ASSUME Coordinated PROVE Spec => []NoMessageLost
<1>1. IInv => NoMessageLost
  BY DEF IInv, Accounting
<1>. QED  BY <1>1, InvariantHolds, PTL

\* ... or duplicates one.
THEOREM MessagesSingle == ASSUME Coordinated PROVE Spec => []SingleCopy
<1>1. IInv => SingleCopy
  BY DEF IInv, Accounting
<1>. QED  BY <1>1, InvariantHolds, PTL

---------------------------------------------------------------------------
(* Dispositions: a message is acknowledged only once its own handler has    *)
(* succeeded, and buried only once it has failed as often as the budget     *)
(* allows.  The retry count of a message lags behind its failures by the    *)
(* runners that have yet to count theirs.                                   *)

\* Runners whose handler has failed on m and that have not counted it yet.
Counting(m) == {r \in Runners : pc[r] = "count" /\ job[r].frame = m}

\* No failure is counted twice, though counting is a transaction of its own.
Budgeted ==
  \A m \in Messages :
    /\ IsFiniteSet(Counting(m))
    /\ failed[m] = RetryBudget \/ retry[m] + Cardinality(Counting(m)) <= failed[m]

\* What a runner decided after its handler stays justified until it acts on it.
Earned(r) ==
  /\ pc[r] = "ack" => job[r].frame \in handled
  /\ pc[r] = "bury" => failed[job[r].frame] = RetryBudget

Justified == Budgeted /\ \A r \in Runners : Earned(r)

\* Nobody has handled anything yet.
LEMMA InitJustified == Init => Justified
<1>. SUFFICES ASSUME Init PROVE Justified
  OBVIOUS
<1>1. \A m : Counting(m) = {}
  BY DEF Init, Counting
<1>. QED  BY <1>1, FS_EmptySet DEF Init, Justified, Budgeted, Earned

\* Where a runner goes says who is counting after its step.
LEMMA CountingAfter ==
  ASSUME NEW r \in Runners, OnlyMoves(r), NEW m
  PROVE  /\ pc'[r] = "count" /\ job'[r].frame = m => Counting(m)' = Counting(m) \cup {r}
         /\ ~(pc'[r] = "count" /\ job'[r].frame = m) => Counting(m)' = Counting(m) \ {r}
BY DEF OnlyMoves, Counting

\* The sizes that go with it.
LEMMA CountingSize ==
  ASSUME NEW r \in Runners, NEW m \in Messages, Budgeted
  PROVE  /\ Cardinality(Counting(m)) \in Nat
         /\ IsFiniteSet(Counting(m) \cup {r}) /\ IsFiniteSet(Counting(m) \ {r})
         /\ Cardinality(Counting(m) \cup {r}) =
              Cardinality(Counting(m)) + (IF r \in Counting(m) THEN 0 ELSE 1)
         /\ Cardinality(Counting(m) \ {r}) =
              Cardinality(Counting(m)) - (IF r \in Counting(m) THEN 1 ELSE 0)
<1>1. IsFiniteSet(Counting(m))
  BY DEF Budgeted
<1>. QED  BY <1>1, FS_CardinalityType, FS_AddElement, FS_RemoveElement

\* A step that fails nobody and counts nothing.
LEMMA QuietStep ==
  ASSUME TypeOK, TypeOK', Budgeted, UNCHANGED failed,
         NEW r \in Runners, OnlyMoves(r), pc'[r] # "count",
         \A m \in Messages :
           \/ retry'[m] <= retry[m]
           \/ retry'[m] = retry[m] + 1 /\ r \in Counting(m)
  PROVE  Budgeted'
<1>. SUFFICES ASSUME NEW m \in Messages
              PROVE  /\ IsFiniteSet(Counting(m)')
                     /\ \/ failed'[m] = RetryBudget
                        \/ retry'[m] + Cardinality(Counting(m)') <= failed'[m]
  BY DEF Budgeted
<1>1. Counting(m)' = Counting(m) \ {r}
  BY CountingAfter
<1>2. /\ Cardinality(Counting(m)) \in Nat /\ IsFiniteSet(Counting(m) \ {r})
      /\ Cardinality(Counting(m) \ {r}) =
           Cardinality(Counting(m)) - (IF r \in Counting(m) THEN 1 ELSE 0)
  BY CountingSize
<1>3. retry[m] \in Nat /\ retry'[m] \in Nat /\ failed[m] \in Nat
  BY PolicyAssumption, BoundsAssumption DEF TypeOK
<1>4. failed[m] = RetryBudget \/ retry[m] + Cardinality(Counting(m)) <= failed[m]
  BY DEF Budgeted
<1>. QED  BY <1>1, <1>2, <1>3, <1>4

\* A retryable failure is owed one count.
LEMMA FailureOwed ==
  ASSUME TypeOK, TypeOK', Budgeted, NEW r \in Runners, HandleRetryable(r)
  PROVE  Budgeted'
<1>. SUFFICES ASSUME NEW m \in Messages
              PROVE  /\ IsFiniteSet(Counting(m)')
                     /\ \/ failed'[m] = RetryBudget
                        \/ retry'[m] + Cardinality(Counting(m)') <= failed'[m]
  BY DEF Budgeted
<1>1. /\ OnlyMoves(r) /\ pc'[r] = "count" /\ job' = job /\ retry' = retry
      /\ r \notin Counting(m)
  BY DEF HandleRetryable, Goto, OnlyMoves, TypeOK, store, Counting
<1>2. /\ Cardinality(Counting(m)) \in Nat
      /\ IsFiniteSet(Counting(m) \cup {r}) /\ IsFiniteSet(Counting(m) \ {r})
      /\ Cardinality(Counting(m) \cup {r}) = Cardinality(Counting(m)) + 1
      /\ Cardinality(Counting(m) \ {r}) = Cardinality(Counting(m))
  BY <1>1, CountingSize
<1>3. /\ retry[m] \in Nat /\ failed[m] \in 0 .. RetryBudget
      /\ failed[m] = RetryBudget \/ retry[m] + Cardinality(Counting(m)) <= failed[m]
  BY DEF TypeOK, Budgeted
<1>4. CASE m = job[r].frame
  <2>1. Counting(m)' = Counting(m) \cup {r}
    BY <1>1, <1>4, CountingAfter
  <2>2. failed'[m] = IF failed[m] < RetryBudget THEN failed[m] + 1 ELSE failed[m]
    BY <1>4 DEF HandleRetryable, TypeOK
  <2>. QED  BY <1>1, <1>2, <1>3, <2>1, <2>2, PolicyAssumption
<1>5. CASE m # job[r].frame
  <2>1. Counting(m)' = Counting(m) \ {r}
    BY <1>1, <1>5, CountingAfter
  <2>2. failed'[m] = failed[m]
    BY <1>5 DEF HandleRetryable, TypeOK
  <2>. QED  BY <1>1, <1>2, <1>3, <2>1, <2>2
<1>. QED  BY <1>4, <1>5

\* Every step of the poll loop keeps counts behind failures.
LEMMA PollBudgeted ==
  ASSUME TypeOK, TypeOK', Budgeted, NEW r \in Runners, Poll(r)
  PROVE  Budgeted'
<1>0. OnlyMoves(r)
  BY DEF TypeOK, OnlyMoves, Poll, Read, Claim, HandleOk, HandleRetryable, HandleFatal,
         Ack, Count, Bury, Clear, ChooseSeq, Place, Goto, Rest
<1>1. CASE HandleRetryable(r)
  BY <1>1, FailureOwed
<1>2. CASE Count(r)
  <2>1. pc'[r] # "count" /\ UNCHANGED failed
    BY <1>2 DEF Count, Goto, Rest, TypeOK, history
  <2>2. ASSUME NEW m \in Messages
        PROVE  retry'[m] <= retry[m] \/ (retry'[m] = retry[m] + 1 /\ r \in Counting(m))
    <3>1. retry[m] \in Nat /\ pc[r] = "count"
      BY <1>2 DEF TypeOK, Count
    <3>2. retry' = retry \/ retry' = [retry EXCEPT ![job[r].frame] = @ + 1]
      BY <1>2 DEF Count
    <3>. QED  BY <3>1, <3>2 DEF Counting, TypeOK
  <2>. QED  BY <1>0, <2>1, <2>2, QuietStep
<1>3. CASE Clear(r)
  <2>1. pc'[r] # "count" /\ UNCHANGED failed
    BY <1>3 DEF Clear, Rest, TypeOK, history
  <2>2. \A m \in Messages : retry'[m] <= retry[m]
    BY <1>3 DEF Clear, TypeOK
  <2>. QED  BY <1>0, <2>1, <2>2, QuietStep
<1>4. CASE ~(HandleRetryable(r) \/ Count(r) \/ Clear(r))
  <2>1. pc'[r] # "count" /\ UNCHANGED <<retry, failed>>
    BY <1>4 DEF Poll, Read, Claim, HandleOk, HandleFatal, Ack, Bury, ChooseSeq, Place,
                Goto, Rest, TypeOK, store, history
  <2>2. \A m \in Messages : retry'[m] <= retry[m]
    BY <2>1 DEF TypeOK
  <2>. QED  BY <1>0, <2>1, <2>2, QuietStep
<1>. QED  BY <1>1, <1>2, <1>3, <1>4

\* A count that uses up the budget counts failures that have happened.
LEMMA SpentIsFailed ==
  ASSUME TypeOK, Budgeted, NEW r \in Runners, pc[r] = "count",
         Spent(retry[job[r].frame] + 1)
  PROVE  failed[job[r].frame] = RetryBudget
<1>. DEFINE m == job[r].frame
<1>1. m \in Messages /\ r \in Counting(m)
  BY DEF TypeOK, Counting
<1>. HIDE DEF m
<1>2. IsFiniteSet(Counting(m)) /\ Cardinality(Counting(m)) \in Nat
      /\ Cardinality(Counting(m)) # 0
  BY <1>1, FS_CardinalityType, FS_EmptySet DEF Budgeted
<1>3. retry[m] \in Nat /\ failed[m] \in 0 .. RetryBudget
  BY <1>1 DEF TypeOK
<1>4. retry[m] + 1 >= RetryBudget
  BY DEF Spent, m
<1>5. failed[m] = RetryBudget
  BY <1>1, <1>2, <1>3, <1>4, PolicyAssumption DEF Budgeted
<1>. QED  BY <1>5 DEF m

\* Every step of the poll loop keeps decisions justified.
LEMMA PollEarned ==
  ASSUME TypeOK, TypeOK', Justified, NEW r \in Runners, Poll(r), NEW q \in Runners
  PROVE  Earned(q)'
<1>0. /\ OnlyMoves(r) /\ handled \subseteq handled' /\ Earned(q)
      /\ pc'[q] \in {"ack", "bury"} => job'[q].frame \in Messages
  <2>1. OnlyMoves(r) /\ handled \subseteq handled'
    BY DEF TypeOK, OnlyMoves, Poll, Read, Claim, HandleOk, HandleRetryable, HandleFatal,
           Ack, Count, Bury, Clear, ChooseSeq, Place, Goto, Rest, history
  <2>. QED  BY <2>1 DEF TypeOK, Justified
<1>1. \A m \in Messages : failed[m] = RetryBudget => failed'[m] = RetryBudget
  <2>1. CASE HandleRetryable(r)
    BY <2>1, PolicyAssumption DEF HandleRetryable, TypeOK
  <2>2. CASE ~HandleRetryable(r)
    BY <2>2 DEF Poll, Read, Claim, HandleOk, HandleFatal, Ack, Count, Bury, Clear,
                ChooseSeq, Place, history
  <2>. QED  BY <2>1, <2>2
<1>2. CASE q # r
  <2>1. pc'[q] = pc[q] /\ job'[q] = job[q]
    BY <1>0, <1>2 DEF OnlyMoves
  <2>. QED  BY <1>0, <1>1, <2>1 DEF Earned
<1>3. CASE q = r
  <2>1. CASE HandleOk(r)
    BY <1>3, <2>1 DEF HandleOk, Goto, Earned, TypeOK
  <2>2. CASE Count(r) /\ pc'[r] = "bury"
    <3>1. Spent(retry[job[r].frame] + 1) /\ pc[r] = "count"
      BY <2>2 DEF Count, Goto, Rest, TypeOK
    <3>2. failed[job[r].frame] = RetryBudget
      BY <3>1, SpentIsFailed DEF Justified
    <3>3. job[r] \in Jobs /\ job' = [job EXCEPT ![r].count = retry[job[r].frame] + 1]
      BY <2>2 DEF Count, Rest, TypeOK
    <3>4. job'[r].frame = job[r].frame
      BY <3>3 DEF Jobs, TypeOK
    <3>. QED  BY <1>0, <1>1, <1>3, <2>2, <3>2, <3>4 DEF Earned
  <2>3. CASE ~HandleOk(r) /\ ~(Count(r) /\ pc'[r] = "bury")
    <3>1. pc'[r] \notin {"ack", "bury"}
      BY <2>3 DEF Poll, Read, Claim, HandleRetryable, HandleFatal, Ack, Count, Bury, Clear,
                  ChooseSeq, Place, Goto, Rest, TypeOK
    <3>. QED  BY <1>3, <3>1 DEF Earned
  <2>. QED  BY <2>1, <2>2, <2>3
<1>. QED  BY <1>2, <1>3

\* Decisions stay justified, whoever numbers the messages.
THEOREM DispositionsJustified == Spec => []Justified
<1>1. Init => Justified
  BY InitJustified
<1>2. TypeOK /\ TypeOK' /\ Justified /\ [Next]_vars => Justified'
  <2>. SUFFICES ASSUME TypeOK, TypeOK', Justified, [Next]_vars PROVE Justified'
    OBVIOUS
  <2>1. CASE UNCHANGED vars \/ Tick \/ Callers
    <3>1. UNCHANGED <<retry, pc, job, handled, failed>>
      BY <2>1 DEF vars, store, history, Tick, Callers, InboxPut, Replay, DrainRead,
                  DrainDelete
    <3>. QED  BY <3>1 DEF Justified, Budgeted, Counting, Earned
  <2>2. ASSUME NEW r \in Runners, Poll(r) PROVE Justified'
    BY <2>2, PollBudgeted, PollEarned DEF Justified
  <2>. QED  BY <2>1, <2>2 DEF Next
<1>. QED  BY <1>1, <1>2, TypeCorrect, PTL DEF Spec

---------------------------------------------------------------------------
(* The mailbox implements the ledger: each step moves one message from one  *)
(* place to another, records a handler's result, or is invisible.           *)

\* The account of a message is its place in the ledger.
LEMMA PlaceMeans ==
  ASSUME Accounting, NEW m \in Messages
  PROVE  /\ PlaceOf(m) = "unsent" <=> m \notin sent
         /\ Queued(m) => PlaceOf(m) = "queued"
         /\ Buried(m) => PlaceOf(m) = "dead"
BY DEF Accounting, SingleCopy, PlaceOf

\* The same of the state after a step, with the places nothing comes back from.
LEMMA PlaceMeansAfter ==
  ASSUME Accounting', NEW m \in Messages
  PROVE  /\ Queued(m)' => PlaceOf(m)' = "queued"
         /\ Buried(m)' => PlaceOf(m)' = "dead"
         /\ m \in settled' => PlaceOf(m)' = "settled"
         /\ m \in drained' => PlaceOf(m)' = "drained"
BY DEF Accounting, SingleCopy, PlaceOf

\* A message whose account does not change keeps its place.
LEMMA PlaceKept ==
  ASSUME NEW m \in Messages, m \in sent' <=> m \in sent,
         m \in settled' <=> m \in settled, m \in drained' <=> m \in drained,
         Queued(m)' <=> Queued(m), Buried(m)' <=> Buried(m)
  PROVE  PlaceOf(m)' = PlaceOf(m)
BY DEF PlaceOf

\* One message changes its place: a move of the ledger.
LEMMA LedgerMove ==
  ASSUME NEW m \in Messages, NEW from, NEW to,
         PlaceOf(m) = from, PlaceOf(m)' = to,
         \A k \in Messages : k # m => PlaceOf(k)' = PlaceOf(k),
         UNCHANGED <<handled, failed>>
  PROVE  Ledger!Move(m, from, to)
BY DEF Ledger!Move

\* No message does.
LEMMA LedgerStill ==
  ASSUME UNCHANGED <<inbox, dead, sent, settled, drained>>
  PROVE  UNCHANGED [m \in Messages |-> PlaceOf(m)]
<1>1. \A m : (Queued(m)' <=> Queued(m)) /\ (Buried(m)' <=> Buried(m))
  BY DEF Queued, Buried
<1>2. \A m \in Messages : PlaceOf(m)' = PlaceOf(m)
  BY <1>1, PlaceKept
<1>. QED  BY <1>2

\* inbox_put sends.
LEMMA PutSends ==
  ASSUME TypeOK, Fencing, Accounting, Accounting', NEW m \in Messages, InboxPut(m)
  PROVE  Ledger!Send(m)
<1>1. /\ m \notin sent /\ sent' = sent \cup {m}
      /\ UNCHANGED <<settled, drained, handled, failed>>
      /\ \A k \in Messages : Queued(k)' <=> Queued(k) \/ k = m
      /\ \A k \in Messages : Buried(k)' <=> Buried(k)
  BY PutMoves
<1>2. PlaceOf(m) = "unsent" /\ PlaceOf(m)' = "queued"
  BY <1>1, PlaceMeans, PlaceMeansAfter
<1>3. \A k \in Messages : k # m => PlaceOf(k)' = PlaceOf(k)
  BY <1>1, PlaceKept
<1>4. Ledger!Move(m, "unsent", "queued")
  BY <1>1, <1>2, <1>3, LedgerMove
<1>. QED  BY <1>4 DEF Ledger!Send

\* A replay of a dead letter replays its message.
LEMMA ReplayReplays ==
  ASSUME TypeOK, Accounting, Accounting', NEW s \in Seqs, NEW to \in Seqs, Replay(s, to)
  PROVE  \E m \in Messages : Ledger!Replay(m)
<1>0. PICK m : m = dead[s].msg
  OBVIOUS
<1>1. /\ m \in Messages /\ Buried(m)
      /\ UNCHANGED <<sent, settled, drained, handled, failed>>
      /\ \A k \in Messages : Queued(k)' <=> Queued(k) \/ k = m
      /\ \A k \in Messages : Buried(k)' <=> Buried(k) /\ k # m
  BY <1>0, ReplayMoves
<1>2. PlaceOf(m) = "dead" /\ PlaceOf(m)' = "queued"
  BY <1>1, PlaceMeans, PlaceMeansAfter
<1>3. \A k \in Messages : k # m => PlaceOf(k)' = PlaceOf(k)
  BY <1>1, PlaceKept
<1>4. Ledger!Move(m, "dead", "queued")
  BY <1>1, <1>2, <1>3, LedgerMove
<1>. QED  BY <1>1, <1>4 DEF Ledger!Replay

\* A drain drains, or changes nothing.
LEMMA DrainDrains ==
  ASSUME TypeOK, Accounting, Accounting', DrainDelete
  PROVE  (\E m \in Messages : Ledger!Drain(m)) \/ UNCHANGED Ledger!vars
<1>0. PICK m : m = drain.letter.msg
  OBVIOUS
<1>1. UNCHANGED <<inbox, sent, settled, handled, failed>>
  BY DEF DrainDelete
<1>2. CASE UNCHANGED <<dead, drained>>
  BY <1>1, <1>2, LedgerStill DEF Ledger!vars
<1>3. CASE /\ StillThere /\ drain.letter # NoLetter
           /\ dead' = [dead EXCEPT ![drain.seq] = NoLetter]
           /\ drained' = drained \cup {m}
  <2>1. /\ m \in Messages /\ Buried(m)
        /\ \A k \in Messages : Buried(k)' <=> Buried(k) /\ k # m
        /\ \A k \in Messages : Queued(k)' <=> Queued(k)
    BY <1>0, <1>1, <1>3, DrainMoves
  <2>2. PlaceOf(m) = "dead" /\ PlaceOf(m)' = "drained"
    BY <1>3, <2>1, PlaceMeans, PlaceMeansAfter
  <2>3. \A k \in Messages : k # m => PlaceOf(k)' = PlaceOf(k)
    BY <1>1, <1>3, <2>1, PlaceKept
  <2>4. Ledger!Move(m, "dead", "drained")
    BY <1>1, <2>1, <2>2, <2>3, LedgerMove
  <2>. QED  BY <2>1, <2>4 DEF Ledger!Drain
<1>. QED  BY <1>0, <1>2, <1>3 DEF DrainDelete

\* The frame a runner holds is the message under its key.
LEMMA OwnersFrame ==
  ASSUME TypeOK, Fencing, NEW r \in Runners, Holding(r), inbox[job[r].seq] # NoMsg
  PROVE  inbox[job[r].seq] = job[r].frame
BY DEF Fencing, RunnerOK, FrameOK, Holding

\* An ack settles a message whose own handler has succeeded.
LEMMA AckSettles ==
  ASSUME TypeOK, Fencing, Accounting, Accounting', NEW r \in Runners, Earned(r), Ack(r)
  PROVE  (\E m \in Messages : Ledger!Settle(m)) \/ UNCHANGED Ledger!vars
<1>. DEFINE s == job[r].seq
<1>0. /\ UNCHANGED <<dead, sent, drained, handled, failed>>
      /\ pc[r] = "ack" /\ s \in Seqs
  BY DEF Ack, TypeOK, Jobs
<1>1. PICK m : m = inbox[s]
  OBVIOUS
<1>2. CASE UNCHANGED <<inbox, lease, settled>>
  BY <1>0, <1>2, LedgerStill DEF Ledger!vars
<1>3. CASE /\ inbox[s] # NoMsg /\ settled' = settled \cup {inbox[s]}
           /\ inbox' = [inbox EXCEPT ![s] = NoMsg]
  <2>1. /\ m \in Messages /\ Queued(m)
        /\ \A k \in Messages : Queued(k)' <=> Queued(k) /\ k # m
    BY <1>0, <1>1, <1>3, RemoveMoves
  <2>2. m \in handled
    BY <1>0, <1>1, <1>3, OwnersFrame DEF Earned, Holding
  <2>3. \A k : Buried(k)' <=> Buried(k)
    BY <1>0 DEF Buried
  <2>4. settled' = settled \cup {m}
    BY <1>1, <1>3
  <2>5. PlaceOf(m) = "queued" /\ PlaceOf(m)' = "settled"
    BY <2>1, <2>4, PlaceMeans, PlaceMeansAfter
  <2>6. \A k \in Messages : k # m => PlaceOf(k)' = PlaceOf(k)
    BY <1>0, <2>1, <2>3, <2>4, PlaceKept
  <2>7. Ledger!Move(m, "queued", "settled")
    BY <1>0, <2>1, <2>5, <2>6, LedgerMove
  <2>. QED  BY <2>1, <2>2, <2>7 DEF Ledger!Settle
<1>. QED  BY <1>2, <1>3 DEF Ack

\* A burial buries a message that has failed RetryBudget times.
LEMMA BuryBuries ==
  ASSUME TypeOK, Fencing, Accounting, Accounting', NEW r \in Runners, Earned(r), Bury(r)
  PROVE  (\E m \in Messages : Ledger!Bury(m)) \/ UNCHANGED Ledger!vars
<1>. DEFINE s == job[r].seq
<1>0. /\ UNCHANGED <<sent, settled, drained, handled, failed>>
      /\ pc[r] = "bury" /\ s \in Seqs /\ job[r].count \in 0 .. MaxCount
  BY DEF Bury, TypeOK, Jobs, history
<1>1. PICK m : m = inbox[s]
  OBVIOUS
<1>2. CASE UNCHANGED <<inbox, lease, dead>>
  BY <1>0, <1>2, LedgerStill DEF Ledger!vars
<1>3. CASE /\ inbox[s] # NoMsg
           /\ dead' = [dead EXCEPT ![s] = [msg |-> inbox[s], attempts |-> job[r].count]]
           /\ inbox' = [inbox EXCEPT ![s] = NoMsg]
  <2>1. /\ m \in Messages /\ Queued(m) /\ dead[s] = NoLetter
        /\ \A k \in Messages : Queued(k)' <=> Queued(k) /\ k # m
    BY <1>0, <1>1, <1>3, RemoveMoves
  <2>2. \A k \in Messages : Buried(k)' <=> Buried(k) \/ k = m
    BY <1>0, <1>1, <1>3, <2>1, BurialMoves
  <2>3. failed[m] = RetryBudget
    BY <1>0, <1>1, <1>3, OwnersFrame DEF Earned, Holding
  <2>4. PlaceOf(m) = "queued" /\ PlaceOf(m)' = "dead"
    BY <2>1, <2>2, PlaceMeans, PlaceMeansAfter
  <2>5. \A k \in Messages : k # m => PlaceOf(k)' = PlaceOf(k)
    BY <1>0, <2>1, <2>2, PlaceKept
  <2>6. Ledger!Move(m, "queued", "dead")
    BY <1>0, <2>1, <2>4, <2>5, LedgerMove
  <2>. QED  BY <2>1, <2>3, <2>6 DEF Ledger!Bury
<1>. QED  BY <1>2, <1>3 DEF Bury

\* A requeue leaves the message queued.
LEMMA PlaceHides ==
  ASSUME TypeOK, Accounting, NEW r \in Runners, Place(r)
  PROVE  UNCHANGED Ledger!vars
<1>. DEFINE s == job[r].seq
            to == job[r].target
<1>0. /\ UNCHANGED <<dead, sent, settled, drained, handled, failed>>
      /\ s \in Seqs /\ to \in Seqs
  BY DEF Place, TypeOK, Jobs, history
<1>1. CASE UNCHANGED inbox
  BY <1>0, <1>1, LedgerStill DEF Ledger!vars
<1>2. CASE /\ inbox[s] # NoMsg /\ inbox[to] = NoMsg
           /\ inbox' = [inbox EXCEPT ![to] = inbox[s], ![s] = NoMsg]
  <2>1. \A k \in Messages : Queued(k)' <=> Queued(k)
    BY <1>0, <1>2, PlaceMoves
  <2>2. \A k : Buried(k)' <=> Buried(k)
    BY <1>0 DEF Buried
  <2>3. \A k \in Messages : PlaceOf(k)' = PlaceOf(k)
    BY <1>0, <2>1, <2>2, PlaceKept
  <2>. QED  BY <1>0, <2>3 DEF Ledger!vars
<1>. QED  BY <1>1, <1>2 DEF Place, Free

\* A handler's result is the ledger's, unless it is a failure beyond the budget.
LEMMA HandlerRecorded ==
  ASSUME TypeOK, Accounting, NEW r \in Runners, HandleOk(r) \/ HandleRetryable(r)
  PROVE  \/ \E m \in Messages : Ledger!Succeed(m) \/ Ledger!Fail(m)
         \/ UNCHANGED Ledger!vars
<1>. DEFINE m == job[r].frame
<1>1. m \in Messages /\ m \in sent /\ failed[m] \in 0 .. RetryBudget
  BY DEF HandleOk, HandleRetryable, TypeOK, Accounting
<1>2. PlaceOf(m) # "unsent"
  BY <1>1, PlaceMeans
<1>3. UNCHANGED [k \in Messages |-> PlaceOf(k)]
  BY LedgerStill DEF HandleOk, HandleRetryable, store
<1>4. CASE HandleOk(r)
  <2>1. handled' = handled \cup {m} /\ UNCHANGED failed
    BY <1>4 DEF HandleOk
  <2>2. Ledger!Succeed(m)
    BY <1>1, <1>2, <1>3, <2>1 DEF Ledger!Succeed
  <2>. QED  BY <1>1, <2>2
<1>5. CASE HandleRetryable(r)
  <2>1. /\ UNCHANGED handled
        /\ failed' = [failed EXCEPT ![m] = IF @ < RetryBudget THEN @ + 1 ELSE @]
    BY <1>5 DEF HandleRetryable
  <2>2. CASE failed[m] < RetryBudget
    <3>1. failed' = [failed EXCEPT ![m] = @ + 1]
      BY <2>1, <2>2
    <3>2. Ledger!Fail(m)
      BY <1>1, <1>2, <1>3, <2>1, <2>2, <3>1 DEF Ledger!Fail
    <3>. QED  BY <1>1, <3>2
  <2>3. CASE ~(failed[m] < RetryBudget)
    <3>1. failed' = failed
      BY <2>1, <2>3 DEF TypeOK
    <3>. QED  BY <1>3, <2>1, <3>1 DEF Ledger!vars
  <2>. QED  BY <2>2, <2>3
<1>. QED  BY <1>4, <1>5

\* A step of the poll loop is a step of the ledger or invisible to it.
LEMMA PollImplements ==
  ASSUME TypeOK, Fencing, Accounting, Accounting', Justified, NEW r \in Runners, Poll(r)
  PROVE  [Ledger!Next]_Ledger!vars
<1>0. Earned(r)
  BY DEF Justified
<1>1. CASE Ack(r)
  BY <1>0, <1>1, AckSettles DEF Ledger!Next
<1>2. CASE Bury(r)
  BY <1>0, <1>2, BuryBuries DEF Ledger!Next
<1>3. CASE Place(r)
  BY <1>3, PlaceHides
<1>4. CASE HandleOk(r) \/ HandleRetryable(r)
  BY <1>4, HandlerRecorded DEF Ledger!Next
<1>5. CASE ~(Ack(r) \/ Bury(r) \/ Place(r) \/ HandleOk(r) \/ HandleRetryable(r))
  <2>1. UNCHANGED <<inbox, dead, sent, settled, drained, handled, failed>>
    BY <1>5 DEF Poll, Read, Claim, HandleFatal, Count, Clear, ChooseSeq, store, history
  <2>. QED  BY <2>1, LedgerStill DEF Ledger!vars
<1>. QED  BY <1>1, <1>2, <1>3, <1>4, <1>5

\* So is what producers, replays, drains and the clock do.
LEMMA CallersImplement ==
  ASSUME Coordinated, TypeOK, Fencing, Accounting, Accounting', Tick \/ Callers
  PROVE  [Ledger!Next]_Ledger!vars
<1>1. CASE Tick \/ DrainRead
  <2>1. UNCHANGED <<inbox, dead, sent, settled, drained, handled, failed>>
    BY <1>1 DEF Tick, DrainRead, store, history
  <2>. QED  BY <2>1, LedgerStill DEF Ledger!vars
<1>2. ASSUME NEW m \in Messages, InboxPut(m) PROVE Ledger!Next
  BY <1>2, PutSends DEF Ledger!Next
<1>3. ASSUME NEW s \in Seqs, NEW to \in ReplaySeqs, Replay(s, to) PROVE Ledger!Next
  <2>1. to \in Seqs
    BY <1>3 DEF Replay, ReplaySeqs, TypeOK, Seqs
  <2>. QED  BY <1>3, <2>1, ReplayReplays DEF Ledger!Next
<1>4. CASE DrainDelete
  BY <1>4, DrainDrains DEF Ledger!Next
<1>. QED  BY <1>1, <1>2, <1>3, <1>4 DEF Callers

\* Runners, leases, takeovers, requeues and replays implement the ledger.
THEOREM LedgerImplemented == ASSUME Coordinated PROVE Spec => ImplementsLedger
<1>1. Init => Ledger!Init
  <2>. SUFFICES ASSUME Init PROVE Ledger!Init
    OBVIOUS
  <2>1. \A m \in Messages : PlaceOf(m) = "unsent"
    BY InitAccounting, PlaceMeans DEF Init
  <2>. QED  BY <2>1 DEF Init, Ledger!Init
<1>2. IInv /\ IInv' /\ Justified /\ [Next]_vars => [Ledger!Next]_Ledger!vars
  <2>. SUFFICES ASSUME IInv, IInv', Justified, [Next]_vars
                PROVE  [Ledger!Next]_Ledger!vars
    OBVIOUS
  <2>1. TypeOK /\ Fencing /\ Accounting /\ Accounting'
    BY DEF IInv
  <2>2. CASE UNCHANGED vars
    BY <2>2, LedgerStill DEF vars, store, history, Ledger!vars
  <2>3. CASE Next
    BY <2>1, <2>3, CallersImplement, PollImplements DEF Next
  <2>. QED  BY <2>2, <2>3
<1>. QED
  BY <1>1, <1>2, InvariantHolds, DispositionsJustified, PTL
  DEF Spec, ImplementsLedger, Ledger!Spec

============================================================================

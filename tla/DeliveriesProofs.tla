------------------------- MODULE DeliveriesProofs -------------------------
(* Proofs about Deliveries, for every value of its constants. *)
EXTENDS Deliveries, TLAPS

---------------------------------------------------------------------------
(* Types                                                                   *)

\* A try at a message, or at none, is a job.
LEMMA NewTryType ==
  ASSUME NEW m \in Messages \cup {Nothing}, NEW n \in 0 .. MaxRetries
  PROVE  NewTry(m, n) \in Job
BY DEF NewTry, Job

\* An answer ends a delivery and leaves every variable it touches well typed.
LEMMA AnswerType ==
  ASSUME TypeOK, NEW r \in Runners, NEW ok \in BOOLEAN,
         job[r].msg \in Messages, Answer(r, ok)
  PROVE  /\ pc' \in [Runners -> {"idle", "begin", "commit", "publish"}]
         /\ job' \in [Runners -> Job]
         /\ reported' \subseteq Messages
<1>1. NoJob \in Job
  BY NewTryType, DeliveriesAssumption DEF NoJob
<1>. QED  BY <1>1 DEF TypeOK, Answer

\* So does another try of the attempt.
LEMMA RetryType ==
  ASSUME TypeOK, NEW r \in Runners, job[r].msg \in Messages, Retry(r)
  PROVE  /\ pc' \in [Runners -> {"idle", "begin", "commit", "publish"}]
         /\ job' \in [Runners -> Job]
         /\ reported' \subseteq Messages
<1>1. CASE StartAgain(r) /\ job[r].tries < MaxRetries
  <2>1. job[r].tries + 1 \in 0 .. MaxRetries
    <3>1. job[r].tries \in 0 .. MaxRetries
      BY DEF TypeOK, Job
    <3>. QED  BY <1>1, <3>1, DeliveriesAssumption
  <2>2. NewTry(job[r].msg, job[r].tries + 1) \in Job
    BY <2>1, NewTryType
  <2>. QED  BY <1>1, <2>2 DEF StartAgain, TypeOK
<1>2. CASE Answer(r, FALSE)
  BY <1>2, AnswerType
<1>. QED  BY <1>1, <1>2 DEF Retry

\* A runner that is not idle has a message.
Busy == \A r \in Runners : pc[r] # "idle" => job[r].msg \in Messages

TypeInv == TypeOK /\ Busy

LEMMA TypeInit == Init => TypeInv
  BY DeliveriesAssumption DEF Init, TypeInv, TypeOK, Busy, Job, NoJob, NewTry, Seqs

\* What the end of a delivery or another try does to Busy.
LEMMA BusyKept ==
  ASSUME TypeInv, NEW r \in Runners, pc[r] # "idle",
         Retry(r) \/ Answer(r, FALSE) \/ Answer(r, TRUE)
  PROVE  Busy'
<1>. USE DEF TypeInv, TypeOK, Busy
<1>1. CASE StartAgain(r)
  BY <1>1 DEF StartAgain, NewTry
<1>2. CASE Answer(r, FALSE) \/ Answer(r, TRUE)
  BY <1>2 DEF Answer
<1>. QED  BY <1>1, <1>2 DEF Retry

LEMMA TypeStep == TypeInv /\ [Next]_vars => TypeInv'
<1>. SUFFICES ASSUME TypeInv, [Next]_vars PROVE TypeInv'
  OBVIOUS
<1>. USE DEF TypeInv
<1>1. ASSUME NEW r \in Runners, NEW m \in Messages, Deliver(r, m) PROVE TypeInv'
  <2>1. NewTry(m, 0) \in Job
    BY NewTryType, DeliveriesAssumption
  <2>2. NewTry(m, 0).msg \in Messages
    BY DEF NewTry
  <2>3. /\ pc' \in [Runners -> {"idle", "begin", "commit", "publish"}]
        /\ job' \in [Runners -> Job]
    BY <1>1, <2>1 DEF Deliver, TypeOK
  <2>4. deliveries' \in 0 .. MaxDeliveries
    BY <1>1, DeliveriesAssumption DEF Deliver, TypeOK
  <2>5. Busy'
    BY <1>1, <2>2 DEF Deliver, TypeOK, Busy
  <2>. QED  BY <1>1, <2>3, <2>4, <2>5 DEF Deliver, TypeOK, database, history
<1>2. ASSUME NEW r \in Runners, AlreadyAccepted(r) PROVE TypeInv'
  BY <1>2 DEF AlreadyAccepted, TypeOK, Busy, database, history
<1>3. ASSUME NEW r \in Runners, Invoke(r) PROVE TypeInv'
  <2>1. job[r] \in Job /\ row \in Values
    BY DEF TypeOK
  <2>2. PICK read \in {Nothing, row}, write \in Values \cup {Nothing}, reply \in BOOLEAN :
          job' = [job EXCEPT ![r] = [@ EXCEPT !.ran = TRUE, !.read = read,
                                              !.write = write, !.reply = reply]]
    BY <1>3 DEF Invoke
  <2>3. /\ job'[r] \in Job
        /\ job'[r].msg = job[r].msg
    BY <2>1, <2>2 DEF TypeOK, Job
  <2>4. \A q \in Runners \ {r} : job'[q] = job[q]
    BY <2>2 DEF TypeOK
  <2>5. job' \in [Runners -> Job]
    BY <2>2, <2>3, <2>4 DEF TypeOK
  <2>6. Busy'
    BY <1>3, <2>3, <2>4 DEF Invoke, TypeOK, Busy
  <2>7. pc' \in [Runners -> {"idle", "begin", "commit", "publish"}]
    BY <1>3 DEF Invoke, TypeOK
  <2>. QED  BY <1>3, <2>5, <2>6, <2>7 DEF Invoke, TypeOK, database, history
<1>4. ASSUME NEW r \in Runners, InvokeFails(r) PROVE TypeInv'
  <2>1. job[r].msg \in Messages
    BY <1>4 DEF InvokeFails, Busy
  <2>. QED  BY <1>4, <2>1, AnswerType, RetryType, BusyKept DEF InvokeFails, TypeOK, database
<1>5. ASSUME NEW r \in Runners, CommitFails(r) PROVE TypeInv'
  <2>1. job[r].msg \in Messages
    BY <1>5 DEF CommitFails, Busy
  <2>. QED  BY <1>5, <2>1, AnswerType, RetryType, BusyKept DEF CommitFails, TypeOK, database
<1>6. ASSUME NEW r \in Runners, Commit(r) PROVE TypeInv'
  <2>1. job[r].msg \in Messages
    BY <1>6 DEF Commit, Busy
  <2>2. row' \in Values
    BY <1>6 DEF Commit, TypeOK, Job
  <2>3. accepted' \subseteq Messages /\ applied' \in [Messages -> Nat]
    BY <1>6, <2>1 DEF Commit, TypeOK
  <2>. QED  BY <1>6, <2>2, <2>3 DEF Commit, TypeOK, Busy
<1>7. ASSUME NEW r \in Runners, NothingToPublish(r) PROVE TypeInv'
  <2>1. job[r].msg \in Messages
    BY <1>7 DEF NothingToPublish, Busy
  <2>. QED  BY <1>7, <2>1, AnswerType, BusyKept DEF NothingToPublish, TypeOK, database
<1>8. ASSUME NEW r \in Runners, Publish(r) PROVE TypeInv'
  <2>1. job[r].msg \in Messages
    BY <1>8 DEF Publish, PutReply, Busy
  <2>2. outbox' \in [Seqs -> Messages \cup {Nothing}]
    BY <1>8, <2>1 DEF Publish, PutReply, TypeOK
  <2>3. nextSeq' \in [Runners -> 0 .. MaxSeq]
    BY <1>8, DeliveriesAssumption DEF Publish, PutReply, TypeOK, Seqs
  <2>4. published' \in [Messages -> Nat]
    BY <1>8, <2>1 DEF Publish, PutReply, TypeOK
  <2>5. /\ pc' \in [Runners -> {"idle", "begin", "commit", "publish"}]
        /\ job' \in [Runners -> Job]
        /\ reported' \subseteq Messages
    BY <1>8, <2>1, AnswerType DEF Publish, PutReply
  <2>6. Busy'
    BY <1>8, BusyKept DEF Publish, PutReply
  <2>. QED  BY <1>8, <2>2, <2>3, <2>4, <2>5, <2>6 DEF Publish, PutReply, TypeOK
<1>9. ASSUME NEW r \in Runners, PublishFails(r) PROVE TypeInv'
  <2>1. job[r].msg \in Messages
    BY <1>9 DEF PublishFails, Busy
  <2>. QED  BY <1>9, <2>1, AnswerType, BusyKept DEF PublishFails, TypeOK, database
<1>10. ASSUME NEW r \in Runners, Restart(r) PROVE TypeInv'
  <2>1. NoJob \in Job
    BY NewTryType, DeliveriesAssumption DEF NoJob
  <2>. QED
    BY <1>10, <2>1, DeliveriesAssumption DEF Restart, TypeOK, Busy, database, history
<1>11. ASSUME NEW d \in Drainers, DrainRead(d) PROVE TypeInv'
  BY <1>11 DEF DrainRead, Taken, TypeOK, Busy, database, worker
<1>12. ASSUME NEW d \in Drainers, DrainDelete(d) PROVE TypeInv'
  BY <1>12 DEF DrainDelete, TypeOK, Busy, worker, history
<1>13. ASSUME NEW d \in Drainers, DrainFails(d) PROVE TypeInv'
  BY <1>13 DEF DrainFails, TypeOK, Busy, database, worker, history
<1>14. CASE UNCHANGED vars
  BY <1>14 DEF vars, database, worker, history, TypeOK, Busy
<1>. QED
  BY <1>1, <1>2, <1>3, <1>4, <1>5, <1>6, <1>7, <1>8, <1>9, <1>10, <1>11, <1>12, <1>13, <1>14
  DEF Next

\* Every variable of the deliveries keeps its type.
THEOREM TypeCorrect == Spec => []TypeOK
<1>1. Spec => []TypeInv
  BY TypeInit, TypeStep, PTL DEF Spec
<1>. QED  BY <1>1, PTL DEF TypeInv

---------------------------------------------------------------------------
(* Applied at most once, when deliveries of a message do not overlap       *)

\* No two runners are at the same message.
OneHandler ==
  \A r, q \in Runners :
    pc[r] # "idle" /\ pc[q] # "idle" /\ job[r].msg = job[q].msg => r = q

\* What a delivery knows of the acceptance of its message.
Staged ==
  \A r \in Runners :
    /\ pc[r] = "begin" => ~job[r].ran /\ ~job[r].reply
    /\ pc[r] = "commit" => IF job[r].ran THEN job[r].msg \notin accepted
                           ELSE job[r].msg \in accepted /\ ~job[r].reply
    /\ pc[r] = "publish" =>
         job[r].msg \in accepted /\ (job[r].reply => published[job[r].msg] = 0)

\* A message has been applied once if it has a dedupe row, else never, and only
\* then it may have been answered.
Counted ==
  \A m \in Messages :
    /\ applied[m] = IF m \in accepted THEN 1 ELSE 0
    /\ published[m] \in {0, 1}
    /\ published[m] = 1 => m \in accepted
    /\ m \in reported => m \in accepted

Acceptance == OneHandler /\ Staged /\ Counted

LEMMA AcceptanceInit == Init => Acceptance
  BY DEF Init, Acceptance, OneHandler, Staged, Counted, NoJob, NewTry

\* The end of a delivery, or another try, of which nothing is told.
LEMMA AcceptanceFails ==
  ASSUME TypeInv, Acceptance, NEW r \in Runners, pc[r] # "idle",
         Retry(r) \/ Answer(r, FALSE),
         UNCHANGED <<accepted, applied, published>>
  PROVE  Acceptance'
<1>1. CASE StartAgain(r)
  BY <1>1 DEF StartAgain, Acceptance, OneHandler, Staged, Counted, TypeInv, TypeOK, NoJob, NewTry
<1>2. CASE Answer(r, FALSE)
  BY <1>2 DEF Answer, Acceptance, OneHandler, Staged, Counted, TypeInv, TypeOK, NoJob, NewTry
<1>. QED  BY <1>1, <1>2 DEF Retry

LEMMA AcceptanceStep ==
  ASSUME Exclusive PROVE TypeInv /\ Acceptance /\ [Next]_vars => Acceptance'
<1>. SUFFICES ASSUME TypeInv, Acceptance, [Next]_vars PROVE Acceptance'
  OBVIOUS
<1>. USE DEF Acceptance, TypeInv, TypeOK
<1>1. ASSUME NEW r \in Runners, NEW m \in Messages, Deliver(r, m) PROVE Acceptance'
  <2>1. \A q \in Runners : pc[q] # "idle" => job[q].msg # m
    BY <1>1 DEF Deliver, Handled
  <2>. QED
    BY <1>1, <2>1 DEF Deliver, database, history, OneHandler, Staged, Counted, NoJob, NewTry
<1>2. ASSUME NEW r \in Runners, AlreadyAccepted(r) PROVE Acceptance'
  BY <1>2 DEF AlreadyAccepted, database, history, OneHandler, Staged, Counted
<1>3. ASSUME NEW r \in Runners, Invoke(r) PROVE Acceptance'
  BY <1>3 DEF Invoke, database, history, OneHandler, Staged, Counted, Job
<1>4. ASSUME NEW r \in Runners, InvokeFails(r) PROVE Acceptance'
  BY <1>4, AcceptanceFails DEF InvokeFails, database
<1>5. ASSUME NEW r \in Runners, CommitFails(r) PROVE Acceptance'
  BY <1>5, AcceptanceFails DEF CommitFails, database
<1>6. ASSUME NEW r \in Runners, Commit(r) PROVE Acceptance'
  <2>1. job[r].msg \in Messages
    BY <1>6 DEF Commit, Busy
  <2>2. CASE job[r].ran
    <3>1. OneHandler'
      BY <1>6 DEF Commit, OneHandler
    <3>2. Counted'
      BY <1>6, <2>1, <2>2 DEF Commit, Counted, Staged
    <3>3. Staged'
      BY <1>6, <2>1, <2>2 DEF Commit, Counted, Staged, OneHandler
    <3>. QED  BY <3>1, <3>2, <3>3
  <2>3. CASE ~job[r].ran
    BY <1>6, <2>3 DEF Commit, OneHandler, Staged, Counted
  <2>. QED  BY <2>2, <2>3
<1>7. ASSUME NEW r \in Runners, NothingToPublish(r) PROVE Acceptance'
  BY <1>7 DEF NothingToPublish, Answer, database, OneHandler, Staged, Counted, NoJob, NewTry
<1>8. ASSUME NEW r \in Runners, Publish(r) PROVE Acceptance'
  <2>1. job[r].msg \in Messages
    BY <1>8 DEF Publish, PutReply, Busy
  <2>2. OneHandler' /\ Counted'
    BY <1>8, <2>1 DEF Publish, PutReply, Answer, OneHandler, Staged, Counted, NoJob, NewTry
  <2>3. Staged'
    BY <1>8, <2>1 DEF Publish, PutReply, Answer, OneHandler, Staged, Counted, NoJob, NewTry
  <2>. QED  BY <2>2, <2>3
<1>9. ASSUME NEW r \in Runners, PublishFails(r) PROVE Acceptance'
  BY <1>9, AcceptanceFails DEF PublishFails, database
<1>10. ASSUME NEW r \in Runners, Restart(r) PROVE Acceptance'
  BY <1>10 DEF Restart, database, history, OneHandler, Staged, Counted, NoJob, NewTry
<1>11. ASSUME NEW d \in Drainers, DrainRead(d) \/ DrainDelete(d) \/ DrainFails(d)
       PROVE  Acceptance'
  BY <1>11 DEF DrainRead, DrainDelete, DrainFails, database, worker, history,
               OneHandler, Staged, Counted
<1>12. CASE UNCHANGED vars
  BY <1>12 DEF vars, database, worker, history, OneHandler, Staged, Counted
<1>. QED
  BY <1>1, <1>2, <1>3, <1>4, <1>5, <1>6, <1>7, <1>8, <1>9, <1>10, <1>11, <1>12 DEF Next

\* What is known of acceptances holds of every behaviour.
LEMMA AcceptanceHolds == ASSUME Exclusive PROVE Spec => [](TypeInv /\ Acceptance)
<1>1. Init => TypeInv /\ Acceptance
  BY TypeInit, AcceptanceInit
<1>2. TypeInv /\ Acceptance /\ [Next]_vars => (TypeInv /\ Acceptance)'
  BY TypeStep, AcceptanceStep
<1>. QED  BY <1>1, <1>2, PTL DEF Spec

\* As long as no message is delivered while it is being handled, what its guest
\* writes is committed at most once, over any number of runners, deliveries,
\* retries, failures and restarts.
THEOREM AppliedOnceHolds == ASSUME Exclusive PROVE Spec => []AppliedOnce
<1>1. Acceptance => AppliedOnce
  BY DEF Acceptance, Counted, AppliedOnce
<1>. QED  BY <1>1, AcceptanceHolds, PTL

\* Then a delivery that is reported done was applied, and no message is answered
\* more often than it was applied.
THEOREM AnswersBackedHolds == ASSUME Exclusive PROVE Spec => []AnswersAreBacked
<1>1. Acceptance => AnswersAreBacked
  BY DEF Acceptance, Counted, AnswersAreBacked
<1>. QED  BY <1>1, AcceptanceHolds, PTL

---------------------------------------------------------------------------
(* Replies                                                                 *)

\* What a drain holds it has handed to its handler.
HandedOut == \A d \in Drainers : held[d] # Nothing => held[d].msg \in drained

Replies == HandedOut /\ NoReplyLost

LEMMA RepliesInit == Init => Replies
  BY DEF Init, Replies, HandedOut, NoReplyLost

LEMMA RepliesStep == TypeInv /\ Replies /\ [Next]_vars => Replies'
<1>. SUFFICES ASSUME TypeInv, Replies, [Next]_vars PROVE Replies'
  OBVIOUS
<1>. USE DEF Replies, TypeInv, TypeOK
<1>1. ASSUME UNCHANGED <<outbox, held, published, drained>> PROVE Replies'
  BY <1>1 DEF HandedOut, NoReplyLost
<1>2. ASSUME NEW r \in Runners, Publish(r) PROVE Replies'
  <2>1. UNCHANGED <<held, drained>> /\ nextSeq[r] \in Seqs /\ outbox[nextSeq[r]] = Nothing
    BY <1>2 DEF Publish, PutReply
  <2>2. HandedOut'
    BY <2>1 DEF HandedOut
  <2>3. ASSUME NEW m \in Messages, published'[m] > 0
        PROVE  m \in drained' \/ \E s \in Seqs : outbox'[s] = m
    <3>1. CASE m = job[r].msg
      BY <1>2, <2>1, <3>1 DEF Publish, PutReply
    <3>2. CASE m # job[r].msg
      <4>1. published[m] > 0
        BY <1>2, <2>3, <3>2 DEF Publish, PutReply
      <4>2. ASSUME NEW s \in Seqs, outbox[s] = m PROVE outbox'[s] = m
        BY <1>2, <2>1, <4>2, DeliveriesAssumption DEF Publish, PutReply
      <4>. QED  BY <2>1, <4>1, <4>2 DEF NoReplyLost
    <3>. QED  BY <3>1, <3>2
  <2>. QED  BY <2>2, <2>3 DEF NoReplyLost
<1>3. ASSUME NEW d \in Drainers, DrainRead(d) PROVE Replies'
  BY <1>3 DEF DrainRead, Taken, database, HandedOut, NoReplyLost
<1>4. ASSUME NEW d \in Drainers, DrainDelete(d) PROVE Replies'
  <2>1. HandedOut'
    BY <1>4 DEF DrainDelete, history, HandedOut
  <2>2. ASSUME NEW m \in Messages, published'[m] > 0
        PROVE  m \in drained' \/ \E s \in Seqs : outbox'[s] = m
    <3>1. UNCHANGED <<drained, published>> /\ held[d] # Nothing /\ held[d].msg \in drained
      BY <1>4 DEF DrainDelete, history, HandedOut
    <3>2. ASSUME NEW s \in Seqs, outbox[s] = m, m \notin drained PROVE outbox'[s] = m
      BY <1>4, <3>1, <3>2 DEF DrainDelete
    <3>. QED  BY <2>2, <3>1, <3>2 DEF NoReplyLost
  <2>. QED  BY <2>1, <2>2 DEF NoReplyLost
<1>5. ASSUME NEW d \in Drainers, DrainFails(d) PROVE Replies'
  BY <1>5 DEF DrainFails, database, history, HandedOut, NoReplyLost
<1>6. ASSUME NEW r \in Runners, NEW m \in Messages, Deliver(r, m) PROVE Replies'
  BY <1>1, <1>6 DEF Deliver, database, history
<1>7. ASSUME NEW r \in Runners,
             \/ AlreadyAccepted(r) \/ Invoke(r) \/ InvokeFails(r) \/ CommitFails(r)
             \/ Commit(r) \/ NothingToPublish(r) \/ PublishFails(r) \/ Restart(r)
      PROVE  Replies'
  BY <1>1, <1>7 DEF AlreadyAccepted, Invoke, InvokeFails, CommitFails, Commit,
                    NothingToPublish, PublishFails, Restart, database, history
<1>8. CASE UNCHANGED vars
  BY <1>1, <1>8 DEF vars, database, history
<1>. QED  BY <1>2, <1>3, <1>4, <1>5, <1>6, <1>7, <1>8 DEF Next

\* A published reply stays in the outbox until a drain handler has been given
\* it, whoever shares numbers, restarts or drains at the same time.
THEOREM NoReplyLostHolds == Spec => []NoReplyLost
<1>1. Replies => NoReplyLost
  BY DEF Replies
<1>. QED  BY <1>1, TypeInit, TypeStep, RepliesInit, RepliesStep, PTL DEF Spec

===========================================================================

---------------------------- MODULE Deliveries ----------------------------
(***************************************************************************)
(* Messages that ask for deduplication, delivered to guests through the    *)
(* WASI shim, and the replies the guests leave in the outbox.              *)
(*                                                                         *)
(* A runner's poll loop delivers a message by calling the shim, which runs *)
(* one call of the attempt engine (see Attempts): the guest is invoked on  *)
(* a snapshot, unless the snapshot says the message was accepted before;   *)
(* the acceptance is staged and committed with the guest's writes, and the *)
(* reply is published in a transaction of its own after that.  A message   *)
(* is delivered again when it failed, when its acknowledgement did not go  *)
(* through, when it was sent twice, and, if leases may lapse under a       *)
(* handler, while another runner is still at it (see Mailbox).             *)
(*                                                                         *)
(* A guest is any function that may read the one application row, write    *)
(* it, and reply.  What it reads goes through the stack and is validated.  *)
(* The snapshot and everything computed from it are one step.              *)
(***************************************************************************)
EXTENDS Integers, TLC

CONSTANTS
  Runners,       \* each with a shim and an outbox publisher of its own
  Drainers,      \* callers of sap_runner_outbox_v0_drain
  Messages,      \* message ids, all flagged DEDUPE_REQUIRED
  Values,        \* of the application row
  Nothing,       \* no row, nothing read, nothing written, nothing held
  MaxRetries,    \* attempt_policy.max_retries
  MaxSeq,        \* bound on outbox numbers
  MaxDeliveries, \* bound on the calls of the shim
  Exclusive      \* TRUE: a message is not delivered while it is being handled

ASSUME DeliveriesAssumption ==
  /\ MaxRetries \in Nat /\ MaxSeq \in Nat \ {0} /\ MaxDeliveries \in Nat
  /\ Exclusive \in BOOLEAN
  /\ Nothing \notin Values \cup Messages

Seqs == 0 .. MaxSeq - 1

VARIABLES
  row,        \* the application row
  accepted,   \* messages with a dedupe row
  outbox,     \* the reply under each number
  pc,         \* where each runner is
  job,        \* the delivery each runner is at
  nextSeq,    \* publisher->next_seq
  held,       \* the row each drain has copied and is handing to its handler
  deliveries, \* calls of the shim so far
  applied,    \* history: committed runs of the guest for each message
  published,  \* history: replies put into the outbox for each message
  drained,    \* history: messages whose reply some drain handler was given
  reported    \* history: messages whose delivery was reported OK

database == <<row, accepted, outbox>>
worker   == <<pc, job, nextSeq>>
history  == <<applied, published, drained, reported>>
vars     == <<database, worker, held, deliveries, history>>

Job == [msg : Messages \cup {Nothing}, ran : BOOLEAN, read : Values \cup {Nothing},
        write : Values \cup {Nothing}, reply : BOOLEAN, tries : 0 .. MaxRetries]

NewTry(m, n) == [msg |-> m, ran |-> FALSE, read |-> Nothing,
                 write |-> Nothing, reply |-> FALSE, tries |-> n]
NoJob        == NewTry(Nothing, 0)

Init ==
  /\ row \in Values /\ accepted = {} /\ outbox = [s \in Seqs |-> Nothing]
  /\ pc = [r \in Runners |-> "idle"] /\ job = [r \in Runners |-> NoJob]
  /\ nextSeq = [r \in Runners |-> 0]
  /\ held = [d \in Drainers |-> Nothing] /\ deliveries = 0
  /\ applied = [m \in Messages |-> 0] /\ published = [m \in Messages |-> 0]
  /\ drained = {} /\ reported = {}

---------------------------------------------------------------------------
(* A delivery                                                              *)

Handled == {job[r].msg : r \in {q \in Runners : pc[q] # "idle"}}

Deliver(r, m) ==
  /\ pc[r] = "idle" /\ deliveries < MaxDeliveries
  /\ Exclusive => m \notin Handled
  /\ deliveries' = deliveries + 1
  /\ job' = [job EXCEPT ![r] = NewTry(m, 0)]
  /\ pc' = [pc EXCEPT ![r] = "begin"]
  /\ UNCHANGED <<database, nextSeq, held, history>>

\* The handler's result goes back to the poll loop.
Answer(r, ok) ==
  /\ pc' = [pc EXCEPT ![r] = "idle"]
  /\ job' = [job EXCEPT ![r] = NoJob]
  /\ reported' = IF ok THEN reported \cup {job[r].msg} ELSE reported

StartAgain(r) ==
  /\ pc' = [pc EXCEPT ![r] = "begin"]
  /\ job' = [job EXCEPT ![r] = NewTry(job[r].msg, job[r].tries + 1)]
  /\ UNCHANGED reported

\* Seeded fault: one retry too many.
RetryOnceMore(r) ==
  IF job[r].tries <= MaxRetries
    THEN StartAgain(r) ELSE Answer(r, FALSE)

\* Seeded fault: giving up is reported as success.
RetryThenOk(r) ==
  IF job[r].tries < MaxRetries
    THEN StartAgain(r) ELSE Answer(r, TRUE)

\* The attempt starts again after a conflict or a busy store, within limits.
Retry(r) ==
  IF job[r].tries < MaxRetries
    THEN StartAgain(r) ELSE Answer(r, FALSE)

\* The dedupe row is looked up in the snapshot itself, past the stack.
AlreadyAccepted(r) ==
  /\ pc[r] = "begin" /\ job[r].msg \in accepted
  /\ pc' = [pc EXCEPT ![r] = "commit"]
  /\ UNCHANGED <<database, job, nextSeq, held, deliveries, history>>

Invoke(r) ==
  /\ pc[r] = "begin" /\ job[r].msg \notin accepted
  /\ \E read \in {Nothing, row}, write \in Values \cup {Nothing}, reply \in BOOLEAN :
       job' = [job EXCEPT ![r] = [@ EXCEPT !.ran = TRUE, !.read = read,
                                           !.write = write, !.reply = reply]]
  /\ pc' = [pc EXCEPT ![r] = "commit"]
  /\ UNCHANGED <<database, nextSeq, held, deliveries, history>>

\* The guest, the snapshot or the staging failed, for good or not.
InvokeFails(r) ==
  /\ pc[r] = "begin"
  /\ Answer(r, FALSE) \/ Retry(r)
  /\ UNCHANGED <<database, nextSeq, held, deliveries, applied, published, drained>>

Valid(r) == job[r].read \in {Nothing, row}

\* Another write transaction is open, what the guest read has changed, or the
\* writes cannot be made.
CommitFails(r) ==
  /\ pc[r] = "commit"
  /\ Retry(r) \/ (Valid(r) /\ Answer(r, FALSE))
  /\ UNCHANGED <<database, nextSeq, held, deliveries, applied, published, drained>>

\* Seeded fault: the acceptance is not staged with the writes.
CommitUnmarked(r) ==
  /\ pc[r] = "commit" /\ Valid(r)
  /\ IF job[r].ran
       THEN /\ row' = IF job[r].write = Nothing THEN row ELSE job[r].write
            /\ applied' = [applied EXCEPT ![job[r].msg] = @ + 1]
       ELSE UNCHANGED <<row, applied>>
  /\ pc' = [pc EXCEPT ![r] = "publish"]
  /\ UNCHANGED <<accepted, outbox, job, nextSeq, held, deliveries, published, drained, reported>>

\* Writes and acceptance are committed together.
Commit(r) ==
  /\ pc[r] = "commit" /\ Valid(r)
  /\ IF job[r].ran
       THEN /\ row' = IF job[r].write = Nothing THEN row ELSE job[r].write
            /\ accepted' = accepted \cup {job[r].msg}
            /\ applied' = [applied EXCEPT ![job[r].msg] = @ + 1]
       ELSE UNCHANGED <<row, accepted, applied>>
  /\ pc' = [pc EXCEPT ![r] = "publish"]
  /\ UNCHANGED <<outbox, job, nextSeq, held, deliveries, published, drained, reported>>

NothingToPublish(r) ==
  /\ pc[r] = "publish" /\ ~job[r].reply
  /\ Answer(r, TRUE)
  /\ UNCHANGED <<database, nextSeq, held, deliveries, applied, published, drained>>

\* The reply is put under the publisher's number.
PutReply(r) ==
  /\ pc[r] = "publish" /\ job[r].reply /\ nextSeq[r] \in Seqs
  /\ outbox' = [outbox EXCEPT ![nextSeq[r]] = job[r].msg]
  /\ nextSeq' = [nextSeq EXCEPT ![r] = @ + 1]
  /\ published' = [published EXCEPT ![job[r].msg] = @ + 1]
  /\ Answer(r, TRUE)
  /\ UNCHANGED <<row, accepted, held, deliveries, applied, drained>>

\* Seeded fault: the put is made without SAP_NOOVERWRITE.
PublishOver(r) == PutReply(r)

\* A reply never replaces a row of the outbox.
Publish(r) == PutReply(r) /\ outbox[nextSeq[r]] = Nothing

\* The number is taken, or the store is busy: the reply is given up, and the
\* delivery fails though its writes are in.
PublishFails(r) ==
  /\ pc[r] = "publish" /\ job[r].reply
  /\ Answer(r, FALSE)
  /\ UNCHANGED <<database, nextSeq, held, deliveries, applied, published, drained>>

\* The process ends; its shim is made again with the same first number.
Restart(r) ==
  /\ pc' = [pc EXCEPT ![r] = "idle"] /\ job' = [job EXCEPT ![r] = NoJob]
  /\ nextSeq' = [nextSeq EXCEPT ![r] = 0]
  /\ UNCHANGED <<database, held, deliveries, history>>

---------------------------------------------------------------------------
(* Draining the outbox                                                     *)

Taken == {s \in Seqs : outbox[s] # Nothing}

\* The first row is copied, and the copy handed to the handler.
DrainRead(d) ==
  /\ held[d] = Nothing
  /\ \E s \in Taken :
       /\ \A t \in Taken : s <= t
       /\ held' = [held EXCEPT ![d] = [seq |-> s, msg |-> outbox[s]]]
       /\ drained' = drained \cup {outbox[s]}
  /\ UNCHANGED <<database, worker, deliveries, applied, published, reported>>

\* The row is deleted if it is still the one that was handed out.
DrainDelete(d) ==
  /\ held[d] # Nothing
  /\ outbox' = IF outbox[held[d].seq] = held[d].msg
                 THEN [outbox EXCEPT ![held[d].seq] = Nothing] ELSE outbox
  /\ held' = [held EXCEPT ![d] = Nothing]
  /\ UNCHANGED <<row, accepted, worker, deliveries, history>>

\* The handler refuses, the store is busy, or the drain dies.
DrainFails(d) ==
  /\ held[d] # Nothing
  /\ held' = [held EXCEPT ![d] = Nothing]
  /\ UNCHANGED <<database, worker, deliveries, history>>

Next ==
  \/ \E r \in Runners :
       \/ \E m \in Messages : Deliver(r, m)
       \/ AlreadyAccepted(r) \/ Invoke(r) \/ InvokeFails(r)
       \/ CommitFails(r) \/ Commit(r)
       \/ NothingToPublish(r) \/ Publish(r) \/ PublishFails(r) \/ Restart(r)
  \/ \E d \in Drainers : DrainRead(d) \/ DrainDelete(d) \/ DrainFails(d)

Spec == Init /\ [][Next]_vars

\* Runners, drains, messages and values are interchangeable.
Symmetry == Permutations(Runners) \cup Permutations(Drainers)
              \cup Permutations(Messages) \cup Permutations(Values)

---------------------------------------------------------------------------
(* Properties                                                              *)

\* Every variable has its type.
TypeOK ==
  /\ row \in Values /\ accepted \subseteq Messages
  /\ outbox \in [Seqs -> Messages \cup {Nothing}]
  /\ pc \in [Runners -> {"idle", "begin", "commit", "publish"}]
  /\ job \in [Runners -> Job]
  /\ nextSeq \in [Runners -> 0 .. MaxSeq]
  /\ held \in [Drainers -> [seq : Seqs, msg : Messages] \cup {Nothing}]
  /\ deliveries \in 0 .. MaxDeliveries
  /\ applied \in [Messages -> Nat] /\ published \in [Messages -> Nat]
  /\ drained \subseteq Messages /\ reported \subseteq Messages

\* The guest's writes for a message are committed at most once, however often
\* the message is delivered (dedupe_v0, shim_atomic_execute).
AppliedOnce == \A m \in Messages : applied[m] <= 1

\* A delivery reported OK has been applied, by it or by an earlier one; and a
\* message is replied to no more often than it was applied (attempt_v0_run,
\* sap_wasi_shim_v0_runner_handler).
AnswersAreBacked ==
  \A m \in Messages :
    /\ m \in reported => applied[m] >= 1
    /\ published[m] <= applied[m]

\* A reply that was published is in the outbox until some drain handler has been
\* given it, across drains that race, publishers that share numbers and restart
\* with numbers in use (append_frame, delete_outbox_if_match).
NoReplyLost ==
  \A m \in Messages :
    published[m] > 0 => m \in drained \/ \E s \in Seqs : outbox[s] = m

===========================================================================

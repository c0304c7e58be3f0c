------------------------------ MODULE Mailbox ------------------------------
(***************************************************************************)
(* The durable inbox of one worker and the runners that poll it.           *)
(*                                                                         *)
(* Any number of SapRunnerV0 objects may poll the inbox of one worker id.  *)
(* A poll reads the lowest message in a read-only transaction, claims a    *)
(* lease on it, runs the handler on the copy it read, and then disposes of *)
(* the message: ack, requeue under a new sequence number, or move to the   *)
(* dead letters.  Each of these is one write transaction of the store and  *)
(* is one action here; between them any other runner, producer, replay,    *)
(* drain or clock tick may step.  A write transaction that finds another   *)
(* one open is refused with ERR_BUSY: every action that begins one has     *)
(* that outcome beside its normal one.                                     *)
(*                                                                         *)
(* A message stands for its wire frame, whose message id is never empty    *)
(* (the wire decoder rejects such frames before they are stored), so the   *)
(* "id not extracted" branch of the poll loop is not reachable and is left *)
(* out.  Every claim names the inbox's own worker id as its owner, so the  *)
(* owner field of a lease is left out too.                                 *)
(***************************************************************************)
EXTENDS Integers, FiniteSets, TLC

CONSTANTS
  Runners,      \* runner objects polling this inbox
  Messages,     \* the messages producers send, each at most once
  NoMsg,        \* an empty inbox or dead-letter key
  MaxSeq,       \* stands for UINT64_MAX, the last sequence number
  MaxCount,     \* stands for UINT32_MAX, the last retry count
  MaxTime,      \* bound on the clock
  LeaseTtl,     \* policy.lease_ttl_ms
  RequeueMax,   \* policy.requeue_max_attempts
  RetryBudget,  \* policy.retry_budget_max
  Coordinated   \* do the callers number messages above every number in use?

ASSUME RunnersAssumption == Runners # {}
ASSUME MessagesAssumption == NoMsg \notin Messages
ASSUME BoundsAssumption == /\ MaxSeq \in Nat \ {0}
                           /\ MaxCount \in Nat \ {0}
                           /\ MaxTime \in Nat
\* sap_runner_v0_set_policy replaces values that are not positive.
ASSUME PolicyAssumption == /\ LeaseTtl \in Nat \ {0}
                           /\ RequeueMax \in Nat \ {0}
                           /\ RetryBudget \in Nat \ {0}
ASSUME CallerAssumption == Coordinated \in BOOLEAN

Seqs == 0 .. MaxSeq

VARIABLES
  now,       \* the clock the runners read
  inbox,     \* DBI 1: the message under each sequence number, or NoMsg
  lease,     \* DBI 3: the lease on each sequence number, or NoLease
  dead,      \* DBI 6: the dead letter under each sequence number, or NoLetter
  retry,     \* DBI 5: the retry count of each message, 0 when there is no row
  nextSeq,   \* the number the next caller of inbox_put will use
  pc,        \* where each runner is in the poll loop
  job,       \* the poll loop's locals of each runner
  drain,     \* the dead letter a drain has read and handed to its handler
  sent,      \* history: messages put by producers
  handled,   \* history: messages a handler has returned ERR_OK for
  failed,    \* history: retryable failures of each message, up to RetryBudget
  settled,   \* history: messages removed by an ack
  drained    \* history: messages removed by a drain of the dead letters

store   == <<inbox, lease, dead, retry>>
history == <<sent, handled, failed, settled, drained>>
vars    == <<now, store, nextSeq, pc, job, drain, history>>

---------------------------------------------------------------------------
(* Leases, dead letters and the poll loop's locals                         *)

\* SapRunnerLeaseV0 without its owner.  Attempts count from one.
Leases   == [deadline : Nat, attempts : Nat]
NoLease  == [deadline |-> 0, attempts |-> 0]
Letters  == [msg : Messages, attempts : 0 .. MaxCount]
NoLetter == [msg |-> NoMsg, attempts |-> 0]

\* seq, frame: what the poll read; stamp: the clock when it read; lease: the
\* lease the claim returned; count: the retry count; tries, target: the
\* requeue loop's attempt number and new sequence number.
Jobs  == [seq : Seqs, frame : Messages \cup {NoMsg}, stamp : Nat,
          lease : Leases, count : 0 .. MaxCount, tries : Nat,
          target : Seqs]
NoJob == [seq |-> 0, frame |-> NoMsg, stamp |-> 0, lease |-> NoLease,
          count |-> 0, tries |-> 0, target |-> 0]

Stages == {"idle", "read", "claimed", "ack", "count", "bury", "clear",
           "requeue", "place"}

Occupied     == {s \in Seqs : inbox[s] # NoMsg}
Lowest(S)    == CHOOSE s \in S : \A t \in S : s <= t
Highest(S)   == CHOOSE s \in S : \A t \in S : t <= s

\* Seeded fault: a put without SAP_NOOVERWRITE.
FreeUnchecked(s) == TRUE

\* SAP_NOOVERWRITE: the put succeeds only if the key is empty.
Free(s) == inbox[s] = NoMsg

\* Seeded fault: the message is deleted and its lease row is not.
KeepLease(s) == UNCHANGED lease

\* The lease row goes with the message.
DropLease(s) == lease' = [lease EXCEPT ![s] = NoLease]

\* Seeded fault: the budget is one failure short.
SpentEarly(n) == n + 1 >= RetryBudget

\* The retry count n has used up the budget.
Spent(n) == n >= RetryBudget

\* A runner between its successful claim and its disposition of the message.
Holding(r) == pc[r] \in {"claimed", "ack", "count", "bury", "requeue", "place"}

---------------------------------------------------------------------------
Init ==
  /\ now = 0
  /\ inbox = [s \in Seqs |-> NoMsg]
  /\ lease = [s \in Seqs |-> NoLease]
  /\ dead = [s \in Seqs |-> NoLetter]
  /\ retry = [m \in Messages |-> 0]
  /\ nextSeq = 1
  /\ pc = [r \in Runners |-> "idle"]
  /\ job = [r \in Runners |-> NoJob]
  /\ drain = [seq |-> 0, letter |-> NoLetter]
  /\ sent = {}
  /\ handled = {}
  /\ failed = [m \in Messages |-> 0]
  /\ settled = {}
  /\ drained = {}

\* The poll is over, or goes round again: its locals are gone.
Rest(r) ==
  /\ pc' = [pc EXCEPT ![r] = "idle"]
  /\ job' = [job EXCEPT ![r] = NoJob]

Goto(r, stage) == pc' = [pc EXCEPT ![r] = stage]

---------------------------------------------------------------------------
(* Callers: producers, replay of dead letters, and the clock               *)

\* The sequence number a caller may use for a message of its own.  A
\* coordinated caller is above every number used so far; otherwise it is a
\* private counter for producers and any number for a replay.
ReplaySeqs == IF Coordinated THEN {nextSeq} ELSE Seqs

\* inbox_put: the caller names the number, and the put overwrites.
InboxPut(m) ==
  /\ m \notin sent
  /\ nextSeq <= MaxSeq
  /\ inbox' = [inbox EXCEPT ![nextSeq] = m]
  /\ nextSeq' = nextSeq + 1
  /\ sent' = sent \cup {m}
  /\ UNCHANGED <<now, lease, dead, retry, pc, job, drain, handled, failed,
                 settled, drained>>

\* The dead letter of s goes back into the inbox under an unused key.
Replay(s, to) ==
  /\ to <= MaxSeq
  /\ dead[s] # NoLetter
  /\ Free(to)
  /\ inbox' = [inbox EXCEPT ![to] = dead[s].msg]
  /\ dead' = [dead EXCEPT ![s] = NoLetter]
  /\ nextSeq' = IF Coordinated THEN nextSeq + 1 ELSE nextSeq
  /\ UNCHANGED <<now, lease, retry, pc, job, drain, history>>

Tick ==
  /\ now < MaxTime
  /\ now' = now + 1
  /\ UNCHANGED <<store, nextSeq, pc, job, drain, history>>

---------------------------------------------------------------------------
(* Draining the dead letters: read and handle, then delete if unchanged    *)

DrainRead ==
  LET waiting == {s \in Seqs : dead[s] # NoLetter} IN
  /\ drain.letter = NoLetter
  /\ waiting # {}
  /\ drain' = [seq |-> Lowest(waiting), letter |-> dead[Lowest(waiting)]]
  /\ UNCHANGED <<now, store, nextSeq, pc, job, history>>

\* Seeded fault: delete without comparing.
StillThereUnchecked == TRUE

\* The record must still be the one the handler was given.
StillThere == dead[drain.seq] = drain.letter

DrainDelete ==
  /\ drain.letter # NoLetter
  /\ drain' = [seq |-> 0, letter |-> NoLetter]
  /\ \/ /\ StillThere
        /\ dead' = [dead EXCEPT ![drain.seq] = NoLetter]
        /\ drained' = drained \cup {drain.letter.msg}
     \/ UNCHANGED <<dead, drained>>  \* handler failed, ERR_BUSY or mismatch
  /\ UNCHANGED <<now, inbox, lease, retry, nextSeq, pc, job, sent, handled,
                 failed, settled>>

---------------------------------------------------------------------------
(* The poll loop                                                           *)

\* read_next_inbox_frame: the lowest key, in a read-only transaction.
Read(r) ==
  /\ pc[r] = "idle"
  /\ Occupied # {}
  /\ Goto(r, "read")
  /\ job' = [job EXCEPT ![r] = [NoJob EXCEPT !.seq = Lowest(Occupied),
                                             !.frame = inbox[Lowest(Occupied)],
                                             !.stamp = now]]
  /\ UNCHANGED <<now, store, nextSeq, drain, history>>

\* Seeded fault: a lease lapses at its deadline, not after it.
ExpiredAtDeadline(l, t) == t >= l.deadline

Expired(l, t) == t > l.deadline

\* Seeded fault: a takeover does not count as an attempt.
FirstLease(l, t) == [deadline |-> t + LeaseTtl, attempts |-> 1]

\* What a claim at time t writes over the lease l it finds.
NextLease(l, t) == [deadline |-> t + LeaseTtl, attempts |-> l.attempts + 1]

\* mailbox_v0_claim.  t is the clock the poll sampled after reading the frame.
\* The claim checks that the key still holds some message, not which one.
Claim(r) ==
  LET s == job[r].seq IN
  /\ pc[r] = "read"
  /\ \/ /\ inbox[s] # NoMsg
        /\ \E t \in job[r].stamp .. now :
             /\ lease[s] = NoLease \/ Expired(lease[s], t)
             /\ lease' = [lease EXCEPT ![s] = NextLease(lease[s], t)]
             /\ job' = [job EXCEPT ![r].lease = NextLease(lease[s], t),
                                   ![r].stamp = 0]
        /\ Goto(r, "claimed")
     \/ Rest(r) /\ UNCHANGED lease    \* ERR_BUSY or ERR_NOT_FOUND
  /\ UNCHANGED <<now, inbox, dead, retry, nextSeq, drain, history>>

\* run_step on the copy of the frame, and the choice of disposition.
HandleOk(r) ==
  /\ pc[r] = "claimed"
  /\ Goto(r, "ack")
  /\ handled' = handled \cup {job[r].frame}
  /\ UNCHANGED <<now, store, nextSeq, job, drain, sent, failed, settled,
                 drained>>

\* ERR_BUSY or ERR_CONFLICT from the handler, or a runner no longer RUNNING.
HandleRetryable(r) ==
  LET m == job[r].frame IN
  /\ pc[r] = "claimed"
  /\ Goto(r, "count")
  /\ failed' = [failed EXCEPT ![m] = IF @ < RetryBudget THEN @ + 1 ELSE @]
  /\ UNCHANGED <<now, store, nextSeq, job, drain, sent, handled, settled,
                 drained>>

\* Any other failure, also of a frame addressed to another worker.
HandleFatal(r) ==
  /\ pc[r] = "claimed"
  /\ Goto(r, "requeue")
  /\ UNCHANGED <<now, store, nextSeq, job, drain, history>>

\* Seeded fault: any lease row of this worker will do.
OwnsAny(r) == lease[job[r].seq] # NoLease

\* The lease row still holds exactly what this runner's claim wrote.
Owns(r) == lease[job[r].seq] = job[r].lease

\* mailbox_v0_ack
Ack(r) ==
  LET s == job[r].seq IN
  /\ pc[r] = "ack"
  /\ \/ /\ Owns(r)
        /\ inbox[s] # NoMsg
        /\ settled' = settled \cup {inbox[s]}
        /\ inbox' = [inbox EXCEPT ![s] = NoMsg]
        /\ DropLease(s)
        /\ Goto(r, "clear")
        /\ UNCHANGED job
     \/ Rest(r) /\ UNCHANGED <<inbox, lease, settled>>
  /\ UNCHANGED <<now, dead, retry, nextSeq, drain, sent, handled, failed,
                 drained>>

\* Seeded fault: the test against UINT32_MAX is left out.
NeverFull(n) == FALSE

\* A count at UINT32_MAX is not incremented: ERR_FULL.
CountFull(n) == n = MaxCount

\* retry_count_increment: a transaction of its own, before any look at the
\* lease.  ERR_BUSY and ERR_FULL leave the poll, the lease still held.
Count(r) ==
  LET m == job[r].frame IN
  /\ pc[r] = "count"
  /\ \/ /\ ~CountFull(retry[m])
        /\ retry' = [retry EXCEPT ![m] = @ + 1]
        /\ job' = [job EXCEPT ![r].count = retry[m] + 1]
        /\ Goto(r, IF Spent(retry[m] + 1) THEN "bury" ELSE "requeue")
     \/ Rest(r) /\ UNCHANGED retry
  /\ UNCHANGED <<now, inbox, lease, dead, nextSeq, drain, history>>

\* dead_letter_v0_move: it overwrites an earlier dead letter of the same key.
Bury(r) ==
  LET s == job[r].seq IN
  /\ pc[r] = "bury"
  /\ \/ /\ Owns(r)
        /\ inbox[s] # NoMsg
        /\ dead' = [dead EXCEPT ![s] = [msg |-> inbox[s],
                                        attempts |-> job[r].count]]
        /\ inbox' = [inbox EXCEPT ![s] = NoMsg]
        /\ DropLease(s)
        /\ Goto(r, "clear")
        /\ UNCHANGED job
     \/ Rest(r) /\ UNCHANGED <<inbox, lease, dead>>
  /\ UNCHANGED <<now, retry, nextSeq, drain, history>>

\* retry_count_clear, which ERR_BUSY may skip.
Clear(r) ==
  /\ pc[r] = "clear"
  /\ \/ retry' = [retry EXCEPT ![job[r].frame] = 0]
     \/ UNCHANGED retry
  /\ Rest(r)
  /\ UNCHANGED <<now, inbox, lease, dead, nextSeq, drain, history>>

\* Seeded fault: the lowest unused number instead of the one past the last.
FirstFreeSeq(s) == Lowest((0 .. MaxSeq + 1) \ Occupied)

\* next_inbox_seq_for_worker and the loop's step past the claimed number.
NextInboxSeq(s) ==
  LET last == Highest(Occupied)
      n == IF Occupied = {} THEN 0 ELSE last + 1
  IN  IF n = s THEN n + 1 ELSE n

\* One round of requeue_claimed_inbox_message: choose the new number ...
ChooseSeq(r) ==
  /\ pc[r] = "requeue"
  /\ \/ /\ job[r].tries < RequeueMax
        /\ NextInboxSeq(job[r].seq) <= MaxSeq
        /\ job' = [job EXCEPT ![r].target = NextInboxSeq(job[r].seq)]
        /\ Goto(r, "place")
     \/ /\ \/ job[r].tries >= RequeueMax            \* ERR_FULL or ERR_BUSY
           \/ NextInboxSeq(job[r].seq) > MaxSeq     \* ERR_FULL
        /\ Rest(r)
  /\ UNCHANGED <<now, store, nextSeq, drain, history>>

\* ... and move the message there in a second transaction, mailbox_v0_requeue.
\* ERR_BUSY, ERR_CONFLICT and ERR_EXISTS go round again; a lease or a message
\* that is gone (ERR_NOT_FOUND) ends the loop.
Place(r) ==
  LET s == job[r].seq
      to == job[r].target
  IN
  /\ pc[r] = "place"
  /\ \/ /\ Owns(r)
        /\ inbox[s] # NoMsg
        /\ Free(to)
        /\ inbox' = [inbox EXCEPT ![to] = inbox[s], ![s] = NoMsg]
        /\ DropLease(s)
        /\ nextSeq' = IF Coordinated /\ to >= nextSeq THEN to + 1 ELSE nextSeq
        /\ Rest(r)
     \/ /\ job' = [job EXCEPT ![r].tries = @ + 1, ![r].target = 0]
        /\ Goto(r, "requeue")
        /\ UNCHANGED <<inbox, lease, nextSeq>>
     \/ /\ lease[s] = NoLease \/ (Owns(r) /\ inbox[s] = NoMsg)
        /\ Rest(r)
        /\ UNCHANGED <<inbox, lease, nextSeq>>
  /\ UNCHANGED <<now, dead, retry, drain, history>>

---------------------------------------------------------------------------
Poll(r) ==
  \/ Read(r) \/ Claim(r)
  \/ HandleOk(r) \/ HandleRetryable(r) \/ HandleFatal(r)
  \/ Ack(r) \/ Count(r) \/ Bury(r) \/ Clear(r)
  \/ ChooseSeq(r) \/ Place(r)

Callers ==
  \/ \E m \in Messages : InboxPut(m)
  \/ \E s \in Seqs : \E to \in ReplaySeqs : Replay(s, to)
  \/ DrainRead
  \/ DrainDelete

Next == Tick \/ Callers \/ \E r \in Runners : Poll(r)

Spec == Init /\ [][Next]_vars

---------------------------------------------------------------------------
(* Properties                                                              *)

\* Types; in particular sequence numbers and retry counts stay within their width
\* and a runner that is not idle holds a message, never an empty frame.
TypeOK ==
  /\ now \in 0 .. MaxTime
  /\ inbox \in [Seqs -> Messages \cup {NoMsg}]
  /\ lease \in [Seqs -> Leases]
  /\ dead \in [Seqs -> Letters \cup {NoLetter}]
  /\ retry \in [Messages -> 0 .. MaxCount]
  /\ nextSeq \in 1 .. MaxSeq + 1
  /\ pc \in [Runners -> Stages]
  /\ job \in [Runners -> Jobs]
  /\ \A r \in Runners : pc[r] # "idle" => job[r].frame \in Messages
  /\ drain \in [seq : Seqs, letter : Letters \cup {NoLetter}]
  /\ sent \in SUBSET Messages
  /\ handled \in SUBSET Messages
  /\ failed \in [Messages -> 0 .. RetryBudget]
  /\ settled \in SUBSET Messages
  /\ drained \in SUBSET Messages

\* Until its deadline passes, nothing takes a runner's lease away: no other
\* claim, ack, requeue, burial or producer touches the row it wrote.
LeaseHonoured ==
  \A r \in Runners :
    Holding(r) /\ now <= job[r].lease.deadline => Owns(r)

\* However often a lease lapses and is taken over, two runners never both
\* hold the token that lets them dispose of the message.
ExclusiveClaim ==
  \A r1, r2 \in Runners :
    /\ Holding(r1) /\ Owns(r1)
    /\ Holding(r2) /\ Owns(r2)
    /\ job[r1].seq = job[r2].seq
    => r1 = r2

\* An inbox is worked strictly from its head: only the lowest message is ever
\* leased, so two messages are never in flight under valid leases at once.
HeadOnly ==
  \A s \in Seqs :
    lease[s] # NoLease => inbox[s] # NoMsg /\ s = Lowest(Occupied)

\* The message a runner may dispose of is the one its handler was run on, even
\* though the frame was copied in an earlier transaction than the claim.
FrameMatches ==
  \A r \in Runners :
    Holding(r) /\ Owns(r) => inbox[job[r].seq] = job[r].frame

Queued(m) == \E s \in Seqs : inbox[s] = m
Buried(m) == \E s \in Seqs : dead[s].msg = m

\* No interleaving of producers, takeovers, requeues, burials, replays and
\* drains loses a message: until it is acknowledged or drained it is stored.
NoMessageLost ==
  \A m \in sent : Queued(m) \/ Buried(m) \/ m \in settled \/ m \in drained

\* ... and none of them duplicates one: a stale requeue, a replay that races a
\* drain, or a late ack never leaves a message in two places.
SingleCopy ==
  /\ \A s, t \in Seqs : inbox[s] # NoMsg /\ inbox[s] = inbox[t] => s = t
  /\ \A s, t \in Seqs : dead[s] # NoLetter /\ dead[s].msg = dead[t].msg => s = t
  /\ \A m \in Messages :
       /\ Queued(m) => ~Buried(m)
       /\ Queued(m) \/ Buried(m) => m \in sent \ (settled \cup drained)
  /\ settled \cap drained = {}

\* The place the ledger gives a message.
PlaceOf(m) ==
  CASE m \notin sent -> "unsent"
    [] m \in settled -> "settled"
    [] m \in drained -> "drained"
    [] Queued(m)     -> "queued"
    [] Buried(m)     -> "dead"
    [] OTHER         -> "lost"

Ledger == INSTANCE MessageLedger
            WITH place <- [m \in Messages |-> PlaceOf(m)]

\* Runners, leases and sequence numbers implement the ledger: a message is
\* settled only after its own handler succeeded, dead only after it failed
\* RetryBudget times, and never comes back once it is settled or drained.
ImplementsLedger == Ledger!Spec

---------------------------------------------------------------------------
(* The inductive invariant behind the safety properties when callers are   *)
(* coordinated.  The inbox is a contiguous run of keys ending just below   *)
(* nextSeq, because a message is removed only by a runner whose key is the *)
(* lowest, and added only at nextSeq.  So no key is ever filled twice, and *)
(* what a runner remembers about its key stays true of it.                 *)

\* The inbox is contiguous: from any message up to nextSeq every key is filled.
Contiguous ==
  /\ \A s \in Seqs : inbox[s] # NoMsg => s < nextSeq
  /\ \A s, u \in Seqs : inbox[s] # NoMsg /\ s <= u /\ u < nextSeq => inbox[u] # NoMsg

\* Leases are only on messages, and only on the lowest.
LeasesAtHead ==
  \A s \in Seqs : lease[s] # NoLease =>
    /\ lease[s].attempts >= 1
    /\ inbox[s] # NoMsg
    /\ \A t \in Seqs : inbox[t] # NoMsg => s <= t

\* Each key is filled once, so a dead letter's key never holds a message again.
LettersBelow ==
  \A s \in Seqs : dead[s] # NoLetter => s < nextSeq /\ inbox[s] = NoMsg

\* A runner's key was the lowest when it was read and no lower one appears.
KeyOK(r) ==
  pc[r] # "idle" =>
    /\ job[r].seq < nextSeq
    /\ \A s \in Seqs : inbox[s] # NoMsg => job[r].seq <= s

\* A runner's copy of the frame is what is under its key, if anything is.
FrameOK(r) ==
  pc[r] \notin {"idle", "clear"} => inbox[job[r].seq] \in {NoMsg, job[r].frame}

\* Tokens carry their attempt number, which takeovers only increase.
TokenOK(r) ==
  Holding(r) =>
    /\ job[r].lease.attempts >= 1
    /\ inbox[job[r].seq] # NoMsg =>
         /\ job[r].lease.attempts <= lease[job[r].seq].attempts
         /\ job[r].lease.attempts = lease[job[r].seq].attempts => Owns(r)

\* While the message is there, a requeue's target is above it and at most
\* nextSeq: free only if it is nextSeq itself.
TargetOK(r) ==
  pc[r] = "place" /\ inbox[job[r].seq] # NoMsg =>
    job[r].seq < job[r].target /\ job[r].target <= nextSeq

\* LeaseHonoured, of one runner.
LeaseOK(r) == Holding(r) /\ now <= job[r].lease.deadline => Owns(r)

DistinctTokens ==
  \A r1, r2 \in Runners :
    /\ Holding(r1) /\ Holding(r2) /\ r1 # r2
    /\ job[r1].seq = job[r2].seq
    /\ inbox[job[r1].seq] # NoMsg
    => job[r1].lease.attempts # job[r2].lease.attempts

StoreOK   == Contiguous /\ LeasesAtHead /\ LettersBelow
RunnerOK(r) == /\ KeyOK(r) /\ FrameOK(r) /\ TokenOK(r) /\ TargetOK(r)
               /\ LeaseOK(r)

\* Why leases fence: the part of the invariant about keys and tokens.
Fencing == StoreOK /\ (\A r \in Runners : RunnerOK(r)) /\ DistinctTokens

\* Where messages are, and that runners only work on messages that were sent.
Accounting ==
  /\ NoMessageLost
  /\ SingleCopy
  /\ settled \cup drained \subseteq sent
  /\ \A r \in Runners : pc[r] # "idle" => job[r].frame \in sent

IInv == TypeOK /\ Fencing /\ Accounting

\* Runners are interchangeable, and so are messages.
Symmetry == Permutations(Runners) \cup Permutations(Messages)

============================================================================

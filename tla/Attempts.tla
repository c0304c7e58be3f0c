----------------------------- MODULE Attempts -----------------------------
(***************************************************************************)
(* One caller of the attempt engine (sap_runner_attempt_v0_run) and the    *)
(* database it shares with every other writer.                             *)
(*                                                                         *)
(* An attempt runs an atomic function against a snapshot.  The function    *)
(* reads, stages writes and intents in a stack of frames, and may nest     *)
(* frames, commit or abort them.  The engine then opens a short write      *)
(* transaction, checks that what the root frame read is still there,       *)
(* applies its writes and commits; a conflict or a busy store starts the   *)
(* attempt again.  Intents are handed to the sink after the commit.        *)
(*                                                                         *)
(* The atomic function is any sequence of calls, ended by any result.      *)
(* Everyone else who writes the database, other attempts included, is      *)
(* OtherWrite: a write transaction is one step, since a second one is      *)
(* refused with ERR_BUSY for as long as it is open.                        *)
(* Rows are keyed by database and key together; memory does not run out    *)
(* within a frame, and rows fit their schema.                              *)
(***************************************************************************)
EXTENDS Integers, FiniteSets, Sequences, SequencesExt, TLC

CONSTANTS
  Keys,         \* rows, by database and key
  Values,
  Absent,       \* a row that does not exist; staged, a deletion
  Intents,
  MaxRetries,   \* policy->max_retries
  MaxDepth,     \* bound on the frames a function opens
  MaxCalls      \* bound on the calls a function makes in one attempt

ASSUME RetriesAssumption == MaxRetries \in Nat
ASSUME BoundsAssumption  == MaxDepth \in Nat \ {0} /\ MaxCalls \in Nat
ASSUME AbsentAssumption  == Absent \notin Values

Stored    == Values \cup {Absent}
Retryable == {"BUSY", "CONFLICT"}
Errors    == Retryable \cup {"FAIL"}

VARIABLES
  store,      \* the committed rows
  pc,         \* where the engine is
  rc,         \* the result of the last call of the engine
  attemptNo,  \* attempt_no, the retries used
  snapshot,   \* what the attempt's read transaction sees
  frames,     \* stack->frames
  toPublish,  \* the root's intents the sink has not been given
  log,        \* history: the function's calls and answers, frame by frame
  sent,       \* history: what the sink accepted in this call of the engine
  commits     \* history: write transactions committed in this call

attempt == <<snapshot, frames, log>>
history == <<sent, commits>>
vars    == <<store, pc, rc, attemptNo, attempt, toPublish, history>>

---------------------------------------------------------------------------
(* Frames                                                                  *)

\* Partial functions from rows to what was read or staged.
Rows == UNION {[ks -> Stored] : ks \in SUBSET Keys}

\* Rows f over rows g, and row k with value v over rows g.
Over(f, g)   == [x \in DOMAIN f \cup DOMAIN g |-> IF x \in DOMAIN f THEN f[x] ELSE g[x]]
Put(g, k, v) == Over([x \in {k} |-> v], g)

Frame      == [reads : Rows, writes : Rows, intents : Seq(Intents)]
EmptyFrame == [reads |-> << >>, writes |-> << >>, intents |-> << >>]

Top == Len(frames)

WritingFrames(k) == {d \in DOMAIN frames : k \in DOMAIN frames[d].writes}
ReadingFrames(k) == {d \in DOMAIN frames : k \in DOMAIN frames[d].reads}
Uppermost(ds)    == CHOOSE d \in ds : \A e \in ds : e <= d

\* Seeded fault: reads recorded earlier are preferred to staged writes.
StackReadStale(k) ==
  IF ReadingFrames(k) # {} THEN frames[Uppermost(ReadingFrames(k))].reads[k]
  ELSE IF WritingFrames(k) # {} THEN frames[Uppermost(WritingFrames(k))].writes[k]
  ELSE snapshot[k]

\* What a read of row k answers: the uppermost staged write, else the
\* uppermost recorded read, else the snapshot.
StackRead(k) ==
  IF WritingFrames(k) # {} THEN frames[Uppermost(WritingFrames(k))].writes[k]
  ELSE IF ReadingFrames(k) # {} THEN frames[Uppermost(ReadingFrames(k))].reads[k]
  ELSE snapshot[k]

\* Seeded fault: reads of staged rows are recorded too.
RecordedAll(k) ==
  IF ReadingFrames(k) # {} THEN frames
  ELSE [frames EXCEPT ![Top].reads = Put(@, k, StackRead(k))]

\* Only a read that goes to the snapshot is recorded, in the top frame.
Recorded(k) ==
  IF WritingFrames(k) \cup ReadingFrames(k) # {} THEN frames
  ELSE [frames EXCEPT ![Top].reads = Put(@, k, snapshot[k])]

\* The child's reads that merging compares with the parent's or adds to them.
Carried(parent, child) == DOMAIN child.reads \ DOMAIN parent.writes

MergeClash(parent, child) ==
  \E k \in Carried(parent, child) :
    k \in DOMAIN parent.reads /\ parent.reads[k] # child.reads[k]

WithReads(parent, child, ks) ==
  [parent EXCEPT !.reads = Over(@, [k \in ks |-> child.reads[k]])]

\* Merging a committed frame into the one below.
Merged(parent, child) ==
  [WithReads(parent, child, Carried(parent, child)) EXCEPT
     !.writes = Over(child.writes, @), !.intents = @ \o child.intents]

\* Seeded fault: a row that was not there is not looked for again.
StillCurrentIfRead(frame) ==
  \A k \in DOMAIN frame.reads : frame.reads[k] # Absent => store[k] = frame.reads[k]

\* What validate_reads finds for the rows a frame has read.
StillCurrent(frame) == \A k \in DOMAIN frame.reads : store[k] = frame.reads[k]

---------------------------------------------------------------------------
(* The engine                                                              *)

Init ==
  /\ store \in [Keys -> Stored]
  /\ pc = "idle" /\ rc = "OK" /\ attemptNo = 0
  /\ snapshot = store /\ frames = << >> /\ log = << >>
  /\ toPublish = << >> /\ sent = << >> /\ commits = 0

Call ==
  /\ pc = "idle"
  /\ pc' = "begin" /\ attemptNo' = 0
  /\ sent' = << >> /\ commits' = 0
  /\ UNCHANGED <<store, rc, attempt, toPublish>>

\* The stack is reset, a root frame pushed and a snapshot taken.
Begin ==
  /\ pc = "begin"
  /\ pc' = "atomic"
  /\ snapshot' = store /\ frames' = <<EmptyFrame>> /\ log' = << << >> >>
  /\ UNCHANGED <<store, rc, attemptNo, toPublish, history>>

\* The engine returns e and disposes of the stack.
Return(e) == pc' = "idle" /\ rc' = e /\ frames' = << >>

\* Seeded fault: one retry too many.
FailedOnceMore(e) ==
  /\ IF e \in Retryable /\ attemptNo <= MaxRetries
       THEN pc' = "begin" /\ attemptNo' = attemptNo + 1 /\ UNCHANGED <<rc, frames>>
       ELSE Return(e) /\ UNCHANGED attemptNo
  /\ UNCHANGED <<store, snapshot, log, toPublish, history>>

\* Seeded fault: only a conflict is worth a retry.
FailedUnlessConflict(e) ==
  /\ IF e = "CONFLICT" /\ attemptNo < MaxRetries
       THEN pc' = "begin" /\ attemptNo' = attemptNo + 1 /\ UNCHANGED <<rc, frames>>
       ELSE Return(e) /\ UNCHANGED attemptNo
  /\ UNCHANGED <<store, snapshot, log, toPublish, history>>

\* An attempt that failed with e is made again if that can help.
Failed(e) ==
  /\ IF e \in Retryable /\ attemptNo < MaxRetries
       THEN pc' = "begin" /\ attemptNo' = attemptNo + 1 /\ UNCHANGED <<rc, frames>>
       ELSE Return(e) /\ UNCHANGED attemptNo
  /\ UNCHANGED <<store, snapshot, log, toPublish, history>>

BeginFails ==
  /\ pc = "begin"
  /\ Failed("FAIL")

---------------------------------------------------------------------------
(* The atomic function.  A call with no frame open is refused and changes  *)
(* nothing.                                                                *)

CallsMade == Len(FlattenSeq(log))

Noted(call) == log' = [log EXCEPT ![Len(log)] = Append(@, call)]

InFunction == pc = "atomic" /\ UNCHANGED <<store, pc, rc, attemptNo, snapshot, toPublish, history>>
InFrame    == InFunction /\ Top > 0 /\ CallsMade < MaxCalls

ReadRow(k) ==
  /\ InFrame
  /\ frames' = Recorded(k)
  /\ Noted([call |-> "read", key |-> k, val |-> StackRead(k)])

\* stage_put, or stage_del when v is Absent.
Stage(k, v) ==
  /\ InFrame
  /\ frames' = [frames EXCEPT ![Top].writes = Put(@, k, v)]
  /\ Noted([call |-> "write", key |-> k, val |-> v])

PushIntent(i) ==
  /\ InFrame
  /\ frames' = [frames EXCEPT ![Top].intents = Append(@, i)]
  /\ Noted([call |-> "intent", intent |-> i])

Push ==
  /\ InFunction /\ Top < MaxDepth
  /\ frames' = Append(frames, EmptyFrame)
  /\ log' = Append(log, << >>)

\* A clash leaves the frame open, with some of its reads already merged.
CommitTop ==
  /\ InFunction /\ Top >= 2
  /\ LET parent == frames[Top - 1]
         child  == frames[Top]
         below  == SubSeq(frames, 1, Top - 2)
     IN IF MergeClash(parent, child)
          THEN /\ \E ks \in SUBSET (Carried(parent, child) \ DOMAIN parent.reads) :
                    frames' = below \o <<WithReads(parent, child, ks), child>>
               /\ UNCHANGED log
          ELSE /\ frames' = Append(below, Merged(parent, child))
               /\ log' = Append(SubSeq(log, 1, Top - 2), log[Top - 1] \o log[Top])

AbortTop ==
  /\ InFunction /\ Top >= 1
  /\ frames' = Front(frames)
  /\ log' = Front(log)

FunctionReturns ==
  /\ pc = "atomic"
  /\ pc' = "commit"
  /\ UNCHANGED <<store, rc, attemptNo, attempt, toPublish, history>>

FunctionFails(e) ==
  /\ pc = "atomic"
  /\ Failed(e)

---------------------------------------------------------------------------
(* The commit and what follows it                                          *)

\* Another write transaction is open.
StoreBusy ==
  /\ pc = "commit"
  /\ Failed("BUSY")

\* The function left a frame open or closed the root.
Unbalanced ==
  /\ pc = "commit" /\ Top # 1
  /\ Failed("BUSY")

Conflict ==
  /\ pc = "commit" /\ Top = 1 /\ ~StillCurrent(frames[1])
  /\ Failed("CONFLICT")

\* A write or the commit fails; the transaction is given up.
ApplyFails ==
  /\ pc = "commit" /\ Top = 1 /\ StillCurrent(frames[1])
  /\ Failed("FAIL")

Commit ==
  /\ pc = "commit" /\ Top = 1 /\ StillCurrent(frames[1])
  /\ store' = Over(frames[1].writes, store)
  /\ toPublish' = frames[1].intents
  /\ commits' = commits + 1
  /\ pc' = "publish"
  /\ UNCHANGED <<rc, attemptNo, attempt, sent>>

Publish ==
  /\ pc = "publish" /\ toPublish # << >>
  /\ sent' = Append(sent, Head(toPublish))
  /\ toPublish' = Tail(toPublish)
  /\ UNCHANGED <<store, pc, rc, attemptNo, attempt, commits>>

\* Seeded fault: a busy sink starts the attempt again.
SinkRetried(e) ==
  /\ pc = "publish" /\ toPublish # << >>
  /\ Failed(e)

\* What the sink answers is the result; a retryable answer is not retried.
SinkFails(e) ==
  /\ pc = "publish" /\ toPublish # << >>
  /\ Return(e) /\ toPublish' = << >>
  /\ UNCHANGED <<store, attemptNo, snapshot, log, history>>

Done ==
  /\ pc = "publish" /\ toPublish = << >>
  /\ Return("OK")
  /\ UNCHANGED <<store, attemptNo, snapshot, log, toPublish, history>>

\* A transaction of anyone else.
OtherWrite(k, v) ==
  /\ store' = [store EXCEPT ![k] = v]
  /\ UNCHANGED <<pc, rc, attemptNo, attempt, toPublish, history>>

Function ==
  \/ \E k \in Keys : ReadRow(k) \/ \E v \in Stored : Stage(k, v)
  \/ \E i \in Intents : PushIntent(i)
  \/ Push \/ CommitTop \/ AbortTop

Engine ==
  \/ Begin \/ BeginFails
  \/ FunctionReturns \/ \E e \in Errors : FunctionFails(e)
  \/ StoreBusy \/ Unbalanced \/ Conflict \/ ApplyFails \/ Commit
  \/ Publish \/ Done \/ \E e \in Errors : SinkFails(e)

Next ==
  \/ Call \/ Engine \/ Function
  \/ \E k \in Keys, v \in Stored : OtherWrite(k, v)

Spec == Init /\ [][Next]_vars

\* For the runs: rows and intents are interchangeable.
Symmetry == Permutations(Keys) \cup Permutations(Intents)

---------------------------------------------------------------------------
(* Properties                                                              *)

\* What a call made again does: to the rows, to the rows of which a read is told
\* something else, and to the intents.
Replayed(acc, c) ==
  IF c.call = "write" THEN [acc EXCEPT !.rows[c.key] = c.val]
  ELSE IF c.call = "intent" THEN [acc EXCEPT !.intents = Append(@, c.intent)]
  ELSE IF acc.rows[c.key] # c.val THEN [acc EXCEPT !.wrong = @ \cup {c.key}]
  ELSE acc

Start(rows) == [rows |-> rows, wrong |-> {}, intents |-> << >>]

Replay(calls, acc) ==
  LET upTo[n \in 0 .. Len(calls)] ==
        IF n = 0 THEN acc ELSE Replayed(upTo[n - 1], calls[n])
  IN upTo[Len(calls)]

\* The calls of all frames, those of the root first.
ReplayAll ==
  LET upTo[d \in 0 .. Len(log)] ==
        IF d = 0 THEN Start(snapshot) ELSE Replay(log[d], upTo[d - 1])
  IN upTo[Len(log)]

IntentsOf(calls) == Replay(calls, Start(snapshot)).intents

CallRecord ==
  [call : {"read", "write"}, key : Keys, val : Stored]
    \cup [call : {"intent"}, intent : Intents]

\* Every variable has its type; the log has one sequence of calls per frame.
TypeOK ==
  /\ store \in [Keys -> Stored] /\ snapshot \in [Keys -> Stored]
  /\ pc \in {"idle", "begin", "atomic", "commit", "publish"}
  /\ rc \in Errors \cup {"OK"}
  /\ attemptNo \in 0 .. MaxRetries
  /\ frames \in Seq(Frame) /\ log \in Seq(Seq(CallRecord))
  /\ pc \notin {"idle", "begin"} => Len(log) = Len(frames)
  /\ Len(frames) <= MaxDepth
  /\ toPublish \in Seq(Intents) /\ sent \in Seq(Intents)
  /\ commits \in Nat

\* What a function was told in the frames that are still there is what it would
\* have been told had it run alone on its snapshot, whatever was nested, merged
\* or aborted in between and whoever wrote meanwhile (txstack read_dbi, merge).
Opaque == pc \in {"atomic", "commit"} => ReplayAll.wrong = {}

\* A commit leaves the rows, and the intents to publish, as if the function had
\* run, alone and with the same answers, at the moment of the commit
\* (validate_reads, apply_writes).
CommittedIsSerial ==
  [][commits' > commits =>
       Replay(log[1], Start(store)) =
         [rows |-> store', wrong |-> {}, intents |-> toPublish']]_vars

\* An attempt is refused for a conflict only if its function, run on the rows
\* of that moment, would have been told something else (validate_reads).
ConflictIsReal ==
  [][pc = "commit" /\ Conflict => Replay(log[1], Start(store)).wrong # {}]_vars

\* The sink is given the intents of frames that were not aborted, in the order
\* they were pushed, each once, after the commit of the only attempt that
\* committed; an OK means that it took them all (attempt_v0_run).
IntentsInOrder ==
  /\ commits <= 1
  /\ sent # << >> => commits = 1
  /\ commits = 1 => IsPrefix(sent \o toPublish, IntentsOf(log[1]))
  /\ (commits = 1 /\ (pc = "publish" \/ rc = "OK")) => sent \o toPublish = IntentsOf(log[1])
  /\ pc = "idle" /\ rc = "OK" /\ log # << >> => commits = 1

\* A retryable result is reported only when every retry is spent or when the
\* writes are already in and it was the sink that refused (attempt_v0_run).
RetriesSpent ==
  (pc = "idle" /\ rc \in Retryable) => attemptNo = MaxRetries \/ commits = 1

===========================================================================

-------------------------------- MODULE Ttl --------------------------------
(* Values with a time to live (sapling.c): beside the data database a second *)
(* one holds, for each key, a lookup row with its time and an index row that *)
(* orders the keys by time.  The sweep of a worker walks the index on from   *)
(* its checkpoint.  Plain puts and deletes of the same data know nothing of  *)
(* the rows.                                                                  *)
EXTENDS Naturals, FiniteSets, Sequences
LOCAL INSTANCE SequencesExt

CONSTANTS Keys,     \* naturals, in the order of the keys
          MaxTime,  \* bound on the clock and on the times of values
          MaxBatch  \* most rows a sweep takes

VARIABLES data,   \* what each key holds: the time a value was put with, Plain or Gone
          expiry, \* the lookup rows: a time for some of the keys
          index,  \* the index rows, <<time, key>>
          cp,     \* SapSweepCheckpoint of the worker: rows, at most one
          now

vars == <<data, expiry, index, cp, now>>

Gone == MaxTime + 1  \* no value
Plain == MaxTime + 2 \* a value put without a time

Times == 0 .. MaxTime

----------------------------------------------------------------------------
Before(r, s) == r[1] < s[1] \/ (r[1] = s[1] /\ r[2] < s[2])

Init ==
  /\ data = [k \in Keys |-> Gone]
  /\ expiry = <<>>
  /\ index = {} /\ cp = {} /\ now = 0

Without(f, S) == [k \in DOMAIN f \ S |-> f[k]]

\* Seeded fault: a put that keeps the index row of the time before.
FaultyPutTtl(k, t) ==
  /\ data' = [data EXCEPT ![k] = t]
  /\ expiry' = [j \in DOMAIN expiry \cup {k} |-> IF j = k THEN t ELSE expiry[j]]
  /\ index' = index \cup {<<t, k>>}
  /\ UNCHANGED <<cp, now>>

\* One child transaction: it replaces the rows of the key or none of them.
PutTtl(k, t) ==
  /\ data' = [data EXCEPT ![k] = t]
  /\ expiry' = [j \in DOMAIN expiry \cup {k} |-> IF j = k THEN t ELSE expiry[j]]
  /\ index' = (index \ {r \in index : k \in DOMAIN expiry /\ r = <<expiry[k], k>>})
              \cup {<<t, k>>}
  /\ UNCHANGED <<cp, now>>

PutPlain(k) == data' = [data EXCEPT ![k] = Plain] /\ UNCHANGED <<expiry, index, cp, now>>
DelPlain(k) == data' = [data EXCEPT ![k] = Gone] /\ UNCHANGED <<expiry, index, cp, now>>

\* A lazy read deletes what it finds expired, in the caller's transaction.
GetTtl(k) ==
  /\ k \in DOMAIN expiry /\ expiry[k] <= now
  /\ data' = [data EXCEPT ![k] = Gone]
  /\ expiry' = Without(expiry, {k})
  /\ index' = index \ {<<expiry[k], k>>}
  /\ UNCHANGED <<cp, now>>

\* The rows from the checkpoint on that have expired, in order, up to a batch.
Collected(from, max) ==
  LET due == {r \in index : r[1] <= now /\ \A c \in from : ~Before(r, c)}
      rows == SetToSortSeq(due, Before)
  IN  SubSeq(rows, 1, IF Len(rows) < max THEN Len(rows) ELSE max)

\* A row the lookup row no longer agrees with goes alone.
Expire(rows) ==
  LET took == {rows[i] : i \in DOMAIN rows}
      keys == {k \in DOMAIN expiry : <<expiry[k], k>> \in took}
  IN  /\ data' = [k \in Keys |-> IF k \in keys THEN Gone ELSE data[k]]
      /\ expiry' = Without(expiry, keys)
      /\ index' = index \ took

Advanced(rows) == IF rows = <<>> THEN cp ELSE {rows[Len(rows)]}

\* The sweep of a worker's tick.
Sweep(max) ==
  LET rows == Collected(cp, max)
  IN  Expire(rows) /\ cp' = Advanced(rows) /\ UNCHANGED now

\* A delete fails midway: the child is aborted, the checkpoint moves on.
SweepFails(max) ==
  LET rows == Collected(cp, max)
  IN  /\ rows # <<>>
      /\ cp' = Advanced(rows)
      /\ UNCHANGED <<data, expiry, index, now>>

\* txn_sweep_ttl_dbi and its bounded form: from the start of the index.
SweepAll(max) == Expire(Collected({}, max)) /\ UNCHANGED <<cp, now>>

ClearCheckpoint == cp' = {} /\ UNCHANGED <<data, expiry, index, now>>

Tick == now < MaxTime /\ now' = now + 1 /\ UNCHANGED <<data, expiry, index, cp>>

Next ==
  \/ \E k \in Keys, t \in Times : PutTtl(k, t)
  \/ \E k \in Keys : PutPlain(k) \/ DelPlain(k) \/ GetTtl(k)
  \/ \E max \in 1 .. MaxBatch : Sweep(max) \/ SweepFails(max) \/ SweepAll(max)
  \/ ClearCheckpoint \/ Tick

Spec == Init /\ [][Next]_vars

----------------------------------------------------------------------------
\* Whatever fails or is overwritten, there is one index row for each lookup
\* row, with its time, and a value that was put with a time has those rows: so
\* no value stays for ever for want of a row, and none is swept before its time
\* (sapling.c:3482-3880).
RowsAgree ==
  /\ index = {<<expiry[k], k>> : k \in DOMAIN expiry}
  /\ \A k \in Keys : data[k] \in Times =>
       k \in DOMAIN expiry /\ expiry[k] = data[k]

============================================================================

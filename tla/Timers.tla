------------------------------- MODULE Timers -------------------------------
(***************************************************************************)
(* The timers of a runner's database: rows of DBI 4, which a checkpoint    *)
(* keeps, and an index of them (a BEPT) that lives in memory only.         *)
(*                                                                         *)
(* Arming and deleting a timer change both in one transaction.  A restore  *)
(* of a checkpoint brings back the rows of that time and leaves the index  *)
(* as it is, so a reader must expect the index to name timers that are     *)
(* gone, to miss some, or to hold an old payload; it repairs what it       *)
(* meets, one write transaction per repair.  Both orders of keys are       *)
(* those of unsigned bytes; the index flips the sign of the time.          *)
(* The payload of a timer is a message, here the worker it is for.         *)
(***************************************************************************)
EXTENDS Integers, FiniteSets, FiniteSetsExt

CONSTANTS
  Workers,       \* addressees of messages
  NoRow,         \* no row under a key
  Dues,          \* due times used, signed
  Word,          \* a time is log2(Word) bits wide
  MaxSeq,        \* bound on the timers armed
  MaxRestores    \* bound on the restores

ASSUME TimersAssumption ==
  /\ Word \in Nat \ {0} /\ Word % 2 = 0
  /\ Dues \subseteq -(Word \div 2) .. (Word \div 2) - 1 /\ Dues # {}
  /\ MaxSeq \in Nat \ {0} /\ MaxRestores \in Nat
  /\ NoRow \notin Workers

Keys     == [due : Dues, seq : 0 .. MaxSeq - 1]
Contents == [Keys -> Workers \cup {NoRow}]

VARIABLES
  rows,        \* DBI 4
  index,       \* the BEPT
  saved,       \* the rows of the checkpoint
  nextSeq,     \* publisher->next_seq
  restores     \* restores so far

timers == <<rows, index, saved, nextSeq, restores>>

Empty == [k \in Keys |-> NoRow]

Stored(f) == {k \in Keys : f[k] # NoRow}

TimersInit ==
  /\ rows = Empty
  /\ index = Empty
  /\ saved = Empty
  /\ nextSeq = 0
  /\ restores = 0

---------------------------------------------------------------------------
(* Keys                                                                    *)

\* The bytes of DBI 4 hold the two's complement of the time, those of the
\* index the time with its sign bit flipped.
RawTime(due)   == due % Word
IndexTime(due) == (due + Word \div 2) % Word

Least(S, Time(_)) ==
  CHOOSE k \in S : \A l \in S \ {k} :
    Time(k.due) < Time(l.due) \/ (Time(k.due) = Time(l.due) /\ k.seq < l.seq)

FirstRow == Least(Stored(rows), RawTime)
IndexMin == Least(Stored(index), IndexTime)

---------------------------------------------------------------------------
(* What the read transaction of one round of read_valid_min_timer finds:   *)
(* the timer to return, a repair to make, or nothing.                      *)

Found(how, k, to) == [how |-> how, key |-> k, to |-> to]
Somewhere == CHOOSE k \in Keys : TRUE
Nothing   == Found("none", Somewhere, NoRow)

\* Seeded fault: the first row of DBI 4 is not compared with the index's.
RoundTrustsIndex ==
  IF Stored(index) = {} THEN Found("seed", Somewhere, NoRow)
  ELSE IF rows[IndexMin] = NoRow THEN Found("prune", IndexMin, NoRow)
  ELSE Found("timer", IndexMin, rows[IndexMin])

RoundFinds ==
  IF Stored(index) = {} THEN Found("seed", Somewhere, NoRow)
  ELSE IF rows[IndexMin] = NoRow THEN Found("prune", IndexMin, NoRow)
  ELSE IF FirstRow # IndexMin THEN Found("upsert", FirstRow, rows[FirstRow])
  ELSE IF index[IndexMin] # rows[IndexMin]
       THEN Found("upsert", IndexMin, rows[IndexMin])
  ELSE Found("timer", IndexMin, rows[IndexMin])

\* Seeded fault: an empty index is taken for an empty database.
SeedSkipped == Nothing

\* The read transaction of seed_bept_from_first_timer_row.
SeedFinds ==
  IF Stored(rows) = {} THEN Nothing ELSE Found("upsert", FirstRow, rows[FirstRow])

\* upsert_bept_row and prune_bept_row write what the round found, which may be
\* out of date by then.
Repair(f) ==
  /\ index' = [index EXCEPT ![f.key] = IF f.how = "prune" THEN NoRow ELSE f.to]
  /\ UNCHANGED <<rows, saved, nextSeq, restores>>

---------------------------------------------------------------------------
(* Whole transactions                                                      *)

\* publish_intent: the row must be new (SAP_NOOVERWRITE), and the number is
\* used up only then.
Append(due, to) ==
  LET k == [due |-> due, seq |-> nextSeq] IN
  /\ nextSeq < MaxSeq
  /\ rows[k] = NoRow
  /\ rows' = [rows EXCEPT ![k] = to]
  /\ index' = [index EXCEPT ![k] = to]
  /\ nextSeq' = nextSeq + 1
  /\ UNCHANGED <<saved, restores>>

\* delete_timer_if_match: it deletes nothing but the row the caller was given.
Matches(k, to) == rows[k] = to

DeleteIfMatch(k, to) ==
  /\ IF Matches(k, to)
     THEN /\ rows' = [rows EXCEPT ![k] = NoRow]
          /\ index' = [index EXCEPT ![k] = NoRow]
     ELSE UNCHANGED <<rows, index>>
  /\ UNCHANGED <<saved, nextSeq, restores>>

\* db_checkpoint; bound: one is taken of a database with timers.
Checkpoint ==
  /\ saved = Empty
  /\ restores < MaxRestores
  /\ saved' = rows
  /\ UNCHANGED <<rows, index, nextSeq, restores>>

\* db_restore: pages of the trees only.
Restore ==
  /\ restores < MaxRestores
  /\ rows' = saved
  /\ restores' = restores + 1
  /\ UNCHANGED <<index, saved, nextSeq>>

\* sync_index, which sap_runner_v0_init calls for every runner that starts.
SyncIndex ==
  /\ index' = rows
  /\ UNCHANGED <<rows, saved, nextSeq, restores>>
=============================================================================

------------------------------ MODULE Watches ------------------------------
(* Watches of a database: callers that are told, after a commit, of the keys *)
(* under a prefix that it changed (sapling.c).  Transactions lie in one      *)
(* another, one thread writes at a time, and threads that have committed     *)
(* tell while others write.  That a put reaches its row is BTree; here it is *)
(* a choice whether it fills a page below a parent with room.                *)
EXTENDS Naturals, Sequences, SequencesExt, FiniteSets

CONSTANTS Threads,
          Dbis,        \* ordered key spaces, one value to a key unless dupsort
          Keys,        \* keys, sequences
          Watchers,    \* watches that may be set: records of dbi, prefix, cb
          MaxDepth     \* bound on transactions in one another

VARIABLES watches,  \* the watches that are set, oldest first
          dupsort,  \* key spaces with many values to a key
          txns,     \* the open transactions, outermost first
          writer,   \* the thread they belong to
          tells,    \* [thread -> what it tells]
          owed,     \* ghost: [thread -> calls it has yet to make]
          wrong     \* ghost: a call that nothing called for, or one made twice

watchVars == <<watches, dupsort, txns, writer, tells, owed, wrong>>

NoThread == 0
Rows == Dbis \X Keys
Nothing == [at |-> "rest", snap |-> <<>>, changes |-> <<>>, done |-> 0, cause |-> {}]

\* A transaction: what it has recorded, whether it records, and, as ghosts,
\* the rows that it touched, those of which it kept no record, and those that
\* it recorded for others.
Blank == [changes |-> <<>>, tracking |-> FALSE, touched |-> {}, silent |-> {}, stray |-> {}]

----------------------------------------------------------------------------
(* The changes of a transaction, each row once.                              *)

Track(t, row) ==
  IF ~t.tracking \/ row[1] \in dupsort \/ Contains(t.changes, row)
  THEN t ELSE [t EXCEPT !.changes = Append(@, row)]

FaultyMerge(t, child) == \* Seeded fault: a parent that recorded nothing yet takes nothing over
  IF t.changes = <<>> THEN t ELSE FoldLeft(Track, t, child.changes)

RepeatingMerge(t, child) == \* Seeded fault: rows are taken over that the parent recorded itself
  [t EXCEPT !.changes = IF t.tracking THEN @ \o child.changes ELSE @]

Merge(t, child) == FoldLeft(Track, t, child.changes)

Top == txns[Len(txns)]
SetTop(t) == txns' = [txns EXCEPT ![Len(txns)] = t]

----------------------------------------------------------------------------
(* Watches, none set or taken back while someone writes.                     *)

Has(d) == \E i \in DOMAIN watches : watches[i].dbi = d

Watch(w) ==
  /\ writer = NoThread
  /\ w.dbi \notin dupsort
  /\ ~Contains(watches, w)
  /\ watches' = Append(watches, w)
  /\ UNCHANGED <<dupsort, txns, writer, tells, owed, wrong>>

Unwatch(w) ==
  /\ writer = NoThread
  /\ \E i \in DOMAIN watches : watches[i] = w /\ watches' = RemoveAt(watches, i)
  /\ UNCHANGED <<dupsort, txns, writer, tells, owed, wrong>>

\* A space may be opened again as another kind while it is watched, though the
\* other way to make it dupsort refuses that (sapling.c:4469-4509, 4530).
Open(d, dup) ==
  /\ writer = NoThread /\ \A t \in Threads : tells[t].at # "telling"
  /\ dupsort' = IF dup THEN dupsort \cup {d} ELSE dupsort \ {d}
  /\ UNCHANGED <<watches, txns, writer, tells, owed, wrong>>

----------------------------------------------------------------------------
Begin(t) ==
  /\ writer = NoThread /\ tells[t].at = "rest"
  /\ writer' = t
  /\ txns' = <<[Blank EXCEPT !.tracking = watches # <<>>]>>
  /\ UNCHANGED <<watches, dupsort, tells, owed, wrong>>

BeginNested ==
  /\ writer # NoThread /\ Len(txns) < MaxDepth
  /\ txns' = Append(txns, [Blank EXCEPT !.tracking = Top.tracking])
  /\ UNCHANGED <<watches, dupsort, writer, tells, owed, wrong>>

\* A put that splits a leaf below a parent with room is not recorded
\* (sapling.c:2028-2036 leaves before changed is set).
Put(row) ==
  /\ writer # NoThread
  /\ \/ SetTop([Track(Top, row) EXCEPT !.touched = @ \cup {row}])
     \/ SetTop([Top EXCEPT !.touched = @ \cup {row}, !.silent = @ \cup {row}])
  /\ UNCHANGED <<watches, dupsort, writer, tells, owed, wrong>>

Delete(row) ==
  /\ writer # NoThread
  /\ SetTop([Track(Top, row) EXCEPT !.touched = @ \cup {row}])
  /\ UNCHANGED <<watches, dupsort, writer, tells, owed, wrong>>

\* A cursor that deletes names the row by where its key was; in a page that
\* the transaction had written before, the bytes of others have moved there
\* (sapling.c:5508-5526).
DeleteMisnamed(row, other) ==
  /\ writer # NoThread
  /\ SetTop([Track(Top, other) EXCEPT !.touched = @ \cup {row}, !.silent = @ \cup {row},
                                     !.stray = @ \cup {other}])
  /\ UNCHANGED <<watches, dupsort, writer, tells, owed, wrong>>

CommitNested ==
  /\ Len(txns) > 1
  /\ LET up == Merge(txns[Len(txns) - 1], Top)
     IN  txns' = Append(SubSeq(txns, 1, Len(txns) - 2),
                        [up EXCEPT !.touched = @ \cup Top.touched, !.silent = @ \cup Top.silent,
                                   !.stray = @ \cup Top.stray])
  /\ UNCHANGED <<watches, dupsort, writer, tells, owed, wrong>>

Abort ==
  /\ writer # NoThread
  /\ txns' = Front(txns)
  /\ writer' = IF Len(txns) = 1 THEN NoThread ELSE writer
  /\ UNCHANGED <<watches, dupsort, tells, owed, wrong>>

----------------------------------------------------------------------------
(* Telling: the watches as they are when the commit is done, the rows as     *)
(* they are in a reader begun later.                                         *)

Hears(w, row) == w.dbi = row[1] /\ IsPrefix(w.prefix, row[2])

\* The calls that a list of changes calls for, change by change.
Calls(snap, changes) ==
  FlattenSeq([i \in DOMAIN changes |->
    FlattenSeq([j \in DOMAIN snap |->
      IF Hears(snap[j], changes[i]) THEN <<<<snap[j], changes[i]>>>> ELSE <<>>])])

Commit ==
  /\ Len(txns) = 1
  /\ tells' = [tells EXCEPT ![writer] = [Nothing EXCEPT
                !.at = IF watches = <<>> \/ Top.changes = <<>> THEN "rest" ELSE "looking",
                !.snap = watches, !.changes = Top.changes,
                !.cause = Top.touched \cup Top.stray]]
  /\ owed' = [owed EXCEPT ![writer] =
                {c \in Range(watches) \X (Top.touched \ Top.silent) :
                   c[2][1] \notin dupsort /\ Hears(c[1], c[2])}]
  /\ writer' = NoThread /\ txns' = <<>>
  /\ UNCHANGED <<watches, dupsort, wrong>>

Look(t) ==
  /\ tells[t].at = "looking"
  /\ tells' = [tells EXCEPT ![t].at = "telling"]
  /\ UNCHANGED <<watches, dupsort, txns, writer, owed, wrong>>

\* A callback, or the end of them.
Tell(t) ==
  LET b == tells[t]
      calls == Calls(b.snap, b.changes)
      call == calls[b.done + 1]
  IN  /\ b.at = "telling"
      /\ IF b.done = Len(calls)
         THEN tells' = [tells EXCEPT ![t] = Nothing] /\ UNCHANGED <<owed, wrong>>
         ELSE /\ tells' = [tells EXCEPT ![t].done = @ + 1]
              /\ owed' = [owed EXCEPT ![t] = @ \ {call}]
              /\ wrong' = (wrong \/ call[2] \notin b.cause
                                \/ \E k \in 1 .. b.done : calls[k] = call)
      /\ UNCHANGED <<watches, dupsort, txns, writer>>

----------------------------------------------------------------------------
Init ==
  /\ watches = <<>> /\ dupsort = {}
  /\ txns = <<>> /\ writer = NoThread
  /\ tells = [t \in Threads |-> Nothing] /\ owed = [t \in Threads |-> {}] /\ wrong = FALSE

Next ==
  \/ \E w \in Watchers : Watch(w) \/ Unwatch(w)
  \/ \E d \in Dbis, dup \in BOOLEAN : Open(d, dup)
  \/ \E t \in Threads : Begin(t) \/ Look(t) \/ Tell(t)
  \/ \E row \in Rows : Put(row) \/ Delete(row) \/ \E other \in Rows \ {row} : DeleteMisnamed(row, other)
  \/ BeginNested \/ CommitNested \/ Abort \/ Commit

Spec == Init /\ [][Next]_watchVars

----------------------------------------------------------------------------
\* Who watched at a commit has been told, when its calls are done, of each key
\* under its prefix that the transaction or one committed into it put or deleted,
\* and not twice of one, however often and at whatever depth it was written; and
\* of no other key: of nothing that was aborted. The exceptions are the silent
\* put and the misnamed row. The values told are those of a reader begun later,
\* and of two commits the second may tell first (sapling.c:619-687, 746-771).
WatchersHear ==
  /\ ~wrong
  /\ \A t \in Threads : tells[t].at = "rest" => owed[t] = {}

============================================================================

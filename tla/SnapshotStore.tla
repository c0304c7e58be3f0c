--------------------------- MODULE SnapshotStore ---------------------------
(***************************************************************************)
(* What the transactions of a Sapling database promise: one top-level      *)
(* writer at a time with nested children that are kept or discarded as a   *)
(* whole, and readers that see one committed state until they end.         *)
(***************************************************************************)
EXTENDS Naturals, Sequences

CONSTANTS
  Dbis,      \* the named databases
  Contents,  \* what a database may hold
  Empty,     \* the content of a database nothing was put in
  Readers,   \* the read-only transactions
  Closed     \* a read-only transaction that is not open

VARIABLES
  committed,  \* the last committed state
  work,       \* the writer's working states: the top-level one, its child, ...
  snapshot    \* what each reader sees

vars == <<committed, work, snapshot>>

Init ==
  /\ committed = [d \in Dbis |-> Empty]
  /\ work = <<>>
  /\ snapshot = [r \in Readers |-> Closed]

Begin ==
  /\ work = <<>>
  /\ work' = <<committed>>
  /\ UNCHANGED <<committed, snapshot>>

\* A child starts from what its parent sees.
Nest ==
  /\ work # <<>>
  /\ work' = Append(work, work[Len(work)])
  /\ UNCHANGED <<committed, snapshot>>

Write(d, c) ==
  /\ work # <<>>
  /\ work' = [work EXCEPT ![Len(work)][d] = c]
  /\ UNCHANGED <<committed, snapshot>>

\* A child's state becomes its parent's; the top-level one is published.
Commit ==
  /\ work # <<>>
  /\ IF Len(work) = 1
     THEN work' = <<>> /\ committed' = work[1]
     ELSE /\ work' = [SubSeq(work, 1, Len(work) - 1)
                        EXCEPT ![Len(work) - 1] = work[Len(work)]]
          /\ UNCHANGED committed
  /\ UNCHANGED snapshot

Abort ==
  /\ work # <<>>
  /\ work' = SubSeq(work, 1, Len(work) - 1)
  /\ UNCHANGED <<committed, snapshot>>

Open(r) ==
  /\ snapshot[r] = Closed
  /\ snapshot' = [snapshot EXCEPT ![r] = committed]
  /\ UNCHANGED <<committed, work>>

Close(r) ==
  /\ snapshot[r] # Closed
  /\ snapshot' = [snapshot EXCEPT ![r] = Closed]
  /\ UNCHANGED <<committed, work>>

Next ==
  \/ Begin \/ Nest \/ Commit \/ Abort
  \/ \E d \in Dbis : \E c \in Contents \cup {Empty} : Write(d, c)
  \/ \E r \in Readers : Open(r) \/ Close(r)

Spec == Init /\ [][Next]_vars

============================================================================

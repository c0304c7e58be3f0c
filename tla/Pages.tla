------------------------------- MODULE Pages -------------------------------
(***************************************************************************)
(* The life of a page of a Sapling database.                               *)
(*                                                                         *)
(* Writers copy a page before they change it and keep the old one for the  *)
(* readers that may still see it; a page goes from a tree to the deferred  *)
(* list, from there to the free list, and from there into a tree again.    *)
(* The free list is threaded through the pages themselves: freeing a page  *)
(* overwrites its content with the number of the next free page.           *)
(*                                                                         *)
(* A database (DBI) is a tree of one leaf here: its root page, whose       *)
(* content is one value.  A taller tree runs the same steps on each page   *)
(* of the path.  Every begin, commit and abort changes the shared state    *)
(* under write_mutex and reader_mutex, and is one action.  Only the        *)
(* innermost transaction of a nest is used, as the interface requires.     *)
(* Allocation fails only when MaxPages are in use (fault point             *)
(* "alloc.page"); the small arrays a transaction grows do not fail.        *)
(***************************************************************************)
EXTENDS Integers, FiniteSets, Sequences, TLC

CONSTANTS
  Dbis,           \* the named databases
  Values,         \* what a leaf may hold
  Readers,        \* top-level read-only transactions
  NoPage,         \* INVALID_PGNO
  NoValue,        \* the content of a database without a root page
  Garbage,        \* what a reader finds in a page that is no longer a leaf
  Closed,         \* a read-only transaction that is not open
  MaxPages,       \* bound on the page numbers (the two meta pages left out)
  MaxTxnid,       \* bound on the number of commits
  MaxNesting      \* bound on nested write transactions

ASSUME PagesAssumption == MaxPages \in Nat \ {0} /\ NoPage \notin Nat
ASSUME TxnsAssumption  == MaxTxnid \in Nat /\ MaxNesting \in Nat \ {0}
\* The array of readers is finite, and a transaction that is not open is none that is.
ASSUME ReadersAssumption ==
  /\ IsFiniteSet(Readers)
  /\ Closed \notin Nat /\ Closed \notin [Dbis -> Values \cup {NoValue, Garbage}]

PageNos == 0 .. MaxPages - 1
Links   == PageNos \cup {NoPage}

VARIABLES
  mem,         \* db->pages: what each page holds
  txnid,       \* db->txnid, the number of commits
  root,        \* db->dbs[].root_pgno
  free,        \* db->free_pgno, the head of the free list
  num,         \* db->num_pages
  deferred,    \* db->deferred: pages freed, and the txnid they were freed at
  registered,  \* db->active_readers, as the number of entries of each txnid
  reader,      \* each top-level read-only transaction
  txns         \* the top-level write transaction and its nested children

shared == <<txnid, root, free, num, deferred>>
vars   == <<mem, shared, registered, reader, txns>>

---------------------------------------------------------------------------
(* Pages                                                                   *)

Missing == [kind |-> "missing", val |-> NoValue, next |-> NoPage]
Leaf(v) == [kind |-> "leaf", val |-> v, next |-> NoPage]
Link(p) == [kind |-> "link", val |-> NoValue, next |-> p]

Memory == {Missing} \cup {Leaf(v) : v \in Values} \cup {Link(p) : p \in Links}

\* What a transaction whose root pages are rt reads.
View(rt) == [d \in Dbis |-> IF rt[d] = NoPage THEN NoValue
                            ELSE IF mem[rt[d]].kind = "leaf" THEN mem[rt[d]].val
                            ELSE Garbage]

\* The order in which freed pages are pushed: by the commit that freed them, and
\* ascending, as the sorted arrays of a transaction hold them.
Before(e, f) == e.at < f.at \/ (e.at = f.at /\ e.page < f.page)
Latest(E)    == CHOOSE e \in E : \A f \in E \ {e} : Before(f, e)

\* The free list with head h after the pages of the entries E are pushed, one by
\* one: its head, and the memory, where each page links to the head it found.
HeadAfter(h, E) == IF E = {} THEN h ELSE Latest(E).page
LinkedAfter(m, h, E) ==
  [p \in PageNos |->
     LET mine == {e \in E : e.page = p} IN
     IF mine = {} THEN m[p]
     ELSE Link(HeadAfter(h, {e \in E : Before(e, Latest(mine))}))]

\* The pages a walk of the free list from h visits before it ends or meets a
\* page without memory.
Walk(m, h) ==
  LET at[k \in 0 .. MaxPages] ==
        IF k = 0 THEN h
        ELSE IF at[k - 1] = NoPage \/ m[at[k - 1]].kind = "missing" THEN NoPage
        ELSE m[at[k - 1]].next
  IN  {at[k] : k \in 0 .. MaxPages} \ {NoPage}

\* A page number the free list may hold: below num and with memory behind it.
Usable(p, n) == p # NoPage /\ p < n /\ mem[p].kind # "missing"

\* raw_alloc: the head of the free list if it is usable (an unusable successor
\* cuts the list there), or a new page if the list is empty or its head is not.
Alloc(t) ==
  IF Usable(t.free, t.num)
  THEN [page |-> t.free, num |-> t.num,
        free |-> IF Usable(mem[t.free].next, t.num) THEN mem[t.free].next ELSE NoPage]
  ELSE IF t.num < MaxPages
  THEN [page |-> t.num, num |-> t.num + 1, free |-> NoPage]
  ELSE [page |-> NoPage, num |-> t.num, free |-> NoPage]

---------------------------------------------------------------------------
(* Transactions                                                            *)

\* BTreeTxnState of a write transaction.  new: pages it allocated; old: pages
\* it replaced; savedRoot, savedNum: what an abort restores.
Txns == [root : [Dbis -> Links], free : Links, num : 0 .. MaxPages,
         new : SUBSET PageNos, old : SUBSET PageNos,
         savedRoot : [Dbis -> Links], savedNum : 0 .. MaxPages]

Top == txns[Len(txns)]

Fresh(rt, f, n) ==
  [root |-> rt, free |-> f, num |-> n, new |-> {}, old |-> {},
   savedRoot |-> rt, savedNum |-> n]

NoReader == [snap |-> Closed, root |-> [d \in Dbis |-> NoPage]]

Init ==
  /\ mem = [p \in PageNos |-> Missing]
  /\ txnid = 0
  /\ root = [d \in Dbis |-> NoPage]
  /\ free = NoPage
  /\ num = 0
  /\ deferred = {}
  /\ registered = [n \in 0 .. MaxTxnid |-> 0]
  /\ reader = [r \in Readers |-> NoReader]
  /\ txns = <<>>

\* Seeded fault: a reader at the txnid a page was freed at no longer holds it.
ReclaimableEarly(e) == \A n \in 0 .. MaxTxnid : registered[n] > 0 => e.at <= n

\* Seeded fault: a page is held one commit longer than any reader needs it.
ReclaimableLate(e) == \A n \in 0 .. MaxTxnid : registered[n] > 0 => e.at + 1 < n

\* A page freed at txnid at is free once every registered reader is past it.
Reclaimable(e) == \A n \in 0 .. MaxTxnid : registered[n] > 0 => e.at < n

\* txn_begin of a top-level writer, refused while another is open; it first
\* moves what it can from the deferred list to the free list.
BeginWrite ==
  LET ready == {e \in deferred : Reclaimable(e)}
      head  == HeadAfter(free, ready)
  IN
  /\ txns = <<>>
  /\ mem' = LinkedAfter(mem, free, ready)
  /\ free' = head
  /\ deferred' = deferred \ ready
  /\ txns' = <<Fresh(root, head, num)>>
  /\ UNCHANGED <<txnid, root, num, registered, reader>>

\* txn_begin of a nested writer: it starts from its parent's working state.
BeginChild ==
  /\ Len(txns) \in 1 .. MaxNesting - 1
  /\ txns' = Append(txns, Fresh(Top.root, Top.free, Top.num))
  /\ UNCHANGED <<mem, shared, registered, reader>>

\* Seeded fault: a child takes the pages of its parents for its own.
MineOrParents(t) == t.new \cup UNION {txns[i].new : i \in DOMAIN txns}

\* The pages t may change in place: only those it allocated itself.
Mine(t) == t.new

\* txn_cow and txn_alloc: the transaction t with a page of its own as the root
\* of d, as t.page; NoPage if none could be had.
Own(t, d) ==
  LET a == Alloc(t) IN
  IF t.root[d] \in Mine(t)
  THEN [txn |-> t, page |-> t.root[d]]
  ELSE IF a.page = NoPage THEN [txn |-> [t EXCEPT !.free = a.free], page |-> NoPage]
  ELSE [txn |-> [t EXCEPT !.root[d] = a.page, !.free = a.free, !.num = a.num,
                          !.new = @ \cup {a.page},
                          !.old = @ \cup ({t.root[d]} \ {NoPage})],
        page |-> a.page]

\* txn_put, or a txn_del that leaves entries behind.
Put(d, v) ==
  LET own == Own(Top, d) IN
  /\ txns # <<>>
  /\ txns' = [txns EXCEPT ![Len(txns)] = own.txn]
  /\ IF own.page = NoPage THEN UNCHANGED mem
                          ELSE mem' = [mem EXCEPT ![own.page] = Leaf(v)]
  /\ UNCHANGED <<shared, registered, reader>>

\* txn_del of the last entry: the leaf is copied if need be, emptied, and given
\* straight back to the transaction's free list.
Del(d) ==
  LET own == Own(Top, d)
      p   == own.page
  IN
  /\ txns # <<>>
  /\ Top.root[d] # NoPage
  /\ IF p = NoPage
     THEN UNCHANGED mem /\ txns' = [txns EXCEPT ![Len(txns)] = own.txn]
     ELSE /\ mem' = [mem EXCEPT ![p] = Link(own.txn.free)]
          /\ txns' = [txns EXCEPT ![Len(txns)] =
                        [own.txn EXCEPT !.root[d] = NoPage, !.free = p, !.new = @ \ {p}]]
  /\ UNCHANGED <<shared, registered, reader>>

\* Seeded fault: pages the child replaced stay among the parent's new ones.
MergedNewKept(par, child) == par.new \cup child.new

\* The parent's new pages after a child's commit.
MergedNew(par, child) == (par.new \cup child.new) \ child.old

CommitChild ==
  LET n   == Len(txns)
      par == txns[n - 1]
  IN
  /\ n > 1
  /\ txns' = [SubSeq(txns, 1, n - 1) EXCEPT ![n - 1] =
                [par EXCEPT !.root = Top.root, !.free = Top.free, !.num = Top.num,
                            !.new = MergedNew(par, Top), !.old = par.old \cup Top.old]]
  /\ UNCHANGED <<mem, shared, registered, reader>>

CommitTop ==
  /\ Len(txns) = 1
  /\ txnid < MaxTxnid
  /\ txnid' = txnid + 1
  /\ deferred' = deferred \cup {[at |-> txnid, page |-> p] : p \in Top.old}
  /\ root' = Top.root
  /\ free' = Top.free
  /\ num' = Top.num
  /\ txns' = <<>>
  /\ UNCHANGED <<mem, registered, reader>>

\* The pages past the saved end that an abort gives back to the arena.
Retracted(t) == {p \in t.new \cup Walk(mem, t.free) : p >= t.savedNum}

\* btree_on_abort, of the top-level transaction or of a child.  Pages beyond
\* the saved end lose their memory, though the free list may still name them;
\* the other new pages return to the free list.
Abort ==
  LET n    == Len(txns)
      gone == Retracted(Top)
      m    == [p \in PageNos |-> IF p \in gone THEN Missing ELSE mem[p]]
      back == [at : {txnid}, page : Top.new \ gone]
      head == HeadAfter(Top.free, back)
  IN
  /\ txns # <<>>
  /\ mem' = LinkedAfter(m, Top.free, back)
  /\ IF n = 1
     THEN txns' = <<>> /\ free' = head /\ num' = Top.savedNum
     ELSE /\ txns' = [SubSeq(txns, 1, n - 1) EXCEPT
                        ![n - 1] = [@ EXCEPT !.root = Top.savedRoot, !.free = head,
                                             !.num = Top.savedNum]]
          /\ UNCHANGED <<free, num>>
  /\ UNCHANGED <<txnid, root, deferred, registered, reader>>

---------------------------------------------------------------------------
(* Read-only transactions                                                  *)

\* Seeded fault: the end of a reader leaves its registration behind.
RemoveNothing(n) == UNCHANGED registered

\* db_remove_reader: the first entry of this txnid goes, whoever made it.
RemoveReader(n) ==
  registered' = [registered EXCEPT ![n] = IF @ > 0 THEN @ - 1 ELSE @]

BeginRead(r) ==
  /\ reader[r].snap = Closed
  /\ reader' = [reader EXCEPT ![r].snap = txnid, ![r].root = root]
  /\ registered' = [registered EXCEPT ![txnid] = @ + 1]
  /\ UNCHANGED <<mem, shared, txns>>

EndRead(r) ==
  /\ reader[r].snap # Closed
  /\ RemoveReader(reader[r].snap)
  /\ reader' = [reader EXCEPT ![r] = NoReader]
  /\ UNCHANGED <<mem, shared, txns>>

---------------------------------------------------------------------------
Writer ==
  \/ BeginWrite \/ BeginChild
  \/ \E d \in Dbis : Del(d) \/ \E v \in Values : Put(d, v)
  \/ CommitChild \/ CommitTop \/ Abort

ReadOnly(r) == BeginRead(r) \/ EndRead(r)

Next == Writer \/ \E r \in Readers : ReadOnly(r)

Spec == Init /\ [][Next]_vars

\* For the runs: readers, databases and values are interchangeable.
Symmetry == Permutations(Readers) \cup Permutations(Dbis) \cup Permutations(Values)

---------------------------------------------------------------------------
(* Properties                                                              *)

\* Types; a registration never outlives the readers that could have made it.
TypeOK ==
  /\ mem \in [PageNos -> Memory]
  /\ txnid \in 0 .. MaxTxnid
  /\ root \in [Dbis -> Links]
  /\ free \in Links
  /\ num \in 0 .. MaxPages
  /\ deferred \subseteq [at : 0 .. MaxTxnid, page : PageNos]
  /\ registered \in [0 .. MaxTxnid -> 0 .. Cardinality(Readers)]
  /\ reader \in [Readers -> [snap : 0 .. MaxTxnid \cup {Closed},
                             root : [Dbis -> Links]]]
  /\ txns \in Seq(Txns) /\ Len(txns) <= MaxNesting

Used(rt) == {rt[d] : d \in Dbis} \ {NoPage}

\* The free list as the next allocation will see it.
FreePages == IF txns = <<>> THEN Walk(mem, free) ELSE Walk(mem, Top.free)

DeferredPages == {e.page : e \in deferred}

\* A page is never handed out while someone can still reach it: the free list
\* meets neither the committed tree, nor the working trees, nor the pages that
\* wait for readers or for the writer's commit, nor any reader's snapshot.
FreeIsUnreachable ==
  FreePages \cap ( Used(root) \cup DeferredPages
                   \cup (UNION {Used(txns[i].root) \cup txns[i].old : i \in DOMAIN txns})
                   \cup (UNION {Used(reader[r].root) : r \in Readers}) ) = {}

\* No page is freed twice: what a writer replaced is neither already deferred
\* nor one of the pages its abort would return to the free list.
FreedOnce ==
  /\ \A e, f \in deferred : e.page = f.page => e = f
  /\ \A i \in DOMAIN txns :
       /\ txns[i].old \cap DeferredPages = {}
       /\ txns[i].old \cap txns[i].new = {}

\* The free list is what it takes for pages to be used again: of pages nobody
\* can reach, each of them once (sapling.c:1227-1330, 4120-4300).
FreeListSound == FreeIsUnreachable /\ FreedOnce

\* No committed page waits for a reader that has ended: whatever a write
\* transaction leaves deferred is pinned by a reader old enough to see it.
NothingPinned ==
  [][ txns = <<>> /\ txns' # <<>> =>
        \A e \in deferred' :
          \E r \in Readers : reader[r].snap # Closed /\ reader[r].snap <= e.at ]_vars

\* What is committed, what each open writer sees, and what each reader sees.
Committed == View(root)
Working   == [i \in DOMAIN txns |-> View(txns[i].root)]
Seen      == [r \in Readers |-> IF reader[r].snap = Closed THEN Closed
                                ELSE View(reader[r].root)]

Snapshots == INSTANCE SnapshotStore
  WITH Contents <- Values, Empty <- NoValue,
       committed <- Committed, work <- Working, snapshot <- Seen

\* Copy-on-write, deferral and reuse of pages implement snapshots: no write,
\* nested commit, abort or reuse is visible to a reader or, before its commit,
\* to anyone but the transaction that made it.
ImplementsSnapshots == Snapshots!Spec

============================================================================

-------------------------------- MODULE Env --------------------------------
(* The transactions of one environment (txn.c) and two of the subsystems     *)
(* that keep a root in them, the hash trie and the bit trie.  Beside each    *)
(* root stands the map that the puts and deletes so far amount to.           *)
EXTENDS Naturals, FiniteSets
LOCAL INSTANCE FiniteSetsExt

CONSTANTS HashKeys, \* keys put into the hash trie
          BitKeys,  \* keys put into the bit trie, naturals in their order
          Vals, Hash, Bits,
          Txns,     \* transactions open at a time
          None

T == INSTANCE Tries

VARIABLES env,  \* the committed roots
          txns  \* the live transactions

vars == <<env, txns>>

Nothing == [hamt |-> T!Null, bept |-> T!Empty,
            hmap |-> [k \in HashKeys |-> {}], bmap |-> [k \in BitKeys |-> {}]]

Init == env = Nothing /\ txns = <<>>

TopWriter(t) == txns[t].parent = None /\ ~txns[t].ro

\* A top-level writer is alone; a child of a reader only reads.
CanBegin(parent, ro) ==
  IF parent = None THEN ro \/ \A t \in DOMAIN txns : ~TopWriter(t)
  ELSE ro \/ ~txns[parent].ro

Begin(t, parent, ro) ==
  /\ t \notin DOMAIN txns
  /\ CanBegin(parent, ro)
  /\ LET base == IF parent = None THEN env ELSE txns[parent].roots
         txn == [parent |-> parent, ro |-> ro, roots |-> base]
     IN  txns' = [u \in DOMAIN txns \cup {t} |-> IF u = t THEN txn ELSE txns[u]]
  /\ UNCHANGED env

\* Callers end a transaction after those begun inside it.
Innermost(t) == \A u \in DOMAIN txns : txns[u].parent # t

\* Every subsystem hands its root on, whether or not it was changed.
Commit(t) ==
  /\ Innermost(t)
  /\ LET up == txns[t].parent
         rest == [u \in DOMAIN txns \ {t} |-> txns[u]]
     IN  IF up = None THEN env' = txns[t].roots /\ txns' = rest
         ELSE env' = env /\ txns' = [rest EXCEPT ![up].roots = txns[t].roots]

Abort(t) ==
  /\ Innermost(t)
  /\ txns' = [u \in DOMAIN txns \ {t} |-> txns[u]]
  /\ UNCHANGED env

----------------------------------------------------------------------------
SetHash(t, root, map) ==
  /\ ~txns[t].ro
  /\ txns' = [txns EXCEPT ![t].roots.hamt = root, ![t].roots.hmap = map]
  /\ UNCHANGED env

HashPut(t, k, v) ==
  LET r == txns[t].roots
  IN  SetHash(t, T!HamtPut(r.hamt, 0, k, v), [r.hmap EXCEPT ![k] = {v}])

\* SAP_NOOVERWRITE: a key that is there is refused.
HashPutNew(t, k, v) ==
  T!HamtGet(txns[t].roots.hamt, 0, k) = {} /\ HashPut(t, k, v)

HashDel(t, k) ==
  LET r == txns[t].roots
  IN  /\ T!HamtGet(r.hamt, 0, k) # {}
      /\ SetHash(t, T!HamtDel(r.hamt, 0, k), [r.hmap EXCEPT ![k] = {}])

\* The bit trie asks nothing of the transaction: a reader may put, too.
SetBits(t, root, map) ==
  /\ txns' = [txns EXCEPT ![t].roots.bept = root, ![t].roots.bmap = map]
  /\ UNCHANGED env

BitPut(t, k, v) ==
  LET r == txns[t].roots
  IN  SetBits(t, T!BeptPut(r.bept, k, v), [r.bmap EXCEPT ![k] = {v}])

BitPutNew(t, k, v) == T!BeptGet(txns[t].roots.bept, k) = {} /\ BitPut(t, k, v)

BitDel(t, k) ==
  LET r == txns[t].roots
  IN  /\ T!BeptGet(r.bept, k) # {}
      /\ SetBits(t, T!BeptDel(r.bept, k), [r.bmap EXCEPT ![k] = {}])

BitClear(t) == SetBits(t, T!Empty, [k \in BitKeys |-> {}])

Next ==
  \/ \E t \in Txns, parent \in DOMAIN txns \cup {None}, ro \in BOOLEAN :
       Begin(t, parent, ro)
  \/ \E t \in DOMAIN txns :
       \/ Commit(t) \/ Abort(t)
       \/ \E k \in HashKeys, v \in Vals :
            HashPut(t, k, v) \/ HashPutNew(t, k, v) \/ HashDel(t, k)
       \/ \E k \in BitKeys, v \in Vals :
            BitPut(t, k, v) \/ BitPutNew(t, k, v) \/ BitDel(t, k)
       \/ BitClear(t)

Spec == Init /\ [][Next]_vars

----------------------------------------------------------------------------
\* After any puts and deletes, in nested transactions that commit or abort, a
\* lookup in either trie finds just what was put: no branch is collapsed that
\* aligns the fragments below it, no collision is lost, and the leftmost leaf of
\* the bit trie, from which the next timer is taken, is the least key
\* (hamt.c:595-1036, bept.c:234-511).
Faithful(r) ==
  /\ \A k \in HashKeys : T!HamtGet(r.hamt, 0, k) = r.hmap[k]
  /\ \A k \in BitKeys : T!BeptGet(r.bept, k) = r.bmap[k]
  /\ LET there == {k \in BitKeys : r.bmap[k] # {}}
     IN  T!BeptMin(r.bept) = IF there = {} THEN {} ELSE {Min(there)}

TriesAgree == Faithful(env) /\ \A t \in DOMAIN txns : Faithful(txns[t].roots)

============================================================================

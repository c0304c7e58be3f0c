------------------------------- MODULE Tries -------------------------------
(* The tries of an environment as operators on trees.  Nodes are never       *)
(* changed in place, so a tree is a value.  A leaf is the same in both.      *)
EXTENDS Naturals, Sequences, FiniteSets
LOCAL INSTANCE SequencesExt
LOCAL INSTANCE FiniteSetsExt

CONSTANTS Hash, \* the fragments of each key's hash, from the root down
          Bits  \* the bits of each key, the most significant first

----------------------------------------------------------------------------
(* The hash trie of hamt.c: branches by the fragments of a key's hash,       *)
(* leaves, and collision nodes.                                              *)

Null == [tag |-> "null"]
Leaf(k, v) == [tag |-> "leaf", key |-> k, val |-> v]
Collision(s) == [tag |-> "collision", leaves |-> s]
Branch(kid) == [tag |-> "branch", kid |-> kid] \* kid: of some fragments

\* Depths count from 0.
Fragment(k, d) == Hash[k][d + 1]

\* Branches down to where the hashes of two nodes part.
RECURSIVE BranchPair(_, _, _, _, _)
BranchPair(d, j, a, k, b) ==
  LET f == Fragment(j, d)
      g == Fragment(k, d)
  IN  IF f = g THEN Branch([x \in {f} |-> BranchPair(d + 1, j, a, k, b)])
      ELSE Branch([x \in {f, g} |-> IF x = f THEN a ELSE b])

\* Seeded fault: a branch left alone takes the place of its parent, too.
FaultyRemoved(kid, f) ==
  LET left == DOMAIN kid \ {f}
  IN  IF left = {} THEN Null
      ELSE IF Cardinality(left) = 1 THEN kid[CHOOSE x \in left : TRUE]
      ELSE Branch([x \in left |-> kid[x]])

\* A branch that loses a child: a leaf or a collision left alone takes its
\* place, a branch left alone must keep its depth.
Removed(kid, f) ==
  LET left == DOMAIN kid \ {f}
  IN  IF left = {} THEN Null
      ELSE IF Cardinality(left) = 1 /\ \A x \in left : kid[x].tag # "branch"
           THEN kid[CHOOSE x \in left : TRUE]
           ELSE Branch([x \in left |-> kid[x]])

PutLeaf(n, d, k, v) ==
  IF n.key = k THEN Leaf(k, v)
  ELSE IF Hash[n.key] = Hash[k] THEN Collision(<<n, Leaf(k, v)>>)
  ELSE BranchPair(d, n.key, n, k, Leaf(k, v))

\* A collision takes any key that comes its way, whatever its hash.
PutCollision(s, k, v) ==
  IF \E i \in DOMAIN s : s[i].key = k
  THEN Collision([i \in DOMAIN s |-> IF s[i].key = k THEN Leaf(k, v) ELSE s[i]])
  ELSE Collision(Append(s, Leaf(k, v)))

RECURSIVE HamtPut(_, _, _, _)
HamtPut(n, d, k, v) ==
  CASE n.tag = "null" -> Leaf(k, v)
    [] n.tag = "leaf" -> PutLeaf(n, d, k, v)
    [] n.tag = "collision" -> PutCollision(n.leaves, k, v)
    [] n.tag = "branch" ->
         LET f == Fragment(k, d)
             below == IF f \in DOMAIN n.kid THEN n.kid[f] ELSE Null
         IN  Branch([x \in DOMAIN n.kid \cup {f} |->
                       IF x = f THEN HamtPut(below, d + 1, k, v) ELSE n.kid[x]])

\* The values found under a key, at most one.
RECURSIVE HamtGet(_, _, _)
HamtGet(n, d, k) ==
  CASE n.tag = "null" -> {}
    [] n.tag = "leaf" -> IF n.key = k THEN {n.val} ELSE {}
    [] n.tag = "collision" -> {l.val : l \in {m \in ToSet(n.leaves) : m.key = k}}
    [] n.tag = "branch" ->
         IF Fragment(k, d) \in DOMAIN n.kid
         THEN HamtGet(n.kid[Fragment(k, d)], d + 1, k) ELSE {}

DelCollision(s, k) ==
  LET rest == SelectSeq(s, LAMBDA l : l.key # k)
  IN  IF Len(rest) = 1 THEN rest[1] ELSE Collision(rest)

\* Of a key that is there.
RECURSIVE HamtDel(_, _, _)
HamtDel(n, d, k) ==
  CASE n.tag = "leaf" -> Null
    [] n.tag = "collision" -> DelCollision(n.leaves, k)
    [] n.tag = "branch" ->
         LET f == Fragment(k, d)
             new == HamtDel(n.kid[f], d + 1, k)
         IN  IF new = Null THEN Removed(n.kid, f)
             ELSE Branch([n.kid EXCEPT ![f] = new])

----------------------------------------------------------------------------
(* The ordered bit trie of bept.c: an inner node names the first bit in      *)
(* which the keys on its two sides differ.                                   *)

Empty == [tag |-> "empty"]
Inner(b, l, r) == [tag |-> "inner", bit |-> b, left |-> l, right |-> r]

\* Bits past the end of a key read as 0.
Bit(k, b) == IF b \in DOMAIN Bits[k] THEN Bits[k][b] ELSE 0

\* The bits two keys differ in: none, too, when one is the other with zeros.
Differing(j, k) ==
  {b \in DOMAIN Bits[j] \cup DOMAIN Bits[k] : Bit(j, b) # Bit(k, b)}

\* The one leaf a key can be in.
RECURSIVE LeafFor(_, _)
LeafFor(n, k) ==
  IF n.tag = "leaf" THEN n
  ELSE LeafFor(IF Bit(k, n.bit) = 1 THEN n.right ELSE n.left, k)

RECURSIVE Replace(_, _)
Replace(n, new) ==
  IF n.tag = "leaf" THEN new
  ELSE IF Bit(new.key, n.bit) = 1
       THEN Inner(n.bit, n.left, Replace(n.right, new))
       ELSE Inner(n.bit, Replace(n.left, new), n.right)

\* A new leaf, above the first node that names a later bit.
RECURSIVE Graft(_, _, _)
Graft(n, new, b) ==
  IF n.tag = "inner" /\ n.bit < b
  THEN IF Bit(new.key, n.bit) = 1
       THEN Inner(n.bit, n.left, Graft(n.right, new, b))
       ELSE Inner(n.bit, Graft(n.left, new, b), n.right)
  ELSE IF Bit(new.key, b) = 1 THEN Inner(b, n, new) ELSE Inner(b, new, n)

BeptPut(n, k, v) ==
  IF n = Empty THEN Leaf(k, v)
  ELSE LET diff == Differing(k, LeafFor(n, k).key)
       IN  IF diff = {} THEN Replace(n, Leaf(k, v))
           ELSE Graft(n, Leaf(k, v), Min(diff))

BeptGet(n, k) ==
  IF n = Empty THEN {}
  ELSE LET l == LeafFor(n, k) IN IF l.key = k THEN {l.val} ELSE {}

\* Of a key that is there.
RECURSIVE BeptDel(_, _)
BeptDel(n, k) ==
  IF n.tag = "leaf" THEN Empty
  ELSE IF Bit(k, n.bit) = 1
       THEN LET new == BeptDel(n.right, k)
            IN  IF new = Empty THEN n.left ELSE Inner(n.bit, n.left, new)
       ELSE LET new == BeptDel(n.left, k)
            IN  IF new = Empty THEN n.right ELSE Inner(n.bit, new, n.right)

\* The keys found leftmost, at most one.
RECURSIVE BeptMin(_)
BeptMin(n) ==
  CASE n.tag = "empty" -> {}
    [] n.tag = "leaf" -> {n.key}
    [] n.tag = "inner" -> BeptMin(n.left)

============================================================================

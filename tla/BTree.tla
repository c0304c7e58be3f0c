------------------------------- MODULE BTree -------------------------------
(* The copy-on-write B+ tree of sapling.c as one write transaction sees    *)
(* it: puts with the split of leaves and inner pages, deletes that free    *)
(* emptied pages, bulk loads, ranges and the cursor.  A tree is a value: a *)
(* leaf is a sequence of cells, an inner page a sequence of separators and *)
(* of children.  Which pages hold it, and when they are reused, is the     *)
(* subject of Pages.  A cell takes as many units of a leaf as its value    *)
(* says; separators are all of one size.                                   *)
EXTENDS Naturals, Sequences, FiniteSets
LOCAL INSTANCE SequencesExt
LOCAL INSTANCE FiniteSetsExt

CONSTANTS Keys,     \* keys, naturals from 1 on
          Vals,     \* values, each named by the units its cell takes: 1 and
                    \* more, none above LeafRoom
          LeafRoom, \* units in a leaf page
          IntRoom,  \* separators in an inner page, two at least
          Batches,  \* sets of keys that are loaded at once
          NoKey     \* the cursor rests on no key

VARIABLES tree,    \* root_pgno and what it leads to
          entries, \* num_entries
          cur      \* stack and idx of the cursor: the way down to its cell

vars == <<tree, entries, cur>>

\* A database of several values per key: the key part of a composite key.
Group(k) == (k + 1) \div 2

NoTree == [kind |-> "none"]
Leaf(cells) == [kind |-> "leaf", cells |-> cells]
Inner(keys, kids) == [kind |-> "inner", keys |-> keys, kids |-> kids]

Cell(k, v) == [key |-> k, val |-> v]

RECURSIVE Units(_)
Units(cells) == IF cells = <<>> THEN 0 ELSE Head(cells).val + Units(Tail(cells))

----------------------------------------------------------------------------
(* One page.                                                               *)

\* leaf_find: the first cell not below the key.
LeafFind(cells, k) ==
  1 + Cardinality({i \in DOMAIN cells : cells[i].key < k})

\* int_find_child: the child before the first separator above the key.
FindChild(t, k) == 1 + Cardinality({i \in DOMAIN t.keys : t.keys[i] <= k})

\* leaf_insert for each cell in turn; one that finds no room, and every one
\* after it, is refused, and leaf_split does not look.
Filled(cells) ==
  LET fits == {n \in 0 .. Len(cells) : Units(SubSeq(cells, 1, n)) <= LeafRoom}
  IN  SubSeq(cells, 1, Max(fits))

\* leaf_split halves by number, not by size.
LeafSplit(all) ==
  LET n == Len(all) \div 2
  IN  [kids |-> << Leaf(Filled(SubSeq(all, 1, n))),
                   Leaf(Filled(SubSeq(all, n + 1, Len(all)))) >>,
       seps |-> << all[n + 1].key >>]

\* Seeded fault: the separator before the middle one goes up.
FaultyIntSplit(keys, kids) ==
  LET mid == Len(keys) \div 2 + 1
  IN  [kids |-> << Inner(SubSeq(keys, 1, mid - 1), SubSeq(kids, 1, mid)),
                   Inner(SubSeq(keys, mid + 1, Len(keys)),
                         SubSeq(kids, mid + 1, Len(kids))) >>,
       seps |-> << keys[mid - 1] >>]

\* int_split: the middle separator goes up.
IntSplit(keys, kids) ==
  LET mid == Len(keys) \div 2 + 1
  IN  [kids |-> << Inner(SubSeq(keys, 1, mid - 1), SubSeq(kids, 1, mid)),
                   Inner(SubSeq(keys, mid + 1, Len(keys)),
                         SubSeq(kids, mid + 1, Len(kids))) >>,
       seps |-> << keys[mid] >>]

Whole(t) == [kids |-> <<t>>, seps |-> <<>>]

\* The existing cell of the key is taken out before the new one goes in.
LeafPut(cells, k, v) ==
  LET rest == SelectSeq(cells, LAMBDA c : c.key # k)
      all == InsertAt(rest, LeafFind(rest, k), Cell(k, v))
  IN  IF Units(all) <= LeafRoom THEN Whole(Leaf(all)) ELSE LeafSplit(all)

\* A child that has split hands up a separator, which may split its parent.
IntAbsorb(t, i, got) ==
  IF got.seps = <<>>
  THEN Whole(Inner(t.keys, [t.kids EXCEPT ![i] = got.kids[1]]))
  ELSE LET keys == InsertAt(t.keys, i, got.seps[1])
           kids == InsertAt([t.kids EXCEPT ![i] = got.kids[1]],
                            i + 1, got.kids[2])
       IN  IF Len(keys) <= IntRoom THEN Whole(Inner(keys, kids))
                                   ELSE IntSplit(keys, kids)

\* int_remove_child: the first child goes with the first separator.
IntRemoveChild(t, i) ==
  Inner(RemoveAt(t.keys, IF i = 1 THEN 1 ELSE i - 1), RemoveAt(t.kids, i))

----------------------------------------------------------------------------
(* The tree.                                                               *)

RECURSIVE PutIn(_, _, _)
PutIn(t, k, v) ==
  IF t.kind = "leaf" THEN LeafPut(t.cells, k, v)
  ELSE LET i == FindChild(t, k) IN IntAbsorb(t, i, PutIn(t.kids[i], k, v))

PutTree(t, k, v) ==
  IF t.kind = "none" THEN Leaf(<<Cell(k, v)>>)
  ELSE LET got == PutIn(t, k, v)
       IN  IF got.seps = <<>> THEN got.kids[1] ELSE Inner(got.seps, got.kids)

\* An emptied leaf leaves its parent; a parent left with one child gives it
\* its own place.  Nothing is merged or balanced.
RECURSIVE DelTree(_, _)
DelTree(t, k) ==
  IF t.kind = "leaf"
  THEN LET rest == SelectSeq(t.cells, LAMBDA c : c.key # k)
       IN  IF rest = <<>> THEN NoTree ELSE Leaf(rest)
  ELSE LET i == FindChild(t, k)
           kid == DelTree(t.kids[i], k)
           less == IntRemoveChild(t, i)
       IN  IF kid # NoTree THEN Inner(t.keys, [t.kids EXCEPT ![i] = kid])
           ELSE IF less.keys # <<>> THEN less ELSE less.kids[1]

RECURSIVE Lookup(_, _)
Lookup(t, k) ==
  CASE t.kind = "none" -> {}
    [] t.kind = "leaf" ->
         LET i == LeafFind(t.cells, k)
         IN  IF i <= Len(t.cells) /\ t.cells[i].key = k
             THEN {t.cells[i].val} ELSE {}
    [] OTHER -> Lookup(t.kids[FindChild(t, k)], k)

\* All cells from left to right: what the tree holds, however it is searched.
RECURSIVE Cells(_), CellsOf(_)
Cells(t) ==
  CASE t.kind = "none" -> <<>>
    [] t.kind = "leaf" -> t.cells
    [] OTHER -> CellsOf(t.kids)
CellsOf(kids) ==
  IF kids = <<>> THEN <<>> ELSE Cells(Head(kids)) \o CellsOf(Tail(kids))

KeysOf(t) == {c.key : c \in ToSet(Cells(t))}

Pairs(t) == LET cells == Cells(t)
            IN  [k \in {c.key : c \in ToSet(cells)} |->
                   (CHOOSE c \in ToSet(cells) : c.key = k).val]

----------------------------------------------------------------------------
(* Bulk load: leaves are filled one after the other, and every level above *)
(* is grouped so that no page is left with a single child.                 *)

RECURSIVE FillLeaves(_)
FillLeaves(cells) ==
  IF cells = <<>> THEN <<>>
  ELSE LET page == Filled(cells)
       IN  << [node |-> Leaf(page), min |-> cells[1].key] >>
           \o FillLeaves(SubSeq(cells, Len(page) + 1, Len(cells)))

\* So many pages can be grouped into inner pages of two children or more.
Feasible[n \in 0 .. Cardinality(Keys)] ==
  n = 0 \/ \E g \in 2 .. IntRoom + 1 : g <= n /\ Feasible[n - g]

\* The smallest group goes first that leaves a rest that can be grouped.
RECURSIVE Grouping(_)
Grouping(level) ==
  IF level = <<>> THEN <<>>
  ELSE LET n == Len(level)
           g == Min({h \in 2 .. IntRoom + 1 : h <= n /\ Feasible[n - h]})
           page == SubSeq(level, 1, g)
       IN  << [node |-> Inner([i \in 1 .. g - 1 |-> page[i + 1].min],
                              [i \in 1 .. g |-> page[i].node]),
               min |-> page[1].min] >> \o Grouping(SubSeq(level, g + 1, n))

RECURSIVE BuildUp(_)
BuildUp(level) ==
  IF Len(level) = 1 THEN level[1].node ELSE BuildUp(Grouping(level))

BulkTree(cells) == IF cells = <<>> THEN NoTree ELSE BuildUp(FillLeaves(cells))

\* Cells of different keys in the order of their keys.
InOrder(S) ==
  [i \in 1 .. Cardinality(S) |->
     CHOOSE c \in S : Cardinality({d \in S : d.key < c.key}) = i - 1]

\* The old cells and the new in one row, a new one in place of an old one of
\* the same key.
Merged(t, batch) ==
  LET new == {c.key : c \in ToSet(batch)}
      kept == {c \in ToSet(Cells(t)) : c.key \notin new}
  IN  InOrder(kept \cup ToSet(batch))

----------------------------------------------------------------------------
(* The cursor: the child taken on every level, and the cell in the leaf.   *)

RECURSIVE Leftmost(_)
Leftmost(t) ==
  CASE t.kind = "none" -> <<>>
    [] t.kind = "leaf" -> <<1>>
    [] OTHER -> <<1>> \o Leftmost(t.kids[1])

RECURSIVE Rightmost(_)
Rightmost(t) ==
  CASE t.kind = "none" -> <<>>
    [] t.kind = "leaf" -> <<Len(t.cells)>>
    [] OTHER -> <<Len(t.kids)>> \o Rightmost(t.kids[Len(t.kids)])

\* cursor_next climbs to the first page with a child further right.
RECURSIVE NextPath(_, _)
NextPath(t, p) ==
  IF t.kind = "leaf"
  THEN IF p[1] < Len(t.cells) THEN <<p[1] + 1>> ELSE <<>>
  ELSE LET down == NextPath(t.kids[p[1]], Tail(p))
       IN  IF down # <<>> THEN <<p[1]>> \o down
           ELSE IF p[1] < Len(t.kids)
                THEN <<p[1] + 1>> \o Leftmost(t.kids[p[1] + 1]) ELSE <<>>

RECURSIVE PrevPath(_, _)
PrevPath(t, p) ==
  IF t.kind = "leaf" THEN IF p[1] > 1 THEN <<p[1] - 1>> ELSE <<>>
  ELSE LET down == PrevPath(t.kids[p[1]], Tail(p))
       IN  IF down # <<>> THEN <<p[1]>> \o down
           ELSE IF p[1] > 1
                THEN <<p[1] - 1>> \o Rightmost(t.kids[p[1] - 1]) ELSE <<>>

RECURSIVE DownTo(_, _)
DownTo(t, k) ==
  IF t.kind = "leaf" THEN <<LeafFind(t.cells, k)>>
  ELSE LET i == FindChild(t, k) IN <<i>> \o DownTo(t.kids[i], k)

RECURSIVE LeafAt(_, _)
LeafAt(t, p) == IF t.kind = "leaf" THEN t ELSE LeafAt(t.kids[p[1]], Tail(p))

\* cursor_seek: when the key is above all of its leaf, the next leaf's first.
SeekPath(t, k) ==
  IF t.kind = "none" THEN <<>>
  ELSE LET p == DownTo(t, k)
       IN  IF Last(p) <= Len(LeafAt(t, p).cells) THEN p ELSE NextPath(t, p)

CellAt(t, p) == LeafAt(t, p).cells[Last(p)]

\* Seeded fault: the cursor moves on though the next cell has moved up.
FaultyAfterDel(t, p) ==
  IF Len(LeafAt(t, p).cells) = 1 THEN <<>>
  ELSE NextPath(DelTree(t, CellAt(t, p).key), p)

\* cursor_del: where the cursor stands afterwards.  When its leaf was emptied
\* it has lost its place.
AfterDel(t, p) ==
  LET rest == Len(LeafAt(t, p).cells) - 1
  IN  IF rest = 0 THEN <<>>
      ELSE IF Last(p) <= rest THEN p
      ELSE NextPath(DelTree(t, CellAt(t, p).key), p)

\* txn_count_range walks the cursor from lo to hi.
RECURSIVE CountFrom(_, _, _)
CountFrom(t, p, hi) ==
  IF p = <<>> \/ CellAt(t, p).key >= hi THEN 0
  ELSE 1 + CountFrom(t, NextPath(t, p), hi)

CountRange(t, lo, hi) == IF lo >= hi THEN 0 ELSE CountFrom(t, SeekPath(t, lo), hi)

\* txn_del_range deletes with the cursor and takes its loss for the end.
RECURSIVE WipeFrom(_, _, _)
WipeFrom(t, p, hi) ==
  IF p = <<>> \/ CellAt(t, p).key >= hi THEN t
  ELSE WipeFrom(DelTree(t, CellAt(t, p).key), AfterDel(t, p), hi)

Wiped(t, lo, hi) == IF lo >= hi THEN t ELSE WipeFrom(t, SeekPath(t, lo), hi)

\* cursor_first_dup and cursor_last_dup walk to the end of the key's values.
RECURSIVE FirstAlike(_, _)
FirstAlike(t, p) ==
  LET q == PrevPath(t, p)
  IN  IF q = <<>> \/ Group(CellAt(t, q).key) # Group(CellAt(t, p).key)
      THEN p ELSE FirstAlike(t, q)

RECURSIVE LastAlike(_, _)
LastAlike(t, p) ==
  LET q == NextPath(t, p)
  IN  IF q = <<>> \/ Group(CellAt(t, q).key) # Group(CellAt(t, p).key)
      THEN p ELSE LastAlike(t, q)

----------------------------------------------------------------------------
(* The operations.                                                         *)

Init == tree = NoTree /\ entries = 0 /\ cur = <<>>

Store(k, v) ==
  /\ tree' = PutTree(tree, k, v)
  /\ entries' = IF Lookup(tree, k) = {} THEN entries + 1 ELSE entries
  /\ cur' = <<>>

Put(k, v) == Store(k, v)

\* SAP_NOOVERWRITE, which every put of a composite key implies.
PutNew(k, v) == Lookup(tree, k) = {} /\ Store(k, v)

PutIf(k, expected, v) == Lookup(tree, k) = {expected} /\ Store(k, v)

\* txn_merge, with a callback that keeps the larger of two values.
Merge(k, v) == Store(k, Max(Lookup(tree, k) \cup {v}))

Del(k) ==
  /\ Lookup(tree, k) # {}
  /\ tree' = DelTree(tree, k)
  /\ entries' = entries - 1
  /\ cur' = <<>>

DelRange(lo, hi) ==
  /\ tree' = Wiped(tree, lo, hi)
  /\ entries' = entries - (Len(Cells(tree)) - Len(Cells(tree')))
  /\ cur' = <<>>

\* txn_load_sorted rebuilds an empty tree, or one that the transaction has
\* not touched yet; otherwise it puts one pair after the other.
LoadSorted(batch) ==
  \/ /\ tree' = BulkTree(Merged(tree, batch))
     /\ entries' = Len(Merged(tree, batch))
     /\ cur' = <<>>
  \/ /\ tree # NoTree
     /\ tree' = FoldLeft(LAMBDA t, c : PutTree(t, c.key, c.val), tree, batch)
     /\ entries' = entries
          + Cardinality({c \in ToSet(batch) : Lookup(tree, c.key) = {}})
     /\ cur' = <<>>

Batch(S, v) == InOrder({Cell(k, v) : k \in S})

MoveTo(p) == cur' = p /\ UNCHANGED <<tree, entries>>

CursorFirst == MoveTo(Leftmost(tree))
CursorLast == MoveTo(Rightmost(tree))
CursorSeek(k) == MoveTo(SeekPath(tree, k))
CursorNext == cur # <<>> /\ MoveTo(NextPath(tree, cur))
CursorPrev == cur # <<>> /\ MoveTo(PrevPath(tree, cur))

\* cursor_next_dup and cursor_prev_dup step back when they left the key.
StepAlike(q, back) ==
  MoveTo(IF q = <<>> THEN <<>>
         ELSE IF Group(CellAt(tree, q).key) = Group(CellAt(tree, cur).key)
              THEN q ELSE back)

CursorNextDup ==
  cur # <<>> /\ LET q == NextPath(tree, cur) IN StepAlike(q, PrevPath(tree, q))
CursorPrevDup ==
  cur # <<>> /\ LET q == PrevPath(tree, cur) IN StepAlike(q, NextPath(tree, q))
CursorFirstDup == cur # <<>> /\ MoveTo(FirstAlike(tree, cur))
CursorLastDup == cur # <<>> /\ MoveTo(LastAlike(tree, cur))

\* cursor_put: in place when the leaf has room, else as any other put, and the
\* cursor is placed anew.
CursorPut(v) ==
  /\ cur # <<>>
  /\ LET k == CellAt(tree, cur).key
         cells == LeafAt(tree, cur).cells
         inPlace == Units(SelectSeq(cells, LAMBDA c : c.key # k)) + v <= LeafRoom
     IN  /\ tree' = PutTree(tree, k, v)
         /\ cur' = IF inPlace THEN cur ELSE SeekPath(tree', k)
  /\ UNCHANGED entries

CursorDel ==
  /\ cur # <<>>
  /\ tree' = DelTree(tree, CellAt(tree, cur).key)
  /\ cur' = AfterDel(tree, cur)
  /\ entries' = entries - 1

Bounds == Keys \cup {Max(Keys) + 1}

Next ==
  \/ \E k \in Keys, v \in Vals : Put(k, v) \/ PutNew(k, v) \/ Merge(k, v)
  \/ \E k \in Keys, e, v \in Vals : PutIf(k, e, v)
  \/ \E k \in Keys : Del(k) \/ CursorSeek(k)
  \/ \E lo, hi \in Bounds : lo < hi /\ DelRange(lo, hi)
  \/ \E S \in Batches, v \in Vals : LoadSorted(Batch(S, v))
  \/ CursorFirst \/ CursorLast \/ CursorNext \/ CursorPrev
  \/ CursorNextDup \/ CursorPrevDup \/ CursorFirstDup \/ CursorLastDup
  \/ \E v \in Vals : CursorPut(v)
  \/ CursorDel

Spec == Init /\ [][Next]_vars

----------------------------------------------------------------------------
(* Properties.                                                             *)

Map == INSTANCE OrderedMap WITH
         map <- Pairs(tree),
         at <- IF cur = <<>> THEN NoKey ELSE CellAt(tree, cur).key

\* Splits, emptied pages, bulk loads and cursor moves are those of an ordered
\* map (sapling.c:1738-5577).
ImplementsMap == Map!Spec

\* db_stat's num_entries is the number of pairs in the tree: no operation
\* loses or doubles a cell without noticing.
EntriesCounted == entries = Len(Cells(tree)) /\ entries = Cardinality(KeysOf(tree))

\* A search by separators finds what a walk of the whole tree finds: gets,
\* seeks to present and absent keys, and counts of ranges.
SearchAgrees ==
  /\ \A k \in Keys :
       /\ (Lookup(tree, k) # {}) <=> (k \in KeysOf(tree))
       /\ LET above == {j \in KeysOf(tree) : j >= k}
              p == SeekPath(tree, k)
          IN  IF above = {} THEN p = <<>> ELSE CellAt(tree, p).key = Min(above)
  /\ \A lo, hi \in Bounds :
       CountRange(tree, lo, hi)
         = Cardinality({k \in KeysOf(tree) : lo <= k /\ k < hi})

\* txn_del_range leaves nothing of its range (sapling.h:227).
RangeEmptied ==
  [][\A lo, hi \in Bounds :
       DelRange(lo, hi) => \A k \in KeysOf(tree') : ~(lo <= k /\ k < hi)]_vars

============================================================================

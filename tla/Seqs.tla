-------------------------------- MODULE Seqs --------------------------------
(* The finger tree of seq.c, first as operators on values: a tree is empty,  *)
(* single or deep; the items of a tree are handles at the top and nodes of   *)
(* two or three items in the trees in the middle.  Sizes are kept where the  *)
(* code keeps them.  Nodes are never changed and a shell is copied before it *)
(* is changed, so values stand for both.                                     *)
(*                                                                           *)
(* Then one sequence under pushes, pops and cuts, beside the interval of     *)
(* handles it should hold: handles go up to the right and down to the left,  *)
(* so an interval says where each of them is.                                *)
EXTENDS Integers, Sequences
LOCAL INSTANCE SequencesExt

Measure(items) == FoldSeq(LAMBDA x, y : x.size + y, 0, items)

\* Items: a handle is one that has no children.
Handle(e) == [size |-> 1, elem |-> e, child |-> <<>>]
SeqNode(items) == [size |-> Measure(items), elem |-> 0, child |-> items]

EmptyTree == [tag |-> "empty", size |-> 0]
Single(x) == [tag |-> "single", size |-> x.size, item |-> x]
DeepTree(size, pr, prSize, mid, sf, sfSize) ==
  [tag |-> "deep", size |-> size, pr |-> pr, prSize |-> prSize, mid |-> mid,
   sf |-> sf, sfSize |-> sfSize]

----------------------------------------------------------------------------
RECURSIVE PushFront(_, _)
PushFront(t, x) ==
  CASE t.tag = "empty" -> Single(x)
    [] t.tag = "single" ->
         DeepTree(t.size + x.size, <<x>>, x.size, EmptyTree, <<t.item>>, t.item.size)
    [] t.tag = "deep" /\ Len(t.pr) < 4 ->
         [t EXCEPT !.size = @ + x.size, !.pr = <<x>> \o @, !.prSize = @ + x.size]
    [] t.tag = "deep" /\ Len(t.pr) = 4 ->
         [t EXCEPT !.size = @ + x.size, !.pr = <<x, @[1]>>,
                   !.prSize = x.size + t.pr[1].size,
                   !.mid = PushFront(@, SeqNode(SubSeq(t.pr, 2, 4)))]

RECURSIVE PushBack(_, _)
PushBack(t, x) ==
  CASE t.tag = "empty" -> Single(x)
    [] t.tag = "single" ->
         DeepTree(t.size + x.size, <<t.item>>, t.item.size, EmptyTree, <<x>>, x.size)
    [] t.tag = "deep" /\ Len(t.sf) < 4 ->
         [t EXCEPT !.size = @ + x.size, !.sf = Append(@, x), !.sfSize = @ + x.size]
    [] t.tag = "deep" /\ Len(t.sf) = 4 ->
         [t EXCEPT !.size = @ + x.size, !.sf = <<@[4], x>>,
                   !.sfSize = t.sf[4].size + x.size,
                   !.mid = PushBack(@, SeqNode(SubSeq(t.sf, 1, 3)))]

\* What a pop gives and the tree it leaves.
Popped(x, t) == [item |-> x, rest |-> t]

RECURSIVE PopFront(_)
PopFront(t) ==
  IF t.tag = "single" THEN Popped(t.item, EmptyTree)
  ELSE
  LET x == t.pr[1]
      size == t.size - x.size
  IN Popped(x,
       CASE Len(t.pr) > 1 ->
              [t EXCEPT !.size = size, !.pr = Tail(@), !.prSize = @ - x.size]
         [] Len(t.pr) = 1 /\ t.mid.tag = "empty" /\ Len(t.sf) = 1 ->
              [tag |-> "single", size |-> size, item |-> t.sf[1]]
         [] Len(t.pr) = 1 /\ t.mid.tag = "empty" /\ Len(t.sf) > 1 ->
              [t EXCEPT !.size = size, !.pr = <<t.sf[1]>>, !.prSize = t.sf[1].size,
                        !.sf = Tail(@), !.sfSize = @ - t.sf[1].size]
         [] Len(t.pr) = 1 /\ t.mid.tag # "empty" ->
              LET p == PopFront(t.mid)
              IN  [t EXCEPT !.size = size, !.pr = p.item.child,
                            !.prSize = p.item.size, !.mid = p.rest])

RECURSIVE PopBack(_)
PopBack(t) ==
  IF t.tag = "single" THEN Popped(t.item, EmptyTree)
  ELSE
  LET x == Last(t.sf)
      size == t.size - x.size
  IN Popped(x,
       CASE Len(t.sf) > 1 ->
              [t EXCEPT !.size = size, !.sf = Front(@), !.sfSize = @ - x.size]
         [] Len(t.sf) = 1 /\ t.mid.tag = "empty" /\ Len(t.pr) = 1 ->
              [tag |-> "single", size |-> size, item |-> t.pr[1]]
         [] Len(t.sf) = 1 /\ t.mid.tag = "empty" /\ Len(t.pr) > 1 ->
              [t EXCEPT !.size = size, !.sf = <<Last(t.pr)>>, !.sfSize = Last(t.pr).size,
                        !.pr = Front(@), !.prSize = @ - Last(t.pr).size]
         [] Len(t.sf) = 1 /\ t.mid.tag # "empty" ->
              LET p == PopBack(t.mid)
              IN  [t EXCEPT !.size = size, !.sf = p.item.child,
                            !.sfSize = p.item.size, !.mid = p.rest])

----------------------------------------------------------------------------
\* The place of an index among items, and how far into that item it is.
RECURSIVE Place(_, _)
Place(items, i) ==
  IF i < items[1].size THEN [at |-> 1, off |-> i]
  ELSE LET p == Place(Tail(items), i - items[1].size)
       IN  [p EXCEPT !.at = @ + 1]

RECURSIVE ItemGet(_, _)
ItemGet(x, i) ==
  IF x.child = <<>> THEN x.elem
  ELSE LET p == Place(x.child, i) IN ItemGet(x.child[p.at], p.off)

DigitGet(items, i) == LET p == Place(items, i) IN ItemGet(items[p.at], p.off)

RECURSIVE Get(_, _)
Get(t, i) ==
  IF t.tag = "single" THEN ItemGet(t.item, i)
  ELSE CASE i < t.prSize -> DigitGet(t.pr, i)
         [] t.prSize <= i /\ i < t.prSize + t.mid.size -> Get(t.mid, i - t.prSize)
         [] i >= t.prSize + t.mid.size -> DigitGet(t.sf, i - t.prSize - t.mid.size)

----------------------------------------------------------------------------
\* Two to twelve items in nodes of three, the last two or four in twos.
RECURSIVE PackNodes(_)
PackNodes(items) ==
  CASE Len(items) \in {2, 3} -> <<SeqNode(items)>>
    [] Len(items) = 4 -> <<SeqNode(SubSeq(items, 1, 2)), SeqNode(SubSeq(items, 3, 4))>>
    [] Len(items) > 4 ->
         <<SeqNode(SubSeq(items, 1, 3))>> \o PackNodes(SubSeq(items, 4, Len(items)))

\* Seeded fault: items put in front from the first to the last.
FaultyPushAllFront(t, items) == FoldLeft(LAMBDA u, x : PushFront(u, x), t, items)

PushAllFront(t, items) == FoldRight(LAMBDA x, u : PushFront(u, x), items, t)
PushAllBack(t, items) == FoldLeft(LAMBDA u, x : PushBack(u, x), t, items)

RECURSIVE App3(_, _, _)
App3(s, items, t) ==
  CASE s.tag = "empty" -> PushAllFront(t, items)
    [] s.tag # "empty" /\ t.tag = "empty" -> PushAllBack(s, items)
    [] s.tag = "single" /\ t.tag # "empty" ->
         PushFront(PushAllFront(t, items), s.item)
    [] s.tag = "deep" /\ t.tag = "single" -> PushBack(PushAllBack(s, items), t.item)
    [] s.tag = "deep" /\ t.tag = "deep" ->
         LET mid == App3(s.mid, PackNodes(s.sf \o items \o t.pr), t.mid)
         IN  DeepTree(s.prSize + mid.size + t.sfSize, s.pr, s.prSize, mid, t.sf, t.sfSize)

----------------------------------------------------------------------------
\* Trees of a part of a digit, the middle and the other digit.
DeepL(pr, mid, sf, sfSize) ==
  CASE pr # <<>> ->
         DeepTree(Measure(pr) + mid.size + sfSize, pr, Measure(pr), mid, sf, sfSize)
    [] pr = <<>> /\ mid.tag = "empty" -> PushAllBack(EmptyTree, sf)
    [] pr = <<>> /\ mid.tag # "empty" ->
         LET p == PopFront(mid)
         IN  DeepTree(p.item.size + p.rest.size + sfSize, p.item.child, p.item.size,
                      p.rest, sf, sfSize)

DeepR(pr, prSize, mid, sf) ==
  CASE sf # <<>> ->
         DeepTree(prSize + mid.size + Measure(sf), pr, prSize, mid, sf, Measure(sf))
    [] sf = <<>> /\ mid.tag = "empty" -> PushAllBack(EmptyTree, pr)
    [] sf = <<>> /\ mid.tag # "empty" ->
         LET p == PopBack(mid)
         IN  DeepTree(prSize + p.rest.size + p.item.size, pr, prSize, p.rest,
                      p.item.child, p.item.size)

SplitDigit(items, i) ==
  LET p == Place(items, i)
  IN  [left |-> SubSeq(items, 1, p.at - 1), item |-> items[p.at],
       right |-> SubSeq(items, p.at + 1, Len(items))]

\* The tree before the item an index is in, that item, and the tree after it.
RECURSIVE SplitExact(_, _)
SplitExact(t, i) ==
  IF t.tag = "single" THEN [left |-> EmptyTree, item |-> t.item, right |-> EmptyTree]
  ELSE
  CASE i < t.prSize ->
         LET d == SplitDigit(t.pr, i)
         IN  [left |-> PushAllBack(EmptyTree, d.left), item |-> d.item,
              right |-> DeepL(d.right, t.mid, t.sf, t.sfSize)]
    [] t.prSize <= i /\ i < t.prSize + t.mid.size ->
         LET m == SplitExact(t.mid, i - t.prSize)
             d == SplitDigit(m.item.child, i - t.prSize - m.left.size)
         IN  [left |-> DeepR(t.pr, t.prSize, m.left, d.left), item |-> d.item,
              right |-> DeepL(d.right, m.right, t.sf, t.sfSize)]
    [] i >= t.prSize + t.mid.size ->
         LET d == SplitDigit(t.sf, i - t.prSize - t.mid.size)
         IN  [left |-> DeepR(t.pr, t.prSize, t.mid, d.left), item |-> d.item,
              right |-> PushAllBack(EmptyTree, d.right)]

\* The parts of seq_split_at, the item at the index in the right one.
SplitAt(t, i) ==
  CASE i = 0 -> <<EmptyTree, t>>
    [] i > 0 /\ i = t.size -> <<t, EmptyTree>>
    [] 0 < i /\ i < t.size ->
         LET s == SplitExact(t, i) IN <<s.left, PushFront(s.right, s.item)>>

-----------------------------------------------------------------------------
CONSTANT MaxHandle \* handles are 1 .. MaxHandle

VARIABLES root,   \* the finger tree
          lo, hi  \* what it should hold is lo .. hi

vars == <<root, lo, hi>>

Held == [i \in 1 .. hi - lo + 1 |-> lo + i - 1]

Init == root = EmptyTree /\ lo = MaxHandle \div 2 + 1 /\ hi = lo - 1

SeqPushFront ==
  /\ lo > 1
  /\ root' = PushFront(root, Handle(lo - 1))
  /\ lo' = lo - 1 /\ UNCHANGED hi

SeqPushBack ==
  /\ hi < MaxHandle
  /\ root' = PushBack(root, Handle(hi + 1))
  /\ hi' = hi + 1 /\ UNCHANGED lo

\* An empty sequence gives ERR_EMPTY.
SeqPopFront ==
  /\ root.size > 0
  /\ root' = PopFront(root).rest
  /\ lo' = lo + 1 /\ UNCHANGED hi

SeqPopBack ==
  /\ root.size > 0
  /\ root' = PopBack(root).rest
  /\ hi' = hi - 1 /\ UNCHANGED lo

\* Cut at an index and put together again, as a text is after each edit in it.
Joined(parts) == App3(App3(EmptyTree, <<>>, parts[1]), <<>>, parts[2])
Recut(i) == root' = Joined(SplitAt(root, i)) /\ UNCHANGED <<lo, hi>>

\* The left or the right part of a cut, the other is freed.
KeepLeft(i) == root' = SplitAt(root, i)[1] /\ hi' = lo + i - 1 /\ UNCHANGED lo
KeepRight(i) == root' = SplitAt(root, i)[2] /\ lo' = lo + i /\ UNCHANGED hi

SeqReset == root' = EmptyTree /\ hi' = lo - 1 /\ UNCHANGED lo

Next ==
  \/ SeqPushFront \/ SeqPushBack \/ SeqPopFront \/ SeqPopBack \/ SeqReset
  \/ \E i \in 0 .. root.size : Recut(i) \/ KeepLeft(i) \/ KeepRight(i)

Spec == Init /\ [][Next]_vars

----------------------------------------------------------------------------
RECURSIVE Flat(_)
Flat(items) ==
  IF items = <<>> THEN <<>>
  ELSE (IF Head(items).child = <<>> THEN <<Head(items).elem>> ELSE Flat(Head(items).child))
       \o Flat(Tail(items))

RECURSIVE Contents(_)
Contents(t) ==
  CASE t.tag = "empty" -> <<>>
    [] t.tag = "single" -> Flat(<<t.item>>)
    [] t.tag = "deep" -> Flat(t.pr) \o Contents(t.mid) \o Flat(t.sf)

Parted(parts, i) ==
  /\ Contents(parts[1]) = SubSeq(Held, 1, i)
  /\ Contents(parts[2]) = SubSeq(Held, i + 1, Len(Held))
  /\ parts[1].size = i /\ parts[2].size = Len(Held) - i

\* Whatever the order of pushes, pops, cuts and joins, a sequence holds its
\* handles in order, finds each of them at its index by the sizes it keeps, and
\* a cut at any index parts them there: the handle an edit hits is the one meant
\* (seq.c:434-1900).
AsSequence ==
  /\ Contents(root) = Held
  /\ root.size = Len(Held)
  /\ \A i \in 0 .. root.size - 1 : Get(root, i) = Held[i + 1]
  /\ \A i \in 0 .. root.size : Parted(SplitAt(root, i), i)

============================================================================

------------------------------- MODULE Texts -------------------------------
(* Texts of an environment (text.c) and the transactions of the sequences    *)
(* they stand on (seq.c).  A text points at a share; clones point at the     *)
(* same one, and whoever writes first takes a copy for itself.  A transaction*)
(* keeps the old root of every sequence it writes, and the list of those     *)
(* made in it.  What a sequence holds is a sequence here; Seqs has the trees *)
(* that seq.c keeps it in.                                                   *)
EXTENDS Naturals, FiniteSets, Sequences, SequencesExt

CONSTANTS Names,    \* Text pointers a caller can hold, naturals
          Elems,    \* handles
          MaxLen,   \* bound on the length of a text
          MaxLevels \* bound on the nesting of transactions

VARIABLES texts,  \* the share each text points at, None for a text there is not
          shares, \* TextShared with its Seq: what it holds, who refers, where made
          levels, \* the open transactions, the innermost last
          own     \* what each text should hold, had it never been shared

vars == <<texts, shares, levels, own>>

None == 0
Depth == Len(levels)
Live == {t \in Names : texts[t] # None}
Unused(t) == t \notin Live /\ \A u \in Names : u < t => u \in Live
Ids == 1 .. Cardinality(Names) + 1

Init ==
  /\ texts = [t \in Names |-> None]
  /\ shares = <<>> /\ levels = <<>>
  /\ own = [t \in Names |-> <<>>]

FreeId(S) == CHOOSE i \in Ids : i \notin DOMAIN S
Held(t) == shares[texts[t]].items
SetOf(f, x, y) == [i \in DOMAIN f \cup {x} |-> IF i = x THEN y ELSE f[i]]
Drop(f, x) == [i \in DOMAIN f \ {x} |-> f[i]]
NewShare(items) == [items |-> items, refs |-> 1, born |-> Depth]

----------------------------------------------------------------------------
\* text_new, text_clone and text_free run a top-level transaction of their own,
\* which is refused while a caller's is open.
TextNew(t) ==
  /\ Depth = 0 /\ t \notin Live
  /\ texts' = [texts EXCEPT ![t] = FreeId(shares)]
  /\ shares' = SetOf(shares, FreeId(shares), NewShare(<<>>))
  /\ own' = [own EXCEPT ![t] = <<>>]
  /\ UNCHANGED levels

TextClone(t, u) ==
  /\ Depth = 0 /\ t \notin Live /\ u \in Live
  /\ texts' = [texts EXCEPT ![t] = texts[u]]
  /\ shares' = [shares EXCEPT ![texts[u]].refs = @ + 1]
  /\ own' = [own EXCEPT ![t] = own[u]]
  /\ UNCHANGED levels

Released(S, id) ==
  IF S[id].refs = 1 THEN Drop(S, id) ELSE [S EXCEPT ![id].refs = @ - 1]

TextFree(t) ==
  /\ Depth = 0 /\ t \in Live
  /\ texts' = [texts EXCEPT ![t] = None]
  /\ shares' = Released(shares, texts[t])
  /\ own' = [own EXCEPT ![t] = <<>>]
  /\ UNCHANGED levels

----------------------------------------------------------------------------
\* The texts and shares after some text was given a share of its own.
State == [texts |-> texts, shares |-> shares, levels |-> levels]

Detached(s, t) ==
  LET id == s.texts[t]
      new == FreeId(s.shares)
  IN  IF s.shares[id].refs <= 1 THEN s
      ELSE [s EXCEPT !.texts[t] = new,
                     !.shares = SetOf(Released(s.shares, id), new,
                                      NewShare(s.shares[id].items))]

\* seq_prepare_root and the write: the first one keeps the old root.
Written(s, t, items) ==
  LET id == s.texts[t]
      before == s.levels[Depth].shadow
  IN  [s EXCEPT !.shares[id].items = items,
                !.levels[Depth].shadow =
                   IF id \in DOMAIN before THEN before
                   ELSE SetOf(before, id, s.shares[id].items)]

Become(s, now) ==
  /\ texts' = s.texts /\ shares' = s.shares /\ levels' = s.levels
  /\ own' = now

Edit(t, items) ==
  /\ Depth > 0 /\ t \in Live
  /\ Len(items) <= MaxLen
  /\ Become(Written(Detached(State, t), t, items), [own EXCEPT ![t] = items])

TextPushFront(t, e) == Edit(t, <<e>> \o Held(t))
TextPushBack(t, e) == Edit(t, Append(Held(t), e))
TextSet(t, i, e) == i < Len(Held(t)) /\ Edit(t, [Held(t) EXCEPT ![i + 1] = e])
TextInsert(t, i, e) == i <= Len(Held(t)) /\ Edit(t, InsertAt(Held(t), i + 1, e))
TextDelete(t, i) == i < Len(Held(t)) /\ Edit(t, RemoveAt(Held(t), i + 1))
TextReset(t) == Edit(t, <<>>)

\* A pop of nothing has taken its own share all the same.
TextPop(t, rest) ==
  IF Held(t) # <<>> THEN Edit(t, rest)
  ELSE Depth > 0 /\ Become(Detached(State, t), own)

TextPopFront(t) == TextPop(t, IF Held(t) = <<>> THEN <<>> ELSE Tail(Held(t)))
TextPopBack(t) == TextPop(t, IF Held(t) = <<>> THEN <<>> ELSE Front(Held(t)))

\* What was in the source moves to the end of the other.
TextConcat(t, u) ==
  /\ Depth > 0 /\ t # u
  /\ Len(Held(t)) + Len(Held(u)) <= MaxLen
  /\ LET both == Held(t) \o Held(u)
         s == Detached(Detached(State, u), t)
     IN  Become(Written(Written(s, t, both), u, <<>>),
                [own EXCEPT ![t] = both, ![u] = <<>>])

\* The parts become two new texts, the text itself is left empty.
TextSplitAt(t, i, l, r) ==
  /\ Depth > 0 /\ Unused(l) /\ r \notin Live \cup {l}
  /\ i <= Len(Held(t))
  /\ LET left == SubSeq(Held(t), 1, i)
         right == SubSeq(Held(t), i + 1, Len(Held(t)))
         s == Written(Detached(State, t), t, <<>>)
         il == FreeId(s.shares)
         sl == SetOf(s.shares, il, NewShare(left))
         ir == FreeId(sl)
     IN  Become([s EXCEPT !.texts[l] = il, !.texts[r] = ir,
                          !.shares = SetOf(sl, ir, NewShare(right))],
                [own EXCEPT ![t] = <<>>, ![l] = left, ![r] = right])

\* A new share changes places with the old one, which is let go; the sequence
\* of a share that ends is forgotten by every open transaction.
TextFromUtf8(t, items) ==
  /\ Depth > 0
  /\ LET id == texts[t]
         new == FreeId(shares)
         gone == shares[id].refs = 1
     IN  Become([texts |-> [texts EXCEPT ![t] = new],
                 shares |-> SetOf(Released(shares, id), new, NewShare(items)),
                 levels |-> IF ~gone THEN levels
                            ELSE [n \in DOMAIN levels |->
                                   [levels[n] EXCEPT !.shadow = Drop(@, id)]]],
                [own EXCEPT ![t] = items])

----------------------------------------------------------------------------
Begin ==
  /\ Depth < MaxLevels
  /\ levels' = Append(levels, [shadow |-> <<>>, own |-> own])
  /\ UNCHANGED <<texts, shares, own>>

HandUp(S) == [id \in DOMAIN S |-> IF S[id].born = Depth THEN [S[id] EXCEPT !.born = Depth - 1]
                                  ELSE S[id]]

\* Seeded fault: a parent that has no old root of its own does not take the
\* child's.
FaultyCommit ==
  /\ Depth > 0
  /\ levels' = Front(levels)
  /\ shares' = HandUp(shares)
  /\ UNCHANGED <<texts, own>>

\* The parent keeps the old roots it has, and takes the others.
Commit ==
  /\ Depth > 0
  /\ levels' = IF Depth = 1 THEN <<>>
               ELSE LET child == levels[Depth].shadow
                        up == levels[Depth - 1].shadow
                    IN  [Front(levels) EXCEPT ![Depth - 1].shadow =
                           [id \in DOMAIN child \cup DOMAIN up |->
                              IF id \in DOMAIN up THEN up[id] ELSE child[id]]]
  /\ shares' = HandUp(shares)
  /\ UNCHANGED <<texts, own>>

\* Old roots come back, and what was made in the transaction is freed.  A text
\* that was given such a share is not put back: it points at freed memory and
\* its holder may not use it again.
Abort ==
  /\ Depth > 0
  /\ LET top == levels[Depth]
         kept == {id \in DOMAIN shares : shares[id].born < Depth}
     IN  /\ shares' = [id \in kept |->
                         IF id \in DOMAIN top.shadow
                         THEN [shares[id] EXCEPT !.items = top.shadow[id]]
                         ELSE shares[id]]
         /\ texts' = [t \in Names |-> IF texts[t] \in kept THEN texts[t] ELSE None]
         /\ own' = [t \in Names |-> IF texts[t] \in kept THEN top.own[t] ELSE <<>>]
         /\ levels' = [n \in 1 .. Depth - 1 |->
                         [levels[n] EXCEPT !.own =
                            [t \in Names |-> IF texts[t] \in kept THEN @[t] ELSE <<>>]]]

Next ==
  \/ \E t \in Names : Unused(t) /\ (TextNew(t) \/ \E u \in Names : TextClone(t, u))
  \/ \E t \in Live :
       \/ TextFree(t) \/ TextReset(t) \/ TextPopFront(t) \/ TextPopBack(t)
       \/ \E e \in Elems : TextPushFront(t, e) \/ TextPushBack(t, e)
       \/ \E i \in 0 .. MaxLen, e \in Elems : TextSet(t, i, e) \/ TextInsert(t, i, e)
       \/ \E i \in 0 .. MaxLen : TextDelete(t, i)
       \/ \E u \in Live : TextConcat(t, u)
       \/ \E i \in 0 .. MaxLen, l, r \in Names : TextSplitAt(t, i, l, r)
       \/ \E e \in Elems : TextFromUtf8(t, <<e>>)
  \/ Begin \/ Commit \/ Abort

Spec == Init /\ [][Next]_vars

----------------------------------------------------------------------------
\* A write to one text never shows in another, though they were cloned, and an
\* abort at any level gives back to every text it leaves usable what it held
\* when that transaction began, nested commits inside it included.  A share is
\* freed with the last text on it, never before (text.c:458-552, seq.c:240-345).
ClonesApart ==
  /\ \A t \in Live : texts[t] \in DOMAIN shares /\ Held(t) = own[t]
  /\ \A id \in DOMAIN shares :
       shares[id].refs = Cardinality({t \in Names : texts[t] = id})

============================================================================

------------------------------- MODULE Trees -------------------------------
(* Texts that stand in other texts: the registry that workers share, with a  *)
(* count of references to each text (text_tree_registry.c), and what a       *)
(* handle expands to through it (text.c).  Threads' calls are in the steps   *)
(* of their atomic operations; a reader's look at the pointer is one.        *)
EXTENDS Naturals, Sequences, SequencesExt, FiniteSetsExt

CONSTANTS Threads,
          Handles,    \* what a text may hold: <<"point", c>>, <<"literal", i>>, <<"tree", i>>
          Literals,   \* the table: a sequence of code points, or Bad
          Bad,        \* bytes that are not UTF-8
          MaxNesting, \* trees in one another
          MaxVisits,  \* trees on the way
          Word,       \* a count of references wraps here
          MaxTrees, MaxLen, MaxHeld \* bounds on registered texts, on a text, on references

VARIABLES draft,    \* the text being written
          registry, \* the entries: text, refs, free
          at,       \* [thread -> the call it is in]
          held,     \* [thread -> [tree -> references it has]]
          astray    \* ghost: a call on a freed entry passed, or undid another's

treeVars == <<draft, registry, at, held, astray>>

Rest == [op |-> "rest", id |-> 0]
Trees == 1 .. MaxTrees
Live(id) == id \in DOMAIN registry /\ registry[id].refs # 0 /\ ~registry[id].free

----------------------------------------------------------------------------
(* What a handle expands to.  A walk carries what it has given out, the      *)
(* trees it has seen and whether it goes on; path is the trees it is in.     *)

Stop(w) == [w EXCEPT !.on = FALSE]
Emit(w, points) == [w EXCEPT !.out = @ \o points]

Walks == [on : BOOLEAN, out : Seq(Nat), visits : Nat]
Named == {"point", "literal", "tree"} \X Nat

Walk[w \in Walks, handle \in Named, path \in Seq(Nat)] ==
  LET id == handle[2]
      Inner(v, h) == IF v.on THEN Walk[v, h, Append(path, id)] ELSE v
  IN  CASE handle[1] = "point" -> Emit(w, <<id>>)
        [] handle[1] = "literal" ->
             IF id \notin DOMAIN Literals \/ Literals[id] = Bad THEN Stop(w) ELSE Emit(w, Literals[id])
        [] handle[1] = "tree" ->
             IF \/ Len(path) >= MaxNesting \/ Contains(path, id)
                \/ w.visits >= MaxVisits \/ ~Live(id)
             THEN Stop(w)
             ELSE FoldLeft(Inner, [w EXCEPT !.visits = @ + 1], registry[id].text)

Expand(handle) == Walk[[on |-> TRUE, out |-> <<>>, visits |-> 0], handle, <<>>]

\* The code points of a text, each handle with visits of its own.
Resolved(text) ==
  LET Next1(v, h) == IF ~v.on THEN v
                     ELSE LET e == Expand(h)
                          IN  IF e.on THEN Emit(v, e.out) ELSE Stop(v)
  IN  FoldLeft(Next1, [on |-> TRUE, out |-> <<>>], text)

\* A literal in a text gives way to its code points. The text is cut before the
\* literal is read: one that cannot be read leaves nothing.
ExpandAt(text, k) ==
  LET h == text[k]
  IN  CASE h[1] # "literal" -> [ok |-> TRUE, text |-> text]
        [] h[1] = "literal" /\ h[2] \notin DOMAIN Literals -> [ok |-> FALSE, text |-> text]
        [] h[1] = "literal" /\ h[2] \in DOMAIN Literals /\ Literals[h[2]] = Bad ->
             [ok |-> FALSE, text |-> <<>>]
        [] OTHER -> [ok |-> TRUE,
                     text |-> SubSeq(text, 1, k - 1)
                              \o [i \in DOMAIN Literals[h[2]] |-> <<"point", Literals[h[2]][i]>>]
                              \o SubSeq(text, k + 1, Len(text))]

----------------------------------------------------------------------------
Write(h) ==
  /\ Len(draft) < MaxLen
  /\ draft' = Append(draft, h)
  /\ UNCHANGED <<registry, at, held, astray>>

Splice(k) ==
  /\ Len(ExpandAt(draft, k).text) <= MaxLen
  /\ draft' = ExpandAt(draft, k).text
  /\ UNCHANGED <<registry, at, held, astray>>

\* What is registered is a clone: the trees it names get no reference by it.
Register(t) ==
  /\ at[t] = Rest /\ Len(registry) < MaxTrees
  /\ registry' = Append(registry, [text |-> draft, refs |-> 1, free |-> FALSE])
  /\ held' = [held EXCEPT ![t][Len(registry) + 1] = 1]
  /\ draft' = <<>>
  /\ UNCHANGED <<at, astray>>

Count(id, d) == registry' = [registry EXCEPT ![id].refs = (@ + d) % Word]
Goes(t, op, id) == at' = [at EXCEPT ![t] = [op |-> op, id |-> id]]

FaultyRetain(t, id) == \* Seeded fault: what was added to a freed entry stays
  /\ at[t] = Rest /\ id \in DOMAIN registry /\ held[t][id] < MaxHeld
  /\ Count(id, 1)
  /\ held' = IF registry[id].refs = 0 THEN held ELSE [held EXCEPT ![t][id] = @ + 1]
  /\ astray' = (astray \/ (registry[id].refs # 0 /\ registry[id].free))
  /\ UNCHANGED <<draft, at>>

\* One more reference, by whoever knows the id.
Retain(t, id) ==
  /\ at[t] = Rest /\ id \in DOMAIN registry /\ held[t][id] < MaxHeld
  /\ Count(id, 1)
  /\ IF registry[id].refs = 0
     THEN Goes(t, "take back", id) /\ UNCHANGED <<held, astray>>
     ELSE /\ held' = [held EXCEPT ![t][id] = @ + 1]
          /\ astray' = (astray \/ \E u \in Threads : at[u].id = id /\ at[u].op \in {"take back", "give back"})
          /\ UNCHANGED at
  /\ UNCHANGED draft

\* One reference less, by one who has it.
Release(t, id) ==
  /\ at[t] = Rest /\ held[t][id] > 0
  /\ Count(id, Word - 1)
  /\ held' = [held EXCEPT ![t][id] = @ - 1]
  /\ IF registry[id].refs = 1 THEN Goes(t, "free", id) ELSE UNCHANGED at
  /\ UNCHANGED <<draft, astray>>

\* One reference less than none, by one who has none.
Underflow(t, id) ==
  /\ at[t] = Rest /\ id \in DOMAIN registry /\ registry[id].refs = 0
  /\ Count(id, Word - 1)
  /\ Goes(t, "give back", id)
  /\ UNCHANGED <<draft, held, astray>>

\* The second half of a call: an addition or a subtraction undone, or the text
\* freed, which is refused while anyone writes.
Finish(t) ==
  LET id == at[t].id
  IN  /\ \/ at[t].op = "take back" /\ Count(id, Word - 1)
         \/ at[t].op = "give back" /\ Count(id, 1)
         \/ at[t].op = "free" /\ registry' = [registry EXCEPT ![id].free = TRUE]
         \/ at[t].op = "free" /\ UNCHANGED registry
         \/ at[t].op = "look" /\ UNCHANGED registry
      /\ at' = [at EXCEPT ![t] = Rest]
      /\ astray' = (astray \/ (at[t].op = "look" /\ registry[id].free))
      /\ UNCHANGED <<draft, held>>

\* The count is looked at, then the text.
Look(t, id) ==
  /\ at[t] = Rest /\ id \in DOMAIN registry /\ registry[id].refs # 0
  /\ Goes(t, "look", id)
  /\ UNCHANGED <<draft, registry, held, astray>>

----------------------------------------------------------------------------
Init ==
  /\ draft = <<>> /\ registry = <<>> /\ at = [t \in Threads |-> Rest]
  /\ held = [t \in Threads |-> [id \in Trees |-> 0]] /\ astray = FALSE

Next ==
  \/ \E h \in Handles : Write(h)
  \/ \E k \in DOMAIN draft : Splice(k)
  \/ \E t \in Threads : Register(t) \/ Finish(t)
  \/ \E t \in Threads, id \in Trees :
       Retain(t, id) \/ Release(t, id) \/ Underflow(t, id) \/ Look(t, id)

Spec == Init /\ [][Next]_treeVars

----------------------------------------------------------------------------
\* Who has a reference finds the text, and the count is that of the references
\* when nobody is in a call. Callers that go on with an entry after its last
\* reference may see it come back for a moment (text_tree_registry.c:111-185).
HoldersSee ==
  ~astray =>
    \A id \in DOMAIN registry :
      LET refs == MapThenSumSet(LAMBDA t : held[t][id], Threads)
      IN  /\ refs > 0 => ~registry[id].free
          /\ (\A t \in Threads : at[t].id # id) => registry[id].refs = refs

\* What a tree means when k trees may lie in one another.
Meaning[k \in 0 .. MaxNesting] ==
  [id \in Trees |->
    IF k = 0 \/ ~Live(id) THEN [ok |-> FALSE, out |-> <<>>, visits |-> 0]
    ELSE LET Of(h) == CASE h[1] = "point" -> [ok |-> TRUE, out |-> <<h[2]>>, visits |-> 0]
                        [] h[1] = "tree" -> Meaning[k - 1][h[2]]
                        [] OTHER -> IF h[2] \in DOMAIN Literals /\ Literals[h[2]] # Bad
                                 THEN [ok |-> TRUE, out |-> Literals[h[2]], visits |-> 0]
                                 ELSE [ok |-> FALSE, out |-> <<>>, visits |-> 0]
         IN  FoldLeft(LAMBDA m, h : IF m.ok /\ Of(h).ok
                                    THEN [ok |-> TRUE, out |-> m.out \o Of(h).out,
                                          visits |-> m.visits + Of(h).visits]
                                    ELSE [m EXCEPT !.ok = FALSE],
                      [ok |-> TRUE, out |-> <<>>, visits |-> 1], registry[id].text)]

\* A handle expands to what its trees mean, whatever order and however often
\* they come; to nothing when one is gone, cannot be read, lies in itself or
\* takes too many visits (text.c:239-337). A text that expands says the same
\* when a literal in it gives way to its code points (text.c:1366-1461).
ExpandsWhole ==
  /\ \A id \in Trees :
       LET m == Meaning[MaxNesting][id]
           w == Expand(<<"tree", id>>)
       IN  /\ w.on <=> m.ok /\ m.visits <= MaxVisits
           /\ w.on => w.out = m.out
  /\ Resolved(draft).on =>
       \A k \in DOMAIN draft : Resolved(ExpandAt(draft, k).text) = Resolved(draft)

TreesLaws == HoldersSee /\ ExpandsWhole

============================================================================

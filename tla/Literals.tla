------------------------------ MODULE Literals ------------------------------
(* The table of literals that handles in a text stand for (text_literal.c):  *)
(* each content once, found through a hash table of open addresses, its      *)
(* bytes behind one another in pages of an arena.  Any allocation may fail.  *)
EXTENDS Naturals, Sequences, SequencesExt

CONSTANTS Contents,   \* what may be added, sequences of bytes
          HashOf,     \* [content -> its hash]
          InitialCap, \* buckets of the first hash table
          PageCap,    \* bytes to a page
          MaxIds,     \* room for ids
          MaxPages    \* bound on pages

VARIABLES added,   \* the entries, [page, from, len]
          pages,   \* the bytes of each page, an oversized one among them
          page,    \* the page being filled, 0 when there is none
          buckets, \* entry numbers by slot, 0 in an empty one
          sealed,
          gave     \* ghost: [id -> what it was given out for]

literalVars == <<added, pages, page, buckets, sealed, gave>>

None == 0

----------------------------------------------------------------------------
Get(id) ==
  LET e == added[id]
  IN  IF e.len = 0 THEN <<>> ELSE SubSeq(pages[e.page], e.from, e.from + e.len - 1)

\* The slots from a hash on, all of them once.
Slots(b, h) == [k \in 1 .. Len(b) |-> 1 + ((h + k - 1) % Len(b))]

\* The first slot that is empty or holds an entry that will do.
FirstSlot(b, h, Holds(_)) ==
  LET order == Slots(b, h)
      k == SelectInSeq(order, LAMBDA s : b[s] = None \/ Holds(b[s]))
  IN  IF k = 0 THEN 0 ELSE order[k]

Probe(bytes) ==
  LET s == FirstSlot(buckets, HashOf[bytes], LAMBDA e : e <= Len(added) /\ Get(e) = bytes)
  IN  IF s = 0 THEN None ELSE buckets[s]

Seat(b, entry, bytes) ==
  LET s == FirstSlot(b, HashOf[bytes], LAMBDA e : FALSE)
  IN  IF s = 0 THEN b ELSE [b EXCEPT ![s] = entry]

FaultyGrown(old) == \* Seeded fault: the entries stay in the slots they had
  [k \in 1 .. (IF old = <<>> THEN InitialCap ELSE 2 * Len(old)) |->
     IF k <= Len(old) THEN old[k] ELSE None]

\* Twice the room, the entries seated anew, slot by slot.
Grown(old) ==
  FoldLeft(LAMBDA b, e : IF e = None THEN b ELSE Seat(b, e, Get(e)),
           [k \in 1 .. (IF old = <<>> THEN InitialCap ELSE 2 * Len(old)) |-> None], old)

Full(entries) == (entries + 1) * 4 > Len(buckets) * 3

----------------------------------------------------------------------------
\* Where bytes come to lie: nowhere, in a page of their own, or behind the last.
Copied(bytes) ==
  IF bytes = <<>>
  THEN [pages |-> pages, page |-> page, at |-> [page |-> 1, from |-> 1, len |-> 0]]
  ELSE IF Len(bytes) > PageCap
  THEN [pages |-> Append(pages, bytes), page |-> page,
        at |-> [page |-> Len(pages) + 1, from |-> 1, len |-> Len(bytes)]]
  ELSE IF page = 0 \/ Len(pages[page]) + Len(bytes) > PageCap
  THEN [pages |-> Append(pages, bytes), page |-> Len(pages) + 1,
        at |-> [page |-> Len(pages) + 1, from |-> 1, len |-> Len(bytes)]]
  ELSE [pages |-> [pages EXCEPT ![page] = @ \o bytes], page |-> page,
        at |-> [page |-> page, from |-> Len(pages[page]) + 1, len |-> Len(bytes)]]

Keep(c) == pages' = c.pages /\ page' = c.page

\* A literal that is there keeps its id. When the hash table cannot grow the
\* entry is taken back, its bytes stay.
Add(bytes) ==
  LET c == Copied(bytes)
      new == Len(added) + 1
      room == IF Full(new) THEN Grown(buckets) ELSE buckets
  IN  /\ ~sealed /\ Len(added) < MaxIds /\ Len(pages) < MaxPages
      /\ IF Probe(bytes) # None
         THEN gave' = [gave EXCEPT ![Probe(bytes)] = bytes] /\ UNCHANGED <<added, pages, page, buckets>>
         ELSE \/ UNCHANGED <<added, pages, page, buckets, gave>>
              \/ Keep(c) /\ UNCHANGED <<added, buckets, gave>>
              \/ /\ Keep(c)
                 /\ added' = Append(added, c.at) /\ gave' = Append(gave, bytes)
                 /\ buckets' = Seat(room, new, bytes)
      /\ UNCHANGED sealed

Seal == sealed' = TRUE /\ UNCHANGED <<added, pages, page, buckets, gave>>

Free ==
  /\ added' = <<>> /\ pages' = <<>> /\ page' = 0 /\ buckets' = <<>>
  /\ sealed' = FALSE /\ gave' = <<>>

----------------------------------------------------------------------------
Init ==
  /\ added = <<>> /\ pages = <<>> /\ page = 0 /\ buckets = <<>>
  /\ sealed = FALSE /\ gave = <<>>

Next == Seal \/ Free \/ \E bytes \in Contents : Add(bytes)

Spec == Init /\ [][Next]_literalVars

----------------------------------------------------------------------------
\* An id stands for what it was given out for, whatever was added or failed
\* since, one content has one id, and what is in the table is found however
\* often it grew (text_literal.c:48-180, 279-340).
LiteralsLast ==
  /\ \A id \in DOMAIN added : Get(id) = gave[id] /\ Probe(gave[id]) = id
  /\ Len(added) = Len(gave)
  /\ \A i \in DOMAIN pages : Len(pages[i]) > PageCap => i # page

============================================================================

------------------------------- MODULE Arena -------------------------------
(* The allocator under Sapling (arena.c): pages and nodes in numbered slots,  *)
(* and a stack of slots that were given back.  Memory of its own ("malloc")   *)
(* is had one block at a time and may be refused; "linear" memory is one      *)
(* storage used from front to back.  A custom backing does as malloc does.    *)
(* Callers ask for a node's number, without which they get none, and give     *)
(* back what they hold, as what they took it for, once.  Counts of calls are  *)
(* left out.                                                                  *)
EXTENDS Naturals, Sequences, FiniteSets, SequencesExt

CONSTANTS
  Backings,     \* of "malloc", "linear"
  PageSize,     \* eff_page_size
  NodeSizes,
  Align,        \* of max_align_t
  LinearBytes,  \* linear_capacity_bytes
  Budgets,      \* of active slots, 0 for none
  FirstRoom,    \* slots the free stack holds when it is first made: 16
  MaxNext       \* bound on the slots that are numbered

VARIABLES
  backing,      \* opts.type
  next,         \* next_pgno
  chunks,       \* malloc_chunks and chunk_sizes, up to chunk_count
  free,         \* free_pgnos, the top last
  room,         \* free_pgno_capacity
  used,         \* linear_used_bytes
  budget,       \* max_active_slots
  held,         \* history: what callers hold
  lost          \* history: slots given back that the stack had no room for

slots == <<next, chunks, free, room, used>>
vars  == <<backing, slots, budget, held, lost>>

None == [at |-> 0, size |-> 0]
Largest(S) == CHOOSE x \in S : \A y \in S : y <= x

----------------------------------------------------------------------------
(* Slots                                                                    *)

\* Slot 0 is never given out; a stack that outnumbers the slots counts as all.
Active ==
  LET live == IF Len(chunks) = 0 THEN 0 ELSE Len(chunks) - 1
  IN  IF Len(free) >= live THEN 0 ELSE live - Len(free)

WithinBudget == budget = 0 \/ Active + 1 <= budget

\* What slot n holds: chunks counts from 1, slots from 0.
Slot(n) == IF n < Len(chunks) THEN chunks[n + 1] ELSE None

\* The chunks with block b in slot n.
With(cs, n, b) ==
  [i \in 1 .. Largest({Len(cs), n + 1}) |->
     IF i = n + 1 THEN b ELSE IF i <= Len(cs) THEN cs[i] ELSE None]

\* The first slot with a given address, as a free by pointer looks for it.
SlotAt(at) == CHOOSE n \in 1 .. Len(chunks) - 1 :
                /\ Slot(n).at = at
                /\ \A m \in 1 .. n - 1 : Slot(m).at # at

\* A freed node leaves its slot empty, but in linear memory.
Without(cs, n) == IF backing = "linear" THEN cs ELSE With(cs, n, None)

\* The outcomes of giving slot n back: a full stack grows or is refused.
Pushed(n) ==
  IF Len(free) < room THEN {[ok |-> TRUE, free |-> Append(free, n), room |-> room]}
  ELSE {[ok |-> TRUE, free |-> Append(free, n),
         room |-> IF room = 0 THEN FirstRoom ELSE 2 * room],
        [ok |-> FALSE, free |-> free, room |-> room]}

----------------------------------------------------------------------------
(* Blocks: a malloc'd one begins at a multiple of Stride.                   *)

Stride == Largest(NodeSizes \cup {PageSize})
RoundUp(n, a) == ((n + a - 1) \div a) * a
InUse(at) == \E i \in DOMAIN chunks : chunks[i].at = at /\ chunks[i] # None

\* The block that a call for memory gives, if it is not refused.
NewBlocks(size, align) ==
  IF backing = "linear"
  THEN {b \in {[at |-> RoundUp(used, align), size |-> size]} : b.at + size <= LinearBytes}
  ELSE {[at |-> Stride * (CHOOSE k \in 1 .. MaxNext + 1 :
           ~InUse(Stride * k) /\ \A j \in 1 .. k - 1 : InUse(Stride * j)), size |-> size]}

UsedAfter(b) == IF backing = "linear" THEN b.at + b.size ELSE used

----------------------------------------------------------------------------
(* Pages and nodes.  A call that is refused, for the budget, for memory or   *)
(* for the tables, puts back the slot it claimed and the linear memory it    *)
(* took: no step at all.                                                     *)

\* Seeded fault: the size of the block that is there is not looked at.
FaultyReusable(n) == Slot(n) # None

\* A page from the stack takes the block that its slot still has.
Reusable(n) == Slot(n) # None /\ Slot(n).size >= PageSize

Taken(kind, n, b) == [kind |-> kind, no |-> n, block |-> b]

AllocRecycled ==
  /\ WithinBudget /\ free # <<>>
  /\ LET n == Last(free)
     IN  \E b \in IF Reusable(n) THEN {Slot(n)} ELSE NewBlocks(PageSize, PageSize) :
           /\ chunks' = With(chunks, n, b)
           /\ used' = IF Reusable(n) THEN used ELSE UsedAfter(b)
           /\ held' = held \cup {Taken("page", n, b)}
  /\ free' = Front(free)
  /\ UNCHANGED <<backing, next, room, budget, lost>>

AllocFresh ==
  /\ WithinBudget /\ free = <<>> /\ next < MaxNext
  /\ \E b \in NewBlocks(PageSize, PageSize) :
       /\ chunks' = With(chunks, next, b)
       /\ used' = UsedAfter(b)
       /\ held' = held \cup {Taken("page", next, b)}
  /\ next' = next + 1
  /\ UNCHANGED <<backing, free, room, budget, lost>>

AllocPage == AllocRecycled \/ AllocFresh

\* By number, or by pointer.
NamedBy(h) == {h.no, SlotAt(h.block.at)}

FreePage(h) ==
  /\ h \in held /\ h.kind = "page"
  /\ \E n \in NamedBy(h) : \E p \in Pushed(n) :
       /\ free' = p.free /\ room' = p.room
       /\ lost' = IF p.ok THEN lost ELSE lost \cup {n}
  /\ held' = held \ {h}
  /\ UNCHANGED <<backing, next, chunks, used, budget>>

\* A node never takes a slot from the stack.
NodeBlocks(size) == IF WithinBudget THEN NewBlocks(size, Align) ELSE {}

AllocNode(size) ==
  /\ next < MaxNext
  /\ \E b \in NodeBlocks(size) :
       /\ chunks' = With(chunks, next, b)
       /\ used' = UsedAfter(b)
       /\ held' = held \cup {Taken("node", next, b)}
  /\ next' = next + 1
  /\ UNCHANGED <<backing, free, room, budget, lost>>

FreeNode(h) ==
  /\ h \in held /\ h.kind = "node"
  /\ \E n \in NamedBy(h) : \E p \in Pushed(n) :
       /\ chunks' = Without(chunks, n)
       /\ free' = p.free /\ room' = p.room
       /\ lost' = IF p.ok THEN lost ELSE lost \cup {n}
  /\ held' = held \ {h}
  /\ UNCHANGED <<backing, next, used, budget>>

\* A new node, the bytes, and the old one back.  A size of 0 is FreeNode, a
\* number that holds nothing AllocNode.
ReallocNode(h, size) ==
  /\ h \in held /\ h.kind = "node" /\ next < MaxNext
  /\ \E b \in NodeBlocks(size), p \in Pushed(h.no) :
       /\ p.ok
       /\ chunks' = Without(With(chunks, next, b), h.no)
       /\ used' = UsedAfter(b)
       /\ free' = p.free /\ room' = p.room
       /\ held' = (held \ {h}) \cup {Taken("node", next, b)}
  /\ next' = next + 1
  /\ UNCHANGED <<backing, budget, lost>>

\* The old one's slot finds no room: the new one is given back, too, and neither
\* is left (arena.h:146 has the old one stay).
ReallocFails(h, size) ==
  /\ h \in held /\ h.kind = "node" /\ next < MaxNext
  /\ \E b \in NodeBlocks(size), p \in Pushed(h.no), q \in Pushed(next) :
       /\ ~p.ok
       /\ chunks' = Without(Without(With(chunks, next, b), h.no), next)
       /\ used' = UsedAfter(b)
       /\ free' = q.free /\ room' = q.room
       /\ lost' = lost \cup {h.no} \cup IF q.ok THEN {} ELSE {next}
  /\ held' = held \ {h}
  /\ next' = next + 1
  /\ UNCHANGED <<backing, budget>>

SetBudget(b) ==
  /\ budget' = b
  /\ UNCHANGED <<backing, slots, held, lost>>

----------------------------------------------------------------------------
Init ==
  /\ backing \in Backings
  /\ next = 1 /\ chunks = <<>> /\ free = <<>> /\ room = 0 /\ used = 0
  /\ budget = 0
  /\ held = {} /\ lost = {}

Next ==
  \/ AllocPage
  \/ \E h \in held : FreePage(h) \/ FreeNode(h)
  \/ \E size \in NodeSizes : AllocNode(size)
  \/ \E h \in held, size \in NodeSizes : ReallocNode(h, size) \/ ReallocFails(h, size)
  \/ \E b \in Budgets : SetBudget(b)

Spec == Init /\ [][Next]_vars

----------------------------------------------------------------------------
Apart(a, b) == a.at + a.size <= b.at \/ b.at + b.size <= a.at

\* What two callers hold never shares a slot or a byte; a number and a pointer
\* lead to the block that was given out, which is as large as was asked for; no
\* slot that is held is on the stack, and none is there twice (arena.c:297-533).
HeldApart ==
  /\ \A h \in held :
       /\ Slot(h.no) = h.block /\ SlotAt(h.block.at) = h.no
       /\ h.no \notin ToSet(free)
       /\ h.kind = "page" => h.block.size >= PageSize
       /\ backing = "linear" => h.block.at % Align = 0
  /\ \A h, g \in held : h # g => h.no # g.no /\ Apart(h.block, g.block)
  /\ \A i, j \in DOMAIN free : i # j => free[i] # free[j]

\* The slots that the budget counts are those in callers' hands, and those lost.
CountsHeld == Active = Cardinality(held) + Cardinality(lost)

SlotsOwned == HeldApart /\ CountsHeld

============================================================================

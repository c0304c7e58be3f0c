----------------------------- MODULE PagesProofs -----------------------------
(* Proofs about Pages, for any databases, values and readers, any number of *)
(* pages and commits, and any depth of nesting.                             *)
EXTENDS Pages, FiniteSetTheorems, SequenceTheorems, WellFoundedInduction, TLAPS

---------------------------------------------------------------------------
(* The inductive invariant                                                 *)

Entries == [at : 0 .. MaxTxnid, page : PageNos]

\* The free list in use: the innermost transaction's, if there is one.
FreeHead == IF txns = <<>> THEN free ELSE Top.free

\* The pages a write transaction answers for.
Held(t) == Used(t.root) \cup t.old \cup t.new

\* Somebody may still look at page p, or is to give it back.
Taken(p) ==
  \/ p \in Used(root) \/ p \in DeferredPages
  \/ \E i \in DOMAIN txns : p \in Held(txns[i])

\* b[p] are the pages that come after p on the free list with head h: the list
\* never returns to a page, though it may end in pages that have no memory and
\* whose successors are not known.
Listed(h, b) == IF h = NoPage THEN {} ELSE {h} \cup b[h]

Chain(m, h, b) ==
  /\ b \in [PageNos -> SUBSET PageNos]
  /\ \A p \in Listed(h, b) :
       /\ p \notin b[p] /\ \A q \in b[p] : b[q] \subseteq b[p]
       /\ m[p].kind # "missing" => m[p].next \in b[p] \cup {NoPage}

\* The free list is a chain of pages nobody looks at.
FreeOK == \E b : Chain(mem, FreeHead, b) /\ \A p \in Listed(FreeHead, b) : ~Taken(p)

\* Each database has pages of its own, and those have content.
Apart(rt)  == \A d, e \in Dbis : rt[d] = rt[e] => d = e \/ rt[d] = NoPage
Leaves(rt) == \A p \in Used(rt) : mem[p].kind = "leaf"

\* The committed state, and the pages that wait for readers.
CommittedOK ==
  /\ Apart(root) /\ Leaves(root)
  /\ \A p \in Used(root) \cup DeferredPages : p < num
  /\ Used(root) \cap DeferredPages = {}
  /\ \A e, f \in deferred : e.page = f.page => e = f

\* What transaction i started from.
Base(i)    == IF i = 1 THEN root ELSE txns[i - 1].root
BaseNum(i) == IF i = 1 THEN num ELSE txns[i - 1].num

\* A transaction's tree is its base without the old pages and with new ones;
\* none of these is among the pages that wait, or among those committed.
TxnOK(i) ==
  LET t == txns[i] IN
  /\ Apart(t.root) /\ Leaves(t.root)
  /\ t.savedRoot = Base(i) /\ t.savedNum = BaseNum(i)
  /\ Used(t.root) \subseteq Used(Base(i)) \cup t.new
  /\ Used(Base(i)) \subseteq Used(t.root) \cup t.old
  /\ t.old \cap (t.new \cup Used(t.root)) = {}
  /\ Held(t) \cap DeferredPages = {}
  /\ t.new \cap Used(root) = {}
  /\ num <= t.num /\ \A p \in Held(t) : p < t.num

\* What is new in a child, nobody outside it has seen.
PairOK(i, j) == /\ txns[j].new \cap Held(txns[i]) = {}
                /\ txns[i].num <= txns[j].num

TxnsOK == \A j \in DOMAIN txns : TxnOK(j) /\ \A i \in 1 .. j - 1 : PairOK(i, j)

\* A reader's snapshot is there as it was: what is no longer committed waits, and
\* was freed no earlier than the reader began.
ReaderOK(r) ==
  IF reader[r].snap = Closed THEN reader[r] = NoReader
  ELSE /\ reader[r].snap <= txnid /\ Leaves(reader[r].root)
       /\ \A p \in Used(reader[r].root) :
            p \in Used(root) \/ \E e \in deferred : e.page = p /\ e.at >= reader[r].snap

\* Each registration is of a reader that is open.
At(n) == {r \in Readers : reader[r].snap = n}

ReadersOK == /\ \A r \in Readers : ReaderOK(r)
             /\ \A n \in 0 .. MaxTxnid : registered[n] = Cardinality(At(n))

IInv == TypeOK /\ FreeOK /\ CommittedOK /\ TxnsOK /\ ReadersOK

---------------------------------------------------------------------------
(* Numbers                                                                 *)

\* The less-than relation of the naturals, as a set of pairs.
NatLess == {p \in Nat \X Nat : p[1] < p[2]}

\* A non-empty set of naturals has a least element.
LEMMA LeastExists ==
  ASSUME NEW S \in SUBSET Nat, S # {}
  PROVE  \E s \in S : \A t \in S : s <= t
<1>1. IsWellFoundedOn(NatLess, Nat)
  <2>1. OpToRel(<, Nat) = NatLess
    BY DEF OpToRel, NatLess
  <2>. QED  BY <2>1, NatLessThanWellFounded
<1>2. PICK s \in S : \A t \in S : ~(<<t, s>> \in NatLess)
  BY <1>1, WFMin, Zenon
<1>3. ASSUME NEW t \in S PROVE s <= t
  <2>1. t \in Nat /\ s \in Nat /\ <<t, s>> \notin NatLess
    BY <1>2
  <2>2. ~(t < s)
    BY <2>1 DEF NatLess
  <2>. QED  BY <2>1, <2>2
<1>. QED  BY <1>3

\* A non-empty set of numbers up to n has a greatest one.
LEMMA GreatestExists ==
  ASSUME NEW n \in Nat, NEW S \in SUBSET (0 .. n), S # {}
  PROVE  \E s \in S : \A t \in S : t <= s
<1>. DEFINE T == {n - s : s \in S}
<1>1. T \in SUBSET Nat /\ T # {}
  <2>1. ASSUME NEW s \in S PROVE n - s \in Nat
    OBVIOUS
  <2>2. PICK s \in S : TRUE
    OBVIOUS
  <2>3. n - s \in T
    OBVIOUS
  <2>. QED  BY <2>1, <2>3, Zenon
<1>2. PICK u \in T : \A t \in T : u <= t
  <2>. HIDE DEF T
  <2>. QED  BY <1>1, LeastExists
<1>3. PICK s \in S : u = n - s
  OBVIOUS
<1>4. ASSUME NEW t \in S PROVE t <= s
  <2>1. u <= n - t
    BY <1>2
  <2>. HIDE DEF T
  <2>. QED  BY <1>3, <2>1
<1>. QED  BY <1>4

---------------------------------------------------------------------------
(* Pushing pages on the free list                                          *)

\* Before is a strict order of entries.
LEMMA BeforeOrders ==
  ASSUME NEW e \in Entries, NEW f \in Entries, NEW g \in Entries
  PROVE  /\ ~Before(e, e)
         /\ Before(e, f) /\ Before(f, g) => Before(e, g)
         /\ e = f \/ Before(e, f) \/ Before(f, e)
<1>1. /\ e.at \in Nat /\ f.at \in Nat /\ g.at \in Nat
      /\ e.page \in Nat /\ f.page \in Nat /\ g.page \in Nat
  BY PagesAssumption, TxnsAssumption DEF Entries, PageNos
<1>2. e.at = f.at /\ e.page = f.page => e = f
  BY DEF Entries
<1>. QED  BY <1>1, <1>2 DEF Before

\* A set of entries has a last one.
LEMMA LatestIs ==
  ASSUME NEW E \in SUBSET Entries, E # {}
  PROVE  Latest(E) \in E /\ \A f \in E \ {Latest(E)} : Before(f, Latest(E))
<1>. DEFINE A == {e.at : e \in E}
<1>1. PICK a \in A : \A b \in A : b <= a
  <2>1. A \in SUBSET (0 .. MaxTxnid) /\ A # {}
    BY DEF Entries
  <2>. HIDE DEF A
  <2>. QED  BY <2>1, TxnsAssumption, GreatestExists
<1>. DEFINE P == {e.page : e \in {f \in E : f.at = a}}
<1>2. PICK p \in P : \A q \in P : q <= p
  <2>1. P \in SUBSET (0 .. MaxPages - 1) /\ P # {}
    BY DEF Entries, PageNos
  <2>2. MaxPages - 1 \in Nat
    BY PagesAssumption
  <2>. HIDE DEF P
  <2>. QED  BY <2>1, <2>2, GreatestExists
<1>3. PICK e \in E : e.at = a /\ e.page = p
  OBVIOUS
<1>4. ASSUME NEW f \in E \ {e} PROVE Before(f, e)
  <2>1. f.at <= a
    BY <1>1
  <2>2. f.at = a => f.page <= p
    BY <1>2
  <2>3. ~Before(e, f)
    <3>1. /\ e.at \in Nat /\ f.at \in Nat /\ e.page \in Nat /\ f.page \in Nat
      BY PagesAssumption, TxnsAssumption DEF Entries, PageNos
    <3>. HIDE DEF A, P
    <3>. QED  BY <1>3, <2>1, <2>2, <3>1 DEF Before
  <2>4. e \in Entries /\ f \in Entries /\ e # f
    OBVIOUS
  <2>. HIDE DEF A, P
  <2>. QED  BY <2>3, <2>4, BeforeOrders
<1>. HIDE DEF A, P
<1>5. \E l \in E : \A f \in E \ {l} : Before(f, l)
  BY <1>4
<1>. QED  BY <1>5 DEF Latest

\* The order of the chain stays one when pages outside it are pushed.
LEMMA Pushed ==
  ASSUME NEW m \in [PageNos -> Memory], NEW h \in Links, NEW b, Chain(m, h, b),
         NEW E \in SUBSET Entries,
         \A e, f \in E : e.page = f.page => e = f,
         \A e \in E : e.page \notin Listed(h, b),
         NEW h2, h2 = HeadAfter(h, E), NEW m2, m2 = LinkedAfter(m, h, E)
  PROVE  /\ h2 \in Links /\ m2 \in [PageNos -> Memory]
         /\ \A p \in PageNos : (\A e \in E : e.page # p) => m2[p] = m[p]
         /\ \E c : Chain(m2, h2, c) /\ \A p \in Listed(h2, c) :
                     p \in Listed(h, b) \/ \E e \in E : e.page = p
<1>. DEFINE S == Listed(h, b)
            L(p) == {e \in E : e.page = p}
            Up(e) == {f \in E : Before(f, e)}
            c == [p \in PageNos |-> IF \E e \in E : e.page = p
                                    THEN S \cup {f.page : f \in UNION {Up(e) : e \in L(p)}}
                                    ELSE b[p]]
<1>0. /\ \A e \in E : e \in Entries /\ e.page \in PageNos
      /\ b \in [PageNos -> SUBSET PageNos] /\ S \subseteq PageNos
  BY DEF Entries, Chain, Listed, Links
<1>1. ASSUME NEW e \in E PROVE L(e.page) = {e} /\ Latest(L(e.page)) = e
  <2>1. L(e.page) = {e}
    OBVIOUS
  <2>2. {e} \in SUBSET Entries
    BY <1>0
  <2>3. Latest({e}) \in {e}
    BY <2>2, LatestIs
  <2>. HIDE DEF L
  <2>. QED  BY <2>1, <2>3
<1>2. ASSUME NEW e \in E PROVE m2[e.page] = Link(HeadAfter(h, Up(e)))
  <2>1. m2[e.page] = IF L(e.page) = {} THEN m[e.page]
                     ELSE Link(HeadAfter(h, {f \in E : Before(f, Latest(L(e.page)))}))
    BY <1>0 DEF LinkedAfter
  <2>2. Up(e) = {f \in E : Before(f, e)}
    OBVIOUS
  <2>3. L(e.page) # {} /\ Latest(L(e.page)) = e
    BY <1>1
  <2>. HIDE DEF L, Up
  <2>. QED  BY <2>1, <2>2, <2>3
<1>3. ASSUME NEW p \in PageNos, \A e \in E : e.page # p PROVE m2[p] = m[p]
  BY <1>3 DEF LinkedAfter
<1>4. ASSUME NEW F \in SUBSET E
      PROVE  HeadAfter(h, F) \in Links
             /\ (F = {} => HeadAfter(h, F) = h)
             /\ (F # {} => \E f \in F : HeadAfter(h, F) = f.page /\ \A g \in F \ {f} : Before(g, f))
  <2>1. CASE F = {}
    BY <2>1 DEF HeadAfter
  <2>2. CASE F # {}
    <3>1. F \in SUBSET Entries
      BY <1>0
    <3>2. Latest(F) \in F /\ \A g \in F \ {Latest(F)} : Before(g, Latest(F))
      BY <2>2, <3>1, LatestIs
    <3>3. HeadAfter(h, F) = Latest(F).page
      BY <2>2 DEF HeadAfter
    <3>. QED  BY <1>0, <2>2, <3>2, <3>3 DEF Links
  <2>. QED  BY <2>1, <2>2
<1>. HIDE DEF Up, L
<1>5. \A p \in PageNos : m2[p] \in Memory
  <2>. SUFFICES ASSUME NEW p \in PageNos PROVE m2[p] \in Memory
    OBVIOUS
  <2>1. CASE \E e \in E : e.page = p
    <3>1. PICK e \in E : e.page = p
      BY <2>1
    <3>2. Up(e) \in SUBSET E
      BY DEF Up
    <3>3. m2[p] = Link(HeadAfter(h, Up(e))) /\ HeadAfter(h, Up(e)) \in Links
      BY <1>2, <1>4, <3>1, <3>2
    <3>. QED  BY <3>3 DEF Memory
  <2>2. CASE \A e \in E : e.page # p
    BY <1>3, <2>2
  <2>. QED  BY <2>1, <2>2
<1>6. m2 \in [PageNos -> Memory]
  <2>1. DOMAIN m2 = PageNos /\ m2 = [p \in DOMAIN m2 |-> m2[p]]
    BY DEF LinkedAfter
  <2>. QED  BY <1>5, <2>1
\* What comes after a page that was pushed, and after one that was not.
<1>7. ASSUME NEW e \in E PROVE c[e.page] = S \cup {f.page : f \in Up(e)}
  <2>1. UNION {Up(g) : g \in L(e.page)} = Up(e)
    BY <1>1
  <2>. HIDE DEF L
  <2>. QED  BY <1>0, <2>1
<1>8. ASSUME NEW p \in PageNos, \A e \in E : e.page # p PROVE c[p] = b[p]
  BY <1>8
<1>9. /\ \A p \in S : c[p] = b[p] /\ b[p] \subseteq S
      /\ \A e \in E : e.page \notin S
  <2>1. ASSUME NEW p \in S PROVE b[p] \subseteq S
    BY DEF Chain, Listed
  <2>2. \A e \in E : e.page \notin S
    OBVIOUS
  <2>. HIDE DEF S, c
  <2>. QED  BY <1>0, <1>8, <2>1, <2>2
<1>10. c \in [PageNos -> SUBSET PageNos]
  <2>1. \A p \in PageNos : c[p] \in SUBSET PageNos
    <3>1. ASSUME NEW e \in E PROVE c[e.page] \in SUBSET PageNos
      <4>1. Up(e) \subseteq E
        BY DEF Up
      <4>. HIDE DEF c, S
      <4>. QED  BY <1>0, <1>7, <4>1
    <3>2. ASSUME NEW p \in PageNos, \A e \in E : e.page # p PROVE c[p] \in SUBSET PageNos
      <4>. HIDE DEF c, S
      <4>. QED  BY <1>0, <1>8, <3>2
    <3>. HIDE DEF c, S
    <3>. QED  BY <3>1, <3>2
  <2>2. DOMAIN c = PageNos /\ c = [p \in DOMAIN c |-> c[p]]
    OBVIOUS
  <2>. HIDE DEF c
  <2>. QED  BY <2>1, <2>2
<1>11. \A p \in Listed(h2, c) : p \in S \/ \E e \in E : e.page = p
  <2>1. CASE E = {}
    <3>1. h2 = h
      BY <1>4, <2>1
    <3>. HIDE DEF S, c
    <3>2. ASSUME h # NoPage PROVE c[h] = b[h]
      BY <1>8, <2>1, <3>2 DEF Links
    <3>. QED  BY <3>1, <3>2 DEF Listed, S
  <2>2. CASE E # {}
    <3>1. PICK e \in E : h2 = e.page
      BY <1>4, <2>2
    <3>2. Up(e) \subseteq E
      BY DEF Up
    <3>. HIDE DEF S, c
    <3>. QED  BY <1>7, <3>1, <3>2 DEF Listed
  <2>. QED  BY <2>1, <2>2
<1>12. ASSUME NEW p \in S
       PROVE  /\ p \notin c[p] /\ \A q \in c[p] : c[q] \subseteq c[p]
              /\ m2[p].kind # "missing" => m2[p].next \in c[p] \cup {NoPage}
  <2>1. /\ p \notin b[p] /\ \A q \in b[p] : b[q] \subseteq b[p]
        /\ m[p].kind # "missing" => m[p].next \in b[p] \cup {NoPage}
    BY DEF Chain
  <2>. HIDE DEF S, c
  <2>2. m2[p] = m[p]
    BY <1>0, <1>3, <1>9
  <2>3. c[p] = b[p] /\ \A q \in c[p] : c[q] = b[q]
    BY <1>9
  <2>. QED  BY <2>1, <2>2, <2>3
<1>13. ASSUME NEW e \in E
       PROVE  /\ e.page \notin c[e.page] /\ \A q \in c[e.page] : c[q] \subseteq c[e.page]
              /\ m2[e.page].next \in c[e.page] \cup {NoPage}
  <2>1. e.page \notin c[e.page]
    <3>1. ASSUME NEW f \in Up(e) PROVE f.page # e.page
      BY <1>0, BeforeOrders DEF Up
    <3>. HIDE DEF S, c
    <3>. QED  BY <1>7, <1>9, <3>1
  <2>2. ASSUME NEW q \in c[e.page] PROVE c[q] \subseteq c[e.page]
    <3>1. CASE q \in S
      <4>. HIDE DEF S, c
      <4>. QED  BY <1>7, <1>9, <3>1
    <3>2. CASE \E f \in Up(e) : q = f.page
      <4>1. PICK f \in Up(e) : q = f.page
        BY <3>2
      <4>2. f \in E /\ Up(f) \subseteq Up(e)
        BY <1>0, BeforeOrders DEF Up
      <4>. HIDE DEF S, c
      <4>. QED  BY <1>7, <4>1, <4>2
    <3>. HIDE DEF S, c
    <3>. QED  BY <1>7, <3>1, <3>2
  <2>3. HeadAfter(h, Up(e)) \in c[e.page] \cup {NoPage}
    <3>1. Up(e) \in SUBSET E
      BY DEF Up
    <3>2. CASE Up(e) = {}
      <4>1. HeadAfter(h, Up(e)) = h
        BY <1>4, <3>1, <3>2
      <4>2. h = NoPage \/ h \in S
        BY DEF Listed
      <4>. HIDE DEF S, c
      <4>. QED  BY <1>7, <4>1, <4>2
    <3>3. CASE Up(e) # {}
      <4>1. PICK f \in Up(e) : HeadAfter(h, Up(e)) = f.page
        BY <1>4, <3>1, <3>3
      <4>. HIDE DEF S, c
      <4>. QED  BY <1>7, <4>1
    <3>. QED  BY <3>2, <3>3
  <2>4. m2[e.page].next = HeadAfter(h, Up(e))
    <3>. HIDE DEF S, c
    <3>1. PICK x : x = HeadAfter(h, Up(e))
      OBVIOUS
    <3>2. m2[e.page] = Link(x)
      BY <1>2, <3>1
    <3>. QED  BY <3>1, <3>2 DEF Link
  <2>. HIDE DEF S, c
  <2>. QED  BY <2>1, <2>2, <2>3, <2>4
<1>14. Chain(m2, h2, c)
  <2>. HIDE DEF S, c
  <2>. QED  BY <1>10, <1>11, <1>12, <1>13 DEF Chain
<1>15. h2 \in Links
  BY <1>4
<1>16. /\ \A p \in PageNos : (\A e \in E : e.page # p) => m2[p] = m[p]
       /\ \E d : Chain(m2, h2, d) /\ \A p \in Listed(h2, d) :
                     p \in Listed(h, b) \/ \E e \in E : e.page = p
  <2>. HIDE DEF c
  <2>. QED  BY <1>3, <1>11, <1>14
<1>. QED  BY <1>6, <1>15, <1>16

\* A set of naturals that holds 0 and the successor of each member holds them all.
LEMMA Induction ==
  ASSUME NEW S \in SUBSET Nat, 0 \in S, \A n \in S : n + 1 \in S
  PROVE  S = Nat
<1>. SUFFICES ASSUME S # Nat PROVE FALSE
  OBVIOUS
<1>. DEFINE T == Nat \ S
<1>1. PICK m \in T : \A t \in T : m <= t
  <2>1. T \in SUBSET Nat /\ T # {}
    OBVIOUS
  <2>. HIDE DEF T
  <2>. QED  BY <2>1, LeastExists
<1>2. m \in Nat /\ m # 0 /\ m \notin S
  OBVIOUS
<1>3. m - 1 \in Nat /\ m - 1 \notin T
  BY <1>1, <1>2
<1>4. m - 1 \in S
  BY <1>3
<1>5. (m - 1) + 1 \in S
  BY <1>4
<1>. QED  BY <1>2, <1>5

\* A walk of the free list stays on the chain.
LEMMA WalkListed ==
  ASSUME NEW m \in [PageNos -> Memory], NEW h \in Links, NEW b, Chain(m, h, b)
  PROVE  Walk(m, h) \subseteq Listed(h, b)
<1>. DEFINE On   == Listed(h, b) \cup {NoPage}
            Go(x) == IF x = NoPage \/ m[x].kind = "missing" THEN NoPage ELSE m[x].next
            E(f) == [k \in 0 .. MaxPages |->
                       IF k = 0 THEN h
                       ELSE IF f[k - 1] = NoPage \/ m[f[k - 1]].kind = "missing" THEN NoPage
                       ELSE m[f[k - 1]].next]
            P(d) == \E f \in [0 .. d -> On] : f[0] = h /\ \A i \in 1 .. d : f[i] = Go(f[i - 1])
            S == {d \in Nat : P(d)}
<1>1. h \in On
  BY DEF Listed
<1>2. ASSUME NEW x \in On PROVE Go(x) \in On
  <2>1. CASE x = NoPage
    BY <2>1
  <2>2. CASE x \in Listed(h, b)
    BY <2>2 DEF Chain, Listed
  <2>. QED  BY <2>1, <2>2
<1>. HIDE DEF On, Go
<1>3. 0 \in S
  <2>1. PICK f : f = [i \in 0 .. 0 |-> h]
    OBVIOUS
  <2>2. f \in [0 .. 0 -> On] /\ f[0] = h /\ 1 .. 0 = {}
    BY <2>1, <1>1
  <2>. QED  BY <2>2
<1>4. ASSUME NEW d \in S PROVE d + 1 \in S
  <2>1. d \in Nat
    OBVIOUS
  <2>2. PICK f \in [0 .. d -> On] : f[0] = h /\ \A i \in 1 .. d : f[i] = Go(f[i - 1])
    OBVIOUS
  <2>3. PICK x \in On : x = Go(f[d])
    <3>1. f[d] \in On
      BY <2>1, <2>2
    <3>. QED  BY <1>2, <3>1
  <2>4. PICK g : g = [i \in 0 .. d + 1 |-> IF i = d + 1 THEN x ELSE f[i]]
    OBVIOUS
  <2>5. g \in [0 .. d + 1 -> On] /\ g[0] = h
    BY <2>1, <2>2, <2>4
  <2>6. ASSUME NEW i \in 1 .. d + 1 PROVE g[i] = Go(g[i - 1])
    <3>1. CASE i = d + 1
      <4>1. g[i] = x /\ g[i - 1] = f[d]
        BY <2>1, <2>4, <3>1
      <4>. QED  BY <2>3, <4>1
    <3>2. CASE i # d + 1
      <4>1. i \in 1 .. d /\ g[i] = f[i] /\ g[i - 1] = f[i - 1]
        BY <2>1, <2>4, <3>2
      <4>. QED  BY <2>2, <4>1
    <3>. QED  BY <3>1, <3>2
  <2>7. P(d + 1)
    BY <2>5, <2>6
  <2>. HIDE DEF P
  <2>. QED  BY <2>1, <2>7
<1>5. PICK n \in Nat : n = MaxPages
  BY PagesAssumption
<1>6. P(n)
  <2>1. S = Nat
    <3>1. S \in SUBSET Nat
      OBVIOUS
    <3>. HIDE DEF S
    <3>. QED  BY <1>3, <1>4, <3>1, Induction
  <2>. HIDE DEF P
  <2>. QED  BY <1>5, <2>1
<1>7. PICK f \in [0 .. n -> On] : f[0] = h /\ \A i \in 1 .. n : f[i] = Go(f[i - 1])
  BY <1>6
<1>8. \E g : g = E(g)
  <2>1. ASSUME NEW k \in 0 .. n
        PROVE  f[k] = IF k = 0 THEN h
                      ELSE IF f[k - 1] = NoPage \/ m[f[k - 1]].kind = "missing" THEN NoPage
                      ELSE m[f[k - 1]].next
    <3>1. CASE k = 0
      BY <1>7, <3>1
    <3>2. CASE k # 0
      <4>1. k \in 1 .. n
        BY <1>5, <3>2
      <4>2. f[k] = Go(f[k - 1])
        BY <1>7, <4>1
      <4>. QED  BY <3>2, <4>2 DEF Go
    <3>. QED  BY <3>1, <3>2
  <2>2. f = E(f)
    BY <1>5, <2>1
  <2>. QED  BY <2>2
<1>9. PICK g : g = CHOOSE q : q = E(q)
  OBVIOUS
<1>10. g = E(g)
  BY <1>8, <1>9
<1>11. Walk(m, h) = {g[k] : k \in 0 .. MaxPages} \ {NoPage}
  BY <1>9 DEF Walk
<1>. DEFINE R == {k \in Nat : k <= n => g[k] \in On}
<1>12. 0 \in R
  BY <1>1, <1>5, <1>10
<1>13. ASSUME NEW k \in R PROVE k + 1 \in R
  <2>. SUFFICES ASSUME k + 1 <= n PROVE g[k + 1] \in On
    OBVIOUS
  <2>1. g[k] \in On
    BY <1>5
  <2>2. k + 1 \in 0 .. MaxPages /\ k + 1 # 0 /\ k + 1 - 1 = k
    BY <1>5
  <2>3. g[k + 1] = Go(g[k])
    <3>1. PICK l : l = k + 1
      OBVIOUS
    <3>2. g[l] = IF l = 0 THEN h
                 ELSE IF g[l - 1] = NoPage \/ m[g[l - 1]].kind = "missing" THEN NoPage
                 ELSE m[g[l - 1]].next
      BY <1>10, <2>2, <3>1, Zenon
    <3>. QED  BY <2>2, <3>1, <3>2 DEF Go
  <2>. QED  BY <1>2, <2>1, <2>3
<1>14. R = Nat
  <2>1. R \in SUBSET Nat
    OBVIOUS
  <2>. HIDE DEF R
  <2>. QED  BY <1>12, <1>13, <2>1, Induction
<1>15. \A k \in 0 .. MaxPages : g[k] \in On
  BY <1>5, <1>14
<1>. QED  BY <1>11, <1>15 DEF On

---------------------------------------------------------------------------
(* Pages handed out                                                        *)

\* The innermost transaction, and the free list it uses.
LEMMA TopTyped ==
  ASSUME TypeOK, txns # <<>>
  PROVE  /\ Len(txns) \in Nat /\ Len(txns) >= 1 /\ Len(txns) <= MaxNesting
         /\ DOMAIN txns = 1 .. Len(txns)
         /\ \A i \in DOMAIN txns : txns[i] \in Txns
         /\ Top \in Txns /\ FreeHead = Top.free
<1>1. txns \in Seq(Txns) /\ Len(txns) <= MaxNesting
  BY DEF TypeOK
<1>2. /\ Len(txns) \in Nat /\ Len(txns) >= 1 /\ Len(txns) <= MaxNesting
      /\ DOMAIN txns = 1 .. Len(txns)
  BY <1>1
<1>. QED  BY <1>1, <1>2 DEF Top, FreeHead

LEMMA TxnTyped ==
  ASSUME NEW t \in Txns
  PROVE  /\ t.root \in [Dbis -> Links] /\ t.free \in Links /\ t.num \in 0 .. MaxPages
         /\ t.new \in SUBSET PageNos /\ t.old \in SUBSET PageNos
         /\ t.savedRoot \in [Dbis -> Links] /\ t.savedNum \in 0 .. MaxPages
         /\ Held(t) \subseteq PageNos
         /\ t.num \in Nat /\ t.savedNum \in Nat
<1>1. /\ t.root \in [Dbis -> Links] /\ t.free \in Links /\ t.num \in 0 .. MaxPages
      /\ t.new \in SUBSET PageNos /\ t.old \in SUBSET PageNos
      /\ t.savedRoot \in [Dbis -> Links] /\ t.savedNum \in 0 .. MaxPages
  BY DEF Txns
<1>2. t.num \in Nat /\ t.savedNum \in Nat
  BY <1>1, PagesAssumption
<1>3. Held(t) \subseteq PageNos
  BY <1>1 DEF Held, Used, Links
<1>. QED  BY <1>1, <1>2, <1>3

\* Less memory, or other memory elsewhere, leaves a chain a chain.
LEMMA ChainKept ==
  ASSUME NEW m, NEW m2, NEW h, NEW b, Chain(m, h, b),
         \A p \in Listed(h, b) : m2[p] = m[p] \/ m2[p].kind = "missing"
  PROVE  Chain(m2, h, b)
BY DEF Chain

\* Every page that is taken is below the end of the innermost transaction.
LEMMA TakenBelow ==
  ASSUME IInv, txns # <<>>, NEW p, Taken(p)
  PROVE  p \in PageNos /\ p < Top.num
<1>1. /\ Len(txns) \in Nat /\ Len(txns) >= 1 /\ DOMAIN txns = 1 .. Len(txns)
      /\ \A i \in DOMAIN txns : txns[i] \in Txns
      /\ Top = txns[Len(txns)]
  BY TopTyped DEF IInv, Top
<1>2. PICK n \in Nat : n = Len(txns) /\ n >= 1
  BY <1>1
<1>3. txns[n].num \in Nat /\ num \in Nat /\ num <= txns[n].num
  <2>1. TxnOK(n) /\ num \in 0 .. MaxPages
    BY <1>1, <1>2 DEF IInv, TxnsOK, TypeOK
  <2>. QED  BY <1>1, <1>2, <2>1, PagesAssumption, TxnTyped DEF TxnOK
<1>4. CASE p \in Used(root) \/ p \in DeferredPages
  <2>1. p \in PageNos
    BY <1>4 DEF IInv, TypeOK, Used, DeferredPages, Links
  <2>2. p < num
    BY <1>4 DEF IInv, CommittedOK
  <2>. QED  BY <1>1, <1>2, <1>3, <2>1, <2>2, PagesAssumption DEF PageNos
<1>5. CASE \E i \in DOMAIN txns : p \in Held(txns[i])
  <2>1. PICK i \in 1 .. n : p \in Held(txns[i])
    BY <1>1, <1>2, <1>5
  <2>2. p \in PageNos /\ txns[i].num \in Nat
    BY <1>1, <1>2, <2>1, TxnTyped
  <2>3. p < txns[i].num
    BY <1>1, <1>2, <2>1 DEF IInv, TxnsOK, TxnOK
  <2>4. txns[i].num <= txns[n].num
    <3>1. CASE i = n
      BY <3>1, <1>3
    <3>2. CASE i # n
      <4>1. i \in 1 .. n - 1
        BY <1>2, <3>2
      <4>2. PairOK(i, n)
        BY <1>1, <1>2, <4>1 DEF IInv, TxnsOK
      <4>. QED  BY <4>2 DEF PairOK
    <3>. QED  BY <3>1, <3>2
  <2>. QED  BY <1>1, <1>2, <1>3, <2>2, <2>3, <2>4, PagesAssumption DEF PageNos
<1>. QED  BY <1>4, <1>5 DEF Taken

\* A page the allocator hands out is nobody's, and is off the free list.
Given(t, a) ==
  /\ a.page \in PageNos /\ ~Taken(a.page)
  /\ a.num \in 0 .. MaxPages /\ t.num <= a.num /\ a.page < a.num
  /\ a.free \in Links
  /\ \E b : Chain(mem, a.free, b) /\ \A p \in Listed(a.free, b) : ~Taken(p) /\ p # a.page

LEMMA AllocGives ==
  ASSUME IInv, txns # <<>>, NEW t, t = Top, NEW a, a = Alloc(t)
  PROVE  (a.page = NoPage /\ a.free = NoPage) \/ Given(t, a)
<1>0. /\ t \in Txns /\ FreeHead = t.free /\ t.free \in Links
      /\ t.num \in 0 .. MaxPages /\ t.num \in Nat
      /\ mem \in [PageNos -> Memory]
  BY TopTyped, TxnTyped DEF IInv, TypeOK
<1>1. PICK b : Chain(mem, t.free, b) /\ \A p \in Listed(t.free, b) : ~Taken(p)
  BY <1>0 DEF IInv, FreeOK
<1>2. CASE Usable(t.free, t.num)
  <2>1. PICK h : h = t.free
    OBVIOUS
  <2>2. h \in PageNos /\ h < t.num /\ mem[h].kind # "missing" /\ h \in Listed(h, b)
    BY <1>0, <1>2, <2>1 DEF Usable, Links, Listed
  <2>3. ~Taken(h) /\ h \notin b[h] /\ mem[h].next \in b[h] \cup {NoPage}
        /\ \A q \in b[h] : b[q] \subseteq b[h]
    BY <1>1, <2>1, <2>2 DEF Chain
  <2>4. PICK g : g = mem[h].next
    OBVIOUS
  <2>5. /\ a.page = h /\ a.num = t.num
        /\ a.free = IF Usable(g, t.num) THEN g ELSE NoPage
    BY <1>2, <2>1, <2>4 DEF Alloc
  <2>6. CASE Usable(g, t.num)
    <3>1. a.free = g /\ g # NoPage /\ g \in b[h]
      BY <2>3, <2>4, <2>5, <2>6 DEF Usable
    <3>2. \A p \in Listed(g, b) : p \in b[h] /\ p \in Listed(h, b) /\ p # h
      BY <2>2, <2>3, <3>1 DEF Listed
    <3>3. Chain(mem, g, b)
      BY <1>1, <2>1, <3>2 DEF Chain
    <3>4. g \in Links
      BY <2>2, <3>1, <1>1 DEF Chain, Links
    <3>. QED  BY <1>0, <1>1, <2>1, <2>2, <2>3, <2>5, <3>1, <3>2, <3>3, <3>4 DEF Given
  <2>7. CASE ~Usable(g, t.num)
    <3>1. a.free = NoPage /\ Listed(NoPage, b) = {}
      BY <2>5, <2>7 DEF Listed
    <3>2. Chain(mem, NoPage, b)
      BY <1>1, <3>1 DEF Chain
    <3>. QED  BY <1>0, <2>2, <2>3, <2>5, <3>1, <3>2 DEF Given, Links
  <2>. QED  BY <2>6, <2>7
<1>3. CASE ~Usable(t.free, t.num) /\ t.num < MaxPages
  <2>1. a.page = t.num /\ a.num = t.num + 1 /\ a.free = NoPage
    BY <1>3 DEF Alloc
  <2>2. a.page \in PageNos /\ a.num \in 0 .. MaxPages /\ t.num <= a.num /\ a.page < a.num
    BY <1>0, <1>3, <2>1, PagesAssumption DEF PageNos
  <2>3. ~Taken(a.page)
    BY <1>0, <2>1, TakenBelow
  <2>4. Listed(NoPage, b) = {}
    BY DEF Listed
  <2>5. Chain(mem, NoPage, b)
    BY <1>1, <2>4 DEF Chain
  <2>. QED  BY <2>1, <2>2, <2>3, <2>4, <2>5 DEF Given, Links
<1>4. CASE ~Usable(t.free, t.num) /\ ~(t.num < MaxPages)
  BY <1>4 DEF Alloc
<1>. QED  BY <1>2, <1>3, <1>4

\* What txn_cow makes of a transaction: it has the page already, it gets none, or it
\* gets one that is nobody's in place of the old root.
Copied(t, d, p, f, k) ==
  [t EXCEPT !.root[d] = p, !.free = f, !.num = k, !.new = @ \cup {p},
            !.old = @ \cup ({t.root[d]} \ {NoPage})]

LEMMA OwnGives ==
  ASSUME IInv, txns # <<>>, NEW d \in Dbis, NEW t, t = Top, NEW o, o = Own(t, d)
  PROVE  \/ o.txn = t /\ o.page = t.root[d] /\ o.page \in t.new
         \/ o.txn = [t EXCEPT !.free = NoPage] /\ o.page = NoPage
         \/ /\ t.root[d] \notin t.new
            /\ \E a : /\ Given(t, a) /\ o.page = a.page
                      /\ o.txn = Copied(t, d, a.page, a.free, a.num)
<1>1. PICK a : a = Alloc(t)
  OBVIOUS
<1>2. (a.page = NoPage /\ a.free = NoPage) \/ (Given(t, a) /\ a.page # NoPage)
  <2>1. NoPage \notin PageNos
    BY PagesAssumption DEF PageNos
  <2>. QED  BY <1>1, <2>1, AllocGives DEF Given
<1>3. CASE t.root[d] \in t.new
  BY <1>3 DEF Own, Mine
<1>4. CASE t.root[d] \notin t.new /\ a.page = NoPage /\ a.free = NoPage
  BY <1>1, <1>4 DEF Own, Mine
<1>5. CASE t.root[d] \notin t.new /\ a.page # NoPage /\ Given(t, a)
  <2>1. o = [txn |-> Copied(t, d, a.page, a.free, a.num), page |-> a.page]
    BY <1>1, <1>5 DEF Own, Mine, Copied
  <2>. QED  BY <1>5, <2>1
<1>. QED  BY <1>2, <1>3, <1>4, <1>5

---------------------------------------------------------------------------
(* Writes of the innermost transaction                                     *)

\* A page that nobody but the innermost transaction looks at.
Unseen(p) ==
  /\ p \notin Used(root) /\ p \notin DeferredPages
  /\ \A i \in 1 .. Len(txns) - 1 : p \notin Held(txns[i])

\* u can follow t as the innermost transaction, with p as the page written.
Fits(t, u, p) ==
  /\ u \in Txns /\ Apart(u.root)
  /\ u.savedRoot = t.savedRoot /\ u.savedNum = t.savedNum /\ t.num <= u.num
  /\ Used(u.root) \subseteq Used(t.root) \cup {p}
  /\ u.new \subseteq t.new \cup {p} /\ u.old \subseteq t.old \cup Used(t.root)
  /\ Used(u.root) \subseteq Used(Base(Len(txns))) \cup u.new
  /\ Used(Base(Len(txns))) \subseteq Used(u.root) \cup u.old
  /\ u.old \cap (u.new \cup Used(u.root)) = {}
  /\ p \in Held(u) => p < u.num

\* The step changes the innermost transaction and page p, and nothing else.
Rewrites(u, p) ==
  /\ mem' \in [PageNos -> Memory] /\ \A q \in PageNos : q # p => mem'[q] = mem[q]
  /\ txns' = [txns EXCEPT ![Len(txns)] = u]
  /\ p \in Used(u.root) => mem'[p].kind = "leaf"
  /\ txnid' = txnid /\ root' = root /\ free' = free /\ num' = num /\ deferred' = deferred
  /\ registered' = registered /\ reader' = reader

\* What readers see is there as long as only unseen pages change.
LEMMA ReadersStay ==
  ASSUME IInv, txnid' \in Nat, txnid <= txnid', root' = root, deferred' = deferred,
         registered' = registered, reader' = reader,
         \A q \in Used(root) \cup DeferredPages : mem'[q] = mem[q]
  PROVE  ReadersOK' /\ Leaves(root)'
<1>1. ASSUME NEW r \in Readers PROVE ReaderOK(r)'
  <2>1. CASE reader[r].snap = Closed
    BY <2>1 DEF IInv, ReadersOK, ReaderOK, NoReader
  <2>2. CASE reader[r].snap # Closed
    <3>1. /\ reader[r].snap <= txnid /\ Leaves(reader[r].root)
          /\ \A p \in Used(reader[r].root) :
               p \in Used(root) \/ \E e \in deferred : e.page = p /\ e.at >= reader[r].snap
      BY <2>2 DEF IInv, ReadersOK, ReaderOK
    <3>2. reader[r].snap \in Nat /\ txnid \in Nat
      BY <2>2, TxnsAssumption DEF IInv, TypeOK
    <3>3. reader[r].snap <= txnid'
      BY <3>1, <3>2
    <3>4. \A p \in Used(reader[r].root) : p \in Used(root) \cup DeferredPages
      BY <3>1 DEF DeferredPages
    <3>5. Leaves(reader[r].root)'
      BY <3>1, <3>4 DEF Leaves, Used
    <3>6. \A p \in Used(reader[r].root) :
            p \in Used(root') \/ \E e \in deferred' : e.page = p /\ e.at >= reader[r].snap
      BY <3>1
    <3>. QED  BY <2>2, <3>3, <3>5, <3>6 DEF ReaderOK, Used
  <2>. QED  BY <2>1, <2>2
<1>2. \A n \in 0 .. MaxTxnid : registered'[n] = Cardinality(At(n))'
  BY DEF IInv, ReadersOK, At
<1>3. ReadersOK'
  BY <1>1, <1>2 DEF ReadersOK
<1>4. Leaves(root)'
  BY DEF IInv, CommittedOK, Leaves, Used
<1>. QED  BY <1>3, <1>4

LEMMA TopChanged ==
  ASSUME IInv, txns # <<>>, NEW u, NEW p, NEW t, t = Top,
         Unseen(p), Fits(t, u, p), Rewrites(u, p)
  PROVE  CommittedOK' /\ TxnsOK' /\ ReadersOK'
<1>0. /\ mem' \in [PageNos -> Memory] /\ \A q \in PageNos : q # p => mem'[q] = mem[q]
      /\ p \in Used(u.root) => mem'[p].kind = "leaf"
      /\ txnid' = txnid /\ root' = root /\ num' = num /\ deferred' = deferred
      /\ registered' = registered /\ reader' = reader
  BY DEF Rewrites
<1>1. PICK n \in Nat : n = Len(txns) /\ n >= 1
  BY TopTyped DEF IInv
<1>2. /\ DOMAIN txns = 1 .. n /\ t = txns[n] /\ \A i \in 1 .. n : txns[i] \in Txns
      /\ DOMAIN txns' = 1 .. n /\ txns'[n] = u /\ \A i \in 1 .. n - 1 : txns'[i] = txns[i]
  BY <1>1, TopTyped DEF IInv, Top, Rewrites
<1>3. Used(root) \cup DeferredPages \subseteq PageNos
  BY DEF IInv, TypeOK, Used, DeferredPages, Links
<1>4. \A q \in Used(root) \cup DeferredPages : mem'[q] = mem[q]
  BY <1>0, <1>3 DEF Unseen
<1>5. ReadersOK'
  BY <1>0, <1>4, ReadersStay, TxnsAssumption DEF IInv, TypeOK
<1>6. CommittedOK'
  <2>1. Leaves(root)'
    BY <1>0, <1>4 DEF IInv, CommittedOK, Leaves, Used
  <2>2. DeferredPages' = DeferredPages /\ Used(root)' = Used(root) /\ (Apart(root)' <=> Apart(root))
    BY <1>0 DEF DeferredPages, Used, Apart
  <2>. QED  BY <1>0, <2>1, <2>2 DEF IInv, CommittedOK
<1>7. ASSUME NEW j \in 1 .. n PROVE Base(j)' = Base(j) /\ BaseNum(j)' = BaseNum(j)
  <2>1. CASE j = 1
    BY <1>0, <2>1 DEF Base, BaseNum
  <2>2. CASE j # 1
    <3>1. j - 1 \in 1 .. n - 1
      BY <1>1, <2>2
    <3>. QED  BY <1>2, <2>2, <3>1 DEF Base, BaseNum
  <2>. QED  BY <2>1, <2>2
<1>8. DeferredPages' = DeferredPages
  BY <1>0 DEF DeferredPages
<1>9. ASSUME NEW j \in 1 .. n - 1 PROVE TxnOK(j)'
  <2>1. j \in 1 .. n /\ TxnOK(j) /\ txns'[j] = txns[j] /\ txns[j] \in Txns
    BY <1>1, <1>2 DEF IInv, TxnsOK
  <2>2. PICK s : s = txns[j]
    OBVIOUS
  <2>3. Leaves(s.root)'
    <3>1. Leaves(s.root) /\ Used(s.root) \subseteq Held(s) /\ Held(s) \subseteq PageNos
      BY <2>1, <2>2, TxnTyped DEF TxnOK, Held
    <3>2. p \notin Held(s)
      BY <1>1, <2>2 DEF Unseen
    <3>. QED  BY <1>0, <3>1, <3>2 DEF Leaves, Used
  <2>. QED  BY <1>0, <1>7, <1>8, <2>1, <2>2, <2>3 DEF TxnOK, Apart, Used, Held
<1>10. TxnOK(n)'
  <2>1. TxnOK(n) /\ t \in Txns /\ u \in Txns
    BY <1>1, <1>2 DEF IInv, TxnsOK, Fits
  <2>2. Leaves(u.root)'
    <3>1. ASSUME NEW q \in Used(u.root), q # p PROVE mem'[q].kind = "leaf"
      <4>1. q \in Used(t.root) /\ Leaves(t.root) /\ q \in PageNos
        BY <1>2, <2>1, <3>1, TxnTyped DEF Fits, TxnOK, Held
      <4>. QED  BY <1>0, <3>1, <4>1 DEF Leaves
    <3>. QED  BY <1>0, <3>1 DEF Leaves, Used
  <2>3. Held(u) \subseteq Held(t) \cup {p}
    BY DEF Fits, Held
  <2>4. /\ Held(u) \cap DeferredPages = {} /\ u.new \cap Used(root) = {}
        /\ num <= u.num /\ \A q \in Held(u) : q < u.num
    <3>1. /\ Held(t) \cap DeferredPages = {} /\ t.new \cap Used(root) = {}
          /\ num <= t.num /\ \A q \in Held(t) : q < t.num
      BY <1>2, <2>1 DEF TxnOK
    <3>2. Held(u) \cap DeferredPages = {} /\ u.new \cap Used(root) = {}
      BY <2>3, <3>1 DEF Unseen, Fits
    <3>3. t.num \in Nat /\ u.num \in Nat /\ num \in Nat /\ t.num <= u.num
      BY <2>1, TxnTyped, PagesAssumption DEF Fits, IInv, TypeOK
    <3>4. ASSUME NEW q \in Held(u) PROVE q < u.num
      <4>1. CASE q = p
        BY <4>1 DEF Fits
      <4>2. CASE q # p
        <5>1. q \in Held(t) /\ q \in Nat
          BY <2>1, <2>3, <4>2, TxnTyped, PagesAssumption DEF PageNos
        <5>. QED  BY <3>1, <3>3, <5>1
      <4>. QED  BY <4>1, <4>2
    <3>. QED  BY <3>1, <3>2, <3>3, <3>4
  <2>5. /\ Apart(u.root) /\ u.savedRoot = Base(n) /\ u.savedNum = BaseNum(n)
        /\ Used(u.root) \subseteq Used(Base(n)) \cup u.new
        /\ Used(Base(n)) \subseteq Used(u.root) \cup u.old
        /\ u.old \cap (u.new \cup Used(u.root)) = {}
    BY <1>1, <1>2, <2>1 DEF Fits, TxnOK
  <2>6. Base(n)' = Base(n) /\ BaseNum(n)' = BaseNum(n)
    BY <1>1, <1>7
  <2>. QED  BY <1>0, <1>2, <1>8, <2>2, <2>4, <2>5, <2>6 DEF TxnOK, Apart, Used, Held
<1>11. ASSUME NEW j \in 1 .. n, NEW i \in 1 .. j - 1 PROVE PairOK(i, j)'
  <2>1. PairOK(i, j) /\ i \in 1 .. n - 1 /\ txns'[i] = txns[i]
    BY <1>1, <1>2 DEF IInv, TxnsOK
  <2>2. CASE j # n
    <3>1. txns'[j] = txns[j]
      BY <1>1, <1>2, <2>2
    <3>. QED  BY <2>1, <3>1 DEF PairOK, Held, Used
  <2>3. CASE j = n
    <3>1. t.new \cap Held(txns[i]) = {} /\ txns[i].num <= t.num
      BY <1>2, <2>1, <2>3 DEF PairOK
    <3>2. p \notin Held(txns[i])
      BY <1>1, <2>1 DEF Unseen
    <3>3. u.new \cap Held(txns[i]) = {}
      BY <3>1, <3>2 DEF Fits
    <3>4. txns[i].num <= u.num
      <4>1. txns[i].num \in Nat /\ t.num \in Nat /\ u.num \in Nat /\ t.num <= u.num
        BY <1>1, <1>2, <2>1, TxnTyped DEF Fits
      <4>. QED  BY <3>1, <4>1
    <3>. QED  BY <1>2, <2>1, <2>3, <3>3, <3>4 DEF PairOK, Held, Used
  <2>. QED  BY <2>2, <2>3
<1>12. TxnsOK'
  BY <1>1, <1>2, <1>9, <1>10, <1>11 DEF TxnsOK
<1>. QED  BY <1>5, <1>6, <1>12

\* The innermost transaction's place among the others.
LEMMA Innermost ==
  ASSUME IInv, txns # <<>>, NEW t, t = Top
  PROVE  /\ t \in Txns
         /\ Apart(t.root) /\ Leaves(t.root)
         /\ t.savedRoot = Base(Len(txns)) /\ t.savedNum = BaseNum(Len(txns))
         /\ Used(t.root) \subseteq Used(Base(Len(txns))) \cup t.new
         /\ Used(Base(Len(txns))) \subseteq Used(t.root) \cup t.old
         /\ t.old \cap (t.new \cup Used(t.root)) = {}
         /\ Held(t) \cap DeferredPages = {} /\ t.new \cap Used(root) = {}
         /\ num <= t.num /\ \A p \in Held(t) : p < t.num
         /\ \A p \in t.new : Unseen(p)
         /\ \A p : (p \in Held(t) => Taken(p)) /\ (~Taken(p) => Unseen(p))
         /\ \A p : Unseen(p) => p \notin Used(Base(Len(txns)))
<1>1. PICK n \in Nat : n = Len(txns) /\ n >= 1
  BY TopTyped DEF IInv
<1>2. /\ DOMAIN txns = 1 .. n /\ t = txns[n] /\ n \in DOMAIN txns /\ t \in Txns
  BY <1>1, TopTyped DEF IInv, Top
<1>3. TxnOK(n) /\ \A i \in 1 .. n - 1 : PairOK(i, n)
  BY <1>2 DEF IInv, TxnsOK
<1>4. /\ Apart(t.root) /\ Leaves(t.root)
      /\ t.savedRoot = Base(n) /\ t.savedNum = BaseNum(n)
      /\ Used(t.root) \subseteq Used(Base(n)) \cup t.new
      /\ Used(Base(n)) \subseteq Used(t.root) \cup t.old
      /\ t.old \cap (t.new \cup Used(t.root)) = {}
      /\ Held(t) \cap DeferredPages = {} /\ t.new \cap Used(root) = {}
      /\ num <= t.num /\ \A p \in Held(t) : p < t.num
  BY <1>2, <1>3 DEF TxnOK
<1>5. ASSUME NEW p \in t.new PROVE Unseen(p)
  <2>1. p \notin Used(root) /\ p \notin DeferredPages
    BY <1>4 DEF Held
  <2>2. \A i \in 1 .. n - 1 : p \notin Held(txns[i])
    BY <1>2, <1>3 DEF PairOK
  <2>. QED  BY <1>1, <2>1, <2>2 DEF Unseen
<1>6. ASSUME NEW p PROVE (p \in Held(t) => Taken(p)) /\ (~Taken(p) => Unseen(p))
  <2>1. p \in Held(t) => Taken(p)
    BY <1>2 DEF Taken
  <2>2. \A i \in 1 .. Len(txns) - 1 : i \in DOMAIN txns
    BY <1>1, <1>2
  <2>3. ~Taken(p) => Unseen(p)
    BY <2>2 DEF Taken, Unseen
  <2>. QED  BY <2>1, <2>3
<1>7. ASSUME NEW p, Unseen(p) PROVE p \notin Used(Base(n))
  <2>1. CASE n = 1
    BY <1>7, <2>1 DEF Unseen, Base
  <2>2. CASE n # 1
    <3>1. n - 1 \in 1 .. Len(txns) - 1
      BY <1>1, <2>2
    <3>. QED  BY <1>7, <2>2, <3>1 DEF Unseen, Base, Held
  <2>. QED  BY <2>1, <2>2
<1>. QED  BY <1>1, <1>2, <1>4, <1>5, <1>6, <1>7

LEMMA CopiedFields ==
  ASSUME NEW t \in Txns, NEW d \in Dbis, NEW p \in PageNos, NEW f \in Links,
         NEW k \in 0 .. MaxPages, NEW u, u = Copied(t, d, p, f, k)
  PROVE  /\ u \in Txns
         /\ u.root = [t.root EXCEPT ![d] = p] /\ u.free = f /\ u.num = k
         /\ u.new = t.new \cup {p} /\ u.old = t.old \cup ({t.root[d]} \ {NoPage})
         /\ u.savedRoot = t.savedRoot /\ u.savedNum = t.savedNum
<1>1. /\ DOMAIN u = DOMAIN t
      /\ u.root = [t.root EXCEPT ![d] = p] /\ u.free = f /\ u.num = k
      /\ u.new = t.new \cup {p} /\ u.old = t.old \cup ({t.root[d]} \ {NoPage})
      /\ u.savedRoot = t.savedRoot /\ u.savedNum = t.savedNum
  BY DEF Copied, Txns
<1>2. u = [root |-> u.root, free |-> u.free, num |-> u.num, new |-> u.new, old |-> u.old,
           savedRoot |-> u.savedRoot, savedNum |-> u.savedNum]
  BY DEF Copied, Txns
<1>3. u.root \in [Dbis -> Links] /\ u.new \in SUBSET PageNos /\ u.old \in SUBSET PageNos
  BY <1>1, TxnTyped DEF Links
<1>4. u \in Txns
  BY <1>1, <1>2, <1>3, TxnTyped DEF Txns
<1>. QED  BY <1>1, <1>4

\* The tree after the root of d became p.
LEMMA RootSet ==
  ASSUME NEW rt \in [Dbis -> Links], Apart(rt), NEW d \in Dbis, NEW p, p \notin Used(rt),
         NEW rt2, rt2 = [rt EXCEPT ![d] = p]
  PROVE  /\ Apart(rt2)
         /\ Used(rt2) = (Used(rt) \ {rt[d]}) \cup ({p} \ {NoPage})
<1>1. rt2[d] = p /\ \A e \in Dbis \ {d} : rt2[e] = rt[e]
  OBVIOUS
<1>2. \A e \in Dbis \ {d} : rt[e] # p \/ rt[e] = NoPage
  BY DEF Used
<1>3. Apart(rt2)
  BY <1>1, <1>2 DEF Apart
<1>4. ASSUME NEW x PROVE x \in Used(rt2) <=> x \in (Used(rt) \ {rt[d]}) \cup ({p} \ {NoPage})
  BY <1>1 DEF Used, Apart
<1>. QED  BY <1>3, <1>4

\* What a write finds once it owns its page.
Owned(t, d, u, p) ==
  /\ p \in PageNos /\ Unseen(p) /\ Fits(t, u, p)
  /\ u.root[d] = p /\ p \in u.new /\ Held(u) \subseteq Held(t) \cup {p}
  /\ \A e \in Dbis \ {d} : u.root[e] = t.root[e]
  /\ \E b : Chain(mem, u.free, b) /\ \A q \in Listed(u.free, b) : ~Taken(q) /\ q # p

LEMMA OwnFits ==
  ASSUME IInv, txns # <<>>, NEW d \in Dbis, NEW t, t = Top, NEW o, o = Own(t, d),
         o.page # NoPage
  PROVE  Owned(t, d, o.txn, o.page)
<1>0. PICK u, p : u = o.txn /\ p = o.page
  OBVIOUS
<1>1. PICK base : base = Base(Len(txns))
  OBVIOUS
<1>2. /\ t \in Txns /\ Apart(t.root)
      /\ t.savedRoot = base
      /\ Used(t.root) \subseteq Used(base) \cup t.new
      /\ Used(base) \subseteq Used(t.root) \cup t.old
      /\ t.old \cap (t.new \cup Used(t.root)) = {}
      /\ \A q \in Held(t) : q < t.num
      /\ \A q \in t.new : Unseen(q)
      /\ \A q : (q \in Held(t) => Taken(q)) /\ (~Taken(q) => Unseen(q))
  BY <1>1, Innermost
<1>3. /\ t.root \in [Dbis -> Links] /\ t.num \in Nat
      /\ t.new \in SUBSET PageNos /\ t.old \in SUBSET PageNos
  BY <1>2, TxnTyped
<1>4. CASE u = t /\ p = t.root[d] /\ p \in t.new
  <2>1. p \in Used(t.root) /\ p \in Held(t)
    BY <1>0, <1>4 DEF Used, Held
  <2>2. Fits(t, u, p)
    BY <1>1, <1>2, <1>3, <1>4, <2>1 DEF Fits
  <2>3. PICK b : Chain(mem, t.free, b) /\ \A q \in Listed(t.free, b) : ~Taken(q)
    BY TopTyped DEF IInv, FreeOK
  <2>4. \A q \in Listed(t.free, b) : q # p
    BY <1>2, <2>1, <2>3
  <2>. QED  BY <1>0, <1>2, <1>3, <1>4, <2>2, <2>3, <2>4 DEF Owned
<1>5. CASE /\ t.root[d] \notin t.new
           /\ \E a : Given(t, a) /\ p = a.page /\ u = Copied(t, d, a.page, a.free, a.num)
  <2>1. PICK a : Given(t, a) /\ p = a.page /\ u = Copied(t, d, a.page, a.free, a.num)
    BY <1>5
  <2>2. /\ p \in PageNos /\ ~Taken(p) /\ p \notin Held(t) /\ Unseen(p)
        /\ t.num <= a.num /\ p < a.num /\ a.free \in Links /\ a.num \in 0 .. MaxPages
    BY <1>2, <2>1 DEF Given
  <2>3. /\ u \in Txns
        /\ u.root = [t.root EXCEPT ![d] = p] /\ u.free = a.free /\ u.num = a.num
        /\ u.new = t.new \cup {p} /\ u.old = t.old \cup ({t.root[d]} \ {NoPage})
        /\ u.savedRoot = t.savedRoot /\ u.savedNum = t.savedNum
    BY <1>2, <2>1, <2>2, CopiedFields
  <2>4. Apart(u.root) /\ Used(u.root) = (Used(t.root) \ {t.root[d]}) \cup ({p} \ {NoPage})
    <3>1. p \notin Used(t.root)
      BY <2>2 DEF Held
    <3>. QED  BY <1>2, <1>3, <2>3, <3>1, RootSet
  <2>5. u.root[d] = p /\ \A e \in Dbis \ {d} : u.root[e] = t.root[e]
    BY <1>3, <2>3
  <2>6. /\ Used(u.root) \subseteq Used(t.root) \cup {p}
        /\ u.new \subseteq t.new \cup {p} /\ u.old \subseteq t.old \cup Used(t.root)
        /\ Held(u) \subseteq Held(t) \cup {p}
    <3>1. {t.root[d]} \ {NoPage} \subseteq Used(t.root)
      BY DEF Used
    <3>. QED  BY <2>3, <2>4, <3>1 DEF Held
  <2>7. /\ Used(u.root) \subseteq Used(base) \cup u.new
        /\ Used(base) \subseteq Used(u.root) \cup u.old
    <3>1. NoPage \notin Used(t.root)
      BY DEF Used
    <3>. QED  BY <1>2, <2>3, <2>4, <2>6, <3>1
  <2>8. u.old \cap (u.new \cup Used(u.root)) = {}
    <3>1. {t.root[d]} \ {NoPage} \subseteq Used(t.root) /\ p \notin Used(t.root) /\ p \notin t.old
      BY <2>2 DEF Used, Held
    <3>. QED  BY <1>2, <1>5, <2>3, <2>4, <3>1
  <2>9. Fits(t, u, p)
    BY <1>1, <2>2, <2>3, <2>4, <2>6, <2>7, <2>8 DEF Fits
  <2>10. \E b : Chain(mem, u.free, b) /\ \A q \in Listed(u.free, b) : ~Taken(q) /\ q # p
    BY <2>1, <2>3 DEF Given
  <2>11. p \in u.new
    BY <2>3
  <2>12. Owned(t, d, u, p)
    BY <2>2, <2>5, <2>6, <2>9, <2>10, <2>11 DEF Owned
  <2>. QED  BY <1>0, <2>12
<1>6. \/ o.txn = t /\ o.page = t.root[d] /\ o.page \in t.new
      \/ o.txn = [t EXCEPT !.free = NoPage] /\ o.page = NoPage
      \/ /\ t.root[d] \notin t.new
         /\ \E a : /\ Given(t, a) /\ o.page = a.page
                   /\ o.txn = Copied(t, d, a.page, a.free, a.num)
  BY OwnGives
<1>. QED  BY <1>0, <1>4, <1>5, <1>6

LEMMA RewritesTyped ==
  ASSUME TypeOK, txns # <<>>, NEW u \in Txns, NEW p, Rewrites(u, p)
  PROVE  TypeOK'
<1>1. txns \in Seq(Txns) /\ Len(txns) <= MaxNesting
  BY DEF TypeOK
<1>2. txns' \in Seq(Txns) /\ Len(txns') = Len(txns)
  BY <1>1 DEF Rewrites
<1>. QED  BY <1>1, <1>2 DEF TypeOK, Rewrites

\* What is taken after a write: what was, and the page written if it is used.
LEMMA TakenAfter ==
  ASSUME TypeOK, txns # <<>>, NEW u, NEW p, Rewrites(u, p)
  PROVE  /\ FreeHead' = u.free
         /\ \A q : Held(u) \subseteq Held(Top) \cup {p} /\ Taken(q)' => Taken(q) \/ q = p
         /\ Unseen(p) /\ p \notin Held(u) => ~Taken(p)'
<1>1. PICK n \in Nat : n = Len(txns) /\ n >= 1
  BY TopTyped
<1>2. /\ DOMAIN txns = 1 .. n /\ Top = txns[n]
      /\ DOMAIN txns' = 1 .. n /\ txns'[n] = u /\ \A i \in 1 .. n - 1 : txns'[i] = txns[i]
      /\ Len(txns') = n /\ txns' # <<>>
  BY <1>1, TopTyped DEF TypeOK, Top, Rewrites
<1>3. FreeHead' = u.free
  BY <1>1, <1>2 DEF FreeHead, Top
<1>4. ASSUME NEW q, Taken(q)'
      PROVE  \/ q \in Used(root) \/ q \in DeferredPages
             \/ \E i \in 1 .. n - 1 : q \in Held(txns[i])
             \/ q \in Held(u)
  <2>1. CASE q \in Used(root)' \/ q \in DeferredPages'
    BY <2>1 DEF Rewrites, Used, DeferredPages
  <2>2. CASE \E i \in DOMAIN txns' : q \in Held(txns'[i])
    <3>1. PICK i \in 1 .. n : q \in Held(txns'[i])
      BY <1>2, <2>2
    <3>. QED  BY <1>1, <1>2, <3>1
  <2>3. (\E i \in DOMAIN txns : q \in Held(txns[i]))' => \E i \in DOMAIN txns' : q \in Held(txns'[i])
    BY DEF Held, Used
  <2>. QED  BY <1>4, <2>1, <2>2, <2>3 DEF Taken
<1>5. ASSUME NEW q, Held(u) \subseteq Held(Top) \cup {p}, Taken(q)'
      PROVE  Taken(q) \/ q = p
  BY <1>1, <1>2, <1>4, <1>5 DEF Taken
<1>6. Unseen(p) /\ p \notin Held(u) => ~Taken(p)'
  BY <1>1, <1>4 DEF Unseen
<1>. QED  BY <1>3, <1>5, <1>6

\* No list at all is a chain.
LEMMA EmptyChain ==
  ASSUME NEW m
  PROVE  \E b : Chain(m, NoPage, b) /\ Listed(NoPage, b) = {}
<1>1. PICK b : b = [p \in PageNos |-> {}]
  OBVIOUS
<1>. QED  BY <1>1 DEF Chain, Listed

\* A write that got no page leaves the list empty and all else as it was.
LEMMA StarvedKeeps ==
  ASSUME IInv, txns # <<>>, NEW u, u = [Top EXCEPT !.free = NoPage],
         Rewrites(u, NoPage), mem' = mem
  PROVE  IInv'
<1>1. PICK t : t = Top
  OBVIOUS
<1>2. /\ t \in Txns
      /\ u.root = t.root /\ u.free = NoPage /\ u.num = t.num /\ u.new = t.new
      /\ u.old = t.old /\ u.savedRoot = t.savedRoot /\ u.savedNum = t.savedNum
  BY <1>1, TopTyped DEF IInv, Txns
<1>3. u \in Txns
  BY <1>1, <1>2, TxnTyped DEF Txns, Links
<1>4. NoPage \notin PageNos
  BY PagesAssumption DEF PageNos
<1>5. Unseen(NoPage) /\ NoPage \notin Held(u)
  <2>1. NoPage \notin Used(root) /\ NoPage \notin DeferredPages
    BY <1>4 DEF IInv, TypeOK, Used, DeferredPages
  <2>2. \A i \in 1 .. Len(txns) - 1 : i \in DOMAIN txns
    BY TopTyped DEF IInv
  <2>3. \A i \in DOMAIN txns : NoPage \notin Held(txns[i])
    BY <1>4, TopTyped, TxnTyped DEF IInv
  <2>4. NoPage \notin Held(u)
    BY <1>3, <1>4, TxnTyped
  <2>. QED  BY <2>1, <2>2, <2>3, <2>4 DEF Unseen
<1>6. Fits(t, u, NoPage)
  <2>1. /\ Apart(t.root)
        /\ Used(t.root) \subseteq Used(Base(Len(txns))) \cup t.new
        /\ Used(Base(Len(txns))) \subseteq Used(t.root) \cup t.old
        /\ t.old \cap (t.new \cup Used(t.root)) = {}
    BY <1>1, Innermost
  <2>2. t.num <= u.num
    BY <1>2, TxnTyped
  <2>. QED  BY <1>2, <1>3, <1>5, <2>1, <2>2 DEF Fits
<1>7. CommittedOK' /\ TxnsOK' /\ ReadersOK'
  BY <1>1, <1>5, <1>6, TopChanged
<1>8. FreeOK'
  <2>1. FreeHead' = NoPage
    BY <1>2, <1>3, TakenAfter DEF IInv
  <2>2. PICK b : Chain(mem', NoPage, b) /\ Listed(NoPage, b) = {}
    BY EmptyChain
  <2>. QED  BY <2>1, <2>2 DEF FreeOK, Chain, Listed
<1>9. TypeOK'
  BY <1>3, RewritesTyped DEF IInv
<1>. QED  BY <1>7, <1>8, <1>9 DEF IInv

LEMMA PutKeeps ==
  ASSUME IInv, NEW d \in Dbis, NEW v \in Values, Put(d, v)
  PROVE  IInv'
<1>1. PICK t, o : t = Top /\ o = Own(t, d)
  OBVIOUS
<1>2. PICK u, p : u = o.txn /\ p = o.page
  OBVIOUS
<1>3. /\ txns # <<>> /\ txns' = [txns EXCEPT ![Len(txns)] = u]
      /\ mem' = IF p = NoPage THEN mem ELSE [mem EXCEPT ![p] = Leaf(v)]
      /\ txnid' = txnid /\ root' = root /\ free' = free /\ num' = num /\ deferred' = deferred
      /\ registered' = registered /\ reader' = reader
  BY <1>1, <1>2 DEF Put, shared
<1>4. mem \in [PageNos -> Memory]
  BY DEF IInv, TypeOK
<1>5. CASE p = NoPage
  <2>1. u = [t EXCEPT !.free = NoPage]
    <3>1. \/ u = t /\ p = t.root[d] /\ p \in t.new
          \/ u = [t EXCEPT !.free = NoPage] /\ p = NoPage
          \/ \E a : Given(t, a) /\ p = a.page
      BY <1>1, <1>2, <1>3, OwnGives
    <3>2. NoPage \notin PageNos /\ t.new \subseteq PageNos
      BY <1>1, <1>3, TopTyped, TxnTyped, PagesAssumption DEF IInv, PageNos
    <3>. QED  BY <1>5, <3>1, <3>2 DEF Given
  <2>2. p \notin Used(u.root)
    BY <1>5 DEF Used
  <2>3. Rewrites(u, NoPage) /\ mem' = mem
    BY <1>3, <1>4, <1>5, <2>2 DEF Rewrites
  <2>. QED  BY <1>1, <1>3, <2>1, <2>3, StarvedKeeps
<1>6. CASE p # NoPage
  <2>1. Owned(t, d, u, p)
    BY <1>1, <1>2, <1>3, <1>6, OwnFits
  <2>2. /\ p \in PageNos /\ Unseen(p) /\ Fits(t, u, p) /\ u \in Txns
        /\ Held(u) \subseteq Held(t) \cup {p}
    BY <2>1 DEF Owned, Fits
  <2>3. PICK b : Chain(mem, u.free, b) /\ \A q \in Listed(u.free, b) : ~Taken(q) /\ q # p
    BY <2>1 DEF Owned
  <2>4. Rewrites(u, p)
    <3>1. Leaf(v) \in Memory /\ Leaf(v).kind = "leaf"
      BY DEF Memory, Leaf
    <3>2. mem' \in [PageNos -> Memory] /\ mem'[p] = Leaf(v)
          /\ \A q \in PageNos : q # p => mem'[q] = mem[q]
      BY <1>3, <1>4, <1>6, <2>2, <3>1
    <3>. QED  BY <1>3, <3>1, <3>2 DEF Rewrites
  <2>5. CommittedOK' /\ TxnsOK' /\ ReadersOK'
    BY <1>1, <1>3, <2>2, <2>4, TopChanged
  <2>6. FreeOK'
    <3>1. FreeHead' = u.free /\ \A q : Taken(q)' => Taken(q) \/ q = p
      BY <1>1, <1>3, <2>2, <2>4, TakenAfter DEF IInv
    <3>2. Listed(u.free, b) \subseteq PageNos
      BY <2>2, <2>3, TxnTyped DEF Chain, Listed, Links
    <3>3. \A q \in Listed(u.free, b) : mem'[q] = mem[q]
      BY <2>3, <2>4, <3>2 DEF Rewrites
    <3>4. Chain(mem', u.free, b)
      BY <2>3, <3>3, ChainKept
    <3>5. \A q \in Listed(u.free, b) : ~Taken(q)'
      BY <2>3, <3>1
    <3>6. \E c : Chain(mem', FreeHead', c) /\ \A q \in Listed(FreeHead', c) : ~Taken(q)'
      BY <3>1, <3>4, <3>5
    <3>. QED  BY <3>6 DEF FreeOK, Chain, Listed
  <2>7. TypeOK'
    BY <1>3, <2>2, <2>4, RewritesTyped DEF IInv
  <2>. QED  BY <2>5, <2>6, <2>7 DEF IInv
<1>. QED  BY <1>5, <1>6

\* One page pushed in front of a chain.
LEMMA PushedOne ==
  ASSUME NEW m \in [PageNos -> Memory], NEW h \in Links, NEW b, Chain(m, h, b),
         NEW p \in PageNos, p \notin Listed(h, b)
  PROVE  \E c : /\ Chain([m EXCEPT ![p] = Link(h)], p, c)
                /\ \A q \in Listed(p, c) : q \in Listed(h, b) \/ q = p
<1>1. PICK m2 : m2 = [m EXCEPT ![p] = Link(h)]
  OBVIOUS
<1>2. PICK S : S = Listed(h, b)
  OBVIOUS
<1>3. S \subseteq PageNos /\ b \in [PageNos -> SUBSET PageNos] /\ p \notin S
  BY <1>2 DEF Chain, Listed, Links
<1>4. PICK c : c = [b EXCEPT ![p] = S]
  OBVIOUS
<1>5. c \in [PageNos -> SUBSET PageNos] /\ c[p] = S /\ \A q \in S : c[q] = b[q]
  BY <1>3, <1>4
<1>6. \A q \in S : m2[q] = m[q]
  BY <1>1, <1>3
<1>7. m2[p].next = h /\ (h = NoPage \/ h \in S)
  <2>1. m2[p] = Link(h)
    BY <1>1
  <2>. QED  BY <1>2, <2>1 DEF Link, Listed
<1>8. p # NoPage
  BY PagesAssumption DEF PageNos
<1>9. Listed(p, c) = S \cup {p}
  BY <1>5, <1>8 DEF Listed
<1>10. ASSUME NEW q \in S
       PROVE  /\ b[q] \subseteq S /\ q \notin b[q] /\ \A r \in b[q] : b[r] \subseteq b[q]
              /\ m[q].kind # "missing" => m[q].next \in b[q] \cup {NoPage}
  BY <1>2 DEF Chain, Listed
<1>11. Chain(m2, p, c)
  <2>1. ASSUME NEW q \in S
        PROVE  /\ q \notin c[q] /\ \A r \in c[q] : c[r] \subseteq c[q]
               /\ m2[q].kind # "missing" => m2[q].next \in c[q] \cup {NoPage}
    BY <1>5, <1>6, <1>10
  <2>2. /\ p \notin c[p] /\ \A r \in c[p] : c[r] \subseteq c[p]
        /\ m2[p].next \in c[p] \cup {NoPage}
    BY <1>3, <1>5, <1>7, <1>10
  <2>. QED  BY <1>5, <1>9, <2>1, <2>2 DEF Chain
<1>. QED  BY <1>1, <1>2, <1>9, <1>11

\* The transaction after the page it owned for d is given back.
Emptied(u, d, p) == [u EXCEPT !.root[d] = NoPage, !.free = p, !.new = @ \ {p}]

LEMMA EmptiedFits ==
  ASSUME IInv, txns # <<>>, NEW d \in Dbis, NEW t, t = Top, NEW u, NEW p,
         Owned(t, d, u, p), NEW w, w = Emptied(u, d, p)
  PROVE  /\ w \in Txns /\ w.free = p /\ Fits(t, w, p) /\ p \notin Held(w)
         /\ Held(w) \subseteq Held(t) \cup {p}
<1>1. PICK base : base = Base(Len(txns))
  OBVIOUS
<1>2. /\ p \in PageNos /\ Unseen(p) /\ u.root[d] = p /\ p \in u.new
      /\ Held(u) \subseteq Held(t) \cup {p}
      /\ u \in Txns /\ Apart(u.root)
      /\ u.savedRoot = t.savedRoot /\ u.savedNum = t.savedNum /\ t.num <= u.num
      /\ Used(u.root) \subseteq Used(t.root) \cup {p}
      /\ u.new \subseteq t.new \cup {p} /\ u.old \subseteq t.old \cup Used(t.root)
      /\ Used(u.root) \subseteq Used(base) \cup u.new
      /\ Used(base) \subseteq Used(u.root) \cup u.old
      /\ u.old \cap (u.new \cup Used(u.root)) = {}
  BY <1>1 DEF Owned, Fits
<1>3. /\ w.root = [u.root EXCEPT ![d] = NoPage] /\ w.free = p /\ w.num = u.num
      /\ w.new = u.new \ {p} /\ w.old = u.old
      /\ w.savedRoot = u.savedRoot /\ w.savedNum = u.savedNum
      /\ w = [root |-> w.root, free |-> w.free, num |-> w.num, new |-> w.new, old |-> w.old,
              savedRoot |-> w.savedRoot, savedNum |-> w.savedNum]
  BY <1>2 DEF Emptied, Txns
<1>4. w \in Txns
  <2>1. w.root \in [Dbis -> Links] /\ w.new \in SUBSET PageNos /\ p \in Links
    BY <1>2, <1>3, TxnTyped DEF Links
  <2>. QED  BY <1>2, <1>3, <2>1, TxnTyped DEF Txns
<1>5. Apart(w.root) /\ Used(w.root) = Used(u.root) \ {p}
  <2>1. NoPage \notin Used(u.root) /\ u.root \in [Dbis -> Links]
    BY <1>2, TxnTyped DEF Used
  <2>2. Apart(w.root) /\ Used(w.root) = (Used(u.root) \ {u.root[d]}) \cup ({NoPage} \ {NoPage})
    BY <1>2, <1>3, <2>1, RootSet
  <2>. QED  BY <1>2, <2>2
<1>6. p \notin Held(w)
  BY <1>2, <1>3, <1>5 DEF Held
<1>7. p \notin Used(base)
  BY <1>1, <1>2, Innermost
<1>8. Fits(t, w, p)
  BY <1>1, <1>2, <1>3, <1>4, <1>5, <1>6, <1>7 DEF Fits
<1>9. Held(w) \subseteq Held(t) \cup {p}
  BY <1>2, <1>3, <1>5 DEF Held
<1>. QED  BY <1>3, <1>4, <1>6, <1>8, <1>9

LEMMA DelKeeps ==
  ASSUME IInv, NEW d \in Dbis, Del(d)
  PROVE  IInv'
<1>1. PICK t, o : t = Top /\ o = Own(t, d)
  OBVIOUS
<1>2. PICK u, p : u = o.txn /\ p = o.page
  OBVIOUS
<1>3. /\ txns # <<>>
      /\ IF p = NoPage
         THEN mem' = mem /\ txns' = [txns EXCEPT ![Len(txns)] = u]
         ELSE /\ mem' = [mem EXCEPT ![p] = Link(u.free)]
              /\ txns' = [txns EXCEPT ![Len(txns)] = Emptied(u, d, p)]
      /\ txnid' = txnid /\ root' = root /\ free' = free /\ num' = num /\ deferred' = deferred
      /\ registered' = registered /\ reader' = reader
  BY <1>1, <1>2 DEF Del, shared, Emptied
<1>4. mem \in [PageNos -> Memory]
  BY DEF IInv, TypeOK
<1>5. CASE p = NoPage
  <2>1. u = [t EXCEPT !.free = NoPage]
    <3>1. \/ u = t /\ p = t.root[d] /\ p \in t.new
          \/ u = [t EXCEPT !.free = NoPage] /\ p = NoPage
          \/ \E a : Given(t, a) /\ p = a.page
      BY <1>1, <1>2, <1>3, OwnGives
    <3>2. NoPage \notin PageNos /\ t.new \subseteq PageNos
      BY <1>1, <1>3, TopTyped, TxnTyped, PagesAssumption DEF IInv, PageNos
    <3>. QED  BY <1>5, <3>1, <3>2 DEF Given
  <2>2. p \notin Used(u.root)
    BY <1>5 DEF Used
  <2>3. Rewrites(u, NoPage) /\ mem' = mem
    BY <1>3, <1>4, <1>5, <2>2 DEF Rewrites
  <2>. QED  BY <1>1, <1>3, <2>1, <2>3, StarvedKeeps
<1>6. CASE p # NoPage
  <2>1. Owned(t, d, u, p)
    BY <1>1, <1>2, <1>3, <1>6, OwnFits
  <2>2. PICK w : w = Emptied(u, d, p)
    OBVIOUS
  <2>3. /\ p \in PageNos /\ Unseen(p) /\ u \in Txns /\ u.free \in Links
        /\ w \in Txns /\ w.free = p /\ Fits(t, w, p) /\ p \notin Held(w)
        /\ Held(w) \subseteq Held(t) \cup {p}
    <3>1. /\ w \in Txns /\ w.free = p /\ Fits(t, w, p) /\ p \notin Held(w)
          /\ Held(w) \subseteq Held(t) \cup {p}
      BY <1>1, <1>3, <2>1, <2>2, EmptiedFits
    <3>2. p \in PageNos /\ Unseen(p) /\ u \in Txns
      BY <2>1 DEF Owned, Fits
    <3>. QED  BY <3>1, <3>2, TxnTyped
  <2>4. PICK b : Chain(mem, u.free, b) /\ \A q \in Listed(u.free, b) : ~Taken(q) /\ q # p
    BY <2>1 DEF Owned
  <2>5. Rewrites(w, p)
    <3>1. Link(u.free) \in Memory
      BY <2>3 DEF Memory
    <3>2. mem' \in [PageNos -> Memory] /\ \A q \in PageNos : q # p => mem'[q] = mem[q]
      BY <1>3, <1>4, <1>6, <2>3, <3>1
    <3>3. p \notin Used(w.root)
      BY <2>3 DEF Held
    <3>. QED  BY <1>3, <1>6, <2>2, <3>2, <3>3 DEF Rewrites
  <2>6. CommittedOK' /\ TxnsOK' /\ ReadersOK'
    BY <1>1, <1>3, <2>3, <2>5, TopChanged
  <2>7. FreeOK'
    <3>1. /\ FreeHead' = p /\ ~Taken(p)'
          /\ \A q : Taken(q)' => Taken(q) \/ q = p
      BY <1>1, <1>3, <2>3, <2>5, TakenAfter DEF IInv
    <3>2. p \notin Listed(u.free, b)
      BY <2>4
    <3>3. PICK c : /\ Chain([mem EXCEPT ![p] = Link(u.free)], p, c)
                   /\ \A q \in Listed(p, c) : q \in Listed(u.free, b) \/ q = p
      BY <1>4, <2>3, <2>4, <3>2, PushedOne
    <3>4. Chain(mem', p, c)
      BY <1>3, <1>6, <3>3
    <3>5. \A q \in Listed(p, c) : ~Taken(q)'
      BY <2>4, <3>1, <3>3
    <3>6. \E e : Chain(mem', FreeHead', e) /\ \A q \in Listed(FreeHead', e) : ~Taken(q)'
      BY <3>1, <3>4, <3>5
    <3>. QED  BY <3>6 DEF FreeOK, Chain, Listed
  <2>8. TypeOK'
    BY <1>3, <2>3, <2>5, RewritesTyped DEF IInv
  <2>. QED  BY <2>6, <2>7, <2>8 DEF IInv
<1>. QED  BY <1>5, <1>6

---------------------------------------------------------------------------
(* Transactions that begin                                                 *)

\* A reader that is open is registered, and who is registered is open.
LEMMA Registered ==
  ASSUME TypeOK, ReadersOK, NEW n \in 0 .. MaxTxnid
  PROVE  registered[n] > 0 <=> \E r \in Readers : reader[r].snap = n
<1>1. registered[n] = Cardinality(At(n)) /\ IsFiniteSet(At(n))
  <2>1. At(n) \subseteq Readers
    BY DEF At
  <2>. QED  BY <2>1, ReadersAssumption, FS_Subset DEF ReadersOK
<1>2. Cardinality(At(n)) \in Nat /\ (Cardinality(At(n)) = 0 <=> At(n) = {})
  BY <1>1, FS_CardinalityType, FS_EmptySet
<1>3. At(n) = {} <=> ~\E r \in Readers : reader[r].snap = n
  BY DEF At
<1>. QED  BY <1>1, <1>2, <1>3

\* What a new writer moves to the free list: pages that wait, and for no reader.
LEMMA ReadyPages ==
  ASSUME IInv, NEW ready, ready = {e \in deferred : Reclaimable(e)}
  PROVE  /\ ready \in SUBSET Entries /\ ready \subseteq deferred
         /\ \A e, f \in deferred : e.page = f.page => e = f
         /\ \A e \in ready : Taken(e.page) /\ e.page \notin Used(root)
         /\ \A e \in ready, r \in Readers : e.page \notin Used(reader[r].root)
<1>1. ready \in SUBSET Entries /\ ready \subseteq deferred
  BY DEF IInv, TypeOK, Entries
<1>2. /\ \A e, f \in deferred : e.page = f.page => e = f
      /\ \A e \in ready : e.page \in DeferredPages
      /\ Used(root) \cap DeferredPages = {}
  BY <1>1 DEF IInv, CommittedOK, DeferredPages
<1>3. ASSUME NEW e \in ready, NEW r \in Readers, e.page \in Used(reader[r].root)
      PROVE  FALSE
  <2>1. CASE reader[r].snap = Closed
    <3>1. reader[r] = NoReader
      BY <2>1 DEF IInv, ReadersOK, ReaderOK
    <3>. QED  BY <1>3, <3>1 DEF NoReader, Used
  <2>2. CASE reader[r].snap # Closed
    <3>1. PICK s \in 0 .. MaxTxnid : s = reader[r].snap
      BY <2>2 DEF IInv, TypeOK
    <3>2. PICK f \in deferred : f.page = e.page /\ f.at >= s
      BY <1>2, <1>3, <2>2, <3>1 DEF IInv, ReadersOK, ReaderOK
    <3>3. f = e
      BY <1>1, <1>2, <3>2
    <3>4. registered[s] > 0
      BY <3>1, Registered DEF IInv
    <3>5. e.at < s
      BY <3>4 DEF Reclaimable
    <3>6. e.at \in Nat /\ s \in Nat
      BY <1>1, TxnsAssumption DEF Entries
    <3>. QED  BY <3>2, <3>3, <3>5, <3>6
  <2>. QED  BY <2>1, <2>2
<1>. QED  BY <1>1, <1>2, <1>3 DEF Taken

LEMMA FreshFields ==
  ASSUME NEW rt \in [Dbis -> Links], NEW f \in Links, NEW n \in 0 .. MaxPages,
         NEW t, t = Fresh(rt, f, n)
  PROVE  /\ t \in Txns /\ Held(t) = Used(rt)
         /\ t.root = rt /\ t.free = f /\ t.num = n /\ t.new = {} /\ t.old = {}
         /\ t.savedRoot = rt /\ t.savedNum = n
BY DEF Fresh, Txns, Held

LEMMA BeginWriteKeeps ==
  ASSUME IInv, BeginWrite
  PROVE  IInv'
<1>1. PICK ready : ready = {e \in deferred : Reclaimable(e)}
  OBVIOUS
<1>2. PICK h2 : h2 = HeadAfter(free, ready)
  OBVIOUS
<1>3. PICK t : t = Fresh(root, h2, num)
  OBVIOUS
<1>4. /\ txns = <<>> /\ mem' = LinkedAfter(mem, free, ready) /\ free' = h2
      /\ deferred' = deferred \ ready /\ txns' = <<t>>
      /\ txnid' = txnid /\ root' = root /\ num' = num
      /\ registered' = registered /\ reader' = reader
  BY <1>1, <1>2, <1>3 DEF BeginWrite
<1>5. /\ mem \in [PageNos -> Memory] /\ free \in Links /\ root \in [Dbis -> Links]
      /\ num \in 0 .. MaxPages /\ num \in Nat
  BY PagesAssumption DEF IInv, TypeOK
<1>6. /\ ready \in SUBSET Entries /\ ready \subseteq deferred
      /\ \A e, f \in deferred : e.page = f.page => e = f
      /\ \A e \in ready : Taken(e.page) /\ e.page \notin Used(root)
      /\ \A e \in ready, r \in Readers : e.page \notin Used(reader[r].root)
  BY <1>1, ReadyPages
<1>7. PICK b : Chain(mem, free, b) /\ \A p \in Listed(free, b) : ~Taken(p)
  BY <1>4 DEF IInv, FreeOK, FreeHead
<1>8. /\ h2 \in Links /\ mem' \in [PageNos -> Memory]
      /\ \A p \in PageNos : (\A e \in ready : e.page # p) => mem'[p] = mem[p]
      /\ \E c : Chain(mem', h2, c) /\ \A p \in Listed(h2, c) :
                  p \in Listed(free, b) \/ \E e \in ready : e.page = p
  <2>1. \A e, f \in ready : e.page = f.page => e = f
    BY <1>6
  <2>2. \A e \in ready : e.page \notin Listed(free, b)
    BY <1>6, <1>7
  <2>. QED  BY <1>2, <1>4, <1>5, <1>6, <1>7, <2>1, <2>2, Pushed
<1>9. /\ t \in Txns /\ Held(t) = Used(root)
      /\ t.root = root /\ t.free = h2 /\ t.num = num /\ t.new = {} /\ t.old = {}
      /\ t.savedRoot = root /\ t.savedNum = num
  BY <1>3, <1>5, <1>8, FreshFields
<1>10. /\ DOMAIN txns' = {1} /\ txns'[1] = t /\ Len(txns') = 1 /\ txns' # <<>>
       /\ txns' \in Seq(Txns)
  BY <1>4, <1>9
<1>11. \A q \in PageNos : (\A e \in ready : e.page # q) => mem'[q] = mem[q]
  BY <1>8
<1>12. Used(root) \subseteq PageNos /\ \A q \in Used(root) : mem'[q] = mem[q]
  <2>1. Used(root) \subseteq PageNos
    BY <1>5 DEF Used, Links
  <2>. QED  BY <1>6, <1>11, <2>1
<1>13. DeferredPages' \subseteq DeferredPages /\ \A e \in ready : e.page \notin DeferredPages'
  <2>1. DeferredPages' = {e.page : e \in deferred \ ready}
    BY <1>4 DEF DeferredPages
  <2>. QED  BY <1>6, <2>1 DEF DeferredPages
<1>14. TypeOK'
  <2>1. deferred' \subseteq [at : 0 .. MaxTxnid, page : PageNos]
    BY <1>4 DEF IInv, TypeOK
  <2>2. Len(txns') <= MaxNesting
    BY <1>10, TxnsAssumption
  <2>. QED  BY <1>4, <1>8, <1>10, <2>1, <2>2 DEF IInv, TypeOK
<1>15. FreeOK'
  <2>1. FreeHead' = h2
    BY <1>9, <1>10 DEF FreeHead, Top
  <2>2. ASSUME NEW q, Taken(q)'
        PROVE  Taken(q) /\ \A e \in ready : e.page # q
    <3>1. q \in Used(root) \/ q \in DeferredPages'
      <4>1. CASE q \in Used(root)' \/ q \in DeferredPages'
        BY <1>4, <4>1 DEF Used
      <4>2. CASE \E i \in DOMAIN txns' : q \in Held(txns'[i])
        BY <1>9, <1>10, <4>2
      <4>3. (\E i \in DOMAIN txns : q \in Held(txns[i]))'
              => \E i \in DOMAIN txns' : q \in Held(txns'[i])
        BY DEF Held, Used
      <4>. QED  BY <2>2, <4>1, <4>2, <4>3 DEF Taken
    <3>. QED  BY <1>6, <1>13, <3>1 DEF Taken
  <2>3. PICK c : Chain(mem', h2, c) /\ \A p \in Listed(h2, c) :
                   p \in Listed(free, b) \/ \E e \in ready : e.page = p
    BY <1>8
  <2>4. \A p \in Listed(h2, c) : ~Taken(p)'
    BY <1>7, <2>2, <2>3
  <2>5. \E e : Chain(mem', FreeHead', e) /\ \A q \in Listed(FreeHead', e) : ~Taken(q)'
    BY <2>1, <2>3, <2>4
  <2>. QED  BY <2>5 DEF FreeOK, Chain, Listed
<1>16. /\ Apart(root) /\ Leaves(root)'
       /\ \A p \in Used(root) \cup DeferredPages : p < num
       /\ Used(root) \cap DeferredPages = {}
  <2>1. Leaves(root)'
    BY <1>4, <1>12 DEF IInv, CommittedOK, Leaves, Used
  <2>. QED  BY <2>1 DEF IInv, CommittedOK
<1>17. CommittedOK'
  BY <1>4, <1>6, <1>13, <1>16 DEF CommittedOK, Apart, Used
<1>18. TxnsOK'
  <2>1. TxnOK(1)'
    <3>1. Base(1)' = root /\ BaseNum(1)' = num
      BY <1>4 DEF Base, BaseNum
    <3>2. Leaves(t.root)'
      BY <1>4, <1>9, <1>16 DEF Leaves, Used
    <3>3. Held(t) \cap DeferredPages' = {} /\ \A p \in Held(t) : p < t.num
      BY <1>9, <1>13, <1>16
    <3>4. num <= t.num
      BY <1>5, <1>9
    <3>. QED  BY <1>4, <1>9, <1>10, <1>16, <3>1, <3>2, <3>3, <3>4
              DEF TxnOK, Apart, Used, Held
  <2>. QED  BY <1>10, <2>1 DEF TxnsOK
<1>19. ReadersOK'
  <2>1. ASSUME NEW r \in Readers PROVE ReaderOK(r)'
    <3>1. CASE reader[r].snap = Closed
      BY <1>4, <3>1 DEF IInv, ReadersOK, ReaderOK, NoReader
    <3>2. CASE reader[r].snap # Closed
      <4>1. /\ reader[r].snap <= txnid /\ Leaves(reader[r].root)
            /\ \A p \in Used(reader[r].root) :
                 p \in Used(root) \/ \E e \in deferred : e.page = p /\ e.at >= reader[r].snap
        BY <3>2 DEF IInv, ReadersOK, ReaderOK
      <4>2. Used(reader[r].root) \subseteq PageNos
        BY DEF IInv, TypeOK, Used, Links
      <4>3. Leaves(reader[r].root)'
        BY <1>4, <1>6, <1>11, <4>1, <4>2 DEF Leaves, Used
      <4>4. \A p \in Used(reader[r].root) :
              p \in Used(root) \/ \E e \in deferred' : e.page = p /\ e.at >= reader[r].snap
        BY <1>4, <1>6, <4>1
      <4>. QED  BY <1>4, <3>2, <4>1, <4>3, <4>4 DEF ReaderOK, Used
    <3>. QED  BY <3>1, <3>2
  <2>2. \A n \in 0 .. MaxTxnid : registered'[n] = Cardinality(At(n))'
    BY <1>4 DEF IInv, ReadersOK, At
  <2>. QED  BY <2>1, <2>2 DEF ReadersOK
<1>. QED  BY <1>14, <1>15, <1>17, <1>18, <1>19 DEF IInv

\* What is taken after a step.
LEMMA TakenNext ==
  ASSUME NEW q, Taken(q)'
  PROVE  \/ q \in Used(root') \/ \E e \in deferred' : e.page = q
         \/ \E i \in DOMAIN txns' : q \in Held(txns'[i])
<1>1. CASE q \in Used(root)'
  BY <1>1 DEF Used
<1>2. CASE q \in DeferredPages'
  BY <1>2 DEF DeferredPages
<1>3. CASE (\E i \in DOMAIN txns : q \in Held(txns[i]))'
  BY <1>3 DEF Held, Used
<1>. QED  BY <1>1, <1>2, <1>3 DEF Taken

\* The outer transactions are not disturbed by what happens further in.
LEMMA OuterStay ==
  ASSUME IInv, NEW k \in Nat, k <= Len(txns), \A i \in 1 .. k : txns'[i] = txns[i],
         root' = root, num' = num, deferred' = deferred,
         \A i \in 1 .. k : \A q \in Held(txns[i]) : mem'[q] = mem[q] \/ q \notin Used(txns[i].root)
  PROVE  /\ \A j \in 1 .. k : TxnOK(j)' /\ \A i \in 1 .. j - 1 : PairOK(i, j)'
         /\ \A j \in 1 .. k + 1 : Base(j)' = Base(j) /\ BaseNum(j)' = BaseNum(j)
<1>1. DOMAIN txns = 1 .. Len(txns) /\ Len(txns) \in Nat
  BY DEF IInv, TypeOK
<1>2. ASSUME NEW j \in 1 .. k + 1 PROVE Base(j)' = Base(j) /\ BaseNum(j)' = BaseNum(j)
  <2>1. CASE j = 1
    BY <2>1 DEF Base, BaseNum
  <2>2. CASE j # 1
    <3>1. j - 1 \in 1 .. k
      BY <2>2
    <3>. QED  BY <2>2, <3>1 DEF Base, BaseNum
  <2>. QED  BY <2>1, <2>2
<1>3. ASSUME NEW j \in 1 .. k PROVE TxnOK(j)'
  <2>1. TxnOK(j) /\ txns'[j] = txns[j] /\ j \in 1 .. k + 1
    BY <1>1 DEF IInv, TxnsOK
  <2>2. PICK s : s = txns[j]
    OBVIOUS
  <2>3. Leaves(s.root)'
    <3>1. Leaves(s.root) /\ Used(s.root) \subseteq Held(s)
      BY <2>1, <2>2 DEF TxnOK, Held
    <3>. QED  BY <2>2, <3>1 DEF Leaves, Used
  <2>4. DeferredPages' = DeferredPages
    BY DEF DeferredPages
  <2>. QED  BY <1>2, <2>1, <2>2, <2>3, <2>4 DEF TxnOK, Apart, Used, Held
<1>4. ASSUME NEW j \in 1 .. k, NEW i \in 1 .. j - 1 PROVE PairOK(i, j)'
  <2>1. PairOK(i, j) /\ txns'[i] = txns[i] /\ txns'[j] = txns[j]
    BY <1>1 DEF IInv, TxnsOK
  <2>. QED  BY <2>1 DEF PairOK, Held, Used
<1>. QED  BY <1>2, <1>3, <1>4

\* The committed state is not disturbed by what happens to other pages.
LEMMA CommittedStays ==
  ASSUME IInv, root' = root, num' = num, deferred' = deferred,
         \A q \in Used(root) \cup DeferredPages : mem'[q] = mem[q]
  PROVE  CommittedOK'
<1>1. Leaves(root)'
  BY DEF IInv, CommittedOK, Leaves, Used
<1>2. DeferredPages' = DeferredPages /\ Used(root)' = Used(root) /\ (Apart(root)' <=> Apart(root))
  BY DEF DeferredPages, Used, Apart
<1>. QED  BY <1>1, <1>2 DEF IInv, CommittedOK

LEMMA BeginChildKeeps ==
  ASSUME IInv, BeginChild
  PROVE  IInv'
<1>1. PICK n \in Nat : n = Len(txns)
  BY DEF IInv, TypeOK
<1>2. PICK t, u : t = Top /\ u = Fresh(t.root, t.free, t.num)
  OBVIOUS
<1>3. /\ n \in 1 .. MaxNesting - 1 /\ txns # <<>> /\ txns \in Seq(Txns)
      /\ txns' = Append(txns, u)
      /\ mem' = mem /\ txnid' = txnid /\ root' = root /\ free' = free /\ num' = num
      /\ deferred' = deferred /\ registered' = registered /\ reader' = reader
  BY <1>1, <1>2 DEF BeginChild, shared, IInv, TypeOK
<1>4. t \in Txns /\ t = txns[n] /\ FreeHead = t.free /\ DOMAIN txns = 1 .. n
  BY <1>1, <1>2, <1>3, TopTyped DEF IInv, Top
<1>5. /\ u \in Txns /\ Held(u) = Used(t.root)
      /\ u.root = t.root /\ u.free = t.free /\ u.num = t.num /\ u.new = {} /\ u.old = {}
      /\ u.savedRoot = t.root /\ u.savedNum = t.num
  BY <1>2, <1>4, FreshFields, TxnTyped
<1>6. /\ Len(txns') = n + 1 /\ DOMAIN txns' = 1 .. n + 1 /\ txns'[n + 1] = u
      /\ \A i \in 1 .. n : txns'[i] = txns[i]
      /\ txns' \in Seq(Txns)
  BY <1>1, <1>3, <1>5
<1>7. TypeOK'
  BY <1>1, <1>3, <1>6, TxnsAssumption DEF IInv, TypeOK
<1>8. FreeOK'
  <2>1. FreeHead' = FreeHead
    <3>1. txns' # <<>> /\ txns'[Len(txns')] = u
      BY <1>6
    <3>. QED  BY <1>4, <1>5, <3>1 DEF FreeHead, Top
  <2>2. ASSUME NEW q, Taken(q)' PROVE Taken(q)
    <3>1. CASE \E i \in DOMAIN txns' : q \in Held(txns'[i])
      <4>1. PICK i \in 1 .. n + 1 : q \in Held(txns'[i])
        BY <1>6, <3>1
      <4>2. CASE i = n + 1
        BY <1>3, <1>4, <1>5, <1>6, <4>1, <4>2 DEF Taken, Held
      <4>3. CASE i # n + 1
        BY <1>3, <1>4, <1>6, <4>1, <4>3 DEF Taken
      <4>. QED  BY <4>2, <4>3
    <3>2. CASE q \in Used(root') \/ \E e \in deferred' : e.page = q
      BY <1>3, <3>2 DEF Taken, DeferredPages
    <3>. QED  BY <2>2, <3>1, <3>2, TakenNext
  <2>3. PICK b : Chain(mem, FreeHead, b) /\ \A p \in Listed(FreeHead, b) : ~Taken(p)
    BY DEF IInv, FreeOK
  <2>4. Chain(mem', FreeHead', b) /\ \A p \in Listed(FreeHead', b) : ~Taken(p)'
    BY <1>3, <2>1, <2>2, <2>3
  <2>. QED  BY <2>4 DEF FreeOK, Chain, Listed
<1>9. CommittedOK'
  BY <1>3, CommittedStays
<1>10. ReadersOK'
  BY <1>3, ReadersStay, TxnsAssumption DEF IInv, TypeOK
<1>11. TxnsOK'
  <2>1. /\ \A j \in 1 .. n : TxnOK(j)' /\ \A i \in 1 .. j - 1 : PairOK(i, j)'
    BY <1>1, <1>3, <1>6, OuterStay
  <2>2. TxnOK(n + 1)'
    <3>1. Base(n + 1)' = t.root /\ BaseNum(n + 1)' = t.num
      <4>1. n + 1 # 1 /\ n + 1 - 1 = n /\ txns'[n] = t
        BY <1>3, <1>4, <1>6
      <4>. QED  BY <4>1 DEF Base, BaseNum
    <3>2. /\ Apart(t.root) /\ Leaves(t.root)
          /\ Held(t) \cap DeferredPages = {} /\ num <= t.num /\ \A p \in Held(t) : p < t.num
      BY <1>2, <1>3, Innermost
    <3>3. Leaves(u.root)' /\ Apart(u.root)'
      BY <1>3, <1>5, <3>2 DEF Leaves, Used, Apart
    <3>4. Held(u) \subseteq Held(t) /\ Used(u.root) = Used(t.root)
      BY <1>5 DEF Held
    <3>5. DeferredPages' = DeferredPages /\ Held(u) \cap DeferredPages = {}
      BY <1>3, <3>2, <3>4 DEF DeferredPages
    <3>6. num' <= u.num /\ \A p \in Held(u) : p < u.num
      BY <1>3, <1>5, <3>2, <3>4
    <3>7. TxnOK(n + 1)' <=>
            /\ Apart(u.root) /\ Leaves(u.root)'
            /\ u.savedRoot = t.root /\ u.savedNum = t.num
            /\ Used(u.root) \subseteq Used(t.root) \cup u.new
            /\ Used(t.root) \subseteq Used(u.root) \cup u.old
            /\ u.old \cap (u.new \cup Used(u.root)) = {}
            /\ Held(u) \cap DeferredPages' = {}
            /\ u.new \cap Used(root') = {}
            /\ num' <= u.num /\ \A p \in Held(u) : p < u.num
      BY <1>6, <3>1 DEF TxnOK, Apart, Used, Held, Leaves
    <3>. QED  BY <1>5, <3>2, <3>3, <3>4, <3>5, <3>6, <3>7 DEF Apart
  <2>3. ASSUME NEW i \in 1 .. n PROVE PairOK(i, n + 1)'
    <3>1. txns[i].num <= t.num
      <4>1. CASE i = n
        BY <1>4, <4>1, TxnTyped
      <4>2. CASE i # n
        <5>1. i \in 1 .. n - 1 /\ n \in DOMAIN txns
          BY <1>3, <1>4, <4>2
        <5>. QED  BY <1>4, <5>1 DEF IInv, TxnsOK, PairOK
      <4>. QED  BY <4>1, <4>2
    <3>. QED  BY <1>5, <1>6, <3>1 DEF PairOK
  <2>4. ASSUME NEW j \in 1 .. n + 1 PROVE TxnOK(j)' /\ \A i \in 1 .. j - 1 : PairOK(i, j)'
    <3>1. CASE j = n + 1
      BY <2>2, <2>3, <3>1
    <3>2. CASE j # n + 1
      <4>1. j \in 1 .. n
        BY <3>2
      <4>. QED  BY <2>1, <4>1
    <3>. QED  BY <3>1, <3>2
  <2>. QED  BY <1>6, <2>4 DEF TxnsOK
<1>. QED  BY <1>7, <1>8, <1>9, <1>10, <1>11 DEF IInv

---------------------------------------------------------------------------
(* Transactions that end                                                   *)

\* The transactions left when the innermost one ends inside another.
LEMMA Popped ==
  ASSUME TypeOK, NEW n \in Nat, n = Len(txns), n > 1, NEW u \in Txns,
         txns' = [SubSeq(txns, 1, n - 1) EXCEPT ![n - 1] = u]
  PROVE  /\ txns' \in Seq(Txns) /\ Len(txns') = n - 1 /\ DOMAIN txns' = 1 .. n - 1
         /\ txns' # <<>> /\ Len(txns') <= MaxNesting
         /\ txns'[n - 1] = u /\ \A i \in 1 .. n - 2 : txns'[i] = txns[i]
         /\ FreeHead' = u.free
<1>1. txns \in Seq(Txns) /\ n - 1 \in Nat /\ n - 1 >= 1 /\ n <= MaxNesting
  BY DEF TypeOK
<1>2. PICK s : s = SubSeq(txns, 1, n - 1)
  OBVIOUS
<1>3. /\ s \in Seq(Txns) /\ Len(s) = n - 1
      /\ \A i \in 1 .. n - 1 : s[i] = txns[i]
  BY <1>1, <1>2
<1>4. txns' = [s EXCEPT ![n - 1] = u]
  BY <1>2
<1>5. txns' \in Seq(Txns) /\ Len(txns') = n - 1 /\ DOMAIN txns' = 1 .. n - 1
  BY <1>1, <1>3, <1>4
<1>6. txns'[n - 1] = u /\ \A i \in 1 .. n - 2 : txns'[i] = txns[i]
  <2>1. n - 1 \in DOMAIN s
    BY <1>1, <1>3
  <2>2. \A i \in 1 .. n - 2 : i \in 1 .. n - 1 /\ i \in DOMAIN s /\ i # n - 1
    BY <1>1, <1>3
  <2>3. PICK k : k = n - 1
    OBVIOUS
  <2>4. txns' = [s EXCEPT ![k] = u] /\ k \in DOMAIN s
    BY <1>4, <2>1, <2>3
  <2>5. \A i \in DOMAIN s : txns'[i] = IF i = k THEN u ELSE s[i]
    BY <2>4
  <2>6. txns'[k] = u
    BY <2>4, <2>5
  <2>7. ASSUME NEW i \in 1 .. n - 2 PROVE txns'[i] = txns[i]
    <3>1. i \in DOMAIN s /\ i # k /\ s[i] = txns[i]
      BY <1>3, <2>2, <2>3
    <3>. QED  BY <2>5, <3>1
  <2>. QED  BY <2>3, <2>6, <2>7
<1>7. txns' # <<>> /\ Len(txns') <= MaxNesting
  <2>1. n - 1 <= MaxNesting /\ n - 1 # 0
    BY <1>1, TxnsAssumption
  <2>2. txns' # <<>>
    <3>1. Len(<<>>) = 0
      OBVIOUS
    <3>. QED  BY <1>5, <2>1, <3>1, Zenon
  <2>. QED  BY <1>5, <2>1, <2>2
<1>8. FreeHead' = u.free
  BY <1>5, <1>6, <1>7 DEF FreeHead, Top
<1>. QED  BY <1>5, <1>6, <1>7, <1>8

\* u can follow the parent par of the innermost transaction t, which ends.
Resumes(par, t, u) ==
  LET base == Base(Len(txns) - 1) IN
  /\ u \in Txns /\ Apart(u.root)
  /\ u.savedRoot = par.savedRoot /\ u.savedNum = par.savedNum
  /\ par.num <= u.num
  /\ Used(u.root) \subseteq Used(base) \cup u.new
  /\ Used(base) \subseteq Used(u.root) \cup u.old
  /\ u.old \cap (u.new \cup Used(u.root)) = {}
  /\ u.new \subseteq par.new \cup t.new
  /\ Held(u) \subseteq Held(par) \cup Held(t)
  /\ \A p \in Held(u) : p < u.num

LEMMA ResumedTxns ==
  ASSUME IInv, NEW n \in Nat, n = Len(txns), n > 1, NEW par, par = txns[n - 1],
         NEW t, t = txns[n], NEW u, Resumes(par, t, u),
         txns' = [SubSeq(txns, 1, n - 1) EXCEPT ![n - 1] = u],
         root' = root, num' = num, deferred' = deferred, Leaves(u.root)',
         \A i \in 1 .. n - 2 : \A q \in Used(txns[i].root) : mem'[q] = mem[q]
  PROVE  TxnsOK' /\ \A q : Taken(q)' => Taken(q) /\ (Unseen(q) => q \in Held(u))
<1>1. /\ u \in Txns /\ Apart(u.root)
      /\ u.savedRoot = par.savedRoot /\ u.savedNum = par.savedNum
      /\ par.num <= u.num
      /\ Used(u.root) \subseteq Used(Base(n - 1)) \cup u.new
      /\ Used(Base(n - 1)) \subseteq Used(u.root) \cup u.old
      /\ u.old \cap (u.new \cup Used(u.root)) = {}
      /\ u.new \subseteq par.new \cup t.new
      /\ Held(u) \subseteq Held(par) \cup Held(t)
      /\ \A p \in Held(u) : p < u.num
  BY DEF Resumes
<1>2. /\ DOMAIN txns = 1 .. n /\ n - 1 \in DOMAIN txns /\ n \in DOMAIN txns
      /\ par \in Txns /\ t \in Txns /\ \A i \in DOMAIN txns : txns[i] \in Txns
  BY TopTyped DEF IInv, TypeOK
<1>3. /\ DOMAIN txns' = 1 .. n - 1 /\ txns'[n - 1] = u
      /\ \A i \in 1 .. n - 2 : txns'[i] = txns[i]
  BY <1>1, Popped DEF IInv
<1>4. TxnOK(n - 1) /\ TxnOK(n) /\ PairOK(n - 1, n)
      /\ \A i \in 1 .. n - 2 : PairOK(i, n - 1) /\ PairOK(i, n)
  <2>1. \A i \in 1 .. n - 2 : i \in 1 .. (n - 1) - 1 /\ i \in 1 .. n - 1
    OBVIOUS
  <2>2. n - 1 \in 1 .. n - 1
    OBVIOUS
  <2>. QED  BY <1>2, <2>1, <2>2 DEF IInv, TxnsOK
<1>5. /\ \A j \in 1 .. n - 2 : TxnOK(j)' /\ \A i \in 1 .. j - 1 : PairOK(i, j)'
      /\ Base(n - 1)' = Base(n - 1) /\ BaseNum(n - 1)' = BaseNum(n - 1)
  <2>1. PICK k \in Nat : k = n - 2
    <3>1. n - 2 \in Nat
      OBVIOUS
    <3>. QED  BY <3>1
  <2>2. /\ k <= Len(txns) /\ n - 1 \in 1 .. k + 1
        /\ \A i \in 1 .. k : txns'[i] = txns[i]
        /\ \A i \in 1 .. k : \A q \in Held(txns[i]) :
             mem'[q] = mem[q] \/ q \notin Used(txns[i].root)
    BY <1>3, <2>1
  <2>3. /\ \A j \in 1 .. k : TxnOK(j)' /\ \A i \in 1 .. j - 1 : PairOK(i, j)'
        /\ \A j \in 1 .. k + 1 : Base(j)' = Base(j) /\ BaseNum(j)' = BaseNum(j)
    BY <2>2, OuterStay
  <2>. QED  BY <2>1, <2>2, <2>3
<1>6. TxnOK(n - 1)'
  <2>1. /\ par.savedRoot = Base(n - 1) /\ par.savedNum = BaseNum(n - 1)
        /\ Held(par) \cap DeferredPages = {} /\ Held(t) \cap DeferredPages = {}
        /\ par.new \cap Used(root) = {} /\ t.new \cap Used(root) = {}
        /\ num <= par.num
    BY <1>4 DEF TxnOK
  <2>2. num <= u.num
    <3>1. num \in Nat /\ par.num \in Nat /\ u.num \in Nat
      BY <1>1, <1>2, TxnTyped, PagesAssumption DEF IInv, TypeOK
    <3>. QED  BY <1>1, <2>1, <3>1
  <2>3. Held(u) \cap DeferredPages = {} /\ u.new \cap Used(root) = {}
    BY <1>1, <2>1
  <2>4. DeferredPages' = DeferredPages
    BY DEF DeferredPages
  <2>5. TxnOK(n - 1)' <=>
            /\ Apart(u.root) /\ Leaves(u.root)'
            /\ u.savedRoot = Base(n - 1) /\ u.savedNum = BaseNum(n - 1)
            /\ Used(u.root) \subseteq Used(Base(n - 1)) \cup u.new
            /\ Used(Base(n - 1)) \subseteq Used(u.root) \cup u.old
            /\ u.old \cap (u.new \cup Used(u.root)) = {}
            /\ Held(u) \cap DeferredPages' = {}
            /\ u.new \cap Used(root') = {}
            /\ num' <= u.num /\ \A p \in Held(u) : p < u.num
    BY <1>3, <1>5 DEF TxnOK, Apart, Used, Held, Leaves
  <2>. QED  BY <1>1, <2>1, <2>2, <2>3, <2>4, <2>5
<1>7. ASSUME NEW i \in 1 .. n - 2 PROVE PairOK(i, n - 1)'
  <2>1. /\ par.new \cap Held(txns[i]) = {} /\ t.new \cap Held(txns[i]) = {}
        /\ txns[i].num <= par.num
    BY <1>4 DEF PairOK
  <2>2. u.new \cap Held(txns[i]) = {}
    BY <1>1, <2>1
  <2>3. txns[i].num <= u.num
    <3>1. txns[i].num \in Nat /\ par.num \in Nat /\ u.num \in Nat
      <4>1. i \in DOMAIN txns
        BY <1>2
      <4>2. txns[i] \in Txns
        BY <1>2, <4>1
      <4>. QED  BY <1>1, <1>2, <4>2, TxnTyped
    <3>. QED  BY <1>1, <2>1, <3>1
  <2>. QED  BY <1>3, <2>2, <2>3 DEF PairOK, Held, Used
<1>8. TxnsOK'
  <2>1. ASSUME NEW j \in 1 .. n - 1 PROVE TxnOK(j)' /\ \A i \in 1 .. j - 1 : PairOK(i, j)'
    <3>1. CASE j = n - 1
      <4>1. \A i \in 1 .. j - 1 : i \in 1 .. n - 2
        BY <3>1
      <4>. QED  BY <1>6, <1>7, <3>1, <4>1
    <3>2. CASE j # n - 1
      <4>1. j \in 1 .. n - 2
        BY <3>2
      <4>. QED  BY <1>5, <4>1
    <3>. QED  BY <3>1, <3>2
  <2>. QED  BY <1>3, <2>1 DEF TxnsOK
<1>9. ASSUME NEW q, Taken(q)' PROVE Taken(q) /\ (Unseen(q) => q \in Held(u))
  <2>1. CASE q \in Used(root') \/ \E e \in deferred' : e.page = q
    BY <2>1 DEF Taken, Unseen, DeferredPages
  <2>2. CASE \E i \in DOMAIN txns' : q \in Held(txns'[i])
    <3>1. PICK i \in 1 .. n - 1 : q \in Held(txns'[i])
      BY <1>3, <2>2
    <3>2. CASE i = n - 1
      BY <1>1, <1>2, <1>3, <3>1, <3>2 DEF Taken
    <3>3. CASE i # n - 1
      <4>1. i \in 1 .. n - 2 /\ i \in DOMAIN txns /\ i \in 1 .. Len(txns) - 1
        BY <1>2, <3>3
      <4>. QED  BY <1>3, <3>1, <4>1 DEF Taken, Unseen
    <3>. QED  BY <3>2, <3>3
  <2>. QED  BY <1>9, <2>1, <2>2, TakenNext
<1>. QED  BY <1>8, <1>9

LEMMA CommitChildKeeps ==
  ASSUME IInv, CommitChild
  PROVE  IInv'
<1>1. PICK n \in Nat : n = Len(txns) /\ n > 1
  BY DEF IInv, TypeOK, CommitChild
<1>2. PICK par, t : par = txns[n - 1] /\ t = txns[n]
  OBVIOUS
<1>3. PICK u : u = [par EXCEPT !.root = t.root, !.free = t.free, !.num = t.num,
                               !.new = MergedNew(par, t), !.old = par.old \cup t.old]
  OBVIOUS
<1>4. /\ txns' = [SubSeq(txns, 1, n - 1) EXCEPT ![n - 1] = u]
      /\ mem' = mem /\ txnid' = txnid /\ root' = root /\ free' = free /\ num' = num
      /\ deferred' = deferred /\ registered' = registered /\ reader' = reader
  BY <1>1, <1>2, <1>3 DEF CommitChild, Top, shared
<1>5. /\ DOMAIN txns = 1 .. n /\ n - 1 \in DOMAIN txns /\ n \in DOMAIN txns
      /\ par \in Txns /\ t \in Txns /\ txns # <<>> /\ FreeHead = t.free
  BY <1>1, <1>2, TopTyped DEF IInv, TypeOK, Top
<1>6. /\ u.root = t.root /\ u.free = t.free /\ u.num = t.num
      /\ u.new = (par.new \cup t.new) \ t.old /\ u.old = par.old \cup t.old
      /\ u.savedRoot = par.savedRoot /\ u.savedNum = par.savedNum
      /\ u = [root |-> u.root, free |-> u.free, num |-> u.num, new |-> u.new, old |-> u.old,
              savedRoot |-> u.savedRoot, savedNum |-> u.savedNum]
  BY <1>3, <1>5 DEF Txns, MergedNew
<1>7. u \in Txns
  <2>1. u.new \in SUBSET PageNos /\ u.old \in SUBSET PageNos
    BY <1>5, <1>6, TxnTyped
  <2>. QED  BY <1>5, <1>6, <2>1, TxnTyped DEF Txns
<1>8. /\ Apart(t.root) /\ Leaves(t.root)
      /\ Used(t.root) \subseteq Used(par.root) \cup t.new
      /\ Used(par.root) \subseteq Used(t.root) \cup t.old
      /\ t.old \cap (t.new \cup Used(t.root)) = {}
      /\ \A p \in Held(t) : p < t.num
  <2>1. TxnOK(n) /\ Base(n) = par.root
    BY <1>1, <1>2, <1>5 DEF IInv, TxnsOK, Base
  <2>. QED  BY <1>2, <2>1 DEF TxnOK
<1>9. /\ Used(par.root) \subseteq Used(Base(n - 1)) \cup par.new
      /\ Used(Base(n - 1)) \subseteq Used(par.root) \cup par.old
      /\ par.old \cap (par.new \cup Used(par.root)) = {}
      /\ \A p \in Held(par) : p < par.num
  BY <1>2, <1>5 DEF IInv, TxnsOK, TxnOK
<1>10. t.new \cap Held(par) = {} /\ par.num <= t.num
  <2>1. PairOK(n - 1, n)
    <3>1. n - 1 \in 1 .. n - 1
      BY <1>1
    <3>. QED  BY <1>5, <3>1 DEF IInv, TxnsOK
  <2>. QED  BY <1>2, <2>1 DEF PairOK
<1>11. Held(u) \subseteq Held(par) \cup Held(t)
  BY <1>6 DEF Held
<1>12. \A p \in Held(u) : p < u.num
  <2>1. par.num \in Nat /\ t.num \in Nat /\ Held(par) \subseteq PageNos
    BY <1>5, TxnTyped
  <2>2. ASSUME NEW p \in Held(par) PROVE p < t.num
    <3>1. p \in Nat /\ p < par.num
      BY <1>9, <2>1, PagesAssumption DEF PageNos
    <3>. QED  BY <1>10, <2>1, <3>1
  <2>. QED  BY <1>6, <1>8, <1>11, <2>2
<1>13. /\ Used(u.root) \subseteq Used(Base(n - 1)) \cup u.new
       /\ Used(Base(n - 1)) \subseteq Used(u.root) \cup u.old
       /\ u.old \cap (u.new \cup Used(u.root)) = {}
  <2>1. par.old \cap t.new = {}
    BY <1>10 DEF Held
  <2>2. Used(t.root) \cap par.old = {}
    BY <1>8, <1>9, <2>1
  <2>. QED  BY <1>6, <1>8, <1>9, <2>1, <2>2
<1>14. Resumes(par, t, u)
  <2>1. u.new \subseteq par.new \cup t.new /\ Apart(u.root)
    BY <1>6, <1>8
  <2>2. par.num <= u.num /\ u.num = t.num
    BY <1>6, <1>10
  <2>. QED  BY <1>1, <1>6, <1>7, <1>11, <1>12, <1>13, <2>1, <2>2 DEF Resumes
<1>15. TxnsOK' /\ \A q : Taken(q)' => Taken(q)
  <2>1. Leaves(u.root)'
    BY <1>4, <1>6, <1>8 DEF Leaves, Used
  <2>2. \A i \in 1 .. n - 2 : \A q \in Used(txns[i].root) : mem'[q] = mem[q]
    BY <1>4
  <2>. QED  BY <1>1, <1>2, <1>4, <1>14, <2>1, <2>2, ResumedTxns
<1>16. FreeHead' = t.free /\ txns' \in Seq(Txns) /\ Len(txns') <= MaxNesting
  BY <1>1, <1>4, <1>6, <1>7, Popped DEF IInv
<1>17. FreeOK'
  <2>1. PICK b : Chain(mem, t.free, b) /\ \A p \in Listed(t.free, b) : ~Taken(p)
    BY <1>5 DEF IInv, FreeOK
  <2>2. Chain(mem', FreeHead', b) /\ \A p \in Listed(FreeHead', b) : ~Taken(p)'
    BY <1>4, <1>15, <1>16, <2>1
  <2>. QED  BY <2>2 DEF FreeOK, Chain, Listed
<1>18. CommittedOK'
  BY <1>4, CommittedStays
<1>19. ReadersOK'
  BY <1>4, ReadersStay, TxnsAssumption DEF IInv, TypeOK
<1>20. TypeOK'
  BY <1>4, <1>16 DEF IInv, TypeOK
<1>. QED  BY <1>15, <1>17, <1>18, <1>19, <1>20 DEF IInv

LEMMA CommitTopKeeps ==
  ASSUME IInv, CommitTop
  PROVE  IInv'
<1>1. PICK t : t = Top
  OBVIOUS
<1>2. PICK N : N = {[at |-> txnid, page |-> p] : p \in t.old}
  OBVIOUS
<1>3. /\ Len(txns) = 1 /\ txnid < MaxTxnid /\ txns # <<>>
      /\ txnid' = txnid + 1 /\ deferred' = deferred \cup N /\ root' = t.root
      /\ free' = t.free /\ num' = t.num /\ txns' = <<>>
      /\ mem' = mem /\ registered' = registered /\ reader' = reader
  <2>1. Len(<<>>) = 0 /\ 0 # 1
    OBVIOUS
  <2>2. Len(txns) = 1 => txns # <<>>
    BY <2>1, Zenon
  <2>. QED  BY <1>1, <1>2, <2>2 DEF CommitTop
<1>4. /\ t \in Txns /\ FreeHead = t.free /\ Base(1) = root
      /\ t.root \in [Dbis -> Links] /\ t.num \in 0 .. MaxPages /\ t.free \in Links
      /\ t.old \subseteq PageNos /\ t.num \in Nat /\ num \in Nat
      /\ Used(t.root) \subseteq PageNos /\ DeferredPages \subseteq PageNos
      /\ txnid \in Nat /\ MaxTxnid \in Nat
  BY <1>1, <1>3, TopTyped, TxnTyped, TxnsAssumption, PagesAssumption
     DEF IInv, TypeOK, Base, Used, Links, DeferredPages
<1>5. /\ Apart(t.root) /\ Leaves(t.root)
      /\ Used(t.root) \subseteq Used(root) \cup t.new
      /\ Used(root) \subseteq Used(t.root) \cup t.old
      /\ t.old \cap (t.new \cup Used(t.root)) = {}
      /\ Held(t) \cap DeferredPages = {} /\ t.new \cap Used(root) = {}
      /\ num <= t.num /\ \A p \in Held(t) : p < t.num
      /\ \A p \in Held(t) : Taken(p)
  BY <1>1, <1>3, <1>4, Innermost
<1>6. /\ \A e \in N : e.at = txnid /\ e.page \in t.old /\ e \in Entries
      /\ \A p \in t.old : \E e \in N : e.page = p /\ e.at = txnid
      /\ \A e, f \in N : e.page = f.page => e = f
  <2>1. txnid \in 0 .. MaxTxnid
    BY <1>3, <1>4
  <2>2. \A e \in N : e.at = txnid /\ e.page \in t.old /\ e \in Entries
    BY <1>2, <1>4, <2>1 DEF Entries
  <2>3. ASSUME NEW p \in t.old PROVE \E e \in N : e.page = p /\ e.at = txnid
    <3>1. [at |-> txnid, page |-> p] \in N
      BY <1>2
    <3>. QED  BY <3>1
  <2>4. \A e, f \in N : e.page = f.page => e = f
    BY <1>2
  <2>. QED  BY <2>2, <2>3, <2>4
<1>7. DeferredPages' = DeferredPages \cup t.old
  <2>1. DeferredPages' = {e.page : e \in deferred \cup N}
    BY <1>3 DEF DeferredPages
  <2>. QED  BY <1>6, <2>1 DEF DeferredPages
<1>8. TypeOK'
  <2>1. txnid' \in 0 .. MaxTxnid
    BY <1>3, <1>4
  <2>2. deferred' \subseteq [at : 0 .. MaxTxnid, page : PageNos]
    BY <1>3, <1>6 DEF IInv, TypeOK, Entries
  <2>3. txns' \in Seq(Txns) /\ Len(txns') <= MaxNesting
    BY <1>3, TxnsAssumption
  <2>. QED  BY <1>3, <1>4, <2>1, <2>2, <2>3 DEF IInv, TypeOK
<1>9. FreeOK'
  <2>1. FreeHead' = t.free
    BY <1>3 DEF FreeHead
  <2>2. ASSUME NEW q, Taken(q)' PROVE Taken(q)
    <3>1. CASE q \in Used(root')
      BY <1>3, <1>5, <3>1 DEF Held
    <3>2. CASE \E e \in deferred' : e.page = q
      <4>1. q \in DeferredPages \/ q \in t.old
        BY <1>3, <1>6, <3>2 DEF DeferredPages
      <4>. QED  BY <1>5, <4>1 DEF Taken, Held
    <3>3. DOMAIN txns' = {}
      BY <1>3
    <3>. QED  BY <2>2, <3>1, <3>2, <3>3, TakenNext
  <2>3. PICK b : Chain(mem, t.free, b) /\ \A p \in Listed(t.free, b) : ~Taken(p)
    BY <1>4 DEF IInv, FreeOK
  <2>4. Chain(mem', FreeHead', b) /\ \A p \in Listed(FreeHead', b) : ~Taken(p)'
    BY <1>3, <2>1, <2>2, <2>3
  <2>. QED  BY <2>4 DEF FreeOK, Chain, Listed
<1>10. CommittedOK'
  <2>1. Apart(root)' /\ Leaves(root)' /\ Used(root)' = Used(t.root)
    BY <1>3, <1>5 DEF Apart, Leaves, Used
  <2>2. \A p \in Used(t.root) \cup t.old : p < t.num
    BY <1>5 DEF Held
  <2>3. ASSUME NEW p \in DeferredPages PROVE p < t.num
    <3>1. p \in Nat /\ p < num
      BY <1>4, PagesAssumption DEF IInv, CommittedOK, PageNos
    <3>. QED  BY <1>4, <1>5, <3>1
  <2>4. Used(t.root) \cap DeferredPages' = {}
    BY <1>5, <1>7 DEF Held
  <2>5. \A e, f \in deferred' : e.page = f.page => e = f
    <3>1. \A e, f \in deferred : e.page = f.page => e = f
      BY DEF IInv, CommittedOK
    <3>2. \A e \in deferred, f \in N : e.page # f.page
      BY <1>5, <1>6 DEF Held, DeferredPages
    <3>. QED  BY <1>3, <1>6, <3>1, <3>2
  <2>. QED  BY <1>3, <1>7, <2>1, <2>2, <2>3, <2>4, <2>5 DEF CommittedOK
<1>11. TxnsOK'
  <2>1. DOMAIN txns' = {}
    BY <1>3
  <2>. QED  BY <2>1 DEF TxnsOK
<1>12. ASSUME NEW r \in Readers PROVE ReaderOK(r)'
  <2>1. CASE reader[r].snap = Closed
    BY <1>3, <2>1 DEF IInv, ReadersOK, ReaderOK, NoReader
  <2>2. CASE reader[r].snap # Closed
    <3>1. /\ reader[r].snap <= txnid /\ Leaves(reader[r].root)
          /\ \A p \in Used(reader[r].root) :
               p \in Used(root) \/ \E e \in deferred : e.page = p /\ e.at >= reader[r].snap
      BY <2>2 DEF IInv, ReadersOK, ReaderOK
    <3>2. reader[r].snap \in Nat
      BY <2>2, TxnsAssumption DEF IInv, TypeOK
    <3>3. reader[r].snap <= txnid' /\ txnid >= reader[r].snap
      BY <1>3, <1>4, <3>1, <3>2
    <3>4. Leaves(reader[r].root)'
      BY <1>3, <3>1 DEF Leaves, Used
    <3>5. ASSUME NEW p \in Used(reader[r].root)
          PROVE  p \in Used(root') \/ \E e \in deferred' : e.page = p /\ e.at >= reader[r].snap
      <4>1. CASE p \in Used(root)
        <5>1. p \in Used(t.root) \/ p \in t.old
          BY <1>5, <4>1
        <5>. QED  BY <1>3, <1>6, <3>3, <5>1
      <4>2. CASE \E e \in deferred : e.page = p /\ e.at >= reader[r].snap
        BY <1>3, <4>2
      <4>. QED  BY <3>1, <4>1, <4>2
    <3>. QED  BY <1>3, <2>2, <3>3, <3>4, <3>5 DEF ReaderOK, Used
  <2>. QED  BY <2>1, <2>2
<1>13. ReadersOK'
  <2>1. \A n \in 0 .. MaxTxnid : registered'[n] = Cardinality(At(n))'
    BY <1>3 DEF IInv, ReadersOK, At
  <2>. QED  BY <1>12, <2>1 DEF ReadersOK
<1>. QED  BY <1>8, <1>9, <1>10, <1>11, <1>13 DEF IInv

\* The entries of the pages an abort of t gives back, and the memory it leaves.
Returned(t) == [at : {txnid}, page : t.new \ Retracted(t)]
Cut(t)      == [p \in PageNos |-> IF p \in Retracted(t) THEN Missing ELSE mem[p]]

\* What an abort does to the pages: those given back join the free list, those past
\* the saved end lose their memory, and nobody else's page changes.
LEMMA Aborted ==
  ASSUME IInv, txns # <<>>, NEW t, t = Top, NEW back, back = Returned(t),
         NEW h2, h2 = HeadAfter(t.free, back), NEW m, m = Cut(t),
         mem' = LinkedAfter(m, t.free, back)
  PROVE  /\ mem' \in [PageNos -> Memory] /\ h2 \in Links
         /\ \A q \in PageNos : ~Unseen(q) => mem'[q] = mem[q]
         /\ \E c : Chain(mem', h2, c) /\ \A q \in Listed(h2, c) : ~Taken(q) \/ q \in t.new
<1>1. /\ t \in Txns /\ FreeHead = t.free /\ t.free \in Links /\ t.new \subseteq PageNos
      /\ mem \in [PageNos -> Memory] /\ txnid \in 0 .. MaxTxnid
  BY TopTyped, TxnTyped DEF IInv, TypeOK
<1>2. PICK b : Chain(mem, t.free, b) /\ \A p \in Listed(t.free, b) : ~Taken(p)
  BY <1>1 DEF IInv, FreeOK
<1>3. Retracted(t) \subseteq t.new \cup Listed(t.free, b)
  BY <1>1, <1>2, WalkListed DEF Retracted
<1>4. m \in [PageNos -> Memory]
  BY <1>1 DEF Cut, Memory
<1>5. Chain(m, t.free, b)
  <2>1. Listed(t.free, b) \subseteq PageNos
    BY <1>1, <1>2 DEF Chain, Listed, Links
  <2>2. \A p \in Listed(t.free, b) : m[p] = mem[p] \/ m[p].kind = "missing"
    BY <2>1 DEF Cut, Missing
  <2>. QED  BY <1>2, <2>2, ChainKept
<1>6. /\ back \in SUBSET Entries
      /\ \A e \in back : e.page \in t.new \ Retracted(t)
      /\ \A e, f \in back : e.page = f.page => e = f
  <2>1. \A e \in back : e \in Entries /\ e.page \in t.new \ Retracted(t) /\ e.at = txnid
    BY <1>1 DEF Returned, Entries
  <2>2. \A e, f \in back : e.page = f.page => e = f
    BY DEF Returned
  <2>. QED  BY <2>1, <2>2
<1>7. /\ \A q \in t.new : Taken(q) /\ Unseen(q)
      /\ \A q : ~Taken(q) => Unseen(q)
  BY Innermost DEF Held
<1>8. PICK m2 : m2 = mem'
  OBVIOUS
<1>9. /\ h2 \in Links /\ m2 \in [PageNos -> Memory]
      /\ \A p \in PageNos : (\A e \in back : e.page # p) => m2[p] = m[p]
      /\ \E c : Chain(m2, h2, c) /\ \A p \in Listed(h2, c) :
                  p \in Listed(t.free, b) \/ \E e \in back : e.page = p
  <2>1. \A e \in back : e.page \notin Listed(t.free, b)
    BY <1>2, <1>6, <1>7
  <2>2. PICK f : f = t.free
    OBVIOUS
  <2>3. m2 = LinkedAfter(m, f, back) /\ h2 = HeadAfter(f, back)
    BY <1>8, <2>2
  <2>4. f \in Links /\ Chain(m, f, b) /\ \A e \in back : e.page \notin Listed(f, b)
    BY <1>1, <1>5, <2>1, <2>2
  <2>5. /\ h2 \in Links /\ m2 \in [PageNos -> Memory]
        /\ \A p \in PageNos : (\A e \in back : e.page # p) => m2[p] = m[p]
        /\ \E c : Chain(m2, h2, c) /\ \A p \in Listed(h2, c) :
                    p \in Listed(f, b) \/ \E e \in back : e.page = p
    BY <1>4, <1>6, <2>3, <2>4, Pushed
  <2>. QED  BY <2>2, <2>5
<1>10. ASSUME NEW q \in PageNos, ~Unseen(q) PROVE m2[q] = mem[q]
  <2>1. q \notin t.new /\ q \notin Listed(t.free, b)
    BY <1>2, <1>7, <1>10
  <2>2. q \notin Retracted(t) /\ \A e \in back : e.page # q
    BY <1>3, <1>6, <2>1
  <2>3. m[q] = mem[q]
    BY <2>2 DEF Cut
  <2>. QED  BY <1>9, <2>2, <2>3
<1>11. \E c : Chain(m2, h2, c) /\ \A q \in Listed(h2, c) : ~Taken(q) \/ q \in t.new
  <2>1. PICK c : Chain(m2, h2, c) /\ \A p \in Listed(h2, c) :
                   p \in Listed(t.free, b) \/ \E e \in back : e.page = p
    BY <1>9
  <2>2. \A q \in Listed(h2, c) : ~Taken(q) \/ q \in t.new
    BY <1>2, <1>6, <2>1
  <2>. QED  BY <2>1, <2>2
<1>. QED  BY <1>8, <1>9, <1>10, <1>11

LEMMA AbortKeeps ==
  ASSUME IInv, Abort
  PROVE  IInv'
<1>1. PICK n \in Nat : n = Len(txns)
  BY DEF IInv, TypeOK
<1>2. PICK t : t = Top
  OBVIOUS
<1>3. PICK back : back = Returned(t)
  OBVIOUS
<1>4. PICK h2 : h2 = HeadAfter(t.free, back)
  OBVIOUS
<1>5. PICK m : m = Cut(t)
  OBVIOUS
<1>6. /\ txns # <<>> /\ mem' = LinkedAfter(m, t.free, back)
      /\ txnid' = txnid /\ root' = root /\ deferred' = deferred
      /\ registered' = registered /\ reader' = reader
      /\ n = 1 => txns' = <<>> /\ free' = h2 /\ num' = t.savedNum
      /\ n # 1 => /\ txns' = [SubSeq(txns, 1, n - 1) EXCEPT
                                ![n - 1] = [@ EXCEPT !.root = t.savedRoot, !.free = h2,
                                                     !.num = t.savedNum]]
                  /\ free' = free /\ num' = num
  BY <1>1, <1>2, <1>3, <1>4, <1>5 DEF Abort, Cut, Returned
<1>7. /\ mem' \in [PageNos -> Memory] /\ h2 \in Links
      /\ \A q \in PageNos : ~Unseen(q) => mem'[q] = mem[q]
      /\ \E c : Chain(mem', h2, c) /\ \A q \in Listed(h2, c) : ~Taken(q) \/ q \in t.new
  BY <1>2, <1>3, <1>4, <1>5, <1>6, Aborted
<1>8. /\ t \in Txns /\ t.savedRoot = Base(n) /\ t.savedNum = BaseNum(n)
      /\ \A q \in t.new : Unseen(q)
      /\ \A q : ~Taken(q) => Unseen(q)
  BY <1>1, <1>2, <1>6, Innermost
<1>9. Used(root) \cup DeferredPages \subseteq PageNos
  BY DEF IInv, TypeOK, Used, DeferredPages, Links
<1>10. \A q \in Used(root) \cup DeferredPages : mem'[q] = mem[q]
  BY <1>7, <1>9 DEF Unseen
<1>11. ReadersOK'
  BY <1>6, <1>10, ReadersStay, TxnsAssumption DEF IInv, TypeOK
<1>12. num' = num
  BY <1>6, <1>8 DEF BaseNum
<1>13. CommittedOK'
  BY <1>6, <1>10, <1>12, CommittedStays
<1>14. /\ n >= 1 /\ DOMAIN txns = 1 .. n /\ t = txns[n] /\ txns \in Seq(Txns)
       /\ \A i \in DOMAIN txns : txns[i] \in Txns
  BY <1>1, <1>2, <1>6, TopTyped DEF IInv, TypeOK, Top
<1>15. CASE n = 1
  <2>1. txns' = <<>> /\ free' = h2
    BY <1>6, <1>15
  <2>2. TypeOK'
    <3>1. txns' \in Seq(Txns) /\ Len(txns') <= MaxNesting
      BY <2>1, TxnsAssumption
    <3>. QED  BY <1>6, <1>7, <1>12, <2>1, <3>1 DEF IInv, TypeOK
  <2>3. DOMAIN txns' = {}
    BY <2>1
  <2>4. TxnsOK'
    BY <2>3 DEF TxnsOK
  <2>5. FreeOK'
    <3>1. FreeHead' = h2
      BY <2>1 DEF FreeHead
    <3>2. ASSUME NEW q, Taken(q)' PROVE ~Unseen(q)
      <4>1. q \in Used(root') \/ \E e \in deferred' : e.page = q
        BY <2>3, <3>2, TakenNext
      <4>. QED  BY <1>6, <4>1 DEF Unseen, DeferredPages
    <3>3. PICK c : Chain(mem', h2, c) /\ \A q \in Listed(h2, c) : ~Taken(q) \/ q \in t.new
      BY <1>7
    <3>4. \A q \in Listed(h2, c) : ~Taken(q)'
      BY <1>8, <3>2, <3>3
    <3>5. \E e : Chain(mem', FreeHead', e) /\ \A q \in Listed(FreeHead', e) : ~Taken(q)'
      BY <3>1, <3>3, <3>4
    <3>. QED  BY <3>5 DEF FreeOK, Chain, Listed
  <2>. QED  BY <1>11, <1>13, <2>2, <2>4, <2>5 DEF IInv
<1>16. CASE n > 1
  <2>1. PICK par : par = txns[n - 1]
    OBVIOUS
  <2>2. PICK u : u = [par EXCEPT !.root = t.savedRoot, !.free = h2, !.num = t.savedNum]
    OBVIOUS
  <2>3. n - 1 \in DOMAIN txns /\ n - 1 \in Nat /\ n - 1 >= 1 /\ par \in Txns
    BY <1>14, <1>16, <2>1
  <2>4. txns' = [SubSeq(txns, 1, n - 1) EXCEPT ![n - 1] = u]
    <3>1. PICK s : s = SubSeq(txns, 1, n - 1)
      OBVIOUS
    <3>2. s[n - 1] = par /\ n # 1
      <4>1. \A i \in 1 .. n - 1 : s[i] = txns[i]
        BY <1>1, <1>14, <2>3, <3>1
      <4>. QED  BY <1>16, <2>1, <2>3, <4>1
    <3>3. txns' = [s EXCEPT ![n - 1] = [s[n - 1] EXCEPT
                              !.root = t.savedRoot, !.free = h2, !.num = t.savedNum]]
      BY <1>6, <3>1, <3>2
    <3>. QED  BY <2>2, <3>1, <3>2, <3>3
  <2>5. t.savedRoot = par.root /\ t.savedNum = par.num
    BY <1>8, <1>16, <2>1 DEF Base, BaseNum
  <2>6. /\ u.root = par.root /\ u.free = h2 /\ u.num = par.num /\ u.new = par.new
        /\ u.old = par.old /\ u.savedRoot = par.savedRoot /\ u.savedNum = par.savedNum
        /\ u = [root |-> u.root, free |-> u.free, num |-> u.num, new |-> u.new,
                old |-> u.old, savedRoot |-> u.savedRoot, savedNum |-> u.savedNum]
    BY <2>2, <2>3, <2>5 DEF Txns
  <2>7. u \in Txns /\ par.num \in Nat /\ Held(u) = Held(par)
    <3>1. u \in Txns
      BY <1>7, <2>3, <2>6, TxnTyped DEF Txns
    <3>2. par.num \in Nat
      BY <2>3, TxnTyped
    <3>3. Held(u) = Held(par)
      BY <2>6 DEF Held
    <3>. QED  BY <3>1, <3>2, <3>3
  <2>8. /\ Apart(par.root) /\ Leaves(par.root)
        /\ Used(par.root) \subseteq Used(Base(n - 1)) \cup par.new
        /\ Used(Base(n - 1)) \subseteq Used(par.root) \cup par.old
        /\ par.old \cap (par.new \cup Used(par.root)) = {}
        /\ \A p \in Held(par) : p < par.num
    BY <2>1, <2>3 DEF IInv, TxnsOK, TxnOK
  <2>9. Resumes(par, t, u)
    <3>1. par.num <= u.num /\ u.new \subseteq par.new \cup t.new /\ Held(u) \subseteq Held(par) \cup Held(t)
      BY <2>6, <2>7
    <3>. QED  BY <1>1, <2>6, <2>7, <2>8, <3>1 DEF Resumes
  <2>10. \A i \in 1 .. n - 1 : \A q \in Used(txns[i].root) : mem'[q] = mem[q]
    <3>1. ASSUME NEW i \in 1 .. n - 1, NEW q \in Used(txns[i].root) PROVE mem'[q] = mem[q]
      <4>1. txns[i] \in Txns /\ i \in 1 .. Len(txns) - 1
        BY <1>1, <1>14
      <4>2. q \in Held(txns[i]) /\ q \in PageNos
        BY <3>1, <4>1, TxnTyped DEF Held
      <4>. QED  BY <1>7, <4>1, <4>2 DEF Unseen
    <3>. QED  BY <3>1
  <2>11. TxnsOK' /\ \A q : Taken(q)' => Taken(q) /\ (Unseen(q) => q \in Held(u))
    <3>1. Leaves(u.root)'
      <4>1. \A q \in Used(par.root) : mem'[q] = mem[q]
        BY <2>1, <2>3, <2>10
      <4>. QED  BY <2>6, <2>8, <4>1 DEF Leaves, Used
    <3>2. \A i \in 1 .. n - 2 : \A q \in Used(txns[i].root) : mem'[q] = mem[q]
      <4>1. \A i \in 1 .. n - 2 : i \in 1 .. n - 1
        OBVIOUS
      <4>. QED  BY <2>10, <4>1
    <3>. QED  BY <1>1, <1>6, <1>12, <1>14, <1>16, <2>1, <2>4, <2>9, <3>1, <3>2, ResumedTxns
  <2>12. FreeHead' = h2 /\ txns' \in Seq(Txns) /\ Len(txns') <= MaxNesting
    BY <1>1, <1>16, <2>4, <2>6, <2>7, Popped DEF IInv
  <2>13. FreeOK'
    <3>1. PICK c : Chain(mem', h2, c) /\ \A q \in Listed(h2, c) : ~Taken(q) \/ q \in t.new
      BY <1>7
    <3>2. ASSUME NEW q \in Listed(h2, c) PROVE ~Taken(q)'
      <4>1. CASE ~Taken(q)
        BY <2>11, <4>1
      <4>2. CASE q \in t.new
        <5>1. Unseen(q)
          BY <1>8, <4>2
        <5>2. n - 1 \in 1 .. Len(txns) - 1
          BY <1>1, <2>3
        <5>3. q \notin Held(u)
          BY <2>1, <2>7, <5>1, <5>2 DEF Unseen
        <5>. QED  BY <2>11, <5>1, <5>3
      <4>. QED  BY <3>1, <4>1, <4>2
    <3>3. \E e : Chain(mem', FreeHead', e) /\ \A q \in Listed(FreeHead', e) : ~Taken(q)'
      BY <2>12, <3>1, <3>2
    <3>. QED  BY <3>3 DEF FreeOK, Chain, Listed
  <2>14. TypeOK'
    BY <1>6, <1>7, <1>12, <1>16, <2>12 DEF IInv, TypeOK
  <2>. QED  BY <1>11, <1>13, <2>11, <2>13, <2>14 DEF IInv
<1>. QED  BY <1>14, <1>15, <1>16

---------------------------------------------------------------------------
(* Read-only transactions                                                  *)

\* Readers that come and go do not disturb the writers.
LEMMA WritersStay ==
  ASSUME IInv, mem' = mem, root' = root, free' = free, num' = num, deferred' = deferred,
         txns' = txns
  PROVE  FreeOK' /\ TxnsOK'
<1>1. DOMAIN txns = 1 .. Len(txns) /\ Len(txns) \in Nat /\ DOMAIN txns' = DOMAIN txns
  BY DEF IInv, TypeOK
<1>2. FreeOK'
  <2>1. FreeHead' = FreeHead
    BY DEF FreeHead, Top
  <2>2. ASSUME NEW q, Taken(q)' PROVE Taken(q)
    <3>1. \/ q \in Used(root') \/ \E e \in deferred' : e.page = q
          \/ \E i \in DOMAIN txns' : q \in Held(txns'[i])
      BY <2>2, TakenNext
    <3>. QED  BY <3>1 DEF Taken, DeferredPages
  <2>3. PICK b : Chain(mem, FreeHead, b) /\ \A p \in Listed(FreeHead, b) : ~Taken(p)
    BY DEF IInv, FreeOK
  <2>4. Chain(mem', FreeHead', b) /\ \A p \in Listed(FreeHead', b) : ~Taken(p)'
    BY <2>1, <2>2, <2>3
  <2>. QED  BY <2>4 DEF FreeOK, Chain, Listed
<1>3. TxnsOK'
  <2>1. PICK k \in Nat : k = Len(txns)
    BY <1>1
  <2>2. \A j \in 1 .. k : TxnOK(j)' /\ \A i \in 1 .. j - 1 : PairOK(i, j)'
    BY <2>1, OuterStay
  <2>. QED  BY <1>1, <2>1, <2>2 DEF TxnsOK
<1>. QED  BY <1>2, <1>3

LEMMA BeginReadKeeps ==
  ASSUME IInv, NEW r \in Readers, BeginRead(r)
  PROVE  IInv'
<1>1. PICK x : x = [reader[r] EXCEPT !.snap = txnid, !.root = root]
  OBVIOUS
<1>2. /\ reader \in [Readers -> [snap : 0 .. MaxTxnid \cup {Closed}, root : [Dbis -> Links]]]
      /\ txnid \in 0 .. MaxTxnid /\ txnid \in Nat /\ root \in [Dbis -> Links]
      /\ registered \in [0 .. MaxTxnid -> 0 .. Cardinality(Readers)]
  BY TxnsAssumption DEF IInv, TypeOK
<1>3. /\ reader[r].snap = Closed
      /\ registered' = [registered EXCEPT ![txnid] = registered[txnid] + 1]
      /\ mem' = mem /\ txnid' = txnid /\ root' = root /\ free' = free /\ num' = num
      /\ deferred' = deferred /\ txns' = txns
  BY DEF BeginRead, shared
<1>4. x.snap = txnid /\ x.root = root /\ x = [snap |-> txnid, root |-> root]
  BY <1>1, <1>2
<1>5. reader' = [reader EXCEPT ![r] = x]
  BY <1>1 DEF BeginRead
<1>6. reader'[r] = x /\ \A s \in Readers : s # r => reader'[s] = reader[s]
  BY <1>2, <1>5
<1>7. ASSUME NEW n \in 0 .. MaxTxnid
      PROVE  At(n)' = IF n = txnid THEN At(n) \cup {r} ELSE At(n)
  <2>1. \A s \in Readers : reader'[s].snap = IF s = r THEN txnid ELSE reader[s].snap
    BY <1>4, <1>6
  <2>2. n # Closed
    BY ReadersAssumption, TxnsAssumption
  <2>. QED  BY <1>3, <2>1, <2>2 DEF At
<1>8. ASSUME NEW n \in 0 .. MaxTxnid
      PROVE  registered'[n] = Cardinality(At(n))' /\ registered'[n] \in 0 .. Cardinality(Readers)
  <2>1. PICK A : A = At(n)
    OBVIOUS
  <2>2. IsFiniteSet(A) /\ registered[n] = Cardinality(A) /\ A \subseteq Readers
    <3>1. A \subseteq Readers
      BY <2>1 DEF At
    <3>. QED  BY <2>1, <3>1, ReadersAssumption, FS_Subset DEF IInv, ReadersOK
  <2>3. CASE n = txnid
    <3>1. r \notin A
      BY <1>3, <2>1, ReadersAssumption, TxnsAssumption DEF At
    <3>2. PICK B : B = A \cup {r}
      OBVIOUS
    <3>3. Cardinality(B) = Cardinality(A) + 1 /\ IsFiniteSet(B)
      BY <2>2, <3>1, <3>2, FS_AddElement
    <3>4. At(n)' = B
      BY <1>7, <2>1, <2>3, <3>2
    <3>5. registered'[n] = registered[n] + 1
      BY <1>2, <1>3, <2>3
    <3>6. registered'[n] = Cardinality(B)
      BY <2>2, <3>3, <3>5
    <3>7. Cardinality(B) \in Nat /\ Cardinality(Readers) \in Nat
          /\ Cardinality(B) <= Cardinality(Readers)
      <4>1. B \subseteq Readers
        BY <2>2, <3>2
      <4>. QED  BY <3>3, <4>1, ReadersAssumption, FS_Subset, FS_CardinalityType
    <3>8. registered'[n] \in 0 .. Cardinality(Readers)
      BY <3>6, <3>7
    <3>. QED  BY <3>4, <3>6, <3>8
  <2>4. CASE n # txnid
    <3>1. At(n)' = A
      BY <1>7, <2>1, <2>4
    <3>2. registered'[n] = registered[n]
      BY <1>2, <1>3, <2>4
    <3>. QED  BY <1>2, <2>2, <3>1, <3>2
  <2>. QED  BY <2>3, <2>4
<1>9. TypeOK'
  <2>1. reader' \in [Readers -> [snap : 0 .. MaxTxnid \cup {Closed}, root : [Dbis -> Links]]]
    BY <1>2, <1>4, <1>5
  <2>2. DOMAIN registered' = 0 .. MaxTxnid
    BY <1>2, <1>3
  <2>3. registered' \in [0 .. MaxTxnid -> 0 .. Cardinality(Readers)]
    <3>1. registered' = [n \in 0 .. MaxTxnid |-> registered'[n]]
      BY <1>2, <1>3, <2>2
    <3>. QED  BY <1>8, <3>1
  <2>. QED  BY <1>3, <2>1, <2>3 DEF IInv, TypeOK
<1>10. ASSUME NEW s \in Readers PROVE ReaderOK(s)'
  <2>1. CASE s # r
    <3>1. reader'[s] = reader[s] /\ ReaderOK(s)
      BY <1>6, <2>1 DEF IInv, ReadersOK
    <3>. QED  BY <1>3, <3>1 DEF ReaderOK, Leaves, Used, NoReader
  <2>2. CASE s = r
    <3>1. reader'[s].snap = txnid /\ reader'[s].root = root
      BY <1>4, <1>6, <2>2
    <3>2. txnid # Closed /\ txnid <= txnid
      BY <1>2, ReadersAssumption
    <3>3. Leaves(root)' /\ Used(root)' = Used(root)
      BY <1>3 DEF IInv, CommittedOK, Leaves, Used
    <3>. QED  BY <1>3, <3>1, <3>2, <3>3 DEF ReaderOK, Leaves, Used
  <2>. QED  BY <2>1, <2>2
<1>11. ReadersOK'
  BY <1>8, <1>10 DEF ReadersOK
<1>12. CommittedOK'
  BY <1>3, CommittedStays
<1>13. FreeOK' /\ TxnsOK'
  BY <1>3, WritersStay
<1>. QED  BY <1>9, <1>11, <1>12, <1>13 DEF IInv

LEMMA EndReadKeeps ==
  ASSUME IInv, NEW r \in Readers, EndRead(r)
  PROVE  IInv'
<1>1. PICK k : k = reader[r].snap
  OBVIOUS
<1>2. /\ reader \in [Readers -> [snap : 0 .. MaxTxnid \cup {Closed}, root : [Dbis -> Links]]]
      /\ registered \in [0 .. MaxTxnid -> 0 .. Cardinality(Readers)]
  BY DEF IInv, TypeOK
<1>3. /\ k # Closed /\ reader' = [reader EXCEPT ![r] = NoReader]
      /\ registered' = [registered EXCEPT ![k] = IF registered[k] > 0 THEN registered[k] - 1
                                                 ELSE registered[k]]
      /\ mem' = mem /\ txnid' = txnid /\ root' = root /\ free' = free /\ num' = num
      /\ deferred' = deferred /\ txns' = txns
  BY <1>1 DEF EndRead, RemoveReader, shared
<1>4. k \in 0 .. MaxTxnid
  BY <1>1, <1>2, <1>3
<1>5. /\ reader'[r] = NoReader /\ NoReader.snap = Closed
      /\ \A s \in Readers : s # r => reader'[s] = reader[s]
  BY <1>2, <1>3 DEF NoReader
<1>6. ASSUME NEW n \in 0 .. MaxTxnid
      PROVE  At(n)' = IF n = k THEN At(n) \ {r} ELSE At(n)
  <2>1. \A s \in Readers : reader'[s].snap = IF s = r THEN Closed ELSE reader[s].snap
    BY <1>5
  <2>2. n # Closed
    BY ReadersAssumption, TxnsAssumption
  <2>. QED  BY <1>1, <2>1, <2>2 DEF At
<1>7. ASSUME NEW n \in 0 .. MaxTxnid
      PROVE  registered'[n] = Cardinality(At(n))' /\ registered'[n] \in 0 .. Cardinality(Readers)
  <2>1. PICK A : A = At(n)
    OBVIOUS
  <2>2. IsFiniteSet(A) /\ registered[n] = Cardinality(A)
    <3>1. A \subseteq Readers
      BY <2>1 DEF At
    <3>. QED  BY <2>1, <3>1, ReadersAssumption, FS_Subset DEF IInv, ReadersOK
  <2>3. CASE n = k
    <3>1. r \in A
      BY <1>1, <2>1, <2>3 DEF At
    <3>2. PICK B : B = A \ {r}
      OBVIOUS
    <3>3. Cardinality(B) = Cardinality(A) - 1 /\ IsFiniteSet(B)
      BY <2>2, <3>1, <3>2, FS_RemoveElement
    <3>4. At(n)' = B
      BY <1>6, <2>1, <2>3, <3>2
    <3>5. Cardinality(B) \in Nat /\ Cardinality(A) \in Nat /\ Cardinality(Readers) \in Nat
      BY <2>2, <3>3, ReadersAssumption, FS_CardinalityType
    <3>6. registered[n] > 0 /\ registered[n] \in 0 .. Cardinality(Readers)
      BY <1>2, <2>2, <3>3, <3>5
    <3>7. registered'[n] = registered[n] - 1
      BY <1>2, <1>3, <2>3, <3>6
    <3>8. registered'[n] = Cardinality(B)
      BY <2>2, <3>3, <3>7
    <3>9. registered'[n] \in 0 .. Cardinality(Readers)
      BY <3>5, <3>6, <3>7
    <3>. QED  BY <3>4, <3>8, <3>9
  <2>4. CASE n # k
    <3>1. At(n)' = A
      BY <1>6, <2>1, <2>4
    <3>2. registered'[n] = registered[n]
      BY <1>2, <1>3, <2>4
    <3>. QED  BY <1>2, <2>2, <3>1, <3>2
  <2>. QED  BY <2>3, <2>4
<1>8. TypeOK'
  <2>1. NoReader \in [snap : 0 .. MaxTxnid \cup {Closed}, root : [Dbis -> Links]]
    BY DEF NoReader, Links
  <2>2. reader' \in [Readers -> [snap : 0 .. MaxTxnid \cup {Closed}, root : [Dbis -> Links]]]
    BY <1>2, <1>3, <2>1
  <2>3. DOMAIN registered' = 0 .. MaxTxnid
    BY <1>2, <1>3
  <2>4. registered' \in [0 .. MaxTxnid -> 0 .. Cardinality(Readers)]
    <3>1. registered' = [n \in 0 .. MaxTxnid |-> registered'[n]]
      BY <1>2, <1>3, <2>3
    <3>. QED  BY <1>7, <3>1
  <2>. QED  BY <1>3, <2>2, <2>4 DEF IInv, TypeOK
<1>9. ASSUME NEW s \in Readers PROVE ReaderOK(s)'
  <2>1. CASE s # r
    <3>1. reader'[s] = reader[s] /\ ReaderOK(s)
      BY <1>5, <2>1 DEF IInv, ReadersOK
    <3>. QED  BY <1>3, <3>1 DEF ReaderOK, Leaves, Used, NoReader
  <2>2. CASE s = r
    BY <1>5, <2>2 DEF ReaderOK, NoReader
  <2>. QED  BY <2>1, <2>2
<1>10. ReadersOK'
  BY <1>7, <1>9 DEF ReadersOK
<1>11. CommittedOK'
  BY <1>3, CommittedStays
<1>12. FreeOK' /\ TxnsOK'
  BY <1>3, WritersStay
<1>. QED  BY <1>8, <1>10, <1>11, <1>12 DEF IInv

---------------------------------------------------------------------------
(* The invariant holds                                                     *)

LEMMA InitIInv ==
  ASSUME Init
  PROVE  IInv
<1>1. /\ mem = [p \in PageNos |-> Missing] /\ txnid = 0 /\ root = [d \in Dbis |-> NoPage]
      /\ free = NoPage /\ num = 0 /\ deferred = {} /\ txns = <<>>
      /\ registered = [n \in 0 .. MaxTxnid |-> 0] /\ reader = [r \in Readers |-> NoReader]
  BY DEF Init
<1>2. TypeOK
  <2>1. mem \in [PageNos -> Memory] /\ root \in [Dbis -> Links] /\ free \in Links
    BY <1>1 DEF Memory, Links
  <2>2. txnid \in 0 .. MaxTxnid /\ num \in 0 .. MaxPages
    BY <1>1, TxnsAssumption, PagesAssumption
  <2>3. Cardinality(Readers) \in Nat
    BY ReadersAssumption, FS_CardinalityType
  <2>4. registered \in [0 .. MaxTxnid -> 0 .. Cardinality(Readers)]
    BY <1>1, <2>3
  <2>5. reader \in [Readers -> [snap : 0 .. MaxTxnid \cup {Closed}, root : [Dbis -> Links]]]
    BY <1>1 DEF NoReader, Links
  <2>6. txns \in Seq(Txns) /\ Len(txns) <= MaxNesting
    BY <1>1, TxnsAssumption
  <2>. QED  BY <1>1, <2>1, <2>2, <2>4, <2>5, <2>6 DEF TypeOK
<1>3. FreeOK
  <2>1. FreeHead = NoPage
    BY <1>1 DEF FreeHead
  <2>. QED  BY <2>1, EmptyChain DEF FreeOK
<1>4. Used(root) = {} /\ DeferredPages = {}
  BY <1>1 DEF Used, DeferredPages
<1>5. CommittedOK
  BY <1>1, <1>4 DEF CommittedOK, Apart, Leaves
<1>6. TxnsOK
  <2>1. DOMAIN txns = {}
    BY <1>1
  <2>. QED  BY <2>1 DEF TxnsOK
<1>7. ReadersOK
  <2>1. ASSUME NEW n \in 0 .. MaxTxnid PROVE registered[n] = Cardinality(At(n))
    <3>1. At(n) = {}
      <4>1. \A r \in Readers : reader[r].snap = Closed
        BY <1>1 DEF NoReader
      <4>2. n # Closed
        BY ReadersAssumption, TxnsAssumption
      <4>. QED  BY <4>1, <4>2 DEF At
    <3>. QED  BY <1>1, <3>1, FS_EmptySet
  <2>2. \A r \in Readers : ReaderOK(r)
    BY <1>1 DEF ReaderOK, NoReader
  <2>. QED  BY <2>1, <2>2 DEF ReadersOK
<1>. QED  BY <1>2, <1>3, <1>5, <1>6, <1>7 DEF IInv

LEMMA NextKeeps ==
  ASSUME IInv, [Next]_vars
  PROVE  IInv'
<1>1. ASSUME NEW d \in Dbis, Del(d) PROVE IInv'
  BY <1>1, DelKeeps
<1>2. ASSUME NEW d \in Dbis, NEW v \in Values, Put(d, v) PROVE IInv'
  BY <1>2, PutKeeps
<1>3. ASSUME NEW r \in Readers, BeginRead(r) \/ EndRead(r) PROVE IInv'
  BY <1>3, BeginReadKeeps, EndReadKeeps
<1>4. CASE UNCHANGED vars
  <2>1. /\ mem' = mem /\ txnid' = txnid /\ root' = root /\ free' = free /\ num' = num
        /\ deferred' = deferred /\ registered' = registered /\ reader' = reader
        /\ txns' = txns
    BY <1>4 DEF vars, shared
  <2>2. FreeOK' /\ TxnsOK'
    BY <2>1, WritersStay
  <2>3. CommittedOK' /\ ReadersOK'
    BY <2>1, CommittedStays, ReadersStay, TxnsAssumption DEF IInv, TypeOK
  <2>4. TypeOK'
    BY <2>1 DEF IInv, TypeOK
  <2>. QED  BY <2>2, <2>3, <2>4 DEF IInv
<1>. QED  BY <1>1, <1>2, <1>3, <1>4, BeginWriteKeeps, BeginChildKeeps, CommitChildKeeps,
             CommitTopKeeps, AbortKeeps DEF Next, Writer, ReadOnly

\* Every reachable state satisfies the inductive invariant.
THEOREM InvariantHolds == Spec => []IInv
<1>1. Init => IInv
  BY InitIInv
<1>2. IInv /\ [Next]_vars => IInv'
  BY NextKeeps
<1>. QED  BY <1>1, <1>2, PTL DEF Spec

\* The state of a database keeps its types, whatever transactions and readers do.
THEOREM TypeCorrect == Spec => []TypeOK
<1>1. IInv => TypeOK
  BY DEF IInv
<1>. QED  BY <1>1, InvariantHolds, PTL

---------------------------------------------------------------------------
(* The free list, and pages freed                                          *)

LEMMA FreeListIs ==
  ASSUME IInv
  PROVE  FreeListSound
<1>1. PICK b : Chain(mem, FreeHead, b) /\ \A p \in Listed(FreeHead, b) : ~Taken(p)
  BY DEF IInv, FreeOK
<1>2. mem \in [PageNos -> Memory] /\ FreeHead \in Links
  <2>1. CASE txns = <<>>
    BY <2>1 DEF IInv, TypeOK, FreeHead
  <2>2. CASE txns # <<>>
    BY <2>2, TopTyped, TxnTyped DEF IInv, TypeOK
  <2>. QED  BY <2>1, <2>2
<1>3. FreePages = Walk(mem, FreeHead)
  BY DEF FreePages, FreeHead
<1>4. \A p \in FreePages : ~Taken(p)
  BY <1>1, <1>2, <1>3, WalkListed
<1>5. ASSUME NEW r \in Readers, NEW p \in Used(reader[r].root) PROVE Taken(p)
  <2>1. CASE reader[r].snap = Closed
    BY <1>5, <2>1 DEF IInv, ReadersOK, ReaderOK, NoReader, Used
  <2>2. CASE reader[r].snap # Closed
    <3>1. p \in Used(root) \/ \E e \in deferred : e.page = p
      BY <1>5, <2>2 DEF IInv, ReadersOK, ReaderOK
    <3>. QED  BY <3>1 DEF Taken, DeferredPages
  <2>. QED  BY <2>1, <2>2
<1>6. FreeIsUnreachable
  <2>1. ASSUME NEW i \in DOMAIN txns, NEW p \in Used(txns[i].root) \cup txns[i].old PROVE Taken(p)
    BY DEF Taken, Held
  <2>2. \A p \in Used(root) \cup DeferredPages : Taken(p)
    BY DEF Taken
  <2>3. PICK A : A = UNION {Used(txns[i].root) \cup txns[i].old : i \in DOMAIN txns}
    OBVIOUS
  <2>4. PICK B : B = UNION {Used(reader[r].root) : r \in Readers}
    OBVIOUS
  <2>5. \A p \in A : Taken(p)
    BY <2>1, <2>3
  <2>6. \A p \in B : Taken(p)
    BY <1>5, <2>4
  <2>7. FreePages \cap (Used(root) \cup DeferredPages \cup A \cup B) = {}
    BY <1>4, <2>2, <2>5, <2>6
  <2>. QED  BY <2>3, <2>4, <2>7 DEF FreeIsUnreachable
<1>7. FreedOnce
  <2>1. \A e, f \in deferred : e.page = f.page => e = f
    BY DEF IInv, CommittedOK
  <2>2. ASSUME NEW i \in DOMAIN txns
        PROVE  txns[i].old \cap DeferredPages = {} /\ txns[i].old \cap txns[i].new = {}
    BY DEF IInv, TxnsOK, TxnOK, Held
  <2>. QED  BY <2>1, <2>2 DEF FreedOnce
<1>. QED  BY <1>6, <1>7 DEF FreeListSound

\* No page is handed out while the committed tree, a writer, a reader or the
\* deferred list can still reach it, and none is freed twice (raw_alloc, 873-945;
\* db_process_deferred, 1217-1239; txn_abort_free_untracked_new_pages, 4192-4292,
\* of sapling.c), for any interleaving of writers, nested commits, aborts and readers.
THEOREM FreeListSafe == Spec => []FreeListSound
<1>1. IInv => FreeListSound
  BY FreeListIs
<1>. QED  BY <1>1, InvariantHolds, PTL

\* What a beginning writer does not reclaim, an open reader holds back.
LEMMA BeginLeavesPinned ==
  ASSUME IInv, BeginWrite, NEW e \in deferred'
  PROVE  \E r \in Readers : reader[r].snap # Closed /\ reader[r].snap <= e.at
<1>1. e \in deferred /\ ~Reclaimable(e)
  BY DEF BeginWrite
<1>2. PICK n \in 0 .. MaxTxnid : registered[n] > 0 /\ ~(e.at < n)
  BY <1>1 DEF Reclaimable
<1>3. PICK r \in Readers : reader[r].snap = n
  BY <1>2, Registered DEF IInv
<1>4. n # Closed /\ n <= e.at
  <2>1. e.at \in Nat /\ n \in Nat
    BY <1>1, TxnsAssumption DEF IInv, TypeOK
  <2>. QED  BY <1>2, <2>1, ReadersAssumption
<1>. QED  BY <1>3, <1>4

\* A write transaction that begins leaves no page deferred but those an open reader
\* may still see (db_process_deferred, sapling.c:1217-1239): reclaiming never stops
\* short, and a reader that ended pins nothing.
THEOREM ReclaimComplete == Spec => NothingPinned
<1>1. ASSUME IInv, [Next]_vars, txns = <<>>, txns' # <<>>, NEW e \in deferred'
      PROVE  \E r \in Readers : reader[r].snap # Closed /\ reader[r].snap <= e.at
  <2>1. Len(txns) = 0 /\ txns' # txns
    BY <1>1
  <2>2. BeginWrite
    <3>1. ~BeginChild /\ ~CommitChild /\ ~CommitTop
      BY <2>1 DEF BeginChild, CommitChild, CommitTop
    <3>2. ~Abort /\ \A d \in Dbis : ~Del(d) /\ \A v \in Values : ~Put(d, v)
      BY <1>1, Zenon DEF Abort, Del, Put
    <3>3. ~UNCHANGED vars /\ \A r \in Readers : ~ReadOnly(r)
      BY <2>1 DEF vars, shared, ReadOnly, BeginRead, EndRead
    <3>. QED  BY <1>1, <3>1, <3>2, <3>3 DEF Next, Writer
  <2>. QED  BY <1>1, <2>2, BeginLeavesPinned
<1>2. IInv /\ [Next]_vars =>
        (txns = <<>> /\ txns' # <<>> =>
           \A e \in deferred' :
             \E r \in Readers : reader[r].snap # Closed /\ reader[r].snap <= e.at)
  BY <1>1
<1>. QED  BY <1>2, InvariantHolds, PTL DEF Spec, NothingPinned

---------------------------------------------------------------------------
(* What transactions see                                                   *)

\* What a transaction whose root pages are rt reads from the memory m.
ReadFrom(m, rt) == [d \in Dbis |-> IF rt[d] = NoPage THEN NoValue
                                   ELSE IF m[rt[d]].kind = "leaf" THEN m[rt[d]].val
                                   ELSE Garbage]
Views == [Dbis -> Values \cup {NoValue, Garbage}]

LEMMA ReadTyped ==
  ASSUME NEW m \in [PageNos -> Memory], NEW rt \in [Dbis -> Links]
  PROVE  ReadFrom(m, rt) \in Views
<1>1. ASSUME NEW d \in Dbis, rt[d] # NoPage, m[rt[d]].kind = "leaf"
      PROVE  m[rt[d]].val \in Values
  <2>1. m[rt[d]] \in Memory
    BY <1>1 DEF Links
  <2>. QED  BY <1>1, <2>1 DEF Memory, Missing, Leaf, Link
<1>. QED  BY <1>1 DEF ReadFrom, Views

LEMMA ReadKept ==
  ASSUME NEW m, NEW m2, NEW rt, \A p \in Used(rt) : m2[p] = m[p]
  PROVE  ReadFrom(m2, rt) = ReadFrom(m, rt)
<1>1. \A d \in Dbis : rt[d] = NoPage \/ m2[rt[d]] = m[rt[d]]
  BY DEF Used
<1>. QED  BY <1>1 DEF ReadFrom

\* The views of a sequence of transactions.
LEMMA ViewsOf ==
  ASSUME NEW m \in [PageNos -> Memory], NEW t \in Seq(Txns),
         NEW w, w = [i \in DOMAIN t |-> ReadFrom(m, t[i].root)]
  PROVE  /\ w \in Seq(Views) /\ Len(w) = Len(t) /\ DOMAIN w = 1 .. Len(t)
         /\ \A i \in 1 .. Len(t) : w[i] = ReadFrom(m, t[i].root)
         /\ w = <<>> <=> t = <<>>
<1>1. PICK n \in Nat : n = Len(t)
  OBVIOUS
<1>2. DOMAIN t = 1 .. n
  BY <1>1
<1>3. \A i \in 1 .. n : ReadFrom(m, t[i].root) \in Views
  BY <1>2, ReadTyped, TxnTyped
<1>4. w \in [1 .. n -> Views]
  BY <1>2, <1>3
<1>5. w \in Seq(Views) /\ Len(w) = n
  BY <1>4
<1>6. w = <<>> <=> n = 0
  BY <1>5
<1>7. t = <<>> <=> n = 0
  BY <1>1
<1>8. \A i \in 1 .. n : w[i] = ReadFrom(m, t[i].root)
  BY <1>2
<1>. QED  BY <1>1, <1>2, <1>4, <1>5, <1>6, <1>7, <1>8

\* The three parts of the abstract state.
LEMMA AbstractNow ==
  ASSUME TypeOK
  PROVE  /\ Committed = ReadFrom(mem, root) /\ Committed \in Views
         /\ Working \in Seq(Views) /\ Len(Working) = Len(txns)
         /\ \A i \in 1 .. Len(txns) : Working[i] = ReadFrom(mem, txns[i].root)
         /\ Working = <<>> <=> txns = <<>>
         /\ Seen = [r \in Readers |-> IF reader[r].snap = Closed THEN Closed
                                      ELSE ReadFrom(mem, reader[r].root)]
<1>1. mem \in [PageNos -> Memory] /\ txns \in Seq(Txns) /\ root \in [Dbis -> Links]
  BY DEF TypeOK
<1>2. Committed = ReadFrom(mem, root)
  BY DEF Committed, View, ReadFrom
<1>3. Working = [i \in DOMAIN txns |-> ReadFrom(mem, txns[i].root)]
  BY DEF Working, View, ReadFrom
<1>4. Seen = [r \in Readers |-> IF reader[r].snap = Closed THEN Closed
                                ELSE ReadFrom(mem, reader[r].root)]
  BY DEF Seen, View, ReadFrom
<1>. QED  BY <1>1, <1>2, <1>3, <1>4, ReadTyped, ViewsOf

LEMMA AbstractNext ==
  ASSUME TypeOK'
  PROVE  /\ Committed' = ReadFrom(mem', root') /\ Committed' \in Views
         /\ Working' \in Seq(Views) /\ Len(Working') = Len(txns')
         /\ \A i \in 1 .. Len(txns') : Working'[i] = ReadFrom(mem', txns'[i].root)
         /\ Working' = <<>> <=> txns' = <<>>
         /\ Seen' = [r \in Readers |-> IF reader'[r].snap = Closed THEN Closed
                                       ELSE ReadFrom(mem', reader'[r].root)]
<1>1. PICK m, t, rt : m = mem' /\ t = txns' /\ rt = root'
  OBVIOUS
<1>2. m \in [PageNos -> Memory] /\ t \in Seq(Txns) /\ rt \in [Dbis -> Links]
  BY <1>1 DEF TypeOK
<1>3. Committed' = ReadFrom(m, rt)
  BY <1>1 DEF Committed, View, ReadFrom
<1>4. Working' = [i \in DOMAIN t |-> ReadFrom(m, t[i].root)]
  BY <1>1 DEF Working, View, ReadFrom
<1>5. Seen' = [r \in Readers |-> IF reader'[r].snap = Closed THEN Closed
                                 ELSE ReadFrom(m, reader'[r].root)]
  BY <1>1 DEF Seen, View, ReadFrom
<1>6. PICK w : w = Working'
  OBVIOUS
<1>7. /\ w \in Seq(Views) /\ Len(w) = Len(t)
      /\ \A i \in 1 .. Len(t) : w[i] = ReadFrom(m, t[i].root)
      /\ w = <<>> <=> t = <<>>
  BY <1>2, <1>4, <1>6, ViewsOf
<1>8. Committed' \in Views
  BY <1>2, <1>3, ReadTyped
<1>. QED  BY <1>1, <1>3, <1>5, <1>6, <1>7, <1>8

\* A page that the committed tree, a reader's snapshot or an outer transaction shows.
Visible(p) ==
  \/ p \in Used(root)
  \/ \E r \in Readers : p \in Used(reader[r].root)
  \/ \E i \in 1 .. Len(txns) - 1 : p \in Used(txns[i].root)

LEMMA VisibleSeen ==
  ASSUME IInv, NEW p, Visible(p)
  PROVE  p \in PageNos /\ ~Unseen(p)
<1>1. CASE p \in Used(root)
  BY <1>1 DEF Unseen, Used, Links, IInv, TypeOK
<1>2. CASE \E r \in Readers : p \in Used(reader[r].root)
  <2>1. PICK r \in Readers : p \in Used(reader[r].root)
    BY <1>2
  <2>2. p \in PageNos
    BY <2>1 DEF IInv, TypeOK, Used, Links
  <2>3. reader[r].snap # Closed
    BY <2>1 DEF IInv, ReadersOK, ReaderOK, NoReader, Used
  <2>4. p \in Used(root) \/ \E e \in deferred : e.page = p
    BY <2>1, <2>3 DEF IInv, ReadersOK, ReaderOK
  <2>. QED  BY <2>2, <2>4 DEF Unseen, DeferredPages
<1>3. CASE \E i \in 1 .. Len(txns) - 1 : p \in Used(txns[i].root)
  <2>1. PICK i \in 1 .. Len(txns) - 1 : p \in Used(txns[i].root)
    BY <1>3
  <2>2. p \in Held(txns[i])
    BY <2>1 DEF Held
  <2>3. txns[i] \in Txns
    BY DEF IInv, TypeOK
  <2>. QED  BY <2>1, <2>2, <2>3, TxnTyped DEF Unseen
<1>. QED  BY <1>1, <1>2, <1>3 DEF Visible

\* Steps that write none of these leave what is seen through them.
LEMMA ViewsStay ==
  ASSUME IInv, TypeOK', \A p : Visible(p) => mem'[p] = mem[p]
  PROVE  /\ root' = root => Committed' = Committed
         /\ reader' = reader => Seen' = Seen
         /\ \A i \in 1 .. Len(txns) - 1 : ReadFrom(mem', txns[i].root) = Working[i]
         /\ ReadFrom(mem', root) = Committed
         /\ \A r \in Readers : ReadFrom(mem', reader[r].root) = ReadFrom(mem, reader[r].root)
<1>1. ReadFrom(mem', root) = ReadFrom(mem, root)
  <2>1. PICK rt, m2 : rt = root /\ m2 = mem'
    OBVIOUS
  <2>2. \A p \in Used(rt) : m2[p] = mem[p]
    BY <2>1 DEF Visible
  <2>. QED  BY <2>1, <2>2, ReadKept
<1>2. ASSUME NEW r \in Readers
      PROVE  ReadFrom(mem', reader[r].root) = ReadFrom(mem, reader[r].root)
  <2>1. PICK rt, m2 : rt = reader[r].root /\ m2 = mem'
    OBVIOUS
  <2>2. \A p \in Used(rt) : m2[p] = mem[p]
    BY <2>1 DEF Visible
  <2>. QED  BY <2>1, <2>2, ReadKept
<1>3. ASSUME NEW i \in 1 .. Len(txns) - 1
      PROVE  ReadFrom(mem', txns[i].root) = Working[i]
  <2>1. PICK rt, m2 : rt = txns[i].root /\ m2 = mem'
    OBVIOUS
  <2>2. \A p \in Used(rt) : m2[p] = mem[p]
    BY <2>1 DEF Visible
  <2>3. i \in 1 .. Len(txns)
    BY DEF IInv, TypeOK
  <2>. QED  BY <2>1, <2>2, <2>3, ReadKept, AbstractNow DEF IInv
<1>4. Committed = ReadFrom(mem, root) /\ Committed' = ReadFrom(mem', root')
  BY AbstractNow, AbstractNext DEF IInv
<1>5. ASSUME reader' = reader PROVE Seen' = Seen
  <2>1. Seen' = [r \in Readers |-> IF reader'[r].snap = Closed THEN Closed
                                   ELSE ReadFrom(mem', reader'[r].root)]
    BY AbstractNext
  <2>2. Seen = [r \in Readers |-> IF reader[r].snap = Closed THEN Closed
                                  ELSE ReadFrom(mem, reader[r].root)]
    BY AbstractNow DEF IInv
  <2>. QED  BY <1>2, <1>5, <2>1, <2>2
<1>. QED  BY <1>1, <1>2, <1>3, <1>4, <1>5

LEMMA BeginImplements ==
  ASSUME IInv, IInv', BeginWrite
  PROVE  Snapshots!Begin
<1>1. PICK ready : ready = {e \in deferred : Reclaimable(e)}
  OBVIOUS
<1>2. PICK h2 : h2 = HeadAfter(free, ready)
  OBVIOUS
<1>3. /\ txns = <<>> /\ mem' = LinkedAfter(mem, free, ready)
      /\ txns' = <<Fresh(root, h2, num)>> /\ root' = root /\ reader' = reader
  BY <1>1, <1>2 DEF BeginWrite
<1>4. /\ \A e \in ready : e.page \notin Used(root)
      /\ \A e \in ready, r \in Readers : e.page \notin Used(reader[r].root)
  BY <1>1, ReadyPages
<1>5. ASSUME NEW p, Visible(p) PROVE mem'[p] = mem[p]
  <2>1. p \in PageNos
    BY <1>5, VisibleSeen
  <2>2. Len(txns) = 0
    BY <1>3
  <2>3. p \in Used(root) \/ \E r \in Readers : p \in Used(reader[r].root)
    BY <1>5, <2>2 DEF Visible
  <2>4. {e \in ready : e.page = p} = {}
    BY <1>4, <2>3
  <2>. QED  BY <1>3, <2>1, <2>4 DEF LinkedAfter
<1>6. Committed' = Committed /\ Seen' = Seen /\ ReadFrom(mem', root) = Committed
  BY <1>3, <1>5, ViewsStay DEF IInv
<1>7. Working = <<>> /\ Committed \in Views
  BY <1>3, AbstractNow DEF IInv
<1>8. PICK w : w = Working'
  OBVIOUS
<1>9. w = <<Committed>>
  <2>1. Len(txns') = 1 /\ txns'[1].root = root
    BY <1>3 DEF Fresh
  <2>2. w \in Seq(Views) /\ Len(w) = 1 /\ w[1] = Committed
    BY <1>6, <1>8, <2>1, AbstractNext DEF IInv
  <2>3. <<Committed>> \in Seq(Views) /\ Len(<<Committed>>) = 1 /\ <<Committed>>[1] = Committed
    BY <1>7
  <2>4. PICK c : c = <<Committed>>
    OBVIOUS
  <2>5. w = c
    BY <2>2, <2>3, <2>4, SeqEqual
  <2>. QED  BY <2>4, <2>5
<1>. QED  BY <1>6, <1>7, <1>8, <1>9 DEF Snapshots!Begin

LEMMA NestImplements ==
  ASSUME IInv, IInv', BeginChild
  PROVE  Snapshots!Nest
<1>1. PICK n \in Nat : n = Len(txns)
  BY DEF IInv, TypeOK
<1>2. PICK u : u = Fresh(Top.root, Top.free, Top.num)
  OBVIOUS
<1>3. /\ n >= 1 /\ txns \in Seq(Txns) /\ txns' = Append(txns, u)
      /\ mem' = mem /\ root' = root /\ reader' = reader
  BY <1>1, <1>2, TxnsAssumption DEF BeginChild, shared, IInv, TypeOK
<1>4. /\ Len(txns') = n + 1 /\ txns'[n + 1] = u /\ \A i \in 1 .. n : txns'[i] = txns[i]
      /\ u.root = txns[n].root
  BY <1>1, <1>2, <1>3 DEF Fresh, Top
<1>5. Committed' = Committed /\ Seen' = Seen
  BY <1>3, ViewsStay DEF IInv
<1>6. PICK w, w2 : w = Working /\ w2 = Working'
  OBVIOUS
<1>7. /\ w \in Seq(Views) /\ Len(w) = n /\ w # <<>>
      /\ \A i \in 1 .. n : w[i] = ReadFrom(mem, txns[i].root)
  <2>1. txns # <<>>
    BY <1>1, <1>3
  <2>. QED  BY <1>1, <1>6, <2>1, AbstractNow DEF IInv
<1>8. /\ w2 \in Seq(Views) /\ Len(w2) = n + 1
      /\ \A i \in 1 .. n + 1 : w2[i] = ReadFrom(mem, txns'[i].root)
  BY <1>3, <1>4, <1>6, AbstractNext DEF IInv
<1>9. w2 = Append(w, w[n])
  <2>1. PICK a : a = Append(w, w[n])
    OBVIOUS
  <2>2. w[n] \in Views
    BY <1>3, <1>7
  <2>3. /\ a \in Seq(Views) /\ Len(a) = n + 1 /\ a[n + 1] = w[n]
        /\ \A i \in 1 .. n : a[i] = w[i]
    BY <1>3, <1>7, <2>1, <2>2
  <2>4. ASSUME NEW i \in 1 .. n + 1 PROVE w2[i] = a[i]
    <3>1. CASE i = n + 1
      <4>1. w2[i] = ReadFrom(mem, u.root) /\ w[n] = ReadFrom(mem, txns[n].root)
        BY <1>3, <1>4, <1>7, <1>8, <3>1
      <4>. QED  BY <1>4, <2>3, <3>1, <4>1
    <3>2. CASE i # n + 1
      <4>1. i \in 1 .. n
        BY <3>2
      <4>. QED  BY <1>4, <1>7, <1>8, <2>3, <4>1
    <3>. QED  BY <3>1, <3>2
  <2>5. w2 = a
    BY <1>8, <2>3, <2>4, SeqEqual
  <2>. QED  BY <2>1, <2>5
<1>. QED  BY <1>5, <1>6, <1>7, <1>9 DEF Snapshots!Nest

\* A write of the innermost transaction changes what that one sees, and nothing else.
LEMMA TopViewed ==
  ASSUME IInv, IInv', txns # <<>>, NEW u, txns' = [txns EXCEPT ![Len(txns)] = u],
         \A p : Visible(p) => mem'[p] = mem[p], root' = root, reader' = reader,
         NEW x, x = ReadFrom(mem', u.root), NEW w, w = Working
  PROVE  /\ Committed' = Committed /\ Seen' = Seen
         /\ w # <<>> /\ w \in Seq(Views) /\ Len(w) = Len(txns)
         /\ w[Len(w)] = ReadFrom(mem, Top.root)
         /\ Working' = [w EXCEPT ![Len(w)] = x]
<1>1. PICK n \in Nat : n = Len(txns) /\ n >= 1
  BY TopTyped DEF IInv
<1>2. /\ txns \in Seq(Txns) /\ DOMAIN txns = 1 .. n /\ n \in 1 .. n
      /\ txns' = [txns EXCEPT ![n] = u]
  BY <1>1 DEF IInv, TypeOK
<1>3. /\ Len(txns') = n /\ txns'[n] = u /\ \A i \in 1 .. n - 1 : txns'[i] = txns[i]
  BY <1>1, <1>2
<1>4. /\ Committed' = Committed /\ Seen' = Seen
      /\ \A i \in 1 .. n - 1 : ReadFrom(mem', txns[i].root) = w[i]
  BY <1>1, ViewsStay DEF IInv
<1>5. /\ w \in Seq(Views) /\ Len(w) = n /\ w # <<>>
      /\ w[n] = ReadFrom(mem, Top.root)
  BY <1>1, <1>2, AbstractNow DEF IInv, Top
<1>6. PICK w2 : w2 = Working'
  OBVIOUS
<1>7. /\ w2 \in Seq(Views) /\ Len(w2) = n
      /\ \A i \in 1 .. n : w2[i] = ReadFrom(mem', txns'[i].root)
  BY <1>3, <1>6, AbstractNext DEF IInv
<1>8. w2[n] = x
  BY <1>2, <1>3, <1>7
<1>9. PICK a : a = [w EXCEPT ![n] = x]
  OBVIOUS
<1>10. x \in Views
  BY <1>2, <1>7, <1>8
<1>11. a \in Seq(Views) /\ Len(a) = n /\ \A i \in 1 .. n : a[i] = IF i = n THEN x ELSE w[i]
  BY <1>2, <1>5, <1>9, <1>10, ExceptSeq
<1>12. ASSUME NEW i \in 1 .. n PROVE w2[i] = a[i]
  <2>1. CASE i = n
    BY <1>8, <1>11, <2>1
  <2>2. CASE i # n
    <3>1. i \in 1 .. n - 1 /\ a[i] = w[i]
      BY <1>11, <2>2
    <3>. QED  BY <1>3, <1>4, <1>7, <3>1
  <2>. QED  BY <2>1, <2>2
<1>13. w2 = a
  BY <1>7, <1>11, <1>12, SeqEqual
<1>. QED  BY <1>1, <1>4, <1>5, <1>6, <1>9, <1>13

\* If that is one database's content, it is a write of the abstract store.
LEMMA WriteSeen ==
  ASSUME IInv, IInv', txns # <<>>, NEW u, txns' = [txns EXCEPT ![Len(txns)] = u],
         \A p : Visible(p) => mem'[p] = mem[p], root' = root, reader' = reader,
         NEW d \in Dbis, NEW c,
         ReadFrom(mem', u.root) = [ReadFrom(mem, Top.root) EXCEPT ![d] = c]
  PROVE  Snapshots!Write(d, c)
<1>1. PICK x, w : x = ReadFrom(mem', u.root) /\ w = Working
  OBVIOUS
<1>2. /\ Committed' = Committed /\ Seen' = Seen
      /\ w # <<>> /\ w[Len(w)] = ReadFrom(mem, Top.root)
      /\ Working' = [w EXCEPT ![Len(w)] = x]
  BY <1>1, TopViewed
<1>3. Working' = [w EXCEPT ![Len(w)] = [w[Len(w)] EXCEPT ![d] = c]]
  BY <1>1, <1>2
<1>4. Working' = [w EXCEPT ![Len(w)][d] = c]
  BY <1>3
<1>. QED  BY <1>1, <1>2, <1>4 DEF Snapshots!Write

\* A write that got no page changes nothing that can be seen.
LEMMA StarvedSeen ==
  ASSUME IInv, IInv', txns # <<>>, NEW u, u = [Top EXCEPT !.free = NoPage],
         txns' = [txns EXCEPT ![Len(txns)] = u], mem' = mem, root' = root, reader' = reader
  PROVE  UNCHANGED Snapshots!vars
<1>1. PICK x, w : x = ReadFrom(mem', u.root) /\ w = Working
  OBVIOUS
<1>2. u.root = Top.root
  BY TopTyped DEF IInv, Txns
<1>3. x = ReadFrom(mem, Top.root)
  BY <1>1, <1>2
<1>4. /\ Committed' = Committed /\ Seen' = Seen
      /\ w \in Seq(Views) /\ w[Len(w)] = ReadFrom(mem, Top.root)
      /\ Working' = [w EXCEPT ![Len(w)] = x]
  BY <1>1, TopViewed
<1>5. [w EXCEPT ![Len(w)] = w[Len(w)]] = w
  BY <1>4
<1>. QED  BY <1>1, <1>3, <1>4, <1>5 DEF Snapshots!vars

\* What the transaction reads after it wrote c to the page it owns for d.
Wrote(u, d, p, m2, rt, c) ==
  \/ rt = u.root /\ m2[p].kind = "leaf" /\ m2[p].val = c
  \/ rt = [u.root EXCEPT ![d] = NoPage] /\ c = NoValue

LEMMA OwnedRead ==
  ASSUME IInv, txns # <<>>, NEW d \in Dbis, NEW t, t = Top, NEW u, NEW p, Owned(t, d, u, p),
         NEW m2, \A q \in PageNos : q # p => m2[q] = mem[q],
         NEW rt, NEW c, Wrote(u, d, p, m2, rt, c)
  PROVE  ReadFrom(m2, rt) = [ReadFrom(mem, t.root) EXCEPT ![d] = c]
<1>1. /\ p \in PageNos /\ u.root[d] = p /\ Apart(u.root)
      /\ \A e \in Dbis \ {d} : u.root[e] = t.root[e]
      /\ u \in Txns /\ u.root \in [Dbis -> Links]
  BY TxnTyped DEF Owned, Fits
<1>2. p # NoPage
  BY <1>1, PagesAssumption DEF PageNos
<1>3. ASSUME NEW e \in Dbis \ {d}
      PROVE  /\ rt[e] = t.root[e]
             /\ t.root[e] # NoPage => m2[t.root[e]] = mem[t.root[e]]
  <2>1. rt[e] = t.root[e]
    BY <1>1 DEF Wrote
  <2>2. t.root[e] # NoPage => t.root[e] \in PageNos /\ t.root[e] # p
    BY <1>1 DEF Apart, Links
  <2>. QED  BY <2>1, <2>2
<1>4. ReadFrom(m2, rt)[d] = c
  BY <1>1, <1>2 DEF ReadFrom, Wrote
<1>5. \A e \in Dbis \ {d} : ReadFrom(m2, rt)[e] = ReadFrom(mem, t.root)[e]
  BY <1>3 DEF ReadFrom
<1>6. PICK f, g : f = ReadFrom(m2, rt) /\ g = ReadFrom(mem, t.root)
  OBVIOUS
<1>7. f = [e \in Dbis |-> f[e]] /\ g = [e \in Dbis |-> g[e]]
  BY <1>6 DEF ReadFrom
<1>8. f = [g EXCEPT ![d] = c]
  BY <1>4, <1>5, <1>6, <1>7
<1>. QED  BY <1>6, <1>8

LEMMA OwnedUnshown ==
  ASSUME IInv, NEW p, Unseen(p), NEW m2, \A q \in PageNos : q # p => m2[q] = mem[q]
  PROVE  \A q : Visible(q) => m2[q] = mem[q]
BY VisibleSeen

LEMMA PutImplements ==
  ASSUME IInv, IInv', NEW d \in Dbis, NEW v \in Values, Put(d, v)
  PROVE  Snapshots!Write(d, v) \/ UNCHANGED Snapshots!vars
<1>1. PICK t, o : t = Top /\ o = Own(t, d)
  OBVIOUS
<1>2. PICK u, p, m2 : u = o.txn /\ p = o.page /\ m2 = mem'
  OBVIOUS
<1>3. /\ txns # <<>> /\ txns' = [txns EXCEPT ![Len(txns)] = u]
      /\ m2 = IF p = NoPage THEN mem ELSE [mem EXCEPT ![p] = Leaf(v)]
      /\ root' = root /\ reader' = reader
  BY <1>1, <1>2 DEF Put, shared
<1>4. mem \in [PageNos -> Memory]
  BY DEF IInv, TypeOK
<1>5. CASE p = NoPage
  <2>1. u = [t EXCEPT !.free = NoPage]
    <3>1. \/ u = t /\ p = t.root[d] /\ p \in t.new
          \/ u = [t EXCEPT !.free = NoPage] /\ p = NoPage
          \/ \E a : Given(t, a) /\ p = a.page
      BY <1>1, <1>2, <1>3, OwnGives
    <3>2. NoPage \notin PageNos /\ t.new \subseteq PageNos
      BY <1>1, <1>3, TopTyped, TxnTyped, PagesAssumption DEF IInv, PageNos
    <3>. QED  BY <1>5, <3>1, <3>2 DEF Given
  <2>. QED  BY <1>1, <1>2, <1>3, <1>5, <2>1, StarvedSeen
<1>6. CASE p # NoPage
  <2>1. Owned(t, d, u, p)
    BY <1>1, <1>2, <1>3, <1>6, OwnFits
  <2>2. p \in PageNos /\ Unseen(p)
    BY <2>1 DEF Owned
  <2>3. m2[p].kind = "leaf" /\ m2[p].val = v /\ \A q \in PageNos : q # p => m2[q] = mem[q]
    <3>1. Leaf(v).kind = "leaf" /\ Leaf(v).val = v
      BY DEF Leaf
    <3>2. m2[p] = Leaf(v) /\ \A q \in PageNos : q # p => m2[q] = mem[q]
      BY <1>3, <1>4, <1>6, <2>2
    <3>. QED  BY <3>1, <3>2
  <2>4. ReadFrom(m2, u.root) = [ReadFrom(mem, t.root) EXCEPT ![d] = v]
    <3>1. PICK rt : rt = u.root
      OBVIOUS
    <3>2. Wrote(u, d, p, m2, rt, v)
      BY <2>3, <3>1 DEF Wrote
    <3>3. \A q \in PageNos : q # p => m2[q] = mem[q]
      BY <2>3
    <3>4. txns # <<>> /\ t = Top
      BY <1>1, <1>3
    <3>5. ReadFrom(m2, rt) = [ReadFrom(mem, t.root) EXCEPT ![d] = v]
      BY <2>1, <3>2, <3>3, <3>4, OwnedRead
    <3>. QED  BY <3>1, <3>5
  <2>5. \A q : Visible(q) => mem'[q] = mem[q]
    BY <1>2, <2>2, <2>3, OwnedUnshown
  <2>6. ReadFrom(mem', u.root) = [ReadFrom(mem, Top.root) EXCEPT ![d] = v]
    BY <1>1, <1>2, <2>4
  <2>. QED  BY <1>3, <2>5, <2>6, WriteSeen
<1>. QED  BY <1>5, <1>6

LEMMA DelImplements ==
  ASSUME IInv, IInv', NEW d \in Dbis, Del(d)
  PROVE  Snapshots!Write(d, NoValue) \/ UNCHANGED Snapshots!vars
<1>1. PICK t, o : t = Top /\ o = Own(t, d)
  OBVIOUS
<1>2. PICK u, p, m2 : u = o.txn /\ p = o.page /\ m2 = mem'
  OBVIOUS
<1>3. /\ txns # <<>>
      /\ IF p = NoPage
         THEN m2 = mem /\ txns' = [txns EXCEPT ![Len(txns)] = u]
         ELSE /\ m2 = [mem EXCEPT ![p] = Link(u.free)]
              /\ txns' = [txns EXCEPT ![Len(txns)] = Emptied(u, d, p)]
      /\ root' = root /\ reader' = reader
  BY <1>1, <1>2 DEF Del, shared, Emptied
<1>4. mem \in [PageNos -> Memory]
  BY DEF IInv, TypeOK
<1>5. CASE p = NoPage
  <2>1. u = [t EXCEPT !.free = NoPage]
    <3>1. \/ u = t /\ p = t.root[d] /\ p \in t.new
          \/ u = [t EXCEPT !.free = NoPage] /\ p = NoPage
          \/ \E a : Given(t, a) /\ p = a.page
      BY <1>1, <1>2, <1>3, OwnGives
    <3>2. NoPage \notin PageNos /\ t.new \subseteq PageNos
      BY <1>1, <1>3, TopTyped, TxnTyped, PagesAssumption DEF IInv, PageNos
    <3>. QED  BY <1>5, <3>1, <3>2 DEF Given
  <2>. QED  BY <1>1, <1>2, <1>3, <1>5, <2>1, StarvedSeen
<1>6. CASE p # NoPage
  <2>1. Owned(t, d, u, p)
    BY <1>1, <1>2, <1>3, <1>6, OwnFits
  <2>2. p \in PageNos /\ Unseen(p) /\ u \in Txns
    BY <2>1 DEF Owned, Fits
  <2>3. PICK x : x = Emptied(u, d, p)
    OBVIOUS
  <2>4. x.root = [u.root EXCEPT ![d] = NoPage]
    BY <2>2, <2>3 DEF Emptied, Txns
  <2>5. \A q \in PageNos : q # p => m2[q] = mem[q]
    BY <1>3, <1>4, <1>6
  <2>6. ReadFrom(m2, x.root) = [ReadFrom(mem, t.root) EXCEPT ![d] = NoValue]
    <3>1. PICK rt : rt = x.root
      OBVIOUS
    <3>2. Wrote(u, d, p, m2, rt, NoValue)
      BY <2>4, <3>1 DEF Wrote
    <3>3. ReadFrom(m2, rt) = [ReadFrom(mem, t.root) EXCEPT ![d] = NoValue]
      BY <1>1, <1>3, <2>1, <2>5, <3>2, OwnedRead
    <3>. QED  BY <3>1, <3>3
  <2>7. \A q : Visible(q) => mem'[q] = mem[q]
    BY <1>2, <2>2, <2>5, OwnedUnshown
  <2>8. ReadFrom(mem', x.root) = [ReadFrom(mem, Top.root) EXCEPT ![d] = NoValue]
    BY <1>1, <1>2, <2>6
  <2>9. txns' = [txns EXCEPT ![Len(txns)] = x]
    BY <1>3, <1>6, <2>3
  <2>. QED  BY <1>3, <2>7, <2>8, <2>9, WriteSeen
<1>. QED  BY <1>5, <1>6

\* A transaction that ends inside another leaves that one with the view x.
LEMMA PoppedViewed ==
  ASSUME IInv, IInv', NEW n \in Nat, n = Len(txns), n > 1, NEW u \in Txns,
         txns' = [SubSeq(txns, 1, n - 1) EXCEPT ![n - 1] = u],
         \A p : Visible(p) => mem'[p] = mem[p], root' = root, reader' = reader,
         NEW x, x = ReadFrom(mem', u.root), NEW w, w = Working
  PROVE  /\ Committed' = Committed /\ Seen' = Seen
         /\ w # <<>> /\ w \in Seq(Views) /\ Len(w) = n
         /\ \A i \in 1 .. n : w[i] = ReadFrom(mem, txns[i].root)
         /\ Working' = [SubSeq(w, 1, n - 1) EXCEPT ![n - 1] = x]
<1>1. /\ Len(txns') = n - 1 /\ txns'[n - 1] = u
      /\ \A i \in 1 .. n - 2 : txns'[i] = txns[i]
  BY Popped DEF IInv
<1>2. /\ Committed' = Committed /\ Seen' = Seen
      /\ \A i \in 1 .. n - 1 : ReadFrom(mem', txns[i].root) = w[i]
  BY ViewsStay DEF IInv
<1>3. /\ w \in Seq(Views) /\ Len(w) = n /\ w # <<>>
      /\ \A i \in 1 .. n : w[i] = ReadFrom(mem, txns[i].root)
  <2>1. /\ w \in Seq(Views) /\ Len(w) = n
        /\ \A i \in 1 .. n : w[i] = ReadFrom(mem, txns[i].root)
    BY AbstractNow DEF IInv
  <2>2. Len(<<>>) = 0 /\ n # 0
    OBVIOUS
  <2>. QED  BY <2>1, <2>2, Zenon
<1>4. PICK w2 : w2 = Working'
  OBVIOUS
<1>5. /\ w2 \in Seq(Views) /\ Len(w2) = n - 1
      /\ \A i \in 1 .. n - 1 : w2[i] = ReadFrom(mem', txns'[i].root)
  BY <1>1, <1>4, AbstractNext DEF IInv
<1>6. PICK k \in Nat : k = n - 1 /\ k >= 1 /\ k <= n
  <2>1. n - 1 \in Nat /\ n - 1 >= 1 /\ n - 1 <= n
    OBVIOUS
  <2>. QED  BY <2>1
<1>7. w2[k] = x
  <2>1. k \in 1 .. n - 1
    BY <1>6
  <2>. QED  BY <1>1, <1>5, <1>6, <2>1
<1>8. PICK s : s = SubSeq(w, 1, k)
  OBVIOUS
<1>9. s \in Seq(Views) /\ Len(s) = k /\ \A i \in 1 .. k : s[i] = w[i]
  BY <1>3, <1>6, <1>8
<1>10. PICK a : a = [s EXCEPT ![k] = x]
  OBVIOUS
<1>11. x \in Views
  BY <1>5, <1>6, <1>7
<1>12. a \in Seq(Views) /\ Len(a) = k /\ \A i \in 1 .. k : a[i] = IF i = k THEN x ELSE s[i]
  <2>1. k \in 1 .. Len(s)
    BY <1>6, <1>9
  <2>. QED  BY <1>9, <1>10, <1>11, <2>1, ExceptSeq
<1>13. ASSUME NEW i \in 1 .. k PROVE w2[i] = a[i]
  <2>1. CASE i = k
    BY <1>7, <1>12, <2>1
  <2>2. CASE i # k
    <3>1. i \in 1 .. n - 2 /\ i \in 1 .. n - 1 /\ a[i] = w[i]
      BY <1>6, <1>9, <1>12, <2>2
    <3>. QED  BY <1>1, <1>2, <1>5, <3>1
  <2>. QED  BY <2>1, <2>2
<1>14. w2 = a
  BY <1>5, <1>6, <1>12, <1>13, SeqEqual
<1>. QED  BY <1>2, <1>3, <1>4, <1>6, <1>8, <1>10, <1>14

LEMMA CommitChildImplements ==
  ASSUME IInv, IInv', CommitChild
  PROVE  Snapshots!Commit
<1>1. PICK n \in Nat : n = Len(txns) /\ n > 1
  <2>1. Len(txns) \in Nat
    BY DEF IInv, TypeOK
  <2>2. Len(txns) > 1
    BY DEF CommitChild
  <2>. QED  BY <2>1, <2>2
<1>2. PICK par, t : par = txns[n - 1] /\ t = txns[n]
  OBVIOUS
<1>3. PICK u : u = [par EXCEPT !.root = t.root, !.free = t.free, !.num = t.num,
                               !.new = MergedNew(par, t), !.old = par.old \cup t.old]
  OBVIOUS
<1>4. /\ txns' = [SubSeq(txns, 1, n - 1) EXCEPT ![n - 1] = u]
      /\ mem' = mem /\ root' = root /\ reader' = reader
  BY <1>1, <1>2, <1>3 DEF CommitChild, Top, shared
<1>5. par \in Txns /\ t \in Txns
  BY <1>1, <1>2, TopTyped DEF IInv, TypeOK
<1>6. u \in Txns /\ u.root = t.root
  <2>1. MergedNew(par, t) \in SUBSET PageNos /\ par.old \cup t.old \in SUBSET PageNos
    BY <1>5, TxnTyped DEF MergedNew
  <2>. QED  BY <1>3, <1>5, <2>1, TxnTyped DEF Txns
<1>7. PICK x, w : x = ReadFrom(mem', u.root) /\ w = Working
  OBVIOUS
<1>8. /\ Committed' = Committed /\ Seen' = Seen
      /\ w # <<>> /\ Len(w) = n
      /\ \A i \in 1 .. n : w[i] = ReadFrom(mem, txns[i].root)
      /\ Working' = [SubSeq(w, 1, n - 1) EXCEPT ![n - 1] = x]
  BY <1>1, <1>4, <1>6, <1>7, PoppedViewed
<1>9. x = w[n]
  <2>1. n \in 1 .. n
    BY <1>1
  <2>. QED  BY <1>2, <1>4, <1>6, <1>7, <1>8, <2>1
<1>10. Len(w) # 1
  BY <1>1, <1>8
<1>. QED  BY <1>7, <1>8, <1>9, <1>10 DEF Snapshots!Commit

LEMMA CommitTopImplements ==
  ASSUME IInv, IInv', CommitTop
  PROVE  Snapshots!Commit
<1>1. /\ Len(txns) = 1 /\ root' = Top.root /\ txns' = <<>> /\ mem' = mem /\ reader' = reader
  BY DEF CommitTop
<1>2. PICK w : w = Working
  OBVIOUS
<1>3. /\ Len(w) = 1 /\ w # <<>> /\ w[1] = ReadFrom(mem, Top.root)
  <2>1. Len(w) = 1 /\ w[1] = ReadFrom(mem, txns[1].root)
    BY <1>1, <1>2, AbstractNow DEF IInv
  <2>2. Len(<<>>) = 0 /\ 0 # 1
    OBVIOUS
  <2>3. w # <<>>
    BY <2>1, <2>2, Zenon
  <2>. QED  BY <1>1, <2>1, <2>3 DEF Top
<1>4. Seen' = Seen
  BY <1>1, ViewsStay DEF IInv
<1>5. Working' = <<>> /\ Committed' = ReadFrom(mem, Top.root)
  BY <1>1, AbstractNext DEF IInv
<1>. QED  BY <1>2, <1>3, <1>4, <1>5 DEF Snapshots!Commit

LEMMA AbortImplements ==
  ASSUME IInv, IInv', Abort
  PROVE  Snapshots!Abort
<1>1. PICK n \in Nat : n = Len(txns)
  BY DEF IInv, TypeOK
<1>2. PICK t : t = Top
  OBVIOUS
<1>3. PICK back : back = Returned(t)
  OBVIOUS
<1>4. PICK h2 : h2 = HeadAfter(t.free, back)
  OBVIOUS
<1>5. PICK m : m = Cut(t)
  OBVIOUS
<1>6. /\ txns # <<>> /\ mem' = LinkedAfter(m, t.free, back)
      /\ root' = root /\ reader' = reader
      /\ n = 1 => txns' = <<>>
      /\ n # 1 => txns' = [SubSeq(txns, 1, n - 1) EXCEPT
                             ![n - 1] = [@ EXCEPT !.root = t.savedRoot, !.free = h2,
                                                  !.num = t.savedNum]]
  BY <1>1, <1>2, <1>3, <1>4, <1>5 DEF Abort, Cut, Returned
<1>7. h2 \in Links /\ \A q \in PageNos : ~Unseen(q) => mem'[q] = mem[q]
  BY <1>2, <1>3, <1>4, <1>5, <1>6, Aborted
<1>8. t \in Txns /\ t.savedRoot = Base(n) /\ t.savedNum = BaseNum(n)
  BY <1>1, <1>2, <1>6, Innermost
<1>9. \A p : Visible(p) => mem'[p] = mem[p]
  BY <1>7, VisibleSeen
<1>10. n >= 1 /\ txns \in Seq(Txns)
  BY <1>1, <1>6, TopTyped DEF IInv, TypeOK
<1>11. PICK w : w = Working
  OBVIOUS
<1>12. w \in Seq(Views) /\ Len(w) = n /\ w # <<>>
  BY <1>1, <1>6, <1>11, AbstractNow DEF IInv
<1>13. CASE n = 1
  <2>1. Committed' = Committed /\ Seen' = Seen
    BY <1>6, <1>9, ViewsStay DEF IInv
  <2>2. Working' = <<>>
    BY <1>6, <1>13, AbstractNext DEF IInv
  <2>3. SubSeq(w, 1, Len(w) - 1) = <<>>
    <3>1. PICK k \in Int : k = Len(w) - 1 /\ k < 1
      <4>1. Len(w) - 1 \in Int /\ Len(w) - 1 < 1
        BY <1>12, <1>13
      <4>. QED  BY <4>1
    <3>. QED  BY <3>1, SubSeqEmpty
  <2>. QED  BY <1>11, <1>12, <2>1, <2>2, <2>3 DEF Snapshots!Abort
<1>14. CASE n > 1
  <2>1. PICK par : par = txns[n - 1]
    OBVIOUS
  <2>2. PICK u : u = [par EXCEPT !.root = t.savedRoot, !.free = h2, !.num = t.savedNum]
    OBVIOUS
  <2>3. par \in Txns
    BY <1>1, <1>10, <1>14, <2>1
  <2>4. txns' = [SubSeq(txns, 1, n - 1) EXCEPT ![n - 1] = u]
    <3>1. PICK s : s = SubSeq(txns, 1, n - 1)
      OBVIOUS
    <3>2. s[n - 1] = par /\ n # 1
      <4>1. \A i \in 1 .. n - 1 : s[i] = txns[i]
        BY <1>1, <1>10, <3>1
      <4>2. n - 1 \in 1 .. n - 1
        BY <1>14
      <4>. QED  BY <1>14, <2>1, <4>1, <4>2
    <3>3. txns' = [s EXCEPT ![n - 1] = [s[n - 1] EXCEPT
                              !.root = t.savedRoot, !.free = h2, !.num = t.savedNum]]
      BY <1>6, <3>1, <3>2
    <3>. QED  BY <2>2, <3>1, <3>2, <3>3
  <2>5. t.savedRoot = par.root /\ t.savedNum = par.num
    BY <1>8, <1>14, <2>1 DEF Base, BaseNum
  <2>6. u \in Txns /\ u.root = par.root
    BY <1>7, <2>2, <2>3, <2>5, TxnTyped DEF Txns
  <2>7. PICK x : x = ReadFrom(mem', u.root)
    OBVIOUS
  <2>8. /\ Committed' = Committed /\ Seen' = Seen
        /\ Working' = [SubSeq(w, 1, n - 1) EXCEPT ![n - 1] = x]
    BY <1>1, <1>6, <1>9, <1>11, <1>14, <2>4, <2>6, <2>7, PoppedViewed
  <2>9. x = w[n - 1]
    <3>1. n - 1 \in 1 .. Len(txns) - 1
      BY <1>1, <1>14
    <3>2. ReadFrom(mem', txns[n - 1].root) = Working[n - 1]
      BY <1>9, <3>1, ViewsStay DEF IInv
    <3>. QED  BY <1>11, <2>1, <2>6, <2>7, <3>2
  <2>10. Working' = SubSeq(w, 1, Len(w) - 1)
    <3>1. PICK s : s = SubSeq(w, 1, n - 1)
      OBVIOUS
    <3>2. s \in Seq(Views) /\ Len(s) = n - 1 /\ s[n - 1] = w[n - 1]
      BY <1>12, <1>14, <3>1
    <3>3. [s EXCEPT ![n - 1] = s[n - 1]] = s
      BY <3>2
    <3>. QED  BY <1>12, <2>8, <2>9, <3>1, <3>2, <3>3
  <2>. QED  BY <1>11, <1>12, <2>8, <2>10 DEF Snapshots!Abort
<1>. QED  BY <1>10, <1>13, <1>14

LEMMA OpenImplements ==
  ASSUME IInv, IInv', NEW r \in Readers, BeginRead(r)
  PROVE  Snapshots!Open(r)
<1>1. PICK x : x = [reader[r] EXCEPT !.snap = txnid, !.root = root]
  OBVIOUS
<1>2. /\ reader \in [Readers -> [snap : 0 .. MaxTxnid \cup {Closed}, root : [Dbis -> Links]]]
      /\ txnid \in Nat
  BY TxnsAssumption DEF IInv, TypeOK
<1>3. /\ reader[r].snap = Closed /\ reader' = [reader EXCEPT ![r] = x]
      /\ mem' = mem /\ root' = root /\ txns' = txns
  BY <1>1 DEF BeginRead, shared
<1>4. x.snap = txnid /\ x.root = root /\ txnid # Closed
  BY <1>1, <1>2, ReadersAssumption
<1>5. reader'[r] = x /\ \A s \in Readers : s # r => reader'[s] = reader[s]
  BY <1>2, <1>3
<1>6. PICK c, s, s2 : c = Committed /\ s = Seen /\ s2 = Seen'
  OBVIOUS
<1>7. /\ c = ReadFrom(mem, root)
      /\ s = [q \in Readers |-> IF reader[q].snap = Closed THEN Closed
                                ELSE ReadFrom(mem, reader[q].root)]
  BY <1>6, AbstractNow DEF IInv
<1>8. s2 = [q \in Readers |-> IF reader'[q].snap = Closed THEN Closed
                              ELSE ReadFrom(mem, reader'[q].root)]
  BY <1>3, <1>6, AbstractNext DEF IInv
<1>9. s[r] = Closed
  BY <1>3, <1>7
<1>10. s2 = [s EXCEPT ![r] = c]
  BY <1>4, <1>5, <1>7, <1>8
<1>11. Committed' = Committed /\ Working' = Working
  BY <1>3 DEF Committed, Working, View
<1>. QED  BY <1>6, <1>9, <1>10, <1>11 DEF Snapshots!Open

LEMMA CloseImplements ==
  ASSUME IInv, IInv', NEW r \in Readers, EndRead(r)
  PROVE  Snapshots!Close(r)
<1>1. reader \in [Readers -> [snap : 0 .. MaxTxnid \cup {Closed}, root : [Dbis -> Links]]]
  BY DEF IInv, TypeOK
<1>2. /\ reader[r].snap # Closed /\ reader' = [reader EXCEPT ![r] = NoReader]
      /\ mem' = mem /\ root' = root /\ txns' = txns
  BY DEF EndRead, shared
<1>3. /\ reader'[r].snap = Closed /\ \A s \in Readers : s # r => reader'[s] = reader[s]
  BY <1>1, <1>2 DEF NoReader
<1>4. PICK s, s2 : s = Seen /\ s2 = Seen'
  OBVIOUS
<1>5. s = [q \in Readers |-> IF reader[q].snap = Closed THEN Closed
                             ELSE ReadFrom(mem, reader[q].root)]
  BY <1>4, AbstractNow DEF IInv
<1>6. s2 = [q \in Readers |-> IF reader'[q].snap = Closed THEN Closed
                              ELSE ReadFrom(mem, reader'[q].root)]
  BY <1>2, <1>4, AbstractNext DEF IInv
<1>7. s[r] # Closed
  <2>1. mem \in [PageNos -> Memory] /\ reader[r].root \in [Dbis -> Links]
    BY <1>1 DEF IInv, TypeOK
  <2>2. ReadFrom(mem, reader[r].root) \in Views
    BY <2>1, ReadTyped
  <2>3. s[r] = ReadFrom(mem, reader[r].root)
    BY <1>2, <1>5
  <2>. QED  BY <2>2, <2>3, ReadersAssumption DEF Views
<1>8. s2 = [s EXCEPT ![r] = Closed]
  BY <1>3, <1>5, <1>6
<1>9. Committed' = Committed /\ Working' = Working
  BY <1>2 DEF Committed, Working, View
<1>. QED  BY <1>4, <1>7, <1>8, <1>9 DEF Snapshots!Close

LEMMA InitImplements ==
  ASSUME Init
  PROVE  Snapshots!Init
<1>1. root = [d \in Dbis |-> NoPage] /\ txns = <<>> /\ reader = [r \in Readers |-> NoReader]
  BY DEF Init
<1>2. Committed = [d \in Dbis |-> NoValue]
  BY <1>1 DEF Committed, View
<1>3. Working = <<>>
  BY <1>1, InitIInv, AbstractNow DEF IInv
<1>4. Seen = [r \in Readers |-> Closed]
  BY <1>1 DEF Seen, NoReader
<1>. QED  BY <1>2, <1>3, <1>4 DEF Snapshots!Init

LEMMA NextImplements ==
  ASSUME IInv, IInv', [Next]_vars
  PROVE  [Snapshots!Next]_Snapshots!vars
<1>1. CASE BeginWrite \/ BeginChild
  BY <1>1, BeginImplements, NestImplements DEF Snapshots!Next
<1>2. CASE CommitChild \/ CommitTop \/ Abort
  BY <1>2, CommitChildImplements, CommitTopImplements, AbortImplements DEF Snapshots!Next
<1>3. ASSUME NEW d \in Dbis, Del(d) PROVE [Snapshots!Next]_Snapshots!vars
  <2>1. Snapshots!Write(d, NoValue) \/ UNCHANGED Snapshots!vars
    BY <1>3, DelImplements
  <2>. QED  BY <2>1 DEF Snapshots!Next
<1>4. ASSUME NEW d \in Dbis, NEW v \in Values, Put(d, v) PROVE [Snapshots!Next]_Snapshots!vars
  <2>1. Snapshots!Write(d, v) \/ UNCHANGED Snapshots!vars
    BY <1>4, PutImplements
  <2>. QED  BY <2>1 DEF Snapshots!Next
<1>5. ASSUME NEW r \in Readers, ReadOnly(r) PROVE Snapshots!Next
  BY <1>5, OpenImplements, CloseImplements DEF ReadOnly, Snapshots!Next
<1>6. CASE UNCHANGED vars
  BY <1>6 DEF vars, shared, Snapshots!vars, Committed, Working, Seen, View
<1>. QED  BY <1>1, <1>2, <1>3, <1>4, <1>5, <1>6 DEF Next, Writer

\* Copy-on-write, deferral and reuse of pages implement snapshots: every step of a
\* writer, a nested commit, an abort or a reader is a step of the abstract store or
\* invisible to it (txn_cow, sapling.c:961-978, and the commits and aborts, 4060-4292).
THEOREM SnapshotsImplemented == Spec => ImplementsSnapshots
<1>1. Init => Snapshots!Init
  BY InitImplements
<1>2. IInv /\ IInv' /\ [Next]_vars => [Snapshots!Next]_Snapshots!vars
  BY NextImplements
<1>. QED  BY <1>1, <1>2, InvariantHolds, PTL DEF Spec, ImplementsSnapshots, Snapshots!Spec

=============================================================================

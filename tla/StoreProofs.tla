---------------------------- MODULE StoreProofs ----------------------------
(* Proofs about StoreRuntime and WorkerStore, for any clients and workers,  *)
(* any numbers of slots and any size of a worker's table; about HostQueue,  *)
(* about Ttl, about the slots of Arena, and about Watches.                  *)
EXTENDS WorkerStore, SequenceTheorems, FiniteSetTheorems, WellFoundedInduction, TLAPS

----------------------------------------------------------------------------
(* The store                                                               *)

Callers == Clients \cup Workers \cup {Control}

Txns == {NoTxn} \cup [db : Nat, handle : Nat, ro : BOOLEAN, by : Callers]

\* Where the numbers of the store are, and what they stand for.
StoreInv ==
  /\ dbs \in Seq(Nat) /\ opens \in Nat /\ txns \in Seq(Txns)
  /\ TxnsKeepTheirDb

\* The less-than relation of the naturals, as a set of pairs.
NatLess == {p \in Nat \X Nat : p[1] < p[2]}

\* A non-empty set of naturals has a least element.
LEMMA LeastExists ==
  ASSUME NEW S \in SUBSET Nat, S # {}
  PROVE  \E s \in S : \A t \in S : s <= t
<1>1. IsWellFoundedOn(NatLess, Nat)
  <2>1. OpToRel(<, Nat) = NatLess
    BY DEF OpToRel, NatLess
  <2>. QED  BY <2>1, NatLessThanWellFounded
<1>2. PICK s \in S : \A t \in S : ~(<<t, s>> \in NatLess)
  BY <1>1, WFMin, Zenon
<1>3. ASSUME NEW t \in S PROVE s <= t
  <2>1. t \in Nat /\ s \in Nat /\ <<t, s>> \notin NatLess
    BY <1>2
  <2>2. ~(t < s)
    BY <2>1 DEF NatLess
  <2>. QED  BY <2>1, <2>2
<1>. QED  BY <1>3

\* What is put into a table goes where nothing is, and the rest stays.
Put(into, slots, S, none, i, x) ==
  /\ i \in 1 .. Len(slots) + 1 /\ (i \in DOMAIN slots => slots[i] = none)
  /\ into \in Seq(S)
  /\ DOMAIN into = DOMAIN slots \cup {i}
  /\ into[i] = x
  /\ \A j \in DOMAIN slots \ {i} : into[j] = slots[j]

LEMMA Insertion ==
  ASSUME NEW S, NEW slots \in Seq(S), NEW none \in S, NEW x \in S,
         NEW i, i = Vacant(slots, none), NEW into, into = Inserted(slots, i, x)
  PROVE  Put(into, slots, S, none, i, x)
<1>. DEFINE free == {n \in 1 .. Len(slots) + 1 : n <= Len(slots) => slots[n] = none}
<1>1. Len(slots) \in Nat /\ free \in SUBSET Nat /\ DOMAIN slots = 1 .. Len(slots)
  OBVIOUS
<1>2. Len(slots) + 1 \in free
  BY <1>1
<1>3. i \in free
  <2>1. \E n \in free : \A m \in free : n <= m
    <3>. HIDE DEF free
    <3>. QED  BY <1>1, <1>2, LeastExists
  <2>2. i = CHOOSE n \in free : \A m \in free : n <= m
    BY DEF Vacant
  <2>. HIDE DEF free
  <2>. QED  BY <2>1, <2>2
<1>4. i \in 1 .. Len(slots) + 1 /\ (i \in DOMAIN slots => slots[i] = none)
  BY <1>1, <1>3
<1>. HIDE DEF free
<1>5. CASE i <= Len(slots)
  <2>1. into = [slots EXCEPT ![i] = x] /\ i \in DOMAIN slots
    BY <1>1, <1>4, <1>5 DEF Inserted
  <2>2. into \in Seq(S)
    BY <2>1
  <2>3. /\ DOMAIN into = DOMAIN slots \cup {i} /\ into[i] = x
        /\ \A j \in DOMAIN slots \ {i} : into[j] = slots[j]
    BY <2>1
  <2>. QED  BY <1>4, <2>2, <2>3 DEF Put
<1>6. CASE ~(i <= Len(slots))
  <2>1. into = Append(slots, x) /\ i = Len(slots) + 1
    BY <1>1, <1>4, <1>6 DEF Inserted
  <2>2. into \in Seq(S) /\ Len(into) = Len(slots) + 1 /\ into[i] = x
    BY <1>1, <2>1
  <2>3. DOMAIN into = DOMAIN slots \cup {i}
    BY <1>1, <2>1, <2>2
  <2>4. \A j \in DOMAIN slots \ {i} : into[j] = slots[j]
    BY <1>1, <2>1
  <2>. QED  BY <1>4, <2>2, <2>3, <2>4 DEF Put
<1>. QED  BY <1>5, <1>6

----------------------------------------------------------------------------
\* Who began a transaction that has not ended.
OwnedBy(t, c) == TxnLive(t) /\ txns[t].by = c

\* A transaction that begins takes a number nobody has.
LEMMA BeginKeeps ==
  ASSUME StoreInv, NEW h, NEW ro \in BOOLEAN, NEW c \in Callers, Begin(h, ro, c),
         NEW n, n = Vacant(txns, NoTxn)
  PROVE  /\ StoreInv'
         /\ n \in Nat \ {0} /\ ~TxnLive(n) /\ OwnedBy(n, c)'
         /\ \A t, d : OwnedBy(t, d) => OwnedBy(t, d)'
<1>1. PICK x : x = Txn(dbs[h], h, ro, c)
  OBVIOUS
<1>2. /\ DbOpen(h) /\ (ro \/ ~WriterOpen(dbs[h]))
      /\ txns' = Inserted(txns, n, x) /\ dbs' = dbs /\ opens' = opens
  BY <1>1 DEF Begin
<1>3. /\ h \in Nat /\ dbs[h] \in Nat \ {0} /\ txns \in Seq(Txns) /\ NoTxn \in Txns
  BY <1>2 DEF StoreInv, DbOpen, Txns
<1>4. /\ x \in Txns /\ x # NoTxn
      /\ x.db = dbs[h] /\ x.handle = h /\ x.ro = ro /\ x.by = c
  BY <1>1, <1>3 DEF Txn, Txns, NoTxn
<1>5. /\ n \in 1 .. Len(txns) + 1 /\ (n \in DOMAIN txns => txns[n] = NoTxn)
      /\ txns' \in Seq(Txns) /\ DOMAIN txns' = DOMAIN txns \cup {n}
      /\ txns'[n] = x /\ \A j \in DOMAIN txns \ {n} : txns'[j] = txns[j]
  <2>1. PICK into : into = Inserted(txns, n, x)
    OBVIOUS
  <2>2. Put(into, txns, Txns, NoTxn, n, x)
    BY <1>3, <1>4, <2>1, Insertion
  <2>. QED  BY <1>2, <2>1, <2>2 DEF Put
<1>6. n \in Nat \ {0} /\ ~TxnLive(n) /\ OwnedBy(n, c)'
  BY <1>3, <1>4, <1>5 DEF TxnLive, OwnedBy
<1>7. \A t, d : OwnedBy(t, d) => OwnedBy(t, d)'
  BY <1>5 DEF TxnLive, OwnedBy
<1>8. /\ n \in LiveTxns' /\ n \notin LiveTxns
      /\ \A t \in LiveTxns' : t # n => t \in LiveTxns /\ txns'[t] = txns[t]
  BY <1>4, <1>5 DEF LiveTxns
<1>9. ASSUME NEW t \in LiveTxns' PROVE DbOpen(txns[t].handle)' /\ (dbs[txns[t].handle] = txns[t].db)'
  BY <1>2, <1>4, <1>5, <1>8 DEF StoreInv, TxnsKeepTheirDb, DbOpen
<1>10. ASSUME NEW s \in LiveTxns', NEW t \in LiveTxns',
              txns'[s].db = txns'[t].db, ~txns'[s].ro, ~txns'[t].ro
       PROVE  s = t
  <2>1. CASE s # n /\ t # n
    BY <1>8, <1>10, <2>1 DEF StoreInv, TxnsKeepTheirDb
  <2>2. CASE s = n /\ t # n
    BY <1>2, <1>4, <1>5, <1>8, <1>10, <2>2 DEF WriterOpen
  <2>3. CASE s # n /\ t = n
    BY <1>2, <1>4, <1>5, <1>8, <1>10, <2>3 DEF WriterOpen
  <2>. QED  BY <2>1, <2>2, <2>3
<1>11. StoreInv'
  <2>1. dbs' \in Seq(Nat) /\ opens' \in Nat /\ txns' \in Seq(Txns)
    BY <1>2, <1>5 DEF StoreInv
  <2>. QED  BY <1>9, <1>10, <2>1 DEF StoreInv, TxnsKeepTheirDb
<1>. QED  BY <1>6, <1>7, <1>11

\* One that ends gives up its number and no other.
LEMMA SettleKeeps ==
  ASSUME StoreInv, NEW t, Settle(t)
  PROVE  /\ StoreInv'
         /\ \A u, d : u # t /\ OwnedBy(u, d) => OwnedBy(u, d)'
<1>1. /\ t \in DOMAIN txns /\ txns' = [txns EXCEPT ![t] = NoTxn]
      /\ dbs' = dbs /\ opens' = opens /\ txns \in Seq(Txns)
  BY DEF Settle, TxnLive, StoreInv
<1>2. /\ txns' \in Seq(Txns) /\ DOMAIN txns' = DOMAIN txns
      /\ txns'[t] = NoTxn /\ \A u \in DOMAIN txns : u # t => txns'[u] = txns[u]
  BY <1>1 DEF Txns
<1>3. \A u \in LiveTxns' : u \in LiveTxns /\ txns'[u] = txns[u]
  BY <1>2 DEF LiveTxns
<1>4. TxnsKeepTheirDb'
  BY <1>1, <1>3 DEF StoreInv, TxnsKeepTheirDb, DbOpen
<1>5. \A u, d : u # t /\ OwnedBy(u, d) => OwnedBy(u, d)'
  BY <1>2 DEF OwnedBy, TxnLive
<1>. QED  BY <1>1, <1>2, <1>4, <1>5 DEF StoreInv

LEMMA OpenKeeps == ASSUME StoreInv, Open PROVE StoreInv'
<1>1. PICK i : i = Vacant(dbs, 0)
  OBVIOUS
<1>2. /\ opens' = opens + 1 /\ dbs' = Inserted(dbs, i, opens') /\ txns' = txns
      /\ dbs \in Seq(Nat) /\ opens' \in Nat
  BY <1>1 DEF Open, StoreInv
<1>3. /\ (i \in DOMAIN dbs => dbs[i] = 0)
      /\ dbs' \in Seq(Nat) /\ DOMAIN dbs' = DOMAIN dbs \cup {i}
      /\ \A j \in DOMAIN dbs \ {i} : dbs'[j] = dbs[j]
  <2>1. 0 \in Nat /\ dbs \in Seq(Nat)
    BY <1>2
  <2>2. PICK x \in Nat : x = opens'
    BY <1>2
  <2>3. PICK into : into = Inserted(dbs, i, x)
    OBVIOUS
  <2>4. Put(into, dbs, Nat, 0, i, x)
    BY <1>1, <2>1, <2>3, Insertion
  <2>5. dbs' = into
    BY <1>2, <2>2, <2>3
  <2>. QED  BY <2>4, <2>5 DEF Put
<1>4. \A h : DbOpen(h) => DbOpen(h)' /\ dbs'[h] = dbs[h]
  BY <1>3 DEF DbOpen
<1>5. TxnsKeepTheirDb'
  BY <1>2, <1>4 DEF StoreInv, TxnsKeepTheirDb, LiveTxns
<1>. QED  BY <1>2, <1>3, <1>5 DEF StoreInv

\* A database is dropped only when none of its transactions is left.
LEMMA DropKeeps == ASSUME StoreInv, NEW h, Drop(h) PROVE StoreInv'
<1>1. /\ dbs' = [dbs EXCEPT ![h] = 0] /\ txns' = txns /\ opens' = opens
      /\ dbs \in Seq(Nat) /\ h \in DOMAIN dbs /\ ~HasLiveTxn(h)
  BY DEF Drop, DbOpen, StoreInv
<1>2. /\ dbs' \in Seq(Nat) /\ \A j : j # h /\ DbOpen(j) => DbOpen(j)' /\ dbs'[j] = dbs[j]
  BY <1>1 DEF DbOpen
<1>3. TxnsKeepTheirDb'
  BY <1>1, <1>2 DEF StoreInv, TxnsKeepTheirDb, LiveTxns, HasLiveTxn
<1>. QED  BY <1>1, <1>2, <1>3 DEF StoreInv

\* No transaction of the store outlives its database or finds another one under
\* its handle, and a database has one writer (wit_store_runtime.c:452-494).
THEOREM TransactionsKeepTheirDatabase == StoreSpec => []TxnsKeepTheirDb
<1>1. StoreInit => StoreInv
  BY DEF StoreInit, StoreInv, TxnsKeepTheirDb, LiveTxns
<1>2. StoreInv /\ [StoreNext]_storeVars => StoreInv'
  <2>. SUFFICES ASSUME StoreInv, [StoreNext]_storeVars PROVE StoreInv'
    OBVIOUS
  <2>1. CASE Open
    BY <2>1, OpenKeeps
  <2>2. ASSUME NEW h \in DOMAIN dbs, Drop(h) PROVE StoreInv'
    BY <2>2, DropKeeps
  <2>3. ASSUME NEW h \in DOMAIN dbs, NEW ro \in BOOLEAN, NEW by \in Clients, Begin(h, ro, by)
        PROVE  StoreInv'
    BY <2>3, BeginKeeps DEF Callers
  <2>4. ASSUME NEW t \in DOMAIN txns, Settle(t) PROVE StoreInv'
    BY <2>4, SettleKeeps
  <2>5. CASE Destroy
    BY <2>5 DEF Destroy, StoreInv, TxnsKeepTheirDb, LiveTxns
  <2>6. CASE UNCHANGED storeVars
    BY <2>6 DEF storeVars, StoreInv, TxnsKeepTheirDb, LiveTxns, DbOpen
  <2>. QED  BY <2>1, <2>2, <2>3, <2>4, <2>5, <2>6 DEF StoreNext, Commit, Abort
<1>3. StoreInv => TxnsKeepTheirDb
  BY DEF StoreInv
<1>. QED  BY <1>1, <1>2, <1>3, PTL DEF StoreSpec

----------------------------------------------------------------------------
(* The workers' tables                                                     *)

Distinct(s) == \A i, j \in DOMAIN s : s[i] = s[j] => i = j

\* A number that is removed from a table of distinct ones is gone.
LEMMA Removal ==
  ASSUME NEW s \in Seq(Nat), Distinct(s), NEW e, NEW r, r = RemoveFirst(s, e)
  PROVE  r \in Seq(Nat) /\ Distinct(r) /\ ToSet(r) = ToSet(s) \ {e}
<1>1. Len(s) \in Nat /\ DOMAIN s = 1 .. Len(s)
  OBVIOUS
<1>2. CASE ~(\E i \in 1 .. Len(s) : s[i] = e)
  <2>1. r = s
    BY <1>2 DEF RemoveFirst
  <2>. QED  BY <1>1, <1>2, <2>1 DEF ToSet
<1>3. CASE \E i \in 1 .. Len(s) : s[i] = e
  <2>1. PICK k \in 1 .. Len(s) : s[k] = e
    BY <1>3
  <2>2. {i \in 1 .. Len(s) : s[i] = e} = {k}
    BY <1>1, <2>1 DEF Distinct
  <2>3. SelectInSeq(s, LAMBDA v : v = e) = k
    <3>1. Min({k}) = k
      BY <2>1 DEF Min
    <3>. QED  BY <2>2, <3>1 DEF SelectInSeq
  <2>4. r = SubSeq(s, 1, k - 1) \o SubSeq(s, k + 1, Len(s))
    BY <1>3, <2>3 DEF RemoveFirst, RemoveAt
  <2>5. PICK a : a = SubSeq(s, 1, k - 1)
    OBVIOUS
  <2>6. PICK b : b = SubSeq(s, k + 1, Len(s))
    OBVIOUS
  <2>7. /\ a \in Seq(Nat) /\ Len(a) = k - 1
        /\ \A i \in 1 .. k - 1 : a[i] = s[i]
    <3>1. \A i \in 1 .. k - 1 : s[i] \in Nat
      BY <1>1
    <3>2. /\ SubSeq(s, 1, k - 1) \in Seq(Nat)
          /\ Len(SubSeq(s, 1, k - 1)) = IF 1 <= k - 1 THEN k - 1 - 1 + 1 ELSE 0
          /\ \A i \in 1 .. k - 1 - 1 + 1 : SubSeq(s, 1, k - 1)[i] = s[1 + i - 1]
      BY <2>1, <3>1, SubSeqProperties
    <3>. QED  BY <2>1, <2>5, <3>2
  <2>8. /\ b \in Seq(Nat) /\ Len(b) = Len(s) - k
        /\ \A i \in 1 .. Len(s) - k : b[i] = s[k + i]
    <3>1. \A i \in k + 1 .. Len(s) : s[i] \in Nat
      BY <1>1
    <3>2. /\ SubSeq(s, k + 1, Len(s)) \in Seq(Nat)
          /\ Len(SubSeq(s, k + 1, Len(s))) = IF k + 1 <= Len(s) THEN Len(s) - (k + 1) + 1 ELSE 0
          /\ \A i \in 1 .. Len(s) - (k + 1) + 1 :
               SubSeq(s, k + 1, Len(s))[i] = s[k + 1 + i - 1]
      BY <1>1, <2>1, <3>1, SubSeqProperties
    <3>3. Len(b) = Len(s) - k
      <4>1. Len(b) = IF k + 1 <= Len(s) THEN Len(s) - (k + 1) + 1 ELSE 0
        BY <2>6, <3>2
      <4>2. PICK n \in Nat : n = Len(s)
        BY <1>1
      <4>3. k \in 1 .. n /\ (IF k + 1 <= n THEN n - (k + 1) + 1 ELSE 0) = n - k
        BY <2>1, <4>2
      <4>. QED  BY <4>1, <4>2, <4>3
    <3>4. ASSUME NEW i \in 1 .. Len(s) - k PROVE b[i] = s[k + i]
      <4>1. i \in 1 .. Len(s) - (k + 1) + 1 /\ k + 1 + i - 1 = k + i
        BY <1>1, <2>1
      <4>. QED  BY <2>6, <3>2, <4>1
    <3>. QED  BY <2>6, <3>2, <3>3, <3>4
  <2>9. /\ r \in Seq(Nat) /\ Len(r) = Len(s) - 1
        /\ \A i \in 1 .. Len(s) - 1 : r[i] = (IF i < k THEN s[i] ELSE s[i + 1])
    <3>1. r = a \o b
      BY <2>4, <2>5, <2>6
    <3>2. /\ a \o b \in Seq(Nat) /\ Len(a \o b) = Len(a) + Len(b)
          /\ \A i \in 1 .. Len(a) + Len(b) :
               (a \o b)[i] = IF i <= Len(a) THEN a[i] ELSE b[i - Len(a)]
      BY <2>7, <2>8, ConcatProperties
    <3>3. r \in Seq(Nat) /\ Len(r) = Len(s) - 1
      BY <1>1, <2>1, <2>7, <2>8, <3>1, <3>2
    <3>4. ASSUME NEW i \in 1 .. Len(s) - 1 PROVE r[i] = (IF i < k THEN s[i] ELSE s[i + 1])
      <4>1. r[i] = IF i <= k - 1 THEN a[i] ELSE b[i - (k - 1)]
        <5>1. Len(a) = k - 1 /\ Len(a) + Len(b) = Len(s) - 1
          BY <1>1, <2>1, <2>7, <2>8
        <5>2. i \in 1 .. Len(a) + Len(b)
          BY <5>1
        <5>3. r[i] = IF i <= Len(a) THEN a[i] ELSE b[i - Len(a)]
          BY <3>1, <3>2, <5>2
        <5>. QED  BY <5>1, <5>3
      <4>2. CASE i <= k - 1
        BY <1>1, <2>1, <2>7, <4>1, <4>2
      <4>3. CASE ~(i <= k - 1)
        <5>1. i - (k - 1) \in 1 .. Len(s) - k /\ k + (i - (k - 1)) = i + 1
          BY <1>1, <2>1, <4>3
        <5>. QED  BY <1>1, <2>1, <2>8, <4>1, <4>3, <5>1
      <4>. QED  BY <4>2, <4>3
    <3>. QED  BY <3>3, <3>4
  <2>10. Distinct(r)
    <3>1. ASSUME NEW i \in 1 .. Len(s) - 1, NEW j \in 1 .. Len(s) - 1, r[i] = r[j]
          PROVE  i = j
      <4>1. PICK m \in 1 .. Len(s) : m = IF i < k THEN i ELSE i + 1
        BY <1>1
      <4>2. PICK n \in 1 .. Len(s) : n = IF j < k THEN j ELSE j + 1
        BY <1>1
      <4>3. s[m] = s[n]
        BY <2>9, <3>1, <4>1, <4>2
      <4>4. m = n
        BY <1>1, <4>3 DEF Distinct
      <4>5. CASE i < k
        BY <1>1, <2>1, <4>1, <4>2, <4>4, <4>5
      <4>6. CASE ~(i < k)
        BY <1>1, <2>1, <4>1, <4>2, <4>4, <4>6
      <4>. QED  BY <4>5, <4>6
    <3>2. DOMAIN r = 1 .. Len(s) - 1
      BY <2>9
    <3>. QED  BY <3>1, <3>2 DEF Distinct
  <2>11. ToSet(r) = ToSet(s) \ {e}
    <3>1. ASSUME NEW x \in ToSet(r) PROVE x \in ToSet(s) \ {e}
      <4>1. PICK i \in 1 .. Len(s) - 1 : x = r[i]
        BY <2>9 DEF ToSet
      <4>2. PICK m \in 1 .. Len(s) : m = IF i < k THEN i ELSE i + 1
        BY <1>1
      <4>3. x = s[m]
        BY <2>9, <4>1, <4>2
      <4>4. m # k
        BY <1>1, <2>1, <4>1, <4>2
      <4>. QED  BY <1>1, <2>1, <4>3, <4>4 DEF ToSet, Distinct
    <3>2. ASSUME NEW x \in ToSet(s) \ {e} PROVE x \in ToSet(r)
      <4>1. PICK m \in 1 .. Len(s) : x = s[m] /\ m # k
        BY <1>1, <2>1, <3>2 DEF ToSet
      <4>2. PICK i \in 1 .. Len(s) - 1 : i = IF m < k THEN m ELSE m - 1
        BY <1>1, <2>1, <4>1
      <4>3. r[i] = s[m]
        BY <1>1, <2>1, <2>9, <4>1, <4>2
      <4>4. DOMAIN r = 1 .. Len(s) - 1 /\ x = r[i]
        BY <2>9, <4>1, <4>3
      <4>. QED  BY <4>4 DEF ToSet
    <3>. QED  BY <3>1, <3>2
  <2>. QED  BY <2>9, <2>10, <2>11
<1>. QED  BY <1>2, <1>3

\* What a worker's table and its call under way know: a number in the table, or on
\* its way there, is the worker's own, unless it has just been settled.
Knows(w) ==
  /\ Distinct(policy[w])
  /\ \A t \in Nat : HasTxn(w, t) /\ doing[w] # <<"settled", t>> => OwnedBy(t, w)
  /\ \A t \in Nat : doing[w] = <<"begun", t>> => OwnedBy(t, w) /\ ~HasTxn(w, t)

Doings == {Idle} \cup {<<"begun", t>> : t \in Nat} \cup {<<"settled", t>> : t \in Nat}

WorkerInv ==
  /\ StoreInv
  /\ policy \in [Workers -> Seq(Nat)] /\ doing \in [Workers -> Doings] /\ getting \in Nat
  /\ \A w \in Workers : Knows(w)
  /\ getting # 0 => OwnedBy(getting, Control)

\* A step that leaves w's table and call alone, and w's transactions open.
LEMMA KnowsStill ==
  ASSUME NEW w \in Workers, Knows(w), policy'[w] = policy[w], doing'[w] = doing[w],
         \A t \in Nat : OwnedBy(t, w) => OwnedBy(t, w)'
  PROVE  Knows(w)'
BY DEF Knows, HasTxn

LEMMA WorkerBeginKeeps ==
  ASSUME WorkerInv, NEW w \in Workers, NEW ro \in BOOLEAN, WorkerBegin(w, ro)
  PROVE  WorkerInv'
<1>1. PICK n : n = Vacant(txns, NoTxn)
  OBVIOUS
<1>2. /\ Begin(Db, ro, w) /\ doing[w] = Idle /\ doing' = [doing EXCEPT ![w] = <<"begun", n>>]
      /\ policy' = policy /\ getting' = getting /\ StoreInv
  BY <1>1 DEF WorkerBegin, WorkerInv
<1>3. /\ StoreInv' /\ n \in Nat \ {0} /\ ~TxnLive(n) /\ OwnedBy(n, w)'
      /\ \A t, d : OwnedBy(t, d) => OwnedBy(t, d)'
  BY <1>1, <1>2, BeginKeeps DEF Callers
<1>4. ASSUME NEW v \in Workers \ {w} PROVE Knows(v)'
  BY <1>2, <1>3, KnowsStill DEF WorkerInv
<1>5. Knows(w)'
  <2>1. doing'[w] = <<"begun", n>> /\ policy'[w] = policy[w]
    BY <1>2 DEF WorkerInv
  <2>2. \A t \in Nat : HasTxn(w, t) => OwnedBy(t, w)
    BY <1>2 DEF WorkerInv, Knows, Idle
  <2>3. ~HasTxn(w, n)
    BY <1>3, <2>2 DEF OwnedBy
  <2>. QED  BY <1>3, <2>1, <2>2, <2>3 DEF WorkerInv, Knows, HasTxn
<1>6. doing' \in [Workers -> Doings]
  BY <1>2, <1>3 DEF WorkerInv, Doings
<1>. QED  BY <1>2, <1>3, <1>4, <1>5, <1>6 DEF WorkerInv

LEMMA AddTxnKeeps ==
  ASSUME WorkerInv, NEW w \in Workers, AddTxn(w)
  PROVE  WorkerInv'
<1>1. PICK n \in Nat : doing[w] = <<"begun", n>>
  <2>1. doing[w] \in Doings /\ doing[w][1] = "begun"
    BY DEF AddTxn, WorkerInv
  <2>. QED  BY <2>1 DEF Doings, Idle
<1>2. /\ \/ policy' = [policy EXCEPT ![w] = Append(policy[w], n)]
         \/ policy' = policy
      /\ doing' = [doing EXCEPT ![w] = Idle]
      /\ UNCHANGED <<dbs, txns, opens, getting>>
  BY <1>1 DEF AddTxn
<1>3. policy[w] \in Seq(Nat) /\ Knows(w)
  BY DEF WorkerInv
<1>4. \A t, d : OwnedBy(t, d)' <=> OwnedBy(t, d)
  BY <1>2 DEF OwnedBy, TxnLive
<1>5. StoreInv' /\ doing' \in [Workers -> Doings] /\ policy' \in [Workers -> Seq(Nat)]
      /\ getting' \in Nat
  <2>1. StoreInv' /\ getting' \in Nat
    BY <1>2 DEF WorkerInv, StoreInv, TxnsKeepTheirDb, LiveTxns, DbOpen
  <2>2. doing' \in [Workers -> Doings]
    BY <1>2 DEF WorkerInv, Doings
  <2>3. Append(policy[w], n) \in Seq(Nat)
    BY <1>3
  <2>4. policy' \in [Workers -> Seq(Nat)]
    BY <1>2, <2>3 DEF WorkerInv
  <2>. QED  BY <2>1, <2>2, <2>4
<1>6. OwnedBy(n, w) /\ ~HasTxn(w, n) /\ \A t \in Nat : HasTxn(w, t) => OwnedBy(t, w)
  BY <1>1, <1>3 DEF Knows
<1>7. Knows(w)'
  <2>1. policy'[w] = Append(policy[w], n) \/ policy'[w] = policy[w]
    BY <1>2 DEF WorkerInv
  <2>2. doing'[w] = Idle
    BY <1>2 DEF WorkerInv
  <2>3. Distinct(policy'[w])
    <3>1. PICK s \in Seq(Nat) : s = policy[w]
      BY <1>3
    <3>2. Distinct(s) /\ \A i \in 1 .. Len(s) : s[i] # n
      BY <1>3, <1>6, <3>1 DEF Knows, HasTxn, ToSet
    <3>3. PICK r : r = Append(s, n)
      OBVIOUS
    <3>4. /\ Len(s) \in Nat /\ DOMAIN s = 1 .. Len(s) /\ DOMAIN r = 1 .. Len(s) + 1
          /\ \A i \in 1 .. Len(s) + 1 : r[i] = IF i = Len(s) + 1 THEN n ELSE s[i]
      BY <3>3
    <3>5. ASSUME NEW i \in 1 .. Len(s) + 1, NEW j \in 1 .. Len(s) + 1, r[i] = r[j]
          PROVE  i = j
      BY <3>2, <3>4, <3>5 DEF Distinct
    <3>6. Distinct(r)
      BY <3>4, <3>5 DEF Distinct
    <3>. QED  BY <1>3, <2>1, <3>1, <3>3, <3>6 DEF Knows
  <2>4. \A t \in ToSet(policy'[w]) : t \in ToSet(policy[w]) \/ t = n
    <3>1. PICK s \in Seq(Nat) : s = policy[w]
      BY <1>3
    <3>2. PICK r : r = Append(s, n)
      OBVIOUS
    <3>3. /\ Len(s) \in Nat /\ DOMAIN s = 1 .. Len(s) /\ DOMAIN r = 1 .. Len(s) + 1
          /\ \A i \in 1 .. Len(s) + 1 : r[i] = IF i = Len(s) + 1 THEN n ELSE s[i]
      BY <3>2
    <3>4. ASSUME NEW i \in 1 .. Len(s) + 1 PROVE r[i] = n \/ \E k \in 1 .. Len(s) : r[i] = s[k]
      <4>1. i = Len(s) + 1 \/ i \in 1 .. Len(s)
        BY <3>3
      <4>. QED  BY <3>3, <4>1
    <3>5. \A t \in ToSet(r) : t \in ToSet(s) \/ t = n
      BY <3>3, <3>4 DEF ToSet
    <3>6. policy'[w] = r \/ policy'[w] = s
      BY <2>1, <3>1, <3>2
    <3>. QED  BY <3>1, <3>5, <3>6
  <2>. QED  BY <1>4, <1>6, <2>2, <2>3, <2>4 DEF Knows, HasTxn, Idle
<1>8. ASSUME NEW v \in Workers \ {w} PROVE Knows(v)'
  BY <1>2, <1>4, KnowsStill DEF WorkerInv
<1>. QED  BY <1>2, <1>4, <1>5, <1>7, <1>8 DEF WorkerInv

\* Nobody else knows the number that is given up.
LEMMA WorkerSettleKeeps ==
  ASSUME WorkerInv, Control \notin Workers, NEW w \in Workers, NEW t \in DOMAIN txns,
         WorkerSettle(w, t)
  PROVE  WorkerInv'
<1>1. /\ doing[w] = Idle /\ HasTxn(w, t) /\ Settle(t) /\ t \in Nat
      /\ doing' = [doing EXCEPT ![w] = <<"settled", t>>]
      /\ policy' = policy /\ getting' = getting /\ StoreInv
  BY DEF WorkerSettle, WorkerInv, StoreInv
<1>2. OwnedBy(t, w)
  BY <1>1 DEF WorkerInv, Knows, Idle
<1>3. /\ StoreInv'
      /\ \A u, d : u # t /\ OwnedBy(u, d) => OwnedBy(u, d)'
  BY <1>1, SettleKeeps
<1>4. \A d : d # w => ~OwnedBy(t, d)
  BY <1>2 DEF OwnedBy
<1>5. ASSUME NEW v \in Workers \ {w} PROVE Knows(v)'
  BY <1>1, <1>3, <1>4, KnowsStill DEF WorkerInv
<1>6. Knows(w)'
  <2>1. doing'[w] = <<"settled", t>> /\ policy'[w] = policy[w]
    BY <1>1 DEF WorkerInv
  <2>2. ASSUME NEW u \in Nat, u \in ToSet(policy[w]), u # t PROVE OwnedBy(u, w)'
    <3>1. OwnedBy(u, w)
      BY <1>1, <2>2 DEF WorkerInv, Knows, Idle, HasTxn
    <3>. QED  BY <1>3, <2>2, <3>1
  <2>3. Distinct(policy'[w])
    BY <2>1 DEF WorkerInv, Knows
  <2>4. ASSUME NEW u \in Nat, HasTxn(w, u)', doing'[w] # <<"settled", u>> PROVE OwnedBy(u, w)'
    BY <2>1, <2>2, <2>4 DEF HasTxn
  <2>5. \A u \in Nat : doing'[w] # <<"begun", u>>
    BY <2>1
  <2>. QED  BY <2>3, <2>4, <2>5 DEF Knows
<1>7. getting # 0 => OwnedBy(getting, Control)'
  <2>1. PICK g : g = getting /\ g = getting'
    BY <1>1
  <2>2. g # 0 => OwnedBy(g, Control)
    BY <2>1 DEF WorkerInv
  <2>3. g # 0 => OwnedBy(g, Control)'
    BY <1>3, <1>4, <2>2
  <2>. QED  BY <2>1, <2>3
<1>8. doing' \in [Workers -> Doings]
  BY <1>1 DEF WorkerInv, Doings
<1>. QED  BY <1>1, <1>3, <1>5, <1>6, <1>7, <1>8 DEF WorkerInv

LEMMA RemoveTxnKeeps ==
  ASSUME WorkerInv, NEW w \in Workers, RemoveTxn(w)
  PROVE  WorkerInv'
<1>1. PICK n \in Nat : doing[w] = <<"settled", n>>
  <2>1. PICK d \in Doings : d = doing[w]
    BY DEF WorkerInv
  <2>2. d[1] = "settled"
    BY <2>1 DEF RemoveTxn
  <2>3. ~(d = Idle) /\ \A t \in Nat : ~(d = <<"begun", t>>)
    BY <2>2 DEF Idle
  <2>. QED  BY <2>1, <2>3 DEF Doings
<1>2. PICK r : r = RemoveFirst(policy[w], n)
  OBVIOUS
<1>3. /\ policy' = [policy EXCEPT ![w] = r] /\ doing' = [doing EXCEPT ![w] = Idle]
      /\ UNCHANGED <<dbs, txns, opens, getting>>
  BY <1>1, <1>2 DEF RemoveTxn
<1>4. policy[w] \in Seq(Nat) /\ Knows(w)
  BY DEF WorkerInv
<1>5. r \in Seq(Nat) /\ Distinct(r) /\ ToSet(r) = ToSet(policy[w]) \ {n}
  BY <1>2, <1>4, Removal DEF Knows
<1>6. \A t, d : OwnedBy(t, d)' <=> OwnedBy(t, d)
  BY <1>3 DEF OwnedBy, TxnLive
<1>7. StoreInv' /\ doing' \in [Workers -> Doings] /\ policy' \in [Workers -> Seq(Nat)]
      /\ getting' \in Nat
  BY <1>3, <1>5 DEF WorkerInv, StoreInv, Doings, TxnsKeepTheirDb, LiveTxns, DbOpen
<1>8. Knows(w)'
  <2>1. policy'[w] = r /\ doing'[w] = Idle
    BY <1>3 DEF WorkerInv
  <2>2. \A t \in Nat : t \in ToSet(policy[w]) /\ t # n => OwnedBy(t, w)
    BY <1>1, <1>4 DEF Knows, HasTxn
  <2>. QED  BY <1>5, <1>6, <2>1, <2>2 DEF Knows, HasTxn, Idle
<1>9. ASSUME NEW v \in Workers \ {w} PROVE Knows(v)'
  BY <1>3, <1>6, KnowsStill DEF WorkerInv
<1>. QED  BY <1>3, <1>6, <1>7, <1>8, <1>9 DEF WorkerInv

\* The control thread's transaction is nobody else's.
LEMMA ControlKeeps ==
  ASSUME WorkerInv, Control \notin Workers, GetBegin \/ GetEnd \/ GetForgets
  PROVE  WorkerInv'
<1>0. StoreInv /\ policy' = policy /\ doing' = doing
  BY DEF WorkerInv, GetBegin, GetEnd, GetForgets
<1>1. CASE GetBegin
  <2>1. PICK n : n = Vacant(txns, NoTxn)
    OBVIOUS
  <2>2. Begin(Db, TRUE, Control) /\ getting' = n
    BY <1>1, <2>1 DEF GetBegin
  <2>3. /\ StoreInv' /\ n \in Nat \ {0} /\ OwnedBy(n, Control)'
        /\ \A t, d : OwnedBy(t, d) => OwnedBy(t, d)'
    BY <1>0, <2>1, <2>2, BeginKeeps DEF Callers
  <2>4. ASSUME NEW v \in Workers PROVE Knows(v)'
    BY <1>0, <2>3, KnowsStill DEF WorkerInv
  <2>. QED  BY <1>0, <2>2, <2>3, <2>4 DEF WorkerInv
<1>2. CASE GetEnd
  <2>1. Settle(getting) /\ getting' = 0 /\ OwnedBy(getting, Control)
    BY <1>2 DEF GetEnd, Abort, WorkerInv
  <2>2. /\ StoreInv'
        /\ \A u, d : u # getting /\ OwnedBy(u, d) => OwnedBy(u, d)'
    BY <1>0, <2>1, SettleKeeps
  <2>3. ASSUME NEW v \in Workers PROVE Knows(v)'
    <3>1. ~OwnedBy(getting, v)
      BY <2>1 DEF OwnedBy
    <3>. QED  BY <1>0, <2>2, <3>1, KnowsStill DEF WorkerInv
  <2>. QED  BY <1>0, <2>1, <2>2, <2>3 DEF WorkerInv
<1>3. CASE GetForgets
  <2>1. UNCHANGED <<dbs, txns, opens>> /\ getting' = 0
    BY <1>3 DEF GetForgets
  <2>2. StoreInv' /\ \A t, d : OwnedBy(t, d)' <=> OwnedBy(t, d)
    BY <1>0, <2>1 DEF StoreInv, OwnedBy, TxnLive, TxnsKeepTheirDb, LiveTxns, DbOpen
  <2>3. ASSUME NEW v \in Workers PROVE Knows(v)'
    BY <1>0, <2>2, KnowsStill DEF WorkerInv
  <2>. QED  BY <1>0, <2>1, <2>2, <2>3 DEF WorkerInv
<1>. QED  BY <1>1, <1>2, <1>3

\* No call of a worker reaches a transaction that another caller began, though
\* numbers are used again while a call is between the store and the table; and the
\* session's one database keeps its transactions (orchestration_runtime.c:2594-2897).
THEOREM TablesAreOwn ==
  ASSUME Control \notin Workers
  PROVE  Spec => [](NobodyElsesTxn /\ TxnsKeepTheirDb)
<1>1. Init => WorkerInv
  <2>. SUFFICES ASSUME Init PROVE WorkerInv
    OBVIOUS
  <2>1. StoreInv
    BY DEF Init, StoreInv, TxnsKeepTheirDb, LiveTxns
  <2>2. ASSUME NEW w \in Workers PROVE Knows(w)
    BY DEF Init, Knows, Distinct, HasTxn, ToSet, Idle
  <2>. QED  BY <2>1, <2>2 DEF Init, WorkerInv, Doings
<1>2. WorkerInv /\ [Next]_workerVars => WorkerInv'
  <2>. SUFFICES ASSUME WorkerInv, [Next]_workerVars PROVE WorkerInv'
    OBVIOUS
  <2>1. ASSUME NEW w \in Workers, NEW ro \in BOOLEAN, WorkerBegin(w, ro) PROVE WorkerInv'
    BY <2>1, WorkerBeginKeeps
  <2>2. ASSUME NEW w \in Workers, AddTxn(w) PROVE WorkerInv'
    BY <2>2, AddTxnKeeps
  <2>3. ASSUME NEW w \in Workers, NEW t \in DOMAIN txns, WorkerSettle(w, t) PROVE WorkerInv'
    BY <2>3, WorkerSettleKeeps
  <2>4. ASSUME NEW w \in Workers, RemoveTxn(w) PROVE WorkerInv'
    BY <2>4, RemoveTxnKeeps
  <2>5. CASE GetBegin \/ GetEnd \/ GetForgets
    BY <2>5, ControlKeeps
  <2>6. CASE UNCHANGED workerVars
    BY <2>6 DEF workerVars, WorkerInv, StoreInv, TxnsKeepTheirDb, LiveTxns, DbOpen, Knows,
                HasTxn, OwnedBy, TxnLive
  <2>. QED  BY <2>1, <2>2, <2>3, <2>4, <2>5, <2>6 DEF Next, WorkerCommit, WorkerAbort
<1>3. WorkerInv => NobodyElsesTxn /\ TxnsKeepTheirDb
  BY DEF WorkerInv, Knows, OwnedBy, NobodyElsesTxn, StoreInv
<1>. QED  BY <1>1, <1>2, <1>3, PTL DEF Spec

---------------------------------------------------------------------------
CONSTANTS Senders, Lens, MaxLens, MaxBytes, Wrap, MaxQueued
VARIABLES queue, bytes, bound, ps, asleep, failed

Queue == INSTANCE HostQueue

(* The host's queue: nobody is stranded, for any number of senders, any     *)
(* frames, any bound on their bytes and any width of their count.           *)

\* The variables the argument is about have their types.
QueueTyped ==
  /\ queue \in Seq(Lens)
  /\ ps \in [Senders -> Lens \cup {0}]
  /\ asleep \subseteq Senders \cup {Queue!Receiver}

\* A sender that sleeps has a frame to send, and so looks again when it wakes.
QueueInv ==
  /\ QueueTyped
  /\ \A s \in Senders \cap asleep : ps[s] # 0
  /\ Queue!NobodyStranded

\* The receiver is none of the senders, and every frame has its header
\* (croft_msg_validate refuses others, host_queue.c:94): none is of no bytes.
Framed == Queue!Receiver \notin Senders /\ 0 \notin Lens

LEMMA QueueInit == Queue!Init => QueueInv
BY DEF Queue!Init, QueueInv, QueueTyped, Queue!NobodyStranded

\* One step for each action: what it does to the frames and the sleepers.
LEMMA QueueStep == ASSUME Framed PROVE QueueInv /\ [Queue!Next]_(Queue!vars) => QueueInv'
<1>. SUFFICES ASSUME QueueInv, [Queue!Next]_(Queue!vars) PROVE QueueInv'
  OBVIOUS
<1>. USE DEF QueueInv, QueueTyped, Queue!NobodyStranded
<1>1. CASE Queue!Bind
  BY <1>1 DEF Queue!Bind
<1>2. ASSUME NEW s \in Senders, NEW len \in Lens, Queue!CallSend(s, len) PROVE QueueInv'
  BY <1>2 DEF Queue!CallSend, Framed
<1>3. ASSUME NEW s \in Senders, Queue!SendWaits(s) PROVE QueueInv'
  BY <1>3 DEF Queue!SendWaits, Queue!Full, Framed
<1>4. ASSUME NEW s \in Senders, Queue!Send(s) PROVE QueueInv'
  <2>1. ps[s] \in Lens /\ queue' = Append(queue, ps[s]) /\ ps' = [ps EXCEPT ![s] = 0]
        /\ s \notin asleep /\ failed' = failed
    BY <1>4 DEF Queue!Send
  <2>2. queue' \in Seq(Lens) /\ queue' # <<>>
    BY <2>1
  <2>3. asleep' \subseteq asleep /\ Queue!Receiver \notin asleep'
    BY <1>4 DEF Queue!Send, Queue!Signal
  <2>. QED  BY <2>1, <2>2, <2>3
<1>5. ASSUME NEW s \in Senders, Queue!SendFails(s) PROVE QueueInv'
  BY <1>5 DEF Queue!SendFails
<1>6. CASE Queue!RecvWaits
  BY <1>6 DEF Queue!RecvWaits, Framed
<1>7. ASSUME NEW max \in MaxLens, Queue!Recv(max) PROVE QueueInv'
  <2>1. /\ Queue!Receiver \notin asleep /\ queue' = Tail(queue) /\ queue # <<>>
        /\ ps' = ps /\ failed' = failed
    BY <1>7 DEF Queue!Recv
  <2>2. queue' \in Seq(Lens)
    BY <2>1
  <2>3. \/ asleep \cap Senders = {} /\ asleep' = asleep
        \/ \E t \in asleep \cap Senders : asleep' = asleep \ {t}
    BY <1>7 DEF Queue!Recv, Queue!Signal
  <2>. QED  BY <2>1, <2>2, <2>3
<1>8. ASSUME NEW t \in asleep, Queue!Spurious(t) PROVE QueueInv'
  BY <1>8 DEF Queue!Spurious
<1>9. CASE UNCHANGED Queue!vars
  BY <1>9 DEF Queue!vars
<1>. QED  BY <1>1, <1>2, <1>3, <1>4, <1>5, <1>6, <1>7, <1>8, <1>9 DEF Queue!Next

\* No sender or receiver sleeps through its cue while no sender runs out of
\* memory (host_queue.c:114, 148, 176).
THEOREM NobodyIsStranded == ASSUME Framed PROVE Queue!Spec => []Queue!NobodyStranded
<1>1. QueueInv => Queue!NobodyStranded
  BY DEF QueueInv
<1>. QED  BY <1>1, QueueInit, QueueStep, PTL DEF Queue!Spec

---------------------------------------------------------------------------
CONSTANTS Keys, MaxTime, MaxBatch
VARIABLES data, expiry, index, cp, now

Timed == INSTANCE Ttl

(* Values with a time to live                                              *)

\* The clock has an end, beyond which lie the marks for other values.
Timely == MaxTime \in Nat

\* Every key has a value, its time or a mark, and some of them a row of their time.
TtlTyped ==
  /\ data = [k \in Keys |-> data[k]]
  /\ expiry = [k \in DOMAIN expiry |-> expiry[k]] /\ DOMAIN expiry \subseteq Keys

\* The index has exactly the rows of the keys, and they say what the values say.
TtlInv == TtlTyped /\ Timed!RowsAgree

LEMMA TtlInit == ASSUME Timely PROVE Timed!Init => TtlInv
<1>. SUFFICES ASSUME Timed!Init PROVE TtlInv
  OBVIOUS
<1>1. /\ data = [k \in Keys |-> Timed!Gone] /\ expiry = <<>> /\ index = {}
      /\ Timed!Gone \notin Timed!Times
  BY DEF Timed!Init, Timed!Gone, Timed!Times, Timely
<1>2. DOMAIN expiry = {} /\ expiry = [k \in {} |-> expiry[k]]
  BY <1>1
<1>. QED  BY <1>1, <1>2 DEF TtlInv, TtlTyped, Timed!RowsAgree

\* A put takes the index row of the time before away, whatever that was.
LEMMA PutTtlKeeps ==
  ASSUME TtlInv, NEW k \in Keys, NEW t, Timed!PutTtl(k, t)
  PROVE  TtlInv'
<1>1. /\ data' = [data EXCEPT ![k] = t]
      /\ expiry' = [j \in DOMAIN expiry \cup {k} |-> IF j = k THEN t ELSE expiry[j]]
      /\ index' = (index \ {r \in index : k \in DOMAIN expiry /\ r = <<expiry[k], k>>})
                    \cup {<<t, k>>}
  BY DEF Timed!PutTtl
<1>2. index' = {<<expiry'[j], j>> : j \in DOMAIN expiry'}
  BY <1>1 DEF TtlInv, Timed!RowsAgree
<1>. QED  BY <1>1, <1>2 DEF TtlInv, TtlTyped, Timed!RowsAgree

\* A lazy read deletes a key with both of its rows.
LEMMA GetTtlKeeps ==
  ASSUME Timely, TtlInv, NEW k \in Keys, Timed!GetTtl(k)
  PROVE  TtlInv'
<1>1. /\ data' = [data EXCEPT ![k] = Timed!Gone]
      /\ expiry' = [j \in DOMAIN expiry \ {k} |-> expiry[j]]
      /\ index' = index \ {<<expiry[k], k>>}
  BY DEF Timed!GetTtl, Timed!Without
<1>2. index' = {<<expiry'[j], j>> : j \in DOMAIN expiry'}
  BY <1>1 DEF TtlInv, Timed!RowsAgree
<1>3. Timed!Gone \notin Timed!Times
  BY DEF Timed!Gone, Timed!Times, Timely
<1>. QED  BY <1>1, <1>2, <1>3 DEF TtlInv, TtlTyped, Timed!RowsAgree

\* The rows a sweep takes go with the keys they stand for, whichever they are.
LEMMA ExpireKeeps ==
  ASSUME Timely, TtlInv, NEW rows, Timed!Expire(rows)
  PROVE  TtlInv'
<1>. DEFINE took == {rows[i] : i \in DOMAIN rows}
            keys == {k \in DOMAIN expiry : <<expiry[k], k>> \in took}
<1>1. /\ data' = [k \in Keys |-> IF k \in keys THEN Timed!Gone ELSE data[k]]
      /\ expiry' = [k \in DOMAIN expiry \ keys |-> expiry[k]]
      /\ index' = index \ took
  BY DEF Timed!Expire, Timed!Without
<1>2. \A k \in DOMAIN expiry : k \in keys <=> <<expiry[k], k>> \in took
  OBVIOUS
<1>3. Timed!Gone \notin Timed!Times
  BY DEF Timed!Gone, Timed!Times, Timely
<1>. HIDE DEF took, keys
<1>4. index' = {<<expiry'[k], k>> : k \in DOMAIN expiry'}
  BY <1>1, <1>2 DEF TtlInv, Timed!RowsAgree
<1>. QED  BY <1>1, <1>3, <1>4 DEF TtlInv, TtlTyped, Timed!RowsAgree

LEMMA TtlStep == ASSUME Timely PROVE TtlInv /\ [Timed!Next]_(Timed!vars) => TtlInv'
<1>. SUFFICES ASSUME TtlInv, [Timed!Next]_(Timed!vars) PROVE TtlInv'
  OBVIOUS
<1>1. ASSUME NEW k \in Keys, NEW t, Timed!PutTtl(k, t) PROVE TtlInv'
  BY <1>1, PutTtlKeeps
<1>2. ASSUME NEW k \in Keys, Timed!PutPlain(k) \/ Timed!DelPlain(k) PROVE TtlInv'
  <2>1. Timed!Plain \notin Timed!Times /\ Timed!Gone \notin Timed!Times
    BY DEF Timed!Plain, Timed!Gone, Timed!Times, Timely
  <2>. QED  BY <1>2, <2>1 DEF Timed!PutPlain, Timed!DelPlain, TtlInv, TtlTyped, Timed!RowsAgree
<1>3. ASSUME NEW k \in Keys, Timed!GetTtl(k) PROVE TtlInv'
  BY <1>3, GetTtlKeeps
<1>4. ASSUME NEW max, Timed!Sweep(max) \/ Timed!SweepAll(max) PROVE TtlInv'
  BY <1>4, ExpireKeeps DEF Timed!Sweep, Timed!SweepAll
<1>5. CASE UNCHANGED <<data, expiry, index>>
  BY <1>5 DEF TtlInv, TtlTyped, Timed!RowsAgree
<1>6. (\E max : Timed!SweepFails(max)) \/ Timed!ClearCheckpoint \/ Timed!Tick
        => UNCHANGED <<data, expiry, index>>
  BY DEF Timed!SweepFails, Timed!ClearCheckpoint, Timed!Tick
<1>. QED  BY <1>1, <1>2, <1>3, <1>4, <1>5, <1>6 DEF Timed!Next, Timed!vars

\* Whatever is put, read late, swept or fails midway, each lookup row has its index
\* row and each value with a time its lookup row (sapling.c:3482-3880), for any keys
\* and any clock.
THEOREM TtlRowsAgree == ASSUME Timely PROVE Timed!Spec => []Timed!RowsAgree
<1>1. TtlInv => Timed!RowsAgree
  BY DEF TtlInv
<1>. QED  BY <1>1, TtlInit, TtlStep, PTL DEF Timed!Spec

----------------------------------------------------------------------------
CONSTANTS Backings, PageSize, NodeSizes, Align, LinearBytes, Budgets, FirstRoom, MaxNext
VARIABLES backing, next, chunks, free, room, used, budget, held, lost

Slots == INSTANCE Arena

(* The allocator, for any sizes of pages and nodes, any backing and any     *)
(* budget.                                                                 *)

Sizes == NodeSizes \cup {PageSize}

\* Sizes are no larger than the code's integers, nothing is asked for that has
\* no bytes, and pages are laid out as wide as any type needs.
Sized ==
  /\ PageSize \in Nat \ {0} /\ NodeSizes \subseteq Nat \ {0}
  /\ \E m \in Nat : \A s \in NodeSizes : s <= m
  /\ Align \in Nat \ {0} /\ PageSize % Align = 0
  /\ MaxNext \in Nat \ {0}

Block == [at : Nat, size : Nat \ {0}]
Blocks == Block \cup {Slots!None}

\* Where b lies: before the end of what linear memory has given, or at a
\* multiple of the widest size.
Seated(b, end) ==
  IF backing = "linear" THEN b.at + b.size <= end /\ b.at % Align = 0
  ELSE b.size <= Slots!Stride /\ \E k \in 1 .. MaxNext + 1 : b.at = Slots!Stride * k

\* The slots below n and their blocks, no two of which share a byte.
Table(cs, n, end) ==
  /\ cs \in Seq(Blocks) /\ Len(cs) = (IF n = 1 THEN 0 ELSE n)
  /\ \A i \in DOMAIN cs : cs[i] # Slots!None => Seated(cs[i], end)
  /\ \A i, j \in DOMAIN cs :
       i # j /\ cs[i] # Slots!None /\ cs[j] # Slots!None => Slots!Apart(cs[i], cs[j])
  /\ backing = "linear" => \A i \in 2 .. Len(cs) : cs[i] # Slots!None

\* What callers hold, each in a slot of its own.
Owners(hs, cs, n) ==
  /\ \A h \in hs : /\ h.no \in 1 .. n - 1 /\ h.block = cs[h.no + 1] /\ h.block # Slots!None
                   /\ h.kind = "page" => h.block.size >= PageSize
  /\ \A h, g \in hs : h # g => h.no # g.no

\* Each slot is held, on the stack, or lost, and in one place only.
Shared(hs, f, ls, n) ==
  /\ f \in Seq(1 .. n - 1) /\ \A i, j \in DOMAIN f : i # j => f[i] # f[j]
  /\ ls \subseteq 1 .. n - 1
  /\ \A i \in DOMAIN f : f[i] \notin ls
  /\ \A h \in hs : h.no \notin ls /\ \A i \in DOMAIN f : f[i] # h.no
  /\ \A m \in 1 .. n - 1 : \/ m \in ls
                           \/ \E i \in DOMAIN f : f[i] = m
                           \/ \E h \in hs : h.no = m

Kept(cs, n, end, hs, f, ls) ==
  /\ n \in Nat \ {0} /\ n <= MaxNext /\ end \in Nat
  /\ Table(cs, n, end) /\ Owners(hs, cs, n) /\ Shared(hs, f, ls, n)

ArenaInv == Kept(chunks, next, used, held, free, lost)

\* The largest of finitely many sizes.
LEMMA LargestIs ==
  ASSUME NEW S \in SUBSET Nat, S # {}, NEW m \in Nat, \A s \in S : s <= m
  PROVE  Slots!Largest(S) \in S /\ \A s \in S : s <= Slots!Largest(S)
<1>. DEFINE U == {u \in Nat : \A s \in S : s <= u}
<1>1. PICK u \in U : \A v \in U : u <= v
  <2>1. U \in SUBSET Nat /\ U # {}
    OBVIOUS
  <2>. QED  BY <2>1, LeastExists
<1>2. u \in S
  <2>. SUFFICES ASSUME u \notin S PROVE FALSE
    OBVIOUS
  <2>1. \A s \in S : s \in Nat /\ s <= u /\ s # u
    BY <1>1
  <2>2. u \in Nat /\ u # 0
    <3>1. PICK s \in S : TRUE
      OBVIOUS
    <3>2. u \in Nat /\ s \in Nat /\ s <= u /\ s # u
      BY <1>1, <2>1
    <3>. QED  BY <3>2
  <2>3. u - 1 \in U
    BY <2>1, <2>2
  <2>. QED  BY <1>1, <2>2, <2>3
<1>3. \E x \in S : \A s \in S : s <= x
  BY <1>1, <1>2
<1>. QED  BY <1>3 DEF Slots!Largest

LEMMA StrideIs ==
  ASSUME Sized
  PROVE  Slots!Stride \in Nat \ {0} /\ \A s \in Sizes : s \in Nat \ {0} /\ s <= Slots!Stride
<1>1. PICK m \in Nat : \A s \in NodeSizes : s <= m
  BY DEF Sized
<1>2. PICK k \in Nat : \A s \in Sizes : s <= k
  <2>1. \A s \in Sizes : s <= m + PageSize
    BY <1>1 DEF Sized, Sizes
  <2>. QED  BY <2>1 DEF Sized
<1>3. Sizes \in SUBSET Nat /\ Sizes # {} /\ \A s \in Sizes : s # 0
  BY DEF Sized, Sizes
<1>4. Slots!Largest(Sizes) \in Sizes /\ \A s \in Sizes : s <= Slots!Largest(Sizes)
  BY <1>2, <1>3, LargestIs
<1>. QED  BY <1>3, <1>4 DEF Slots!Stride, Sizes

\* Places at multiples of the widest size.
LEMMA Multiples ==
  ASSUME NEW w \in Nat \ {0}, NEW i \in Nat, NEW j \in Nat
  PROVE  /\ w * i \in Nat
         /\ i < j => w * i + w <= w * j
         /\ i # j => w * i # w * j
<1>1. w * i \in Nat /\ w * j \in Nat
  OBVIOUS
<1>2. ASSUME NEW a \in Nat, NEW b \in Nat, a < b PROVE w * a + w <= w * b
  <2>1. PICK d \in Nat : b = a + 1 + d
    <3>1. b - a - 1 \in Nat /\ b = a + 1 + (b - a - 1)
      BY <1>2
    <3>. QED  BY <3>1
  <2>2. w * b = w * a + w + w * d /\ w * d \in Nat /\ w * a \in Nat
    BY <2>1
  <2>. QED  BY <2>2
<1>3. ASSUME NEW a \in Nat, NEW b \in Nat, a < b PROVE w * a < w * b
  <2>1. w * a \in Nat /\ w * b \in Nat
    OBVIOUS
  <2>. QED  BY <1>2, <1>3, <2>1
<1>4. i # j => w * i # w * j
  <2>1. CASE i < j
    BY <1>1, <1>3, <2>1
  <2>2. CASE j < i
    BY <1>1, <1>3, <2>2
  <2>. QED  BY <2>1, <2>2
<1>. QED  BY <1>1, <1>2, <1>4

\* Rounding up goes no lower, and to a multiple.
LEMMA RoundedUp ==
  ASSUME NEW u \in Nat, NEW a \in Nat \ {0}
  PROVE  /\ Slots!RoundUp(u, a) \in Nat /\ Slots!RoundUp(u, a) >= u
         /\ \E q \in Nat : Slots!RoundUp(u, a) = q * a
<1>1. PICK q : q = (u + a - 1) \div a
  OBVIOUS
<1>2. u + a - 1 \in Nat
  OBVIOUS
<1>3. q \in Nat /\ (u + a - 1) = a * q + ((u + a - 1) % a) /\ (u + a - 1) % a \in 0 .. a - 1
  BY <1>1, <1>2
<1>4. Slots!RoundUp(u, a) = q * a
  BY <1>1 DEF Slots!RoundUp
<1>5. q * a \in Nat /\ q * a = a * q
  BY <1>3
<1>6. a * q >= u
  BY <1>2, <1>3, <1>5
<1>. QED  BY <1>3, <1>4, <1>5, <1>6

\* A multiple of a multiple.
LEMMA Aligned ==
  ASSUME Sized, NEW a \in {Align, PageSize}, NEW q \in Nat
  PROVE  (q * a) % Align = 0
<1>1. PICK r \in Nat : a = r * Align
  <2>1. CASE a = Align
    <3>1. a = 1 * Align
      BY <2>1 DEF Sized
    <3>. QED  BY <3>1
  <2>2. CASE a = PageSize
    <3>1. PageSize = Align * (PageSize \div Align) + (PageSize % Align) /\ PageSize \div Align \in Nat
      BY DEF Sized
    <3>2. PageSize = (PageSize \div Align) * Align
      BY <3>1 DEF Sized
    <3>. QED  BY <2>2, <3>1, <3>2
  <2>. QED  BY <2>1, <2>2
<1>2. q * a = (q * r) * Align /\ q * r \in Nat
  BY <1>1 DEF Sized
<1>3. ASSUME NEW x \in Nat PROVE (x * Align) % Align = 0
  BY DEF Sized
<1>. QED  BY <1>2, <1>3

\* cs with block b in slot i: as long as before, or longer by what was missing.
Filled(to, cs, i, b) ==
  /\ to \in Seq(Blocks)
  /\ Len(to) = (IF i < Len(cs) THEN Len(cs) ELSE i + 1)
  /\ to[i + 1] = b
  /\ \A j \in DOMAIN to \ {i + 1} : to[j] = IF j \in DOMAIN cs THEN cs[j] ELSE Slots!None

LEMMA WithIs ==
  ASSUME NEW cs \in Seq(Blocks), NEW i \in Nat, NEW b \in Blocks
  PROVE  Filled(Slots!With(cs, i, b), cs, i, b)
<1>1. PICK m : m = IF i < Len(cs) THEN Len(cs) ELSE i + 1
  OBVIOUS
<1>2. Slots!Largest({Len(cs), i + 1}) = m
  <2>1. PICK S : S = {Len(cs), i + 1}
    OBVIOUS
  <2>2. m \in S /\ \A y \in S : y <= m
    BY <1>1, <2>1
  <2>3. S \in SUBSET Nat /\ S # {} /\ m \in Nat
    BY <1>1, <2>1
  <2>4. Slots!Largest(S) \in S /\ \A s \in S : s <= Slots!Largest(S)
    BY <2>2, <2>3, LargestIs
  <2>5. m <= Slots!Largest(S) /\ Slots!Largest(S) <= m /\ Slots!Largest(S) \in Nat
    BY <2>2, <2>3, <2>4
  <2>. QED  BY <2>1, <2>3, <2>5
<1>3. PICK none : none = Slots!None
  OBVIOUS
<1>4. none \in Blocks
  BY <1>3 DEF Blocks
<1>5. PICK to : to = [k \in 1 .. m |-> IF k = i + 1 THEN b ELSE IF k <= Len(cs) THEN cs[k] ELSE none]
  OBVIOUS
<1>6. m \in Nat /\ i + 1 \in 1 .. m /\ DOMAIN cs = 1 .. Len(cs) /\ Len(cs) \in Nat
  BY <1>1
<1>7. \A k \in 1 .. m : to[k] = IF k = i + 1 THEN b ELSE IF k \in DOMAIN cs THEN cs[k] ELSE none
  BY <1>5, <1>6
<1>8. DOMAIN to = 1 .. m /\ to = [k \in 1 .. m |-> to[k]]
  BY <1>5
<1>9. \A k \in 1 .. m : to[k] \in Blocks
  BY <1>4, <1>6, <1>7
<1>10. to \in Seq(Blocks) /\ Len(to) = m
  BY <1>6, <1>8, <1>9
<1>11. Slots!With(cs, i, b) = to
  BY <1>2, <1>3, <1>5 DEF Slots!With
<1>. QED  BY <1>1, <1>3, <1>6, <1>7, <1>8, <1>10, <1>11 DEF Filled

\* Memory that was got: of the size asked for, and apart from what there is.
Got(b, cs, end, after) ==
  /\ b \in Block /\ b # Slots!None /\ Seated(b, after)
  /\ after \in Nat /\ end <= after
  /\ \A i \in DOMAIN cs : cs[i] # Slots!None =>
       Slots!Apart(cs[i], b) /\ Slots!Apart(b, cs[i])

LEMMA BlockIsSome == \A b \in Block : b # Slots!None /\ b.at \in Nat /\ b.size \in Nat \ {0}
BY DEF Block, Slots!None

\* Some multiple of the widest size is free: there are more of them than slots.
LEMMA PlaceLeft ==
  ASSUME Sized, NEW cs \in Seq(Blocks), Len(cs) <= MaxNext
  PROVE  \E k \in 1 .. MaxNext + 1 : \A i \in DOMAIN cs : cs[i].at # Slots!Stride * k
<1>. DEFINE K == 1 .. MaxNext + 1
            f == [k \in K |-> CHOOSE i \in DOMAIN cs : cs[i].at = Slots!Stride * k]
<1>. SUFFICES ASSUME \A k \in K : \E i \in DOMAIN cs : cs[i].at = Slots!Stride * k
              PROVE  FALSE
  OBVIOUS
<1>1. \A k \in K : f[k] \in DOMAIN cs /\ cs[f[k]].at = Slots!Stride * k
  OBVIOUS
<1>2. /\ IsFiniteSet(K) /\ IsFiniteSet(DOMAIN cs)
      /\ Cardinality(DOMAIN cs) < Cardinality(K)
  <2>1. DOMAIN cs = 1 .. Len(cs) /\ Len(cs) \in Nat /\ MaxNext \in Nat \ {0}
    BY DEF Sized
  <2>2. IsFiniteSet(1 .. Len(cs)) /\ Cardinality(1 .. Len(cs)) <= Len(cs)
    <3>1. PICK l \in Nat : l = Len(cs)
      BY <2>1
    <3>2. IsFiniteSet(1 .. l) /\ Cardinality(1 .. l) = IF 1 > l THEN 0 ELSE l - 1 + 1
      BY FS_Interval
    <3>3. Cardinality(1 .. l) <= l
      BY <3>2
    <3>. QED  BY <3>1, <3>2, <3>3
  <2>3. IsFiniteSet(K) /\ Cardinality(K) = MaxNext + 1
    BY <2>1, FS_Interval
  <2>4. Cardinality(1 .. Len(cs)) \in Nat
    BY <2>2, FS_CardinalityType
  <2>. QED  BY <2>1, <2>2, <2>3, <2>4
<1>3. f \in [K -> DOMAIN cs]
  BY <1>1
<1>. HIDE DEF f
<1>4. PICK x, y \in K : x # y /\ f[x] = f[y]
  <2>1. PICK D : D = DOMAIN cs
    OBVIOUS
  <2>2. IsFiniteSet(K) /\ IsFiniteSet(D) /\ Cardinality(D) < Cardinality(K) /\ f \in [K -> D]
    BY <1>2, <1>3, <2>1, Zenon
  <2>. HIDE DEF K
  <2>. QED  BY <2>2, FS_PigeonHole
<1>5. cs[f[x]].at = Slots!Stride * x /\ cs[f[y]].at = Slots!Stride * y
  BY <1>1
<1>6. x \in Nat /\ y \in Nat /\ Slots!Stride * x = Slots!Stride * y
  BY <1>4, <1>5 DEF Sized
<1>. QED  BY <1>4, <1>6, StrideIs, Multiples

LEMMA NewBlockIs ==
  ASSUME Sized, NEW cs, NEW n \in Nat \ {0}, n <= MaxNext, used \in Nat, cs = chunks,
         Table(cs, n, used), NEW size \in Sizes, NEW align \in {Align, PageSize},
         NEW b \in Slots!NewBlocks(size, align), NEW after, after = Slots!UsedAfter(b)
  PROVE  Got(b, cs, used, after) /\ b.size = size
<1>1. size \in Nat \ {0} /\ size <= Slots!Stride /\ Slots!Stride \in Nat \ {0}
  BY StrideIs
<1>2. cs \in Seq(Blocks) /\ Len(cs) <= MaxNext
  BY DEF Table, Sized
<1>3. \A i \in DOMAIN cs : cs[i] # Slots!None => cs[i] \in Block /\ Seated(cs[i], used)
  BY <1>2 DEF Table, Blocks
<1>4. CASE backing = "linear"
  <2>1. PICK at : at = Slots!RoundUp(used, align)
    OBVIOUS
  <2>2. b = [at |-> at, size |-> size] /\ after = b.at + b.size
    BY <1>4, <2>1 DEF Slots!NewBlocks, Slots!UsedAfter
  <2>3. at \in Nat /\ at >= used /\ at % Align = 0
    <3>1. align \in Nat \ {0}
      BY DEF Sized
    <3>2. at \in Nat /\ at >= used /\ \E q \in Nat : at = q * align
      BY <2>1, <3>1, RoundedUp
    <3>. QED  BY <3>2, Aligned
  <2>4. b \in Block /\ b.at = at /\ b.size = size /\ after = at + size
    BY <1>1, <2>2, <2>3 DEF Block
  <2>5. after \in Nat /\ used <= after
    BY <1>1, <2>3, <2>4
  <2>6. Seated(b, after)
    BY <1>4, <2>3, <2>4, <2>5 DEF Seated
  <2>7. ASSUME NEW i \in DOMAIN cs, cs[i] # Slots!None
        PROVE  Slots!Apart(cs[i], b) /\ Slots!Apart(b, cs[i])
    <3>1. cs[i].at + cs[i].size <= used /\ cs[i].at \in Nat /\ cs[i].size \in Nat
      BY <1>3, <1>4, <2>7, BlockIsSome DEF Seated
    <3>2. cs[i].at + cs[i].size <= b.at
      BY <2>3, <2>4, <3>1
    <3>. QED  BY <3>2 DEF Slots!Apart
  <2>. QED  BY <2>4, <2>5, <2>6, <2>7, BlockIsSome DEF Got
<1>5. CASE backing # "linear"
  <2>. DEFINE F == {k \in 1 .. MaxNext + 1 : ~Slots!InUse(Slots!Stride * k)}
  <2>1. F \in SUBSET Nat /\ F # {}
    <3>1. PICK k \in 1 .. MaxNext + 1 : \A i \in DOMAIN cs : cs[i].at # Slots!Stride * k
      BY <1>2, PlaceLeft
    <3>2. ~Slots!InUse(Slots!Stride * k)
      BY <3>1 DEF Slots!InUse
    <3>. QED  BY <3>2
  <2>2. PICK l \in F : \A t \in F : l <= t
    BY <2>1, LeastExists
  <2>3. \A j \in 1 .. l - 1 : Slots!InUse(Slots!Stride * j)
    <3>1. l \in 1 .. MaxNext + 1 /\ MaxNext \in Nat
      BY DEF Sized
    <3>2. \A j \in 1 .. l - 1 : j \in 1 .. MaxNext + 1 /\ ~(l <= j)
      BY <3>1
    <3>. QED  BY <2>2, <3>2
  <2>4. PICK k : k = CHOOSE m \in 1 .. MaxNext + 1 :
           ~Slots!InUse(Slots!Stride * m) /\ \A j \in 1 .. m - 1 : Slots!InUse(Slots!Stride * j)
    OBVIOUS
  <2>5. k \in 1 .. MaxNext + 1 /\ ~Slots!InUse(Slots!Stride * k)
    BY <2>2, <2>3, <2>4
  <2>6. PICK w : w = Slots!Stride
    OBVIOUS
  <2>7. b = [at |-> w * k, size |-> size] /\ after = used
    BY <1>5, <2>4, <2>6 DEF Slots!NewBlocks, Slots!UsedAfter
  <2>8. w \in Nat \ {0} /\ k \in Nat \ {0} /\ w * k \in Nat
    BY <1>1, <2>5, <2>6 DEF Sized
  <2>9. b \in Block /\ b.at = w * k /\ b.size = size
    BY <1>1, <2>7, <2>8 DEF Block
  <2>10. Seated(b, after)
    BY <1>1, <1>5, <2>5, <2>6, <2>9 DEF Seated
  <2>11. ASSUME NEW i \in DOMAIN cs, cs[i] # Slots!None
         PROVE  Slots!Apart(cs[i], b) /\ Slots!Apart(b, cs[i])
    <3>1. PICK j \in 1 .. MaxNext + 1 : cs[i].at = w * j
      BY <1>3, <1>5, <2>6, <2>11 DEF Seated
    <3>2. cs[i].size <= w /\ cs[i].at \in Nat /\ cs[i].size \in Nat
      BY <1>3, <1>5, <2>6, <2>11, BlockIsSome DEF Seated
    <3>3. j # k /\ j \in Nat
      BY <2>5, <2>6, <2>11, <3>1 DEF Slots!InUse, Sized
    <3>4. w * j \in Nat /\ w * k \in Nat
      BY <2>8, <3>3
    <3>5. w * j + w <= w * k \/ w * k + w <= w * j
      <4>1. CASE j < k
        BY <2>8, <3>3, <4>1, Multiples
      <4>2. CASE k < j
        BY <2>8, <3>3, <4>2, Multiples
      <4>. QED  BY <2>8, <3>3, <4>1, <4>2
    <3>6. size <= w
      BY <1>1, <2>6
    <3>7. cs[i].at + cs[i].size <= b.at \/ b.at + b.size <= cs[i].at
      BY <1>1, <2>8, <2>9, <3>1, <3>2, <3>4, <3>5, <3>6
    <3>. QED  BY <3>7 DEF Slots!Apart
  <2>. QED  BY <2>7, <2>9, <2>10, <2>11, BlockIsSome DEF Got
<1>. QED  BY <1>4, <1>5

\* A block that was got, put where none is: in slot i, or in the next one, n.
LEMMA TableSet ==
  ASSUME NEW cs, NEW n \in Nat \ {0}, NEW end \in Nat, NEW after, NEW i, NEW b,
         Table(cs, n, end), Got(b, cs, end, after),
         NEW m, \/ i \in 1 .. n - 1 /\ m = n
                \/ i = n /\ m = n + 1,
         NEW to, Filled(to, cs, i, b)
  PROVE  Table(to, m, after)
<1>1. /\ cs \in Seq(Blocks) /\ Len(cs) = (IF n = 1 THEN 0 ELSE n) /\ DOMAIN cs = 1 .. Len(cs)
      /\ i \in Nat \ {0} /\ m \in Nat \ {0, 1} /\ end <= after /\ after \in Nat
      /\ b # Slots!None /\ Seated(b, after)
  BY DEF Table, Got
<1>2. to \in Seq(Blocks) /\ Len(to) = m /\ DOMAIN to = 1 .. m /\ to[i + 1] = b
  BY <1>1 DEF Filled
<1>3. \A j \in DOMAIN to \ {i + 1} : to[j] # Slots!None => j \in DOMAIN cs /\ to[j] = cs[j]
  BY DEF Filled
<1>4. ASSUME NEW j \in DOMAIN to, to[j] # Slots!None
      PROVE  Seated(to[j], after)
  <2>1. CASE j = i + 1
    BY <1>1, <1>2, <2>1
  <2>2. CASE j # i + 1
    <3>1. j \in DOMAIN cs /\ to[j] = cs[j] /\ cs[j] # Slots!None
      BY <1>3, <1>4, <2>2
    <3>2. Seated(cs[j], end) /\ cs[j] \in Block
      BY <1>1, <3>1 DEF Table, Blocks
    <3>3. Seated(cs[j], after)
      BY <1>1, <3>2, BlockIsSome DEF Seated
    <3>. QED  BY <3>1, <3>3
  <2>. QED  BY <2>1, <2>2
<1>5. ASSUME NEW j \in DOMAIN to, NEW k \in DOMAIN to, j # k, to[j] # Slots!None, to[k] # Slots!None
      PROVE  Slots!Apart(to[j], to[k])
  <2>1. CASE j = i + 1
    <3>1. k \in DOMAIN cs /\ to[k] = cs[k] /\ cs[k] # Slots!None
      BY <1>3, <1>5, <2>1
    <3>. QED  BY <1>2, <2>1, <3>1 DEF Got
  <2>2. CASE k = i + 1
    <3>1. j \in DOMAIN cs /\ to[j] = cs[j] /\ cs[j] # Slots!None
      BY <1>3, <1>5, <2>2
    <3>. QED  BY <1>2, <2>2, <3>1 DEF Got
  <2>3. CASE j # i + 1 /\ k # i + 1
    <3>1. /\ j \in DOMAIN cs /\ to[j] = cs[j] /\ cs[j] # Slots!None
          /\ k \in DOMAIN cs /\ to[k] = cs[k] /\ cs[k] # Slots!None
      BY <1>3, <1>5, <2>3
    <3>. QED  BY <1>5, <3>1 DEF Table
  <2>. QED  BY <2>1, <2>2, <2>3
<1>6. ASSUME backing = "linear", NEW j \in 2 .. Len(to)
      PROVE  to[j] # Slots!None
  <2>1. CASE j = i + 1
    BY <1>1, <1>2, <2>1
  <2>2. CASE j # i + 1
    <3>1. j \in DOMAIN to /\ j \in DOMAIN cs /\ j \in 2 .. Len(cs)
      BY <1>1, <1>2, <1>6, <2>2
    <3>2. to[j] = cs[j]
      BY <2>2, <3>1 DEF Filled
    <3>. QED  BY <1>6, <3>1, <3>2 DEF Table
  <2>. QED  BY <2>1, <2>2
<1>. QED  BY <1>1, <1>2, <1>4, <1>5, <1>6 DEF Table

\* A slot is emptied.
LEMMA TableCleared ==
  ASSUME NEW cs, NEW n \in Nat \ {0}, NEW end, Table(cs, n, end), backing # "linear",
         NEW i \in 1 .. n - 1, NEW to, Filled(to, cs, i, Slots!None)
  PROVE  Table(to, n, end)
<1>1. cs \in Seq(Blocks) /\ Len(cs) = n /\ DOMAIN cs = 1 .. n /\ i + 1 \in 1 .. n
  BY DEF Table
<1>2. to \in Seq(Blocks) /\ Len(to) = n /\ DOMAIN to = 1 .. n
  BY <1>1 DEF Filled
<1>3. \A j \in DOMAIN to : to[j] # Slots!None => j \in DOMAIN cs /\ to[j] = cs[j]
  BY <1>1, <1>2 DEF Filled
<1>. QED  BY <1>1, <1>2, <1>3 DEF Table

---------------------------------------------------------------------------
(* The steps of the state as a whole.                                       *)

\* Someone holds what has been put into slot i, and nobody held that slot.
LEMMA OwnersTake ==
  ASSUME NEW hs, NEW cs, NEW n \in Nat \ {0}, Owners(hs, cs, n), NEW end, Table(cs, n, end),
         NEW i, NEW m, \/ i \in 1 .. n - 1 /\ m = n /\ \A h \in hs : h.no # i
                       \/ i = n /\ m = n + 1,
         NEW to, NEW b, Filled(to, cs, i, b), b # Slots!None,
         NEW x, x.no = i, x.block = b, x.kind = "page" => b.size >= PageSize
  PROVE  Owners(hs \cup {x}, to, m)
<1>1. /\ DOMAIN cs = 1 .. Len(cs) /\ Len(cs) = (IF n = 1 THEN 0 ELSE n)
      /\ i \in 1 .. m - 1 /\ m \in Nat /\ i \in Nat /\ n <= m
  BY DEF Table
<1>2. /\ \A h \in hs : /\ h.no \in 1 .. n - 1 /\ h.block = cs[h.no + 1] /\ h.block # Slots!None
                       /\ h.kind = "page" => h.block.size >= PageSize
      /\ \A h, g \in hs : h # g => h.no # g.no
  BY DEF Owners
<1>3. \A h \in hs : h.no # i /\ h.no \in 1 .. m - 1
  BY <1>1, <1>2
<1>4. \A h \in hs : to[h.no + 1] = cs[h.no + 1]
  <2>. SUFFICES ASSUME NEW h \in hs PROVE to[h.no + 1] = cs[h.no + 1]
    OBVIOUS
  <2>1. PICK k : k = h.no
    OBVIOUS
  <2>2. k \in 1 .. n - 1 /\ k # i
    BY <1>2, <1>3, <2>1
  <2>3. k + 1 \in DOMAIN cs /\ k + 1 # i + 1 /\ k + 1 \in 1 .. Len(to)
    BY <1>1, <2>2 DEF Filled
  <2>4. k + 1 \in DOMAIN to
    BY <2>3 DEF Filled
  <2>. QED  BY <2>1, <2>3, <2>4 DEF Filled
<1>5. to[i + 1] = b
  BY DEF Filled
<1>6. ASSUME NEW h \in hs \cup {x}
      PROVE  /\ h.no \in 1 .. m - 1 /\ h.block = to[h.no + 1] /\ h.block # Slots!None
             /\ h.kind = "page" => h.block.size >= PageSize
  <2>1. CASE h = x
    BY <1>1, <1>5, <2>1
  <2>2. CASE h \in hs
    BY <1>2, <1>3, <1>4, <2>2
  <2>. QED  BY <1>6, <2>1, <2>2
<1>7. ASSUME NEW h \in hs \cup {x}, NEW g \in hs \cup {x}, h # g PROVE h.no # g.no
  <2>1. CASE h = x
    BY <1>3, <1>7, <2>1
  <2>2. CASE g = x
    BY <1>3, <1>7, <2>2
  <2>3. CASE h # x /\ g # x
    BY <1>2, <1>7, <2>3
  <2>. QED  BY <2>1, <2>2, <2>3
<1>. QED  BY <1>6, <1>7 DEF Owners

LEMMA SeqWider ==
  ASSUME NEW A, NEW B, A \subseteq B, NEW f \in Seq(A)
  PROVE  f \in Seq(B)
OBVIOUS

\* A slot that was nobody's is claimed: a new one.
LEMMA Claimed ==
  ASSUME NEW cs, NEW n, NEW end, NEW hs, NEW f, NEW ls, Kept(cs, n, end, hs, f, ls),
         n < MaxNext, MaxNext \in Nat,
         NEW b, NEW after, Got(b, cs, end, after),
         NEW x, x.no = n, x.block = b, x.kind = "page" => b.size >= PageSize
  PROVE  Kept(Slots!With(cs, n, b), n + 1, after, hs \cup {x}, f, ls)
<1>1. PICK to : to = Slots!With(cs, n, b)
  OBVIOUS
<1>2. /\ n \in Nat \ {0} /\ end \in Nat /\ Table(cs, n, end) /\ Owners(hs, cs, n) /\ Shared(hs, f, ls, n)
      /\ b # Slots!None /\ after \in Nat
  BY DEF Kept, Got
<1>3. Filled(to, cs, n, b)
  <2>1. cs \in Seq(Blocks) /\ b \in Blocks
    BY <1>2 DEF Table, Got, Blocks
  <2>. QED  BY <1>1, <1>2, <2>1, WithIs
<1>4. Table(to, n + 1, after)
  BY <1>2, <1>3, TableSet
<1>5. Owners(hs \cup {x}, to, n + 1)
  BY <1>2, <1>3, OwnersTake
<1>6. Shared(hs \cup {x}, f, ls, n + 1)
  <2>0. PICK k : k = n + 1
    OBVIOUS
  <2>1. /\ f \in Seq(1 .. n - 1) /\ \A i, j \in DOMAIN f : i # j => f[i] # f[j]
        /\ ls \subseteq 1 .. n - 1
        /\ \A i \in DOMAIN f : f[i] \notin ls
        /\ \A h \in hs : h.no \notin ls /\ \A i \in DOMAIN f : f[i] # h.no
        /\ \A m \in 1 .. n - 1 : m \in ls \/ (\E i \in DOMAIN f : f[i] = m) \/ \E h \in hs : h.no = m
    BY <1>2 DEF Shared
  <2>2. f \in Seq(1 .. k - 1) /\ ls \subseteq 1 .. k - 1
    <3>1. 1 .. n - 1 \subseteq 1 .. k - 1
      BY <1>2, <2>0
    <3>2. f \in Seq(1 .. n - 1) /\ ls \subseteq 1 .. n - 1
      BY <2>1
    <3>3. PICK A, B : A = 1 .. n - 1 /\ B = 1 .. k - 1
      OBVIOUS
    <3>4. A \subseteq B /\ f \in Seq(A)
      BY <3>1, <3>2, <3>3
    <3>5. f \in Seq(B)
      BY <3>4, SeqWider
    <3>. QED  BY <3>1, <3>2, <3>3, <3>5
  <2>3. n \notin ls /\ \A i \in DOMAIN f : f[i] # n
    BY <1>2, <2>1
  <2>4. \A h \in hs \cup {x} : h.no \notin ls /\ \A i \in DOMAIN f : f[i] # h.no
    BY <2>1, <2>3
  <2>5. ASSUME NEW m \in 1 .. k - 1
        PROVE  m \in ls \/ (\E i \in DOMAIN f : f[i] = m) \/ \E h \in hs \cup {x} : h.no = m
    <3>1. CASE m = n
      BY <3>1
    <3>2. CASE m # n
      <4>1. m \in 1 .. n - 1
        BY <1>2, <2>0, <3>2
      <4>. QED  BY <2>1, <4>1
    <3>. QED  BY <3>1, <3>2
  <2>6. Shared(hs \cup {x}, f, ls, k)
    BY <2>1, <2>2, <2>4, <2>5 DEF Shared
  <2>. QED  BY <2>0, <2>6
<1>7. n + 1 \in Nat \ {0} /\ n + 1 <= MaxNext
  BY <1>2
<1>. QED  BY <1>1, <1>2, <1>4, <1>5, <1>6, <1>7 DEF Kept

LEMMA FrontIs ==
  ASSUME NEW S, NEW f \in Seq(S), f # <<>>, NEW l, l = Len(f)
  PROVE  LET g == Slots!Front(f)
         IN  g \in Seq(S) /\ DOMAIN g = 1 .. l - 1 /\ \A k \in 1 .. l - 1 : g[k] = f[k]
<1>1. l \in Nat \ {0} /\ DOMAIN f = 1 .. l
  OBVIOUS
<1>2. PICK g : g = SubSeq(f, 1, l - 1)
  OBVIOUS
<1>3. Len(g) = l - 1 /\ \A k \in 1 .. l - 1 : g[k] = f[k]
  BY <1>1, <1>2
<1>4. g \in Seq(S) /\ DOMAIN g = 1 .. l - 1
  <2>1. \A k \in 1 .. l - 1 : f[k] \in S
    BY <1>1
  <2>. QED  BY <1>1, <1>2, <1>3, <2>1
<1>. QED  BY <1>2, <1>3, <1>4 DEF Slots!Front

\* The slot on top of the stack is taken, with the block that is there.
LEMMA Recycled ==
  ASSUME NEW cs, NEW n, NEW end, NEW hs, NEW f, NEW ls, Kept(cs, n, end, hs, f, ls), f # <<>>,
         NEW i, i = f[Len(f)], NEW to, NEW after \in Nat, NEW b, b # Slots!None,
         Filled(to, cs, i, b), Table(to, n, after),
         NEW x, x.no = i, x.block = b, x.kind = "page" => b.size >= PageSize
  PROVE  Kept(to, n, after, hs \cup {x}, Slots!Front(f), ls)
<1>1. /\ n \in Nat \ {0} /\ n <= MaxNext /\ end \in Nat
      /\ Table(cs, n, end) /\ Owners(hs, cs, n) /\ Shared(hs, f, ls, n)
  BY DEF Kept
<1>2. /\ f \in Seq(1 .. n - 1) /\ \A k, j \in DOMAIN f : k # j => f[k] # f[j]
      /\ ls \subseteq 1 .. n - 1
      /\ \A k \in DOMAIN f : f[k] \notin ls
      /\ \A h \in hs : h.no \notin ls /\ \A k \in DOMAIN f : f[k] # h.no
      /\ \A m \in 1 .. n - 1 : m \in ls \/ (\E k \in DOMAIN f : f[k] = m) \/ \E h \in hs : h.no = m
  BY <1>1 DEF Shared
<1>3. PICK l : l = Len(f)
  OBVIOUS
<1>4. l \in Nat \ {0} /\ DOMAIN f = 1 .. l /\ l \in DOMAIN f
  BY <1>2, <1>3
<1>5. i \in 1 .. n - 1 /\ i = f[l]
  <2>1. PICK S : S = 1 .. n - 1
    OBVIOUS
  <2>2. f \in Seq(S) /\ l \in DOMAIN f
    BY <1>2, <1>4, <2>1
  <2>3. f[l] \in S
    BY <2>2
  <2>. QED  BY <1>3, <2>1, <2>3
<1>6. \A h \in hs : h.no # i
  BY <1>2, <1>4, <1>5
<1>7. Owners(hs \cup {x}, to, n)
  BY <1>1, <1>5, <1>6, OwnersTake
<1>8. PICK g : g = Slots!Front(f)
  OBVIOUS
<1>9. /\ g \in Seq(1 .. n - 1) /\ DOMAIN g = 1 .. l - 1
      /\ \A k \in 1 .. l - 1 : g[k] = f[k] /\ k \in DOMAIN f /\ k # l
  <2>1. PICK S : S = 1 .. n - 1
    OBVIOUS
  <2>2. f \in Seq(S)
    BY <1>2, <2>1
  <2>3. g \in Seq(S) /\ DOMAIN g = 1 .. l - 1 /\ \A k \in 1 .. l - 1 : g[k] = f[k]
    BY <1>3, <1>8, <2>2, FrontIs
  <2>4. \A k \in 1 .. l - 1 : k \in DOMAIN f /\ k # l
    BY <1>4
  <2>. QED  BY <2>1, <2>3, <2>4
<1>10. Shared(hs \cup {x}, g, ls, n)
  <2>1. \A k, j \in DOMAIN g : k # j => g[k] # g[j]
    BY <1>2, <1>9
  <2>2. \A k \in DOMAIN g : g[k] \notin ls /\ g[k] # i
    BY <1>2, <1>4, <1>5, <1>9
  <2>3. i \notin ls
    BY <1>2, <1>4, <1>5
  <2>4. \A h \in hs \cup {x} : h.no \notin ls /\ \A k \in DOMAIN g : g[k] # h.no
    BY <1>2, <1>9, <2>2, <2>3
  <2>5. ASSUME NEW m \in 1 .. n - 1
        PROVE  m \in ls \/ (\E k \in DOMAIN g : g[k] = m) \/ \E h \in hs \cup {x} : h.no = m
    <3>1. CASE m = i
      BY <3>1
    <3>2. CASE m # i
      <4>1. ASSUME NEW k \in DOMAIN f, f[k] = m PROVE \E j \in DOMAIN g : g[j] = m
        <5>1. k # l /\ k \in 1 .. l - 1
          BY <1>4, <1>5, <3>2, <4>1
        <5>. QED  BY <1>9, <4>1, <5>1
      <4>. QED  BY <1>2, <4>1
    <3>. QED  BY <3>1, <3>2
  <2>. QED  BY <1>2, <1>9, <2>1, <2>2, <2>4, <2>5 DEF Shared
<1>. QED  BY <1>1, <1>7, <1>8, <1>10 DEF Kept

\* Slot i goes onto the stack, or is lost.
Returned(g, ms, f, ls, i) ==
  \/ g = Append(f, i) /\ ms = ls
  \/ g = f /\ ms = ls \cup {i}

\* What was held is given back; its slot keeps its block or is emptied.
LEMMA GivenBack ==
  ASSUME NEW cs, NEW n, NEW end, NEW hs, NEW f, NEW ls, Kept(cs, n, end, hs, f, ls),
         NEW h \in hs, NEW to, to \in {cs, Slots!Without(cs, h.no)},
         NEW g, NEW ms, Returned(g, ms, f, ls, h.no)
  PROVE  Kept(to, n, end, hs \ {h}, g, ms)
<1>0. PICK i : i = h.no
  OBVIOUS
<1>1. /\ n \in Nat \ {0} /\ n <= MaxNext /\ end \in Nat
      /\ Table(cs, n, end) /\ Owners(hs, cs, n) /\ Shared(hs, f, ls, n)
  BY DEF Kept
<1>2. /\ \A k \in hs : /\ k.no \in 1 .. n - 1 /\ k.block = cs[k.no + 1] /\ k.block # Slots!None
                       /\ k.kind = "page" => k.block.size >= PageSize
      /\ \A k, j \in hs : k # j => k.no # j.no
  BY <1>1 DEF Owners
<1>3. i \in 1 .. n - 1 /\ i + 1 \in 1 .. n /\ \A k \in hs \ {h} : k.no # i
  BY <1>0, <1>1, <1>2
<1>4. Owners(hs \ {h}, cs, n)
  BY <1>2 DEF Owners
<1>5. Table(to, n, end) /\ Owners(hs \ {h}, to, n)
  <2>1. CASE to = cs
    BY <1>1, <1>4, <2>1
  <2>2. CASE to # cs
    <3>1. backing # "linear" /\ to = Slots!With(cs, i, Slots!None)
      BY <1>0, <2>2 DEF Slots!Without
    <3>2. cs \in Seq(Blocks) /\ Slots!None \in Blocks /\ Len(cs) = n /\ DOMAIN cs = 1 .. n
      BY <1>1, <1>3 DEF Table, Blocks
    <3>3. Filled(to, cs, i, Slots!None)
      BY <1>3, <3>1, <3>2, WithIs
    <3>4. Table(to, n, end)
      BY <1>1, <1>3, <3>1, <3>3, TableCleared
    <3>5. \A m \in 1 .. n - 1 : m # i => to[m + 1] = cs[m + 1]
      <4>1. DOMAIN to = 1 .. n
        BY <1>3, <3>2, <3>3 DEF Filled
      <4>2. ASSUME NEW m \in 1 .. n - 1, m # i PROVE m + 1 \in DOMAIN to \ {i + 1} /\ m + 1 \in DOMAIN cs
        BY <1>1, <1>3, <3>2, <4>1, <4>2
      <4>. QED  BY <3>3, <4>2 DEF Filled
    <3>6. Owners(hs \ {h}, to, n)
      BY <1>2, <1>3, <3>5 DEF Owners
    <3>. QED  BY <3>4, <3>6
  <2>. QED  BY <2>1, <2>2
<1>6. /\ f \in Seq(1 .. n - 1) /\ \A k, j \in DOMAIN f : k # j => f[k] # f[j]
      /\ ls \subseteq 1 .. n - 1
      /\ \A k \in DOMAIN f : f[k] \notin ls
      /\ \A x \in hs : x.no \notin ls /\ \A k \in DOMAIN f : f[k] # x.no
      /\ \A m \in 1 .. n - 1 : m \in ls \/ (\E k \in DOMAIN f : f[k] = m) \/ \E x \in hs : x.no = m
  BY <1>1 DEF Shared
<1>7. \A m \in 1 .. n - 1 : m \in ls \/ (\E k \in DOMAIN f : f[k] = m) \/ m = i
                            \/ \E x \in hs \ {h} : x.no = m
  BY <1>0, <1>6
<1>8. i \notin ls /\ \A k \in DOMAIN f : f[k] # i
  BY <1>0, <1>6
<1>9. Shared(hs \ {h}, g, ms, n)
  <2>1. CASE g = Append(f, i) /\ ms = ls
    <3>1. PICK l : l = Len(f)
      OBVIOUS
    <3>2. l \in Nat /\ DOMAIN f = 1 .. l
      BY <1>6, <3>1
    <3>3. /\ g \in Seq(1 .. n - 1) /\ DOMAIN g = 1 .. l + 1 /\ g[l + 1] = i
          /\ \A k \in 1 .. l : g[k] = f[k]
      BY <1>3, <1>6, <2>1, <3>1, <3>2
    <3>4. \A k \in DOMAIN g : k = l + 1 \/ (k \in DOMAIN f /\ g[k] = f[k])
      <4>1. \A k \in 1 .. l + 1 : k = l + 1 \/ k \in 1 .. l
        BY <3>2
      <4>2. DOMAIN g = 1 .. l + 1 /\ \A k \in 1 .. l : g[k] = f[k] /\ k \in DOMAIN f
        BY <3>2, <3>3
      <4>. QED  BY <3>2, <4>1, <4>2
    <3>5. \A k, j \in DOMAIN g : k # j => g[k] # g[j]
      BY <1>6, <1>8, <3>3, <3>4
    <3>6. \A k \in DOMAIN g : g[k] \notin ls
      BY <1>6, <1>8, <3>3, <3>4
    <3>7. \A x \in hs \ {h} : x.no \notin ls /\ \A k \in DOMAIN g : g[k] # x.no
      BY <1>3, <1>6, <3>3, <3>4
    <3>8. ASSUME NEW m \in 1 .. n - 1
          PROVE  m \in ls \/ (\E k \in DOMAIN g : g[k] = m) \/ \E x \in hs \ {h} : x.no = m
      <4>1. ASSUME NEW k \in DOMAIN f, f[k] = m PROVE \E j \in DOMAIN g : g[j] = m
        <5>1. k \in DOMAIN g /\ g[k] = m
          BY <3>2, <3>3, <4>1
        <5>. QED  BY <5>1
      <4>2. l + 1 \in DOMAIN g
        BY <3>2, <3>3
      <4>. QED  BY <1>7, <3>3, <4>1, <4>2
    <3>. QED  BY <1>6, <2>1, <3>3, <3>5, <3>6, <3>7, <3>8 DEF Shared
  <2>2. CASE g = f /\ ms = ls \cup {i}
    <3>1. \A x \in hs \ {h} : x.no \notin ms /\ \A k \in DOMAIN g : g[k] # x.no
      BY <1>3, <1>6, <2>2
    <3>2. ms \subseteq 1 .. n - 1 /\ \A k \in DOMAIN g : g[k] \notin ms
      BY <1>3, <1>6, <1>8, <2>2
    <3>3. \A m \in 1 .. n - 1 : m \in ms \/ (\E k \in DOMAIN g : g[k] = m)
                                \/ \E x \in hs \ {h} : x.no = m
      BY <1>7, <2>2
    <3>. QED  BY <1>6, <2>2, <3>1, <3>2, <3>3 DEF Shared
  <2>. QED  BY <1>0, <2>1, <2>2 DEF Returned
<1>. QED  BY <1>1, <1>5, <1>9 DEF Kept

---------------------------------------------------------------------------
(* What the invariant says of what callers hold.                            *)

\* The block of a slot that is held is found by its number and by its address.
LEMMA FoundBy ==
  ASSUME Sized, ArenaInv, NEW h \in held
  PROVE  /\ h.no \in 1 .. next - 1 /\ Slots!Slot(h.no) = h.block
         /\ Slots!SlotAt(h.block.at) = h.no
<1>1. PICK i : i = h.no
  OBVIOUS
<1>2. PICK b : b = h.block
  OBVIOUS
<1>3. /\ i \in 1 .. next - 1 /\ b = chunks[i + 1] /\ b # Slots!None /\ next \in Nat
      /\ Table(chunks, next, used)
  BY <1>1, <1>2 DEF ArenaInv, Kept, Owners
<1>4. chunks \in Seq(Blocks) /\ Len(chunks) = next /\ DOMAIN chunks = 1 .. next
  BY <1>3 DEF Table
<1>5. \A m \in 1 .. next - 1 : Slots!Slot(m) = chunks[m + 1] /\ m + 1 \in DOMAIN chunks
  BY <1>3, <1>4 DEF Slots!Slot
<1>6. b \in Block /\ Seated(b, used)
  BY <1>3, <1>4, <1>5 DEF Table, Blocks
<1>7. ASSUME NEW m \in 1 .. next - 1, m # i PROVE Slots!Slot(m).at # b.at
  <2>1. PICK c : c = chunks[m + 1]
    OBVIOUS
  <2>2. m + 1 \in DOMAIN chunks /\ i + 1 \in DOMAIN chunks /\ m + 1 # i + 1
    BY <1>3, <1>5, <1>7
  <2>3. CASE c # Slots!None
    <3>1. Slots!Apart(c, b) /\ c \in Block
      BY <1>3, <1>4, <2>1, <2>2, <2>3 DEF Table, Blocks
    <3>2. c.at # b.at
      BY <1>6, <3>1, BlockIsSome DEF Slots!Apart
    <3>. QED  BY <1>5, <2>1, <3>2
  <2>4. CASE c = Slots!None
    <3>1. backing # "linear"
      <4>1. m + 1 \in 2 .. Len(chunks)
        BY <1>3, <1>4
      <4>. QED  BY <1>3, <2>1, <2>4, <4>1 DEF Table
    <3>2. c.at = 0
      BY <2>4 DEF Slots!None
    <3>3. b.at # 0
      <4>1. PICK k \in 1 .. MaxNext + 1 : b.at = Slots!Stride * k
        BY <1>6, <3>1 DEF Seated
      <4>2. Slots!Stride \in Nat \ {0} /\ k \in Nat \ {0}
        <5>1. Slots!Stride \in Nat \ {0}
          BY StrideIs
        <5>2. k \in Nat \ {0}
          BY DEF Sized
        <5>. QED  BY <5>1, <5>2
      <4>3. \A w, q \in Nat \ {0} : w * q # 0
        OBVIOUS
      <4>. QED  BY <4>1, <4>2, <4>3
    <3>. QED  BY <1>5, <2>1, <3>2, <3>3
  <2>. QED  BY <2>3, <2>4
<1>8. Slots!Slot(i).at = b.at /\ i \in 1 .. Len(chunks) - 1
  BY <1>3, <1>4, <1>5
<1>9. Slots!SlotAt(b.at) = i
  <2>1. Slots!Slot(i).at = b.at /\ \A m \in 1 .. i - 1 : Slots!Slot(m).at # b.at
    <3>1. \A m \in 1 .. i - 1 : m \in 1 .. next - 1 /\ m # i
      BY <1>3
    <3>. QED  BY <1>7, <1>8, <3>1
  <2>2. \A m \in 1 .. Len(chunks) - 1 : Slots!Slot(m).at = b.at => m = i
    BY <1>4, <1>7
  <2>. QED  BY <1>8, <2>1, <2>2 DEF Slots!SlotAt
<1>. QED  BY <1>1, <1>2, <1>3, <1>5, <1>9

\* The number and the pointer name one slot.
LEMMA NamedByOne ==
  ASSUME Sized, ArenaInv, NEW h \in held
  PROVE  Slots!NamedBy(h) = {h.no}
BY FoundBy DEF Slots!NamedBy

LEMMA HeldAreApart == ASSUME Sized, ArenaInv PROVE Slots!HeldApart
<1>1. /\ next \in Nat \ {0} /\ used \in Nat /\ Table(chunks, next, used)
      /\ Owners(held, chunks, next) /\ Shared(held, free, lost, next)
  BY DEF ArenaInv, Kept
<1>2. /\ chunks \in Seq(Blocks) /\ DOMAIN chunks = 1 .. Len(chunks)
      /\ Len(chunks) = (IF next = 1 THEN 0 ELSE next)
  BY <1>1 DEF Table
<1>3. \A h \in held : /\ h.no \in 1 .. next - 1 /\ h.no + 1 \in DOMAIN chunks
                      /\ h.block = chunks[h.no + 1] /\ h.block # Slots!None
                      /\ h.kind = "page" => h.block.size >= PageSize
  BY <1>1, <1>2 DEF Owners
<1>4. ASSUME NEW h \in held
      PROVE  /\ Slots!Slot(h.no) = h.block /\ Slots!SlotAt(h.block.at) = h.no
             /\ h.no \notin Slots!ToSet(free)
             /\ h.kind = "page" => h.block.size >= PageSize
             /\ backing = "linear" => h.block.at % Align = 0
  <2>1. Slots!Slot(h.no) = h.block /\ Slots!SlotAt(h.block.at) = h.no
    BY FoundBy
  <2>2. h.no \notin Slots!ToSet(free)
    BY <1>1 DEF Shared, Slots!ToSet
  <2>3. Seated(h.block, used)
    BY <1>1, <1>3 DEF Table
  <2>. QED  BY <1>3, <2>1, <2>2, <2>3 DEF Seated
<1>5. ASSUME NEW h \in held, NEW g \in held, h # g
      PROVE  h.no # g.no /\ Slots!Apart(h.block, g.block)
  <2>1. h.no # g.no
    BY <1>1, <1>5 DEF Owners
  <2>2. h.no + 1 # g.no + 1
    BY <1>1, <1>3, <2>1
  <2>3. PICK i, j \in DOMAIN chunks : i = h.no + 1 /\ j = g.no + 1
    BY <1>3
  <2>4. Slots!Apart(chunks[i], chunks[j])
    BY <1>1, <1>3, <2>2, <2>3 DEF Table
  <2>. QED  BY <1>3, <2>1, <2>3, <2>4
<1>6. \A i, j \in DOMAIN free : i # j => free[i] # free[j]
  BY <1>1 DEF Shared
<1>. QED  BY <1>4, <1>5, <1>6 DEF Slots!HeldApart

\* The numbers of what is held are as many as what is held.
LEMMA HoldersCounted ==
  ASSUME NEW hs, NEW ns, IsFiniteSet(ns), ns = {h.no : h \in hs},
         \A h, g \in hs : h # g => h.no # g.no
  PROVE  IsFiniteSet(hs) /\ Cardinality(hs) = Cardinality(ns)
<1>. DEFINE f == [n \in ns |-> CHOOSE h \in hs : h.no = n]
<1>1. \A n \in ns : f[n] \in hs /\ f[n].no = n
  OBVIOUS
<1>2. \A h \in hs : h.no \in ns /\ f[h.no] = h
  BY <1>1
<1>3. f \in [ns -> hs]
  BY <1>1
<1>. HIDE DEF f
<1>4. f \in Injection(ns, hs)
  BY <1>1, <1>3 DEF Injection, IsInjective
<1>5. f \in Surjection(ns, hs)
  BY <1>2, <1>3 DEF Surjection
<1>6. ExistsBijection(ns, hs)
  BY <1>4, <1>5 DEF ExistsBijection, Bijection
<1>. QED  BY <1>6, FS_Bijection

\* A stack that names no slot twice is as high as there are slots in it.
LEMMA StackCounted ==
  ASSUME NEW n \in Nat, NEW f \in Seq(1 .. n), \A i, j \in DOMAIN f : i # j => f[i] # f[j],
         NEW s, s = {f[i] : i \in DOMAIN f}
  PROVE  IsFiniteSet(s) /\ Cardinality(s) = Len(f)
<1>1. PICK l : l = Len(f)
  OBVIOUS
<1>2. l \in Nat /\ DOMAIN f = 1 .. l /\ \A i \in 1 .. l : f[i] \in s
  BY <1>1
<1>3. f \in [1 .. l -> s]
  BY <1>1, <1>2
<1>4. f \in Injection(1 .. l, s)
  BY <1>2, <1>3 DEF Injection, IsInjective
<1>5. f \in Surjection(1 .. l, s)
  BY <1>2, <1>3 DEF Surjection
<1>6. ExistsBijection(1 .. l, s)
  BY <1>4, <1>5 DEF ExistsBijection, Bijection
<1>7. Cardinality(s) = l
  BY <1>2, <1>6, FS_CountingElements
<1>8. IsFiniteSet(s)
  BY <1>2, <1>6, FS_NatBijection
<1>. QED  BY <1>1, <1>7, <1>8

\* The module's count is the library's.
LEMMA SameCount == \A S : Slots!Cardinality(S) = Cardinality(S)
BY DEF Slots!Cardinality, Cardinality

LEMMA SlotsAreCounted == ASSUME Sized, ArenaInv PROVE Slots!CountsHeld
<1>1. /\ next \in Nat \ {0} /\ Table(chunks, next, used)
      /\ Owners(held, chunks, next) /\ Shared(held, free, lost, next)
  BY DEF ArenaInv, Kept
<1>2. PICK n : n = next - 1
  OBVIOUS
<1>3. /\ n \in Nat /\ free \in Seq(1 .. n) /\ \A i, j \in DOMAIN free : i # j => free[i] # free[j]
      /\ lost \subseteq 1 .. n
      /\ \A i \in DOMAIN free : free[i] \notin lost
      /\ \A h \in held : h.no \notin lost /\ \A i \in DOMAIN free : free[i] # h.no
      /\ \A m \in 1 .. n : m \in lost \/ (\E i \in DOMAIN free : free[i] = m) \/ \E h \in held : h.no = m
  BY <1>1, <1>2 DEF Shared
<1>4. PICK s : s = {free[i] : i \in DOMAIN free}
  OBVIOUS
<1>5. PICK ns : ns = {h.no : h \in held}
  OBVIOUS
<1>6. /\ \A h \in held : h.no \in 1 .. n
      /\ \A h, g \in held : h # g => h.no # g.no
  BY <1>1, <1>2 DEF Owners
<1>7. \A i \in DOMAIN free : free[i] \in 1 .. n
  BY <1>3
<1>8. /\ s \cap ns = {} /\ (s \cup ns) \cap lost = {} /\ (s \cup ns) \cup lost = 1 .. n
      /\ ns \subseteq 1 .. n /\ lost \subseteq 1 .. n
  <2>1. s \cap ns = {}
    BY <1>3, <1>4, <1>5
  <2>2. (s \cup ns) \cap lost = {}
    BY <1>3, <1>4, <1>5
  <2>3. s \subseteq 1 .. n /\ ns \subseteq 1 .. n /\ lost \subseteq 1 .. n
    BY <1>3, <1>4, <1>5, <1>6, <1>7
  <2>4. \A m \in 1 .. n : m \in lost \/ m \in s \/ m \in ns
    BY <1>3, <1>4, <1>5
  <2>. QED  BY <2>1, <2>2, <2>3, <2>4
<1>9. IsFiniteSet(1 .. n) /\ Cardinality(1 .. n) = n
  <2>1. 1 \in Int /\ n \in Int
    BY <1>3
  <2>2. IsFiniteSet(1 .. n) /\ Cardinality(1 .. n) = IF 1 > n THEN 0 ELSE n - 1 + 1
    BY <2>1, FS_Interval
  <2>. QED  BY <1>3, <2>2
<1>10. IsFiniteSet(ns) /\ IsFiniteSet(lost)
  BY <1>8, <1>9, FS_Subset
<1>11. IsFiniteSet(held) /\ Cardinality(held) = Cardinality(ns)
  BY <1>5, <1>6, <1>10, HoldersCounted
<1>12. IsFiniteSet(s) /\ Cardinality(s) = Len(free)
  BY <1>3, <1>4, StackCounted
<1>13. /\ IsFiniteSet(s \cup ns)
       /\ Cardinality(s \cup ns) = Cardinality(s) + Cardinality(ns) - Cardinality(s \cap ns)
  BY <1>10, <1>12, FS_Union
<1>14. Cardinality((s \cup ns) \cup lost)
         = Cardinality(s \cup ns) + Cardinality(lost) - Cardinality((s \cup ns) \cap lost)
  BY <1>10, <1>13, FS_Union
<1>15. Cardinality({}) = 0
  BY FS_EmptySet
<1>16. /\ Cardinality(s) \in Nat /\ Cardinality(ns) \in Nat /\ Cardinality(lost) \in Nat
       /\ Cardinality(s \cup ns) \in Nat
  BY <1>10, <1>12, <1>13, FS_CardinalityType
<1>17. n = Len(free) + Cardinality(held) + Cardinality(lost)
  <2>1. Cardinality(s \cup ns) = Cardinality(s) + Cardinality(ns)
    BY <1>8, <1>13, <1>15, <1>16
  <2>2. n = Cardinality(s \cup ns) + Cardinality(lost)
    <3>1. Cardinality((s \cup ns) \cup lost) = n /\ Cardinality((s \cup ns) \cap lost) = 0
      BY <1>8, <1>9, <1>15
    <3>. QED  BY <1>14, <1>16, <3>1
  <2>. QED  BY <1>11, <1>12, <1>16, <2>1, <2>2
<1>18. Slots!Active = n - Len(free)
  <2>1. Len(chunks) = (IF next = 1 THEN 0 ELSE next)
    BY <1>1 DEF Table
  <2>2. Len(free) \in Nat /\ Len(free) <= n
    BY <1>11, <1>12, <1>16, <1>17
  <2>. QED  BY <1>1, <1>2, <2>1, <2>2 DEF Slots!Active
<1>19. Slots!Active = Cardinality(held) + Cardinality(lost)
  <2>1. Len(free) \in Nat
    BY <1>12, <1>16
  <2>. QED  BY <1>11, <1>16, <1>17, <1>18, <2>1
<1>. QED  BY <1>19, SameCount DEF Slots!CountsHeld

---------------------------------------------------------------------------
(* The steps of the allocator.                                              *)

LEMMA PushedIs ==
  ASSUME NEW i, NEW p, p \in Slots!Pushed(i)
  PROVE  /\ p.ok => p.free = Append(free, i)
         /\ ~p.ok => p.free = free
         /\ p.ok \in BOOLEAN
<1>1. PICK f : f = Append(free, i)
  OBVIOUS
<1>2. PICK r1, r2 : \/ p = [ok |-> TRUE, free |-> f, room |-> r1]
                   \/ p = [ok |-> FALSE, free |-> free, room |-> r2]
  BY <1>1 DEF Slots!Pushed
<1>3. \/ p.ok = TRUE /\ p.free = f
      \/ p.ok = FALSE /\ p.free = free
  BY <1>2
<1>. QED  BY <1>1, <1>3

LEMMA ArenaInit == ASSUME Sized PROVE Slots!Init => ArenaInv
<1>. SUFFICES ASSUME Slots!Init PROVE ArenaInv
  OBVIOUS
<1>1. next = 1 /\ chunks = <<>> /\ free = <<>> /\ used = 0 /\ held = {} /\ lost = {}
  BY DEF Slots!Init
<1>2. Table(chunks, next, used)
  BY <1>1 DEF Table
<1>3. Owners(held, chunks, next) /\ Shared(held, free, lost, next)
  BY <1>1 DEF Owners, Shared
<1>4. 1 <= MaxNext
  BY DEF Sized
<1>. QED  BY <1>1, <1>2, <1>3, <1>4 DEF ArenaInv, Kept

LEMMA ArenaParts ==
  ASSUME Sized, ArenaInv
  PROVE  /\ Kept(chunks, next, used, held, free, lost)
         /\ next \in Nat \ {0} /\ next <= MaxNext /\ MaxNext \in Nat /\ used \in Nat
         /\ Table(chunks, next, used)
         /\ Align \in {Align, PageSize} /\ PageSize \in {Align, PageSize}
         /\ PageSize \in Sizes /\ PageSize \in Nat
         /\ \A size \in NodeSizes : size \in Sizes
BY DEF ArenaInv, Kept, Sized, Sizes

\* A state of the same backing.
LEMMA Settled ==
  ASSUME backing' = backing, NEW cs, NEW n, NEW end, NEW hs, NEW f, NEW ls,
         Kept(cs, n, end, hs, f, ls),
         chunks' = cs, next' = n, used' = end, held' = hs, free' = f, lost' = ls
  PROVE  ArenaInv'
<1>1. \A b, e : Seated(b, e)' <=> Seated(b, e)
  BY DEF Seated
<1>2. Table(cs, n, end)'
  BY <1>1 DEF Kept, Table
<1>3. Owners(hs, cs, n)' /\ Shared(hs, f, ls, n)'
  BY DEF Kept, Owners, Shared
<1>. QED  BY <1>2, <1>3 DEF ArenaInv, Kept

LEMMA FreshKeeps ==
  ASSUME Sized, ArenaInv, Slots!AllocFresh
  PROVE  ArenaInv'
<1>1. PICK b : /\ b \in Slots!NewBlocks(PageSize, PageSize)
               /\ chunks' = Slots!With(chunks, next, b) /\ used' = Slots!UsedAfter(b)
               /\ held' = held \cup {Slots!Taken("page", next, b)}
  BY DEF Slots!AllocFresh
<1>2. next < MaxNext /\ next' = next + 1 /\ free' = free /\ lost' = lost /\ backing' = backing
  BY DEF Slots!AllocFresh
<1>3. PICK after : after = Slots!UsedAfter(b)
  OBVIOUS
<1>4. PICK x : x = Slots!Taken("page", next, b)
  OBVIOUS
<1>5. x.no = next /\ x.block = b /\ x.kind = "page"
  BY <1>4 DEF Slots!Taken
<1>6. Got(b, chunks, used, after) /\ b.size = PageSize
  BY <1>1, <1>3, ArenaParts, NewBlockIs
<1>7. b.size >= PageSize
  BY <1>6, ArenaParts
<1>8. Kept(Slots!With(chunks, next, b), next + 1, after, held \cup {x}, free, lost)
  BY <1>2, <1>5, <1>6, <1>7, ArenaParts, Claimed
<1>9. PICK cs : cs = Slots!With(chunks, next, b)
  OBVIOUS
<1>10. PICK hs, n, f, ls : hs = held \cup {x} /\ n = next + 1 /\ f = free /\ ls = lost
  OBVIOUS
<1>11. Kept(cs, n, after, hs, f, ls)
  BY <1>8, <1>9, <1>10
<1>. QED  BY <1>1, <1>2, <1>3, <1>4, <1>9, <1>10, <1>11, Settled

LEMMA NodeKeeps ==
  ASSUME Sized, ArenaInv, NEW size \in NodeSizes, Slots!AllocNode(size)
  PROVE  ArenaInv'
<1>1. PICK b : /\ b \in Slots!NewBlocks(size, Align)
               /\ chunks' = Slots!With(chunks, next, b) /\ used' = Slots!UsedAfter(b)
               /\ held' = held \cup {Slots!Taken("node", next, b)}
  BY DEF Slots!AllocNode, Slots!NodeBlocks
<1>2. next < MaxNext /\ next' = next + 1 /\ free' = free /\ lost' = lost /\ backing' = backing
  BY DEF Slots!AllocNode
<1>3. PICK after : after = Slots!UsedAfter(b)
  OBVIOUS
<1>4. PICK x : x = Slots!Taken("node", next, b)
  OBVIOUS
<1>5. x.no = next /\ x.block = b /\ x.kind = "node"
  BY <1>4 DEF Slots!Taken
<1>6. Got(b, chunks, used, after)
  BY <1>1, <1>3, ArenaParts, NewBlockIs
<1>7. Kept(Slots!With(chunks, next, b), next + 1, after, held \cup {x}, free, lost)
  BY <1>2, <1>5, <1>6, ArenaParts, Claimed
<1>8. PICK cs : cs = Slots!With(chunks, next, b)
  OBVIOUS
<1>9. PICK hs, n, f, ls : hs = held \cup {x} /\ n = next + 1 /\ f = free /\ ls = lost
  OBVIOUS
<1>10. Kept(cs, n, after, hs, f, ls)
  BY <1>7, <1>8, <1>9
<1>. QED  BY <1>1, <1>2, <1>3, <1>4, <1>8, <1>9, <1>10, Settled

\* A page from the stack, in the block of its slot or in a new one.
LEMMA RecycledKeeps ==
  ASSUME Sized, ArenaInv, Slots!AllocRecycled
  PROVE  ArenaInv'
<1>1. PICK i : i = Slots!Last(free)
  OBVIOUS
<1>2. PICK b \in IF Slots!Reusable(i) THEN {Slots!Slot(i)} ELSE Slots!NewBlocks(PageSize, PageSize) :
        /\ chunks' = Slots!With(chunks, i, b)
        /\ used' = IF Slots!Reusable(i) THEN used ELSE Slots!UsedAfter(b)
        /\ held' = held \cup {Slots!Taken("page", i, b)}
  BY <1>1 DEF Slots!AllocRecycled
<1>3. /\ free # <<>> /\ free' = Slots!Front(free)
      /\ next' = next /\ lost' = lost /\ backing' = backing
  BY DEF Slots!AllocRecycled
<1>4. PICK x : x = Slots!Taken("page", i, b)
  OBVIOUS
<1>5. x.no = i /\ x.block = b /\ x.kind = "page"
  BY <1>4 DEF Slots!Taken
<1>6. i = free[Len(free)]
  BY <1>1 DEF Slots!Last
<1>7. i \in 1 .. next - 1
  <2>1. PICK S : S = 1 .. next - 1
    OBVIOUS
  <2>2. free \in Seq(S)
    BY <2>1, ArenaParts DEF Kept, Shared
  <2>3. free[Len(free)] \in S
    BY <1>3, <2>2
  <2>. QED  BY <1>6, <2>1, <2>3
<1>8. chunks \in Seq(Blocks) /\ Len(chunks) = next /\ DOMAIN chunks = 1 .. next /\ i \in Nat
  BY <1>7, ArenaParts DEF Table
<1>9. PICK cs : cs = Slots!With(chunks, i, b)
  OBVIOUS
<1>10. PICK after : after = IF Slots!Reusable(i) THEN used ELSE Slots!UsedAfter(b)
  OBVIOUS
<1>11. /\ b # Slots!None /\ b.size >= PageSize /\ after \in Nat
       /\ Filled(cs, chunks, i, b) /\ Table(cs, next, after)
  <2>1. CASE Slots!Reusable(i)
    <3>1. b = Slots!Slot(i) /\ Slots!Slot(i) # Slots!None /\ Slots!Slot(i).size >= PageSize
      BY <1>2, <2>1 DEF Slots!Reusable
    <3>2. i + 1 \in DOMAIN chunks /\ b = chunks[i + 1] /\ b \in Blocks
      <4>1. i < Len(chunks) /\ i + 1 \in DOMAIN chunks
        BY <1>7, <1>8, ArenaParts
      <4>2. b = chunks[i + 1]
        BY <3>1, <4>1 DEF Slots!Slot
      <4>. QED  BY <1>8, <4>1, <4>2
    <3>3. Filled(cs, chunks, i, b)
      BY <1>8, <1>9, <3>2, WithIs
    <3>4. DOMAIN cs = DOMAIN chunks /\ Len(cs) = Len(chunks) /\ cs \in Seq(Blocks)
      <4>1. Len(cs) = Len(chunks) /\ cs \in Seq(Blocks)
        BY <1>7, <1>8, <3>3 DEF Filled
      <4>. QED  BY <1>8, <4>1
    <3>5. \A j \in DOMAIN cs : cs[j] = chunks[j]
      BY <3>2, <3>3, <3>4 DEF Filled
    <3>6. Table(cs, next, used)
      <4>1. Table(chunks, next, used)
        BY ArenaParts
      <4>. QED  BY <3>4, <3>5, <4>1 DEF Table
    <3>. QED  BY <1>10, <2>1, <3>1, <3>3, <3>6, ArenaParts
  <2>2. CASE ~Slots!Reusable(i)
    <3>1. b \in Slots!NewBlocks(PageSize, PageSize) /\ after = Slots!UsedAfter(b)
      BY <1>2, <1>10, <2>2
    <3>2. Got(b, chunks, used, after) /\ b.size = PageSize
      BY <3>1, ArenaParts, NewBlockIs
    <3>3. b # Slots!None /\ b \in Blocks /\ after \in Nat /\ b.size >= PageSize
      BY <3>2, ArenaParts DEF Got, Blocks
    <3>4. Filled(cs, chunks, i, b)
      BY <1>8, <1>9, <3>3, WithIs
    <3>5. Table(cs, next, after)
      BY <1>7, <3>2, <3>4, ArenaParts, TableSet
    <3>. QED  BY <3>3, <3>4, <3>5
  <2>. QED  BY <2>1, <2>2
<1>12. PICK hs, n, f, ls :
         hs = held \cup {x} /\ n = next /\ f = Slots!Front(free) /\ ls = lost
  OBVIOUS
<1>13. Kept(cs, next, after, held \cup {x}, Slots!Front(free), lost)
  BY <1>3, <1>5, <1>6, <1>11, ArenaParts, Recycled
<1>14. Kept(cs, n, after, hs, f, ls)
  BY <1>12, <1>13
<1>. QED  BY <1>2, <1>3, <1>4, <1>9, <1>10, <1>12, <1>14, Settled

\* A page or a node is given back by number or by pointer.
LEMMA FreesKeep ==
  ASSUME Sized, ArenaInv, NEW h \in held, Slots!FreePage(h) \/ Slots!FreeNode(h)
  PROVE  ArenaInv'
<1>1. PICK i \in Slots!NamedBy(h) : \E p \in Slots!Pushed(i) :
        /\ free' = p.free /\ lost' = IF p.ok THEN lost ELSE lost \cup {i}
        /\ chunks' \in {chunks, Slots!Without(chunks, i)}
  BY DEF Slots!FreePage, Slots!FreeNode
<1>2. /\ held' = held \ {h} /\ next' = next /\ used' = used /\ backing' = backing
  BY DEF Slots!FreePage, Slots!FreeNode
<1>3. i = h.no
  BY <1>1, NamedByOne
<1>0. PICK p \in Slots!Pushed(i) :
        /\ free' = p.free /\ lost' = IF p.ok THEN lost ELSE lost \cup {i}
        /\ chunks' \in {chunks, Slots!Without(chunks, i)}
  BY <1>1
<1>4. PICK cs, g, ms : cs = chunks' /\ g = free' /\ ms = lost'
  OBVIOUS
<1>5. Returned(g, ms, free, lost, h.no)
  <2>1. /\ p.ok => p.free = Append(free, i)
        /\ ~p.ok => p.free = free
        /\ p.ok \in BOOLEAN
    BY PushedIs
  <2>. QED  BY <1>0, <1>3, <1>4, <2>1 DEF Returned
<1>6. cs \in {chunks, Slots!Without(chunks, h.no)}
  BY <1>0, <1>3, <1>4
<1>7. Kept(cs, next, used, held \ {h}, g, ms)
  BY <1>5, <1>6, ArenaParts, GivenBack
<1>8. PICK hs, n, end : hs = held \ {h} /\ n = next /\ end = used
  OBVIOUS
<1>9. Kept(cs, n, end, hs, g, ms)
  BY <1>7, <1>8
<1>. QED  BY <1>2, <1>4, <1>8, <1>9, Settled

\* A larger or smaller node in a new slot, with the old one still held.
LEMMA SecondNode ==
  ASSUME Sized, ArenaInv, next < MaxNext, NEW size \in NodeSizes,
         NEW b \in Slots!NodeBlocks(size), NEW after, after = Slots!UsedAfter(b),
         NEW x, x = Slots!Taken("node", next, b), NEW cs, cs = Slots!With(chunks, next, b)
  PROVE  /\ Kept(cs, next + 1, after, held \cup {x}, free, lost)
         /\ x.no = next /\ \A h \in held : h.no # next /\ h # x
<1>1. b \in Slots!NewBlocks(size, Align)
  BY DEF Slots!NodeBlocks
<1>2. x.no = next /\ x.block = b /\ x.kind = "node"
  BY DEF Slots!Taken
<1>3. Got(b, chunks, used, after)
  BY <1>1, ArenaParts, NewBlockIs
<1>4. Kept(Slots!With(chunks, next, b), next + 1, after, held \cup {x}, free, lost)
  BY <1>2, <1>3, ArenaParts, Claimed
<1>5. \A h \in held : h.no # next
  <2>1. \A h \in held : h.no \in 1 .. next - 1
    BY FoundBy
  <2>. QED  BY <2>1, ArenaParts
<1>. QED  BY <1>2, <1>4, <1>5

LEMMA ReallocKeeps ==
  ASSUME Sized, ArenaInv, NEW h \in held, NEW size \in NodeSizes, Slots!ReallocNode(h, size)
  PROVE  ArenaInv'
<1>1. PICK b \in Slots!NodeBlocks(size) : \E p \in Slots!Pushed(h.no) :
        /\ p.ok
        /\ chunks' = Slots!Without(Slots!With(chunks, next, b), h.no)
        /\ used' = Slots!UsedAfter(b) /\ free' = p.free
        /\ held' = (held \ {h}) \cup {Slots!Taken("node", next, b)}
  BY DEF Slots!ReallocNode
<1>2. next < MaxNext /\ next' = next + 1 /\ lost' = lost /\ backing' = backing
  BY DEF Slots!ReallocNode
<1>3. PICK after, x, cs : /\ after = Slots!UsedAfter(b) /\ x = Slots!Taken("node", next, b)
                          /\ cs = Slots!With(chunks, next, b)
  OBVIOUS
<1>4. /\ Kept(cs, next + 1, after, held \cup {x}, free, lost)
      /\ x.no = next /\ \A k \in held : k.no # next /\ k # x
  BY <1>2, <1>3, SecondNode
<1>5. PICK to, g, ms : to = chunks' /\ g = free' /\ ms = lost'
  OBVIOUS
<1>6. g = Append(free, h.no)
  BY <1>1, <1>5, PushedIs
<1>7. Returned(g, ms, free, lost, h.no)
  BY <1>2, <1>5, <1>6 DEF Returned
<1>8. to \in {cs, Slots!Without(cs, h.no)} /\ h \in held \cup {x}
  BY <1>1, <1>3, <1>5
<1>9. Kept(to, next + 1, after, (held \cup {x}) \ {h}, g, ms)
  BY <1>4, <1>7, <1>8, GivenBack
<1>10. PICK hs, n : hs = (held \cup {x}) \ {h} /\ n = next + 1
  OBVIOUS
<1>11. held' = hs
  BY <1>1, <1>3, <1>4, <1>10
<1>12. Kept(to, n, after, hs, g, ms)
  BY <1>9, <1>10
<1>. QED  BY <1>1, <1>2, <1>3, <1>5, <1>10, <1>11, <1>12, Settled

\* Both nodes are given back when the old one's slot finds no room.
LEMMA ReallocFailsKeeps ==
  ASSUME Sized, ArenaInv, NEW h \in held, NEW size \in NodeSizes, Slots!ReallocFails(h, size)
  PROVE  ArenaInv'
<1>1. PICK b \in Slots!NodeBlocks(size) : \E q \in Slots!Pushed(next) :
        /\ chunks' = Slots!Without(Slots!Without(Slots!With(chunks, next, b), h.no), next)
        /\ used' = Slots!UsedAfter(b) /\ free' = q.free
        /\ lost' = lost \cup {h.no} \cup IF q.ok THEN {} ELSE {next}
  BY DEF Slots!ReallocFails
<1>2. next < MaxNext /\ next' = next + 1 /\ held' = held \ {h} /\ backing' = backing
  BY DEF Slots!ReallocFails
<1>3. PICK after, x, cs : /\ after = Slots!UsedAfter(b) /\ x = Slots!Taken("node", next, b)
                          /\ cs = Slots!With(chunks, next, b)
  OBVIOUS
<1>4. /\ Kept(cs, next + 1, after, held \cup {x}, free, lost)
      /\ x.no = next /\ \A k \in held : k.no # next /\ k # x
  BY <1>2, <1>3, SecondNode
<1>5. PICK ms, to : ms = lost \cup {h.no} /\ to = Slots!Without(cs, h.no)
  OBVIOUS
<1>6. Returned(free, ms, free, lost, h.no)
  BY <1>5 DEF Returned
<1>7. Kept(to, next + 1, after, (held \cup {x}) \ {h}, free, ms)
  <2>1. h \in held \cup {x} /\ to \in {cs, Slots!Without(cs, h.no)}
    BY <1>5
  <2>. QED  BY <1>4, <1>6, <2>1, GivenBack
<1>8. PICK un, g, ns : un = chunks' /\ g = free' /\ ns = lost'
  OBVIOUS
<1>9. Returned(g, ns, free, ms, x.no)
  <2>1. PICK q \in Slots!Pushed(next) : free' = q.free /\ lost' = ms \cup IF q.ok THEN {} ELSE {next}
    BY <1>1, <1>5
  <2>2. /\ q.ok => q.free = Append(free, next)
        /\ ~q.ok => q.free = free
        /\ q.ok \in BOOLEAN
    BY PushedIs
  <2>. QED  BY <1>4, <1>8, <2>1, <2>2 DEF Returned
<1>10. un = Slots!Without(to, x.no)
  BY <1>1, <1>3, <1>4, <1>5, <1>8
<1>11. PICK hs, n : hs = (held \cup {x}) \ {h} /\ n = next + 1
  OBVIOUS
<1>12. x \in hs /\ hs \ {x} = held \ {h} /\ un \in {to, Slots!Without(to, x.no)}
  BY <1>4, <1>10, <1>11
<1>13. Kept(to, n, after, hs, free, ms)
  BY <1>7, <1>11
<1>14. Kept(un, n, after, hs \ {x}, g, ns)
  BY <1>9, <1>12, <1>13, GivenBack
<1>15. PICK ks : ks = held \ {h}
  OBVIOUS
<1>16. Kept(un, n, after, ks, g, ns)
  BY <1>12, <1>14, <1>15
<1>. QED  BY <1>1, <1>2, <1>3, <1>8, <1>11, <1>15, <1>16, Settled

LEMMA ArenaStep == ASSUME Sized PROVE ArenaInv /\ [Slots!Next]_(Slots!vars) => ArenaInv'
<1>. SUFFICES ASSUME ArenaInv, [Slots!Next]_(Slots!vars) PROVE ArenaInv'
  OBVIOUS
<1>1. CASE Slots!AllocPage
  BY <1>1, FreshKeeps, RecycledKeeps DEF Slots!AllocPage
<1>2. ASSUME NEW h \in held, Slots!FreePage(h) \/ Slots!FreeNode(h) PROVE ArenaInv'
  BY <1>2, FreesKeep
<1>3. ASSUME NEW size \in NodeSizes, Slots!AllocNode(size) PROVE ArenaInv'
  BY <1>3, NodeKeeps
<1>4. ASSUME NEW h \in held, NEW size \in NodeSizes,
             Slots!ReallocNode(h, size) \/ Slots!ReallocFails(h, size)
      PROVE  ArenaInv'
  BY <1>4, ReallocKeeps, ReallocFailsKeeps
<1>5. CASE (\E b \in Budgets : Slots!SetBudget(b)) \/ UNCHANGED Slots!vars
  <2>1. UNCHANGED <<backing, next, chunks, free, used, held, lost>>
    BY <1>5 DEF Slots!SetBudget, Slots!vars, Slots!slots
  <2>2. PICK cs, n, end, hs, f, ls :
          /\ cs = chunks /\ n = next /\ end = used
          /\ hs = held /\ f = free /\ ls = lost
    OBVIOUS
  <2>3. Kept(cs, n, end, hs, f, ls)
    BY <2>2 DEF ArenaInv
  <2>. QED  BY <2>1, <2>2, <2>3, Settled
<1>. QED  BY <1>1, <1>2, <1>3, <1>4, <1>5 DEF Slots!Next

\* What callers of the allocator hold never shares a slot or a byte, is found by
\* number and by pointer, and is what the budget counts, with the slots that the
\* stack had no room for (arena.c:297-533).
THEOREM SlotsAreOwned == ASSUME Sized PROVE Slots!Spec => []Slots!SlotsOwned
<1>1. ArenaInv => Slots!SlotsOwned
  BY HeldAreApart, SlotsAreCounted DEF Slots!SlotsOwned
<1>. QED  BY <1>1, ArenaInit, ArenaStep, PTL DEF Slots!Spec

----------------------------------------------------------------------------
(* The watches of a database, for any threads, keys and watchers and any    *)
(* depth of transactions.                                                   *)

CONSTANTS Threads, Dbis, Watchers, MaxDepth
VARIABLES watches, dupsort, frames, writer, tells, owed, wrong

Watched == INSTANCE Watches WITH txns <- frames

Among(s) == {s[i] : i \in DOMAIN s}

\* Nothing is in s twice.
Apart(s) == \A i, j \in DOMAIN s : s[i] = s[j] => i = j

\* One of bounded naturals is the greatest.
LEMMA GreatestIs ==
  ASSUME NEW n \in Nat, NEW S \in SUBSET (1 .. n), S # {}
  PROVE  Watched!Max(S) \in S /\ \A s \in S : Watched!Max(S) >= s
<1>1. PICK R : R = {n - s : s \in S}
  OBVIOUS
<1>2. R \in SUBSET Nat /\ R # {}
  <2>1. \A s \in S : n - s \in Nat
    OBVIOUS
  <2>. QED  BY <1>1, <2>1
<1>3. PICK r \in R : \A t \in R : r <= t
  BY <1>2, LeastExists
<1>4. PICK s \in S : r = n - s
  BY <1>1, <1>3
<1>5. ASSUME NEW t \in S PROVE s >= t
  <2>1. n - t \in R
    BY <1>1
  <2>2. r <= n - t
    BY <1>3, <2>1
  <2>. QED  BY <1>4, <2>2
<1>. QED  BY <1>5 DEF Watched!Max

\* A set of naturals that holds 0 and the successor of each member holds them all.
LEMMA Induction ==
  ASSUME NEW S \in SUBSET Nat, 0 \in S, \A n \in S : n + 1 \in S
  PROVE  S = Nat
<1>. SUFFICES ASSUME Nat \ S # {} PROVE FALSE
  OBVIOUS
<1>1. PICK T : T = Nat \ S
  OBVIOUS
<1>2. PICK m \in T : \A t \in T : m <= t
  <2>1. T \in SUBSET Nat /\ T # {}
    BY <1>1
  <2>. QED  BY <2>1, LeastExists
<1>3. m \in Nat /\ m # 0 /\ m \notin S
  BY <1>1, <1>2
<1>4. m - 1 \in Nat /\ ~(m <= m - 1)
  BY <1>3
<1>5. m - 1 \in S
  BY <1>1, <1>2, <1>4
<1>6. (m - 1) + 1 = m
  BY <1>3
<1>. QED  BY <1>3, <1>5, <1>6

\* Nothing is twice in the first n of seqs.
Parted(seqs, n) ==
  /\ \A i \in 1 .. n : Apart(seqs[i])
  /\ \A i, j \in 1 .. n : i # j => Among(seqs[i]) \cap Among(seqs[j]) = {}

\* Sequence s is of what the first n of seqs are of, and of nothing twice if they are not.
Flat(s, seqs, S, n) ==
  /\ s \in Seq(S)
  /\ \A x \in S : x \in Among(s) <=> \E i \in 1 .. n : x \in Among(seqs[i])
  /\ Parted(seqs, n) => Apart(s)

LEMMA FlatMore ==
  ASSUME NEW S, NEW seqs \in Seq(Seq(S)), NEW n \in Nat, n + 1 <= Len(seqs),
         NEW s, Flat(s, seqs, S, n), NEW r, r = s \o seqs[n + 1]
  PROVE  Flat(r, seqs, S, n + 1)
<1>1. PICK q \in Seq(S) : q = seqs[n + 1]
  <2>1. n + 1 \in 1 .. Len(seqs)
    OBVIOUS
  <2>. QED  BY <2>1
<1>2. s \in Seq(S)
  BY DEF Flat
<1>3. PICK l \in Nat : l = Len(s)
  BY <1>2
<1>4. PICK m \in Nat : m = Len(q)
  OBVIOUS
<1>5. /\ r \in Seq(S) /\ Len(r) = l + m
      /\ \A k \in 1 .. l + m : r[k] = IF k <= l THEN s[k] ELSE q[k - l]
  BY <1>1, <1>2, <1>3, <1>4, ConcatProperties
<1>6. DOMAIN r = 1 .. l + m /\ DOMAIN s = 1 .. l /\ DOMAIN q = 1 .. m
  BY <1>2, <1>3, <1>4, <1>5
<1>7. ASSUME NEW x \in S PROVE x \in Among(r) <=> x \in Among(s) \/ x \in Among(q)
  <2>1. ASSUME NEW k \in 1 .. l + m, r[k] = x PROVE x \in Among(s) \/ x \in Among(q)
    <3>1. CASE k <= l
      <4>1. r[k] = s[k]
        BY <1>5, <3>1
      <4>2. k \in 1 .. l
        BY <3>1
      <4>. QED  BY <1>6, <2>1, <4>1, <4>2 DEF Among
    <3>2. CASE ~(k <= l)
      <4>1. k - l \in 1 .. m /\ r[k] = q[k - l]
        BY <1>5, <3>2
      <4>. QED  BY <1>6, <2>1, <4>1 DEF Among
    <3>. QED  BY <3>1, <3>2
  <2>2. ASSUME NEW k \in 1 .. l, s[k] = x PROVE x \in Among(r)
    <3>1. k \in 1 .. l + m /\ r[k] = s[k]
      BY <1>5
    <3>. QED  BY <1>6, <2>2, <3>1 DEF Among
  <2>3. ASSUME NEW k \in 1 .. m, q[k] = x PROVE x \in Among(r)
    <3>1. l + k \in 1 .. l + m /\ ~(l + k <= l) /\ (l + k) - l = k
      OBVIOUS
    <3>2. r[l + k] = q[k]
      BY <1>5, <3>1
    <3>. QED  BY <1>6, <2>3, <3>1, <3>2 DEF Among
  <2>. QED  BY <1>6, <2>1, <2>2, <2>3 DEF Among
<1>8. \A i : i \in 1 .. n + 1 <=> i \in 1 .. n \/ i = n + 1
  OBVIOUS
<1>9. ASSUME Parted(seqs, n + 1) PROVE Apart(r)
  <2>1. Parted(seqs, n) /\ Apart(q) /\ \A i \in 1 .. n : Among(seqs[i]) \cap Among(q) = {}
    <3>1. \A i \in 1 .. n : i # n + 1
      OBVIOUS
    <3>. QED  BY <1>1, <1>8, <1>9, <3>1 DEF Parted
  <2>2. Apart(s)
    BY <2>1 DEF Flat
  <2>3. ASSUME NEW i \in 1 .. l, NEW j \in 1 .. m PROVE s[i] # q[j]
    <3>1. PICK x \in S : x = s[i]
      BY <1>2, <1>6
    <3>2. x \in Among(s)
      BY <1>6, <3>1 DEF Among
    <3>3. PICK k \in 1 .. n : x \in Among(seqs[k])
      BY <3>2 DEF Flat
    <3>4. x \notin Among(q)
      BY <2>1, <3>3
    <3>. QED  BY <1>6, <3>1, <3>4 DEF Among
  <2>4. ASSUME NEW i \in 1 .. l + m PROVE r[i] = IF i <= l THEN s[i] ELSE q[i - l]
    BY <1>5
  <2>5. \A i \in 1 .. l + m : IF i <= l THEN i \in 1 .. l ELSE i - l \in 1 .. m
    OBVIOUS
  <2>6. ASSUME NEW i \in 1 .. l + m, NEW j \in 1 .. l + m, r[i] = r[j] PROVE i = j
    <3>1. CASE i <= l /\ j <= l
      <4>1. i \in 1 .. l /\ j \in 1 .. l /\ s[i] = s[j]
        BY <2>4, <2>5, <2>6, <3>1
      <4>. QED  BY <1>6, <2>2, <4>1 DEF Apart
    <3>2. CASE ~(i <= l) /\ ~(j <= l)
      <4>1. i - l \in 1 .. m /\ j - l \in 1 .. m /\ q[i - l] = q[j - l]
        BY <2>4, <2>5, <2>6, <3>2
      <4>2. i - l = j - l
        BY <1>6, <2>1, <4>1 DEF Apart
      <4>. QED  BY <4>2
    <3>3. CASE i <= l /\ ~(j <= l)
      <4>1. i \in 1 .. l /\ j - l \in 1 .. m /\ s[i] = q[j - l]
        BY <2>4, <2>5, <2>6, <3>3
      <4>. QED  BY <2>3, <4>1
    <3>4. CASE ~(i <= l) /\ j <= l
      <4>1. i - l \in 1 .. m /\ j \in 1 .. l /\ s[j] = q[i - l]
        BY <2>4, <2>5, <2>6, <3>4
      <4>. QED  BY <2>3, <4>1
    <3>. QED  BY <3>1, <3>2, <3>3, <3>4
  <2>. QED  BY <1>6, <2>6 DEF Apart
<1>. QED  BY <1>1, <1>5, <1>7, <1>8, <1>9 DEF Flat

\* What flattening makes, though it is defined by recursion.
LEMMA FlattenIs ==
  ASSUME NEW S, NEW seqs \in Seq(Seq(S)), NEW s, s = Watched!FlattenSeq(seqs)
  PROVE  Flat(s, seqs, S, Len(seqs))
<1>. DEFINE Next1(f, i) == IF i = 1 THEN seqs[i] ELSE f[i - 1] \o seqs[i]
            E(f) == [i \in 1 .. Len(seqs) |-> Next1(f, i)]
            N == {n \in Nat : n <= Len(seqs) => \E f : \A i \in 1 .. n : f[i] = Next1(f, i)}
<1>0. Len(seqs) \in Nat
  OBVIOUS
<1>1. CASE Len(seqs) = 0
  <2>1. seqs = <<>>
    BY <1>1, EmptySeq
  <2>2. s = <<>>
    BY <2>1 DEF Watched!FlattenSeq
  <2>3. s \in Seq(S) /\ Among(s) = {} /\ 1 .. Len(seqs) = {} /\ Apart(s)
    BY <1>1, <2>2 DEF Among, Apart
  <2>. QED  BY <2>3 DEF Flat
<1>2. CASE Len(seqs) # 0
  <2>1. 0 \in N
    <3>1. 1 .. 0 = {}
      OBVIOUS
    <3>. QED  BY <3>1
  <2>2. ASSUME NEW n \in N PROVE n + 1 \in N
    <3>. SUFFICES ASSUME n + 1 <= Len(seqs)
                  PROVE  \E g : \A i \in 1 .. n + 1 : g[i] = Next1(g, i)
      OBVIOUS
    <3>1. n \in Nat /\ n <= Len(seqs)
      BY <1>0
    <3>2. PICK f : \A i \in 1 .. n : f[i] = Next1(f, i)
      BY <3>1
    <3>3. PICK x : x = Next1(f, n + 1)
      OBVIOUS
    <3>4. PICK g : g = [i \in 1 .. n + 1 |-> IF i = n + 1 THEN x ELSE f[i]]
      OBVIOUS
    <3>5. ASSUME NEW i \in 1 .. n + 1 PROVE g[i] = Next1(g, i)
      <4>1. i # 1 => i - 1 \in 1 .. n + 1 /\ i - 1 # n + 1
        BY <3>1
      <4>2. i # 1 => g[i - 1] = f[i - 1]
        BY <3>4, <4>1
      <4>3. CASE i = n + 1
        <5>1. g[i] = x
          BY <3>4, <4>3
        <5>. QED  BY <3>3, <4>2, <4>3, <5>1
      <4>4. CASE i # n + 1
        <5>1. i \in 1 .. n
          BY <3>1, <4>4
        <5>2. g[i] = f[i]
          BY <3>4, <4>4
        <5>3. f[i] = Next1(f, i)
          BY <3>2, <5>1
        <5>. QED  BY <4>2, <5>2, <5>3
      <4>. QED  BY <4>3, <4>4
    <3>. HIDE DEF Next1
    <3>. QED  BY <3>5
  <2>3. N = Nat
    <3>1. N \in SUBSET Nat
      OBVIOUS
    <3>. HIDE DEF N
    <3>. QED  BY <2>1, <2>2, <3>1, Induction
  <2>4. PICK f : \A i \in 1 .. Len(seqs) : f[i] = Next1(f, i)
    <3>1. PICK n \in N : n = Len(seqs)
      <4>. HIDE DEF N
      <4>. QED  BY <1>0, <2>3
    <3>2. n <= Len(seqs)
      BY <1>0, <3>1
    <3>. HIDE DEF Next1
    <3>. QED  BY <3>1, <3>2
  <2>5. \E h : h = E(h)
    <3>1. PICK h : h = [i \in 1 .. Len(seqs) |-> f[i]]
      OBVIOUS
    <3>2. ASSUME NEW i \in 1 .. Len(seqs) PROVE h[i] = Next1(h, i)
      <4>1. i # 1 => i - 1 \in 1 .. Len(seqs)
        BY <1>0
      <4>2. i # 1 => h[i - 1] = f[i - 1]
        BY <3>1, <4>1
      <4>3. h[i] = f[i] /\ f[i] = Next1(f, i)
        BY <2>4, <3>1
      <4>. QED  BY <4>2, <4>3
    <3>3. h = E(h)
      <4>. HIDE DEF Next1
      <4>. QED  BY <3>1, <3>2
    <3>. QED  BY <3>3
  <2>6. PICK h : h = CHOOSE g : g = E(g)
    OBVIOUS
  <2>7. h = E(h)
    BY <2>5, <2>6
  <2>8. s = h[Len(seqs)]
    BY <1>2, <2>6 DEF Watched!FlattenSeq
  <2>9. \A i \in 1 .. Len(seqs) : h[i] = Next1(h, i)
    <3>. HIDE DEF Next1
    <3>. QED  BY <2>7
  <2>. DEFINE M == {n \in Nat : n + 1 <= Len(seqs) => Flat(h[n + 1], seqs, S, n + 1)}
  <2>10. 0 \in M
    <3>1. PICK q \in Seq(S) : q = seqs[1]
      BY <1>0, <1>2
    <3>2. h[1] = q
      BY <1>0, <1>2, <2>9, <3>1
    <3>3. \A i : i \in 1 .. 1 <=> i = 1
      OBVIOUS
    <3>4. Flat(h[1], seqs, S, 1)
      BY <3>1, <3>2, <3>3 DEF Flat, Parted
    <3>. QED  BY <3>4
  <2>11. ASSUME NEW n \in M PROVE n + 1 \in M
    <3>. SUFFICES ASSUME (n + 1) + 1 <= Len(seqs)
                  PROVE  Flat(h[(n + 1) + 1], seqs, S, (n + 1) + 1)
      OBVIOUS
    <3>1. PICK m \in Nat : m = n + 1
      OBVIOUS
    <3>2. m + 1 \in 1 .. Len(seqs) /\ m + 1 # 1 /\ (m + 1) - 1 = m /\ m <= Len(seqs)
      BY <1>0, <3>1
    <3>3. Flat(h[m], seqs, S, m)
      BY <3>1, <3>2
    <3>4. h[m + 1] = h[m] \o seqs[m + 1]
      BY <2>9, <3>2
    <3>. QED  BY <3>1, <3>2, <3>3, <3>4, FlatMore
  <2>12. M = Nat
    <3>1. M \in SUBSET Nat
      OBVIOUS
    <3>. HIDE DEF M
    <3>. QED  BY <2>10, <2>11, <3>1, Induction
  <2>13. PICK n \in M : n + 1 = Len(seqs)
    <3>1. Len(seqs) - 1 \in Nat /\ (Len(seqs) - 1) + 1 = Len(seqs)
      BY <1>0, <1>2
    <3>. HIDE DEF M
    <3>. QED  BY <2>12, <3>1
  <2>14. n + 1 <= Len(seqs)
    BY <1>0, <2>13
  <2>. QED  BY <2>8, <2>13, <2>14
<1>. QED  BY <1>1, <1>2

\* Calls c tell all who hear of a change, and of changes only; and nobody twice
\* of one, when no watch is set twice and no change recorded twice.
CallsFor(c, P, snap, R, changes) ==
  /\ c \in Seq(P \X R)
  /\ \A k \in DOMAIN c : c[k][2] \in Among(changes)
  /\ \A w \in Among(snap), row \in Among(changes) :
       Watched!Hears(w, row) => \E k \in DOMAIN c : c[k] = <<w, row>>
  /\ Apart(snap) /\ Apart(changes) => Apart(c)

LEMMA CallsAre ==
  ASSUME NEW P, NEW snap \in Seq(P), NEW R, NEW changes \in Seq(R),
         NEW c, c = Watched!Calls(snap, changes)
  PROVE  CallsFor(c, P, snap, R, changes)
<1>. DEFINE One(i, j) == IF Watched!Hears(snap[j], changes[i])
                         THEN <<<<snap[j], changes[i]>>>> ELSE <<>>
            Ones(i) == [j \in DOMAIN snap |-> One(i, j)]
            S == P \X R
<1>1. PICK m \in Nat : m = Len(snap) /\ DOMAIN snap = 1 .. m
  OBVIOUS
<1>2. PICK n \in Nat : n = Len(changes) /\ DOMAIN changes = 1 .. n
  OBVIOUS
<1>3. ASSUME NEW i \in 1 .. n, NEW j \in 1 .. m
      PROVE  /\ One(i, j) \in Seq(S)
             /\ \A x \in S : x \in Among(One(i, j))
                              <=> Watched!Hears(snap[j], changes[i]) /\ x = <<snap[j], changes[i]>>
  <2>1. PICK x \in S : x = <<snap[j], changes[i]>>
    <3>1. snap[j] \in P /\ changes[i] \in R
      BY <1>1, <1>2
    <3>. QED  BY <3>1
  <2>2. CASE Watched!Hears(snap[j], changes[i])
    <3>1. One(i, j) = <<x>>
      BY <2>1, <2>2
    <3>2. <<x>> \in Seq(S) /\ DOMAIN <<x>> = {1} /\ <<x>>[1] = x
      OBVIOUS
    <3>3. Among(<<x>>) = {x}
      BY <3>2 DEF Among
    <3>. HIDE DEF One, S
    <3>. QED  BY <2>1, <2>2, <3>1, <3>2, <3>3
  <2>3. CASE ~Watched!Hears(snap[j], changes[i])
    <3>1. One(i, j) = <<>>
      BY <2>3
    <3>2. <<>> \in Seq(S) /\ Among(<<>>) = {}
      BY DEF Among
    <3>. HIDE DEF One, S
    <3>. QED  BY <2>3, <3>1, <3>2
  <2>. QED  BY <2>2, <2>3
<1>4. ASSUME NEW i \in 1 .. n
      PROVE  Flat(Watched!FlattenSeq(Ones(i)), Ones(i), S, m)
  <2>1. PICK q : q = Ones(i)
    OBVIOUS
  <2>2. q \in Seq(Seq(S)) /\ Len(q) = m
    <3>1. q = [j \in 1 .. m |-> One(i, j)] /\ \A j \in 1 .. m : One(i, j) \in Seq(S)
      BY <1>1, <1>3, <2>1
    <3>. HIDE DEF One, S
    <3>. QED  BY <3>1
  <2>. HIDE DEF Ones, S
  <2>. QED  BY <2>1, <2>2, FlattenIs
<1>5. PICK all : all = [i \in 1 .. n |-> Watched!FlattenSeq(Ones(i))]
  OBVIOUS
<1>6. c = Watched!FlattenSeq(all)
  BY <1>2, <1>5 DEF Watched!Calls
<1>7. all \in Seq(Seq(S)) /\ Len(all) = n
  <2>1. \A i \in 1 .. n : Watched!FlattenSeq(Ones(i)) \in Seq(S)
    <3>. HIDE DEF Ones, S
    <3>. QED  BY <1>4 DEF Flat
  <2>. HIDE DEF Ones, S
  <2>. QED  BY <1>5, <2>1
<1>8. Flat(c, all, S, n)
  <2>. HIDE DEF S
  <2>. QED  BY <1>6, <1>7, FlattenIs
<1>9. ASSUME NEW x \in S
      PROVE  x \in Among(c) <=> \E i \in 1 .. n, j \in 1 .. m :
                Watched!Hears(snap[j], changes[i]) /\ x = <<snap[j], changes[i]>>
  <2>1. x \in Among(c) <=> \E i \in 1 .. n : x \in Among(all[i])
    <3>. HIDE DEF S
    <3>. QED  BY <1>8 DEF Flat
  <2>2. ASSUME NEW i \in 1 .. n
        PROVE  x \in Among(all[i]) <=> \E j \in 1 .. m :
                  Watched!Hears(snap[j], changes[i]) /\ x = <<snap[j], changes[i]>>
    <3>1. x \in Among(all[i]) <=> \E j \in 1 .. m : x \in Among(Ones(i)[j])
      <4>1. all[i] = Watched!FlattenSeq(Ones(i))
        BY <1>5
      <4>. HIDE DEF Ones, S
      <4>. QED  BY <1>4, <4>1 DEF Flat
    <3>2. \A j \in 1 .. m : Ones(i)[j] = One(i, j)
      BY <1>1
    <3>. HIDE DEF One, Ones, S
    <3>. QED  BY <1>3, <3>1, <3>2
  <2>. HIDE DEF S
  <2>. QED  BY <2>1, <2>2
<1>10. c \in Seq(S)
  <2>. HIDE DEF S
  <2>. QED  BY <1>8 DEF Flat
<1>11. ASSUME NEW k \in DOMAIN c PROVE c[k][2] \in Among(changes)
  <2>1. PICK x \in S : x = c[k]
    BY <1>10
  <2>2. x \in Among(c)
    BY <2>1 DEF Among
  <2>3. PICK i \in 1 .. n, j \in 1 .. m : x = <<snap[j], changes[i]>>
    BY <1>9, <2>2
  <2>4. x[2] = changes[i]
    BY <2>3
  <2>. QED  BY <1>2, <2>1, <2>4 DEF Among
<1>12. ASSUME NEW w \in Among(snap), NEW row \in Among(changes), Watched!Hears(w, row)
       PROVE  \E k \in DOMAIN c : c[k] = <<w, row>>
  <2>1. PICK j \in 1 .. m : w = snap[j]
    BY <1>1 DEF Among
  <2>2. PICK i \in 1 .. n : row = changes[i]
    BY <1>2 DEF Among
  <2>3. <<w, row>> \in S
    BY <1>1, <1>2, <2>1, <2>2
  <2>4. <<w, row>> \in Among(c)
    <3>. HIDE DEF S
    <3>. QED  BY <1>9, <1>12, <2>1, <2>2, <2>3
  <2>. QED  BY <2>4 DEF Among
<1>13. ASSUME Apart(snap), Apart(changes) PROVE Apart(c)
  <2>1. ASSUME NEW i \in 1 .. n PROVE Apart(all[i])
    <3>1. ASSUME NEW j \in 1 .. m PROVE Apart(One(i, j))
      <4>1. CASE Watched!Hears(snap[j], changes[i])
        <5>1. PICK x : x = <<snap[j], changes[i]>>
          OBVIOUS
        <5>2. One(i, j) = <<x>>
          BY <4>1, <5>1
        <5>3. DOMAIN <<x>> = {1}
          OBVIOUS
        <5>4. Apart(<<x>>)
          BY <5>3 DEF Apart
        <5>. HIDE DEF One
        <5>. QED  BY <5>2, <5>4
      <4>2. CASE ~Watched!Hears(snap[j], changes[i])
        <5>1. One(i, j) = <<>>
          BY <4>2
        <5>2. Apart(<<>>)
          BY DEF Apart
        <5>. HIDE DEF One
        <5>. QED  BY <5>1, <5>2
      <4>. QED  BY <4>1, <4>2
    <3>2. ASSUME NEW j \in 1 .. m, NEW k \in 1 .. m, j # k
          PROVE  Among(One(i, j)) \cap Among(One(i, k)) = {}
      <4>. SUFFICES ASSUME NEW x, x \in Among(One(i, j)), x \in Among(One(i, k)) PROVE FALSE
        OBVIOUS
      <4>1. x \in S
        <5>1. One(i, j) \in Seq(S)
          BY <1>3
        <5>. HIDE DEF One, S
        <5>. QED  BY <5>1 DEF Among
      <4>2. x = <<snap[j], changes[i]>> /\ x = <<snap[k], changes[i]>>
        <5>. HIDE DEF One, S
        <5>. QED  BY <1>3, <4>1
      <4>3. snap[j] = snap[k]
        BY <4>2
      <4>. QED  BY <1>1, <1>13, <3>2, <4>3 DEF Apart
    <3>3. \A j \in 1 .. m : Ones(i)[j] = One(i, j)
      BY <1>1
    <3>4. Parted(Ones(i), m)
      <4>. HIDE DEF One, Ones
      <4>. QED  BY <3>1, <3>2, <3>3 DEF Parted
    <3>5. all[i] = Watched!FlattenSeq(Ones(i))
      BY <1>5
    <3>. HIDE DEF Ones, S
    <3>. QED  BY <1>4, <3>4, <3>5 DEF Flat
  <2>2. ASSUME NEW i \in 1 .. n, NEW x \in S, x \in Among(all[i]) PROVE x[2] = changes[i]
    <3>1. all[i] = Watched!FlattenSeq(Ones(i))
      BY <1>5
    <3>2. PICK j \in 1 .. m : x \in Among(Ones(i)[j])
      <4>. HIDE DEF Ones, S
      <4>. QED  BY <1>4, <2>2, <3>1 DEF Flat
    <3>3. Ones(i)[j] = One(i, j)
      BY <1>1
    <3>4. x = <<snap[j], changes[i]>>
      <4>. HIDE DEF One, Ones, S
      <4>. QED  BY <1>3, <3>2, <3>3
    <3>. QED  BY <3>4
  <2>3. ASSUME NEW i \in 1 .. n, NEW k \in 1 .. n, i # k
        PROVE  Among(all[i]) \cap Among(all[k]) = {}
    <3>. SUFFICES ASSUME NEW x, x \in Among(all[i]), x \in Among(all[k]) PROVE FALSE
      OBVIOUS
    <3>1. x \in S
      <4>1. all[i] \in Seq(S)
        <5>. HIDE DEF S
        <5>. QED  BY <1>7
      <4>. HIDE DEF S
      <4>. QED  BY <4>1 DEF Among
    <3>2. changes[i] = changes[k]
      <4>1. x[2] = changes[i] /\ x[2] = changes[k]
        <5>. HIDE DEF S
        <5>. QED  BY <2>2, <3>1
      <4>. QED  BY <4>1
    <3>. QED  BY <1>2, <1>13, <2>3, <3>2 DEF Apart
  <2>4. Parted(all, n)
    BY <2>1, <2>3 DEF Parted
  <2>. HIDE DEF S
  <2>. QED  BY <1>8, <2>4 DEF Flat
<1>. QED  BY <1>10, <1>11, <1>12, <1>13 DEF CallsFor

----------------------------------------------------------------------------
(* What a transaction records                                              *)

Frame == [changes : Seq(Watched!Rows), tracking : BOOLEAN, touched : SUBSET Watched!Rows,
          silent : SUBSET Watched!Rows, stray : SUBSET Watched!Rows]

SameBut(t, r) == /\ r.tracking = t.tracking /\ r.touched = t.touched
                 /\ r.silent = t.silent /\ r.stray = t.stray

\* r is t with the rows of R recorded, where that is done at all, and none twice.
Noted(t, r, R) ==
  /\ r \in Frame /\ SameBut(t, r)
  /\ Among(t.changes) \subseteq Among(r.changes)
  /\ Among(r.changes) \subseteq Among(t.changes) \cup R
  /\ t.tracking = TRUE => \A row \in R : row[1] \in dupsort \/ row \in Among(r.changes)
  /\ Apart(t.changes) => Apart(r.changes)

LEMMA AppendedAre ==
  ASSUME NEW S, NEW s \in Seq(S), NEW x \in S
  PROVE  /\ Append(s, x) \in Seq(S) /\ Among(Append(s, x)) = Among(s) \cup {x}
         /\ Apart(s) /\ x \notin Among(s) => Apart(Append(s, x))
<1>0. PICK r : r = Append(s, x)
  OBVIOUS
<1>1. PICK n \in Nat : n = Len(s) /\ DOMAIN s = 1 .. n
  OBVIOUS
<1>2. /\ r \in Seq(S) /\ Len(r) = n + 1 /\ DOMAIN r = 1 .. n + 1
      /\ \A i \in 1 .. n : r[i] = s[i]
      /\ r[n + 1] = x
  BY <1>0, <1>1, AppendProperties
<1>3. \A i : i \in 1 .. n + 1 <=> i \in 1 .. n \/ i = n + 1
  BY <1>1
<1>4. ASSUME Apart(s), x \notin Among(s) PROVE Apart(r)
  <2>1. \A i \in 1 .. n : r[i] # x
    BY <1>1, <1>2, <1>4 DEF Among
  <2>2. \A i, j \in 1 .. n : r[i] = r[j] => i = j
    BY <1>1, <1>2, <1>4 DEF Apart
  <2>. QED  BY <1>2, <1>3, <2>1, <2>2 DEF Apart
<1>5. Among(r) = Among(s) \cup {x}
  BY <1>1, <1>2, <1>3 DEF Among
<1>. QED  BY <1>0, <1>2, <1>4, <1>5

LEMMA RemovedAre ==
  ASSUME NEW S, NEW s \in Seq(S), Apart(s), NEW i \in DOMAIN s
  PROVE  Watched!RemoveAt(s, i) \in Seq(S) /\ Apart(Watched!RemoveAt(s, i))
<1>1. PICK n \in Nat : n = Len(s) /\ DOMAIN s = 1 .. n /\ i \in 1 .. n
  OBVIOUS
<1>2. PICK a \in Nat, b \in Nat : i = a + 1 /\ n = a + 1 + b
  <2>1. i - 1 \in Nat /\ n - i \in Nat
    BY <1>1
  <2>2. i = (i - 1) + 1 /\ n = (i - 1) + 1 + (n - i)
    BY <1>1
  <2>. QED  BY <2>1, <2>2
<1>3. a = i - 1 /\ b = n - i /\ a + b = n - 1 /\ n = i + b
  BY <1>2
<1>4. PICK p : p = SubSeq(s, 1, i - 1)
  OBVIOUS
<1>5. PICK q : q = SubSeq(s, i + 1, n)
  OBVIOUS
<1>6. p \in Seq(S) /\ Len(p) = a /\ \A k \in 1 .. a : p[k] = s[k]
  <2>1. p = SubSeq(s, 1, a) /\ 1 \in Int /\ a \in Int
    BY <1>3, <1>4
  <2>2. \A k \in 1 .. a : s[k] \in S
    BY <1>1, <1>2
  <2>3. /\ p \in Seq(S) /\ Len(p) = IF 1 <= a THEN a - 1 + 1 ELSE 0
        /\ \A k \in 1 .. a - 1 + 1 : p[k] = s[1 + k - 1]
    BY <2>1, <2>2, SubSeqProperties
  <2>4. a - 1 + 1 = a /\ \A k \in Int : 1 + k - 1 = k
    OBVIOUS
  <2>. QED  BY <2>3, <2>4
<1>7. q \in Seq(S) /\ Len(q) = b /\ \A k \in 1 .. b : q[k] = s[k + i]
  <2>1. i + 1 \in Int /\ n \in Int /\ n - (i + 1) + 1 = b /\ (i + 1 <= n <=> b # 0)
    <3>1. \A x, y \in Nat : /\ x + y - (x + 1) + 1 = y /\ (x + 1 <= x + y <=> y # 0)
                           /\ x + 1 \in Int /\ x + y \in Int
      OBVIOUS
    <3>2. i \in Nat
      BY <1>1
    <3>3. /\ i + b - (i + 1) + 1 = b /\ (i + 1 <= i + b <=> b # 0)
          /\ i + 1 \in Int /\ i + b \in Int
      BY <3>1, <3>2
    <3>4. n = i + b
      BY <1>3
    <3>. QED  BY <3>3, <3>4
  <2>2. \A k \in i + 1 .. n : s[k] \in S
    BY <1>1
  <2>3. /\ q \in Seq(S) /\ Len(q) = IF i + 1 <= n THEN n - (i + 1) + 1 ELSE 0
        /\ \A k \in 1 .. n - (i + 1) + 1 : q[k] = s[(i + 1) + k - 1]
    BY <1>5, <2>1, <2>2, SubSeqProperties
  <2>4. Len(q) = b
    BY <2>1, <2>3
  <2>5. \A k \in 1 .. b : (i + 1) + k - 1 = k + i
    BY <1>1
  <2>6. ASSUME NEW k \in 1 .. b PROVE q[k] = s[k + i]
    <3>1. q[k] = s[(i + 1) + k - 1]
      BY <2>1, <2>3
    <3>. QED  BY <2>5, <3>1
  <2>. QED  BY <2>3, <2>4, <2>6
<1>8. PICK r : r = p \o q
  OBVIOUS
<1>9. /\ r \in Seq(S) /\ DOMAIN r = 1 .. a + b
      /\ \A k \in 1 .. a + b : r[k] = IF k <= a THEN p[k] ELSE q[k - a]
  <2>1. p \in Seq(S) /\ q \in Seq(S)
    BY <1>6, <1>7
  <2>2. /\ r \in Seq(S) /\ Len(r) = Len(p) + Len(q)
        /\ \A k \in 1 .. Len(p) + Len(q) : r[k] = IF k <= Len(p) THEN p[k] ELSE q[k - Len(p)]
    BY <1>8, <2>1, ConcatProperties
  <2>3. Len(p) = a /\ Len(q) = b
    BY <1>6, <1>7
  <2>. QED  BY <2>2, <2>3
<1>10. ASSUME NEW k \in 1 .. a + b
       PROVE  \E c \in 1 .. n : c = (IF k <= a THEN k ELSE k + 1) /\ r[k] = s[c]
  <2>1. CASE k <= a
    <3>1. k \in 1 .. a /\ k \in 1 .. n
      BY <1>2, <2>1
    <3>. QED  BY <1>6, <1>9, <2>1, <3>1
  <2>2. CASE ~(k <= a)
    <3>1. k - a \in 1 .. b /\ (k - a) + (a + 1) = k + 1 /\ k + 1 \in 1 .. a + 1 + b
      BY <2>2
    <3>2. r[k] = q[k - a]
      BY <1>9, <2>2
    <3>3. q[k - a] = s[(k - a) + i]
      BY <1>7, <3>1
    <3>4. (k - a) + i = k + 1 /\ k + 1 \in 1 .. n
      BY <1>2, <3>1
    <3>. QED  BY <2>2, <3>2, <3>3, <3>4
  <2>. QED  BY <2>1, <2>2
<1>11. ASSUME NEW j \in 1 .. a + b, NEW k \in 1 .. a + b, r[j] = r[k] PROVE j = k
  <2>1. PICK c \in 1 .. n : c = (IF j <= a THEN j ELSE j + 1) /\ r[j] = s[c]
    BY <1>10
  <2>2. PICK d \in 1 .. n : d = (IF k <= a THEN k ELSE k + 1) /\ r[k] = s[d]
    BY <1>10
  <2>3. c = d
    BY <1>1, <1>11, <2>1, <2>2 DEF Apart
  <2>. QED  BY <2>1, <2>2, <2>3
<1>12. Watched!RemoveAt(s, i) = r
  BY <1>1, <1>4, <1>5, <1>8 DEF Watched!RemoveAt
<1>. QED  BY <1>9, <1>11, <1>12 DEF Apart

LEMMA TrackNotes ==
  ASSUME NEW t \in Frame, NEW row \in Watched!Rows, NEW r, r = Watched!Track(t, row)
  PROVE  Noted(t, r, {row})
<1>1. PICK s \in Seq(Watched!Rows) : s = t.changes
  BY DEF Frame
<1>2. Watched!Contains(s, row) <=> row \in Among(s)
  BY DEF Watched!Contains, Among
<1>3. CASE t.tracking = FALSE \/ row[1] \in dupsort \/ row \in Among(s)
  <2>1. r = t
    <3>1. ~t.tracking \/ row[1] \in dupsort \/ Watched!Contains(t.changes, row)
      BY <1>1, <1>2, <1>3, Zenon
    <3>. QED  BY <3>1, Zenon DEF Watched!Track
  <2>2. t.tracking = TRUE => row[1] \in dupsort \/ row \in Among(s)
    BY <1>3
  <2>. QED  BY <1>1, <2>1, <2>2 DEF Noted, SameBut
<1>4. CASE ~(t.tracking = FALSE \/ row[1] \in dupsort \/ row \in Among(s))
  <2>1. t.tracking = TRUE
    BY <1>4 DEF Frame
  <2>2. r = [t EXCEPT !.changes = Append(@, row)]
    <3>1. ~(~t.tracking \/ row[1] \in dupsort \/ Watched!Contains(t.changes, row))
      BY <1>1, <1>2, <1>4, <2>1, Zenon
    <3>. QED  BY <3>1, Zenon DEF Watched!Track
  <2>3. PICK a : a = Append(s, row)
    OBVIOUS
  <2>4. /\ a \in Seq(Watched!Rows) /\ Among(a) = Among(s) \cup {row}
        /\ Apart(s) => Apart(a)
    <3>1. s \in Seq(Watched!Rows) /\ row \in Watched!Rows /\ row \notin Among(s)
      BY <1>1, <1>4
    <3>. QED  BY <2>3, <3>1, AppendedAre, Zenon
  <2>5. r \in Frame /\ r.changes = a /\ SameBut(t, r)
    BY <1>1, <2>2, <2>3, <2>4 DEF Frame, SameBut
  <2>. QED  BY <1>1, <2>4, <2>5 DEF Noted
<1>. QED  BY <1>3, <1>4

LEMMA NotedMore ==
  ASSUME NEW t, NEW r, NEW u, NEW R, NEW Q, Noted(t, r, R), Noted(r, u, Q)
  PROVE  Noted(t, u, R \cup Q)
<1>1. /\ u \in Frame /\ SameBut(t, u)
      /\ Among(t.changes) \subseteq Among(u.changes)
      /\ Among(u.changes) \subseteq Among(t.changes) \cup (R \cup Q)
  BY DEF Noted, SameBut
<1>2. ASSUME t.tracking = TRUE, NEW row \in R \cup Q
      PROVE  row[1] \in dupsort \/ row \in Among(u.changes)
  <2>1. r.tracking = TRUE
    BY <1>2 DEF Noted, SameBut
  <2>. QED  BY <1>2, <2>1 DEF Noted
<1>. QED  BY <1>1, <1>2 DEF Noted

\* The rows that a merge takes over, one after another, though it is defined by
\* recursion over sets of places.
LEMMA MergeNotes ==
  ASSUME NEW t \in Frame, NEW child \in Frame, NEW r, r = Watched!Merge(t, child)
  PROVE  Noted(t, r, Among(child.changes))
<1>. DEFINE Top1(s) == Watched!Max(s)
            Last1(f, s) == Watched!Track(f[s \ {Top1(s)}], child.changes[Top1(s)])
            Step1(f, s) == IF s = {} THEN t ELSE Last1(f, s)
            D == DOMAIN child.changes
            E(f) == [s \in SUBSET D |-> Step1(f, s)]
            N == {k \in Nat : \E f : \A s \in SUBSET (1 .. k) : f[s] = Step1(f, s)}
<1>1. PICK n \in Nat : n = Len(child.changes) /\ D = 1 .. n
  BY DEF Frame
<1>2. \A i \in 1 .. n : child.changes[i] \in Watched!Rows
  BY <1>1 DEF Frame
<1>3. \A k \in Nat : \A s \in SUBSET (1 .. k) :
        s # {} => Top1(s) \in s /\ \A i \in s : Top1(s) >= i
  BY GreatestIs
<1>4. \A k \in Nat : \A s \in SUBSET (1 .. k + 1) : k + 1 \in s => Top1(s) = k + 1
  <2>. SUFFICES ASSUME NEW k \in Nat, NEW s \in SUBSET (1 .. k + 1), k + 1 \in s
                PROVE  Top1(s) = k + 1
    OBVIOUS
  <2>1. PICK x : x = Top1(s)
    OBVIOUS
  <2>2. x \in s /\ x >= k + 1
    <3>1. k + 1 \in Nat /\ s # {}
      OBVIOUS
    <3>. HIDE DEF Top1
    <3>. QED  BY <1>3, <2>1, <3>1
  <2>3. x \in 1 .. k + 1
    BY <2>2
  <2>4. x = k + 1
    BY <2>2, <2>3
  <2>. QED  BY <2>1, <2>4
<1>. HIDE DEF Top1
<1>5. 0 \in N
  <2>1. PICK f : f = [s \in SUBSET (1 .. 0) |-> t]
    OBVIOUS
  <2>2. \A s \in SUBSET (1 .. 0) : s = {}
    OBVIOUS
  <2>3. \A s \in SUBSET (1 .. 0) : f[s] = Step1(f, s)
    BY <2>1, <2>2
  <2>. HIDE DEF Step1
  <2>. QED  BY <2>3
<1>6. ASSUME NEW k \in N PROVE k + 1 \in N
  <2>1. k \in Nat
    OBVIOUS
  <2>2. PICK f : \A s \in SUBSET (1 .. k) : f[s] = Step1(f, s)
    OBVIOUS
  <2>3. PICK g : g = [s \in SUBSET (1 .. k + 1) |->
                        IF k + 1 \in s THEN Watched!Track(f[s \ {k + 1}], child.changes[k + 1])
                        ELSE f[s]]
    OBVIOUS
  <2>4. ASSUME NEW s \in SUBSET (1 .. k) PROVE g[s] = f[s]
    <3>1. s \in SUBSET (1 .. k + 1) /\ k + 1 \notin s
      BY <2>1
    <3>. QED  BY <2>3, <3>1
  <2>5. ASSUME NEW s \in SUBSET (1 .. k + 1) PROVE g[s] = Step1(g, s)
    <3>1. CASE k + 1 \in s
      <4>1. PICK o : o = s \ {k + 1}
        OBVIOUS
      <4>2. o \in SUBSET (1 .. k)
        BY <2>1, <4>1
      <4>3. Top1(s) = k + 1 /\ s # {}
        BY <1>4, <2>1, <3>1
      <4>4. g[s] = Watched!Track(f[o], child.changes[k + 1])
        BY <2>3, <3>1, <4>1
      <4>5. g[o] = f[o]
        BY <2>4, <4>2
      <4>6. Step1(g, s) = Watched!Track(g[o], child.changes[k + 1])
        BY <4>1, <4>3
      <4>. QED  BY <4>4, <4>5, <4>6
    <3>2. CASE k + 1 \notin s
      <4>1. s \in SUBSET (1 .. k)
        BY <2>1, <3>2
      <4>2. g[s] = Step1(f, s)
        BY <2>2, <2>4, <4>1
      <4>3. CASE s = {}
        BY <4>2, <4>3
      <4>4. CASE s # {}
        <5>1. PICK o : o = s \ {Top1(s)}
          OBVIOUS
        <5>2. o \in SUBSET (1 .. k)
          BY <4>1, <5>1
        <5>3. g[o] = f[o]
          BY <2>4, <5>2
        <5>. QED  BY <4>2, <4>4, <5>1, <5>3
      <4>. QED  BY <4>3, <4>4
    <3>. QED  BY <3>1, <3>2
  <2>. HIDE DEF Step1
  <2>. QED  BY <2>1, <2>5
<1>7. N = Nat
  <2>1. N \in SUBSET Nat
    OBVIOUS
  <2>. HIDE DEF N
  <2>. QED  BY <1>5, <1>6, <2>1, Induction
<1>8. PICK f : \A s \in SUBSET D : f[s] = Step1(f, s)
  <2>1. n \in N
    <3>. HIDE DEF N
    <3>. QED  BY <1>7
  <2>. HIDE DEF Step1, D
  <2>. QED  BY <1>1, <2>1
<1>9. \E h : h = E(h)
  <2>1. PICK h : h = [s \in SUBSET D |-> f[s]]
    OBVIOUS
  <2>2. ASSUME NEW s \in SUBSET D PROVE h[s] = Step1(h, s)
    <3>1. PICK o : o = s \ {Top1(s)}
      OBVIOUS
    <3>2. o \in SUBSET D
      BY <3>1
    <3>3. h[s] = f[s] /\ h[o] = f[o]
      BY <2>1, <3>2
    <3>4. f[s] = Step1(f, s)
      BY <1>8
    <3>. QED  BY <3>1, <3>3, <3>4
  <2>3. h = E(h)
    <3>. HIDE DEF Step1
    <3>. QED  BY <2>1, <2>2
  <2>. QED  BY <2>3
<1>10. PICK h : h = CHOOSE g : g = E(g)
  OBVIOUS
<1>11. h = E(h)
  BY <1>9, <1>10
<1>12. r = h[D]
  BY <1>10 DEF Watched!Merge, Watched!FoldLeft, Watched!MapThenFoldSet, Top1
<1>13. \A s \in SUBSET D : h[s] = Step1(h, s)
  <2>. HIDE DEF Step1, D
  <2>. QED  BY <1>11
<1>. DEFINE M == {k \in Nat : k <= n => Noted(t, h[1 .. k], {child.changes[i] : i \in 1 .. k})}
<1>14. 0 \in M
  <2>1. PICK o : o = 1 .. 0
    OBVIOUS
  <2>2. o = {} /\ o \in SUBSET D
    BY <2>1
  <2>3. h[o] = t
    BY <1>13, <2>2
  <2>4. {child.changes[i] : i \in o} = {}
    BY <2>2
  <2>5. Noted(t, t, {})
    BY DEF Noted, SameBut
  <2>. QED  BY <2>1, <2>3, <2>4, <2>5
<1>15. ASSUME NEW k \in M PROVE k + 1 \in M
  <2>. SUFFICES ASSUME k + 1 <= n
                PROVE  Noted(t, h[1 .. k + 1], {child.changes[i] : i \in 1 .. k + 1})
    OBVIOUS
  <2>1. k \in Nat /\ Noted(t, h[1 .. k], {child.changes[i] : i \in 1 .. k})
    BY <1>1
  <2>2. PICK s : s = 1 .. k + 1
    OBVIOUS
  <2>3. PICK o : o = 1 .. k
    OBVIOUS
  <2>4. /\ s \in SUBSET D /\ s # {} /\ s \in SUBSET (1 .. k + 1) /\ k + 1 \in s
        /\ o = s \ {k + 1} /\ k + 1 \in 1 .. n
    <3>1. k + 1 \in s /\ k + 1 \in 1 .. n
      BY <1>1, <2>1, <2>2
    <3>2. \A i \in s : i \in 1 .. n
      BY <1>1, <2>1, <2>2
    <3>3. \A i : i \in o <=> i \in s /\ i # k + 1
      BY <2>1, <2>2, <2>3
    <3>. HIDE DEF D
    <3>. QED  BY <1>1, <2>2, <3>1, <3>2, <3>3
  <2>5. Top1(s) = k + 1
    BY <1>4, <2>1, <2>4
  <2>6. PICK row \in Watched!Rows : row = child.changes[k + 1]
    BY <1>2, <2>4
  <2>7. h[s] = Watched!Track(h[o], row)
    BY <1>13, <2>4, <2>5, <2>6
  <2>8. h[o] \in Frame
    BY <2>1, <2>3 DEF Noted
  <2>9. Noted(h[o], h[s], {row})
    BY <2>7, <2>8, TrackNotes
  <2>10. Noted(t, h[s], {child.changes[i] : i \in o} \cup {row})
    BY <2>1, <2>3, <2>9, NotedMore
  <2>11. {child.changes[i] : i \in s} = {child.changes[i] : i \in o} \cup {row}
    BY <2>4, <2>6
  <2>. QED  BY <2>2, <2>10, <2>11
<1>16. n \in M
  <2>1. M \in SUBSET Nat
    OBVIOUS
  <2>. HIDE DEF M
  <2>. QED  BY <1>14, <1>15, <2>1, Induction
<1>17. Noted(t, h[1 .. n], {child.changes[i] : i \in 1 .. n})
  <2>1. PICK q : q = h[1 .. n]
    OBVIOUS
  <2>2. PICK R : R = {child.changes[i] : i \in 1 .. n}
    OBVIOUS
  <2>3. n <= n => Noted(t, q, R)
    BY <1>16, <2>1, <2>2
  <2>4. n <= n
    BY <1>1
  <2>. QED  BY <2>1, <2>2, <2>3, <2>4
<1>. QED  BY <1>1, <1>12, <1>17 DEF Among

----------------------------------------------------------------------------
(* What holds of transactions and of who tells                             *)

\* The writer is not the number that says there is none.
Manned == Watched!NoThread \notin Threads

\* All that a transaction touched is recorded, once, and nothing else, as far as
\* watchers ws may hear of it.
FrameGood(f, ws, dup) ==
  /\ f \in Frame /\ Apart(f.changes)
  /\ f.tracking = TRUE <=> ws # <<>>
  /\ Among(f.changes) \subseteq f.touched \cup f.stray
  /\ f.tracking = TRUE =>
       \A row \in f.touched \ f.silent : row[1] \in dup \/ row \in Among(f.changes)

FramesGood(fs, ws, dup, w) ==
  /\ ws \in Seq(Watchers) /\ Apart(ws)
  /\ fs \in Seq(Frame) /\ \A i \in DOMAIN fs : FrameGood(fs[i], ws, dup)
  /\ w \in Threads \cup {Watched!NoThread} /\ (w = Watched!NoThread <=> fs = <<>>)

Telling == [at : {"rest", "looking", "telling"}, snap : Seq(Watchers),
            changes : Seq(Watched!Rows), done : Nat, cause : SUBSET Watched!Rows]

\* Each call that is owed is yet to come, and all that is told has a cause; no
\* watch is set twice and no change recorded twice.
TellGood(b, ow) ==
  /\ b \in Telling /\ Apart(b.snap) /\ Apart(b.changes)
  /\ Among(b.changes) \subseteq b.cause
  /\ b.at = "rest" => ow = {}
  /\ b.at # "rest" => b.done <= Len(Watched!Calls(b.snap, b.changes))
  /\ b.at # "rest" => \A c \in ow : \E k \in DOMAIN Watched!Calls(b.snap, b.changes) :
                        b.done < k /\ c = Watched!Calls(b.snap, b.changes)[k]

TellsGood(ts, ow, wr) ==
  /\ ts = [t \in Threads |-> ts[t]] /\ ow = [t \in Threads |-> ow[t]]
  /\ \A t \in Threads : TellGood(ts[t], ow[t])
  /\ wr = FALSE

WatchInv == FramesGood(frames, watches, dupsort, writer) /\ TellsGood(tells, owed, wrong)

\* What is recorded of rows R, and what is said to be touched, keeps a transaction so.
LEMMA RecordGood ==
  ASSUME NEW t, FrameGood(t, watches, dupsort), NEW r, NEW R, Noted(t, r, R),
         NEW x \in Frame, x.changes = r.changes, x.tracking = r.tracking,
         t.touched \cup t.stray \subseteq x.touched \cup x.stray,
         R \subseteq x.touched \cup x.stray,
         t.tracking = TRUE =>
           \A row \in x.touched \ x.silent :
             row \in t.touched \ t.silent \/ row \in R \/ row[1] \in dupsort
  PROVE  FrameGood(x, watches, dupsort)
<1>1. x.tracking = t.tracking
  BY DEF Noted, SameBut
<1>2. Among(x.changes) \subseteq x.touched \cup x.stray /\ Apart(x.changes)
  BY DEF Noted, FrameGood
<1>3. ASSUME t.tracking = TRUE, NEW row \in x.touched \ x.silent
      PROVE  row[1] \in dupsort \/ row \in Among(x.changes)
  BY <1>3 DEF Noted, FrameGood
<1>. QED  BY <1>1, <1>2, <1>3 DEF FrameGood

LEMMA TopIs ==
  ASSUME WatchInv, writer # Watched!NoThread
  PROVE  /\ Len(frames) \in DOMAIN frames /\ Watched!Top \in Frame
         /\ FrameGood(Watched!Top, watches, dupsort)
<1>1. frames \in Seq(Frame) /\ frames # <<>>
  BY DEF WatchInv, FramesGood
<1>2. Len(frames) \in DOMAIN frames
  BY <1>1, EmptySeq
<1>3. FrameGood(Watched!Top, watches, dupsort)
  BY <1>2 DEF WatchInv, FramesGood, Watched!Top
<1>. QED  BY <1>2, <1>3 DEF FrameGood

LEMMA TopSet ==
  ASSUME WatchInv, writer # Watched!NoThread, NEW x, FrameGood(x, watches, dupsort),
         Watched!SetTop(x), UNCHANGED <<watches, dupsort, writer, tells, owed, wrong>>
  PROVE  WatchInv'
<1>1. frames' = [frames EXCEPT ![Len(frames)] = x]
  BY DEF Watched!SetTop
<1>2. frames \in Seq(Frame) /\ x \in Frame /\ Len(frames) \in DOMAIN frames
  BY TopIs DEF WatchInv, FramesGood, FrameGood
<1>3. frames' \in Seq(Frame) /\ DOMAIN frames' = DOMAIN frames /\ frames' # <<>>
  <2>1. PICK n \in Nat : n = Len(frames) /\ DOMAIN frames = 1 .. n /\ n \in 1 .. n
    BY <1>2
  <2>2. frames' \in Seq(Frame) /\ DOMAIN frames' = 1 .. n
    BY <1>1, <1>2, <2>1
  <2>. QED  BY <2>1, <2>2
<1>4. \A i \in DOMAIN frames' : frames'[i] = x \/ frames'[i] = frames[i]
  BY <1>1, <1>2, <1>3
<1>5. FramesGood(frames', watches, dupsort, writer)
  <2>1. frames # <<>>
    BY DEF WatchInv, FramesGood
  <2>. QED  BY <1>3, <1>4, <2>1 DEF WatchInv, FramesGood
<1>. QED  BY <1>5 DEF WatchInv

LEMMA PutKeeps ==
  ASSUME WatchInv, NEW row \in Watched!Rows, Watched!Put(row) \/ Watched!Delete(row)
  PROVE  WatchInv'
<1>1. writer # Watched!NoThread /\ UNCHANGED <<watches, dupsort, writer, tells, owed, wrong>>
  BY DEF Watched!Put, Watched!Delete
<1>2. PICK t : t = Watched!Top
  OBVIOUS
<1>3. FrameGood(t, watches, dupsort) /\ t \in Frame
  BY <1>1, <1>2, TopIs
<1>4. /\ t.touched \in SUBSET Watched!Rows /\ t.silent \in SUBSET Watched!Rows
      /\ t.stray \in SUBSET Watched!Rows
  BY <1>3 DEF Frame
<1>5. PICK a : a = t.touched \cup {row}
  OBVIOUS
<1>6. a \in SUBSET Watched!Rows
  BY <1>4, <1>5
<1>7. CASE Watched!SetTop([Watched!Track(t, row) EXCEPT !.touched = @ \cup {row}])
  <2>1. PICK r : r = Watched!Track(t, row)
    OBVIOUS
  <2>2. Noted(t, r, {row})
    BY <1>3, <2>1, TrackNotes
  <2>3. r \in Frame /\ r.touched = t.touched /\ r.silent = t.silent /\ r.stray = t.stray
    BY <2>2 DEF Noted, SameBut
  <2>4. PICK x : x = [r EXCEPT !.touched = @ \cup {row}]
    OBVIOUS
  <2>5. /\ x \in Frame /\ x.changes = r.changes /\ x.tracking = r.tracking
        /\ x.touched = a /\ x.silent = t.silent /\ x.stray = t.stray
    BY <1>5, <1>6, <2>3, <2>4 DEF Frame
  <2>6. FrameGood(x, watches, dupsort)
    BY <1>3, <1>5, <2>2, <2>5, RecordGood
  <2>7. Watched!SetTop(x)
    BY <1>7, <2>1, <2>4
  <2>. QED  BY <1>1, <2>6, <2>7, TopSet
<1>8. CASE Watched!SetTop([t EXCEPT !.touched = @ \cup {row}, !.silent = @ \cup {row}])
  <2>1. PICK x : x = [t EXCEPT !.touched = @ \cup {row}, !.silent = @ \cup {row}]
    OBVIOUS
  <2>2. PICK b : b = t.silent \cup {row}
    OBVIOUS
  <2>3. b \in SUBSET Watched!Rows
    BY <1>4, <2>2
  <2>4. /\ x \in Frame /\ x.changes = t.changes /\ x.tracking = t.tracking
        /\ x.touched = a /\ x.silent = b /\ x.stray = t.stray
    BY <1>3, <1>5, <1>6, <2>1, <2>2, <2>3 DEF Frame
  <2>5. Noted(t, t, {})
    BY <1>3 DEF Noted, SameBut
  <2>6. \A q \in x.touched \ x.silent : q \in t.touched \ t.silent
    BY <1>5, <2>2, <2>4
  <2>7. t.touched \cup t.stray \subseteq x.touched \cup x.stray
    BY <1>5, <2>4
  <2>8. FrameGood(x, watches, dupsort)
    <3>1. PICK R : R = {}
      OBVIOUS
    <3>2. Noted(t, t, R) /\ R \subseteq x.touched \cup x.stray
      BY <2>5, <3>1
    <3>. QED  BY <1>3, <2>4, <2>6, <2>7, <3>2, RecordGood
  <2>9. Watched!SetTop(x)
    BY <1>8, <2>1
  <2>. QED  BY <1>1, <2>8, <2>9, TopSet
<1>. QED  BY <1>2, <1>7, <1>8 DEF Watched!Put, Watched!Delete

LEMMA MisnamedKeeps ==
  ASSUME WatchInv, NEW row \in Watched!Rows, NEW other \in Watched!Rows,
         Watched!DeleteMisnamed(row, other)
  PROVE  WatchInv'
<1>1. writer # Watched!NoThread /\ UNCHANGED <<watches, dupsort, writer, tells, owed, wrong>>
  BY DEF Watched!DeleteMisnamed
<1>2. PICK t : t = Watched!Top
  OBVIOUS
<1>3. FrameGood(t, watches, dupsort) /\ t \in Frame
  BY <1>1, <1>2, TopIs
<1>4. PICK r : r = Watched!Track(t, other)
  OBVIOUS
<1>5. Noted(t, r, {other})
  BY <1>3, <1>4, TrackNotes
<1>6. r \in Frame /\ r.touched = t.touched /\ r.silent = t.silent /\ r.stray = t.stray
  BY <1>5 DEF Noted, SameBut
<1>7. PICK a : a = t.touched \cup {row}
  OBVIOUS
<1>8. PICK b : b = t.silent \cup {row}
  OBVIOUS
<1>9. PICK c : c = t.stray \cup {other}
  OBVIOUS
<1>10. a \in SUBSET Watched!Rows /\ b \in SUBSET Watched!Rows /\ c \in SUBSET Watched!Rows
  BY <1>3, <1>7, <1>8, <1>9 DEF Frame
<1>11. PICK x : x = [r EXCEPT !.touched = a, !.silent = b, !.stray = c]
  OBVIOUS
<1>12. /\ x \in Frame /\ x.changes = r.changes /\ x.tracking = r.tracking
       /\ x.touched = a /\ x.silent = b /\ x.stray = c
  BY <1>6, <1>10, <1>11 DEF Frame
<1>13. FrameGood(x, watches, dupsort)
  BY <1>3, <1>5, <1>7, <1>8, <1>9, <1>12, RecordGood
<1>14. Watched!SetTop(x)
  BY <1>2, <1>4, <1>6, <1>7, <1>8, <1>9, <1>11 DEF Watched!DeleteMisnamed
<1>. QED  BY <1>1, <1>13, <1>14, TopSet

LEMMA NobodyWrites ==
  ASSUME WatchInv, writer = Watched!NoThread, NEW ws \in Seq(Watchers), Apart(ws), NEW dup
  PROVE  FramesGood(frames, ws, dup, writer) /\ frames = <<>>
<1>1. frames = <<>>
  BY DEF WatchInv, FramesGood
<1>2. <<>> \in Seq(Frame) /\ DOMAIN <<>> = {}
  OBVIOUS
<1>. QED  BY <1>1, <1>2 DEF FramesGood

LEMMA WatchesKeep ==
  ASSUME WatchInv,
         \/ \E w \in Watchers : Watched!Watch(w) \/ Watched!Unwatch(w)
         \/ \E d \in Dbis, dup \in BOOLEAN : Watched!Open(d, dup)
  PROVE  WatchInv'
<1>1. writer = Watched!NoThread /\ UNCHANGED <<frames, writer, tells, owed, wrong>>
  BY DEF Watched!Watch, Watched!Unwatch, Watched!Open
<1>2. watches \in Seq(Watchers) /\ Apart(watches)
  BY DEF WatchInv, FramesGood
<1>3. watches' \in Seq(Watchers) /\ Apart(watches')
  <2>1. ASSUME NEW w \in Watchers, Watched!Watch(w)
        PROVE  watches' \in Seq(Watchers) /\ Apart(watches')
    <3>1. watches' = Append(watches, w) /\ ~Watched!Contains(watches, w)
      BY <2>1 DEF Watched!Watch
    <3>2. w \notin Among(watches)
      BY <3>1 DEF Watched!Contains, Among
    <3>. QED  BY <1>2, <3>1, <3>2, AppendedAre
  <2>2. ASSUME NEW w \in Watchers, Watched!Unwatch(w)
        PROVE  watches' \in Seq(Watchers) /\ Apart(watches')
    <3>1. PICK i \in DOMAIN watches : watches' = Watched!RemoveAt(watches, i)
      BY <2>2 DEF Watched!Unwatch
    <3>. QED  BY <1>2, <3>1, RemovedAre
  <2>3. ASSUME NEW d \in Dbis, NEW dup \in BOOLEAN, Watched!Open(d, dup)
        PROVE  watches' \in Seq(Watchers) /\ Apart(watches')
    BY <1>2, <2>3 DEF Watched!Open
  <2>. QED  BY <2>1, <2>2, <2>3
<1>4. FramesGood(frames, watches', dupsort', writer)
  BY <1>1, <1>3, NobodyWrites
<1>. QED  BY <1>1, <1>4 DEF WatchInv

\* A transaction that has done nothing yet.
LEMMA BlankGood ==
  ASSUME NEW b \in BOOLEAN, b = TRUE <=> watches # <<>>, NEW x,
         x = [Watched!Blank EXCEPT !.tracking = b]
  PROVE  FrameGood(x, watches, dupsort)
<1>1. /\ x.changes = <<>> /\ x.tracking = b /\ x.touched = {} /\ x.silent = {} /\ x.stray = {}
      /\ x \in Frame
  <2>1. <<>> \in Seq(Watched!Rows)
    OBVIOUS
  <2>. QED  BY <2>1 DEF Frame, Watched!Blank
<1>2. Among(<<>>) = {} /\ Apart(<<>>)
  BY DEF Among, Apart
<1>. QED  BY <1>1, <1>2 DEF FrameGood

LEMMA BeginWrites ==
  ASSUME Manned, WatchInv, NEW t \in Threads, Watched!Begin(t)
  PROVE  WatchInv'
<1>1. /\ writer' = t /\ UNCHANGED <<watches, dupsort, tells, owed, wrong>>
      /\ frames' = <<[Watched!Blank EXCEPT !.tracking = watches # <<>>]>>
  BY DEF Watched!Begin
<1>2. PICK b : b = (watches # <<>>)
  OBVIOUS
<1>3. PICK x : x = [Watched!Blank EXCEPT !.tracking = b]
  OBVIOUS
<1>4. b \in BOOLEAN /\ (b = TRUE <=> watches # <<>>)
  BY <1>2, Zenon
<1>5. FrameGood(x, watches, dupsort)
  BY <1>3, <1>4, BlankGood
<1>6. frames' = <<x>>
  BY <1>1, <1>2, <1>3, Zenon
<1>7. frames' \in Seq(Frame) /\ frames' # <<>> /\ DOMAIN frames' = {1} /\ frames'[1] = x
  BY <1>5, <1>6 DEF FrameGood
<1>8. FramesGood(frames', watches, dupsort, t)
  BY <1>5, <1>7 DEF FramesGood, WatchInv, Manned
<1>. QED  BY <1>1, <1>8 DEF WatchInv

LEMMA NestKeeps ==
  ASSUME WatchInv, Watched!BeginNested
  PROVE  WatchInv'
<1>1. /\ writer # Watched!NoThread /\ UNCHANGED <<watches, dupsort, writer, tells, owed, wrong>>
      /\ frames' = Append(frames, [Watched!Blank EXCEPT !.tracking = Watched!Top.tracking])
  BY DEF Watched!BeginNested
<1>2. FrameGood(Watched!Top, watches, dupsort)
  BY <1>1, TopIs
<1>3. PICK b : b = Watched!Top.tracking
  OBVIOUS
<1>4. b \in BOOLEAN /\ (b = TRUE <=> watches # <<>>)
  BY <1>2, <1>3 DEF FrameGood, Frame
<1>5. PICK x : x = [Watched!Blank EXCEPT !.tracking = b]
  OBVIOUS
<1>6. FrameGood(x, watches, dupsort)
  BY <1>4, <1>5, BlankGood
<1>7. frames' = Append(frames, x)
  BY <1>1, <1>3, <1>5
<1>8. PICK n \in Nat : n = Len(frames) /\ DOMAIN frames = 1 .. n
  BY DEF WatchInv, FramesGood
<1>9. /\ frames' \in Seq(Frame) /\ DOMAIN frames' = 1 .. n + 1
      /\ \A i \in 1 .. n : frames'[i] = frames[i]
      /\ frames'[n + 1] = x
  <2>1. frames \in Seq(Frame) /\ x \in Frame
    BY <1>6 DEF WatchInv, FramesGood, FrameGood
  <2>. QED  BY <1>7, <1>8, <2>1, AppendProperties
<1>10. \A i \in DOMAIN frames' : FrameGood(frames'[i], watches, dupsort)
  <2>1. \A i : i \in 1 .. n + 1 <=> i \in 1 .. n \/ i = n + 1
    BY <1>8
  <2>. QED  BY <1>6, <1>8, <1>9, <2>1 DEF WatchInv, FramesGood
<1>11. frames' # <<>>
  BY <1>8, <1>9
<1>12. FramesGood(frames', watches, dupsort, writer)
  BY <1>1, <1>9, <1>10, <1>11 DEF WatchInv, FramesGood
<1>. QED  BY <1>1, <1>12 DEF WatchInv

\* The frames but the last, or but the last two.
LEMMA FewerFrames ==
  ASSUME WatchInv, NEW k \in 1 .. 2, k <= Len(frames),
         NEW fs, fs = SubSeq(frames, 1, Len(frames) - k)
  PROVE  /\ fs \in Seq(Frame) /\ Len(fs) = Len(frames) - k
         /\ \A i \in DOMAIN fs : FrameGood(fs[i], watches, dupsort)
<1>1. PICK n \in Nat : n = Len(frames) /\ DOMAIN frames = 1 .. n
  BY DEF WatchInv, FramesGood
<1>2. /\ frames \in Seq(Frame)
      /\ \A i \in 1 .. n : frames[i] \in Frame /\ FrameGood(frames[i], watches, dupsort)
  BY <1>1 DEF WatchInv, FramesGood, FrameGood
<1>3. PICK m \in Nat : m = n - k /\ m <= n
  BY <1>1
<1>4. /\ fs \in Seq(Frame) /\ Len(fs) = m /\ DOMAIN fs = 1 .. m
      /\ \A i \in 1 .. m : fs[i] = frames[i]
  <2>1. fs = SubSeq(frames, 1, m)
    BY <1>1, <1>3
  <2>. QED  BY <1>1, <1>2, <1>3, <2>1
<1>5. \A i \in 1 .. m : i \in 1 .. n
  BY <1>3
<1>. QED  BY <1>1, <1>2, <1>3, <1>4, <1>5

LEMMA AbortKeeps ==
  ASSUME WatchInv, Watched!Abort
  PROVE  WatchInv'
<1>1. /\ writer # Watched!NoThread /\ UNCHANGED <<watches, dupsort, tells, owed, wrong>>
      /\ frames' = SubSeq(frames, 1, Len(frames) - 1)
      /\ writer' = IF Len(frames) = 1 THEN Watched!NoThread ELSE writer
  BY DEF Watched!Abort, Watched!Front
<1>2. PICK n \in Nat : n = Len(frames) /\ n >= 1
  <2>1. Len(frames) \in DOMAIN frames /\ frames \in Seq(Frame)
    BY <1>1, TopIs DEF WatchInv, FramesGood
  <2>. QED  BY <2>1
<1>3. /\ frames' \in Seq(Frame) /\ Len(frames') = n - 1
      /\ \A i \in DOMAIN frames' : FrameGood(frames'[i], watches, dupsort)
  <2>1. 1 \in 1 .. 2 /\ 1 <= Len(frames)
    BY <1>2
  <2>. QED  BY <1>1, <1>2, <2>1, FewerFrames
<1>4. frames' = <<>> <=> n = 1
  BY <1>2, <1>3, EmptySeq
<1>5. FramesGood(frames', watches, dupsort, writer')
  BY <1>1, <1>2, <1>3, <1>4 DEF WatchInv, FramesGood
<1>. QED  BY <1>1, <1>5 DEF WatchInv

LEMMA MergeKeeps ==
  ASSUME WatchInv, Watched!CommitNested
  PROVE  WatchInv'
<1>1. UNCHANGED <<watches, dupsort, writer, tells, owed, wrong>> /\ Len(frames) > 1
  BY DEF Watched!CommitNested
<1>2. PICK n \in Nat : n = Len(frames) /\ DOMAIN frames = 1 .. n /\ n > 1
  BY <1>1 DEF WatchInv, FramesGood
<1>3. n - 1 \in 1 .. n /\ n \in 1 .. n
  BY <1>2
<1>4. PICK t : t = frames[n - 1]
  OBVIOUS
<1>5. PICK c : c = frames[n]
  OBVIOUS
<1>6. FrameGood(t, watches, dupsort) /\ FrameGood(c, watches, dupsort)
  BY <1>2, <1>3, <1>4, <1>5 DEF WatchInv, FramesGood
<1>7. t \in Frame /\ c \in Frame /\ t.tracking = c.tracking
  BY <1>6 DEF FrameGood, Frame
<1>8. PICK r : r = Watched!Merge(t, c)
  OBVIOUS
<1>9. Noted(t, r, Among(c.changes))
  BY <1>7, <1>8, MergeNotes
<1>10. r \in Frame /\ r.touched = t.touched /\ r.silent = t.silent /\ r.stray = t.stray
  BY <1>9 DEF Noted, SameBut
<1>11. PICK x : x = [r EXCEPT !.touched = @ \cup c.touched, !.silent = @ \cup c.silent,
                              !.stray = @ \cup c.stray]
  OBVIOUS
<1>12. /\ x \in Frame /\ x.changes = r.changes /\ x.tracking = r.tracking
       /\ x.touched = t.touched \cup c.touched /\ x.silent = t.silent \cup c.silent
       /\ x.stray = t.stray \cup c.stray
  <2>1. PICK a : a = t.touched \cup c.touched
    OBVIOUS
  <2>2. PICK b : b = t.silent \cup c.silent
    OBVIOUS
  <2>3. PICK d : d = t.stray \cup c.stray
    OBVIOUS
  <2>4. a \in SUBSET Watched!Rows /\ b \in SUBSET Watched!Rows /\ d \in SUBSET Watched!Rows
    BY <1>7, <2>1, <2>2, <2>3 DEF Frame
  <2>5. x = [r EXCEPT !.touched = a, !.silent = b, !.stray = d]
    BY <1>10, <1>11, <2>1, <2>2, <2>3
  <2>6. /\ x \in Frame /\ x.changes = r.changes /\ x.tracking = r.tracking
        /\ x.touched = a /\ x.silent = b /\ x.stray = d
    BY <1>10, <2>4, <2>5 DEF Frame
  <2>. QED  BY <2>1, <2>2, <2>3, <2>6
<1>13. FrameGood(x, watches, dupsort)
  <2>1. PICK R : R = Among(c.changes)
    OBVIOUS
  <2>2. Noted(t, r, R)
    BY <1>9, <2>1
  <2>3. R \subseteq x.touched \cup x.stray
    BY <1>6, <1>12, <2>1 DEF FrameGood
  <2>4. t.touched \cup t.stray \subseteq x.touched \cup x.stray
    BY <1>12
  <2>5. ASSUME t.tracking = TRUE, NEW row \in x.touched \ x.silent
        PROVE  row \in t.touched \ t.silent \/ row \in R \/ row[1] \in dupsort
    BY <1>6, <1>7, <1>12, <2>1, <2>5 DEF FrameGood
  <2>. QED  BY <1>6, <1>12, <2>2, <2>3, <2>4, <2>5, RecordGood
<1>14. PICK fs : fs = SubSeq(frames, 1, Len(frames) - 2)
  OBVIOUS
<1>15. /\ fs \in Seq(Frame) /\ Len(fs) = n - 2
       /\ \A i \in DOMAIN fs : FrameGood(fs[i], watches, dupsort)
  <2>1. 2 \in 1 .. 2 /\ 2 <= Len(frames)
    BY <1>2
  <2>. QED  BY <1>2, <1>14, <2>1, FewerFrames
<1>16. frames' = Append(fs, x)
  <2>1. /\ c = Watched!Top /\ t = frames[Len(frames) - 1]
    BY <1>2, <1>4, <1>5 DEF Watched!Top
  <2>. QED  BY <1>8, <1>11, <1>14, <2>1 DEF Watched!CommitNested
<1>17. PICK m \in Nat : m = Len(fs) /\ DOMAIN fs = 1 .. m
  BY <1>15
<1>18. /\ frames' \in Seq(Frame) /\ DOMAIN frames' = 1 .. m + 1
       /\ \A i \in 1 .. m : frames'[i] = fs[i]
       /\ frames'[m + 1] = x
  BY <1>12, <1>15, <1>16, <1>17, AppendProperties
<1>19. \A i \in DOMAIN frames' : FrameGood(frames'[i], watches, dupsort)
  <2>1. \A i : i \in 1 .. m + 1 <=> i \in 1 .. m \/ i = m + 1
    BY <1>17
  <2>. QED  BY <1>13, <1>15, <1>17, <1>18, <2>1
<1>20. frames' # <<>> /\ frames # <<>>
  BY <1>1, <1>17, <1>18
<1>21. FramesGood(frames', watches, dupsort, writer)
  BY <1>18, <1>19, <1>20 DEF WatchInv, FramesGood
<1>. QED  BY <1>1, <1>21 DEF WatchInv

\* One thread's telling is set, and what it owes.
LEMMA TellSet ==
  ASSUME TellsGood(tells, owed, wrong), NEW t \in Threads, NEW b, NEW ow, TellGood(b, ow),
         tells' = [tells EXCEPT ![t] = b], owed' = [owed EXCEPT ![t] = ow], wrong' = FALSE
  PROVE  TellsGood(tells', owed', wrong')
<1>1. tells' = [u \in Threads |-> IF u = t THEN b ELSE tells[u]]
  BY DEF TellsGood
<1>2. owed' = [u \in Threads |-> IF u = t THEN ow ELSE owed[u]]
  BY DEF TellsGood
<1>3. tells' = [u \in Threads |-> tells'[u]] /\ owed' = [u \in Threads |-> owed'[u]]
  BY <1>1, <1>2
<1>4. ASSUME NEW u \in Threads PROVE TellGood(tells'[u], owed'[u])
  <2>1. CASE u = t
    <3>1. tells'[u] = b /\ owed'[u] = ow
      BY <1>1, <1>2, <2>1
    <3>. QED  BY <3>1
  <2>2. CASE u # t
    <3>1. tells'[u] = tells[u] /\ owed'[u] = owed[u]
      BY <1>1, <1>2, <2>2
    <3>. QED  BY <3>1 DEF TellsGood
  <2>. QED  BY <2>1, <2>2
<1>. QED  BY <1>3, <1>4 DEF TellsGood

\* Whoever has to be told of what a transaction recorded is in the calls that follow.
LEMMA CommitKeeps ==
  ASSUME WatchInv, Watched!Commit
  PROVE  WatchInv'
<1>1. /\ Len(frames) = 1 /\ writer' = Watched!NoThread /\ frames' = <<>>
      /\ UNCHANGED <<watches, dupsort, wrong>>
  BY DEF Watched!Commit
<1>2. frames # <<>> /\ writer \in Threads /\ writer # Watched!NoThread
  <2>1. frames # <<>>
    BY <1>1
  <2>. QED  BY <2>1 DEF WatchInv, FramesGood
<1>3. PICK t : t = Watched!Top
  OBVIOUS
<1>4. FrameGood(t, watches, dupsort) /\ t \in Frame
  BY <1>2, <1>3, TopIs
<1>5. PICK at : at = IF watches = <<>> \/ t.changes = <<>> THEN "rest" ELSE "looking"
  OBVIOUS
<1>6. PICK cause : cause = t.touched \cup t.stray
  OBVIOUS
<1>7. PICK b : b = [Watched!Nothing EXCEPT !.at = at, !.snap = watches, !.changes = t.changes,
                                          !.cause = cause]
  OBVIOUS
<1>8. PICK ow : ow = {c \in Watched!Range(watches) \X (t.touched \ t.silent) :
                        c[2][1] \notin dupsort /\ Watched!Hears(c[1], c[2])}
  OBVIOUS
<1>9. tells' = [tells EXCEPT ![writer] = b]
  BY <1>3, <1>5, <1>6, <1>7 DEF Watched!Commit
<1>10. owed' = [owed EXCEPT ![writer] = ow]
  BY <1>3, <1>8 DEF Watched!Commit
<1>11. /\ b.at = at /\ b.snap = watches /\ b.changes = t.changes /\ b.done = 0 /\ b.cause = cause
       /\ b \in Telling
  <2>1. /\ at \in {"rest", "looking"} /\ watches \in Seq(Watchers)
        /\ t.changes \in Seq(Watched!Rows) /\ cause \in SUBSET Watched!Rows
    BY <1>4, <1>5, <1>6 DEF Frame, WatchInv, FramesGood
  <2>2. b = [at |-> at, snap |-> watches, changes |-> t.changes, done |-> 0, cause |-> cause]
    BY <1>7 DEF Watched!Nothing
  <2>. QED  BY <2>1, <2>2 DEF Telling
<1>12. Among(b.changes) \subseteq b.cause
  BY <1>4, <1>6, <1>11 DEF FrameGood
<1>13. ASSUME NEW c \in ow
       PROVE  /\ c[1] \in Among(watches) /\ c[2] \in Among(t.changes)
              /\ Watched!Hears(c[1], c[2]) /\ c = <<c[1], c[2]>>
  <2>1. /\ c \in Watched!Range(watches) \X (t.touched \ t.silent)
        /\ c[2][1] \notin dupsort /\ Watched!Hears(c[1], c[2])
    BY <1>8
  <2>2. /\ c[1] \in Watched!Range(watches) /\ c[2] \in t.touched \ t.silent
        /\ c = <<c[1], c[2]>>
    BY <2>1
  <2>3. c[1] \in Among(watches)
    BY <2>2 DEF Watched!Range, Among
  <2>4. watches # <<>>
    BY <2>3 DEF Among
  <2>5. t.tracking = TRUE
    BY <1>4, <2>4 DEF FrameGood
  <2>6. c[2] \in Among(t.changes)
    BY <1>4, <2>1, <2>2, <2>5 DEF FrameGood
  <2>. QED  BY <2>1, <2>2, <2>3, <2>6
<1>14. ASSUME at = "rest" PROVE ow = {}
  <2>1. Among(watches) = {} \/ Among(t.changes) = {}
    BY <1>5, <1>14 DEF Among
  <2>. QED  BY <1>13, <2>1
<1>15. ASSUME NEW c \in ow
       PROVE  \E k \in DOMAIN Watched!Calls(b.snap, b.changes) :
                b.done < k /\ c = Watched!Calls(b.snap, b.changes)[k]
  <2>1. PICK cs : cs = Watched!Calls(watches, t.changes)
    OBVIOUS
  <2>2. watches \in Seq(Watchers) /\ t.changes \in Seq(Watched!Rows)
    BY <1>4 DEF Frame, WatchInv, FramesGood
  <2>3. /\ cs \in Seq(Watchers \X Watched!Rows)
        /\ \A w \in Among(watches), row \in Among(t.changes) :
             Watched!Hears(w, row) => \E k \in DOMAIN cs : cs[k] = <<w, row>>
    <3>1. CallsFor(cs, Watchers, watches, Watched!Rows, t.changes)
      BY <2>1, <2>2, CallsAre
    <3>. QED  BY <3>1 DEF CallsFor
  <2>4. PICK k \in DOMAIN cs : cs[k] = <<c[1], c[2]>>
    BY <1>13, <2>3
  <2>5. cs[k] = c
    BY <1>13, <2>4
  <2>6. 0 < k
    BY <2>3
  <2>. QED  BY <1>11, <2>1, <2>5, <2>6
<1>16. TellGood(b, ow)
  <2>1. PICK cs : cs = Watched!Calls(watches, t.changes)
    OBVIOUS
  <2>2. watches \in Seq(Watchers) /\ t.changes \in Seq(Watched!Rows)
    BY <1>4 DEF Frame, WatchInv, FramesGood
  <2>3. cs \in Seq(Watchers \X Watched!Rows)
    <3>1. CallsFor(cs, Watchers, watches, Watched!Rows, t.changes)
      BY <2>1, <2>2, CallsAre
    <3>. QED  BY <3>1 DEF CallsFor
  <2>4. b.done <= Len(Watched!Calls(b.snap, b.changes))
    BY <1>11, <2>1, <2>3
  <2>5. Apart(b.snap) /\ Apart(b.changes)
    BY <1>4, <1>11 DEF FrameGood, WatchInv, FramesGood
  <2>. QED  BY <1>11, <1>12, <1>14, <1>15, <2>4, <2>5 DEF TellGood
<1>17. TellsGood(tells', owed', wrong')
  BY <1>1, <1>2, <1>9, <1>10, <1>16, TellSet DEF WatchInv, TellsGood
<1>18. FramesGood(frames', watches', dupsort', writer')
  <2>1. <<>> \in Seq(Frame) /\ DOMAIN <<>> = {}
    OBVIOUS
  <2>. QED  BY <1>1, <2>1 DEF WatchInv, FramesGood
<1>. QED  BY <1>17, <1>18 DEF WatchInv

LEMMA LookKeeps ==
  ASSUME WatchInv, NEW t \in Threads, Watched!Look(t)
  PROVE  WatchInv'
<1>1. /\ UNCHANGED <<watches, dupsort, frames, writer, owed, wrong>> /\ tells[t].at = "looking"
      /\ tells' = [tells EXCEPT ![t].at = "telling"]
  BY DEF Watched!Look
<1>2. PICK b : b = tells[t]
  OBVIOUS
<1>3. PICK ow : ow = owed[t]
  OBVIOUS
<1>4. TellGood(b, ow) /\ b \in Telling /\ b.at = "looking"
  BY <1>1, <1>2, <1>3 DEF WatchInv, TellsGood, TellGood
<1>5. PICK n : n = [b EXCEPT !.at = "telling"]
  OBVIOUS
<1>6. /\ n \in Telling /\ n.at = "telling" /\ n.snap = b.snap /\ n.changes = b.changes
      /\ n.done = b.done /\ n.cause = b.cause
  BY <1>4, <1>5 DEF Telling
<1>7. TellGood(n, ow)
  BY <1>4, <1>6 DEF TellGood
<1>8. tells' = [tells EXCEPT ![t] = n]
  BY <1>1, <1>2, <1>5
<1>9. owed' = [owed EXCEPT ![t] = ow]
  BY <1>1, <1>3 DEF WatchInv, TellsGood
<1>10. TellsGood(tells', owed', wrong')
  BY <1>1, <1>7, <1>8, <1>9, TellSet DEF WatchInv, TellsGood
<1>. QED  BY <1>1, <1>10 DEF WatchInv

LEMMA TellKeeps ==
  ASSUME WatchInv, NEW t \in Threads, Watched!Tell(t)
  PROVE  WatchInv'
<1>1. UNCHANGED <<watches, dupsort, frames, writer>>
  BY DEF Watched!Tell
<1>2. PICK b : b = tells[t]
  OBVIOUS
<1>3. PICK ow : ow = owed[t]
  OBVIOUS
<1>4. PICK cs : cs = Watched!Calls(b.snap, b.changes)
  OBVIOUS
<1>5. TellGood(b, ow) /\ b \in Telling /\ b.at = "telling" /\ wrong = FALSE
  BY <1>2, <1>3 DEF WatchInv, TellsGood, TellGood, Watched!Tell
<1>6. b.snap \in Seq(Watchers) /\ b.changes \in Seq(Watched!Rows) /\ b.done \in Nat
  BY <1>5 DEF Telling
<1>7. /\ cs \in Seq(Watchers \X Watched!Rows) /\ Apart(cs)
      /\ \A k \in DOMAIN cs : cs[k][2] \in Among(b.changes)
  <2>1. CallsFor(cs, Watchers, b.snap, Watched!Rows, b.changes)
    BY <1>4, <1>6, CallsAre
  <2>2. Apart(b.snap) /\ Apart(b.changes)
    BY <1>5 DEF TellGood
  <2>. QED  BY <2>1, <2>2 DEF CallsFor
<1>8. PICK n \in Nat : n = Len(cs) /\ DOMAIN cs = 1 .. n
  BY <1>7
<1>9. \A c \in ow : \E k \in 1 .. n : b.done < k /\ c = cs[k]
  BY <1>4, <1>5, <1>8 DEF TellGood
<1>10. CASE b.done = n
  <2>1. tells' = [tells EXCEPT ![t] = Watched!Nothing] /\ UNCHANGED <<owed, wrong>>
    BY <1>2, <1>4, <1>8, <1>10 DEF Watched!Tell
  <2>2. ow = {}
    BY <1>6, <1>9, <1>10
  <2>3. TellGood(Watched!Nothing, ow)
    <3>1. /\ <<>> \in Seq(Watchers) /\ <<>> \in Seq(Watched!Rows)
          /\ Among(<<>>) = {} /\ Apart(<<>>)
      BY DEF Among, Apart
    <3>. QED  BY <2>2, <3>1 DEF TellGood, Telling, Watched!Nothing
  <2>4. owed' = [owed EXCEPT ![t] = ow]
    BY <1>3, <2>1 DEF WatchInv, TellsGood
  <2>5. TellsGood(tells', owed', wrong')
    BY <1>5, <2>1, <2>3, <2>4, TellSet DEF WatchInv
  <2>. QED  BY <1>1, <2>5 DEF WatchInv
<1>11. CASE b.done # n
  <2>1. PICK c : c = cs[b.done + 1]
    OBVIOUS
  <2>2. /\ tells' = [tells EXCEPT ![t].done = @ + 1]
        /\ owed' = [owed EXCEPT ![t] = @ \ {c}]
        /\ wrong' = (wrong \/ c[2] \notin b.cause \/ \E k \in 1 .. b.done : cs[k] = c)
    BY <1>2, <1>4, <1>8, <1>11, <2>1 DEF Watched!Tell
  <2>3. PICK d : d = [b EXCEPT !.done = @ + 1]
    OBVIOUS
  <2>4. PICK od : od = ow \ {c}
    OBVIOUS
  <2>5. tells' = [tells EXCEPT ![t] = d] /\ owed' = [owed EXCEPT ![t] = od]
    BY <1>2, <1>3, <2>2, <2>3, <2>4
  <2>6. /\ d \in Telling /\ d.at = "telling" /\ d.snap = b.snap /\ d.changes = b.changes
        /\ d.done = b.done + 1 /\ d.cause = b.cause
    BY <1>5, <2>3 DEF Telling
  <2>7. ASSUME NEW o \in od PROVE \E k \in 1 .. n : d.done < k /\ o = cs[k]
    <3>1. PICK k \in 1 .. n : b.done < k /\ o = cs[k]
      BY <1>9, <2>4
    <3>2. k # b.done + 1
      BY <2>1, <2>4, <3>1
    <3>3. d.done < k
      BY <1>6, <2>6, <3>1, <3>2
    <3>. QED  BY <3>1, <3>3
  <2>8. b.done + 1 \in 1 .. n
    BY <1>4, <1>5, <1>6, <1>8, <1>11 DEF TellGood
  <2>9. TellGood(d, od)
    <3>1. d.done <= Len(Watched!Calls(d.snap, d.changes))
      BY <1>4, <1>8, <2>6, <2>8
    <3>2. Among(d.changes) \subseteq d.cause
      BY <1>5, <2>6 DEF TellGood
    <3>3. Apart(d.snap) /\ Apart(d.changes)
      BY <1>5, <2>6 DEF TellGood
    <3>. QED  BY <1>4, <1>8, <2>6, <2>7, <3>1, <3>2, <3>3 DEF TellGood
  <2>10. wrong' = FALSE
    <3>1. c[2] \in b.cause
      BY <1>5, <1>7, <1>8, <2>1, <2>8 DEF TellGood
    <3>2. ASSUME NEW k \in 1 .. b.done PROVE cs[k] # c
      <4>1. k \in 1 .. n /\ k # b.done + 1
        BY <1>6, <2>8
      <4>. QED  BY <1>7, <1>8, <2>1, <2>8, <4>1 DEF Apart
    <3>. QED  BY <1>5, <2>2, <3>1, <3>2, Zenon
  <2>11. TellsGood(tells', owed', wrong')
    BY <2>5, <2>9, <2>10, TellSet DEF WatchInv
  <2>. QED  BY <1>1, <2>11 DEF WatchInv
<1>. QED  BY <1>10, <1>11

LEMMA WatchInit == Watched!Init => WatchInv
<1>. SUFFICES ASSUME Watched!Init PROVE WatchInv
  OBVIOUS
<1>1. /\ watches = <<>> /\ frames = <<>> /\ writer = Watched!NoThread /\ wrong = FALSE
      /\ tells = [t \in Threads |-> Watched!Nothing] /\ owed = [t \in Threads |-> {}]
  BY DEF Watched!Init
<1>2. /\ <<>> \in Seq(Watchers) /\ <<>> \in Seq(Frame) /\ <<>> \in Seq(Watched!Rows)
      /\ DOMAIN <<>> = {}
  OBVIOUS
<1>3. FramesGood(frames, watches, dupsort, writer)
  BY <1>1, <1>2 DEF FramesGood, Apart
<1>4. TellGood(Watched!Nothing, {})
  <2>1. Among(<<>>) = {} /\ Apart(<<>>)
    BY DEF Among, Apart
  <2>. QED  BY <1>2, <2>1 DEF TellGood, Telling, Watched!Nothing
<1>5. TellsGood(tells, owed, wrong)
  BY <1>1, <1>4 DEF TellsGood
<1>. QED  BY <1>3, <1>5 DEF WatchInv

LEMMA WatchStep ==
  ASSUME Manned, WatchInv, [Watched!Next]_(Watched!watchVars)
  PROVE  WatchInv'
<1>1. CASE UNCHANGED Watched!watchVars
  BY <1>1 DEF Watched!watchVars, WatchInv
<1>2. CASE Watched!Next
  <2>1. CASE \/ \E w \in Watchers : Watched!Watch(w) \/ Watched!Unwatch(w)
             \/ \E d \in Dbis, dup \in BOOLEAN : Watched!Open(d, dup)
    BY <2>1, WatchesKeep
  <2>2. ASSUME NEW t \in Threads, Watched!Begin(t) \/ Watched!Look(t) \/ Watched!Tell(t)
        PROVE  WatchInv'
    BY <2>2, BeginWrites, LookKeeps, TellKeeps
  <2>3. ASSUME NEW row \in Watched!Rows, Watched!Put(row) \/ Watched!Delete(row) PROVE WatchInv'
    BY <2>3, PutKeeps
  <2>4. ASSUME NEW row \in Watched!Rows, NEW other \in Watched!Rows \ {row},
               Watched!DeleteMisnamed(row, other)
        PROVE  WatchInv'
    BY <2>4, MisnamedKeeps
  <2>5. CASE Watched!BeginNested \/ Watched!CommitNested \/ Watched!Abort \/ Watched!Commit
    BY <2>5, NestKeeps, MergeKeeps, AbortKeeps, CommitKeeps
  <2>. QED  BY <1>2, <2>1, <2>2, <2>3, <2>4, <2>5 DEF Watched!Next
<1>. QED  BY <1>1, <1>2

\* Whoever watched at a commit has been told, once the commit is done, of each key
\* under its prefix that the transaction or one committed into it changed, once, and
\* of no other, but for a put that was not recorded and for a misnamed row
\* (sapling.c:566-790, 4120-4213).
THEOREM WatchersAreTold == ASSUME Manned PROVE Watched!Spec => []Watched!WatchersHear
<1>1. WatchInv => Watched!WatchersHear
  BY DEF WatchInv, TellsGood, TellGood, Watched!WatchersHear
<1>2. WatchInv /\ [Watched!Next]_(Watched!watchVars) => WatchInv'
  BY WatchStep
<1>. QED  BY <1>1, <1>2, WatchInit, PTL DEF Watched!Spec

=============================================================================

--------------------------- MODULE AttemptsProofs ---------------------------
(* Proofs about Attempts, for any rows, values, intents, retries and bounds. *)
EXTENDS Attempts, SequenceTheorems, WellFoundedInduction, TLAPS

---------------------------------------------------------------------------
(* Induction over the naturals, and what is highest                        *)

\* The less-than relation of the naturals, as a set of pairs.
NatLess == {p \in Nat \X Nat : p[1] < p[2]}

\* A non-empty set of naturals has a least element.
LEMMA LeastExists ==
  ASSUME NEW S \in SUBSET Nat, S # {}
  PROVE  \E s \in S : \A t \in S : s <= t
<1>1. IsWellFoundedOn(NatLess, Nat)
  <2>1. OpToRel(<, Nat) = NatLess
    BY DEF OpToRel, NatLess
  <2>. QED  BY <2>1, NatLessThanWellFounded
<1>2. PICK s \in S : \A t \in S : ~(<<t, s>> \in NatLess)
  BY <1>1, WFMin, Zenon
<1>3. ASSUME NEW t \in S PROVE s <= t
  <2>1. t \in Nat /\ s \in Nat /\ <<t, s>> \notin NatLess
    BY <1>2
  <2>2. ~(t < s)
    BY <2>1 DEF NatLess
  <2>. QED  BY <2>1, <2>2
<1>. QED  BY <1>3

\* A set of naturals that holds 0 and the successor of each member holds them all.
LEMMA Induction ==
  ASSUME NEW S \in SUBSET Nat, 0 \in S, \A n \in S : n + 1 \in S
  PROVE  S = Nat
<1>. SUFFICES ASSUME S # Nat PROVE FALSE
  OBVIOUS
<1>. DEFINE T == Nat \ S
<1>1. PICK m \in T : \A t \in T : m <= t
  <2>1. T \in SUBSET Nat /\ T # {}
    OBVIOUS
  <2>. HIDE DEF T
  <2>. QED  BY <2>1, LeastExists
<1>2. m \in Nat /\ m # 0 /\ m \notin S
  OBVIOUS
<1>3. m - 1 \in Nat /\ m - 1 \notin T
  BY <1>1, <1>2
<1>4. m - 1 \in S
  BY <1>3
<1>5. (m - 1) + 1 \in S
  BY <1>4
<1>. QED  BY <1>2, <1>5

\* A non-empty set of numbers up to n has a highest one.
LEMMA HighestExists ==
  ASSUME NEW n \in Nat, NEW S \in SUBSET (1 .. n), S # {}
  PROVE  \E s \in S : \A t \in S : t <= s
<1>. DEFINE T == {n - s : s \in S}
<1>1. T \in SUBSET Nat /\ T # {}
  <2>1. ASSUME NEW s \in S PROVE n - s \in Nat
    OBVIOUS
  <2>2. PICK s \in S : TRUE
    OBVIOUS
  <2>3. n - s \in T
    OBVIOUS
  <2>. QED  BY <2>1, <2>3, Zenon
<1>2. PICK u \in T : \A t \in T : u <= t
  <2>. HIDE DEF T
  <2>. QED  BY <1>1, LeastExists
<1>3. PICK s \in S : u = n - s
  OBVIOUS
<1>4. ASSUME NEW t \in S PROVE t <= s
  <2>1. u <= n - t
    BY <1>2
  <2>. HIDE DEF T
  <2>. QED  BY <1>3, <2>1
<1>. QED  BY <1>4

---------------------------------------------------------------------------
(* Calls made again                                                        *)

Accs == [rows : [Keys -> Stored], wrong : SUBSET Keys, intents : Seq(Intents)]

\* The states a replay of calls goes through.
Goes(calls, acc, g) ==
  /\ DOMAIN g = 0 .. Len(calls) /\ g[0] = acc
  /\ \A n \in 1 .. Len(calls) : g[n] = Replayed(g[n - 1], calls[n])

LEMMA StartTyped ==
  ASSUME NEW r \in [Keys -> Stored]
  PROVE  Start(r) \in Accs
<1>1. << >> \in Seq(Intents) /\ {} \in SUBSET Keys
  OBVIOUS
<1>. QED  BY <1>1 DEF Start, Accs

LEMMA ReplayedTyped ==
  ASSUME NEW acc \in Accs, NEW c \in CallRecord
  PROVE  Replayed(acc, c) \in Accs
<1>1. CASE c.call = "intent"
  <2>1. c.intent \in Intents
    BY <1>1 DEF CallRecord
  <2>2. Append(acc.intents, c.intent) \in Seq(Intents)
    BY <2>1 DEF Accs
  <2>. QED  BY <1>1, <2>2 DEF Replayed, Accs
<1>2. CASE c.call = "read" \/ c.call = "write"
  <2>1. c.key \in Keys /\ c.val \in Stored
    BY <1>2 DEF CallRecord
  <2>. QED  BY <1>2, <2>1 DEF Replayed, Accs
<1>. QED  BY <1>1, <1>2 DEF CallRecord

LEMMA GoesExists ==
  ASSUME NEW calls \in Seq(CallRecord), NEW acc \in Accs
  PROVE  \E g \in [0 .. Len(calls) -> Accs] : Goes(calls, acc, g)
<1>. DEFINE P(n) == \E g \in [0 .. n -> Accs] :
                      g[0] = acc /\ \A i \in 1 .. n : g[i] = Replayed(g[i - 1], calls[i])
            S == {n \in Nat : n <= Len(calls) => P(n)}
<1>0. Len(calls) \in Nat /\ \A i \in 1 .. Len(calls) : calls[i] \in CallRecord
  OBVIOUS
<1>1. 0 \in S
  <2>1. PICK g : g = [i \in 0 .. 0 |-> acc]
    OBVIOUS
  <2>2. g \in [0 .. 0 -> Accs] /\ g[0] = acc /\ 1 .. 0 = {}
    BY <2>1
  <2>3. P(0)
    BY <2>2
  <2>. HIDE DEF P
  <2>. QED  BY <2>3
<1>2. ASSUME NEW n \in S PROVE n + 1 \in S
  <2>. SUFFICES ASSUME n + 1 <= Len(calls) PROVE P(n + 1)
    <3>. HIDE DEF P
    <3>. QED  OBVIOUS
  <2>1. n \in Nat /\ P(n)
    BY <1>0
  <2>2. PICK g \in [0 .. n -> Accs] :
          g[0] = acc /\ \A i \in 1 .. n : g[i] = Replayed(g[i - 1], calls[i])
    BY <2>1
  <2>3. PICK x \in Accs : x = Replayed(g[n], calls[n + 1])
    BY <1>0, <2>1, ReplayedTyped
  <2>4. PICK h : h = [i \in 0 .. n + 1 |-> IF i = n + 1 THEN x ELSE g[i]]
    OBVIOUS
  <2>5. h \in [0 .. n + 1 -> Accs]
    BY <2>1, <2>4
  <2>6. h[0] = acc
    BY <2>1, <2>2, <2>4
  <2>7. ASSUME NEW i \in 1 .. n + 1 PROVE h[i] = Replayed(h[i - 1], calls[i])
    <3>1. CASE i = n + 1
      <4>1. h[i] = x /\ h[i - 1] = g[n]
        BY <2>1, <2>4, <3>1
      <4>. QED  BY <2>3, <3>1, <4>1
    <3>2. CASE i # n + 1
      <4>1. i \in 1 .. n /\ h[i] = g[i] /\ h[i - 1] = g[i - 1]
        BY <2>1, <2>4, <3>2
      <4>. QED  BY <2>2, <4>1
    <3>. QED  BY <3>1, <3>2
  <2>. QED  BY <2>5, <2>6, <2>7
<1>3. S = Nat
  <2>1. S \in SUBSET Nat
    OBVIOUS
  <2>. HIDE DEF S
  <2>. QED  BY <1>1, <1>2, <2>1, Induction
<1>4. P(Len(calls))
  BY <1>0, <1>3
<1>. QED  BY <1>4 DEF Goes

\* A replay ends where such states end.
LEMMA GoesEnds ==
  ASSUME NEW calls \in Seq(CallRecord), NEW acc, NEW g, Goes(calls, acc, g)
  PROVE  Replay(calls, acc) = g[Len(calls)]
<1>. DEFINE E(f) == [n \in 0 .. Len(calls) |->
                       IF n = 0 THEN acc ELSE Replayed(f[n - 1], calls[n])]
<1>0. Len(calls) \in Nat
  OBVIOUS
<1>1. \E f : f = E(f)
  <2>1. PICK h : h = [n \in 0 .. Len(calls) |-> g[n]]
    OBVIOUS
  <2>2. ASSUME NEW n \in 0 .. Len(calls)
        PROVE  h[n] = IF n = 0 THEN acc ELSE Replayed(h[n - 1], calls[n])
    BY <1>0, <2>1 DEF Goes
  <2>3. h = E(h)
    BY <2>1, <2>2
  <2>. QED  BY <2>3
<1>2. PICK h : h = CHOOSE f : f = E(f)
  OBVIOUS
<1>3. h = E(h)
  BY <1>1, <1>2
<1>4. Replay(calls, acc) = h[Len(calls)]
  BY <1>2 DEF Replay
<1>. DEFINE S == {n \in Nat : n <= Len(calls) => h[n] = g[n]}
<1>5. 0 \in S
  BY <1>0, <1>3 DEF Goes
<1>6. ASSUME NEW n \in S PROVE n + 1 \in S
  <2>. SUFFICES ASSUME n + 1 <= Len(calls) PROVE h[n + 1] = g[n + 1]
    OBVIOUS
  <2>1. n \in Nat /\ h[n] = g[n] /\ n + 1 \in 1 .. Len(calls) /\ (n + 1) - 1 = n
    BY <1>0
  <2>2. h[n + 1] = Replayed(h[n], calls[n + 1])
    BY <1>3, <2>1
  <2>3. g[n + 1] = Replayed(g[n], calls[n + 1])
    BY <2>1 DEF Goes
  <2>. QED  BY <2>1, <2>2, <2>3
<1>7. S = Nat
  <2>1. S \in SUBSET Nat
    OBVIOUS
  <2>. HIDE DEF S
  <2>. QED  BY <1>5, <1>6, <2>1, Induction
<1>8. h[Len(calls)] = g[Len(calls)]
  BY <1>0, <1>7
<1>. QED  BY <1>4, <1>8

\* A set of sequences that holds the empty one and what appending to a member
\* gives holds them all.
LEMMA SequenceInduction ==
  ASSUME NEW D, NEW S \in SUBSET Seq(D), << >> \in S,
         \A s \in S, x \in D : Append(s, x) \in S
  PROVE  S = Seq(D)
<1>. DEFINE N == {n \in Nat : \A s \in Seq(D) : Len(s) = n => s \in S}
<1>1. 0 \in N
  <2>1. ASSUME NEW s \in Seq(D), Len(s) = 0 PROVE s \in S
    <3>1. s = << >>
      BY <2>1, EmptySeq
    <3>. QED  BY <3>1
  <2>. QED  BY <2>1
<1>2. ASSUME NEW n \in N PROVE n + 1 \in N
  <2>1. ASSUME NEW s \in Seq(D), Len(s) = n + 1 PROVE s \in S
    <3>1. n \in Nat /\ n + 1 \in Nat /\ Len(s) # 0
      BY <2>1
    <3>2. PICK b : b = SubSeq(s, 1, n)
      OBVIOUS
    <3>3. \A i \in 1 .. n : s[i] \in D
      BY <2>1, <3>1
    <3>4. b \in Seq(D) /\ Len(b) = n /\ \A i \in 1 .. n : b[i] = s[i]
      <4>1. /\ b \in Seq(D)
            /\ Len(b) = IF 1 <= n THEN n - 1 + 1 ELSE 0
            /\ \A i \in 1 .. n - 1 + 1 : b[i] = s[1 + i - 1]
        BY <3>1, <3>2, <3>3, SubSeqProperties
      <4>2. n - 1 + 1 = n /\ \A i \in 1 .. n : 1 + i - 1 = i
        BY <3>1
      <4>. QED  BY <3>1, <4>1, <4>2
    <3>5. s[n + 1] \in D
      BY <2>1, <3>1
    <3>6. b \in S
      BY <3>1, <3>4
    <3>7. s = Append(b, s[n + 1])
      <4>1. PICK t : t = Append(b, s[n + 1])
        OBVIOUS
      <4>2. PICK x \in D : x = s[n + 1]
        BY <3>5
      <4>3. /\ t \in Seq(D) /\ Len(t) = Len(b) + 1
            /\ \A i \in 1 .. Len(b) : t[i] = b[i]
            /\ t[Len(b) + 1] = x
        <5>1. b \in Seq(D) /\ t = Append(b, x)
          BY <3>4, <4>1, <4>2
        <5>. HIDE DEF N
        <5>. QED  BY <5>1, AppendProperties
      <4>4. ASSUME NEW i \in 1 .. n + 1 PROVE s[i] = t[i]
        <5>1. \A j \in 1 .. n : t[j] = s[j]
          BY <3>4, <4>3
        <5>2. t[n + 1] = s[n + 1]
          BY <3>4, <4>2, <4>3
        <5>3. n \in Nat
          BY <3>1
        <5>4. i \in 1 .. n \/ i = n + 1
          BY <5>3
        <5>. HIDE DEF N
        <5>. QED  BY <5>1, <5>2, <5>4
      <4>5. s = t
        BY <2>1, <3>4, <4>3, <4>4, SeqEqual
      <4>. QED  BY <4>1, <4>5
    <3>. QED  BY <3>5, <3>6, <3>7
  <2>. QED  BY <2>1
<1>3. N = Nat
  <2>1. N \in SUBSET Nat
    OBVIOUS
  <2>. HIDE DEF N
  <2>. QED  BY <1>1, <1>2, <2>1, Induction
<1>4. ASSUME NEW s \in Seq(D) PROVE s \in S
  <2>1. Len(s) \in N
    <3>1. Len(s) \in Nat
      OBVIOUS
    <3>. HIDE DEF N
    <3>. QED  BY <1>3, <3>1
  <2>. QED  BY <2>1
<1>. QED  BY <1>4

\* Making no calls changes nothing.
LEMMA ReplayEmpty ==
  ASSUME NEW acc \in Accs
  PROVE  Replay(<< >>, acc) = acc
<1>1. << >> \in Seq(CallRecord) /\ Len(<< >>) = 0
  OBVIOUS
<1>2. PICK g \in [0 .. Len(<< >>) -> Accs] : Goes(<< >>, acc, g)
  BY <1>1, GoesExists
<1>3. Replay(<< >>, acc) = g[0]
  BY <1>1, <1>2, GoesEnds
<1>. QED  BY <1>2, <1>3 DEF Goes

\* The last call is made on what the others left.
LEMMA ReplayAppend ==
  ASSUME NEW calls \in Seq(CallRecord), NEW c \in CallRecord, NEW acc \in Accs
  PROVE  /\ Replay(calls, acc) \in Accs
         /\ Replay(Append(calls, c), acc) = Replayed(Replay(calls, acc), c)
<1>1. PICK m \in Nat : m = Len(calls)
  OBVIOUS
<1>2. PICK longer : longer = Append(calls, c)
  OBVIOUS
<1>3. /\ longer \in Seq(CallRecord) /\ Len(longer) = m + 1
      /\ longer[m + 1] = c /\ \A i \in 1 .. m : longer[i] = calls[i]
  BY <1>1, <1>2
<1>4. PICK g \in [0 .. Len(longer) -> Accs] : Goes(longer, acc, g)
  BY <1>3, GoesExists
<1>5. PICK h : h = [i \in 0 .. m |-> g[i]]
  OBVIOUS
<1>6. Goes(calls, acc, h)
  <2>1. DOMAIN h = 0 .. m /\ h[0] = acc
    BY <1>4, <1>5 DEF Goes
  <2>2. ASSUME NEW n \in 1 .. m PROVE h[n] = Replayed(h[n - 1], calls[n])
    <3>1. n \in 1 .. Len(longer) /\ h[n] = g[n] /\ h[n - 1] = g[n - 1]
      BY <1>3, <1>5
    <3>2. g[n] = Replayed(g[n - 1], longer[n])
      BY <1>4, <3>1 DEF Goes
    <3>. QED  BY <1>3, <3>1, <3>2
  <2>. QED  BY <1>1, <2>1, <2>2 DEF Goes
<1>7. Replay(calls, acc) = h[m]
  BY <1>1, <1>6, GoesEnds
<1>8. h[m] = g[m] /\ g[m] \in Accs
  BY <1>3, <1>4, <1>5
<1>9. Replay(longer, acc) = g[m + 1]
  BY <1>3, <1>4, GoesEnds
<1>10. g[m + 1] = Replayed(g[m], c)
  <2>1. m + 1 \in 1 .. Len(longer) /\ (m + 1) - 1 = m
    BY <1>3
  <2>2. g[m + 1] = Replayed(g[(m + 1) - 1], longer[m + 1])
    BY <1>4, <2>1 DEF Goes
  <2>. QED  BY <1>3, <2>1, <2>2
<1>. QED  BY <1>2, <1>7, <1>8, <1>9, <1>10

LEMMA ReplayTyped ==
  ASSUME NEW calls \in Seq(CallRecord), NEW acc \in Accs
  PROVE  Replay(calls, acc) \in Accs
<1>. DEFINE S == {s \in Seq(CallRecord) : Replay(s, acc) \in Accs}
<1>1. << >> \in S
  BY ReplayEmpty
<1>2. ASSUME NEW s \in S, NEW c \in CallRecord PROVE Append(s, c) \in S
  <2>1. s \in Seq(CallRecord) /\ Append(s, c) \in Seq(CallRecord)
    OBVIOUS
  <2>2. Replay(s, acc) \in Accs /\ Replay(Append(s, c), acc) = Replayed(Replay(s, acc), c)
    BY <2>1, ReplayAppend
  <2>3. Replayed(Replay(s, acc), c) \in Accs
    BY <2>2, ReplayedTyped
  <2>. QED  BY <2>1, <2>2, <2>3
<1>3. S = Seq(CallRecord)
  <2>1. S \in SUBSET Seq(CallRecord)
    OBVIOUS
  <2>. HIDE DEF S
  <2>. QED  BY <1>1, <1>2, <2>1, SequenceInduction
<1>. QED  BY <1>3

\* Calls made after others are made on what those left.
LEMMA ReplayConcat ==
  ASSUME NEW a \in Seq(CallRecord), NEW b \in Seq(CallRecord), NEW acc \in Accs
  PROVE  Replay(a \o b, acc) = Replay(b, Replay(a, acc))
<1>. DEFINE S == {s \in Seq(CallRecord) : Replay(a \o s, acc) = Replay(s, Replay(a, acc))}
<1>0. Replay(a, acc) \in Accs
  BY ReplayTyped
<1>1. << >> \in S
  <2>1. a \o << >> = a /\ << >> \in Seq(CallRecord)
    BY ConcatEmptySeq
  <2>2. Replay(<< >>, Replay(a, acc)) = Replay(a, acc)
    BY <1>0, ReplayEmpty
  <2>. QED  BY <2>1, <2>2
<1>2. ASSUME NEW s \in S, NEW c \in CallRecord PROVE Append(s, c) \in S
  <2>1. s \in Seq(CallRecord) /\ Append(s, c) \in Seq(CallRecord) /\ a \o s \in Seq(CallRecord)
    OBVIOUS
  <2>2. a \o Append(s, c) = Append(a \o s, c)
    BY <2>1
  <2>3. Replay(Append(a \o s, c), acc) = Replayed(Replay(a \o s, acc), c)
    BY <2>1, ReplayAppend
  <2>4. Replay(Append(s, c), Replay(a, acc)) = Replayed(Replay(s, Replay(a, acc)), c)
    BY <1>0, <2>1, ReplayAppend
  <2>5. Replay(a \o s, acc) = Replay(s, Replay(a, acc))
    OBVIOUS
  <2>. QED  BY <2>1, <2>2, <2>3, <2>4, <2>5
<1>3. S = Seq(CallRecord)
  <2>1. S \in SUBSET Seq(CallRecord)
    OBVIOUS
  <2>. HIDE DEF S
  <2>. QED  BY <1>1, <1>2, <2>1, SequenceInduction
<1>. QED  BY <1>3

\* Wrong answers and intents of earlier calls neither change what becomes of the
\* rows nor go away.
LEMMA ReplayFresh ==
  ASSUME NEW calls \in Seq(CallRecord), NEW acc \in Accs
  PROVE  /\ Replay(calls, acc).rows = Replay(calls, Start(acc.rows)).rows
         /\ Replay(calls, acc).wrong = acc.wrong \cup Replay(calls, Start(acc.rows)).wrong
         /\ Replay(calls, acc).intents = acc.intents \o Replay(calls, Start(acc.rows)).intents
<1>. DEFINE On(x, y) ==
       x.rows = y.rows /\ x.wrong = acc.wrong \cup y.wrong /\ x.intents = acc.intents \o y.intents
            Same(s) == On(Replay(s, acc), Replay(s, Start(acc.rows)))
            S == {s \in Seq(CallRecord) : Same(s)}
<1>0. PICK new \in Accs : new = Start(acc.rows)
  <2>1. acc.rows \in [Keys -> Stored]
    BY DEF Accs
  <2>. QED  BY <2>1, StartTyped
<1>00. new.rows = acc.rows /\ new.wrong = {} /\ new.intents = << >> /\ acc.intents \in Seq(Intents)
  BY <1>0 DEF Start, Accs
<1>1. << >> \in S
  <2>1. Replay(<< >>, acc) = acc /\ Replay(<< >>, new) = new
    BY ReplayEmpty
  <2>2. acc.intents \o << >> = acc.intents
    BY <1>00, ConcatEmptySeq
  <2>3. Same(<< >>)
    BY <1>0, <1>00, <2>1, <2>2
  <2>. HIDE DEF Same
  <2>. QED  BY <2>3
<1>2. ASSUME NEW s \in S, NEW c \in CallRecord PROVE Append(s, c) \in S
  <2>1. s \in Seq(CallRecord) /\ Append(s, c) \in Seq(CallRecord) /\ Same(s)
    <3>. HIDE DEF Same
    <3>. QED  OBVIOUS
  <2>2. PICK x \in Accs : x = Replay(s, acc)
    BY <2>1, ReplayTyped
  <2>3. PICK y \in Accs : y = Replay(s, new)
    BY <2>1, ReplayTyped
  <2>4. Replay(Append(s, c), acc) = Replayed(x, c)
    BY <2>1, <2>2, ReplayAppend
  <2>5. Replay(Append(s, c), new) = Replayed(y, c)
    BY <2>1, <2>3, ReplayAppend
  <2>6. On(x, y)
    <3>. HIDE DEF On
    <3>. QED  BY <1>0, <2>1, <2>2, <2>3
  <2>7. On(Replayed(x, c), Replayed(y, c))
    <3>1. CASE c.call = "read" /\ x.rows[c.key] # c.val
      BY <2>6, <3>1 DEF Replayed, Accs
    <3>2. CASE c.call = "write"
      BY <2>6, <3>2 DEF Replayed, Accs
    <3>3. CASE c.call = "intent"
      <4>1. PICK i \in Intents : i = c.intent
        BY <3>3 DEF CallRecord
      <4>2. PICK p \in Seq(Intents), q \in Seq(Intents) : p = acc.intents /\ q = y.intents
        BY DEF Accs
      <4>3. Append(p \o q, i) = p \o Append(q, i)
        <5>1. p \o q \in Seq(Intents) /\ <<i>> \in Seq(Intents)
          OBVIOUS
        <5>2. Append(p \o q, i) = (p \o q) \o <<i>> /\ Append(q, i) = q \o <<i>>
          BY <5>1, AppendIsConcat
        <5>. QED  BY <5>1, <5>2, ConcatAssociative
      <4>4. Replayed(x, c) = [x EXCEPT !.intents = Append(@, i)]
        BY <3>3, <4>1 DEF Replayed
      <4>5. Replayed(y, c) = [y EXCEPT !.intents = Append(@, i)]
        BY <3>3, <4>1 DEF Replayed
      <4>6. /\ Replayed(x, c).rows = x.rows /\ Replayed(x, c).wrong = x.wrong
            /\ Replayed(x, c).intents = Append(x.intents, i)
        BY <4>4 DEF Accs
      <4>7. /\ Replayed(y, c).rows = y.rows /\ Replayed(y, c).wrong = y.wrong
            /\ Replayed(y, c).intents = Append(y.intents, i)
        BY <4>5 DEF Accs
      <4>. QED  BY <2>6, <4>2, <4>3, <4>6, <4>7
    <3>4. CASE c.call = "read" /\ x.rows[c.key] = c.val
      BY <2>6, <3>4 DEF Replayed, Accs
    <3>. QED  BY <3>1, <3>2, <3>3, <3>4 DEF CallRecord
  <2>8. Same(Append(s, c))
    <3>. HIDE DEF On
    <3>. QED  BY <1>0, <2>4, <2>5, <2>7
  <2>. HIDE DEF Same
  <2>. QED  BY <2>1, <2>8
<1>3. S = Seq(CallRecord)
  <2>1. S \in SUBSET Seq(CallRecord)
    OBVIOUS
  <2>. HIDE DEF S
  <2>. QED  BY <1>1, <1>2, <2>1, SequenceInduction
<1>4. Same(calls)
  <2>. HIDE DEF Same
  <2>. QED  BY <1>3
<1>. QED  BY <1>4

---------------------------------------------------------------------------
(* Rows staged or read, and what overlays them                             *)

LEMMA RowsAre ==
  ASSUME NEW f \in Rows
  PROVE  f \in [DOMAIN f -> Stored] /\ DOMAIN f \in SUBSET Keys
BY DEF Rows

LEMMA RowsMade ==
  ASSUME NEW ks \in SUBSET Keys, NEW f \in [ks -> Stored]
  PROVE  f \in Rows
BY DEF Rows

LEMMA OverlayRows ==
  ASSUME NEW f \in Rows, NEW g \in Rows
  PROVE  /\ Over(f, g) \in Rows
         /\ DOMAIN Over(f, g) = DOMAIN f \cup DOMAIN g
         /\ \A k \in DOMAIN f \cup DOMAIN g : Over(f, g)[k] = IF k \in DOMAIN f THEN f[k] ELSE g[k]
<1>0. /\ \A k \in DOMAIN f : f[k] \in Stored
      /\ \A k \in DOMAIN g : g[k] \in Stored
      /\ DOMAIN f \cup DOMAIN g \in SUBSET Keys
  BY RowsAre
<1>1. PICK h : h = Over(f, g)
  OBVIOUS
<1>2. /\ h = [k \in DOMAIN f \cup DOMAIN g |-> IF k \in DOMAIN f THEN f[k] ELSE g[k]]
  BY <1>1 DEF Over
<1>3. h \in [DOMAIN f \cup DOMAIN g -> Stored]
  BY <1>0, <1>2
<1>4. h \in Rows
  BY <1>0, <1>3, RowsMade
<1>. QED  BY <1>1, <1>2, <1>4

LEMMA OverlayAll ==
  ASSUME NEW f \in Rows, NEW r \in [Keys -> Stored]
  PROVE  /\ Over(f, r) \in [Keys -> Stored]
         /\ \A k \in Keys : Over(f, r)[k] = IF k \in DOMAIN f THEN f[k] ELSE r[k]
<1>0. /\ \A k \in DOMAIN f : f[k] \in Stored
      /\ DOMAIN f \cup DOMAIN r = Keys
  BY RowsAre
<1>1. PICK h : h = Over(f, r)
  OBVIOUS
<1>2. h = [k \in Keys |-> IF k \in DOMAIN f THEN f[k] ELSE r[k]]
  BY <1>0, <1>1 DEF Over
<1>3. h \in [Keys -> Stored]
  BY <1>0, <1>2
<1>. QED  BY <1>1, <1>2, <1>3

\* Staging a row over staged rows, and all of them over any others.
IsPut(h, f, k, v) ==
  /\ h \in Rows
  /\ DOMAIN h = DOMAIN f \cup {k} /\ h[k] = v
  /\ \A x \in DOMAIN f \ {k} : h[x] = f[x]
  /\ \A r \in [Keys -> Stored] : Over(h, r) = [Over(f, r) EXCEPT ![k] = v]

LEMMA PutRows ==
  ASSUME NEW k \in Keys, NEW v \in Stored, NEW f \in Rows
  PROVE  IsPut(Put(f, k, v), f, k, v)
<1>1. PICK o \in Rows : o = [x \in {k} |-> v]
  BY RowsMade
<1>2. DOMAIN o = {k} /\ o[k] = v
  BY <1>1
<1>3. PICK h \in Rows : h = Over(o, f)
  BY OverlayRows
<1>4. /\ DOMAIN h = DOMAIN f \cup {k} /\ h[k] = v
      /\ \A x \in DOMAIN f \ {k} : h[x] = f[x]
  <2>1. /\ DOMAIN h = DOMAIN o \cup DOMAIN f
        /\ \A x \in DOMAIN o \cup DOMAIN f : h[x] = IF x \in DOMAIN o THEN o[x] ELSE f[x]
    BY <1>3, OverlayRows
  <2>. QED  BY <1>2, <2>1
<1>5. ASSUME NEW r \in [Keys -> Stored] PROVE Over(h, r) = [Over(f, r) EXCEPT ![k] = v]
  <2>1. PICK a \in [Keys -> Stored] : a = Over(h, r)
    BY OverlayAll
  <2>2. PICK b \in [Keys -> Stored] : b = Over(f, r)
    BY OverlayAll
  <2>3. /\ \A x \in Keys : a[x] = IF x \in DOMAIN h THEN h[x] ELSE r[x]
        /\ \A x \in Keys : b[x] = IF x \in DOMAIN f THEN f[x] ELSE r[x]
    BY <2>1, <2>2, OverlayAll
  <2>4. ASSUME NEW x \in Keys PROVE a[x] = [b EXCEPT ![k] = v][x]
    BY <1>4, <2>3
  <2>5. [b EXCEPT ![k] = v] \in [Keys -> Stored]
    OBVIOUS
  <2>6. a = [b EXCEPT ![k] = v]
    BY <2>4, <2>5
  <2>. QED  BY <2>1, <2>2, <2>6
<1>. QED  BY <1>1, <1>3, <1>4, <1>5 DEF Put, IsPut

\* Overlaying is associative.
LEMMA OverlayTwice ==
  ASSUME NEW f \in Rows, NEW g \in Rows, NEW r \in [Keys -> Stored]
  PROVE  Over(Over(f, g), r) = Over(f, Over(g, r))
<1>1. PICK h \in Rows : h = Over(f, g)
  BY OverlayRows
<1>2. PICK b \in [Keys -> Stored] : b = Over(g, r)
  BY OverlayAll
<1>3. PICK x \in [Keys -> Stored] : x = Over(h, r)
  BY OverlayAll
<1>4. PICK y \in [Keys -> Stored] : y = Over(f, b)
  BY OverlayAll
<1>5. /\ DOMAIN h = DOMAIN f \cup DOMAIN g
      /\ \A k \in DOMAIN f \cup DOMAIN g : h[k] = IF k \in DOMAIN f THEN f[k] ELSE g[k]
  BY <1>1 DEF Over
<1>6. /\ \A k \in Keys : b[k] = IF k \in DOMAIN g THEN g[k] ELSE r[k]
      /\ \A k \in Keys : x[k] = IF k \in DOMAIN h THEN h[k] ELSE r[k]
      /\ \A k \in Keys : y[k] = IF k \in DOMAIN f THEN f[k] ELSE b[k]
  BY <1>2, <1>3, <1>4, OverlayAll
<1>7. ASSUME NEW k \in Keys PROVE x[k] = y[k]
  BY <1>5, <1>6
<1>8. x = y
  BY <1>7
<1>. QED  BY <1>1, <1>2, <1>3, <1>4, <1>8

---------------------------------------------------------------------------
(* One frame                                                               *)

\* Frame f is faithful to its calls: over rows `below', of which those in `seen'
\* were looked at from here or below.  Its reads are the snapshot's; its writes
\* and intents are what its calls do on any rows r; the calls are told the same
\* on all rows that agree with `below' where that was seen, and something else
\* on rows that disagree with a read it recorded.
Faithful(f, calls, seen, below, snap) ==
  /\ \A k \in DOMAIN f.reads : f.reads[k] = snap[k]
  /\ \A r \in [Keys -> Stored] :
       /\ Replay(calls, Start(r)).rows = Over(f.writes, r)
       /\ Replay(calls, Start(r)).intents = f.intents
       /\ (\A k \in seen : r[k] = below[k]) => Replay(calls, Start(r)).wrong = {}
       /\ (\E k \in DOMAIN f.reads : r[k] # f.reads[k]) => Replay(calls, Start(r)).wrong # {}

LEMMA FaithfulSeen ==
  ASSUME NEW f, NEW calls, NEW below, NEW snap, NEW seen, NEW more, seen \subseteq more,
         Faithful(f, calls, seen, below, snap)
  PROVE  Faithful(f, calls, more, below, snap)
BY DEF Faithful

LEMMA FaithfulEmpty ==
  ASSUME NEW seen, NEW below, NEW snap
  PROVE  Faithful(EmptyFrame, << >>, seen, below, snap)
<1>1. EmptyFrame.reads = << >> /\ EmptyFrame.writes = << >> /\ EmptyFrame.intents = << >>
  BY DEF EmptyFrame
<1>2. DOMAIN EmptyFrame.reads = {} /\ DOMAIN EmptyFrame.writes = {}
  BY <1>1
<1>3. ASSUME NEW r \in [Keys -> Stored] PROVE Replay(<< >>, Start(r)) = Start(r)
  BY StartTyped, ReplayEmpty
<1>4. EmptyFrame.writes \in Rows
  <2>1. EmptyFrame.writes \in [{} -> Stored] /\ {} \in SUBSET Keys
    BY <1>1
  <2>. QED  BY <2>1, RowsMade
<1>5. ASSUME NEW r \in [Keys -> Stored] PROVE Over(EmptyFrame.writes, r) = r
  <2>1. PICK a \in [Keys -> Stored] : a = Over(EmptyFrame.writes, r)
    BY <1>4, OverlayAll
  <2>2. \A k \in Keys : a[k] = r[k]
    BY <1>2, <1>4, <2>1, OverlayAll
  <2>3. a = r
    BY <2>2
  <2>. QED  BY <2>1, <2>3
<1>6. ASSUME NEW r \in [Keys -> Stored]
      PROVE  Start(r).rows = r /\ Start(r).wrong = {} /\ Start(r).intents = << >>
  BY DEF Start
<1>. QED  BY <1>1, <1>2, <1>3, <1>5, <1>6 DEF Faithful

LEMMA FaithfulIntent ==
  ASSUME NEW f \in Frame, NEW calls \in Seq(CallRecord), NEW seen, NEW below, NEW snap,
         NEW i \in Intents, Faithful(f, calls, seen, below, snap)
  PROVE  Faithful([f EXCEPT !.intents = Append(@, i)],
                  Append(calls, [call |-> "intent", intent |-> i]), seen, below, snap)
<1>1. PICK c \in CallRecord : c = [call |-> "intent", intent |-> i]
  BY DEF CallRecord
<1>2. PICK g : g = [f EXCEPT !.intents = Append(@, i)]
  OBVIOUS
<1>3. g.reads = f.reads /\ g.writes = f.writes /\ g.intents = Append(f.intents, i)
  BY <1>2 DEF Frame
<1>4. ASSUME NEW r \in [Keys -> Stored]
      PROVE  /\ Replay(Append(calls, c), Start(r)).rows = Replay(calls, Start(r)).rows
             /\ Replay(Append(calls, c), Start(r)).wrong = Replay(calls, Start(r)).wrong
             /\ Replay(Append(calls, c), Start(r)).intents
                  = Append(Replay(calls, Start(r)).intents, i)
  <2>1. PICK acc \in Accs : acc = Replay(calls, Start(r))
    BY StartTyped, ReplayTyped
  <2>2. Replay(Append(calls, c), Start(r)) = Replayed(acc, c)
    BY <2>1, StartTyped, ReplayAppend
  <2>3. Replayed(acc, c) = [acc EXCEPT !.intents = Append(@, i)]
    BY <1>1 DEF Replayed
  <2>. QED  BY <2>1, <2>2, <2>3 DEF Accs
<1>5. Faithful(g, Append(calls, c), seen, below, snap)
  BY <1>3, <1>4 DEF Faithful
<1>. QED  BY <1>1, <1>2, <1>5

LEMMA FaithfulWrite ==
  ASSUME NEW f \in Frame, NEW calls \in Seq(CallRecord), NEW seen, NEW below, NEW snap,
         NEW k \in Keys, NEW v \in Stored, Faithful(f, calls, seen, below, snap)
  PROVE  Faithful([f EXCEPT !.writes = Put(@, k, v)],
                  Append(calls, [call |-> "write", key |-> k, val |-> v]), seen, below, snap)
<1>1. PICK c \in CallRecord : c = [call |-> "write", key |-> k, val |-> v]
  BY DEF CallRecord
<1>2. PICK g : g = [f EXCEPT !.writes = Put(@, k, v)]
  OBVIOUS
<1>3. g.reads = f.reads /\ g.intents = f.intents /\ g.writes = Put(f.writes, k, v)
  BY <1>2 DEF Frame
<1>4. ASSUME NEW r \in [Keys -> Stored]
      PROVE  /\ Replay(Append(calls, c), Start(r)).rows = [Replay(calls, Start(r)).rows EXCEPT ![k] = v]
             /\ Replay(Append(calls, c), Start(r)).wrong = Replay(calls, Start(r)).wrong
             /\ Replay(Append(calls, c), Start(r)).intents = Replay(calls, Start(r)).intents
  <2>1. PICK acc \in Accs : acc = Replay(calls, Start(r))
    BY StartTyped, ReplayTyped
  <2>2. Replay(Append(calls, c), Start(r)) = Replayed(acc, c)
    BY <2>1, StartTyped, ReplayAppend
  <2>3. Replayed(acc, c) = [acc EXCEPT !.rows[k] = v]
    BY <1>1 DEF Replayed
  <2>. QED  BY <2>1, <2>2, <2>3 DEF Accs
<1>5. ASSUME NEW r \in [Keys -> Stored] PROVE Over(g.writes, r) = [Over(f.writes, r) EXCEPT ![k] = v]
  <2>1. PICK w \in Rows : w = f.writes
    BY DEF Frame
  <2>2. IsPut(Put(w, k, v), w, k, v)
    BY PutRows
  <2>. QED  BY <1>3, <2>1, <2>2 DEF IsPut
<1>6. ASSUME NEW r \in [Keys -> Stored]
      PROVE  Replay(Append(calls, c), Start(r)).rows = Over(g.writes, r)
  <2>1. Replay(calls, Start(r)).rows = Over(f.writes, r)
    BY DEF Faithful
  <2>. QED  BY <1>4, <1>5, <2>1
<1>7. ASSUME NEW r \in [Keys -> Stored]
      PROVE  Replay(Append(calls, c), Start(r)).intents = g.intents
  <2>1. Replay(calls, Start(r)).intents = f.intents
    BY DEF Faithful
  <2>. QED  BY <1>3, <1>4, <2>1
<1>8. Faithful(g, Append(calls, c), seen, below, snap)
  <2>1. PICK longer : longer = Append(calls, c)
    OBVIOUS
  <2>2. \A r \in [Keys -> Stored] : /\ Replay(longer, Start(r)).rows = Over(g.writes, r)
                                    /\ Replay(longer, Start(r)).intents = g.intents
                                    /\ Replay(longer, Start(r)).wrong = Replay(calls, Start(r)).wrong
    BY <1>4, <1>6, <1>7, <2>1
  <2>3. Faithful(g, longer, seen, below, snap)
    BY <1>3, <2>2 DEF Faithful
  <2>. QED  BY <2>1, <2>3
<1>. QED  BY <1>1, <1>2, <1>8

\* What a read of k that was answered v adds to a replay.
Told(old, new, k, v) ==
  /\ new.rows = old.rows /\ new.intents = old.intents
  /\ new.wrong = IF old.rows[k] # v THEN old.wrong \cup {k} ELSE old.wrong

LEMMA ReplayRead ==
  ASSUME NEW calls \in Seq(CallRecord), NEW k \in Keys, NEW v \in Stored, NEW r \in [Keys -> Stored],
         NEW c, c = [call |-> "read", key |-> k, val |-> v]
  PROVE  Told(Replay(calls, Start(r)), Replay(Append(calls, c), Start(r)), k, v)
<1>1. c \in CallRecord
  BY DEF CallRecord
<1>2. PICK acc \in Accs : acc = Replay(calls, Start(r))
  BY StartTyped, ReplayTyped
<1>3. Replay(Append(calls, c), Start(r)) = Replayed(acc, c)
  BY <1>1, <1>2, StartTyped, ReplayAppend
<1>4. CASE acc.rows[k] # v
  <2>1. Replayed(acc, c) = [acc EXCEPT !.wrong = @ \cup {k}]
    BY <1>4 DEF Replayed
  <2>. QED  BY <1>2, <1>3, <1>4, <2>1 DEF Accs, Told
<1>5. CASE acc.rows[k] = v
  <2>1. Replayed(acc, c) = acc
    BY <1>5 DEF Replayed
  <2>. QED  BY <1>2, <1>3, <1>5, <2>1 DEF Told
<1>. QED  BY <1>4, <1>5

\* A read of a row that the frame wrote or that was seen before.
LEMMA FaithfulReread ==
  ASSUME NEW f \in Frame, NEW calls \in Seq(CallRecord), NEW seen, NEW below \in [Keys -> Stored],
         NEW snap, NEW k \in Keys, k \in DOMAIN f.writes \/ k \in seen,
         NEW v, v = Over(f.writes, below)[k], Faithful(f, calls, seen, below, snap)
  PROVE  Faithful(f, Append(calls, [call |-> "read", key |-> k, val |-> v]), seen, below, snap)
<1>1. PICK c : c = [call |-> "read", key |-> k, val |-> v]
  OBVIOUS
<1>2. f.writes \in Rows
  BY DEF Frame
<1>3. v \in Stored /\ v = IF k \in DOMAIN f.writes THEN f.writes[k] ELSE below[k]
  BY <1>2, OverlayAll
<1>4. ASSUME NEW r \in [Keys -> Stored]
      PROVE  /\ Replay(Append(calls, c), Start(r)).rows = Replay(calls, Start(r)).rows
             /\ Replay(Append(calls, c), Start(r)).intents = Replay(calls, Start(r)).intents
             /\ Replay(calls, Start(r)).wrong \subseteq Replay(Append(calls, c), Start(r)).wrong
             /\ (\A x \in seen : r[x] = below[x]) =>
                   Replay(Append(calls, c), Start(r)).wrong = Replay(calls, Start(r)).wrong
  <2>1. Replay(calls, Start(r)).rows[k] = IF k \in DOMAIN f.writes THEN f.writes[k] ELSE r[k]
    BY <1>2, OverlayAll DEF Faithful
  <2>2. Told(Replay(calls, Start(r)), Replay(Append(calls, c), Start(r)), k, v)
    BY <1>1, <1>3, ReplayRead
  <2>. QED  BY <1>3, <2>1, <2>2 DEF Told
<1>5. Faithful(f, Append(calls, c), seen, below, snap)
  BY <1>4 DEF Faithful
<1>. QED  BY <1>1, <1>5

\* A read of a row nobody staged or read: it is recorded.
LEMMA FaithfulRead ==
  ASSUME NEW f \in Frame, NEW calls \in Seq(CallRecord), NEW seen, NEW below \in [Keys -> Stored],
         NEW snap \in [Keys -> Stored], NEW k \in Keys, k \notin DOMAIN f.writes,
         below[k] = snap[k], NEW more, more = seen \cup {k},
         Faithful(f, calls, seen, below, snap)
  PROVE  Faithful([f EXCEPT !.reads = Put(@, k, snap[k])],
                  Append(calls, [call |-> "read", key |-> k, val |-> snap[k]]),
                  more, below, snap)
<1>1. PICK c : c = [call |-> "read", key |-> k, val |-> snap[k]]
  OBVIOUS
<1>2. f.writes \in Rows /\ f.reads \in Rows
  BY DEF Frame
<1>3. PICK g : g = [f EXCEPT !.reads = Put(@, k, snap[k])]
  OBVIOUS
<1>4. g.writes = f.writes /\ g.intents = f.intents /\ g.reads = Put(f.reads, k, snap[k])
  BY <1>3 DEF Frame
<1>5. /\ DOMAIN g.reads = DOMAIN f.reads \cup {k} /\ g.reads[k] = snap[k]
      /\ \A x \in DOMAIN f.reads \ {k} : g.reads[x] = f.reads[x]
  <2>1. PICK d \in Rows, v \in Stored : d = f.reads /\ v = snap[k]
    BY <1>2
  <2>2. IsPut(Put(d, k, v), d, k, v)
    BY <2>1, PutRows
  <2>. QED  BY <1>4, <2>1, <2>2 DEF IsPut
<1>6. ASSUME NEW r \in [Keys -> Stored]
      PROVE  /\ Replay(Append(calls, c), Start(r)).rows = Replay(calls, Start(r)).rows
             /\ Replay(Append(calls, c), Start(r)).intents = Replay(calls, Start(r)).intents
             /\ Replay(calls, Start(r)).wrong \subseteq Replay(Append(calls, c), Start(r)).wrong
             /\ r[k] = snap[k] =>
                   Replay(Append(calls, c), Start(r)).wrong = Replay(calls, Start(r)).wrong
             /\ r[k] # snap[k] => k \in Replay(Append(calls, c), Start(r)).wrong
  <2>1. Replay(calls, Start(r)).rows[k] = r[k]
    BY <1>2, OverlayAll DEF Faithful
  <2>2. Told(Replay(calls, Start(r)), Replay(Append(calls, c), Start(r)), k, snap[k])
    BY <1>1, ReplayRead
  <2>. QED  BY <2>1, <2>2 DEF Told
<1>7. \A x \in DOMAIN g.reads : g.reads[x] = snap[x]
  BY <1>5 DEF Faithful
<1>8. ASSUME NEW r \in [Keys -> Stored], \A x \in more : r[x] = below[x]
      PROVE  Replay(Append(calls, c), Start(r)).wrong = {}
  <2>1. Replay(calls, Start(r)).wrong = {}
    BY <1>8 DEF Faithful
  <2>2. r[k] = snap[k]
    BY <1>8
  <2>. QED  BY <1>6, <2>1, <2>2
<1>9. ASSUME NEW r \in [Keys -> Stored], NEW x \in DOMAIN g.reads, r[x] # g.reads[x]
      PROVE  Replay(Append(calls, c), Start(r)).wrong # {}
  <2>1. CASE x = k
    BY <1>5, <1>6, <1>9, <2>1
  <2>2. CASE x # k
    <3>1. x \in DOMAIN f.reads /\ r[x] # f.reads[x]
      BY <1>5, <1>9, <2>2
    <3>2. Replay(calls, Start(r)).wrong # {}
      BY <3>1 DEF Faithful
    <3>. QED  BY <1>6, <3>2
  <2>. QED  BY <2>1, <2>2
<1>10. ASSUME NEW r \in [Keys -> Stored]
       PROVE  /\ Replay(Append(calls, c), Start(r)).rows = Over(g.writes, r)
              /\ Replay(Append(calls, c), Start(r)).intents = g.intents
  BY <1>4, <1>6 DEF Faithful
<1>11. Faithful(g, Append(calls, c), more, below, snap)
  BY <1>7, <1>8, <1>9, <1>10 DEF Faithful
<1>. QED  BY <1>1, <1>3, <1>11

\* What merging makes of two frames whose reads do not clash.
LEMMA MergedIs ==
  ASSUME NEW p \in Frame, NEW c \in Frame
  PROVE  /\ Merged(p, c) \in Frame
         /\ Merged(p, c).writes = Over(c.writes, p.writes)
         /\ Merged(p, c).intents = p.intents \o c.intents
         /\ DOMAIN Merged(p, c).reads = DOMAIN p.reads \cup Carried(p, c)
         /\ \A k \in DOMAIN p.reads : Merged(p, c).reads[k] = p.reads[k]
         /\ \A k \in Carried(p, c) \ DOMAIN p.reads : Merged(p, c).reads[k] = c.reads[k]
<1>1. /\ p.reads \in Rows /\ p.writes \in Rows /\ c.reads \in Rows /\ c.writes \in Rows
      /\ p.intents \in Seq(Intents) /\ c.intents \in Seq(Intents)
  BY DEF Frame
<1>2. PICK ks : ks = Carried(p, c)
  OBVIOUS
<1>3. PICK s \in Rows : s = [k \in ks |-> c.reads[k]]
  <2>1. PICK d \in Rows : d = c.reads
    BY <1>1
  <2>2. ks \in SUBSET Keys /\ \A k \in ks : d[k] \in Stored
    BY <1>2, <2>1, RowsAre DEF Carried
  <2>. QED  BY <2>1, <2>2, RowsMade
<1>4. PICK rd \in Rows : rd = Over(p.reads, s)
  BY <1>1, OverlayRows
<1>5. PICK wr \in Rows : wr = Over(c.writes, p.writes)
  BY <1>1, OverlayRows
<1>6. PICK it \in Seq(Intents) : it = p.intents \o c.intents
  BY <1>1, ConcatProperties
<1>7. PICK g : g = WithReads(p, c, ks)
  OBVIOUS
<1>8. g = [p EXCEPT !.reads = rd]
  BY <1>3, <1>4, <1>7 DEF WithReads
<1>9. g \in Frame /\ g.writes = p.writes /\ g.intents = p.intents /\ g.reads = rd
  BY <1>8 DEF Frame
<1>10. PICK m : m = [g EXCEPT !.writes = wr, !.intents = it]
  OBVIOUS
<1>11. Merged(p, c) = m
  BY <1>2, <1>5, <1>6, <1>7, <1>9, <1>10 DEF Merged
<1>12. m \in Frame /\ m.writes = wr /\ m.intents = it /\ m.reads = rd
  BY <1>9, <1>10 DEF Frame
<1>13. /\ DOMAIN rd = DOMAIN p.reads \cup ks
       /\ \A k \in DOMAIN p.reads : rd[k] = p.reads[k]
       /\ \A k \in ks \ DOMAIN p.reads : rd[k] = c.reads[k]
  BY <1>3, <1>4 DEF Over
<1>. QED  BY <1>2, <1>5, <1>6, <1>11, <1>12, <1>13

\* Merging a frame into the one below.
LEMMA FaithfulMerge ==
  ASSUME NEW p \in Frame, NEW c \in Frame,
         NEW cp \in Seq(CallRecord), NEW cc \in Seq(CallRecord),
         NEW below \in [Keys -> Stored], NEW snap \in [Keys -> Stored],
         NEW seenP, NEW seenC \in SUBSET Keys, NEW more,
         seenP \subseteq more, seenC \ DOMAIN p.writes \subseteq more,
         Faithful(p, cp, seenP, below, snap),
         Faithful(c, cc, seenC, Over(p.writes, below), snap)
  PROVE  Faithful(Merged(p, c), cp \o cc, more, below, snap)
<1>1. PICK m : m = Merged(p, c)
  OBVIOUS
<1>2. /\ m \in Frame
      /\ m.writes = Over(c.writes, p.writes)
      /\ m.intents = p.intents \o c.intents
      /\ DOMAIN m.reads = DOMAIN p.reads \cup Carried(p, c)
      /\ \A k \in DOMAIN p.reads : m.reads[k] = p.reads[k]
      /\ \A k \in Carried(p, c) \ DOMAIN p.reads : m.reads[k] = c.reads[k]
  <2>1. /\ Merged(p, c) \in Frame
        /\ Merged(p, c).writes = Over(c.writes, p.writes)
        /\ Merged(p, c).intents = p.intents \o c.intents
        /\ DOMAIN Merged(p, c).reads = DOMAIN p.reads \cup Carried(p, c)
        /\ \A k \in DOMAIN p.reads : Merged(p, c).reads[k] = p.reads[k]
        /\ \A k \in Carried(p, c) \ DOMAIN p.reads : Merged(p, c).reads[k] = c.reads[k]
    BY MergedIs
  <2>. QED  BY <1>1, <2>1
<1>3. /\ p.writes \in Rows /\ c.writes \in Rows
      /\ p.intents \in Seq(Intents) /\ c.intents \in Seq(Intents)
      /\ DOMAIN p.reads \subseteq Keys /\ DOMAIN c.reads \subseteq Keys
  BY RowsAre DEF Frame
<1>4. \A k \in DOMAIN m.reads : m.reads[k] = snap[k]
  BY <1>2 DEF Faithful, Carried
<1>5. ASSUME NEW r \in [Keys -> Stored]
      PROVE  LET mid == Over(p.writes, r)
                 all == Replay(cp \o cc, Start(r))
             IN /\ mid \in [Keys -> Stored]
                /\ all.rows = Replay(cc, Start(mid)).rows
                /\ all.wrong = Replay(cp, Start(r)).wrong \cup Replay(cc, Start(mid)).wrong
                /\ all.intents = p.intents \o c.intents
  <2>1. PICK mid \in [Keys -> Stored] : mid = Over(p.writes, r)
    BY <1>3, OverlayAll
  <2>2. PICK acc \in Accs : acc = Replay(cp, Start(r))
    BY StartTyped, ReplayTyped
  <2>3. Replay(cp \o cc, Start(r)) = Replay(cc, acc)
    BY <2>2, StartTyped, ReplayConcat
  <2>4. acc.rows = mid /\ acc.intents = p.intents
    BY <2>1, <2>2 DEF Faithful
  <2>5. /\ Replay(cc, acc).rows = Replay(cc, Start(acc.rows)).rows
        /\ Replay(cc, acc).wrong = acc.wrong \cup Replay(cc, Start(acc.rows)).wrong
        /\ Replay(cc, acc).intents = acc.intents \o Replay(cc, Start(acc.rows)).intents
    BY ReplayFresh
  <2>6. Replay(cc, Start(mid)).intents = c.intents
    BY DEF Faithful
  <2>. QED  BY <2>1, <2>2, <2>3, <2>4, <2>5, <2>6
<1>6. ASSUME NEW r \in [Keys -> Stored]
      PROVE  /\ Replay(cp \o cc, Start(r)).rows = Over(m.writes, r)
             /\ Replay(cp \o cc, Start(r)).intents = m.intents
  <2>1. PICK mid \in [Keys -> Stored] : mid = Over(p.writes, r)
    BY <1>5
  <2>2. Replay(cc, Start(mid)).rows = Over(c.writes, mid)
    BY DEF Faithful
  <2>3. Over(m.writes, r) = Over(c.writes, mid)
    BY <1>2, <1>3, <2>1, OverlayTwice
  <2>. QED  BY <1>2, <1>5, <2>1, <2>2, <2>3
<1>7. ASSUME NEW r \in [Keys -> Stored], \A k \in more : r[k] = below[k]
      PROVE  Replay(cp \o cc, Start(r)).wrong = {}
  <2>1. PICK mid \in [Keys -> Stored] : mid = Over(p.writes, r)
    BY <1>5
  <2>2. Replay(cp, Start(r)).wrong = {}
    BY <1>7 DEF Faithful
  <2>3. PICK under \in [Keys -> Stored] : under = Over(p.writes, below)
    BY <1>3, OverlayAll
  <2>4. ASSUME NEW k \in seenC PROVE mid[k] = under[k]
    <3>0. k \in Keys /\ DOMAIN p.writes \cup Keys = Keys
      BY <1>3, RowsAre
    <3>1. /\ mid[k] = IF k \in DOMAIN p.writes THEN p.writes[k] ELSE r[k]
          /\ under[k] = IF k \in DOMAIN p.writes THEN p.writes[k] ELSE below[k]
      BY <3>0, <2>1, <2>3 DEF Over
    <3>2. k \notin DOMAIN p.writes => r[k] = below[k]
      BY <1>7
    <3>. QED  BY <3>1, <3>2
  <2>5. Replay(cc, Start(mid)).wrong = {}
    BY <2>3, <2>4 DEF Faithful
  <2>. QED  BY <1>5, <2>1, <2>2, <2>5
<1>8. ASSUME NEW r \in [Keys -> Stored], NEW k \in DOMAIN m.reads, r[k] # m.reads[k]
      PROVE  Replay(cp \o cc, Start(r)).wrong # {}
  <2>1. PICK mid \in [Keys -> Stored] : mid = Over(p.writes, r)
    BY <1>5
  <2>2. CASE k \in DOMAIN p.reads
    <3>1. Replay(cp, Start(r)).wrong # {}
      BY <1>2, <1>8, <2>2 DEF Faithful
    <3>. QED  BY <1>5, <2>1, <3>1
  <2>3. CASE k \notin DOMAIN p.reads
    <3>1. k \in DOMAIN c.reads /\ k \notin DOMAIN p.writes /\ k \in Keys /\ m.reads[k] = c.reads[k]
      BY <1>2, <1>3, <2>3 DEF Carried
    <3>2. mid[k] = r[k]
      BY <1>3, <2>1, <3>1, OverlayAll
    <3>3. Replay(cc, Start(mid)).wrong # {}
      BY <1>8, <3>1, <3>2 DEF Faithful
    <3>. QED  BY <1>5, <2>1, <3>3
  <2>. QED  BY <2>2, <2>3
<1>9. Faithful(m, cp \o cc, more, below, snap)
  BY <1>4, <1>6, <1>7, <1>8 DEF Faithful
<1>. QED  BY <1>1, <1>9

---------------------------------------------------------------------------
(* A stack of frames                                                       *)

\* The frames up to d that wrote row k, and the rows one sees from above frame d.
Writers(fs, d, k)  == {e \in 1 .. d : k \in DOMAIN fs[e].writes}
View(fs, d, snap)  ==
  [k \in Keys |-> IF Writers(fs, d, k) = {} THEN snap[k]
                  ELSE fs[Uppermost(Writers(fs, d, k))].writes[k]]

\* The rows frame d or one below it read, and those one below it wrote.
Seen(fs, d) ==
  {k \in Keys : \/ \E e \in 1 .. d : k \in DOMAIN fs[e].reads
                \/ \E e \in 1 .. d : e < d /\ k \in DOMAIN fs[e].writes}

AllFaithful(fs, calls, snap) ==
  \A d \in 1 .. Len(fs) : Faithful(fs[d], calls[d], Seen(fs, d), View(fs, d - 1, snap), snap)

LEMMA UppermostIs ==
  ASSUME NEW n \in Nat, NEW S \in SUBSET (1 .. n), S # {}
  PROVE  Uppermost(S) \in S /\ \A e \in S : e <= Uppermost(S)
BY HighestExists DEF Uppermost

LEMMA UppermostUnique ==
  ASSUME NEW n \in Nat, NEW S \in SUBSET (1 .. n), NEW m \in S, \A e \in S : e <= m
  PROVE  Uppermost(S) = m
<1>1. PICK u : u = Uppermost(S)
  OBVIOUS
<1>2. u \in S /\ \A e \in S : e <= u
  BY <1>1, UppermostIs
<1>3. u <= m /\ m <= u /\ u \in Int /\ m \in Int
  BY <1>2
<1>4. u = m
  BY <1>3
<1>. QED  BY <1>1, <1>4

LEMMA ViewTyped ==
  ASSUME NEW fs \in Seq(Frame), NEW d \in 0 .. Len(fs), NEW snap \in [Keys -> Stored]
  PROVE  View(fs, d, snap) \in [Keys -> Stored]
<1>1. ASSUME NEW k \in Keys, Writers(fs, d, k) # {}
      PROVE  fs[Uppermost(Writers(fs, d, k))].writes[k] \in Stored
  <2>1. PICK S : S = Writers(fs, d, k)
    OBVIOUS
  <2>2. S \in SUBSET (1 .. d) /\ S # {} /\ d \in Nat
    BY <1>1, <2>1 DEF Writers
  <2>3. PICK e : e = Uppermost(S)
    OBVIOUS
  <2>4. e \in S
    BY <2>2, <2>3, UppermostIs
  <2>5. e \in 1 .. Len(fs) /\ k \in DOMAIN fs[e].writes
    BY <2>1, <2>4 DEF Writers
  <2>6. fs[e] \in Frame
    BY <2>5
  <2>7. fs[e].writes \in Rows
    BY <2>6 DEF Frame
  <2>8. fs[e].writes[k] \in Stored
    BY <2>5, <2>7, RowsAre
  <2>. QED  BY <2>1, <2>3, <2>8
<1>. QED  BY <1>1 DEF View

\* Frame d over what is seen below it.
LEMMA ViewStep ==
  ASSUME NEW fs \in Seq(Frame), NEW d \in 1 .. Len(fs), NEW snap \in [Keys -> Stored]
  PROVE  View(fs, d, snap) = Over(fs[d].writes, View(fs, d - 1, snap))
<1>1. PICK w \in Rows : w = fs[d].writes
  <2>1. fs[d] \in Frame
    OBVIOUS
  <2>. QED  BY <2>1 DEF Frame
<1>2. d \in Nat /\ d \in 0 .. Len(fs) /\ d - 1 \in 0 .. Len(fs)
  OBVIOUS
<1>3. PICK a \in [Keys -> Stored] : a = View(fs, d, snap)
  BY <1>2, ViewTyped
<1>4. PICK b \in [Keys -> Stored] : b = View(fs, d - 1, snap)
  BY <1>2, ViewTyped
<1>5. PICK o \in [Keys -> Stored] : o = Over(w, b)
  BY OverlayAll
<1>6. ASSUME NEW k \in Keys PROVE a[k] = o[k]
  <2>0. o[k] = IF k \in DOMAIN w THEN w[k] ELSE b[k]
    BY <1>5, OverlayAll
  <2>1. CASE k \in DOMAIN w
    <3>1. PICK S : S = Writers(fs, d, k)
      OBVIOUS
    <3>2. S \in SUBSET (1 .. d) /\ d \in S /\ \A e \in S : e <= d
      BY <1>1, <2>1, <3>1 DEF Writers
    <3>3. Uppermost(S) = d
      BY <1>2, <3>2, UppermostUnique
    <3>4. a[k] = fs[d].writes[k]
      BY <1>3, <3>1, <3>2, <3>3 DEF View
    <3>. QED  BY <1>1, <2>0, <2>1, <3>4
  <2>2. CASE k \notin DOMAIN w
    <3>1. Writers(fs, d, k) = Writers(fs, d - 1, k)
      BY <1>1, <1>2, <2>2 DEF Writers
    <3>2. a[k] = b[k]
      BY <1>3, <1>4, <3>1 DEF View
    <3>. QED  BY <2>0, <2>2, <3>2
  <2>. QED  BY <2>1, <2>2
<1>7. a = o
  BY <1>6
<1>. QED  BY <1>1, <1>3, <1>4, <1>5, <1>7

\* What is seen above frame d is up to the writes of the frames up to d.
SameWrites(gs, fs, d) == \A e \in 1 .. d : gs[e].writes = fs[e].writes

LEMMA ViewSame ==
  ASSUME NEW fs, NEW gs, NEW d \in Nat, NEW snap, SameWrites(gs, fs, d)
  PROVE  View(gs, d, snap) = View(fs, d, snap)
<1>1. ASSUME NEW k \in Keys PROVE Writers(gs, d, k) = Writers(fs, d, k)
  BY DEF Writers, SameWrites
<1>2. ASSUME NEW k \in Keys, Writers(fs, d, k) # {}
      PROVE  gs[Uppermost(Writers(fs, d, k))].writes = fs[Uppermost(Writers(fs, d, k))].writes
  <2>1. PICK S : S = Writers(fs, d, k)
    OBVIOUS
  <2>2. S \in SUBSET (1 .. d) /\ S # {}
    BY <1>2, <2>1 DEF Writers
  <2>3. Uppermost(S) \in 1 .. d
    BY <2>2, UppermostIs
  <2>. QED  BY <2>1, <2>3 DEF SameWrites
<1>. QED  BY <1>1, <1>2 DEF View

\* A frame stays faithful when it and those below it stay.
LEMMA FaithfulKept ==
  ASSUME NEW fs, NEW gs, NEW calls, NEW told, NEW snap, NEW n \in Nat, NEW d \in 1 .. n,
         \A e \in 1 .. d : gs[e] = fs[e], told[d] = calls[d],
         Faithful(fs[d], calls[d], Seen(fs, d), View(fs, d - 1, snap), snap)
  PROVE  Faithful(gs[d], told[d], Seen(gs, d), View(gs, d - 1, snap), snap)
<1>1. gs[d] = fs[d]
  OBVIOUS
<1>2. Seen(gs, d) = Seen(fs, d)
  BY DEF Seen
<1>3. d - 1 \in Nat /\ SameWrites(gs, fs, d - 1)
  BY DEF SameWrites
<1>4. View(gs, d - 1, snap) = View(fs, d - 1, snap)
  BY <1>3, ViewSame
<1>. QED  BY <1>1, <1>2, <1>4

\* A stack with the calls made in each of its frames.
StackOK(fs, calls, snap) ==
  /\ fs \in Seq(Frame) /\ calls \in Seq(Seq(CallRecord)) /\ Len(calls) = Len(fs)
  /\ AllFaithful(fs, calls, snap)

LEMMA EmptyFrameTyped == EmptyFrame \in Frame
<1>1. << >> \in Rows
  <2>1. << >> \in [{} -> Stored] /\ {} \in SUBSET Keys
    OBVIOUS
  <2>. QED  BY <2>1, RowsMade
<1>2. << >> \in Seq(Intents)
  OBVIOUS
<1>. QED  BY <1>1, <1>2 DEF EmptyFrame, Frame

Reads(f) == DOMAIN f.reads

\* One more call in the top frame.
LEMMA CallKeeps ==
  ASSUME NEW fs, NEW calls, NEW snap \in [Keys -> Stored], StackOK(fs, calls, snap),
         NEW n, n = Len(fs), n > 0,
         NEW g \in Frame, NEW line \in Seq(CallRecord), NEW ks \in SUBSET Keys,
         Reads(g) = Reads(fs[n]) \cup ks, NEW seen, seen = Seen(fs, n) \cup ks,
         NEW below, below = View(fs, n - 1, snap), Faithful(g, line, seen, below, snap),
         NEW gs, gs = [fs EXCEPT ![n] = g], NEW told, told = [calls EXCEPT ![n] = line]
  PROVE  StackOK(gs, told, snap)
<1>1. n \in Nat /\ n \in 1 .. n /\ fs \in Seq(Frame) /\ calls \in Seq(Seq(CallRecord)) /\ Len(calls) = n
  BY DEF StackOK
<1>3. gs \in Seq(Frame) /\ Len(gs) = n /\ gs[n] = g /\ \A e \in 1 .. n : e < n => gs[e] = fs[e]
  BY <1>1
<1>6. /\ told \in Seq(Seq(CallRecord)) /\ Len(told) = n /\ told[n] = line
      /\ \A e \in 1 .. n : e < n => told[e] = calls[e]
  BY <1>1
<1>7. Seen(gs, n) = Seen(fs, n) \cup ks
  <2>1. ASSUME NEW k \in Keys
        PROVE  k \in Seen(gs, n) <=> k \in Seen(fs, n) \/ k \in ks
    <3>1. (\E e \in 1 .. n : k \in DOMAIN gs[e].reads)
            <=> (\E e \in 1 .. n : k \in DOMAIN fs[e].reads) \/ k \in ks
      <4>1. DOMAIN gs[n].reads = DOMAIN fs[n].reads \cup ks
        BY <1>3 DEF Reads
      <4>2. \A e \in 1 .. n : e # n => gs[e] = fs[e]
        BY <1>1, <1>3
      <4>. QED  BY <1>1, <4>1, <4>2, Zenon
    <3>2. (\E e \in 1 .. n : e < n /\ k \in DOMAIN gs[e].writes)
            <=> (\E e \in 1 .. n : e < n /\ k \in DOMAIN fs[e].writes)
      BY <1>3
    <3>. QED  BY <3>1, <3>2 DEF Seen
  <2>2. Seen(gs, n) \subseteq Keys /\ Seen(fs, n) \subseteq Keys
    BY DEF Seen
  <2>. QED  BY <2>1, <2>2
<1>8. View(gs, n - 1, snap) = View(fs, n - 1, snap)
  <2>1. PICK m \in Nat : m = n - 1
    BY <1>1
  <2>2. SameWrites(gs, fs, m)
    <3>1. \A e \in 1 .. m : e \in 1 .. n /\ e < n
      BY <1>1, <2>1
    <3>. QED  BY <1>3, <3>1 DEF SameWrites
  <2>3. View(gs, m, snap) = View(fs, m, snap)
    BY <2>2, ViewSame
  <2>. QED  BY <2>1, <2>3
<1>9. ASSUME NEW d \in 1 .. n
      PROVE  Faithful(gs[d], told[d], Seen(gs, d), View(gs, d - 1, snap), snap)
  <2>1. CASE d = n
    BY <1>3, <1>6, <1>7, <1>8, <2>1
  <2>2. CASE d # n
    <3>0. d < n /\ \A e \in 1 .. d : e \in 1 .. n /\ e < n
      BY <1>1, <2>2
    <3>1. (\A e \in 1 .. d : gs[e] = fs[e]) /\ told[d] = calls[d]
      BY <1>3, <1>6, <3>0
    <3>2. Faithful(fs[d], calls[d], Seen(fs, d), View(fs, d - 1, snap), snap)
      BY <1>1 DEF StackOK, AllFaithful
    <3>. QED  BY <1>1, <3>1, <3>2, FaithfulKept
  <2>. QED  BY <2>1, <2>2
<1>. QED  BY <1>3, <1>6, <1>9 DEF StackOK, AllFaithful

LEMMA TopIs ==
  ASSUME NEW fs, NEW calls, NEW snap, StackOK(fs, calls, snap), NEW n, n = Len(fs), n > 0
  PROVE  /\ n \in Nat /\ n \in 1 .. Len(fs) /\ fs[n] \in Frame /\ calls[n] \in Seq(CallRecord)
         /\ Faithful(fs[n], calls[n], Seen(fs, n), View(fs, n - 1, snap), snap)
<1>1. n \in Nat /\ n \in 1 .. Len(fs) /\ n \in 1 .. Len(calls)
  BY DEF StackOK
<1>. QED  BY <1>1 DEF StackOK, AllFaithful

LEMMA IntentKeeps ==
  ASSUME NEW fs, NEW calls, NEW snap \in [Keys -> Stored], StackOK(fs, calls, snap),
         NEW n, n = Len(fs), n > 0, NEW i \in Intents
  PROVE  StackOK([fs EXCEPT ![n].intents = Append(@, i)],
                 [calls EXCEPT ![n] = Append(@, [call |-> "intent", intent |-> i])], snap)
<1>1. PICK f \in Frame : f = fs[n]
  BY TopIs
<1>2. PICK c \in CallRecord : c = [call |-> "intent", intent |-> i]
  BY DEF CallRecord
<1>3. Append(f.intents, i) \in Seq(Intents)
  BY DEF Frame
<1>4. PICK g \in Frame : g = [f EXCEPT !.intents = Append(@, i)]
  BY <1>3 DEF Frame
<1>5. PICK old \in Seq(CallRecord) : old = calls[n]
  BY TopIs
<1>6. PICK line \in Seq(CallRecord) : line = Append(old, c)
  <2>1. Append(old, c) \in Seq(CallRecord)
    OBVIOUS
  <2>. QED  BY <2>1
<1>7. PICK seen, below : seen = Seen(fs, n) /\ below = View(fs, n - 1, snap)
  OBVIOUS
<1>8. Faithful(f, old, seen, below, snap)
  BY <1>1, <1>5, <1>7, TopIs
<1>9. Faithful(g, line, seen, below, snap)
  BY <1>2, <1>4, <1>6, <1>8, FaithfulIntent
<1>10. Reads(g) = Reads(fs[n]) \cup {} /\ seen = Seen(fs, n) \cup {}
  BY <1>1, <1>4, <1>7 DEF Frame, Reads
<1>11. PICK gs, told : gs = [fs EXCEPT ![n] = g] /\ told = [calls EXCEPT ![n] = line]
  OBVIOUS
<1>12. StackOK(gs, told, snap)
  BY <1>7, <1>9, <1>10, <1>11, CallKeeps
<1>13. [fs EXCEPT ![n].intents = Append(@, i)] = gs
  BY <1>1, <1>4, <1>11
<1>14. [calls EXCEPT ![n] = Append(@, c)] = told
  BY <1>5, <1>6, <1>11
<1>. QED  BY <1>2, <1>12, <1>13, <1>14

LEMMA WriteKeeps ==
  ASSUME NEW fs, NEW calls, NEW snap \in [Keys -> Stored], StackOK(fs, calls, snap),
         NEW n, n = Len(fs), n > 0, NEW k \in Keys, NEW v \in Stored
  PROVE  StackOK([fs EXCEPT ![n].writes = Put(@, k, v)],
                 [calls EXCEPT ![n] = Append(@, [call |-> "write", key |-> k, val |-> v])], snap)
<1>1. PICK f \in Frame : f = fs[n]
  BY TopIs
<1>2. PICK c \in CallRecord : c = [call |-> "write", key |-> k, val |-> v]
  BY DEF CallRecord
<1>3. Put(f.writes, k, v) \in Rows
  <2>1. PICK w \in Rows : w = f.writes
    BY DEF Frame
  <2>2. IsPut(Put(w, k, v), w, k, v)
    BY PutRows
  <2>. QED  BY <2>1, <2>2 DEF IsPut
<1>4. PICK g \in Frame : g = [f EXCEPT !.writes = Put(@, k, v)]
  BY <1>3 DEF Frame
<1>5. PICK old \in Seq(CallRecord) : old = calls[n]
  BY TopIs
<1>6. PICK line \in Seq(CallRecord) : line = Append(old, c)
  <2>1. Append(old, c) \in Seq(CallRecord)
    OBVIOUS
  <2>. QED  BY <2>1
<1>7. PICK seen, below : seen = Seen(fs, n) /\ below = View(fs, n - 1, snap)
  OBVIOUS
<1>8. Faithful(f, old, seen, below, snap)
  BY <1>1, <1>5, <1>7, TopIs
<1>9. Faithful(g, line, seen, below, snap)
  BY <1>2, <1>4, <1>6, <1>8, FaithfulWrite
<1>10. Reads(g) = Reads(fs[n]) \cup {} /\ seen = Seen(fs, n) \cup {}
  BY <1>1, <1>4, <1>7 DEF Frame, Reads
<1>11. PICK gs, told : gs = [fs EXCEPT ![n] = g] /\ told = [calls EXCEPT ![n] = line]
  OBVIOUS
<1>12. StackOK(gs, told, snap)
  BY <1>7, <1>9, <1>10, <1>11, CallKeeps
<1>13. [fs EXCEPT ![n].writes = Put(@, k, v)] = gs
  BY <1>1, <1>4, <1>11
<1>14. [calls EXCEPT ![n] = Append(@, c)] = told
  BY <1>5, <1>6, <1>11
<1>. QED  BY <1>2, <1>12, <1>13, <1>14

LEMMA RereadKeeps ==
  ASSUME NEW fs, NEW calls, NEW snap \in [Keys -> Stored], StackOK(fs, calls, snap),
         NEW n, n = Len(fs), n > 0, NEW k \in Keys, NEW v, v = View(fs, n, snap)[k],
         NEW e \in 1 .. n, k \in DOMAIN fs[e].writes \cup DOMAIN fs[e].reads
  PROVE  StackOK(fs, [calls EXCEPT ![n] = Append(@, [call |-> "read", key |-> k, val |-> v])], snap)
<1>1. PICK f \in Frame : f = fs[n]
  BY TopIs
<1>2. n \in Nat /\ n \in 1 .. Len(fs) /\ fs \in Seq(Frame) /\ n \in 0 .. Len(fs) /\ n - 1 \in 0 .. Len(fs)
  BY TopIs DEF StackOK
<1>3. PICK below \in [Keys -> Stored] : below = View(fs, n - 1, snap)
  BY <1>2, ViewTyped
<1>4. v = Over(f.writes, below)[k] /\ v \in Stored
  BY <1>1, <1>2, <1>3, ViewStep, ViewTyped
<1>5. PICK c \in CallRecord : c = [call |-> "read", key |-> k, val |-> v]
  BY <1>4 DEF CallRecord
<1>6. k \in DOMAIN f.writes \/ k \in Seen(fs, n)
  BY <1>1, <1>2 DEF Seen
<1>7. PICK old \in Seq(CallRecord) : old = calls[n]
  BY TopIs
<1>8. PICK line \in Seq(CallRecord) : line = Append(old, c)
  <2>1. Append(old, c) \in Seq(CallRecord)
    OBVIOUS
  <2>. QED  BY <2>1
<1>9. PICK seen : seen = Seen(fs, n)
  OBVIOUS
<1>10. Faithful(f, old, seen, below, snap)
  BY <1>1, <1>3, <1>7, <1>9, TopIs
<1>11. Faithful(f, line, seen, below, snap)
  BY <1>4, <1>5, <1>6, <1>8, <1>9, <1>10, FaithfulReread
<1>12. Reads(f) = Reads(fs[n]) \cup {} /\ seen = Seen(fs, n) \cup {}
  BY <1>1, <1>9
<1>13. PICK gs, told : gs = [fs EXCEPT ![n] = f] /\ told = [calls EXCEPT ![n] = line]
  OBVIOUS
<1>14. StackOK(gs, told, snap)
  BY <1>3, <1>11, <1>12, <1>13, CallKeeps
<1>15. fs = gs
  BY <1>1, <1>2, <1>13
<1>16. [calls EXCEPT ![n] = Append(@, c)] = told
  BY <1>7, <1>8, <1>13
<1>. QED  BY <1>5, <1>14, <1>15, <1>16

LEMMA ReadKeeps ==
  ASSUME NEW fs, NEW calls, NEW snap \in [Keys -> Stored], StackOK(fs, calls, snap),
         NEW n, n = Len(fs), n > 0, NEW k \in Keys,
         \A e \in 1 .. n : k \notin DOMAIN fs[e].writes \cup DOMAIN fs[e].reads
  PROVE  StackOK([fs EXCEPT ![n].reads = Put(@, k, snap[k])],
                 [calls EXCEPT ![n] = Append(@, [call |-> "read", key |-> k, val |-> snap[k]])], snap)
<1>1. PICK f \in Frame : f = fs[n]
  BY TopIs
<1>2. n \in Nat /\ n \in 1 .. Len(fs) /\ fs \in Seq(Frame) /\ n \in 0 .. Len(fs) /\ n - 1 \in 0 .. Len(fs)
  BY TopIs DEF StackOK
<1>3. PICK below \in [Keys -> Stored] : below = View(fs, n - 1, snap)
  BY <1>2, ViewTyped
<1>4. below[k] = snap[k] /\ k \notin DOMAIN f.writes
  <2>1. Writers(fs, n - 1, k) = {}
    BY <1>2 DEF Writers
  <2>. QED  BY <1>1, <1>2, <1>3, <2>1 DEF View
<1>5. PICK c \in CallRecord : c = [call |-> "read", key |-> k, val |-> snap[k]]
  BY DEF CallRecord
<1>6. PICK old \in Rows : old = f.reads
  BY DEF Frame
<1>7. IsPut(Put(old, k, snap[k]), old, k, snap[k])
  BY PutRows
<1>8. PICK g \in Frame : g = [f EXCEPT !.reads = Put(@, k, snap[k])]
  BY <1>6, <1>7 DEF Frame, IsPut
<1>9. Reads(g) = Reads(fs[n]) \cup {k}
  BY <1>1, <1>6, <1>7, <1>8 DEF Frame, IsPut, Reads
<1>10. PICK line0 \in Seq(CallRecord) : line0 = calls[n]
  BY TopIs
<1>11. PICK line \in Seq(CallRecord) : line = Append(line0, c)
  <2>1. Append(line0, c) \in Seq(CallRecord)
    OBVIOUS
  <2>. QED  BY <2>1
<1>12. PICK seen, more : seen = Seen(fs, n) /\ more = seen \cup {k}
  OBVIOUS
<1>13. Faithful(f, line0, seen, below, snap)
  BY <1>1, <1>3, <1>10, <1>12, TopIs
<1>14. Faithful(g, line, more, below, snap)
  BY <1>4, <1>5, <1>8, <1>11, <1>12, <1>13, FaithfulRead
<1>15. PICK gs, told : gs = [fs EXCEPT ![n] = g] /\ told = [calls EXCEPT ![n] = line]
  OBVIOUS
<1>16. StackOK(gs, told, snap)
  BY <1>3, <1>9, <1>12, <1>14, <1>15, CallKeeps
<1>17. [fs EXCEPT ![n].reads = Put(@, k, snap[k])] = gs
  BY <1>1, <1>8, <1>15
<1>18. [calls EXCEPT ![n] = Append(@, c)] = told
  BY <1>10, <1>11, <1>15
<1>. QED  BY <1>5, <1>16, <1>17, <1>18

LEMMA PushKeeps ==
  ASSUME NEW fs, NEW calls, NEW snap \in [Keys -> Stored], StackOK(fs, calls, snap)
  PROVE  StackOK(Append(fs, EmptyFrame), Append(calls, << >>), snap)
<1>1. PICK n : n = Len(fs)
  OBVIOUS
<1>2. n \in Nat /\ fs \in Seq(Frame) /\ calls \in Seq(Seq(CallRecord)) /\ Len(calls) = n
  BY <1>1 DEF StackOK
<1>3. PICK gs : gs = Append(fs, EmptyFrame)
  OBVIOUS
<1>4. PICK told : told = Append(calls, << >>)
  OBVIOUS
<1>5. /\ gs \in Seq(Frame) /\ Len(gs) = n + 1 /\ gs[n + 1] = EmptyFrame
      /\ \A e \in 1 .. n : gs[e] = fs[e]
  BY <1>1, <1>2, <1>3, EmptyFrameTyped
<1>6. /\ told \in Seq(Seq(CallRecord)) /\ Len(told) = n + 1 /\ told[n + 1] = << >>
      /\ \A e \in 1 .. n : told[e] = calls[e]
  BY <1>2, <1>4
<1>7. ASSUME NEW d \in 1 .. n + 1
      PROVE  Faithful(gs[d], told[d], Seen(gs, d), View(gs, d - 1, snap), snap)
  <2>1. CASE d = n + 1
    BY <1>5, <1>6, <2>1, FaithfulEmpty
  <2>2. CASE d # n + 1
    <3>1. d \in 1 .. n /\ (\A e \in 1 .. d : gs[e] = fs[e]) /\ told[d] = calls[d]
      BY <1>2, <1>5, <1>6, <2>2
    <3>2. Faithful(fs[d], calls[d], Seen(fs, d), View(fs, d - 1, snap), snap)
      BY <1>1, <3>1 DEF StackOK, AllFaithful
    <3>. QED  BY <1>2, <3>1, <3>2, FaithfulKept
  <2>. QED  BY <2>1, <2>2
<1>. QED  BY <1>3, <1>4, <1>5, <1>6, <1>7 DEF StackOK, AllFaithful

\* The frames up to m, alone.
LEMMA LowerKeep ==
  ASSUME NEW fs, NEW calls, NEW snap \in [Keys -> Stored], StackOK(fs, calls, snap),
         NEW m \in Nat, m <= Len(fs)
  PROVE  /\ StackOK(SubSeq(fs, 1, m), SubSeq(calls, 1, m), snap)
         /\ Len(SubSeq(fs, 1, m)) = m /\ Len(SubSeq(calls, 1, m)) = m
         /\ \A e \in 1 .. m : SubSeq(fs, 1, m)[e] = fs[e] /\ SubSeq(calls, 1, m)[e] = calls[e]
<1>1. PICK n : n = Len(fs)
  OBVIOUS
<1>2. n \in Nat /\ fs \in Seq(Frame) /\ calls \in Seq(Seq(CallRecord)) /\ Len(calls) = n /\ m <= n
  BY <1>1 DEF StackOK
<1>3. PICK gs : gs = SubSeq(fs, 1, m)
  OBVIOUS
<1>4. PICK told : told = SubSeq(calls, 1, m)
  OBVIOUS
<1>5. gs \in Seq(Frame) /\ Len(gs) = m /\ \A e \in 1 .. m : gs[e] = fs[e]
  BY <1>1, <1>2, <1>3
<1>6. told \in Seq(Seq(CallRecord)) /\ Len(told) = m /\ \A e \in 1 .. m : told[e] = calls[e]
  BY <1>2, <1>4
<1>7. ASSUME NEW d \in 1 .. m
      PROVE  Faithful(gs[d], told[d], Seen(gs, d), View(gs, d - 1, snap), snap)
  <2>1. (\A e \in 1 .. d : gs[e] = fs[e]) /\ told[d] = calls[d] /\ d \in 1 .. n
    BY <1>2, <1>5, <1>6
  <2>2. Faithful(fs[d], calls[d], Seen(fs, d), View(fs, d - 1, snap), snap)
    BY <1>1, <2>1 DEF StackOK, AllFaithful
  <2>. QED  BY <2>1, <2>2, FaithfulKept
<1>. QED  BY <1>3, <1>4, <1>5, <1>6, <1>7 DEF StackOK, AllFaithful

\* Two frames of a stack do not clash, and merging them keeps the stack faithful.
LEMMA MergeKeeps ==
  ASSUME NEW fs, NEW calls, NEW snap \in [Keys -> Stored], StackOK(fs, calls, snap),
         NEW m \in Nat, Len(fs) = m + 2
  PROVE  /\ ~MergeClash(fs[m + 1], fs[m + 2])
         /\ StackOK(Append(SubSeq(fs, 1, m), Merged(fs[m + 1], fs[m + 2])),
                    Append(SubSeq(calls, 1, m), calls[m + 1] \o calls[m + 2]), snap)
         /\ Len(Append(SubSeq(fs, 1, m), Merged(fs[m + 1], fs[m + 2]))) = m + 1
<1>1. /\ fs \in Seq(Frame) /\ calls \in Seq(Seq(CallRecord)) /\ Len(calls) = m + 2
      /\ m + 1 \in 1 .. Len(fs) /\ m + 2 \in 1 .. Len(fs)
  BY DEF StackOK
<1>2. PICK p \in Frame, c \in Frame : p = fs[m + 1] /\ c = fs[m + 2]
  BY <1>1
<1>3. PICK cp \in Seq(CallRecord), cc \in Seq(CallRecord) : cp = calls[m + 1] /\ cc = calls[m + 2]
  BY <1>1
<1>4. m \in 0 .. Len(fs) /\ m + 1 - 1 = m /\ m + 2 - 1 = m + 1
  BY <1>1
<1>5. PICK below \in [Keys -> Stored] : below = View(fs, m, snap)
  BY <1>1, <1>4, ViewTyped
<1>6. View(fs, m + 1, snap) = Over(p.writes, below)
  <2>1. PICK d \in 1 .. Len(fs) : d = m + 1
    BY <1>1
  <2>2. View(fs, d, snap) = Over(fs[d].writes, View(fs, d - 1, snap))
    BY <1>1, ViewStep
  <2>. QED  BY <1>2, <1>4, <1>5, <2>1, <2>2
<1>7. /\ Faithful(p, cp, Seen(fs, m + 1), below, snap)
      /\ Faithful(c, cc, Seen(fs, m + 2), Over(p.writes, below), snap)
  <2>1. Faithful(fs[m + 1], calls[m + 1], Seen(fs, m + 1), View(fs, m + 1 - 1, snap), snap)
    BY <1>1 DEF StackOK, AllFaithful
  <2>2. Faithful(fs[m + 2], calls[m + 2], Seen(fs, m + 2), View(fs, m + 2 - 1, snap), snap)
    BY <1>1 DEF StackOK, AllFaithful
  <2>. QED  BY <1>2, <1>3, <1>4, <1>5, <1>6, <2>1, <2>2
<1>8. ~MergeClash(p, c)
  BY <1>7 DEF MergeClash, Carried, Faithful
<1>9. PICK x \in Frame : x = Merged(p, c)
  BY MergedIs
<1>10. Reads(x) = Reads(p) \cup Carried(p, c)
  BY <1>9, MergedIs DEF Reads
<1>11. PICK line \in Seq(CallRecord) : line = cp \o cc
  BY ConcatProperties
<1>12. PICK low, said : low = SubSeq(fs, 1, m) /\ said = SubSeq(calls, 1, m)
  OBVIOUS
<1>13. /\ low \in Seq(Frame) /\ Len(low) = m /\ said \in Seq(Seq(CallRecord)) /\ Len(said) = m
       /\ \A e \in 1 .. m : low[e] = fs[e] /\ said[e] = calls[e]
  <2>1. m <= Len(fs)
    BY <1>1
  <2>2. /\ StackOK(low, said, snap) /\ Len(low) = m /\ Len(said) = m
        /\ \A e \in 1 .. m : low[e] = fs[e] /\ said[e] = calls[e]
    <3>1. /\ StackOK(SubSeq(fs, 1, m), SubSeq(calls, 1, m), snap)
          /\ Len(SubSeq(fs, 1, m)) = m /\ Len(SubSeq(calls, 1, m)) = m
          /\ \A e \in 1 .. m : SubSeq(fs, 1, m)[e] = fs[e] /\ SubSeq(calls, 1, m)[e] = calls[e]
      BY <2>1, LowerKeep
    <3>. QED  BY <1>12, <3>1
  <2>. QED  BY <2>2 DEF StackOK
<1>14. PICK gs, told : gs = Append(low, x) /\ told = Append(said, line)
  OBVIOUS
<1>15. /\ gs \in Seq(Frame) /\ Len(gs) = m + 1 /\ gs[m + 1] = x
       /\ \A e \in 1 .. m : gs[e] = fs[e]
  BY <1>13, <1>14
<1>16. /\ told \in Seq(Seq(CallRecord)) /\ Len(told) = m + 1 /\ told[m + 1] = line
       /\ \A e \in 1 .. m : told[e] = calls[e]
  BY <1>13, <1>14
<1>17. Faithful(x, line, Seen(gs, m + 1), below, snap)
  <2>1. PICK more : more = Seen(gs, m + 1)
    OBVIOUS
  <2>2. ASSUME NEW k \in Keys, NEW e \in 1 .. m, k \in DOMAIN fs[e].reads \cup DOMAIN fs[e].writes
        PROVE  k \in more
    BY <1>15, <2>1, <2>2 DEF Seen
  <2>3. ASSUME NEW k \in Keys, k \in Reads(x) PROVE k \in more
    <3>1. m + 1 \in 1 .. m + 1
      OBVIOUS
    <3>. QED  BY <1>15, <2>1, <2>3, <3>1 DEF Seen, Reads
  <2>4. Seen(fs, m + 1) \subseteq more
    <3>1. ASSUME NEW k \in Seen(fs, m + 1) PROVE k \in more
      <4>1. CASE \E e \in 1 .. m + 1 : k \in DOMAIN fs[e].reads
        <5>1. PICK e \in 1 .. m + 1 : k \in DOMAIN fs[e].reads
          BY <4>1
        <5>2. e \in 1 .. m \/ e = m + 1
          OBVIOUS
        <5>. QED  BY <1>2, <1>10, <2>2, <2>3, <5>1, <5>2 DEF Seen, Reads
      <4>2. CASE \E e \in 1 .. m + 1 : e < m + 1 /\ k \in DOMAIN fs[e].writes
        <5>1. PICK e \in 1 .. m + 1 : e < m + 1 /\ k \in DOMAIN fs[e].writes
          BY <4>2
        <5>2. e \in 1 .. m
          BY <5>1
        <5>. QED  BY <2>2, <5>1, <5>2 DEF Seen
      <4>. QED  BY <4>1, <4>2 DEF Seen
    <3>. QED  BY <3>1
  <2>5. Seen(fs, m + 2) \ DOMAIN p.writes \subseteq more
    <3>1. ASSUME NEW k \in Seen(fs, m + 2), k \notin DOMAIN p.writes PROVE k \in more
      <4>1. CASE \E e \in 1 .. m + 2 : k \in DOMAIN fs[e].reads
        <5>1. PICK e \in 1 .. m + 2 : k \in DOMAIN fs[e].reads
          BY <4>1
        <5>2. e \in 1 .. m \/ e = m + 1 \/ e = m + 2
          OBVIOUS
        <5>3. k \in DOMAIN c.reads => k \in Carried(p, c)
          BY <3>1 DEF Carried
        <5>. QED  BY <1>2, <1>10, <2>2, <2>3, <5>1, <5>2, <5>3 DEF Seen, Reads
      <4>2. CASE \E e \in 1 .. m + 2 : e < m + 2 /\ k \in DOMAIN fs[e].writes
        <5>1. PICK e \in 1 .. m + 2 : e < m + 2 /\ k \in DOMAIN fs[e].writes
          BY <4>2
        <5>2. e \in 1 .. m \/ e = m + 1
          BY <5>1
        <5>. QED  BY <1>2, <2>2, <3>1, <5>1, <5>2 DEF Seen
      <4>. QED  BY <4>1, <4>2 DEF Seen
    <3>. QED  BY <3>1
  <2>6. PICK seenP, seenC \in SUBSET Keys : seenP = Seen(fs, m + 1) /\ seenC = Seen(fs, m + 2)
    BY DEF Seen
  <2>7. Faithful(x, line, more, below, snap)
    BY <1>7, <1>9, <1>11, <2>4, <2>5, <2>6, FaithfulMerge
  <2>. QED  BY <2>1, <2>7
<1>18. View(gs, m, snap) = below
  <2>1. SameWrites(gs, fs, m)
    BY <1>15 DEF SameWrites
  <2>. QED  BY <1>5, <2>1, ViewSame
<1>19. ASSUME NEW d \in 1 .. m + 1
       PROVE  Faithful(gs[d], told[d], Seen(gs, d), View(gs, d - 1, snap), snap)
  <2>1. CASE d = m + 1
    BY <1>4, <1>15, <1>16, <1>17, <1>18, <2>1
  <2>2. CASE d # m + 1
    <3>1. d \in 1 .. m /\ d \in 1 .. Len(fs)
      BY <1>1, <2>2
    <3>2. (\A e \in 1 .. d : gs[e] = fs[e]) /\ told[d] = calls[d]
      BY <1>15, <1>16, <3>1
    <3>3. Faithful(fs[d], calls[d], Seen(fs, d), View(fs, d - 1, snap), snap)
      BY <3>1 DEF StackOK, AllFaithful
    <3>. QED  BY <3>1, <3>2, <3>3, FaithfulKept
  <2>. QED  BY <2>1, <2>2
<1>20. StackOK(gs, told, snap)
  BY <1>15, <1>16, <1>19 DEF StackOK, AllFaithful
<1>. QED  BY <1>2, <1>3, <1>8, <1>9, <1>11, <1>12, <1>14, <1>15, <1>20

\* The calls of all frames, made again, are told what they were told.
LEMMA ReplayAllIs ==
  ASSUME StackOK(frames, log, snapshot), snapshot \in [Keys -> Stored]
  PROVE  ReplayAll.wrong = {}
<1>. DEFINE E(f) == [d \in 0 .. Len(log) |->
                       IF d = 0 THEN Start(snapshot) ELSE Replay(log[d], f[d - 1])]
            To(d, f) == /\ f[0] = Start(snapshot)
                        /\ \A i \in 1 .. d : f[i] = Replay(log[i], f[i - 1])
            P(d) == \E f \in [0 .. d -> Accs] : To(d, f)
            S == {d \in Nat : d <= Len(log) => P(d)}
<1>0. PICK n \in Nat : n = Len(log) /\ n = Len(frames)
  BY DEF StackOK
<1>00. (\A i \in 1 .. n : log[i] \in Seq(CallRecord)) /\ frames \in Seq(Frame)
  BY <1>0 DEF StackOK
<1>1. 0 \in S
  <2>1. PICK f : f = [i \in 0 .. 0 |-> Start(snapshot)]
    OBVIOUS
  <2>2. f \in [0 .. 0 -> Accs] /\ f[0] = Start(snapshot) /\ 1 .. 0 = {}
    BY <2>1, StartTyped
  <2>3. P(0)
    BY <2>2
  <2>. HIDE DEF P
  <2>. QED  BY <2>3
<1>2. ASSUME NEW d \in S PROVE d + 1 \in S
  <2>. SUFFICES ASSUME d + 1 <= n PROVE P(d + 1)
    <3>. HIDE DEF P
    <3>. QED  BY <1>0
  <2>1. d \in Nat /\ P(d)
    <3>. HIDE DEF P
    <3>. QED  BY <1>0
  <2>2. PICK f \in [0 .. d -> Accs] : To(d, f)
    BY <2>1
  <2>3. PICK x \in Accs : x = Replay(log[d + 1], f[d])
    <3>1. f[d] \in Accs /\ log[d + 1] \in Seq(CallRecord)
      BY <1>00, <2>1
    <3>. QED  BY <3>1, ReplayTyped
  <2>4. PICK h : h = [i \in 0 .. d + 1 |-> IF i = d + 1 THEN x ELSE f[i]]
    OBVIOUS
  <2>5. h \in [0 .. d + 1 -> Accs] /\ h[0] = Start(snapshot)
    BY <2>1, <2>2, <2>4
  <2>6. ASSUME NEW i \in 1 .. d + 1 PROVE h[i] = Replay(log[i], h[i - 1])
    <3>1. CASE i = d + 1
      <4>1. h[i] = x /\ h[i - 1] = f[d]
        BY <2>1, <2>4, <3>1
      <4>. QED  BY <2>3, <3>1, <4>1
    <3>2. CASE i # d + 1
      <4>1. i \in 1 .. d /\ h[i] = f[i] /\ h[i - 1] = f[i - 1]
        BY <2>1, <2>4, <3>2
      <4>. QED  BY <2>2, <4>1
    <3>. QED  BY <3>1, <3>2
  <2>. QED  BY <2>5, <2>6
<1>3. P(n)
  <2>1. S = Nat
    <3>1. S \in SUBSET Nat
      OBVIOUS
    <3>. HIDE DEF S
    <3>. QED  BY <1>1, <1>2, <3>1, Induction
  <2>. HIDE DEF P
  <2>. QED  BY <1>0, <2>1
<1>4. \E f : f = E(f)
  <2>1. PICK f \in [0 .. n -> Accs] : To(n, f)
    BY <1>3
  <2>2. ASSUME NEW d \in 0 .. n
        PROVE  f[d] = IF d = 0 THEN Start(snapshot) ELSE Replay(log[d], f[d - 1])
    BY <2>1
  <2>3. f = E(f)
    BY <1>0, <2>2
  <2>. QED  BY <2>3
<1>5. PICK h : h = CHOOSE f : f = E(f)
  OBVIOUS
<1>6. h = E(h)
  BY <1>4, <1>5
<1>7. ReplayAll = h[n]
  BY <1>0, <1>5 DEF ReplayAll
<1>. DEFINE Right(d) == h[d] \in Accs /\ h[d].rows = View(frames, d, snapshot) /\ h[d].wrong = {}
            R == {d \in Nat : d <= n => Right(d)}
<1>8. 0 \in R
  <2>1. h[0] = Start(snapshot)
    BY <1>0, <1>6
  <2>2. View(frames, 0, snapshot) = snapshot
    <3>1. \A k \in Keys : Writers(frames, 0, k) = {}
      BY DEF Writers
    <3>. QED  BY <3>1 DEF View
  <2>3. Right(0)
    BY <2>1, <2>2, StartTyped DEF Start
  <2>. HIDE DEF Right
  <2>. QED  BY <2>3
<1>9. ASSUME NEW d \in R PROVE d + 1 \in R
  <2>. SUFFICES ASSUME d + 1 <= n PROVE Right(d + 1)
    <3>. HIDE DEF Right
    <3>. QED  OBVIOUS
  <2>1. d \in Nat /\ Right(d)
    <3>. HIDE DEF Right
    <3>. QED  BY <1>0
  <2>2. PICK m \in 1 .. n : m = d + 1
    BY <1>0, <2>1
  <2>3. m - 1 = d /\ d \in 0 .. Len(frames) /\ m \in 1 .. Len(frames)
    BY <1>0, <2>1, <2>2
  <2>4. h[m] = Replay(log[m], h[d])
    <3>1. m \in 0 .. Len(log) /\ m # 0
      BY <1>0, <2>2
    <3>2. h[m] = IF m = 0 THEN Start(snapshot) ELSE Replay(log[m], h[m - 1])
      BY <1>6, <3>1, Zenon
    <3>. QED  BY <2>3, <3>1, <3>2
  <2>5. PICK acc \in Accs, calls \in Seq(CallRecord) : acc = h[d] /\ calls = log[m]
    BY <1>00, <2>1
  <2>6. PICK below \in [Keys -> Stored] : below = View(frames, d, snapshot)
    BY <1>00, <2>3, ViewTyped
  <2>7. Faithful(frames[m], calls, Seen(frames, m), below, snapshot)
    BY <2>3, <2>5, <2>6 DEF StackOK, AllFaithful
  <2>8. View(frames, m, snapshot) = Over(frames[m].writes, below)
    BY <1>00, <2>3, <2>6, ViewStep
  <2>9. /\ Replay(calls, acc).rows = Replay(calls, Start(acc.rows)).rows
        /\ Replay(calls, acc).wrong = acc.wrong \cup Replay(calls, Start(acc.rows)).wrong
        /\ Replay(calls, acc) \in Accs
    BY ReplayFresh, ReplayTyped
  <2>10. acc.rows = below /\ acc.wrong = {}
    BY <2>1, <2>5, <2>6
  <2>11. Replay(calls, Start(below)).rows = Over(frames[m].writes, below)
         /\ Replay(calls, Start(below)).wrong = {}
    BY <2>7 DEF Faithful
  <2>12. h[m] = Replay(calls, acc)
    BY <2>4, <2>5
  <2>. QED  BY <2>2, <2>8, <2>9, <2>10, <2>11, <2>12
<1>10. Right(n)
  <2>1. R = Nat
    <3>1. R \in SUBSET Nat
      OBVIOUS
    <3>. HIDE DEF R
    <3>. QED  BY <1>8, <1>9, <3>1, Induction
  <2>. HIDE DEF Right
  <2>. QED  BY <1>0, <2>1
<1>. QED  BY <1>7, <1>10

---------------------------------------------------------------------------
(* The inductive invariant                                                 *)

\* While an attempt lasts, its frames are faithful to what its function did.
FramesFaithful ==
  pc \in {"atomic", "commit", "publish"} => AllFaithful(frames, log, snapshot)

\* What was sent, and what is still to be sent, in each phase.
SendPhases ==
  /\ pc # "publish" => toPublish = << >>
  /\ pc \in {"begin", "atomic", "commit"} => commits = 0 /\ sent = << >>
  /\ pc = "publish" => /\ commits = 1 /\ Len(log) = 1
                       /\ sent \o toPublish = IntentsOf(log[1])

IInv == TypeOK /\ FramesFaithful /\ SendPhases /\ IntentsInOrder /\ RetriesSpent

LEMMA PrefixOfWhole ==
  ASSUME NEW s \in Seq(Intents), NEW t \in Seq(Intents)
  PROVE  IsPrefix(s, s \o t)
<1>1. PICK w \in Seq(Intents) : w = s \o t
  BY ConcatProperties
<1>2. Len(w) = Len(s) + Len(t) /\ \A i \in 1 .. Len(s) : w[i] = s[i]
  BY <1>1
<1>3. Len(s) \in Nat /\ Len(t) \in Nat /\ Len(s) <= Len(w)
  BY <1>2
<1>4. SubSeq(s, 1, Len(s)) = SubSeq(w, 1, Len(s))
  <2>1. PICK n \in Nat : n = Len(s)
    BY <1>3
  <2>2. PICK a : a = SubSeq(s, 1, n)
    OBVIOUS
  <2>3. PICK b : b = SubSeq(w, 1, n)
    OBVIOUS
  <2>4. a \in Seq(Intents) /\ Len(a) = n /\ \A i \in 1 .. n : a[i] = s[i]
    BY <2>1, <2>2
  <2>5. b \in Seq(Intents) /\ Len(b) = n /\ \A i \in 1 .. n : b[i] = w[i]
    BY <1>2, <1>3, <2>1, <2>3
  <2>6. \A i \in 1 .. Len(a) : a[i] = b[i]
    BY <1>2, <2>1, <2>4, <2>5
  <2>7. a = b
    BY <2>4, <2>5, <2>6, SeqEqual
  <2>. QED  BY <2>1, <2>2, <2>3, <2>7
<1>. QED  BY <1>1, <1>3, <1>4 DEF IsPrefix

LEMMA InitIInv == Init => IInv
<1>. SUFFICES ASSUME Init PROVE IInv
  OBVIOUS
<1>1. TypeOK
  <2>1. frames \in Seq(Frame) /\ Len(frames) = 0
    BY DEF Init
  <2>2. log \in Seq(Seq(CallRecord))
    BY DEF Init
  <2>3. toPublish \in Seq(Intents) /\ sent \in Seq(Intents)
    BY DEF Init
  <2>4. attemptNo \in 0 .. MaxRetries /\ commits \in Nat
    BY RetriesAssumption DEF Init
  <2>5. Len(frames) <= MaxDepth
    BY <2>1, BoundsAssumption
  <2>6. store \in [Keys -> Stored] /\ snapshot \in [Keys -> Stored]
        /\ pc = "idle" /\ rc \in Errors \cup {"OK"}
    BY DEF Init
  <2>. QED  BY <2>1, <2>2, <2>3, <2>4, <2>5, <2>6 DEF TypeOK
<1>2. FramesFaithful /\ SendPhases
  BY DEF Init, FramesFaithful, SendPhases
<1>3. IntentsInOrder
  BY DEF Init, IntentsInOrder
<1>4. RetriesSpent
  BY DEF Init, RetriesSpent, Retryable
<1>. QED  BY <1>1, <1>2, <1>3, <1>4 DEF IInv

\* Nothing but the committed rows and the result changes what a phase promises.
LEMMA SameIInv ==
  ASSUME IInv, UNCHANGED <<pc, rc, attemptNo, attempt, toPublish, history>>,
         store' \in [Keys -> Stored]
  PROVE  IInv'
<1>1. /\ pc' = pc /\ rc' = rc /\ attemptNo' = attemptNo /\ snapshot' = snapshot
      /\ frames' = frames /\ log' = log /\ toPublish' = toPublish /\ sent' = sent
      /\ commits' = commits
  BY DEF attempt, history
<1>2. TypeOK'
  BY <1>1 DEF IInv, TypeOK
<1>3. FramesFaithful' /\ SendPhases'
  BY <1>1 DEF IInv, FramesFaithful, SendPhases, IntentsOf
<1>4. IntentsInOrder' /\ RetriesSpent'
  BY <1>1 DEF IInv, IntentsInOrder, RetriesSpent, IntentsOf
<1>. QED  BY <1>2, <1>3, <1>4 DEF IInv

LEMMA CallIInv == IInv /\ Call => IInv'
<1>. SUFFICES ASSUME IInv, Call PROVE IInv'
  OBVIOUS
<1>1. /\ pc' = "begin" /\ attemptNo' = 0 /\ sent' = << >> /\ commits' = 0 /\ store' = store
      /\ rc' = rc /\ snapshot' = snapshot /\ frames' = frames /\ log' = log
      /\ toPublish' = toPublish /\ pc = "idle"
  BY DEF Call, attempt
<1>2. TypeOK'
  <2>1. 0 \in 0 .. MaxRetries /\ << >> \in Seq(Intents)
    BY RetriesAssumption
  <2>. QED  BY <1>1, <2>1 DEF IInv, TypeOK
<1>3. FramesFaithful' /\ SendPhases'
  BY <1>1 DEF IInv, FramesFaithful, SendPhases
<1>4. IntentsInOrder' /\ RetriesSpent'
  BY <1>1 DEF IntentsInOrder, RetriesSpent
<1>. QED  BY <1>2, <1>3, <1>4 DEF IInv

LEMMA BeginIInv == IInv /\ Begin => IInv'
<1>. SUFFICES ASSUME IInv, Begin PROVE IInv'
  OBVIOUS
<1>1. /\ pc = "begin" /\ pc' = "atomic" /\ snapshot' = store /\ frames' = <<EmptyFrame>>
      /\ log' = << << >> >> /\ store' = store /\ rc' = rc /\ attemptNo' = attemptNo
      /\ toPublish' = toPublish /\ sent' = sent /\ commits' = commits
  BY DEF Begin, history
<1>2. /\ frames' \in Seq(Frame) /\ Len(frames') = 1 /\ frames'[1] = EmptyFrame
      /\ log' \in Seq(Seq(CallRecord)) /\ Len(log') = 1 /\ log'[1] = << >>
  BY <1>1, EmptyFrameTyped
<1>3. TypeOK'
  <2>1. Len(frames') <= MaxDepth
    BY <1>2, BoundsAssumption
  <2>. QED  BY <1>1, <1>2, <2>1 DEF IInv, TypeOK
<1>4. FramesFaithful'
  <2>1. ASSUME NEW d \in 1 .. Len(frames')
        PROVE  Faithful(frames'[d], log'[d], Seen(frames', d), View(frames', d - 1, snapshot'), snapshot')
    <3>1. frames'[d] = EmptyFrame /\ log'[d] = << >>
      BY <1>2
    <3>. QED  BY <3>1, FaithfulEmpty
  <2>. QED  BY <2>1 DEF FramesFaithful, AllFaithful
<1>5. SendPhases'
  BY <1>1 DEF IInv, SendPhases
<1>6. IntentsInOrder' /\ RetriesSpent'
  BY <1>1 DEF IInv, SendPhases, IntentsInOrder, RetriesSpent
<1>. QED  BY <1>3, <1>4, <1>5, <1>6 DEF IInv

\* An attempt that fails before the commit.
LEMMA FailedIInv ==
  ASSUME IInv, NEW e \in Errors, Failed(e), pc \in {"begin", "atomic", "commit"}
  PROVE  IInv'
<1>1. /\ store' = store /\ snapshot' = snapshot /\ log' = log /\ toPublish' = toPublish
      /\ sent' = sent /\ commits' = commits
  BY DEF Failed, history
<1>2. toPublish = << >> /\ commits = 0 /\ sent = << >>
  BY DEF IInv, SendPhases
<1>3. CASE e \in Retryable /\ attemptNo < MaxRetries
  <2>1. pc' = "begin" /\ attemptNo' = attemptNo + 1 /\ rc' = rc /\ frames' = frames
    BY <1>3 DEF Failed
  <2>2. attemptNo' \in 0 .. MaxRetries
    BY <1>3, <2>1, RetriesAssumption DEF IInv, TypeOK
  <2>3. TypeOK'
    BY <1>1, <2>1, <2>2 DEF IInv, TypeOK
  <2>4. FramesFaithful' /\ SendPhases'
    BY <1>1, <1>2, <2>1 DEF FramesFaithful, SendPhases
  <2>5. IntentsInOrder' /\ RetriesSpent'
    BY <1>1, <1>2, <2>1 DEF IntentsInOrder, RetriesSpent
  <2>. QED  BY <2>3, <2>4, <2>5 DEF IInv
<1>4. CASE ~(e \in Retryable /\ attemptNo < MaxRetries)
  <2>1. pc' = "idle" /\ attemptNo' = attemptNo /\ rc' = e /\ frames' = << >>
    BY <1>4 DEF Failed, Return
  <2>2. << >> \in Seq(Frame) /\ Len(<< >>) = 0
    OBVIOUS
  <2>3. Len(frames') <= MaxDepth
    BY <2>1, <2>2, BoundsAssumption
  <2>4. TypeOK'
    BY <1>1, <2>1, <2>2, <2>3 DEF IInv, TypeOK
  <2>5. FramesFaithful' /\ SendPhases'
    BY <1>1, <1>2, <2>1 DEF FramesFaithful, SendPhases
  <2>6. IntentsInOrder'
    BY <1>1, <1>2, <2>1 DEF IntentsInOrder, Errors, Retryable
  <2>7. RetriesSpent'
    <3>1. e \in Retryable => attemptNo = MaxRetries
      BY <1>4, RetriesAssumption DEF IInv, TypeOK
    <3>. QED  BY <2>1, <3>1 DEF RetriesSpent
  <2>. QED  BY <2>4, <2>5, <2>6, <2>7 DEF IInv
<1>. QED  BY <1>3, <1>4

---------------------------------------------------------------------------
(* The calls of the function                                               *)

LEMMA StackHolds ==
  ASSUME IInv, pc \in {"atomic", "commit", "publish"}
  PROVE  StackOK(frames, log, snapshot) /\ snapshot \in [Keys -> Stored]
BY DEF IInv, TypeOK, FramesFaithful, StackOK

LEMMA FunctionIInv ==
  ASSUME IInv, InFunction, StackOK(frames', log', snapshot), Len(frames') <= MaxDepth
  PROVE  IInv'
<1>1. /\ pc = "atomic" /\ pc' = "atomic" /\ store' = store /\ rc' = rc /\ attemptNo' = attemptNo
      /\ snapshot' = snapshot /\ toPublish' = toPublish /\ sent' = sent /\ commits' = commits
  BY DEF InFunction, history
<1>2. /\ frames' \in Seq(Frame) /\ log' \in Seq(Seq(CallRecord)) /\ Len(log') = Len(frames')
      /\ AllFaithful(frames', log', snapshot)
  BY DEF StackOK
<1>3. TypeOK'
  BY <1>1, <1>2 DEF IInv, TypeOK
<1>4. FramesFaithful'
  BY <1>1, <1>2 DEF FramesFaithful
<1>5. SendPhases'
  BY <1>1 DEF IInv, SendPhases
<1>6. IntentsInOrder' /\ RetriesSpent'
  BY <1>1 DEF IInv, SendPhases, IntentsInOrder, RetriesSpent
<1>. QED  BY <1>3, <1>4, <1>5, <1>6 DEF IInv

\* What a read answers is what is seen above the top frame.
LEMMA StackReadIs ==
  ASSUME StackOK(frames, log, snapshot), snapshot \in [Keys -> Stored], NEW k \in Keys, Top > 0
  PROVE  StackRead(k) = View(frames, Top, snapshot)[k]
<1>1. PICK n \in Nat : n = Top /\ n = Len(frames) /\ DOMAIN frames = 1 .. n
  BY DEF StackOK, Top
<1>2. PICK w : w = WritingFrames(k)
  OBVIOUS
<1>3. w = Writers(frames, Top, k)
  BY <1>1, <1>2 DEF WritingFrames, Writers
<1>4. CASE w # {}
  BY <1>2, <1>3, <1>4 DEF StackRead, View
<1>5. CASE w = {} /\ ReadingFrames(k) = {}
  BY <1>2, <1>3, <1>5 DEF StackRead, View
<1>6. CASE w = {} /\ ReadingFrames(k) # {}
  <2>1. PICK rs : rs = ReadingFrames(k)
    OBVIOUS
  <2>2. rs \in SUBSET (1 .. n) /\ rs # {}
    BY <1>1, <1>6, <2>1 DEF ReadingFrames
  <2>3. PICK d : d = Uppermost(rs)
    OBVIOUS
  <2>4. d \in rs
    BY <2>2, <2>3, UppermostIs
  <2>5. d \in 1 .. n /\ k \in DOMAIN frames[d].reads
    BY <2>1, <2>2, <2>4 DEF ReadingFrames
  <2>6. frames[d].reads[k] = snapshot[k]
    BY <1>1, <2>5 DEF StackOK, AllFaithful, Faithful
  <2>7. StackRead(k) = frames[d].reads[k]
    BY <1>2, <1>6, <2>1, <2>3 DEF StackRead
  <2>8. View(frames, Top, snapshot)[k] = snapshot[k]
    BY <1>3, <1>6 DEF View
  <2>. QED  BY <2>6, <2>7, <2>8
<1>. QED  BY <1>4, <1>5, <1>6

LEMMA ReadRowIInv ==
  ASSUME IInv, NEW k \in Keys, ReadRow(k)
  PROVE  IInv'
<1>1. InFunction /\ Top > 0 /\ pc = "atomic"
  BY DEF ReadRow, InFrame, InFunction
<1>2. StackOK(frames, log, snapshot) /\ snapshot \in [Keys -> Stored]
  BY <1>1, StackHolds
<1>3. PICK n \in Nat : n = Top /\ n = Len(frames) /\ n = Len(log) /\ DOMAIN frames = 1 .. n /\ n > 0
  BY <1>1, <1>2 DEF StackOK, Top
<1>4. PICK v : v = View(frames, n, snapshot)[k]
  OBVIOUS
<1>5. log' = [log EXCEPT ![n] = Append(@, [call |-> "read", key |-> k, val |-> v])]
  <2>1. StackRead(k) = v
    BY <1>1, <1>2, <1>3, <1>4, StackReadIs
  <2>. QED  BY <1>3, <2>1 DEF ReadRow, Noted
<1>6. CASE WritingFrames(k) \cup ReadingFrames(k) # {}
  <2>1. frames' = frames
    BY <1>6 DEF ReadRow, Recorded
  <2>2. PICK e \in 1 .. n : k \in DOMAIN frames[e].writes \cup DOMAIN frames[e].reads
    BY <1>3, <1>6 DEF WritingFrames, ReadingFrames
  <2>3. PICK told : told = log'
    OBVIOUS
  <2>4. StackOK(frames, told, snapshot)
    BY <1>2, <1>3, <1>4, <1>5, <2>2, <2>3, RereadKeeps
  <2>5. StackOK(frames', log', snapshot)
    BY <2>1, <2>3, <2>4
  <2>6. Len(frames') <= MaxDepth
    BY <2>1 DEF IInv, TypeOK
  <2>. QED  BY <1>1, <2>5, <2>6, FunctionIInv
<1>7. CASE WritingFrames(k) \cup ReadingFrames(k) = {}
  <2>1. frames' = [frames EXCEPT ![n].reads = Put(@, k, snapshot[k])]
    BY <1>3, <1>7 DEF ReadRow, Recorded
  <2>2. \A e \in 1 .. n : k \notin DOMAIN frames[e].writes \cup DOMAIN frames[e].reads
    BY <1>3, <1>7 DEF WritingFrames, ReadingFrames
  <2>3. v = snapshot[k]
    <3>1. Writers(frames, n, k) = {}
      BY <2>2 DEF Writers
    <3>. QED  BY <1>4, <3>1 DEF View
  <2>4. PICK told, gs : told = log' /\ gs = frames'
    OBVIOUS
  <2>5. StackOK(gs, told, snapshot)
    BY <1>2, <1>3, <1>5, <2>1, <2>2, <2>3, <2>4, ReadKeeps
  <2>6. Len(frames') <= MaxDepth
    <3>1. Len(frames') = Len(frames)
      BY <2>1
    <3>. QED  BY <3>1 DEF IInv, TypeOK
  <2>. QED  BY <1>1, <2>4, <2>5, <2>6, FunctionIInv
<1>. QED  BY <1>6, <1>7

LEMMA StageIInv ==
  ASSUME IInv, NEW k \in Keys, NEW v \in Stored, Stage(k, v)
  PROVE  IInv'
<1>1. InFunction /\ Top > 0 /\ pc = "atomic"
  BY DEF Stage, InFrame, InFunction
<1>2. StackOK(frames, log, snapshot) /\ snapshot \in [Keys -> Stored]
  BY <1>1, StackHolds
<1>3. PICK n \in Nat : n = Top /\ n = Len(frames) /\ n = Len(log) /\ n > 0
  BY <1>1, <1>2 DEF StackOK, Top
<1>4. log' = [log EXCEPT ![n] = Append(@, [call |-> "write", key |-> k, val |-> v])]
  BY <1>3 DEF Stage, Noted
<1>5. frames' = [frames EXCEPT ![n].writes = Put(@, k, v)]
  BY <1>3 DEF Stage
<1>6. PICK told, gs : told = log' /\ gs = frames'
  OBVIOUS
<1>7. StackOK(gs, told, snapshot)
  BY <1>2, <1>3, <1>4, <1>5, <1>6, WriteKeeps
<1>8. Len(frames') <= MaxDepth
  <2>1. Len(frames') = Len(frames)
    BY <1>5
  <2>. QED  BY <2>1 DEF IInv, TypeOK
<1>. QED  BY <1>1, <1>6, <1>7, <1>8, FunctionIInv

LEMMA PushIntentIInv ==
  ASSUME IInv, NEW i \in Intents, PushIntent(i)
  PROVE  IInv'
<1>1. InFunction /\ Top > 0 /\ pc = "atomic"
  BY DEF PushIntent, InFrame, InFunction
<1>2. StackOK(frames, log, snapshot) /\ snapshot \in [Keys -> Stored]
  BY <1>1, StackHolds
<1>3. PICK n \in Nat : n = Top /\ n = Len(frames) /\ n = Len(log) /\ n > 0
  BY <1>1, <1>2 DEF StackOK, Top
<1>4. log' = [log EXCEPT ![n] = Append(@, [call |-> "intent", intent |-> i])]
  BY <1>3 DEF PushIntent, Noted
<1>5. frames' = [frames EXCEPT ![n].intents = Append(@, i)]
  BY <1>3 DEF PushIntent
<1>6. PICK told, gs : told = log' /\ gs = frames'
  OBVIOUS
<1>7. StackOK(gs, told, snapshot)
  BY <1>2, <1>3, <1>4, <1>5, <1>6, IntentKeeps
<1>8. Len(frames') <= MaxDepth
  <2>1. Len(frames') = Len(frames)
    BY <1>5
  <2>. QED  BY <2>1 DEF IInv, TypeOK
<1>. QED  BY <1>1, <1>6, <1>7, <1>8, FunctionIInv

LEMMA PushIInv == IInv /\ Push => IInv'
<1>. SUFFICES ASSUME IInv, Push PROVE IInv'
  OBVIOUS
<1>1. InFunction /\ Top < MaxDepth /\ pc = "atomic"
  BY DEF Push, InFunction
<1>2. StackOK(frames, log, snapshot) /\ snapshot \in [Keys -> Stored]
  BY <1>1, StackHolds
<1>3. frames' = Append(frames, EmptyFrame) /\ log' = Append(log, << >>)
  BY DEF Push
<1>4. PICK told, gs : told = log' /\ gs = frames'
  OBVIOUS
<1>5. StackOK(gs, told, snapshot)
  BY <1>2, <1>3, <1>4, PushKeeps
<1>6. Len(frames') <= MaxDepth
  <2>1. Len(frames') = Len(frames) + 1 /\ Len(frames) \in Nat
    BY <1>2, <1>3, EmptyFrameTyped DEF StackOK
  <2>. QED  BY <1>1, <2>1, BoundsAssumption DEF Top
<1>. QED  BY <1>1, <1>4, <1>5, <1>6, FunctionIInv

LEMMA AbortTopIInv == IInv /\ AbortTop => IInv'
<1>. SUFFICES ASSUME IInv, AbortTop PROVE IInv'
  OBVIOUS
<1>1. InFunction /\ Top >= 1 /\ pc = "atomic"
  BY DEF AbortTop, InFunction
<1>2. StackOK(frames, log, snapshot) /\ snapshot \in [Keys -> Stored]
  BY <1>1, StackHolds
<1>3. PICK n \in Nat : n + 1 = Len(frames) /\ n + 1 = Len(log)
  <2>1. Len(frames) \in Nat /\ Len(log) = Len(frames) /\ Len(frames) >= 1
    BY <1>1, <1>2 DEF StackOK, Top
  <2>. QED  BY <2>1
<1>4. frames' = SubSeq(frames, 1, n) /\ log' = SubSeq(log, 1, n)
  <2>1. Len(frames) - 1 = n /\ Len(log) - 1 = n
    BY <1>3
  <2>. QED  BY <2>1 DEF AbortTop, Front
<1>5. PICK told, gs : told = log' /\ gs = frames'
  OBVIOUS
<1>6. StackOK(gs, told, snapshot) /\ Len(gs) = n
  <2>1. n <= Len(frames)
    BY <1>3
  <2>. QED  BY <1>2, <1>4, <1>5, <2>1, LowerKeep
<1>7. Len(frames') <= MaxDepth
  BY <1>3, <1>5, <1>6, BoundsAssumption DEF IInv, TypeOK
<1>. QED  BY <1>1, <1>5, <1>6, <1>7, FunctionIInv

\* The frames of one stack never clash: what they read is the snapshot's.
LEMMA CommitTopIInv == IInv /\ CommitTop => IInv'
<1>. SUFFICES ASSUME IInv, CommitTop PROVE IInv'
  OBVIOUS
<1>1. InFunction /\ Top >= 2 /\ pc = "atomic"
  BY DEF CommitTop, InFunction
<1>2. StackOK(frames, log, snapshot) /\ snapshot \in [Keys -> Stored]
  BY <1>1, StackHolds
<1>3. PICK m \in Nat : Len(frames) = m + 2 /\ Top = m + 2 /\ Top - 1 = m + 1 /\ Top - 2 = m
  <2>1. Len(frames) \in Nat /\ Top = Len(frames)
    BY <1>2 DEF StackOK, Top
  <2>. QED  BY <1>1, <2>1
<1>4. PICK gs, told : /\ gs = Append(SubSeq(frames, 1, m), Merged(frames[m + 1], frames[m + 2]))
                      /\ told = Append(SubSeq(log, 1, m), log[m + 1] \o log[m + 2])
  OBVIOUS
<1>5. ~MergeClash(frames[m + 1], frames[m + 2]) /\ StackOK(gs, told, snapshot) /\ Len(gs) = m + 1
  BY <1>2, <1>3, <1>4, MergeKeeps
<1>6. frames' = gs /\ log' = told
  BY <1>3, <1>4, <1>5 DEF CommitTop
<1>7. Len(frames') <= MaxDepth
  BY <1>3, <1>5, <1>6, BoundsAssumption DEF IInv, TypeOK
<1>. QED  BY <1>1, <1>5, <1>6, <1>7, FunctionIInv

---------------------------------------------------------------------------
(* The commit and what follows it                                          *)

LEMMA FunctionReturnsIInv == IInv /\ FunctionReturns => IInv'
<1>. SUFFICES ASSUME IInv, FunctionReturns PROVE IInv'
  OBVIOUS
<1>1. /\ pc = "atomic" /\ pc' = "commit" /\ store' = store /\ rc' = rc /\ attemptNo' = attemptNo
      /\ snapshot' = snapshot /\ frames' = frames /\ log' = log /\ toPublish' = toPublish
      /\ sent' = sent /\ commits' = commits
  BY DEF FunctionReturns, attempt, history
<1>2. TypeOK'
  BY <1>1 DEF IInv, TypeOK
<1>3. FramesFaithful' /\ SendPhases'
  BY <1>1 DEF IInv, FramesFaithful, SendPhases
<1>4. IntentsInOrder' /\ RetriesSpent'
  BY <1>1 DEF IInv, SendPhases, IntentsInOrder, RetriesSpent
<1>. QED  BY <1>2, <1>3, <1>4 DEF IInv

\* What the root frame and its calls are when the commit is tried.
LEMMA RootIs ==
  ASSUME IInv, pc = "commit", Top = 1
  PROVE  /\ Len(log) = 1 /\ frames[1] \in Frame /\ log[1] \in Seq(CallRecord)
         /\ Faithful(frames[1], log[1], DOMAIN frames[1].reads, snapshot, snapshot)
<1>1. StackOK(frames, log, snapshot) /\ snapshot \in [Keys -> Stored]
  BY StackHolds
<1>2. Len(frames) = 1 /\ Len(log) = 1 /\ frames[1] \in Frame /\ log[1] \in Seq(CallRecord)
  BY <1>1 DEF StackOK, Top
<1>3. Faithful(frames[1], log[1], Seen(frames, 1), View(frames, 0, snapshot), snapshot)
  <2>1. 1 \in 1 .. Len(frames) /\ 1 - 1 = 0
    BY <1>2
  <2>. QED  BY <1>1, <2>1 DEF StackOK, AllFaithful
<1>4. View(frames, 0, snapshot) = snapshot
  <2>1. \A k \in Keys : Writers(frames, 0, k) = {}
    BY DEF Writers
  <2>. QED  BY <1>1, <2>1 DEF View
<1>5. Seen(frames, 1) = DOMAIN frames[1].reads
  <2>1. DOMAIN frames[1].reads \subseteq Keys
    BY <1>2, RowsAre DEF Frame
  <2>2. \A e \in 1 .. 1 : e = 1 /\ ~(e < 1)
    OBVIOUS
  <2>. QED  BY <2>1, <2>2 DEF Seen
<1>. QED  BY <1>2, <1>3, <1>4, <1>5

LEMMA CommitIInv == IInv /\ Commit => IInv'
<1>. SUFFICES ASSUME IInv, Commit PROVE IInv'
  OBVIOUS
<1>1. /\ pc = "commit" /\ Top = 1 /\ pc' = "publish" /\ store' = Over(frames[1].writes, store)
      /\ rc' = rc /\ attemptNo' = attemptNo /\ snapshot' = snapshot /\ frames' = frames
      /\ log' = log /\ toPublish' = frames[1].intents /\ sent' = sent /\ commits' = commits + 1
  BY DEF Commit, attempt
<1>2. commits = 0 /\ sent = << >>
  BY <1>1 DEF IInv, SendPhases
<1>3. /\ Len(log) = 1 /\ frames[1] \in Frame /\ log[1] \in Seq(CallRecord)
      /\ Faithful(frames[1], log[1], DOMAIN frames[1].reads, snapshot, snapshot)
  BY <1>1, RootIs
<1>4. store \in [Keys -> Stored] /\ snapshot \in [Keys -> Stored]
  BY DEF IInv, TypeOK
<1>5. frames[1].writes \in Rows /\ frames[1].intents \in Seq(Intents)
  BY <1>3 DEF Frame
<1>6. store' \in [Keys -> Stored]
  BY <1>1, <1>4, <1>5, OverlayAll
<1>7. TypeOK'
  BY <1>1, <1>2, <1>5, <1>6 DEF IInv, TypeOK
<1>8. FramesFaithful'
  BY <1>1 DEF IInv, FramesFaithful
<1>9. sent' \o toPublish' = IntentsOf(log[1])'
  <2>1. Replay(log[1], Start(snapshot)).intents = frames[1].intents
    BY <1>3, <1>4 DEF Faithful
  <2>2. << >> \o frames[1].intents = frames[1].intents
    BY <1>5, ConcatEmptySeq
  <2>. QED  BY <1>1, <1>2, <2>1, <2>2 DEF IntentsOf
<1>10. SendPhases'
  BY <1>1, <1>2, <1>3, <1>9 DEF SendPhases
<1>11. IntentsInOrder'
  <2>1. PICK w \in Seq(Intents) : w = sent' \o toPublish'
    BY <1>1, <1>2, <1>5, ConcatProperties
  <2>2. IsPrefix(w, w)
    BY DEF IsPrefix
  <2>. QED  BY <1>1, <1>2, <1>9, <2>1, <2>2 DEF IntentsInOrder
<1>12. RetriesSpent'
  BY <1>1 DEF RetriesSpent
<1>. QED  BY <1>7, <1>8, <1>10, <1>11, <1>12 DEF IInv

LEMMA PublishIInv == IInv /\ Publish => IInv'
<1>. SUFFICES ASSUME IInv, Publish PROVE IInv'
  OBVIOUS
<1>1. /\ pc = "publish" /\ pc' = "publish" /\ toPublish # << >> /\ store' = store
      /\ rc' = rc /\ attemptNo' = attemptNo /\ snapshot' = snapshot /\ frames' = frames
      /\ log' = log /\ sent' = Append(sent, Head(toPublish)) /\ toPublish' = Tail(toPublish)
      /\ commits' = commits
  BY DEF Publish, attempt
<1>2. /\ commits = 1 /\ Len(log) = 1 /\ sent \o toPublish = IntentsOf(log[1])
      /\ sent \in Seq(Intents) /\ toPublish \in Seq(Intents)
  BY <1>1 DEF IInv, SendPhases, TypeOK
<1>3. /\ Head(toPublish) \in Intents /\ Tail(toPublish) \in Seq(Intents)
      /\ Append(sent, Head(toPublish)) \in Seq(Intents)
  BY <1>1, <1>2
<1>4. TypeOK'
  BY <1>1, <1>3 DEF IInv, TypeOK
<1>5. sent' \o toPublish' = IntentsOf(log[1])'
  <2>1. PICK i \in Intents, rest \in Seq(Intents) : i = Head(toPublish) /\ rest = Tail(toPublish)
    BY <1>3
  <2>2. toPublish = <<i>> \o rest
    BY <1>1, <1>2, <2>1
  <2>3. Append(sent, i) = sent \o <<i>> /\ <<i>> \in Seq(Intents)
    BY <1>2, AppendIsConcat
  <2>4. (sent \o <<i>>) \o rest = sent \o (<<i>> \o rest)
    BY <1>2, <2>3, ConcatAssociative
  <2>. QED  BY <1>1, <1>2, <2>1, <2>2, <2>3, <2>4 DEF IntentsOf
<1>6. FramesFaithful'
  BY <1>1 DEF IInv, FramesFaithful
<1>7. SendPhases'
  BY <1>1, <1>2, <1>5 DEF SendPhases
<1>8. IntentsInOrder'
  <2>1. PICK w \in Seq(Intents) : w = sent' \o toPublish'
    BY <1>1, <1>3, ConcatProperties
  <2>2. IsPrefix(w, w)
    BY DEF IsPrefix
  <2>3. IsPrefix(sent' \o toPublish', IntentsOf(log[1])')
    BY <1>5, <2>1, <2>2
  <2>4. commits' = 1 /\ pc' = "publish" /\ commits' <= 1
    BY <1>1, <1>2
  <2>. QED  BY <1>5, <2>3, <2>4 DEF IntentsInOrder
<1>9. RetriesSpent'
  BY <1>1 DEF RetriesSpent
<1>. QED  BY <1>4, <1>6, <1>7, <1>8, <1>9 DEF IInv

LEMMA SinkFailsIInv ==
  ASSUME IInv, NEW e \in Errors, SinkFails(e)
  PROVE  IInv'
<1>1. /\ pc = "publish" /\ pc' = "idle" /\ rc' = e /\ frames' = << >> /\ toPublish' = << >>
      /\ store' = store /\ attemptNo' = attemptNo /\ snapshot' = snapshot /\ log' = log
      /\ sent' = sent /\ commits' = commits
  BY DEF SinkFails, Return, history
<1>2. /\ commits = 1 /\ sent \o toPublish = IntentsOf(log[1])
      /\ sent \in Seq(Intents) /\ toPublish \in Seq(Intents)
  BY <1>1 DEF IInv, SendPhases, TypeOK
<1>3. TypeOK'
  <2>1. << >> \in Seq(Frame) /\ << >> \in Seq(Intents) /\ Len(<< >>) = 0
    OBVIOUS
  <2>2. Len(frames') <= MaxDepth
    BY <1>1, <2>1, BoundsAssumption
  <2>. QED  BY <1>1, <2>1, <2>2 DEF IInv, TypeOK
<1>4. FramesFaithful' /\ SendPhases'
  BY <1>1 DEF FramesFaithful, SendPhases
<1>5. IntentsInOrder'
  <2>1. IsPrefix(sent, IntentsOf(log[1]))
    BY <1>2, PrefixOfWhole
  <2>2. sent' \o toPublish' = sent
    BY <1>1, <1>2, ConcatEmptySeq
  <2>3. IntentsOf(log[1])' = IntentsOf(log[1])
    BY <1>1 DEF IntentsOf
  <2>4. e # "OK"
    BY DEF Errors, Retryable
  <2>. QED  BY <1>1, <1>2, <2>1, <2>2, <2>3, <2>4 DEF IntentsInOrder
<1>6. RetriesSpent'
  BY <1>1, <1>2 DEF RetriesSpent
<1>. QED  BY <1>3, <1>4, <1>5, <1>6 DEF IInv

LEMMA DoneIInv == IInv /\ Done => IInv'
<1>. SUFFICES ASSUME IInv, Done PROVE IInv'
  OBVIOUS
<1>1. /\ pc = "publish" /\ pc' = "idle" /\ rc' = "OK" /\ frames' = << >> /\ toPublish = << >>
      /\ store' = store /\ attemptNo' = attemptNo /\ snapshot' = snapshot /\ log' = log
      /\ toPublish' = toPublish /\ sent' = sent /\ commits' = commits
  BY DEF Done, Return, history
<1>2. commits = 1 /\ IntentsInOrder
  BY <1>1 DEF IInv, SendPhases
<1>3. TypeOK'
  <2>1. << >> \in Seq(Frame) /\ Len(<< >>) = 0
    OBVIOUS
  <2>2. Len(frames') <= MaxDepth
    BY <1>1, <2>1, BoundsAssumption
  <2>. QED  BY <1>1, <2>1, <2>2 DEF IInv, TypeOK
<1>4. FramesFaithful' /\ SendPhases'
  BY <1>1 DEF FramesFaithful, SendPhases
<1>5. IntentsInOrder'
  <2>1. IntentsOf(log[1])' = IntentsOf(log[1])
    BY <1>1 DEF IntentsOf
  <2>. QED  BY <1>1, <1>2, <2>1 DEF IntentsInOrder
<1>6. RetriesSpent'
  BY <1>1, <1>2 DEF RetriesSpent
<1>. QED  BY <1>3, <1>4, <1>5, <1>6 DEF IInv

---------------------------------------------------------------------------
(* The theorems                                                            *)

LEMMA NextIInv == IInv /\ [Next]_vars => IInv'
<1>. SUFFICES ASSUME IInv, [Next]_vars PROVE IInv'
  OBVIOUS
<1>1. CASE Call
  BY <1>1, CallIInv
<1>2. CASE Begin
  BY <1>2, BeginIInv
<1>3. CASE BeginFails
  BY <1>3, FailedIInv DEF BeginFails, Errors
<1>4. CASE FunctionReturns
  BY <1>4, FunctionReturnsIInv
<1>5. ASSUME NEW e \in Errors, FunctionFails(e) PROVE IInv'
  BY <1>5, FailedIInv DEF FunctionFails
<1>6. CASE StoreBusy
  BY <1>6, FailedIInv DEF StoreBusy, Errors, Retryable
<1>7. CASE Unbalanced
  BY <1>7, FailedIInv DEF Unbalanced, Errors, Retryable
<1>8. CASE Conflict
  BY <1>8, FailedIInv DEF Conflict, Errors, Retryable
<1>9. CASE ApplyFails
  BY <1>9, FailedIInv DEF ApplyFails, Errors
<1>10. CASE Commit
  BY <1>10, CommitIInv
<1>11. CASE Publish
  BY <1>11, PublishIInv
<1>12. CASE Done
  BY <1>12, DoneIInv
<1>13. ASSUME NEW e \in Errors, SinkFails(e) PROVE IInv'
  BY <1>13, SinkFailsIInv
<1>14. ASSUME NEW k \in Keys, ReadRow(k) PROVE IInv'
  BY <1>14, ReadRowIInv
<1>15. ASSUME NEW k \in Keys, NEW v \in Stored, Stage(k, v) PROVE IInv'
  BY <1>15, StageIInv
<1>16. ASSUME NEW i \in Intents, PushIntent(i) PROVE IInv'
  BY <1>16, PushIntentIInv
<1>17. CASE Push
  BY <1>17, PushIInv
<1>18. CASE CommitTop
  BY <1>18, CommitTopIInv
<1>19. CASE AbortTop
  BY <1>19, AbortTopIInv
<1>20. ASSUME NEW k \in Keys, NEW v \in Stored, OtherWrite(k, v) PROVE IInv'
  <2>1. store' \in [Keys -> Stored]
    BY <1>20 DEF OtherWrite, IInv, TypeOK
  <2>2. UNCHANGED <<pc, rc, attemptNo, attempt, toPublish, history>>
    BY <1>20 DEF OtherWrite
  <2>. QED  BY <2>1, <2>2, SameIInv
<1>21. CASE UNCHANGED vars
  <2>1. store' \in [Keys -> Stored]
    BY <1>21 DEF vars, IInv, TypeOK
  <2>2. UNCHANGED <<pc, rc, attemptNo, attempt, toPublish, history>>
    BY <1>21 DEF vars
  <2>. QED  BY <2>1, <2>2, SameIInv
<1>. QED  BY <1>1, <1>2, <1>3, <1>4, <1>5, <1>6, <1>7, <1>8, <1>9, <1>10, <1>11, <1>12,
             <1>13, <1>14, <1>15, <1>16, <1>17, <1>18, <1>19, <1>20, <1>21
          DEF Next, Engine, Function

\* The invariant holds in every reachable state.
THEOREM InvariantHolds == Spec => []IInv
BY InitIInv, NextIInv, PTL DEF Spec

\* Every variable has its type (attempt_v0.c, txstack_v0.c).
THEOREM TypeCorrect == Spec => []TypeOK
<1>1. IInv => TypeOK
  BY DEF IInv
<1>. QED  BY <1>1, InvariantHolds, PTL

\* The function is told what it would be told alone on its snapshot, whatever it
\* nests, commits or aborts (sap_txn_stack read_dbi, merge).
THEOREM FunctionIsAlone == Spec => []Opaque
<1>1. IInv => Opaque
  <2>. SUFFICES ASSUME IInv, pc \in {"atomic", "commit"} PROVE ReplayAll.wrong = {}
    BY DEF Opaque
  <2>. QED  BY StackHolds, ReplayAllIs
<1>. QED  BY <1>1, InvariantHolds, PTL

\* Intents reach the sink once, in order, after the commit (attempt_v0_run).
THEOREM IntentsFollowCommits == Spec => []IntentsInOrder
<1>1. IInv => IntentsInOrder
  BY DEF IInv
<1>. QED  BY <1>1, InvariantHolds, PTL

\* A retryable result means that no retry is left, or that the sink refused
\* (attempt_v0_run).
THEOREM RetriesAreSpent == Spec => []RetriesSpent
<1>1. IInv => RetriesSpent
  BY DEF IInv
<1>. QED  BY <1>1, InvariantHolds, PTL

\* Attempts commit as if each had run at the moment of its commit
\* (validate_reads, apply_writes).
THEOREM AttemptsAreSerial == Spec => CommittedIsSerial
<1>1. IInv /\ [Next]_vars =>
        [commits' > commits => Replay(log[1], Start(store)) =
           [rows |-> store', wrong |-> {}, intents |-> toPublish']]_vars
  <2>. SUFFICES ASSUME IInv, Next, commits' > commits
                PROVE  Replay(log[1], Start(store)) =
                         [rows |-> store', wrong |-> {}, intents |-> toPublish']
    OBVIOUS
  <2>0. commits \in Nat /\ ~(commits > commits)
    BY DEF IInv, TypeOK
  <2>1. Commit
    <3>1. CASE commits' = commits
      BY <2>0, <3>1
    <3>2. CASE commits' = 0
      BY <2>0, <3>2
    <3>. QED  BY <3>1, <3>2
              DEF Next, Engine, Function, Call, Begin, BeginFails, FunctionReturns, FunctionFails,
                  StoreBusy, Unbalanced, Conflict, ApplyFails, Publish, Done, SinkFails, Failed,
                  ReadRow, Stage, PushIntent, Push, CommitTop, AbortTop, InFrame, InFunction,
                  OtherWrite, history
  <2>2. /\ pc = "commit" /\ Top = 1 /\ store' = Over(frames[1].writes, store)
        /\ toPublish' = frames[1].intents /\ StillCurrent(frames[1])
    BY <2>1 DEF Commit
  <2>3. /\ log[1] \in Seq(CallRecord) /\ frames[1] \in Frame
        /\ Faithful(frames[1], log[1], DOMAIN frames[1].reads, snapshot, snapshot)
    BY <2>2, RootIs
  <2>4. store \in [Keys -> Stored]
    BY DEF IInv, TypeOK
  <2>5. \A k \in DOMAIN frames[1].reads : store[k] = snapshot[k]
    BY <2>2, <2>3 DEF StillCurrent, Faithful
  <2>6. PICK acc \in Accs : acc = Replay(log[1], Start(store))
    BY <2>3, <2>4, StartTyped, ReplayTyped
  <2>7. acc.rows = store' /\ acc.wrong = {} /\ acc.intents = toPublish'
    BY <2>2, <2>3, <2>4, <2>5, <2>6 DEF Faithful
  <2>8. acc = [rows |-> acc.rows, wrong |-> acc.wrong, intents |-> acc.intents]
    BY DEF Accs
  <2>. QED  BY <2>6, <2>7, <2>8
<1>. QED  BY <1>1, InvariantHolds, PTL DEF Spec, CommittedIsSerial

\* A conflict is never reported for an attempt that could have been committed
\* (validate_reads).
THEOREM ConflictsAreReal == Spec => ConflictIsReal
<1>1. IInv /\ [Next]_vars =>
        [pc = "commit" /\ Conflict => Replay(log[1], Start(store)).wrong # {}]_vars
  <2>. SUFFICES ASSUME IInv, pc = "commit", Conflict
                PROVE  Replay(log[1], Start(store)).wrong # {}
    OBVIOUS
  <2>1. Top = 1 /\ ~StillCurrent(frames[1])
    BY DEF Conflict
  <2>2. /\ log[1] \in Seq(CallRecord) /\ frames[1] \in Frame
        /\ Faithful(frames[1], log[1], DOMAIN frames[1].reads, snapshot, snapshot)
    BY <2>1, RootIs
  <2>3. store \in [Keys -> Stored]
    BY DEF IInv, TypeOK
  <2>. QED  BY <2>1, <2>2, <2>3 DEF StillCurrent, Faithful
<1>. QED  BY <1>1, InvariantHolds, PTL DEF Spec, ConflictIsReal

=============================================================================

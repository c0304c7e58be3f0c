----------------------------- MODULE TextProofs -----------------------------
(* Proofs about Texts, for any number of texts, any elements and any depth of *)
(* nested transactions, and about what is built of texts: the handles a guest *)
(* holds them by (TextRuntime), a document with its history (Document) and    *)
(* what is remembered of its lines (LineCache), the table of literals that    *)
(* handles stand for (Literals) and the trees that threads share (Trees).     *)
EXTENDS Texts, FiniteSetTheorems, SequenceTheorems, WellFoundedInduction, TLAPS

---------------------------------------------------------------------------
(* Texts                                                                   *)

\* Callers hold finitely many texts.
Countable == IsFiniteSet(Names)

\* Functions from some of the ids into S.
Maps(S) == UNION {[D -> S] : D \in SUBSET Ids}

Share == [items : Seq(Elems), refs : Nat \ {0}, born : Nat]
Level == [shadow : Maps(Seq(Elems)), own : [Names -> Seq(Elems)]]

Users(tx, id) == {t \in Names : tx[t] = id}

\* v is what share id holds once the levels from n on are aborted.
Restores(sh, lv, n, id, v) ==
  /\ (\A k \in n .. Len(lv) : id \notin DOMAIN lv[k].shadow) => v = sh[id].items
  /\ \A m \in n .. Len(lv) :
       id \in DOMAIN lv[m].shadow /\ (\A k \in n .. m - 1 : id \notin DOMAIN lv[k].shadow)
         => v = lv[m].shadow[id]

\* Texts tx, their shares and the open transactions, and what the texts should hold.
TextTyped(tx, sh, lv, ow) ==
  /\ tx \in [Names -> Nat] /\ sh \in Maps(Share)
  /\ lv \in Seq(Level) /\ ow \in [Names -> Seq(Elems)]

Holding(tx, sh, ow) ==
  \A t \in Names : tx[t] # None => tx[t] \in DOMAIN sh /\ sh[tx[t]].items = ow[t]

Referred(tx, sh) == \A id \in DOMAIN sh : sh[id].refs = Cardinality(Users(tx, id))

\* A text that had its share when level n began gets back what it held then.
GivesBack(tx, sh, lv) ==
  \A n \in 1 .. Len(lv), t \in Names :
    tx[t] # None /\ sh[tx[t]].born < n => Restores(sh, lv, n, tx[t], lv[n].own[t])

Good(tx, sh, lv, ow) == /\ TextTyped(tx, sh, lv, ow) /\ Holding(tx, sh, ow)
                        /\ Referred(tx, sh) /\ GivesBack(tx, sh, lv)

TextInv == Good(texts, shares, levels, own)

LEMMA MapIs ==
  ASSUME NEW S, NEW f
  PROVE  f \in Maps(S) <=> /\ f = [i \in DOMAIN f |-> f[i]] /\ DOMAIN f \subseteq Ids
                           /\ \A i \in DOMAIN f : f[i] \in S
<1>1. ASSUME f \in Maps(S)
      PROVE  /\ f = [i \in DOMAIN f |-> f[i]] /\ DOMAIN f \subseteq Ids
             /\ \A i \in DOMAIN f : f[i] \in S
  <2>1. PICK D \in SUBSET Ids : f \in [D -> S]
    BY <1>1 DEF Maps
  <2>. QED  BY <2>1
<1>2. ASSUME f = [i \in DOMAIN f |-> f[i]], DOMAIN f \subseteq Ids,
             \A i \in DOMAIN f : f[i] \in S
      PROVE  f \in Maps(S)
  <2>1. f \in [DOMAIN f -> S]
    BY <1>2
  <2>. QED  BY <1>2, <2>1 DEF Maps
<1>. QED  BY <1>1, <1>2

\* How one text's move from a share to another changes the users of all shares.
LEMMA UsersMoved ==
  ASSUME Countable, NEW tx \in [Names -> Nat], NEW t \in Names, NEW y \in Nat, NEW id
  PROVE  LET new == [tx EXCEPT ![t] = y] IN
         /\ Cardinality(Users(tx, id)) \in Nat
         /\ id # tx[t] /\ id # y => Users(new, id) = Users(tx, id)
         /\ id = tx[t] /\ id # y
              => Cardinality(Users(new, id)) = Cardinality(Users(tx, id)) - 1
         /\ id # tx[t] /\ id = y
              => Cardinality(Users(new, id)) = Cardinality(Users(tx, id)) + 1
<1>. DEFINE new == [tx EXCEPT ![t] = y]
<1>1. IsFiniteSet(Users(tx, id))
  BY FS_Subset DEF Users, Countable
<1>2. ASSUME id # tx[t], id # y PROVE Users(new, id) = Users(tx, id)
  BY <1>2 DEF Users
<1>3. ASSUME id = tx[t], id # y
      PROVE  Cardinality(Users(new, id)) = Cardinality(Users(tx, id)) - 1
  <2>1. Users(new, id) = Users(tx, id) \ {t} /\ t \in Users(tx, id)
    BY <1>3 DEF Users
  <2>. QED  BY <1>1, <2>1, FS_RemoveElement
<1>4. ASSUME id # tx[t], id = y
      PROVE  Cardinality(Users(new, id)) = Cardinality(Users(tx, id)) + 1
  <2>1. Users(new, id) = Users(tx, id) \cup {t} /\ t \notin Users(tx, id)
    BY <1>4 DEF Users
  <2>. QED  BY <1>1, <2>1, FS_AddElement
<1>5. Cardinality(Users(tx, id)) \in Nat
  BY <1>1, FS_CardinalityType
<1>. QED  BY <1>2, <1>3, <1>4, <1>5

\* A share has the users it had when nobody comes or leaves.
LEMMA UsersKept ==
  ASSUME NEW tx, NEW ty, NEW id, \A u \in Names : tx[u] = id <=> ty[u] = id
  PROVE  Users(ty, id) = Users(tx, id)
  BY DEF Users

\* There is always an id for one share more, as each share has a text to itself.
LEMMA FreeIdIs ==
  ASSUME Countable, NEW tx, NEW sh, NEW lv, NEW ow, Good(tx, sh, lv, ow)
  PROVE  FreeId(sh) \in Ids /\ FreeId(sh) \notin DOMAIN sh
<1>1. /\ DOMAIN sh \subseteq Ids
      /\ \A id \in DOMAIN sh : sh[id].refs \in Nat \ {0}
                               /\ sh[id].refs = Cardinality(Users(tx, id))
  <2>1. sh \in Maps(Share) /\ Referred(tx, sh)
    BY DEF Good, TextTyped
  <2>2. DOMAIN sh \subseteq Ids /\ \A id \in DOMAIN sh : sh[id] \in Share
    BY <2>1, MapIs, Zenon
  <2>. QED  BY <2>1, <2>2 DEF Referred, Share
<1>2. ASSUME NEW id \in DOMAIN sh PROVE \E t \in Names : tx[t] = id
  <2>1. Users(tx, id) # {}
    BY <1>1, FS_EmptySet
  <2>. QED  BY <2>1 DEF Users
<1>3. PICK f : f = [id \in DOMAIN sh |-> CHOOSE t \in Names : tx[t] = id]
  OBVIOUS
<1>4. f \in [DOMAIN sh -> Names] /\ \A id \in DOMAIN sh : tx[f[id]] = id
  BY <1>2, <1>3
<1>5. f \in Injection(DOMAIN sh, Names)
  BY <1>4 DEF Injection, IsInjective
<1>6. Cardinality(DOMAIN sh) <= Cardinality(Names) /\ IsFiniteSet(DOMAIN sh)
  BY <1>5, FS_Injection DEF Countable
<1>7. Cardinality(Names) \in Nat /\ Cardinality(Ids) = Cardinality(Names) + 1
  <2>1. PICK n : n = Cardinality(Names)
    OBVIOUS
  <2>2. n \in Nat
    BY <2>1, FS_CardinalityType DEF Countable
  <2>3. Cardinality(1 .. n + 1) = n + 1
    BY <2>2, FS_Interval
  <2>. QED  BY <2>1, <2>2, <2>3 DEF Ids
<1>8. DOMAIN sh # Ids
  BY <1>6, <1>7
<1>. QED  BY <1>1, <1>8 DEF FreeId

\* The map g is f with y for x, and otherwise as it was.
Sets(g, f, S, x, y) ==
  /\ g \in Maps(S) /\ DOMAIN g = DOMAIN f \cup {x} /\ g[x] = y
  /\ \A i \in DOMAIN f \ {x} : g[i] = f[i]

\* A map with one entry more, or one changed.
LEMMA SetIs ==
  ASSUME NEW S, NEW f \in Maps(S), NEW x \in Ids, NEW y \in S
  PROVE  Sets(SetOf(f, x, y), f, S, x, y)
<1>1. DOMAIN f \subseteq Ids /\ \A i \in DOMAIN f : f[i] \in S
  BY MapIs, Zenon
<1>2. PICK g : g = SetOf(f, x, y)
  OBVIOUS
<1>3. g = [i \in DOMAIN f \cup {x} |-> IF i = x THEN y ELSE f[i]]
  BY <1>2 DEF SetOf
<1>4. DOMAIN g = DOMAIN f \cup {x} /\ g[x] = y /\ \A i \in DOMAIN f \ {x} : g[i] = f[i]
  BY <1>3
<1>5. g = [i \in DOMAIN g |-> g[i]] /\ DOMAIN g \subseteq Ids /\ \A i \in DOMAIN g : g[i] \in S
  BY <1>1, <1>3
<1>6. g \in Maps(S)
  BY <1>5, MapIs, Zenon
<1>. QED  BY <1>2, <1>4, <1>6 DEF Sets

\* A map without one of its entries.
LEMMA DropIs ==
  ASSUME NEW S, NEW f \in Maps(S), NEW x
  PROVE  /\ Drop(f, x) \in Maps(S)
         /\ DOMAIN Drop(f, x) = DOMAIN f \ {x}
         /\ \A i \in DOMAIN f \ {x} : Drop(f, x)[i] = f[i]
<1>1. DOMAIN f \subseteq Ids /\ \A i \in DOMAIN f : f[i] \in S
  BY MapIs, Zenon
<1>2. PICK g : g = Drop(f, x)
  OBVIOUS
<1>3. g = [i \in DOMAIN f \ {x} |-> f[i]]
  BY <1>2 DEF Drop
<1>4. DOMAIN g = DOMAIN f \ {x} /\ \A i \in DOMAIN f \ {x} : g[i] = f[i]
  BY <1>3
<1>5. g = [i \in DOMAIN g |-> g[i]] /\ DOMAIN g \subseteq Ids /\ \A i \in DOMAIN g : g[i] \in S
  BY <1>1, <1>3
<1>6. g \in Maps(S)
  BY <1>5, MapIs, Zenon
<1>. QED  BY <1>2, <1>4, <1>6

\* The shares of a map, one by one.
LEMMA SharesIn ==
  ASSUME NEW sh \in Maps(Share)
  PROVE  /\ DOMAIN sh \subseteq Ids
         /\ \A id \in DOMAIN sh : /\ sh[id].items \in Seq(Elems) /\ sh[id].refs \in Nat \ {0}
                                  /\ sh[id].born \in Nat
                                  /\ sh[id] = [items |-> sh[id].items, refs |-> sh[id].refs,
                                               born |-> sh[id].born]
<1>1. DOMAIN sh \subseteq Ids /\ \A id \in DOMAIN sh : sh[id] \in Share
  BY MapIs, Zenon
<1>. QED  BY <1>1 DEF Share

\* Ids are numbers, and none of them is None.
LEMMA IdsAre == ASSUME Countable PROVE Ids \in SUBSET Nat /\ None \notin Ids /\ None \in Nat
<1>1. Cardinality(Names) \in Nat
  BY FS_CardinalityType DEF Countable
<1>. QED  BY <1>1 DEF Ids, None

---------------------------------------------------------------------------
(* A text lets go of its share, a text is given a share, a share is written *)

Forgotten(lv, id) == [n \in DOMAIN lv |-> [lv[n] EXCEPT !.shadow = Drop(@, id)]]

LEMMA ForgottenIs ==
  ASSUME NEW lv \in Seq(Level), NEW id
  PROVE  /\ Forgotten(lv, id) \in Seq(Level) /\ Len(Forgotten(lv, id)) = Len(lv)
         /\ \A n \in 1 .. Len(lv) :
              /\ Forgotten(lv, id)[n].own = lv[n].own
              /\ DOMAIN Forgotten(lv, id)[n].shadow = DOMAIN lv[n].shadow \ {id}
              /\ \A i \in DOMAIN lv[n].shadow \ {id} :
                   Forgotten(lv, id)[n].shadow[i] = lv[n].shadow[i]
<1>. DEFINE lw == Forgotten(lv, id)
<1>1. /\ Len(lv) \in Nat /\ DOMAIN lv = 1 .. Len(lv)
      /\ \A n \in 1 .. Len(lv) : lv[n] \in Level
  OBVIOUS
<1>2. ASSUME NEW n \in 1 .. Len(lv)
      PROVE  /\ lw[n] \in Level /\ lw[n].own = lv[n].own
             /\ lw[n].shadow = Drop(lv[n].shadow, id)
  <2>1. lw[n] = [lv[n] EXCEPT !.shadow = Drop(lv[n].shadow, id)]
    BY <1>1 DEF Forgotten
  <2>2. lv[n].shadow \in Maps(Seq(Elems)) /\ lv[n] \in Level
    BY <1>1 DEF Level
  <2>3. Drop(lv[n].shadow, id) \in Maps(Seq(Elems))
    BY <2>2, DropIs
  <2>. QED  BY <2>1, <2>2, <2>3 DEF Level
<1>3. DOMAIN lw = 1 .. Len(lv) /\ lw = [n \in 1 .. Len(lv) |-> lw[n]]
  BY <1>1 DEF Forgotten
<1>4. lw \in Seq(Level) /\ Len(lw) = Len(lv)
  <2>1. \A n \in 1 .. Len(lv) : lw[n] \in Level
    BY <1>2
  <2>. HIDE DEF lw
  <2>. QED  BY <1>1, <1>3, <2>1
<1>5. ASSUME NEW n \in 1 .. Len(lv)
      PROVE  /\ DOMAIN lw[n].shadow = DOMAIN lv[n].shadow \ {id}
             /\ \A i \in DOMAIN lv[n].shadow \ {id} : lw[n].shadow[i] = lv[n].shadow[i]
  <2>1. lv[n].shadow \in Maps(Seq(Elems))
    BY <1>1 DEF Level
  <2>2. PICK sd : sd = lv[n].shadow
    OBVIOUS
  <2>3. sd \in Maps(Seq(Elems)) /\ lw[n].shadow = Drop(sd, id)
    BY <1>2, <2>1, <2>2
  <2>4. /\ DOMAIN Drop(sd, id) = DOMAIN sd \ {id}
        /\ \A i \in DOMAIN sd \ {id} : Drop(sd, id)[i] = sd[i]
    <3>. HIDE DEF lw
    <3>. QED  BY <2>3, DropIs, Zenon
  <2>. HIDE DEF lw
  <2>. QED  BY <2>2, <2>3, <2>4
<1>. QED  BY <1>2, <1>4, <1>5

\* A map with one of its entries changed.
LEMMA ExceptIs ==
  ASSUME NEW S, NEW f \in Maps(S), NEW x \in DOMAIN f, NEW y \in S
  PROVE  Sets([f EXCEPT ![x] = y], f, S, x, y)
<1>1. x \in Ids /\ DOMAIN f = DOMAIN f \cup {x}
  BY MapIs, Zenon
<1>2. [f EXCEPT ![x] = y] = SetOf(f, x, y)
  BY <1>1, MapIs DEF SetOf
<1>3. Sets(SetOf(f, x, y), f, S, x, y)
  BY <1>1, SetIs
<1>. QED  BY <1>2, <1>3

\* The shares after one reference less.
LEMMA ReleasedIs ==
  ASSUME NEW sh \in Maps(Share), NEW id \in DOMAIN sh
  PROVE  LET rs == Released(sh, id) IN
         /\ rs \in Maps(Share)
         /\ DOMAIN rs = IF sh[id].refs = 1 THEN DOMAIN sh \ {id} ELSE DOMAIN sh
         /\ \A i \in DOMAIN rs : /\ rs[i].items = sh[i].items /\ rs[i].born = sh[i].born
                                 /\ rs[i].refs = IF i = id THEN sh[i].refs - 1 ELSE sh[i].refs
<1>1. CASE sh[id].refs = 1
  <2>1. Released(sh, id) = Drop(sh, id)
    BY <1>1 DEF Released
  <2>2. /\ Drop(sh, id) \in Maps(Share) /\ DOMAIN Drop(sh, id) = DOMAIN sh \ {id}
        /\ \A i \in DOMAIN sh \ {id} : Drop(sh, id)[i] = sh[i]
    BY DropIs
  <2>. QED  BY <1>1, <2>1, <2>2
<1>2. CASE sh[id].refs # 1
  <2>1. PICK y : y = [items |-> sh[id].items, refs |-> sh[id].refs - 1, born |-> sh[id].born]
    OBVIOUS
  <2>2. y \in Share /\ y.refs = sh[id].refs - 1 /\ y.items = sh[id].items /\ y.born = sh[id].born
    <3>1. /\ sh[id].items \in Seq(Elems) /\ sh[id].refs \in Nat \ {0} /\ sh[id].born \in Nat
      BY SharesIn
    <3>. QED  BY <1>2, <2>1, <3>1 DEF Share
  <2>3. Released(sh, id) = [sh EXCEPT ![id] = y]
    <3>1. sh[id] = [items |-> sh[id].items, refs |-> sh[id].refs, born |-> sh[id].born]
      BY SharesIn
    <3>2. [sh[id] EXCEPT !.refs = sh[id].refs - 1] = y
      BY <2>1, <3>1
    <3>. QED  BY <1>2, <3>2 DEF Released
  <2>4. PICK g : g = [sh EXCEPT ![id] = y]
    OBVIOUS
  <2>5. g \in Maps(Share) /\ DOMAIN g = DOMAIN sh /\ g[id] = y
        /\ \A i \in DOMAIN sh \ {id} : g[i] = sh[i]
    <3>1. Sets(g, sh, Share, id, y)
      BY <2>2, <2>4, ExceptIs
    <3>. QED  BY <3>1 DEF Sets
  <2>. QED  BY <1>2, <2>2, <2>3, <2>4, <2>5
<1>. QED  BY <1>1, <1>2

\* What a share gets back depends on its content and its old roots.
LEMMA RestoresSame ==
  ASSUME NEW sh, NEW rs, NEW lv, NEW lw, NEW n, NEW id, NEW v,
         rs[id].items = sh[id].items, Len(lw) = Len(lv),
         \A k \in n .. Len(lv) :
           /\ id \in DOMAIN lw[k].shadow <=> id \in DOMAIN lv[k].shadow
           /\ id \in DOMAIN lv[k].shadow => lw[k].shadow[id] = lv[k].shadow[id],
         n \in Nat, Len(lv) \in Nat,
         Restores(sh, lv, n, id, v)
  PROVE  Restores(rs, lw, n, id, v)
<1>1. (\A k \in n .. Len(lv) : id \notin DOMAIN lw[k].shadow) => v = rs[id].items
  BY DEF Restores
<1>2. ASSUME NEW m \in n .. Len(lv), id \in DOMAIN lw[m].shadow,
             \A k \in n .. m - 1 : id \notin DOMAIN lw[k].shadow
      PROVE  v = lw[m].shadow[id]
  <2>1. \A k \in n .. m - 1 : k \in n .. Len(lv)
    OBVIOUS
  <2>. QED  BY <1>2, <2>1 DEF Restores
<1>. QED  BY <1>1, <1>2 DEF Restores

\* A share with one reference has one text.
LEMMA SoleUser ==
  ASSUME Countable, NEW tx, NEW sh, NEW lv, NEW ow, Good(tx, sh, lv, ow),
         NEW t \in Names, tx[t] # None, sh[tx[t]].refs = 1
  PROVE  \A u \in Names : tx[u] = tx[t] => u = t
<1>1. Cardinality(Users(tx, tx[t])) = 1 /\ t \in Users(tx, tx[t])
  BY DEF Good, Holding, Referred, Users
<1>2. IsFiniteSet(Users(tx, tx[t]))
  BY FS_Subset DEF Users, Countable
<1>3. \E x : Users(tx, tx[t]) = {x}
  BY <1>1, <1>2, FS_Singleton
<1>. QED  BY <1>1, <1>3 DEF Users

\* A text lets go of its share, and is none any longer.
LEMMA LetGo ==
  ASSUME Countable, NEW tx, NEW sh, NEW lv, NEW ow, Good(tx, sh, lv, ow),
         NEW t \in Names, tx[t] # None,
         NEW lw, lw = lv \/ (sh[tx[t]].refs = 1 /\ lw = Forgotten(lv, tx[t]))
  PROVE  Good([tx EXCEPT ![t] = None], Released(sh, tx[t]), lw, ow)
<1>1. PICK id : id = tx[t]
  OBVIOUS
<1>2. PICK ty : ty = [tx EXCEPT ![t] = None]
  OBVIOUS
<1>3. PICK rs : rs = Released(sh, id)
  OBVIOUS
<1>4. /\ tx \in [Names -> Nat] /\ sh \in Maps(Share) /\ lv \in Seq(Level)
      /\ ow \in [Names -> Seq(Elems)] /\ id \in DOMAIN sh
      /\ Holding(tx, sh, ow) /\ Referred(tx, sh) /\ GivesBack(tx, sh, lv)
  BY <1>1 DEF Good, TextTyped, Holding
<1>5. /\ rs \in Maps(Share)
      /\ DOMAIN rs = IF sh[id].refs = 1 THEN DOMAIN sh \ {id} ELSE DOMAIN sh
      /\ \A i \in DOMAIN rs : /\ rs[i].items = sh[i].items /\ rs[i].born = sh[i].born
                              /\ rs[i].refs = IF i = id THEN sh[i].refs - 1 ELSE sh[i].refs
  BY <1>3, <1>4, ReleasedIs
<1>6. ty \in [Names -> Nat] /\ ty[t] = None /\ \A u \in Names \ {t} : ty[u] = tx[u]
  BY <1>2, <1>4, IdsAre
<1>7. \A u \in Names : ty[u] # None => u # t /\ tx[u] # None /\ ty[u] = tx[u]
  BY <1>6
<1>8. sh[id].refs = 1 => \A u \in Names : tx[u] = id => u = t
  BY <1>1, SoleUser
<1>9. lw \in Seq(Level) /\ Len(lw) = Len(lv) /\ Len(lv) \in Nat
  BY <1>1, <1>4, ForgottenIs
<1>10. TextTyped(ty, rs, lw, ow)
  BY <1>4, <1>5, <1>6, <1>9 DEF TextTyped
<1>11. Holding(ty, rs, ow)
  BY <1>4, <1>5, <1>7, <1>8 DEF Holding
<1>12. Referred(ty, rs)
  <2>. SUFFICES ASSUME NEW i \in DOMAIN rs PROVE rs[i].refs = Cardinality(Users(ty, i))
    BY DEF Referred
  <2>1. i \in DOMAIN sh /\ i # None
    BY <1>4, <1>5, IdsAre, SharesIn
  <2>2. sh[i].refs = Cardinality(Users(tx, i))
    BY <1>4, <2>1 DEF Referred
  <2>3. CASE i = id
    <3>1. id = tx[t] /\ id # None /\ None \in Nat
      BY <1>1, <2>1, <2>3, IdsAre
    <3>2. Cardinality(Users(ty, id)) = Cardinality(Users(tx, id)) - 1
      BY <1>2, <1>4, <3>1, UsersMoved
    <3>. QED  BY <1>5, <2>2, <2>3, <3>2
  <2>4. CASE i # id
    <3>1. Users(ty, i) = Users(tx, i)
      <4>1. \A u \in Names : tx[u] = i <=> ty[u] = i
        BY <1>1, <1>6, <2>1, <2>4
      <4>. QED  BY <4>1, UsersKept
    <3>. QED  BY <1>5, <2>2, <2>4, <3>1
  <2>. QED  BY <2>3, <2>4
<1>13. GivesBack(ty, rs, lw)
  <2>. SUFFICES ASSUME NEW n \in 1 .. Len(lw), NEW u \in Names, ty[u] # None, rs[ty[u]].born < n
                PROVE  Restores(rs, lw, n, ty[u], lw[n].own[u])
    BY DEF GivesBack
  <2>1. PICK x : x = tx[u]
    OBVIOUS
  <2>2. u # t /\ x # None /\ ty[u] = x /\ x \in DOMAIN sh
    BY <1>4, <1>7, <2>1 DEF Holding
  <2>3. x \in DOMAIN rs /\ (sh[id].refs = 1 => x # id)
    BY <1>5, <1>8, <2>1, <2>2
  <2>4. Restores(sh, lv, n, x, lv[n].own[u])
    BY <1>4, <1>5, <1>9, <2>1, <2>2, <2>3 DEF GivesBack
  <2>5. /\ lw[n].own = lv[n].own
        /\ \A k \in n .. Len(lv) :
             /\ x \in DOMAIN lw[k].shadow <=> x \in DOMAIN lv[k].shadow
             /\ x \in DOMAIN lv[k].shadow => lw[k].shadow[x] = lv[k].shadow[x]
    <3>1. CASE lw = lv
      BY <3>1
    <3>2. CASE sh[id].refs = 1 /\ lw = Forgotten(lv, id)
      <4>1. n \in 1 .. Len(lv) /\ \A k \in n .. Len(lv) : k \in 1 .. Len(lv)
        BY <1>9
      <4>2. x # id
        BY <2>3, <3>2
      <4>. QED  BY <1>4, <3>2, <4>1, <4>2, ForgottenIs
    <3>. QED  BY <1>1, <3>1, <3>2
  <2>6. rs[x].items = sh[x].items
    BY <1>5, <2>3
  <2>7. n \in Nat /\ Len(lv) \in Nat
    BY <1>9
  <2>. QED  BY <1>9, <2>2, <2>4, <2>5, <2>6, <2>7, RestoresSame
<1>. QED  BY <1>1, <1>2, <1>3, <1>10, <1>11, <1>12, <1>13 DEF Good

\* A text that is none is given a share that was made at the innermost level.
LEMMA Given ==
  ASSUME Countable, NEW tx, NEW sh, NEW lv, NEW ow, Good(tx, sh, lv, ow),
         NEW t \in Names, tx[t] = None, NEW id \in Ids, id \notin DOMAIN sh,
         NEW items \in Seq(Elems), Len(lv) = Depth
  PROVE  Good([tx EXCEPT ![t] = id], SetOf(sh, id, NewShare(items)), lv,
              [ow EXCEPT ![t] = items])
<1>0. PICK new : new = NewShare(items)
  OBVIOUS
<1>1. PICK ty : ty = [tx EXCEPT ![t] = id]
  OBVIOUS
<1>2. PICK rs : rs = SetOf(sh, id, new)
  OBVIOUS
<1>3. PICK oz : oz = [ow EXCEPT ![t] = items]
  OBVIOUS
<1>4. /\ tx \in [Names -> Nat] /\ sh \in Maps(Share) /\ lv \in Seq(Level)
      /\ ow \in [Names -> Seq(Elems)]
      /\ Holding(tx, sh, ow) /\ Referred(tx, sh) /\ GivesBack(tx, sh, lv)
  BY DEF Good, TextTyped, Holding
<1>5. Len(lv) \in Nat /\ id \in Nat /\ id # None
  BY <1>4, IdsAre
<1>6. new \in Share /\ new.items = items /\ new.refs = 1 /\ new.born = Len(lv)
  BY <1>0, <1>5 DEF Share, NewShare
<1>7. /\ rs \in Maps(Share) /\ DOMAIN rs = DOMAIN sh \cup {id} /\ rs[id] = new
      /\ \A i \in DOMAIN sh : rs[i] = sh[i]
  <2>1. sh \in Maps(Share) /\ new \in Share /\ id \in Ids
    BY <1>4, <1>6
  <2>2. Sets(rs, sh, Share, id, new)
    BY <1>2, <2>1, SetIs
  <2>. QED  BY <2>2 DEF Sets
<1>8. ty \in [Names -> Nat] /\ ty[t] = id /\ \A u \in Names \ {t} : ty[u] = tx[u]
  BY <1>1, <1>4, <1>5
<1>9. oz \in [Names -> Seq(Elems)] /\ oz[t] = items /\ \A u \in Names \ {t} : oz[u] = ow[u]
  BY <1>3, <1>4
<1>10. TextTyped(ty, rs, lv, oz)
  BY <1>4, <1>7, <1>8, <1>9 DEF TextTyped
<1>11. Holding(ty, rs, oz)
  <2>. SUFFICES ASSUME NEW u \in Names, ty[u] # None
                PROVE  ty[u] \in DOMAIN rs /\ rs[ty[u]].items = oz[u]
    BY DEF Holding
  <2>1. CASE u = t
    BY <1>6, <1>7, <1>8, <1>9, <2>1
  <2>2. CASE u # t
    <3>1. ty[u] = tx[u] /\ oz[u] = ow[u]
      BY <1>8, <1>9, <2>2
    <3>2. tx[u] \in DOMAIN sh /\ sh[tx[u]].items = ow[u]
      BY <1>4, <3>1 DEF Holding
    <3>. QED  BY <1>7, <3>1, <3>2
  <2>. QED  BY <2>1, <2>2
<1>12. Referred(ty, rs)
  <2>. SUFFICES ASSUME NEW i \in DOMAIN rs PROVE rs[i].refs = Cardinality(Users(ty, i))
    BY DEF Referred
  <2>1. CASE i = id
    <3>1. Users(ty, id) = {t}
      BY <1>4, <1>5, <1>8 DEF Users, Holding
    <3>2. Cardinality(Users(ty, id)) = 1
      BY <3>1, FS_Singleton
    <3>. QED  BY <1>6, <1>7, <2>1, <3>2
  <2>2. CASE i # id
    <3>1. i \in DOMAIN sh /\ i # None
      BY <1>4, <1>7, <2>2, SharesIn, IdsAre
    <3>2. Users(ty, i) = Users(tx, i)
      <4>1. \A u \in Names : tx[u] = i <=> ty[u] = i
        BY <1>8, <2>2, <3>1
      <4>. QED  BY <4>1, UsersKept
    <3>. QED  BY <1>4, <1>7, <3>1, <3>2 DEF Referred
  <2>. QED  BY <2>1, <2>2
<1>13. GivesBack(ty, rs, lv)
  <2>. SUFFICES ASSUME NEW n \in 1 .. Len(lv), NEW u \in Names, ty[u] # None, rs[ty[u]].born < n
                PROVE  Restores(rs, lv, n, ty[u], lv[n].own[u])
    BY DEF GivesBack
  <2>1. u # t
    BY <1>5, <1>6, <1>7, <1>8
  <2>2. PICK x : x = tx[u]
    OBVIOUS
  <2>3. ty[u] = x /\ x # None /\ x \in DOMAIN sh /\ rs[x] = sh[x]
    BY <1>4, <1>7, <1>8, <2>1, <2>2 DEF Holding
  <2>4. Restores(sh, lv, n, x, lv[n].own[u])
    BY <1>4, <2>2, <2>3 DEF GivesBack
  <2>5. n \in Nat
    OBVIOUS
  <2>. QED  BY <1>5, <2>3, <2>4, <2>5, RestoresSame
<1>. QED  BY <1>0, <1>1, <1>2, <1>3, <1>10, <1>11, <1>12, <1>13 DEF Good

\* The innermost level keeps what share id held when it was first written there.
Shadowed(lv, id, items) ==
  [lv EXCEPT ![Len(lv)].shadow = IF id \in DOMAIN @ THEN @ ELSE SetOf(@, id, items)]

\* lw is lv with items kept for share id in its innermost level.
ShadowsIn(lw, lv, id, items) ==
  LET n == Len(lv)
  IN
  /\ lw \in Seq(Level) /\ Len(lw) = n
  /\ \A m \in 1 .. n - 1 : lw[m] = lv[m]
  /\ lw[n].own = lv[n].own
  /\ DOMAIN lw[n].shadow = DOMAIN lv[n].shadow \cup {id}
  /\ lw[n].shadow[id] = IF id \in DOMAIN lv[n].shadow THEN lv[n].shadow[id] ELSE items
  /\ \A i \in DOMAIN lv[n].shadow \ {id} : lw[n].shadow[i] = lv[n].shadow[i]

LEMMA ShadowedIs ==
  ASSUME NEW lv \in Seq(Level), Len(lv) # 0, NEW id \in Ids, NEW items \in Seq(Elems)
  PROVE  ShadowsIn(Shadowed(lv, id, items), lv, id, items)
<1>1. PICK n : n = Len(lv)
  OBVIOUS
<1>2. n \in 1 .. Len(lv) /\ n \in Nat /\ lv[n] \in Level /\ DOMAIN lv = 1 .. n
  BY <1>1
<1>3. PICK sd : sd = lv[n].shadow
  OBVIOUS
<1>4. sd \in Maps(Seq(Elems))
  BY <1>2, <1>3 DEF Level
<1>5. PICK se : se = IF id \in DOMAIN sd THEN sd ELSE SetOf(sd, id, items)
  OBVIOUS
<1>6. /\ se \in Maps(Seq(Elems)) /\ DOMAIN se = DOMAIN sd \cup {id}
      /\ se[id] = IF id \in DOMAIN sd THEN sd[id] ELSE items
      /\ \A i \in DOMAIN sd \ {id} : se[i] = sd[i]
  <2>1. CASE id \in DOMAIN sd
    BY <1>4, <1>5, <2>1
  <2>2. CASE id \notin DOMAIN sd
    <3>1. Sets(SetOf(sd, id, items), sd, Seq(Elems), id, items)
      BY <1>4, SetIs
    <3>. QED  BY <1>5, <2>2, <3>1 DEF Sets
  <2>. QED  BY <2>1, <2>2
<1>7. PICK e : e = [lv[n] EXCEPT !.shadow = se]
  OBVIOUS
<1>8. e \in Level /\ e.shadow = se /\ e.own = lv[n].own
  BY <1>2, <1>6, <1>7 DEF Level
<1>9. Shadowed(lv, id, items) = [lv EXCEPT ![n] = e]
  BY <1>1, <1>2, <1>3, <1>5, <1>7 DEF Shadowed
<1>10. PICK lw : lw = [lv EXCEPT ![n] = e]
  OBVIOUS
<1>11. lw \in Seq(Level) /\ Len(lw) = n /\ lw[n] = e /\ \A m \in 1 .. n - 1 : lw[m] = lv[m]
  BY <1>1, <1>2, <1>8, <1>10
<1>. QED  BY <1>1, <1>3, <1>6, <1>8, <1>9, <1>10, <1>11 DEF ShadowsIn

\* A text that has its share to itself is written.
LEMMA Rewritten ==
  ASSUME Countable, NEW tx, NEW sh, NEW lv, NEW ow, Good(tx, sh, lv, ow),
         NEW t \in Names, tx[t] # None, sh[tx[t]].refs = 1, Len(lv) # 0,
         NEW items \in Seq(Elems)
  PROVE  /\ Good(tx, [sh EXCEPT ![tx[t]].items = items],
                 Shadowed(lv, tx[t], sh[tx[t]].items), [ow EXCEPT ![t] = items])
         /\ \A i \in DOMAIN sh : [sh EXCEPT ![tx[t]].items = items][i].refs = sh[i].refs
<1>1. PICK id : id = tx[t]
  OBVIOUS
<1>2. PICK rs : rs = [sh EXCEPT ![id].items = items]
  OBVIOUS
<1>3. PICK lw : lw = Shadowed(lv, id, sh[id].items)
  OBVIOUS
<1>4. PICK oz : oz = [ow EXCEPT ![t] = items]
  OBVIOUS
<1>5. /\ tx \in [Names -> Nat] /\ sh \in Maps(Share) /\ lv \in Seq(Level)
      /\ ow \in [Names -> Seq(Elems)] /\ id \in DOMAIN sh
      /\ Holding(tx, sh, ow) /\ Referred(tx, sh) /\ GivesBack(tx, sh, lv)
  BY <1>1 DEF Good, TextTyped, Holding
<1>6. id \in Ids /\ sh[id].items \in Seq(Elems) /\ Len(lv) \in Nat
  BY <1>5, SharesIn
<1>7. PICK y : y = [sh[id] EXCEPT !.items = items]
  OBVIOUS
<1>8. y \in Share /\ y.items = items /\ y.refs = sh[id].refs /\ y.born = sh[id].born
  <2>1. /\ sh[id].items \in Seq(Elems) /\ sh[id].refs \in Nat \ {0} /\ sh[id].born \in Nat
        /\ sh[id] = [items |-> sh[id].items, refs |-> sh[id].refs, born |-> sh[id].born]
    BY <1>5, SharesIn
  <2>2. y = [items |-> items, refs |-> sh[id].refs, born |-> sh[id].born]
    BY <1>7, <2>1
  <2>. QED  BY <2>1, <2>2 DEF Share
<1>9. /\ rs \in Maps(Share) /\ DOMAIN rs = DOMAIN sh /\ rs[id] = y
      /\ \A i \in DOMAIN sh \ {id} : rs[i] = sh[i]
  <2>1. rs = [sh EXCEPT ![id] = y]
    BY <1>2, <1>7
  <2>2. Sets(rs, sh, Share, id, y)
    BY <1>5, <1>8, <2>1, ExceptIs
  <2>. QED  BY <1>5, <2>2 DEF Sets
<1>10. \A i \in DOMAIN sh : rs[i].refs = sh[i].refs /\ rs[i].born = sh[i].born
  BY <1>8, <1>9
<1>11. PICK n : n = Len(lv)
  OBVIOUS
<1>12. /\ lw \in Seq(Level) /\ Len(lw) = n
       /\ \A m \in 1 .. n - 1 : lw[m] = lv[m]
       /\ lw[n].own = lv[n].own
       /\ DOMAIN lw[n].shadow = DOMAIN lv[n].shadow \cup {id}
       /\ lw[n].shadow[id] = IF id \in DOMAIN lv[n].shadow THEN lv[n].shadow[id] ELSE sh[id].items
       /\ \A i \in DOMAIN lv[n].shadow \ {id} : lw[n].shadow[i] = lv[n].shadow[i]
  <2>1. PICK old : old = sh[id].items
    OBVIOUS
  <2>2. lv \in Seq(Level) /\ Len(lv) # 0 /\ id \in Ids /\ old \in Seq(Elems)
    BY <1>5, <1>6, <2>1
  <2>3. ShadowsIn(Shadowed(lv, id, old), lv, id, old)
    BY <2>2, ShadowedIs
  <2>. QED  BY <1>3, <1>11, <2>1, <2>3 DEF ShadowsIn
<1>13. oz \in [Names -> Seq(Elems)] /\ oz[t] = items /\ \A u \in Names \ {t} : oz[u] = ow[u]
  BY <1>4, <1>5
<1>14. \A u \in Names : tx[u] = id => u = t
  BY <1>1, SoleUser
<1>15. TextTyped(tx, rs, lw, oz)
  BY <1>5, <1>9, <1>12, <1>13 DEF TextTyped
<1>16. Holding(tx, rs, oz)
  <2>. SUFFICES ASSUME NEW u \in Names, tx[u] # None
                PROVE  tx[u] \in DOMAIN rs /\ rs[tx[u]].items = oz[u]
    BY DEF Holding
  <2>1. tx[u] \in DOMAIN sh /\ sh[tx[u]].items = ow[u]
    BY <1>5 DEF Holding
  <2>2. CASE u = t
    BY <1>1, <1>8, <1>9, <1>13, <2>1, <2>2
  <2>3. CASE u # t
    <3>1. tx[u] # id /\ oz[u] = ow[u]
      BY <1>13, <1>14, <2>3
    <3>. QED  BY <1>9, <2>1, <3>1
  <2>. QED  BY <2>2, <2>3
<1>17. Referred(tx, rs)
  BY <1>5, <1>9, <1>10 DEF Referred
<1>18. GivesBack(tx, rs, lw)
  <2>. SUFFICES ASSUME NEW k \in 1 .. Len(lw), NEW u \in Names, tx[u] # None, rs[tx[u]].born < k
                PROVE  Restores(rs, lw, k, tx[u], lw[k].own[u])
    BY DEF GivesBack
  <2>1. PICK v : v = lw[k].own[u]
    OBVIOUS
  <2>2. k \in Nat /\ n \in Nat /\ k \in 1 .. n /\ n = Len(lv) /\ v = lv[k].own[u]
    BY <1>6, <1>11, <1>12, <2>1
  <2>3. PICK x : x = tx[u]
    OBVIOUS
  <2>4. x \in DOMAIN sh
    BY <1>5, <2>3 DEF Holding
  <2>5. Restores(sh, lv, k, x, v)
    BY <1>5, <1>10, <2>2, <2>3, <2>4 DEF GivesBack
  <2>6. CASE x = id
    <3>1. (\A m \in k .. n : id \notin DOMAIN lv[m].shadow) => v = sh[id].items
      BY <2>2, <2>5, <2>6 DEF Restores
    <3>2. \A m \in k .. n : id \in DOMAIN lv[m].shadow
             /\ (\A i \in k .. m - 1 : id \notin DOMAIN lv[i].shadow) => v = lv[m].shadow[id]
      BY <2>2, <2>5, <2>6 DEF Restores
    <3>3. n \in k .. n /\ id \in DOMAIN lw[n].shadow
      BY <1>12, <2>2
    <3>4. ASSUME NEW m \in k .. n, id \in DOMAIN lw[m].shadow,
                 \A i \in k .. m - 1 : id \notin DOMAIN lw[i].shadow
          PROVE  v = lw[m].shadow[id]
      <4>1. \A i \in k .. m - 1 : i \in 1 .. n - 1 /\ lw[i] = lv[i]
        BY <1>12, <2>2
      <4>2. \A i \in k .. m - 1 : id \notin DOMAIN lv[i].shadow
        BY <3>4, <4>1
      <4>3. CASE m = n
        <5>1. CASE id \in DOMAIN lv[n].shadow
          BY <1>12, <3>2, <3>3, <4>2, <4>3, <5>1
        <5>2. CASE id \notin DOMAIN lv[n].shadow
          <6>1. \A i \in k .. n : i \in k .. n - 1 \/ i = n
            BY <2>2
          <6>2. v = sh[id].items
            BY <3>1, <4>2, <4>3, <5>2, <6>1
          <6>. QED  BY <1>12, <4>3, <5>2, <6>2
        <5>. QED  BY <5>1, <5>2
      <4>4. CASE m # n
        <5>1. m \in 1 .. n - 1 /\ lw[m] = lv[m]
          BY <1>12, <2>2, <4>4
        <5>. QED  BY <3>2, <3>4, <4>2, <5>1
      <4>. QED  BY <4>3, <4>4
    <3>. QED  BY <1>12, <2>1, <2>3, <2>6, <3>3, <3>4 DEF Restores
  <2>7. CASE x # id
    <3>1. \A m \in k .. n : /\ x \in DOMAIN lw[m].shadow <=> x \in DOMAIN lv[m].shadow
                            /\ x \in DOMAIN lv[m].shadow => lw[m].shadow[x] = lv[m].shadow[x]
      <4>1. \A m \in k .. n : m = n \/ (m \in 1 .. n - 1 /\ lw[m] = lv[m])
        BY <1>12, <2>2
      <4>2. /\ x \in DOMAIN lw[n].shadow <=> x \in DOMAIN lv[n].shadow
            /\ x \in DOMAIN lv[n].shadow => lw[n].shadow[x] = lv[n].shadow[x]
        BY <1>12, <2>7
      <4>. QED  BY <4>1, <4>2
    <3>2. rs[x].items = sh[x].items
      BY <1>9, <2>4, <2>7
    <3>. QED  BY <1>12, <2>1, <2>2, <2>3, <2>5, <3>1, <3>2, RestoresSame
  <2>. QED  BY <2>6, <2>7
<1>. QED  BY <1>1, <1>2, <1>3, <1>4, <1>10, <1>15, <1>16, <1>17, <1>18 DEF Good

St(tx, sh, lv) == [texts |-> tx, shares |-> sh, levels |-> lv]

\* Only t has changed from tx to ty, and it has its share to itself now, as has every
\* text that had it before.
Alone(ty, rs, tx, sh, t) ==
  /\ ty[t] # None /\ rs[ty[t]].refs = 1
  /\ \A u \in Names \ {t} : ty[u] = tx[u]
  /\ \A u \in Names : tx[u] # None
       => ty[u] # None /\ (sh[tx[u]].refs = 1 => rs[ty[u]].refs = 1)

\* A text that shares takes a copy for itself.
LEMMA DetachedIs ==
  ASSUME Countable, NEW tx, NEW sh, NEW lv, NEW ow, Good(tx, sh, lv, ow),
         NEW t \in Names, tx[t] # None, Len(lv) = Depth
  PROVE  LET r == Detached(St(tx, sh, lv), t) IN
         /\ r = St(r.texts, r.shares, lv) /\ Good(r.texts, r.shares, lv, ow)
         /\ Alone(r.texts, r.shares, tx, sh, t)
<1>1. PICK id : id = tx[t]
  OBVIOUS
<1>2. PICK r : r = Detached(St(tx, sh, lv), t)
  OBVIOUS
<1>3. /\ tx \in [Names -> Nat] /\ sh \in Maps(Share) /\ ow \in [Names -> Seq(Elems)]
      /\ id \in DOMAIN sh /\ sh[id].items = ow[t] /\ Holding(tx, sh, ow)
  BY <1>1 DEF Good, TextTyped, Holding
<1>4. sh[id].refs \in Nat \ {0} /\ sh[id].items \in Seq(Elems) /\ DOMAIN sh \subseteq Ids
  BY <1>3, SharesIn
<1>5. CASE sh[id].refs <= 1
  <2>1. r = St(tx, sh, lv)
    BY <1>1, <1>2, <1>5 DEF Detached, St
  <2>2. sh[id].refs = 1
    BY <1>4, <1>5
  <2>. QED  BY <1>1, <1>2, <2>1, <2>2 DEF St, Alone
<1>6. CASE sh[id].refs > 1
  <2>1. PICK new : new = FreeId(sh)
    OBVIOUS
  <2>2. new \in Ids /\ new \notin DOMAIN sh /\ new # None
    BY <2>1, FreeIdIs, IdsAre
  <2>3. PICK ty : ty = [tx EXCEPT ![t] = None]
    OBVIOUS
  <2>4. PICK rs : rs = Released(sh, id)
    OBVIOUS
  <2>6. Good(ty, rs, lv, ow)
    BY <1>1, <2>3, <2>4, LetGo
  <2>7. /\ DOMAIN rs = DOMAIN sh /\ rs \in Maps(Share)
        /\ \A i \in DOMAIN sh \ {id} : rs[i].refs = sh[i].refs
    <3>1. /\ rs \in Maps(Share)
          /\ DOMAIN rs = IF sh[id].refs = 1 THEN DOMAIN sh \ {id} ELSE DOMAIN sh
          /\ \A i \in DOMAIN rs : rs[i].refs = IF i = id THEN sh[i].refs - 1 ELSE sh[i].refs
      BY <1>3, <2>4, ReleasedIs
    <3>2. DOMAIN rs = DOMAIN sh
      BY <1>4, <1>6, <3>1
    <3>. QED  BY <3>1, <3>2
  <2>8. PICK items : items = sh[id].items
    OBVIOUS
  <2>9. PICK rt : rt = SetOf(rs, new, NewShare(items))
    OBVIOUS
  <2>10. PICK tz : tz = [ty EXCEPT ![t] = new]
    OBVIOUS
  <2>11. ty[t] = None /\ items \in Seq(Elems)
    BY <1>3, <1>4, <2>3, <2>8
  <2>12. Good(tz, rt, lv, [ow EXCEPT ![t] = items])
    BY <2>2, <2>6, <2>7, <2>9, <2>10, <2>11, Given
  <2>13. [ow EXCEPT ![t] = items] = ow
    BY <1>3, <2>8
  <2>14. tz = [tx EXCEPT ![t] = new] /\ tz[t] = new /\ \A u \in Names \ {t} : tz[u] = tx[u]
    BY <1>3, <2>3, <2>10
  <2>15. r = St(tz, rt, lv)
    <3>1. r = [St(tx, sh, lv) EXCEPT !.texts[t] = new,
                 !.shares = SetOf(rs, new, NewShare(items))]
      BY <1>1, <1>2, <1>4, <1>6, <2>1, <2>4, <2>8 DEF Detached, St
    <3>2. r = St([tx EXCEPT ![t] = new], SetOf(rs, new, NewShare(items)), lv)
      BY <3>1 DEF St
    <3>. QED  BY <2>9, <2>14, <3>2
  <2>16. /\ rt[new].refs = 1 /\ \A i \in DOMAIN sh : rt[i] = rs[i]
    <3>1. NewShare(items) \in Share /\ NewShare(items).refs = 1
      <4>1. lv \in Seq(Level) /\ Len(lv) \in Nat
        BY DEF Good, TextTyped
      <4>. QED  BY <2>11, <4>1 DEF NewShare, Share
    <3>2. Sets(rt, rs, Share, new, NewShare(items))
      BY <2>2, <2>7, <2>9, <3>1, SetIs
    <3>. QED  BY <2>2, <2>7, <3>1, <3>2 DEF Sets
  <2>17. Alone(tz, rt, tx, sh, t)
    <3>1. ASSUME NEW u \in Names, tx[u] # None, u # t, sh[tx[u]].refs = 1
          PROVE  rt[tx[u]].refs = 1
      <4>1. tx[u] \in DOMAIN sh /\ tx[u] # id
        BY <1>3, <1>6, <3>1 DEF Holding
      <4>. QED  BY <2>7, <2>16, <3>1, <4>1
    <3>. QED  BY <2>2, <2>14, <2>16, <3>1 DEF Alone
  <2>. QED  BY <1>2, <2>12, <2>13, <2>15, <2>17 DEF St
<1>. QED  BY <1>4, <1>5, <1>6

\* A text that has its share to itself is written: the level keeps the old root.
LEMMA WrittenIs ==
  ASSUME Countable, NEW tx, NEW sh, NEW lv, NEW ow, Good(tx, sh, lv, ow),
         NEW t \in Names, tx[t] # None, sh[tx[t]].refs = 1,
         Len(lv) = Depth, Len(lv) # 0, NEW items \in Seq(Elems)
  PROVE  LET r == Written(St(tx, sh, lv), t, items) IN
         /\ r = St(tx, r.shares, r.levels) /\ Len(r.levels) = Depth
         /\ Good(tx, r.shares, r.levels, [ow EXCEPT ![t] = items])
         /\ \A i \in DOMAIN sh : r.shares[i].refs = sh[i].refs
<1>1. PICK id : id = tx[t]
  OBVIOUS
<1>2. PICK rs : rs = [sh EXCEPT ![id].items = items]
  OBVIOUS
<1>3. PICK lw : lw = Shadowed(lv, id, sh[id].items)
  OBVIOUS
<1>4. PICK r : r = Written(St(tx, sh, lv), t, items)
  OBVIOUS
<1>5. r = St(tx, rs, lw)
  <2>1. r = [St(tx, sh, lv) EXCEPT !.shares[id].items = items,
                !.levels[Depth].shadow =
                   IF id \in DOMAIN lv[Depth].shadow THEN lv[Depth].shadow
                   ELSE SetOf(lv[Depth].shadow, id, sh[id].items)]
    BY <1>1, <1>4 DEF Written, St
  <2>2. r = St(tx, [sh EXCEPT ![id].items = items],
                [lv EXCEPT ![Depth].shadow =
                   IF id \in DOMAIN lv[Depth].shadow THEN lv[Depth].shadow
                   ELSE SetOf(lv[Depth].shadow, id, sh[id].items)])
    BY <2>1 DEF St
  <2>3. Depth \in 1 .. Len(lv) /\ lv \in Seq(Level)
    BY DEF Good, TextTyped
  <2>. QED  BY <1>2, <1>3, <2>2, <2>3 DEF Shadowed
<1>6. /\ Good(tx, rs, lw, [ow EXCEPT ![t] = items])
      /\ \A i \in DOMAIN sh : rs[i].refs = sh[i].refs
  <2>1. /\ Good(tx, [sh EXCEPT ![tx[t]].items = items],
                Shadowed(lv, tx[t], sh[tx[t]].items), [ow EXCEPT ![t] = items])
        /\ \A i \in DOMAIN sh : [sh EXCEPT ![tx[t]].items = items][i].refs = sh[i].refs
    BY Rewritten
  <2>. QED  BY <1>1, <1>2, <1>3, <2>1
<1>7. Len(lw) = Len(lv)
  <2>1. lv \in Seq(Level) /\ sh \in Maps(Share) /\ id \in DOMAIN sh
    BY <1>1 DEF Good, TextTyped, Holding
  <2>2. id \in Ids /\ sh[id].items \in Seq(Elems)
    BY <2>1, SharesIn
  <2>3. ShadowsIn(lw, lv, id, sh[id].items)
    BY <1>3, <2>1, <2>2, ShadowedIs
  <2>. QED  BY <2>3 DEF ShadowsIn
<1>. QED  BY <1>4, <1>5, <1>6, <1>7 DEF St

---------------------------------------------------------------------------
(* The writes of one text.                                                 *)

LEMMA TextsAre ==
  ASSUME TextInv
  PROVE  /\ texts \in [Names -> Nat] /\ shares \in Maps(Share) /\ levels \in Seq(Level)
         /\ own \in [Names -> Seq(Elems)] /\ Depth \in Nat /\ Len(levels) = Depth
         /\ Holding(texts, shares, own) /\ State = St(texts, shares, levels)
         /\ \A t \in Names : t \in Live <=> texts[t] # None
         /\ \A t \in Live : /\ t \in Names /\ Held(t) \in Seq(Elems) /\ Len(Held(t)) \in Nat
                            /\ Held(t) = own[t]
<1>1. /\ texts \in [Names -> Nat] /\ shares \in Maps(Share) /\ levels \in Seq(Level)
      /\ own \in [Names -> Seq(Elems)] /\ Holding(texts, shares, own)
  BY DEF TextInv, Good, TextTyped
<1>2. Depth \in Nat /\ Len(levels) = Depth
  BY <1>1 DEF Depth
<1>3. \A t \in Names : t \in Live <=> texts[t] # None
  BY DEF Live
<1>4. \A t \in Live : t \in Names /\ Held(t) = own[t]
  BY <1>1, <1>3 DEF Live, Holding, Held
<1>5. \A t \in Live : Held(t) \in Seq(Elems) /\ Len(Held(t)) \in Nat
  BY <1>1, <1>4
<1>. QED  BY <1>1, <1>2, <1>3, <1>4, <1>5 DEF State, St

LEMMA EditKeeps ==
  ASSUME Countable, TextInv, NEW t \in Names, NEW items \in Seq(Elems), Edit(t, items)
  PROVE  TextInv'
<1>1. /\ Len(levels) = Depth /\ Depth # 0 /\ texts[t] # None
      /\ Good(texts, shares, levels, own) /\ State = St(texts, shares, levels)
  BY TextsAre DEF Edit, TextInv
<1>2. PICK d : d = Detached(State, t)
  OBVIOUS
<1>3. /\ d = St(d.texts, d.shares, levels) /\ Good(d.texts, d.shares, levels, own)
      /\ d.texts[t] # None /\ d.shares[d.texts[t]].refs = 1
  BY <1>1, <1>2, DetachedIs DEF Alone
<1>4. PICK r : r = Written(d, t, items)
  OBVIOUS
<1>5. /\ r = St(d.texts, r.shares, r.levels)
      /\ Good(d.texts, r.shares, r.levels, [own EXCEPT ![t] = items])
  <2>1. PICK tx, sh : tx = d.texts /\ sh = d.shares
    OBVIOUS
  <2>2. d = St(tx, sh, levels) /\ Good(tx, sh, levels, own) /\ tx[t] # None /\ sh[tx[t]].refs = 1
    BY <1>3, <2>1
  <2>3. LET q == Written(St(tx, sh, levels), t, items) IN
        q = St(tx, q.shares, q.levels) /\ Good(tx, q.shares, q.levels, [own EXCEPT ![t] = items])
    BY <1>1, <2>2, WrittenIs
  <2>. QED  BY <1>4, <2>1, <2>2, <2>3
<1>6. /\ texts' = r.texts /\ shares' = r.shares /\ levels' = r.levels
      /\ own' = [own EXCEPT ![t] = items]
  BY <1>2, <1>4 DEF Edit, Become
<1>7. r.texts = d.texts
  BY <1>5 DEF St
<1>. QED  BY <1>5, <1>6, <1>7 DEF TextInv

\* A pop that finds nothing has detached the text, and a pop that finds something has
\* written it.
LEMMA PopKeeps ==
  ASSUME Countable, TextInv, NEW t \in Live, NEW rest \in Seq(Elems), TextPop(t, rest)
  PROVE  TextInv'
<1>1. CASE Held(t) # <<>>
  BY <1>1, EditKeeps, TextsAre DEF TextPop
<1>2. CASE Held(t) = <<>>
  <2>1. /\ Len(levels) = Depth /\ texts[t] # None /\ t \in Names
        /\ Good(texts, shares, levels, own) /\ State = St(texts, shares, levels)
    BY TextsAre DEF TextInv, Live
  <2>2. PICK d : d = Detached(State, t)
    OBVIOUS
  <2>3. d = St(d.texts, d.shares, levels) /\ Good(d.texts, d.shares, levels, own)
    BY <2>1, <2>2, DetachedIs
  <2>4. texts' = d.texts /\ shares' = d.shares /\ levels' = d.levels /\ own' = own
    BY <1>2, <2>2 DEF TextPop, Become
  <2>5. d.levels = levels
    BY <2>3 DEF St
  <2>. QED  BY <2>3, <2>4, <2>5 DEF TextInv
<1>. QED  BY <1>1, <1>2

\* What is left of a text is a text.
LEMMA CutsAre ==
  ASSUME NEW s \in Seq(Elems), NEW i \in Nat
  PROVE  /\ Len(s) \in Nat /\ <<>> \in Seq(Elems)
         /\ i <= Len(s) => /\ SubSeq(s, 1, i) \in Seq(Elems)
                           /\ SubSeq(s, i + 1, Len(s)) \in Seq(Elems)
         /\ i < Len(s) => RemoveAt(s, i + 1) \in Seq(Elems)
         /\ s # <<>> => Tail(s) \in Seq(Elems) /\ Front(s) \in Seq(Elems)
<1>1. Len(s) \in Nat /\ <<>> \in Seq(Elems)
  OBVIOUS
<1>2. ASSUME NEW a \in Nat, NEW b \in Nat, a >= 1, b <= Len(s) PROVE SubSeq(s, a, b) \in Seq(Elems)
  BY <1>1, <1>2
<1>3. i <= Len(s) => SubSeq(s, 1, i) \in Seq(Elems) /\ SubSeq(s, i + 1, Len(s)) \in Seq(Elems)
  BY <1>1, <1>2
<1>4. i < Len(s) => RemoveAt(s, i + 1) \in Seq(Elems)
  <2>1. i + 1 - 1 = i /\ i + 1 + 1 \in Nat /\ i + 1 + 1 >= 1
    OBVIOUS
  <2>2. i < Len(s) => /\ SubSeq(s, 1, i) \in Seq(Elems)
                      /\ SubSeq(s, i + 1 + 1, Len(s)) \in Seq(Elems)
    BY <1>1, <1>2, <1>3, <2>1
  <2>. QED  BY <2>1, <2>2 DEF RemoveAt
<1>5. s # <<>> => Tail(s) \in Seq(Elems) /\ Front(s) \in Seq(Elems)
  <2>1. s # <<>> => Tail(s) \in Seq(Elems)
    OBVIOUS
  <2>2. s # <<>> => Len(s) - 1 \in Nat
    BY <1>1
  <2>3. s # <<>> => SubSeq(s, 1, Len(s) - 1) \in Seq(Elems)
    BY <1>1, <1>2, <2>2
  <2>. QED  BY <2>1, <2>3 DEF Front
<1>. QED  BY <1>1, <1>3, <1>4, <1>5

\* What the writes write is a text.
LEMMA WritesAre ==
  ASSUME NEW s \in Seq(Elems), NEW e \in Elems, NEW i \in Nat
  PROVE  /\ <<e>> \in Seq(Elems) /\ <<e>> \o s \in Seq(Elems) /\ Append(s, e) \in Seq(Elems)
         /\ i < Len(s) => [s EXCEPT ![i + 1] = e] \in Seq(Elems)
         /\ i <= Len(s) => InsertAt(s, i + 1, e) \in Seq(Elems)
<1>1. Len(s) \in Nat /\ <<e>> \in Seq(Elems)
  OBVIOUS
<1>2. <<e>> \o s \in Seq(Elems) /\ Append(s, e) \in Seq(Elems)
  BY <1>1
<1>3. i < Len(s) => [s EXCEPT ![i + 1] = e] \in Seq(Elems)
  BY <1>1
<1>4. i <= Len(s) => InsertAt(s, i + 1, e) \in Seq(Elems)
  <2>1. i + 1 - 1 = i
    OBVIOUS
  <2>. QED  BY <1>1, <2>1, CutsAre DEF InsertAt
<1>. QED  BY <1>1, <1>2, <1>3, <1>4

---------------------------------------------------------------------------
(* Concatenation, split and replacement.                                   *)

LEMMA ConcatKeeps ==
  ASSUME Countable, TextInv, NEW t \in Live, NEW u \in Live, TextConcat(t, u)
  PROVE  TextInv'
<1>1. /\ Len(levels) = Depth /\ Depth # 0 /\ t # u /\ t \in Names /\ u \in Names
      /\ texts[t] # None /\ texts[u] # None
      /\ Good(texts, shares, levels, own) /\ State = St(texts, shares, levels)
  BY TextsAre DEF TextConcat, TextInv
<1>2. PICK both : both = Held(t) \o Held(u)
  OBVIOUS
<1>3. both \in Seq(Elems) /\ <<>> \in Seq(Elems)
  BY <1>2, TextsAre
<1>4. PICK c : c = Detached(State, u)
  OBVIOUS
<1>5. /\ c = St(c.texts, c.shares, levels) /\ Good(c.texts, c.shares, levels, own)
      /\ Alone(c.texts, c.shares, texts, shares, u)
  BY <1>1, <1>4, DetachedIs
<1>6. c.texts[u] # None /\ c.shares[c.texts[u]].refs = 1 /\ c.texts[t] # None
  BY <1>1, <1>5 DEF Alone
<1>7. PICK d : d = Detached(c, t)
  OBVIOUS
<1>8. PICK cx, cs : cx = c.texts /\ cs = c.shares
  OBVIOUS
<1>9. PICK tx, sh : tx = d.texts /\ sh = d.shares
  OBVIOUS
<1>10. d = St(tx, sh, levels) /\ Good(tx, sh, levels, own) /\ Alone(tx, sh, cx, cs, t)
  <2>1. c = St(cx, cs, levels) /\ Good(cx, cs, levels, own) /\ cx[t] # None
    BY <1>5, <1>6, <1>8
  <2>2. LET q == Detached(St(cx, cs, levels), t) IN
        /\ q = St(q.texts, q.shares, levels) /\ Good(q.texts, q.shares, levels, own)
        /\ Alone(q.texts, q.shares, cx, cs, t)
    BY <1>1, <2>1, DetachedIs
  <2>. QED  BY <1>7, <1>9, <2>1, <2>2
<1>11. tx[t] # None /\ sh[tx[t]].refs = 1 /\ tx[u] # None /\ sh[tx[u]].refs = 1
  BY <1>1, <1>6, <1>8, <1>10 DEF Alone
<1>12. PICK v : v = Written(d, t, both)
  OBVIOUS
<1>13. PICK rs, lw, ow : rs = v.shares /\ lw = v.levels /\ ow = [own EXCEPT ![t] = both]
  OBVIOUS
<1>14. /\ v = St(tx, rs, lw) /\ Len(lw) = Depth /\ Good(tx, rs, lw, ow)
       /\ \A i \in DOMAIN sh : rs[i].refs = sh[i].refs
  <2>1. LET q == Written(St(tx, sh, levels), t, both) IN
        /\ q = St(tx, q.shares, q.levels) /\ Len(q.levels) = Depth
        /\ Good(tx, q.shares, q.levels, [own EXCEPT ![t] = both])
        /\ \A i \in DOMAIN sh : q.shares[i].refs = sh[i].refs
    BY <1>1, <1>3, <1>10, <1>11, WrittenIs
  <2>. QED  BY <1>10, <1>12, <1>13, <2>1
<1>15. rs[tx[u]].refs = 1
  BY <1>1, <1>10, <1>11, <1>14 DEF Good, Holding
<1>16. PICK w : w = Written(v, u, <<>>)
  OBVIOUS
<1>17. /\ w = St(tx, w.shares, w.levels)
       /\ Good(tx, w.shares, w.levels, [ow EXCEPT ![u] = <<>>])
  <2>1. PICK nil : nil = <<>>
    OBVIOUS
  <2>2. LET q == Written(St(tx, rs, lw), u, nil) IN
        /\ q = St(tx, q.shares, q.levels)
        /\ Good(tx, q.shares, q.levels, [ow EXCEPT ![u] = nil])
    <3>1. /\ Good(tx, rs, lw, ow) /\ u \in Names /\ tx[u] # None /\ rs[tx[u]].refs = 1
          /\ Len(lw) = Depth /\ Len(lw) # 0 /\ nil \in Seq(Elems)
      BY <1>1, <1>3, <1>11, <1>14, <1>15, <2>1
    <3>. QED  BY <3>1, WrittenIs
  <2>. QED  BY <1>14, <1>16, <2>1, <2>2
<1>18. /\ texts' = w.texts /\ shares' = w.shares /\ levels' = w.levels
       /\ own' = [own EXCEPT ![t] = both, ![u] = <<>>]
  BY <1>2, <1>4, <1>7, <1>12, <1>16 DEF TextConcat, Become
<1>19. w.texts = tx /\ [ow EXCEPT ![u] = <<>>] = [own EXCEPT ![t] = both, ![u] = <<>>]
  BY <1>13, <1>17 DEF St
<1>. QED  BY <1>17, <1>18, <1>19 DEF TextInv

LEMMA SplitKeeps ==
  ASSUME Countable, TextInv, NEW t \in Live, NEW i \in Nat, NEW l \in Names, NEW r \in Names,
         TextSplitAt(t, i, l, r)
  PROVE  TextInv'
<1>1. /\ Len(levels) = Depth /\ Depth # 0 /\ t \in Names /\ texts[t] # None
      /\ Good(texts, shares, levels, own) /\ State = St(texts, shares, levels)
  BY TextsAre DEF TextSplitAt, TextInv
<1>2. l # t /\ r # t /\ l # r /\ texts[l] = None /\ texts[r] = None
  BY TextsAre DEF TextSplitAt, Unused
<1>3. PICK left, right : /\ left = SubSeq(Held(t), 1, i)
                         /\ right = SubSeq(Held(t), i + 1, Len(Held(t)))
  OBVIOUS
<1>4. left \in Seq(Elems) /\ right \in Seq(Elems) /\ <<>> \in Seq(Elems)
  BY <1>3, TextsAre, CutsAre DEF TextSplitAt
<1>5. PICK d : d = Detached(State, t)
  OBVIOUS
<1>6. PICK tx, sh : tx = d.texts /\ sh = d.shares
  OBVIOUS
<1>7. d = St(tx, sh, levels) /\ Good(tx, sh, levels, own) /\ Alone(tx, sh, texts, shares, t)
  BY <1>1, <1>5, <1>6, DetachedIs
<1>8. /\ tx[t] # None /\ sh[tx[t]].refs = 1 /\ tx[l] = None /\ tx[r] = None
  BY <1>2, <1>7 DEF Alone
<1>9. PICK s : s = Written(d, t, <<>>)
  OBVIOUS
<1>10. PICK rs, lw, ow : rs = s.shares /\ lw = s.levels /\ ow = [own EXCEPT ![t] = <<>>]
  OBVIOUS
<1>11. s = St(tx, rs, lw) /\ Len(lw) = Depth /\ Good(tx, rs, lw, ow)
  <2>1. PICK nil : nil = <<>>
    OBVIOUS
  <2>2. LET q == Written(St(tx, sh, levels), t, nil) IN
        /\ q = St(tx, q.shares, q.levels) /\ Len(q.levels) = Depth
        /\ Good(tx, q.shares, q.levels, [own EXCEPT ![t] = nil])
    <3>1. /\ Good(tx, sh, levels, own) /\ tx[t] # None /\ sh[tx[t]].refs = 1
          /\ t \in Names /\ Len(levels) = Depth /\ Len(levels) # 0 /\ nil \in Seq(Elems)
      BY <1>1, <1>4, <1>7, <1>8, <2>1
    <3>. QED  BY <3>1, WrittenIs
  <2>. QED  BY <1>7, <1>9, <1>10, <2>1, <2>2
<1>12. PICK il, sl : il = FreeId(rs) /\ sl = SetOf(rs, il, NewShare(left))
  OBVIOUS
<1>13. PICK tl, ol : tl = [tx EXCEPT ![l] = il] /\ ol = [ow EXCEPT ![l] = left]
  OBVIOUS
<1>14. Good(tl, sl, lw, ol)
  <2>1. il \in Ids /\ il \notin DOMAIN rs
    BY <1>11, <1>12, FreeIdIs
  <2>. QED  BY <1>4, <1>8, <1>11, <1>12, <1>13, <2>1, Given
<1>15. PICK ir, sr : ir = FreeId(sl) /\ sr = SetOf(sl, ir, NewShare(right))
  OBVIOUS
<1>16. PICK tr, or : tr = [tl EXCEPT ![r] = ir] /\ or = [ol EXCEPT ![r] = right]
  OBVIOUS
<1>17. Good(tr, sr, lw, or)
  <2>1. ir \in Ids /\ ir \notin DOMAIN sl
    BY <1>14, <1>15, FreeIdIs
  <2>2. tl[r] = None
    BY <1>2, <1>8, <1>11, <1>13 DEF Good, TextTyped
  <2>. QED  BY <1>4, <1>11, <1>14, <1>15, <1>16, <2>1, <2>2, Given
<1>18. s.shares = rs /\ s.texts = tx /\ s.levels = lw
  BY <1>11 DEF St
<1>19. /\ Become([s EXCEPT !.texts[l] = il, !.texts[r] = ir, !.shares = sr],
                 [own EXCEPT ![t] = <<>>, ![l] = left, ![r] = right])
  BY <1>3, <1>5, <1>9, <1>12, <1>15, <1>18 DEF TextSplitAt
<1>20. [s EXCEPT !.texts[l] = il, !.texts[r] = ir, !.shares = sr] = St(tr, sr, lw)
  <2>1. [s EXCEPT !.texts[l] = il] = St(tl, rs, lw)
    BY <1>11, <1>13 DEF St
  <2>2. [St(tl, rs, lw) EXCEPT !.texts[r] = ir] = St(tr, rs, lw)
    BY <1>16 DEF St
  <2>3. [St(tr, rs, lw) EXCEPT !.shares = sr] = St(tr, sr, lw)
    BY DEF St
  <2>. QED  BY <2>1, <2>2, <2>3
<1>21. texts' = tr /\ shares' = sr /\ levels' = lw
  BY <1>19, <1>20 DEF Become, St
<1>22. own' = or
  BY <1>10, <1>13, <1>16, <1>19 DEF Become
<1>. QED  BY <1>17, <1>21, <1>22 DEF TextInv

LEMMA FromUtf8Keeps ==
  ASSUME Countable, TextInv, NEW t \in Live, NEW items \in Seq(Elems), TextFromUtf8(t, items)
  PROVE  TextInv'
<1>1. /\ Len(levels) = Depth /\ t \in Names /\ texts[t] # None
      /\ Good(texts, shares, levels, own) /\ texts \in [Names -> Nat]
      /\ shares \in Maps(Share) /\ texts[t] \in DOMAIN shares /\ levels \in Seq(Level)
  BY TextsAre DEF TextInv, Holding
<1>2. PICK id : id = texts[t]
  OBVIOUS
<1>3. PICK new : new = FreeId(shares)
  OBVIOUS
<1>4. PICK rs : rs = Released(shares, id)
  OBVIOUS
<1>5. PICK lw : lw = IF shares[id].refs # 1 THEN levels ELSE Forgotten(levels, id)
  OBVIOUS
<1>6. PICK ty : ty = [texts EXCEPT ![t] = None]
  OBVIOUS
<1>7. Good(ty, rs, lw, own)
  BY <1>1, <1>2, <1>4, <1>5, <1>6, LetGo
<1>8. new \in Ids /\ new \notin DOMAIN rs
  <2>1. new \in Ids /\ new \notin DOMAIN shares
    BY <1>1, <1>3, FreeIdIs
  <2>2. DOMAIN rs = IF shares[id].refs = 1 THEN DOMAIN shares \ {id} ELSE DOMAIN shares
    <3>1. shares \in Maps(Share) /\ id \in DOMAIN shares
      BY <1>1, <1>2
    <3>. QED  BY <1>4, <3>1, ReleasedIs
  <2>. QED  BY <2>1, <2>2
<1>9. Len(lw) = Depth /\ ty[t] = None
  BY <1>1, <1>5, <1>6, ForgottenIs
<1>10. Good([ty EXCEPT ![t] = new], SetOf(rs, new, NewShare(items)), lw, [own EXCEPT ![t] = items])
  BY <1>1, <1>7, <1>8, <1>9, Given
<1>11. [ty EXCEPT ![t] = new] = [texts EXCEPT ![t] = new]
  BY <1>1, <1>6
<1>12. /\ texts' = [texts EXCEPT ![t] = new] /\ shares' = SetOf(rs, new, NewShare(items))
       /\ levels' = lw /\ own' = [own EXCEPT ![t] = items]
  BY <1>2, <1>3, <1>4, <1>5 DEF TextFromUtf8, Become, Forgotten
<1>. QED  BY <1>10, <1>11, <1>12 DEF TextInv

---------------------------------------------------------------------------
(* Texts come, are shared and go, while no transaction is open.            *)

LEMMA NewKeeps ==
  ASSUME Countable, TextInv, NEW t \in Names, TextNew(t)
  PROVE  TextInv'
<1>1. PICK id, nil : id = FreeId(shares) /\ nil = <<>>
  OBVIOUS
<1>2. /\ Good(texts, shares, levels, own) /\ texts[t] = None /\ Len(levels) = Depth
      /\ nil \in Seq(Elems)
  BY <1>1, TextsAre DEF TextInv, TextNew
<1>3. id \in Ids /\ id \notin DOMAIN shares
  BY <1>1, <1>2, FreeIdIs
<1>4. Good([texts EXCEPT ![t] = id], SetOf(shares, id, NewShare(nil)), levels,
           [own EXCEPT ![t] = nil])
  BY <1>2, <1>3, Given
<1>. QED  BY <1>1, <1>4 DEF TextInv, TextNew

LEMMA CloneKeeps ==
  ASSUME Countable, TextInv, NEW t \in Names, NEW u \in Names, TextClone(t, u)
  PROVE  TextInv'
<1>1. /\ texts \in [Names -> Nat] /\ shares \in Maps(Share) /\ levels \in Seq(Level)
      /\ own \in [Names -> Seq(Elems)] /\ Holding(texts, shares, own)
      /\ Referred(texts, shares) /\ Len(levels) = 0
      /\ texts[t] = None /\ texts[u] # None
  BY TextsAre DEF TextInv, Good, TextClone
<1>2. PICK id : id = texts[u]
  OBVIOUS
<1>3. PICK y : y = [shares[id] EXCEPT !.refs = @ + 1]
  OBVIOUS
<1>4. PICK rs : rs = [shares EXCEPT ![id] = y]
  OBVIOUS
<1>5. id \in DOMAIN shares /\ id \in Nat /\ id # None
  BY <1>1, <1>2 DEF Holding
<1>6. y \in Share /\ y.items = shares[id].items /\ y.refs = shares[id].refs + 1
  <2>1. /\ shares[id].items \in Seq(Elems) /\ shares[id].refs \in Nat \ {0}
        /\ shares[id].born \in Nat
        /\ shares[id] = [items |-> shares[id].items, refs |-> shares[id].refs,
                         born |-> shares[id].born]
    BY <1>1, <1>5, SharesIn
  <2>2. y = [items |-> shares[id].items, refs |-> shares[id].refs + 1, born |-> shares[id].born]
    BY <1>3, <2>1
  <2>. QED  BY <2>1, <2>2 DEF Share
<1>7. /\ rs \in Maps(Share) /\ DOMAIN rs = DOMAIN shares /\ rs[id] = y
      /\ \A i \in DOMAIN shares \ {id} : rs[i] = shares[i]
  <2>1. Sets(rs, shares, Share, id, y)
    BY <1>1, <1>4, <1>5, <1>6, ExceptIs
  <2>. QED  BY <1>5, <2>1 DEF Sets
<1>8. PICK ty : ty = [texts EXCEPT ![t] = id]
  OBVIOUS
<1>9. ty \in [Names -> Nat] /\ ty[t] = id /\ \A x \in Names \ {t} : ty[x] = texts[x]
  BY <1>1, <1>5, <1>8
<1>10. PICK ow : ow = [own EXCEPT ![t] = own[u]]
  OBVIOUS
<1>11. ow \in [Names -> Seq(Elems)] /\ ow[t] = own[u] /\ \A x \in Names \ {t} : ow[x] = own[x]
  BY <1>1, <1>10
<1>12. TextTyped(ty, rs, levels, ow)
  BY <1>1, <1>7, <1>9, <1>11 DEF TextTyped
<1>13. Holding(ty, rs, ow)
  <2>. SUFFICES ASSUME NEW v \in Names, ty[v] # None
                PROVE  ty[v] \in DOMAIN rs /\ rs[ty[v]].items = ow[v]
    BY DEF Holding
  <2>1. PICK w \in Names : ty[v] = texts[w] /\ ow[v] = own[w]
    BY <1>2, <1>9, <1>11
  <2>2. texts[w] \in DOMAIN shares /\ shares[texts[w]].items = own[w]
    BY <1>1, <2>1 DEF Holding
  <2>3. rs[texts[w]].items = shares[texts[w]].items /\ texts[w] \in DOMAIN rs
    BY <1>6, <1>7, <2>2
  <2>. QED  BY <2>1, <2>2, <2>3
<1>14. Referred(ty, rs)
  <2>. SUFFICES ASSUME NEW i \in DOMAIN rs PROVE rs[i].refs = Cardinality(Users(ty, i))
    BY DEF Referred
  <2>1. i # None /\ shares[i].refs = Cardinality(Users(texts, i))
    BY <1>1, <1>7, SharesIn, IdsAre DEF Referred
  <2>2. CASE i = id
    <3>1. Cardinality(Users(ty, i)) = Cardinality(Users(texts, i)) + 1
      BY <1>1, <1>5, <1>8, <2>1, <2>2, UsersMoved
    <3>. QED  BY <1>6, <1>7, <2>1, <2>2, <3>1
  <2>3. CASE i # id
    <3>1. Users(ty, i) = Users(texts, i)
      <4>1. \A v \in Names : texts[v] = i <=> ty[v] = i
        BY <1>1, <1>9, <2>1, <2>3
      <4>. QED  BY <4>1, UsersKept
    <3>. QED  BY <1>7, <2>1, <2>3, <3>1
  <2>. QED  BY <2>2, <2>3
<1>15. GivesBack(ty, rs, levels)
  BY <1>1 DEF GivesBack
<1>16. texts' = ty /\ shares' = rs /\ levels' = levels /\ own' = ow
  BY <1>2, <1>3, <1>4, <1>8, <1>10 DEF TextClone
<1>. QED  BY <1>12, <1>13, <1>14, <1>15, <1>16 DEF TextInv, Good

LEMMA FreeKeeps ==
  ASSUME Countable, TextInv, NEW t \in Live, TextFree(t)
  PROVE  TextInv'
<1>1. /\ Good(texts, shares, levels, own) /\ t \in Names /\ texts[t] # None
      /\ texts \in [Names -> Nat] /\ own \in [Names -> Seq(Elems)]
  BY TextsAre DEF TextInv
<1>2. PICK ty, rs, ow : /\ ty = [texts EXCEPT ![t] = None]
                        /\ rs = Released(shares, texts[t]) /\ ow = [own EXCEPT ![t] = <<>>]
  OBVIOUS
<1>3. Good(ty, rs, levels, own)
  BY <1>1, <1>2, LetGo
<1>4. ty[t] = None /\ ow \in [Names -> Seq(Elems)] /\ \A u \in Names \ {t} : ow[u] = own[u]
  BY <1>1, <1>2
<1>5. Good(ty, rs, levels, ow)
  BY <1>3, <1>4 DEF Good, TextTyped, Holding
<1>. QED  BY <1>2, <1>5 DEF TextInv, TextFree

---------------------------------------------------------------------------
(* Transactions of the sequences.                                          *)

LEMMA BeginGives ==
  ASSUME Countable, TextInv, levels' = Append(levels, [shadow |-> <<>>, own |-> own]),
         UNCHANGED <<texts, shares, own>>
  PROVE  TextInv'
<1>1. /\ TextTyped(texts, shares, levels, own) /\ Holding(texts, shares, own)
      /\ Referred(texts, shares) /\ GivesBack(texts, shares, levels)
      /\ levels \in Seq(Level) /\ own \in [Names -> Seq(Elems)]
      /\ texts \in [Names -> Nat] /\ shares \in Maps(Share)
  BY DEF TextInv, Good, TextTyped
<1>2. PICK d, new, lw : /\ d = Len(levels) /\ new = [shadow |-> <<>>, own |-> own]
                        /\ lw = Append(levels, new)
  OBVIOUS
<1>3. new \in Level /\ DOMAIN new.shadow = {} /\ new.own = own
  <2>1. PICK nil : nil = <<>>
    OBVIOUS
  <2>2. nil = [i \in DOMAIN nil |-> nil[i]] /\ DOMAIN nil = {}
    BY <2>1
  <2>3. nil \in Maps(Seq(Elems))
    BY <2>2, MapIs, Zenon
  <2>. QED  BY <1>1, <1>2, <2>1, <2>2, <2>3 DEF Level
<1>4. /\ lw \in Seq(Level) /\ Len(lw) = d + 1 /\ lw[d + 1] = new /\ d \in Nat
      /\ \A n \in 1 .. d : lw[n] = levels[n]
  BY <1>1, <1>2, <1>3
<1>5. GivesBack(texts, shares, lw)
  <2>. SUFFICES ASSUME NEW n \in 1 .. Len(lw), NEW t \in Names, texts[t] # None,
                       shares[texts[t]].born < n
                PROVE  Restores(shares, lw, n, texts[t], lw[n].own[t])
    BY DEF GivesBack
  <2>1. PICK id, v : id = texts[t] /\ v = lw[n].own[t]
    OBVIOUS
  <2>2. shares[id].items = own[t]
    BY <1>1, <2>1 DEF Holding
  <2>3. CASE n = d + 1
    <3>1. v = own[t] /\ n .. Len(lw) = {n} /\ DOMAIN lw[n].shadow = {}
      BY <1>3, <1>4, <2>1, <2>3
    <3>. QED  BY <2>1, <2>2, <3>1 DEF Restores
  <2>4. CASE n \in 1 .. d
    <3>1. Restores(shares, levels, n, id, v)
      BY <1>1, <1>2, <1>4, <2>1, <2>4 DEF GivesBack
    <3>2. /\ n .. Len(lw) = (n .. d) \cup {d + 1} /\ n \in Nat /\ id \notin DOMAIN lw[d + 1].shadow
          /\ \A k \in n .. d : lw[k] = levels[k]
      <4>1. n \in Nat /\ n <= d /\ d \in Nat /\ 1 <= n
        BY <1>4, <2>4
      <4>2. n .. d + 1 = (n .. d) \cup {d + 1}
        BY <4>1
      <4>3. \A k \in n .. d : k \in 1 .. d
        BY <4>1
      <4>4. id \notin DOMAIN lw[d + 1].shadow
        BY <1>3, <1>4
      <4>. QED  BY <1>4, <4>1, <4>2, <4>3, <4>4
    <3>3. (\A k \in n .. Len(lw) : id \notin DOMAIN lw[k].shadow) => v = shares[id].items
      BY <1>2, <3>1, <3>2 DEF Restores
    <3>4. ASSUME NEW m \in n .. Len(lw), id \in DOMAIN lw[m].shadow,
                 \A k \in n .. m - 1 : id \notin DOMAIN lw[k].shadow
          PROVE  v = lw[m].shadow[id]
      <4>1. m \in n .. d /\ \A k \in n .. m - 1 : k \in n .. d
        BY <1>4, <3>2, <3>4
      <4>. QED  BY <1>2, <3>1, <3>2, <3>4, <4>1 DEF Restores
    <3>. QED  BY <2>1, <3>3, <3>4 DEF Restores
  <2>. QED  BY <1>4, <2>3, <2>4
<1>6. TextTyped(texts, shares, lw, own)
  BY <1>1, <1>4 DEF TextTyped
<1>7. texts' = texts /\ shares' = shares /\ levels' = lw /\ own' = own
  BY <1>2
<1>. QED  BY <1>1, <1>5, <1>6, <1>7 DEF TextInv, Good

LEMMA BeginKeeps == ASSUME Countable, TextInv, Begin PROVE TextInv'
BY BeginGives DEF Begin

\* The old roots a committed level hands to the one that holds it.
HandedOn(lv, id) ==
  LET up == lv[Len(lv) - 1].shadow IN IF id \in DOMAIN up THEN up[id] ELSE lv[Len(lv)].shadow[id]

\* What is restored across a commit is what was restored before it.
LEMMA Merged ==
  ASSUME NEW sh, NEW rs, NEW lv, NEW lw, NEW d \in Nat, NEW n \in 1 .. d, NEW id, NEW v,
         Len(lv) = d + 1, Len(lw) = d, rs[id].items = sh[id].items,
         \A k \in 1 .. d - 1 : lw[k] = lv[k],
         DOMAIN lw[d].shadow = DOMAIN lv[d + 1].shadow \cup DOMAIN lv[d].shadow,
         id \in DOMAIN lw[d].shadow => lw[d].shadow[id] = HandedOn(lv, id),
         Restores(sh, lv, n, id, v)
  PROVE  Restores(rs, lw, n, id, v)
<1>1. Len(lv) - 1 = d /\ d + 1 - 1 = d
  OBVIOUS
<1>2. (\A k \in n .. Len(lw) : id \notin DOMAIN lw[k].shadow) => v = rs[id].items
  <2>. SUFFICES ASSUME \A k \in n .. d : id \notin DOMAIN lw[k].shadow PROVE v = rs[id].items
    OBVIOUS
  <2>1. id \notin DOMAIN lv[d].shadow /\ id \notin DOMAIN lv[d + 1].shadow
    OBVIOUS
  <2>2. ASSUME NEW k \in n .. Len(lv) PROVE id \notin DOMAIN lv[k].shadow
    <3>1. k = d \/ k = d + 1 \/ (k \in 1 .. d - 1 /\ k \in n .. d)
      BY <2>2
    <3>. QED  BY <2>1, <3>1
  <2>. QED  BY <2>2 DEF Restores
<1>3. ASSUME NEW m \in n .. Len(lw), id \in DOMAIN lw[m].shadow,
             \A k \in n .. m - 1 : id \notin DOMAIN lw[k].shadow
      PROVE  v = lw[m].shadow[id]
  <2>1. ASSUME NEW k \in n .. m - 1 PROVE id \notin DOMAIN lv[k].shadow
    <3>1. k \in 1 .. d - 1
      BY <1>3, <2>1
    <3>. QED  BY <1>3, <2>1, <3>1
  <2>2. CASE m # d
    <3>1. m \in 1 .. d - 1 /\ m \in n .. Len(lv)
      BY <2>2
    <3>2. lw[m] = lv[m]
      BY <3>1
    <3>. QED  BY <1>3, <2>1, <3>1, <3>2 DEF Restores
  <2>3. CASE m = d /\ id \in DOMAIN lv[d].shadow
    <3>1. lw[d].shadow[id] = lv[d].shadow[id] /\ d \in n .. Len(lv)
      BY <1>1, <2>3 DEF HandedOn
    <3>. QED  BY <2>1, <2>3, <3>1 DEF Restores
  <2>4. CASE m = d /\ id \notin DOMAIN lv[d].shadow
    <3>1. /\ lw[d].shadow[id] = lv[d + 1].shadow[id] /\ id \in DOMAIN lv[d + 1].shadow
          /\ d + 1 \in n .. Len(lv)
      BY <1>1, <1>3, <2>4 DEF HandedOn
    <3>2. ASSUME NEW k \in n .. d + 1 - 1 PROVE id \notin DOMAIN lv[k].shadow
      <4>1. k = d \/ k \in n .. m - 1
        BY <2>4, <3>2
      <4>. QED  BY <2>1, <2>4, <4>1
    <3>. QED  BY <2>4, <3>1, <3>2 DEF Restores
  <2>. QED  BY <2>2, <2>3, <2>4
<1>. QED  BY <1>2, <1>3 DEF Restores

\* The shares made at the innermost level become its parent's.
LEMMA HandUpIs ==
  ASSUME NEW sh \in Maps(Share), Depth \in Nat \ {0}
  PROVE  LET rs == HandUp(sh) IN
         /\ rs \in Maps(Share) /\ DOMAIN rs = DOMAIN sh
         /\ \A i \in DOMAIN sh :
              /\ rs[i].items = sh[i].items /\ rs[i].refs = sh[i].refs
              /\ rs[i].born = IF sh[i].born = Depth THEN Depth - 1 ELSE sh[i].born
<1>1. PICK rs : rs = HandUp(sh)
  OBVIOUS
<1>2. rs = [i \in DOMAIN rs |-> rs[i]] /\ DOMAIN rs = DOMAIN sh
  BY <1>1 DEF HandUp
<1>3. ASSUME NEW i \in DOMAIN sh
      PROVE  /\ rs[i] \in Share /\ rs[i].items = sh[i].items /\ rs[i].refs = sh[i].refs
             /\ rs[i].born = IF sh[i].born = Depth THEN Depth - 1 ELSE sh[i].born
  <2>1. /\ sh[i].items \in Seq(Elems) /\ sh[i].refs \in Nat \ {0} /\ sh[i].born \in Nat
        /\ sh[i] = [items |-> sh[i].items, refs |-> sh[i].refs, born |-> sh[i].born]
    BY SharesIn
  <2>2. rs[i] = IF sh[i].born = Depth THEN [sh[i] EXCEPT !.born = Depth - 1] ELSE sh[i]
    BY <1>1 DEF HandUp
  <2>3. rs[i] = [items |-> sh[i].items, refs |-> sh[i].refs,
                 born |-> IF sh[i].born = Depth THEN Depth - 1 ELSE sh[i].born]
    BY <2>1, <2>2
  <2>. QED  BY <2>1, <2>3 DEF Share
<1>4. DOMAIN sh \subseteq Ids
  BY SharesIn
<1>5. DOMAIN rs \subseteq Ids /\ \A i \in DOMAIN rs : rs[i] \in Share
  BY <1>2, <1>3, <1>4
<1>6. rs \in Maps(Share)
  BY <1>2, <1>5, MapIs, Zenon
<1>. QED  BY <1>1, <1>2, <1>3, <1>6

LEMMA CommitKeeps == ASSUME Countable, TextInv, Commit PROVE TextInv'
<1>1. /\ Holding(texts, shares, own) /\ Referred(texts, shares)
      /\ GivesBack(texts, shares, levels)
      /\ levels \in Seq(Level) /\ own \in [Names -> Seq(Elems)]
      /\ texts \in [Names -> Nat] /\ shares \in Maps(Share)
      /\ Depth \in Nat \ {0} /\ Len(levels) = Depth
  BY TextsAre DEF TextInv, Good, Commit
<1>2. PICK rs, lw : rs = HandUp(shares) /\ lw = levels'
  OBVIOUS
<1>3. /\ rs \in Maps(Share) /\ DOMAIN rs = DOMAIN shares
      /\ \A i \in DOMAIN shares :
           /\ rs[i].items = shares[i].items /\ rs[i].refs = shares[i].refs
           /\ rs[i].born = IF shares[i].born = Depth THEN Depth - 1 ELSE shares[i].born
  <2>1. shares \in Maps(Share) /\ Depth \in Nat \ {0}
    BY <1>1
  <2>. QED  BY <1>2, <2>1, HandUpIs
<1>4. Holding(texts, rs, own) /\ Referred(texts, rs)
  BY <1>1, <1>3 DEF Holding, Referred
<1>5. lw \in Seq(Level) /\ GivesBack(texts, rs, lw)
  <2>1. CASE Depth = 1
    <3>1. lw = <<>>
      BY <1>2, <2>1 DEF Commit
    <3>. QED  BY <3>1 DEF GivesBack
  <2>2. CASE Depth # 1
    <3>1. PICK d : d = Depth - 1
      OBVIOUS
    <3>2. d \in Nat \ {0} /\ Depth = d + 1 /\ d \in 1 .. Len(levels) /\ d + 1 \in 1 .. Len(levels)
      BY <1>1, <2>2, <3>1
    <3>3. PICK child, up : child = levels[d + 1].shadow /\ up = levels[d].shadow
      OBVIOUS
    <3>4. /\ child \in Maps(Seq(Elems)) /\ up \in Maps(Seq(Elems)) /\ levels[d] \in Level
      <4>1. levels[d] \in Level /\ levels[d + 1] \in Level
        BY <1>1, <3>2
      <4>. QED  BY <3>3, <4>1 DEF Level
    <3>5. PICK both : both = [id \in DOMAIN child \cup DOMAIN up |->
                                IF id \in DOMAIN up THEN up[id] ELSE child[id]]
      OBVIOUS
    <3>6. both \in Maps(Seq(Elems)) /\ DOMAIN both = DOMAIN child \cup DOMAIN up
      <4>1. /\ DOMAIN child \subseteq Ids /\ DOMAIN up \subseteq Ids
            /\ \A i \in DOMAIN child : child[i] \in Seq(Elems)
            /\ \A i \in DOMAIN up : up[i] \in Seq(Elems)
        BY <3>4, MapIs, Zenon
      <4>2. both = [i \in DOMAIN both |-> both[i]] /\ DOMAIN both = DOMAIN child \cup DOMAIN up
        BY <3>5
      <4>3. DOMAIN both \subseteq Ids /\ \A i \in DOMAIN both : both[i] \in Seq(Elems)
        BY <3>5, <4>1, <4>2
      <4>. QED  BY <4>2, <4>3, MapIs, Zenon
    <3>7. PICK fr, new : /\ fr = SubSeq(levels, 1, d)
                         /\ new = [levels[d] EXCEPT !.shadow = both]
      OBVIOUS
    <3>8. fr \in Seq(Level) /\ Len(fr) = d /\ \A k \in 1 .. d : fr[k] = levels[k]
      BY <1>1, <3>2, <3>7
    <3>9. lw = [fr EXCEPT ![d] = new]
      <4>1. Front(levels) = fr /\ Depth - 1 = d
        BY <1>1, <3>2, <3>7 DEF Front
      <4>2. lw = [Front(levels) EXCEPT ![d].shadow = both]
        BY <1>2, <2>2, <3>2, <3>3, <3>5, <4>1 DEF Commit
      <4>3. fr[d] = levels[d]
        BY <3>2, <3>8
      <4>4. lw = [fr EXCEPT ![d].shadow = both]
        BY <4>1, <4>2
      <4>. QED  BY <3>7, <4>3, <4>4
    <3>10. new \in Level /\ new.shadow = both /\ new.own = levels[d].own
      BY <3>4, <3>6, <3>7 DEF Level
    <3>11. /\ lw \in Seq(Level) /\ Len(lw) = d /\ lw[d] = new
           /\ \A k \in 1 .. d - 1 : lw[k] = levels[k]
      BY <3>2, <3>8, <3>9, <3>10
    <3>12. \A k \in 1 .. d : lw[k].own = levels[k].own
      BY <3>2, <3>10, <3>11
    <3>13. \A id : id \in DOMAIN both => both[id] = HandedOn(levels, id)
      BY <1>1, <3>2, <3>3, <3>5, <3>6 DEF HandedOn
    <3>14. ASSUME NEW n \in 1 .. Len(lw), NEW t \in Names, texts[t] # None,
                  rs[texts[t]].born < n
           PROVE  Restores(rs, lw, n, texts[t], lw[n].own[t])
      <4>1. PICK id, v : id = texts[t] /\ v = lw[n].own[t]
        OBVIOUS
      <4>2. id \in DOMAIN shares /\ n \in 1 .. d /\ v = levels[n].own[t]
        BY <1>1, <3>11, <3>12, <3>14, <4>1 DEF Holding
      <4>3. shares[id].born < n
        BY <1>3, <3>2, <3>14, <4>1, <4>2
      <4>4. Restores(shares, levels, n, id, v)
        BY <1>1, <3>2, <3>14, <4>1, <4>2, <4>3 DEF GivesBack
      <4>5. Len(levels) = d + 1 /\ rs[id].items = shares[id].items /\ d \in Nat
        BY <1>1, <1>3, <3>2, <4>2
      <4>6. /\ DOMAIN lw[d].shadow = DOMAIN levels[d + 1].shadow \cup DOMAIN levels[d].shadow
            /\ id \in DOMAIN lw[d].shadow => lw[d].shadow[id] = HandedOn(levels, id)
        BY <3>3, <3>6, <3>10, <3>11, <3>13
      <4>7. Len(lw) = d /\ \A k \in 1 .. d - 1 : lw[k] = levels[k]
        BY <3>11
      <4>8. n \in 1 .. d
        BY <4>2
      <4>9. Restores(rs, lw, n, id, v)
        BY <4>4, <4>5, <4>6, <4>7, <4>8, Merged
      <4>. QED  BY <4>1, <4>9
    <3>. QED  BY <3>11, <3>14 DEF GivesBack
  <2>. QED  BY <2>1, <2>2
<1>6. TextTyped(texts, rs, lw, own)
  BY <1>1, <1>3, <1>5 DEF TextTyped
<1>. QED  BY <1>2, <1>4, <1>5, <1>6 DEF TextInv, Good, Commit

\* An abort looks at what the texts held before, not at what they should hold now.
LEMMA AbortGives ==
  ASSUME Countable, NEW oh, Good(texts, shares, levels, oh), Abort
  PROVE  TextInv'
<1>1. /\ Referred(texts, shares) /\ GivesBack(texts, shares, levels)
      /\ levels \in Seq(Level)
      /\ texts \in [Names -> Nat] /\ shares \in Maps(Share)
      /\ Depth \in Nat \ {0} /\ Len(levels) = Depth
  BY DEF Good, TextTyped, Depth, Abort
<1>2. PICK d : d = Depth - 1
  OBVIOUS
<1>3. d \in Nat /\ Depth = d + 1 /\ d + 1 \in 1 .. Len(levels)
  BY <1>1, <1>2
<1>4. PICK top : top = levels[d + 1]
  OBVIOUS
<1>5. top.shadow \in Maps(Seq(Elems)) /\ top.own \in [Names -> Seq(Elems)]
  <2>1. top \in Level
    BY <1>1, <1>3, <1>4
  <2>. QED  BY <2>1 DEF Level
<1>6. PICK kept : kept = {id \in DOMAIN shares : shares[id].born < Depth}
  OBVIOUS
<1>7. PICK rs : rs = [id \in kept |-> IF id \in DOMAIN top.shadow
                                      THEN [shares[id] EXCEPT !.items = top.shadow[id]]
                                      ELSE shares[id]]
  OBVIOUS
<1>8. PICK tx, ow : /\ tx = [t \in Names |-> IF texts[t] \in kept THEN texts[t] ELSE None]
                    /\ ow = [t \in Names |-> IF texts[t] \in kept THEN top.own[t] ELSE <<>>]
  OBVIOUS
<1>9. PICK lw : lw = [n \in 1 .. d |->
                        [levels[n] EXCEPT !.own =
                           [t \in Names |-> IF texts[t] \in kept THEN @[t] ELSE <<>>]]]
  OBVIOUS
<1>10. texts' = tx /\ shares' = rs /\ own' = ow /\ levels' = lw
  BY <1>2, <1>3, <1>4, <1>6, <1>7, <1>8, <1>9 DEF Abort
<1>11. /\ kept \subseteq DOMAIN shares /\ kept \subseteq Ids /\ None \notin kept
       /\ \A id \in kept : shares[id].born < d + 1
  <2>1. DOMAIN shares \subseteq Ids
    BY <1>1, SharesIn
  <2>. QED  BY <1>3, <1>6, <2>1, IdsAre
<1>12. /\ rs \in Maps(Share) /\ DOMAIN rs = kept
       /\ \A id \in kept :
            /\ rs[id].refs = shares[id].refs /\ rs[id].born = shares[id].born
            /\ rs[id].items = IF id \in DOMAIN top.shadow THEN top.shadow[id] ELSE shares[id].items
  <2>1. rs = [id \in DOMAIN rs |-> rs[id]] /\ DOMAIN rs = kept
    BY <1>7
  <2>2. ASSUME NEW id \in kept
        PROVE  /\ rs[id] \in Share
               /\ rs[id].refs = shares[id].refs /\ rs[id].born = shares[id].born
               /\ rs[id].items = IF id \in DOMAIN top.shadow THEN top.shadow[id]
                                 ELSE shares[id].items
    <3>1. /\ shares[id].items \in Seq(Elems) /\ shares[id].refs \in Nat \ {0}
          /\ shares[id].born \in Nat
          /\ shares[id] = [items |-> shares[id].items, refs |-> shares[id].refs,
                           born |-> shares[id].born]
      BY <1>1, <1>11, SharesIn
    <3>2. PICK v : v = IF id \in DOMAIN top.shadow THEN top.shadow[id] ELSE shares[id].items
      OBVIOUS
    <3>3. \A i \in DOMAIN top.shadow : top.shadow[i] \in Seq(Elems)
      BY <1>5, MapIs, Zenon
    <3>4. v \in Seq(Elems)
      BY <3>1, <3>2, <3>3
    <3>5. rs[id] = IF id \in DOMAIN top.shadow
                   THEN [shares[id] EXCEPT !.items = top.shadow[id]] ELSE shares[id]
      BY <1>7
    <3>6. rs[id] = [items |-> v, refs |-> shares[id].refs, born |-> shares[id].born]
      BY <3>1, <3>2, <3>5
    <3>. QED  BY <3>1, <3>2, <3>4, <3>6 DEF Share
  <2>3. DOMAIN rs \subseteq Ids /\ \A id \in DOMAIN rs : rs[id] \in Share
    BY <1>11, <2>1, <2>2
  <2>4. rs \in Maps(Share)
    BY <2>1, <2>3, MapIs, Zenon
  <2>. QED  BY <2>1, <2>2, <2>4
<1>13. /\ tx \in [Names -> Nat] /\ ow \in [Names -> Seq(Elems)]
       /\ \A t \in Names : tx[t] # None
            => texts[t] \in kept /\ tx[t] = texts[t] /\ ow[t] = top.own[t]
       /\ \A t \in Names, id \in kept : tx[t] = id <=> texts[t] = id
  BY <1>1, <1>5, <1>8, <1>11, IdsAre
<1>14. /\ lw \in Seq(Level) /\ Len(lw) = d
       /\ \A n \in 1 .. d : /\ lw[n].shadow = levels[n].shadow
                            /\ \A t \in Names : texts[t] \in kept => lw[n].own[t] = levels[n].own[t]
  <2>1. ASSUME NEW n \in 1 .. d
        PROVE  /\ lw[n] \in Level /\ lw[n].shadow = levels[n].shadow
               /\ \A t \in Names : texts[t] \in kept => lw[n].own[t] = levels[n].own[t]
    <3>1. levels[n] \in Level
      BY <1>1, <1>3
    <3>2. PICK o : o = [t \in Names |-> IF texts[t] \in kept THEN levels[n].own[t] ELSE <<>>]
      OBVIOUS
    <3>3. levels[n].own \in [Names -> Seq(Elems)]
      BY <3>1 DEF Level
    <3>4. o \in [Names -> Seq(Elems)]
      BY <3>2, <3>3
    <3>5. lw[n] = [levels[n] EXCEPT !.own = o]
      BY <1>9, <3>2
    <3>6. lw[n] \in Level /\ lw[n].shadow = levels[n].shadow /\ lw[n].own = o
      BY <3>1, <3>4, <3>5 DEF Level
    <3>. QED  BY <3>2, <3>6
  <2>2. lw = [n \in 1 .. d |-> lw[n]]
    BY <1>9
  <2>3. lw \in Seq(Level) /\ Len(lw) = d
    <3>1. DOMAIN lw = 1 .. d /\ \A n \in 1 .. d : lw[n] \in Level
      BY <2>1, <2>2
    <3>2. lw \in [1 .. d -> Level]
      BY <2>2, <3>1
    <3>. QED  BY <1>3, <3>1, <3>2
  <2>. QED  BY <2>1, <2>3
<1>15. TextTyped(tx, rs, lw, ow)
  BY <1>12, <1>13, <1>14 DEF TextTyped
<1>16. ASSUME NEW n \in 1 .. d + 1, NEW t \in Names, texts[t] \in kept, shares[texts[t]].born < n
       PROVE  Restores(shares, levels, n, texts[t], levels[n].own[t])
  BY <1>1, <1>3, <1>11, <1>16 DEF GivesBack
<1>17. Holding(tx, rs, ow)
  <2>. SUFFICES ASSUME NEW t \in Names, tx[t] # None
                PROVE  tx[t] \in DOMAIN rs /\ rs[tx[t]].items = ow[t]
    BY DEF Holding
  <2>1. PICK id : id = texts[t]
    OBVIOUS
  <2>2. id \in kept /\ tx[t] = id /\ ow[t] = top.own[t]
    BY <1>13, <2>1
  <2>3. Restores(shares, levels, d + 1, id, top.own[t])
    BY <1>3, <1>4, <1>11, <1>16, <2>1, <2>2
  <2>4. /\ \A k \in d + 1 .. Len(levels) : k = d + 1
        /\ \A k \in d + 1 .. d + 1 - 1 : FALSE
        /\ d + 1 \in d + 1 .. Len(levels)
    BY <1>1, <1>3
  <2>5. top.own[t] = IF id \in DOMAIN top.shadow THEN top.shadow[id] ELSE shares[id].items
    BY <1>4, <2>3, <2>4 DEF Restores
  <2>. QED  BY <1>12, <2>2, <2>5
<1>18. Referred(tx, rs)
  <2>. SUFFICES ASSUME NEW id \in kept PROVE rs[id].refs = Cardinality(Users(tx, id))
    BY <1>12 DEF Referred
  <2>1. Users(tx, id) = Users(texts, id)
    BY <1>13 DEF Users
  <2>. QED  BY <1>1, <1>11, <1>12, <2>1 DEF Referred
<1>19. GivesBack(tx, rs, lw)
  <2>. SUFFICES ASSUME NEW n \in 1 .. Len(lw), NEW t \in Names, tx[t] # None, rs[tx[t]].born < n
                PROVE  Restores(rs, lw, n, tx[t], lw[n].own[t])
    BY DEF GivesBack
  <2>1. PICK id, v : id = texts[t] /\ v = levels[n].own[t]
    OBVIOUS
  <2>2. id \in kept /\ tx[t] = id /\ lw[n].own[t] = v /\ n \in 1 .. d
    BY <1>13, <1>14, <2>1
  <2>3. shares[id].born < n
    BY <1>12, <2>2
  <2>4. Restores(shares, levels, n, id, v)
    BY <1>3, <1>16, <2>1, <2>2, <2>3
  <2>5. /\ n .. Len(levels) = (n .. d) \cup {d + 1} /\ Len(lw) = d
        /\ n .. d + 1 - 1 = n .. d /\ d + 1 \in n .. Len(levels)
        /\ \A k \in n .. d : lw[k].shadow = levels[k].shadow
    <3>1. n \in 1 .. d /\ Len(levels) = d + 1 /\ d \in Nat
      BY <1>1, <1>3, <2>2
    <3>2. \A k \in n .. d : k \in 1 .. d
      BY <3>1
    <3>. QED  BY <1>14, <3>1, <3>2
  <2>6. rs[id].items = IF id \in DOMAIN top.shadow THEN top.shadow[id] ELSE shares[id].items
    BY <1>12, <2>2
  <2>7. (\A k \in n .. d : id \notin DOMAIN lw[k].shadow) => v = rs[id].items
    <3>. SUFFICES ASSUME \A k \in n .. d : id \notin DOMAIN lw[k].shadow PROVE v = rs[id].items
      OBVIOUS
    <3>1. \A k \in n .. d : id \notin DOMAIN levels[k].shadow
      BY <2>5
    <3>2. CASE id \in DOMAIN top.shadow
      BY <1>4, <2>4, <2>5, <2>6, <3>1, <3>2 DEF Restores
    <3>3. CASE id \notin DOMAIN top.shadow
      BY <1>4, <2>4, <2>5, <2>6, <3>1, <3>3 DEF Restores
    <3>. QED  BY <3>2, <3>3
  <2>8. ASSUME NEW m \in n .. d, id \in DOMAIN lw[m].shadow,
               \A k \in n .. m - 1 : id \notin DOMAIN lw[k].shadow
        PROVE  v = lw[m].shadow[id]
    <3>1. \A k \in n .. m - 1 : k \in n .. d
      BY <1>3, <2>2
    <3>. QED  BY <2>4, <2>5, <2>8, <3>1 DEF Restores
  <2>. QED  BY <2>2, <2>5, <2>7, <2>8 DEF Restores
<1>. QED  BY <1>10, <1>15, <1>17, <1>18, <1>19 DEF TextInv, Good

LEMMA AbortKeeps == ASSUME Countable, TextInv, Abort PROVE TextInv'
BY AbortGives DEF TextInv

---------------------------------------------------------------------------

LEMMA TextInit == ASSUME Countable, Init PROVE TextInv
<1>1. PICK nil : nil = <<>>
  OBVIOUS
<1>2. nil = [i \in DOMAIN nil |-> nil[i]] /\ DOMAIN nil = {} /\ nil \in Seq(Level) /\ Len(nil) = 0
  BY <1>1
<1>3. nil \in Maps(Share)
  BY <1>2, MapIs, Zenon
<1>4. None \in Nat
  BY IdsAre
<1>5. texts = [t \in Names |-> None] /\ shares = nil /\ levels = nil /\ own = [t \in Names |-> <<>>]
  BY <1>1 DEF Init
<1>6. TextTyped(texts, shares, levels, own)
  BY <1>2, <1>3, <1>4, <1>5 DEF TextTyped
<1>7. /\ Holding(texts, shares, own) /\ Referred(texts, shares)
      /\ GivesBack(texts, shares, levels)
  BY <1>2, <1>5 DEF Holding, Referred, GivesBack
<1>. QED  BY <1>6, <1>7 DEF TextInv, Good

LEMMA TextStep == ASSUME Countable, TextInv, [Next]_vars PROVE TextInv'
<1>1. ASSUME NEW t \in Names, TextNew(t) PROVE TextInv'
  BY <1>1, NewKeeps
<1>2. ASSUME NEW t \in Names, NEW u \in Names, TextClone(t, u) PROVE TextInv'
  BY <1>2, CloneKeeps
<1>3. ASSUME NEW t \in Live, TextFree(t) PROVE TextInv'
  BY <1>3, FreeKeeps
<1>4. ASSUME NEW t \in Live, TextReset(t) PROVE TextInv'
  <2>1. t \in Names /\ <<>> \in Seq(Elems)
    BY TextsAre
  <2>. QED  BY <1>4, <2>1, EditKeeps DEF TextReset
<1>5. ASSUME NEW t \in Live, TextPopFront(t) \/ TextPopBack(t) PROVE TextInv'
  <2>1. Held(t) \in Seq(Elems) /\ <<>> \in Seq(Elems)
    BY TextsAre
  <2>2. PICK rest \in Seq(Elems) : TextPop(t, rest)
    <3>1. Held(t) # <<>> => Tail(Held(t)) \in Seq(Elems) /\ Front(Held(t)) \in Seq(Elems)
      <4>1. 0 \in Nat
        OBVIOUS
      <4>. QED  BY <2>1, <4>1, CutsAre
    <3>. QED  BY <1>5, <2>1, <3>1 DEF TextPopFront, TextPopBack
  <2>. QED  BY <2>2, PopKeeps
<1>6. ASSUME NEW t \in Live, NEW e \in Elems, TextPushFront(t, e) \/ TextPushBack(t, e)
      PROVE  TextInv'
  <2>1. t \in Names /\ Held(t) \in Seq(Elems) /\ 0 \in Nat
    BY TextsAre
  <2>2. <<e>> \o Held(t) \in Seq(Elems) /\ Append(Held(t), e) \in Seq(Elems)
    BY <2>1, WritesAre
  <2>. QED  BY <1>6, <2>1, <2>2, EditKeeps DEF TextPushFront, TextPushBack
<1>7. ASSUME NEW t \in Live, NEW i \in Nat, NEW e \in Elems, TextSet(t, i, e) \/ TextInsert(t, i, e)
      PROVE  TextInv'
  <2>1. t \in Names /\ Held(t) \in Seq(Elems)
    BY TextsAre
  <2>2. PICK items \in Seq(Elems) : Edit(t, items)
    BY <1>7, <2>1, WritesAre DEF TextSet, TextInsert
  <2>. QED  BY <2>1, <2>2, EditKeeps
<1>8. ASSUME NEW t \in Live, NEW i \in Nat, TextDelete(t, i) PROVE TextInv'
  <2>1. t \in Names /\ Held(t) \in Seq(Elems)
    BY TextsAre
  <2>2. PICK items \in Seq(Elems) : Edit(t, items)
    BY <1>8, <2>1, CutsAre DEF TextDelete
  <2>. QED  BY <2>1, <2>2, EditKeeps
<1>9. ASSUME NEW t \in Live, NEW u \in Live, TextConcat(t, u) PROVE TextInv'
  BY <1>9, ConcatKeeps
<1>10. ASSUME NEW t \in Live, NEW i \in Nat, NEW l \in Names, NEW r \in Names,
              TextSplitAt(t, i, l, r)
       PROVE  TextInv'
  BY <1>10, SplitKeeps
<1>11. ASSUME NEW t \in Live, NEW e \in Elems, TextFromUtf8(t, <<e>>) PROVE TextInv'
  <2>1. <<e>> \in Seq(Elems)
    OBVIOUS
  <2>. QED  BY <1>11, <2>1, FromUtf8Keeps
<1>12. CASE UNCHANGED vars
  BY <1>12 DEF vars, TextInv
<1>13. CASE Next
  <2>1. \A i \in 0 .. MaxLen : i \in Nat
    OBVIOUS
  <2>2. CASE \E t \in Names : Unused(t) /\ (TextNew(t) \/ \E u \in Names : TextClone(t, u))
    BY <1>1, <1>2, <2>2
  <2>3. ASSUME NEW t \in Live,
               \/ TextFree(t) \/ TextReset(t) \/ TextPopFront(t) \/ TextPopBack(t)
               \/ \E e \in Elems : TextPushFront(t, e) \/ TextPushBack(t, e)
        PROVE  TextInv'
    BY <1>3, <1>4, <1>5, <1>6, <2>3
  <2>4. ASSUME NEW t \in Live,
               \/ \E i \in 0 .. MaxLen, e \in Elems : TextSet(t, i, e) \/ TextInsert(t, i, e)
               \/ \E i \in 0 .. MaxLen : TextDelete(t, i)
        PROVE  TextInv'
    BY <1>7, <1>8, <2>1, <2>4
  <2>5. ASSUME NEW t \in Live,
               \/ \E u \in Live : TextConcat(t, u)
               \/ \E i \in 0 .. MaxLen, l, r \in Names : TextSplitAt(t, i, l, r)
               \/ \E e \in Elems : TextFromUtf8(t, <<e>>)
        PROVE  TextInv'
    BY <1>9, <1>10, <1>11, <2>1, <2>5
  <2>6. CASE Begin \/ Commit \/ Abort
    BY <2>6, BeginKeeps, CommitKeeps, AbortKeeps
  <2>. QED  BY <1>13, <2>2, <2>3, <2>4, <2>5, <2>6 DEF Next
<1>. QED  BY <1>12, <1>13

\* The inductive invariant holds: texts point at shares that hold what they should, the
\* references of a share are its texts, and every open transaction can give every text
\* that had its share when it began what it held then.
THEOREM TransactionsGiveBack == ASSUME Countable PROVE Spec => []TextInv
  BY TextInit, TextStep, PTL DEF Spec

\* A write to one text never shows in another, an abort gives back to each text what it
\* held, and a share lives exactly as long as a text is on it (text.c, seq.c).
THEOREM TextsApart == ASSUME Countable PROVE Spec => []ClonesApart
<1>1. TextInv => ClonesApart
  <2>. SUFFICES ASSUME TextInv PROVE ClonesApart
    OBVIOUS
  <2>1. \A t \in Live : texts[t] \in DOMAIN shares /\ Held(t) = own[t]
    BY TextsAre DEF Live, Holding
  <2>2. Referred(texts, shares)
    BY DEF TextInv, Good
  <2>. QED  BY <2>1, <2>2 DEF ClonesApart, Referred, Users
<1>. QED  BY <1>1, TransactionsGiveBack, PTL

----------------------------------------------------------------------------
(* One sequence after another                                              *)

\* Sequence s is p and then q.
Cat(S, s, p, q) ==
  /\ s \in Seq(S) /\ Len(s) = Len(p) + Len(q) /\ Len(p) \in Nat /\ Len(q) \in Nat
  /\ \A k \in 1 .. Len(p) : s[k] = p[k]
  /\ \A k \in Len(p) + 1 .. Len(s) : k - Len(p) \in 1 .. Len(q) /\ s[k] = q[k - Len(p)]

\* That is what concatenation makes.
LEMMA ConcatIs ==
  ASSUME NEW S, NEW p \in Seq(S), NEW q \in Seq(S), NEW s, s = p \o q
  PROVE  Cat(S, s, p, q)
<1>1. PICK m \in Nat : m = Len(p)
  OBVIOUS
<1>2. PICK n \in Nat : n = Len(q)
  OBVIOUS
<1>3. /\ s \in Seq(S) /\ Len(s) = m + n
      /\ \A k \in 1 .. m + n : s[k] = IF k <= m THEN p[k] ELSE q[k - m]
  BY <1>1, <1>2, ConcatProperties
<1>4. \A k \in 1 .. m : k \in 1 .. m + n /\ k <= m
  OBVIOUS
<1>5. \A k \in m + 1 .. m + n : k \in 1 .. m + n /\ ~(k <= m) /\ k - m \in 1 .. n
  OBVIOUS
<1>. QED  BY <1>1, <1>2, <1>3, <1>4, <1>5 DEF Cat

----------------------------------------------------------------------------
(* Texts that a guest holds by handle                                      *)

CONSTANT FirstCap
VARIABLES slots, cap, call, said, broken, leaked

Guest == INSTANCE TextRuntime

\* What the guest's calls stand on are the texts above, with one level.
LEMMA SameTexts ==
  /\ \A S : Guest!T!FreeId(S) = FreeId(S)
  /\ Guest!T!Live = Live /\ Guest!T!Depth = Depth /\ Guest!T!State = State
  /\ Guest!T!None = None /\ Guest!None = None
  /\ \A t : Guest!T!Held(t) = Held(t)
  /\ \A x : Guest!T!NewShare(x) = NewShare(x)
  /\ \A f, x, y : Guest!T!SetOf(f, x, y) = SetOf(f, x, y)
  /\ \A f, x : Guest!T!Drop(f, x) = Drop(f, x)
  /\ \A S, x : Guest!T!Released(S, x) = Released(S, x)
<1>1. \A S : Guest!T!FreeId(S) = FreeId(S)
  BY DEF Guest!T!FreeId, FreeId, Guest!T!Ids, Ids, Guest!T!Cardinality, Cardinality,
         Guest!T!IsFiniteSet, IsFiniteSet
<1>2. /\ Guest!T!Live = Live /\ Guest!T!Depth = Depth /\ Guest!T!State = State
      /\ Guest!T!None = None /\ Guest!None = None
      /\ \A t : Guest!T!Held(t) = Held(t)
  BY DEF Guest!T!Live, Live, Guest!T!Depth, Depth, Guest!T!State, State, Guest!T!None, None,
         Guest!None, Guest!T!Held, Held
<1>3. /\ \A x : Guest!T!NewShare(x) = NewShare(x)
      /\ \A f, x, y : Guest!T!SetOf(f, x, y) = SetOf(f, x, y)
      /\ \A f, x : Guest!T!Drop(f, x) = Drop(f, x)
  BY <1>2 DEF Guest!T!NewShare, NewShare, Guest!T!SetOf, SetOf, Guest!T!Drop, Drop
<1>4. \A S, x : Guest!T!Released(S, x) = Released(S, x)
  BY <1>3 DEF Guest!T!Released, Released
<1>. QED  BY <1>1, <1>2, <1>3, <1>4

LEMMA SameSteps ==
  /\ \A t : Guest!T!TextNew(t) <=> TextNew(t)
  /\ \A t, u : Guest!T!TextClone(t, u) <=> TextClone(t, u)
  /\ \A t : Guest!T!TextFree(t) <=> TextFree(t)
  /\ \A s, now : Guest!T!Become(s, now) <=> Become(s, now)
  /\ \A s, t : Guest!T!Detached(s, t) = Detached(s, t)
  /\ \A s, t, x : Guest!T!Written(s, t, x) = Written(s, t, x)
<1>1. \A t : Guest!T!TextNew(t) <=> TextNew(t)
  BY SameTexts DEF Guest!T!TextNew, TextNew
<1>2. \A t, u : Guest!T!TextClone(t, u) <=> TextClone(t, u)
  BY SameTexts DEF Guest!T!TextClone, TextClone
<1>3. \A t : Guest!T!TextFree(t) <=> TextFree(t)
  BY SameTexts DEF Guest!T!TextFree, TextFree
<1>4. \A s, now : Guest!T!Become(s, now) <=> Become(s, now)
  BY DEF Guest!T!Become, Become
<1>5. \A s, t : Guest!T!Detached(s, t) = Detached(s, t)
  BY SameTexts DEF Guest!T!Detached, Detached
<1>6. ASSUME NEW s, NEW t, NEW x PROVE Guest!T!Written(s, t, x) = Written(s, t, x)
  <2>1. PICK d : d = Depth
    OBVIOUS
  <2>2. PICK id, before : id = s.texts[t] /\ before = s.levels[d].shadow
    OBVIOUS
  <2>3. PICK now : now = IF id \in DOMAIN before THEN before
                         ELSE SetOf(before, id, s.shares[id].items)
    OBVIOUS
  <2>4. Written(s, t, x) = [s EXCEPT !.shares[id].items = x, !.levels[d].shadow = now]
    BY <2>1, <2>2, <2>3 DEF Written
  <2>5. Guest!T!Depth = d /\ Guest!T!SetOf(before, id, s.shares[id].items)
                             = SetOf(before, id, s.shares[id].items)
    BY <2>1, SameTexts
  <2>6. Guest!T!Written(s, t, x) = [s EXCEPT !.shares[id].items = x, !.levels[d].shadow = now]
    BY <2>2, <2>3, <2>5 DEF Guest!T!Written
  <2>. QED  BY <2>4, <2>6
<1>. QED  BY <1>1, <1>2, <1>3, <1>4, <1>5, <1>6

LEMMA SameWrites ==
  /\ \A t, x : Guest!T!Edit(t, x) <=> Edit(t, x)
  /\ \A t, i, e : Guest!T!TextInsert(t, i, e) <=> TextInsert(t, i, e)
  /\ \A t, i : Guest!T!TextDelete(t, i) <=> TextDelete(t, i)
  /\ \A t, x : Guest!T!TextFromUtf8(t, x) <=> TextFromUtf8(t, x)
<1>1. \A t, x : Guest!T!Edit(t, x) <=> Edit(t, x)
  BY SameTexts, SameSteps DEF Guest!T!Edit, Edit
<1>2. \A t, i, e : Guest!T!TextInsert(t, i, e) <=> TextInsert(t, i, e)
  BY <1>1, SameTexts DEF Guest!T!TextInsert, TextInsert, Guest!T!InsertAt, InsertAt
<1>3. \A t, i : Guest!T!TextDelete(t, i) <=> TextDelete(t, i)
  BY <1>1, SameTexts DEF Guest!T!TextDelete, TextDelete, Guest!T!RemoveAt, RemoveAt
<1>4. \A t, x : Guest!T!TextFromUtf8(t, x) <=> TextFromUtf8(t, x)
  BY SameTexts, SameSteps DEF Guest!T!TextFromUtf8, TextFromUtf8
<1>. QED  BY <1>1, <1>2, <1>3, <1>4

LEMMA SameEnds ==
  /\ Guest!T!Commit <=> Commit
  /\ Guest!T!Abort <=> Abort
  /\ Guest!T!Init <=> Init
  /\ Guest!T!Begin => /\ levels' = Append(levels, [shadow |-> <<>>, own |-> own])
                      /\ UNCHANGED <<texts, shares, own>>
<1>1. Guest!T!Commit <=> Commit
  <2>1. \A S : Guest!T!HandUp(S) = HandUp(S)
    BY SameTexts DEF Guest!T!HandUp, HandUp
  <2>. QED  BY <2>1, SameTexts DEF Guest!T!Commit, Commit, Guest!T!Front, Front
<1>2. Guest!T!Abort <=> Abort
  BY SameTexts DEF Guest!T!Abort, Abort
<1>3. Guest!T!Init <=> Init
  BY SameTexts DEF Guest!T!Init, Init
<1>4. Guest!T!Begin => /\ levels' = Append(levels, [shadow |-> <<>>, own |-> own])
                       /\ UNCHANGED <<texts, shares, own>>
  BY DEF Guest!T!Begin
<1>. QED  BY <1>1, <1>2, <1>3, <1>4

----------------------------------------------------------------------------
(* What an edit makes of a text                                            *)

\* Text r is text s with items in the place of n elements after the first at.
IsSplice(r, s, at, n, items) ==
  /\ at \in Nat /\ n \in Nat /\ at + n <= Len(s)
  /\ r \in Seq(Elems) /\ Len(r) = Len(s) - n + Len(items)
  /\ \A k \in 1 .. at : r[k] = s[k]
  /\ \A k \in 1 .. Len(items) : r[at + k] = items[k]
  /\ \A k \in at + n + 1 .. Len(s) : r[k - n + Len(items)] = s[k]

LEMMA SpliceIs ==
  ASSUME NEW s \in Seq(Elems), NEW at \in Nat, NEW n \in Nat, at + n <= Len(s),
         NEW items \in Seq(Elems),
         NEW r, r = SubSeq(s, 1, at) \o items \o SubSeq(s, at + n + 1, Len(s))
  PROVE  IsSplice(r, s, at, n, items)
<1>1. PICK p : p = SubSeq(s, 1, at)
  OBVIOUS
<1>2. PICK q : q = SubSeq(s, at + n + 1, Len(s))
  OBVIOUS
<1>3. PICK m \in Nat : m = Len(items)
  OBVIOUS
<1>4. Len(s) \in Nat
  OBVIOUS
<1>5. p \in Seq(Elems) /\ Len(p) = at /\ \A k \in 1 .. at : p[k] = s[k]
  BY <1>1, <1>4
<1>6. /\ q \in Seq(Elems) /\ Len(q) = Len(s) - (at + n)
      /\ \A k \in 1 .. Len(q) : q[k] = s[at + n + k]
  BY <1>2, <1>4
<1>7. PICK l : l = p \o items
  OBVIOUS
<1>8. Cat(Elems, l, p, items)
  BY <1>5, <1>7, ConcatIs
<1>9. l \in Seq(Elems) /\ Len(l) = at + m
  BY <1>3, <1>5, <1>8 DEF Cat
<1>10. Cat(Elems, r, l, q)
  BY <1>1, <1>2, <1>6, <1>7, <1>9, ConcatIs
<1>11. r \in Seq(Elems) /\ Len(r) = Len(s) - n + m
  <2>1. r \in Seq(Elems) /\ Len(r) = Len(l) + Len(q)
    BY <1>10 DEF Cat
  <2>2. Len(l) = at + m /\ Len(q) = Len(s) - (at + n)
    BY <1>6, <1>9
  <2>3. (at + m) + (Len(s) - (at + n)) = Len(s) - n + m
    BY <1>4
  <2>. QED  BY <2>1, <2>2, <2>3
<1>12. \A k \in 1 .. at + m : r[k] = l[k]
  BY <1>9, <1>10 DEF Cat
<1>13. ASSUME NEW k \in 1 .. at PROVE r[k] = s[k]
  <2>1. k \in 1 .. at + m /\ k \in 1 .. Len(p)
    BY <1>5
  <2>. QED  BY <1>5, <1>8, <1>12, <2>1 DEF Cat
<1>14. ASSUME NEW k \in 1 .. m PROVE r[at + k] = items[k]
  <2>1. at + k \in 1 .. at + m /\ at + k \in Len(p) + 1 .. Len(l) /\ (at + k) - Len(p) = k
    BY <1>5, <1>9
  <2>2. l[at + k] = items[(at + k) - Len(p)]
    BY <1>8, <2>1 DEF Cat
  <2>. QED  BY <1>12, <2>1, <2>2
<1>15. ASSUME NEW k \in at + n + 1 .. Len(s) PROVE r[k - n + m] = s[k]
  <2>1. PICK j : j = k - n + m
    OBVIOUS
  <2>2. /\ j \in Len(l) + 1 .. Len(r) /\ j - Len(l) \in 1 .. Len(q)
        /\ at + n + (j - Len(l)) = k
    <3>1. PICK x \in Nat : x = Len(s)
      BY <1>4
    <3>2. Len(l) = at + m /\ Len(q) = x - (at + n) /\ Len(r) = x - n + m
      BY <1>6, <1>9, <1>11, <3>1
    <3>3. j \in (at + m) + 1 .. x - n + m /\ j - (at + m) = k - (at + n)
      BY <2>1, <3>1
    <3>4. k - (at + n) \in 1 .. x - (at + n) /\ at + n + (k - (at + n)) = k
      BY <3>1
    <3>. QED  BY <3>2, <3>3, <3>4
  <2>3. r[j] = q[j - Len(l)]
    BY <1>10, <2>2 DEF Cat
  <2>. QED  BY <1>6, <2>1, <2>2, <2>3
<1>. QED  BY <1>3, <1>11, <1>13, <1>14, <1>15 DEF IsSplice

\* One element more of those to come is in.
LEMMA InsertOn ==
  ASSUME NEW s \in Seq(Elems), NEW items \in Seq(Elems), items # <<>>, NEW at, NEW r,
         IsSplice(r, s, at, 0, items), NEW one, one = <<Head(items)>>,
         NEW t, IsSplice(t, s, at, 0, one)
  PROVE  IsSplice(r, t, at + 1, 0, Tail(items)) /\ Tail(items) \in Seq(Elems)
<1>1. PICK m \in Nat : m = Len(items)
  OBVIOUS
<1>2. PICK z : z = Tail(items)
  OBVIOUS
<1>3. m >= 1 /\ z \in Seq(Elems) /\ Len(z) = m - 1 /\ \A k \in 1 .. m - 1 : z[k] = items[k + 1]
  BY <1>1, <1>2
<1>4. Len(one) = 1 /\ one[1] = items[1]
  OBVIOUS
<1>5. /\ at \in Nat /\ Len(s) \in Nat /\ at <= Len(s)
      /\ r \in Seq(Elems) /\ Len(r) = Len(s) + m
      /\ \A k \in 1 .. at : r[k] = s[k]
      /\ \A k \in 1 .. m : r[at + k] = items[k]
      /\ \A k \in at + 1 .. Len(s) : r[k + m] = s[k]
  <2>1. at \in Nat /\ Len(s) \in Nat /\ at + 0 <= Len(s)
    BY DEF IsSplice
  <2>2. \A k \in at + 1 .. Len(s) : k \in at + 0 + 1 .. Len(s) /\ k - 0 + m = k + m
    BY <2>1
  <2>. QED  BY <1>1, <2>1, <2>2 DEF IsSplice
<1>6. /\ t \in Seq(Elems) /\ Len(t) = Len(s) + 1
      /\ \A k \in 1 .. at : t[k] = s[k]
      /\ t[at + 1] = items[1]
      /\ \A k \in at + 1 .. Len(s) : t[k + 1] = s[k]
  <2>1. \A k \in at + 1 .. Len(s) : k \in at + 0 + 1 .. Len(s) /\ k - 0 + 1 = k + 1
    BY <1>5
  <2>2. 1 \in 1 .. 1
    OBVIOUS
  <2>. QED  BY <1>4, <1>5, <2>1, <2>2 DEF IsSplice
<1>7. ASSUME NEW k \in 1 .. at + 1 PROVE r[k] = t[k]
  <2>1. k \in 1 .. at \/ k = at + 1
    BY <1>5
  <2>2. 1 \in 1 .. m
    BY <1>3
  <2>. QED  BY <1>5, <1>6, <2>1, <2>2
<1>8. ASSUME NEW k \in 1 .. m - 1 PROVE r[at + 1 + k] = z[k]
  <2>1. k + 1 \in 1 .. m /\ at + (k + 1) = at + 1 + k
    BY <1>5
  <2>. QED  BY <1>3, <1>5, <2>1
<1>9. ASSUME NEW k \in at + 1 + 0 + 1 .. Len(t) PROVE r[k - 0 + (m - 1)] = t[k]
  <2>1. k - 1 \in at + 1 .. Len(s) /\ (k - 1) + 1 = k /\ (k - 1) + m = k - 0 + (m - 1)
    BY <1>5, <1>6
  <2>2. t[(k - 1) + 1] = s[k - 1] /\ r[(k - 1) + m] = s[k - 1]
    BY <1>5, <1>6, <2>1
  <2>. QED  BY <2>1, <2>2
<1>10. Len(r) = Len(t) - 0 + (m - 1) /\ at + 1 + 0 <= Len(t) /\ at + 1 \in Nat
  BY <1>5, <1>6
<1>. QED  BY <1>2, <1>3, <1>5, <1>7, <1>8, <1>9, <1>10 DEF IsSplice

\* One element less of those to go is there.
LEMMA DeleteOn ==
  ASSUME NEW s \in Seq(Elems), NEW at, NEW n \in Nat, n > 0, NEW r, NEW nil, nil = <<>>,
         IsSplice(r, s, at, n, nil), NEW t, IsSplice(t, s, at, 1, nil)
  PROVE  IsSplice(r, t, at, n - 1, nil)
<1>1. Len(nil) = 0
  OBVIOUS
<1>2. /\ at \in Nat /\ Len(s) \in Nat /\ at + n <= Len(s)
      /\ r \in Seq(Elems) /\ Len(r) = Len(s) - n
      /\ \A k \in 1 .. at : r[k] = s[k]
      /\ \A k \in at + n + 1 .. Len(s) : r[k - n] = s[k]
  <2>1. at \in Nat /\ Len(s) \in Nat /\ at + n <= Len(s)
    BY DEF IsSplice
  <2>2. \A k \in at + n + 1 .. Len(s) : k - n + 0 = k - n
    BY <2>1
  <2>3. Len(s) - n + 0 = Len(s) - n
    BY <2>1
  <2>. QED  BY <1>1, <2>1, <2>2, <2>3 DEF IsSplice
<1>3. /\ t \in Seq(Elems) /\ Len(t) = Len(s) - 1
      /\ \A k \in 1 .. at : t[k] = s[k]
      /\ \A k \in at + 2 .. Len(s) : t[k - 1] = s[k]
  <2>1. \A k \in at + 2 .. Len(s) : k \in at + 1 + 1 .. Len(s) /\ k - 1 + 0 = k - 1
    BY <1>2
  <2>2. Len(s) - 1 + 0 = Len(s) - 1
    BY <1>2
  <2>. QED  BY <1>1, <2>1, <2>2 DEF IsSplice
<1>4. n - 1 \in Nat /\ at + (n - 1) <= Len(t) /\ Len(r) = Len(t) - (n - 1) + 0
  BY <1>2, <1>3
<1>5. ASSUME NEW k \in at + (n - 1) + 1 .. Len(t) PROVE r[k - (n - 1) + 0] = t[k]
  <2>1. /\ k + 1 \in at + n + 1 .. Len(s) /\ k + 1 \in at + 2 .. Len(s)
        /\ (k + 1) - 1 = k /\ (k + 1) - n = k - (n - 1) + 0
    BY <1>2, <1>3
  <2>2. t[(k + 1) - 1] = s[k + 1] /\ r[(k + 1) - n] = s[k + 1]
    BY <1>2, <1>3, <2>1
  <2>. QED  BY <2>1, <2>2
<1>. QED  BY <1>1, <1>2, <1>3, <1>4, <1>5 DEF IsSplice

\* Nothing more to do: the text is what it should be.
LEMMA SpliceDone ==
  ASSUME NEW s \in Seq(Elems), NEW at, NEW r, NEW nil, nil = <<>>, IsSplice(r, s, at, 0, nil)
  PROVE  r = s
<1>1. Len(nil) = 0 /\ Len(s) \in Nat /\ at \in Nat
  BY DEF IsSplice
<1>2. r \in Seq(Elems) /\ Len(r) = Len(s)
  BY <1>1 DEF IsSplice
<1>3. ASSUME NEW k \in 1 .. Len(s) PROVE r[k] = s[k]
  <2>1. CASE k <= at
    <3>1. k \in 1 .. at
      BY <1>1, <2>1
    <3>. QED  BY <3>1 DEF IsSplice
  <2>2. CASE k > at
    <3>1. k \in at + 0 + 1 .. Len(s) /\ k - 0 + 0 = k
      BY <1>1, <2>2
    <3>. QED  BY <1>1, <3>1 DEF IsSplice
  <2>. QED  BY <1>1, <2>1, <2>2
<1>. QED  BY <1>2, <1>3, SeqEqual

----------------------------------------------------------------------------
(* What becomes of the other texts                                         *)

\* Only text t was touched: the others have their shares, as old as they were.
Spared(tx, sh, ty, rs, t) ==
  \A u \in Names \ {t} :
    ty[u] = tx[u] /\ (tx[u] # None => rs[tx[u]].born = sh[tx[u]].born)

\* A share that a text lets go of stays for those that have it too.
LEMMA LetGoSpares ==
  ASSUME Countable, NEW tx, NEW sh, NEW lv, NEW ow, Good(tx, sh, lv, ow),
         NEW t \in Names, tx[t] # None, NEW rs, rs = Released(sh, tx[t])
  PROVE  /\ rs \in Maps(Share) /\ DOMAIN rs \subseteq DOMAIN sh
         /\ \A u \in Names \ {t} : tx[u] # None
              => tx[u] \in DOMAIN rs /\ rs[tx[u]].born = sh[tx[u]].born
<1>1. PICK id : id = tx[t]
  OBVIOUS
<1>2. sh \in Maps(Share) /\ id \in DOMAIN sh /\ Holding(tx, sh, ow)
  BY <1>1 DEF Good, TextTyped, Holding
<1>3. /\ rs \in Maps(Share)
      /\ DOMAIN rs = IF sh[id].refs = 1 THEN DOMAIN sh \ {id} ELSE DOMAIN sh
      /\ \A i \in DOMAIN rs : rs[i].born = sh[i].born
  BY <1>1, <1>2, ReleasedIs
<1>4. ASSUME NEW u \in Names \ {t}, tx[u] # None PROVE tx[u] \in DOMAIN rs
  <2>1. tx[u] \in DOMAIN sh
    BY <1>2, <1>4 DEF Holding
  <2>2. CASE sh[id].refs = 1
    <3>1. tx[u] # id
      BY <1>1, <1>4, <2>2, SoleUser
    <3>. QED  BY <1>3, <2>1, <2>2, <3>1
  <2>3. CASE sh[id].refs # 1
    BY <1>3, <2>1, <2>3
  <2>. QED  BY <2>2, <2>3
<1>. QED  BY <1>3, <1>4

\* A new share is as old as the transaction, and changes no other.
LEMMA ShareAdded ==
  ASSUME NEW sh \in Maps(Share), NEW id \in Ids, id \notin DOMAIN sh,
         NEW items \in Seq(Elems), Depth \in Nat,
         NEW rs, rs = SetOf(sh, id, NewShare(items))
  PROVE  /\ rs[id].born = Depth /\ rs[id].refs = 1
         /\ \A i \in DOMAIN sh : rs[i] = sh[i]
<1>1. PICK y : y = NewShare(items)
  OBVIOUS
<1>2. y \in Share /\ y.born = Depth /\ y.refs = 1
  BY <1>1 DEF NewShare, Share
<1>3. Sets(rs, sh, Share, id, y)
  BY <1>1, <1>2, SetIs
<1>. QED  BY <1>2, <1>3 DEF Sets

LEMMA NewSpares ==
  ASSUME Countable, TextInv, NEW t \in Names, TextNew(t)
  PROVE  /\ Spared(texts, shares, texts', shares', t)
         /\ texts'[t] # None /\ shares'[texts'[t]].born = Depth
         /\ levels' = levels /\ own' = [own EXCEPT ![t] = <<>>]
<1>1. PICK id, nil : id = FreeId(shares) /\ nil = <<>>
  OBVIOUS
<1>2. /\ Good(texts, shares, levels, own) /\ texts \in [Names -> Nat]
      /\ shares \in Maps(Share) /\ Holding(texts, shares, own) /\ Depth \in Nat
      /\ nil \in Seq(Elems)
  BY <1>1, TextsAre DEF TextInv
<1>3. id \in Ids /\ id \notin DOMAIN shares /\ id # None
  BY <1>1, <1>2, FreeIdIs, IdsAre
<1>4. texts' = [texts EXCEPT ![t] = id] /\ shares' = SetOf(shares, id, NewShare(nil))
  BY <1>1 DEF TextNew
<1>5. shares'[id].born = Depth /\ \A i \in DOMAIN shares : shares'[i] = shares[i]
  BY <1>2, <1>3, <1>4, ShareAdded
<1>6. texts'[t] = id /\ \A u \in Names \ {t} : texts'[u] = texts[u]
  BY <1>2, <1>4
<1>7. \A u \in Names : texts[u] # None => texts[u] \in DOMAIN shares
  BY <1>2 DEF Holding
<1>8. Spared(texts, shares, texts', shares', t)
  BY <1>5, <1>6, <1>7 DEF Spared
<1>. QED  BY <1>3, <1>5, <1>6, <1>8 DEF TextNew

LEMMA CloneSpares ==
  ASSUME Countable, TextInv, NEW t \in Names, NEW u \in Names, TextClone(t, u)
  PROVE  /\ Spared(texts, shares, texts', shares', t)
         /\ texts'[t] # None /\ texts'[t] = texts[u]
         /\ shares'[texts[u]].born = shares[texts[u]].born
         /\ levels' = levels /\ own' = [own EXCEPT ![t] = own[u]]
<1>1. /\ texts \in [Names -> Nat] /\ shares \in Maps(Share)
      /\ Holding(texts, shares, own) /\ texts[u] # None
  BY TextsAre DEF TextClone
<1>2. PICK id : id = texts[u]
  OBVIOUS
<1>3. id \in DOMAIN shares /\ \A v \in Names : texts[v] # None => texts[v] \in DOMAIN shares
  BY <1>1, <1>2 DEF Holding
<1>4. texts' = [texts EXCEPT ![t] = id] /\ shares' = [shares EXCEPT ![id].refs = @ + 1]
  BY <1>2 DEF TextClone
<1>5. \A i \in DOMAIN shares : shares'[i].born = shares[i].born
  <2>1. shares[id] = [items |-> shares[id].items, refs |-> shares[id].refs,
                      born |-> shares[id].born]
    BY <1>1, <1>3, SharesIn
  <2>2. PICK y : y = [shares[id] EXCEPT !.refs = @ + 1]
    OBVIOUS
  <2>3. y.born = shares[id].born
    BY <2>1, <2>2
  <2>4. shares' = [shares EXCEPT ![id] = y]
    BY <1>4, <2>2
  <2>. QED  BY <1>3, <2>3, <2>4
<1>6. texts'[t] = id /\ \A v \in Names \ {t} : texts'[v] = texts[v]
  BY <1>1, <1>4
<1>7. Spared(texts, shares, texts', shares', t)
  BY <1>3, <1>5, <1>6 DEF Spared
<1>. QED  BY <1>1, <1>2, <1>3, <1>5, <1>6, <1>7 DEF TextClone

LEMMA FreeSpares ==
  ASSUME Countable, TextInv, NEW t \in Names, TextFree(t)
  PROVE  /\ Spared(texts, shares, texts', shares', t)
         /\ texts'[t] = None /\ texts[t] # None
         /\ levels' = levels /\ own' = [own EXCEPT ![t] = <<>>]
<1>1. /\ Good(texts, shares, levels, own) /\ texts \in [Names -> Nat] /\ texts[t] # None
  BY TextsAre DEF TextInv, TextFree
<1>2. texts' = [texts EXCEPT ![t] = None] /\ shares' = Released(shares, texts[t])
  BY DEF TextFree
<1>3. \A u \in Names \ {t} : texts[u] # None => shares'[texts[u]].born = shares[texts[u]].born
  <2>1. PICK tx, sh, rs : tx = texts /\ sh = shares /\ rs = shares'
    OBVIOUS
  <2>2. Good(tx, sh, levels, own) /\ tx[t] # None /\ rs = Released(sh, tx[t])
    BY <1>1, <1>2, <2>1
  <2>3. \A u \in Names \ {t} : tx[u] # None => rs[tx[u]].born = sh[tx[u]].born
    BY <2>2, LetGoSpares
  <2>. QED  BY <2>1, <2>3
<1>4. texts'[t] = None /\ \A u \in Names \ {t} : texts'[u] = texts[u]
  BY <1>1, <1>2
<1>. QED  BY <1>1, <1>3, <1>4 DEF Spared, TextFree

LEMMA Utf8Spares ==
  ASSUME Countable, TextInv, NEW t \in Names, texts[t] # None, NEW items \in Seq(Elems),
         Depth = 1, TextFromUtf8(t, items)
  PROVE  /\ Spared(texts, shares, texts', shares', t)
         /\ texts'[t] # None /\ shares'[texts'[t]].born = 1
         /\ Len(levels') = 1 /\ levels'[1].own = levels[1].own
         /\ own' = [own EXCEPT ![t] = items]
<1>1. PICK id, new, rs : id = texts[t] /\ new = FreeId(shares) /\ rs = Released(shares, id)
  OBVIOUS
<1>2. /\ Good(texts, shares, levels, own) /\ texts \in [Names -> Nat]
      /\ shares \in Maps(Share) /\ levels \in Seq(Level) /\ Len(levels) = 1
      /\ id \in DOMAIN shares /\ Holding(texts, shares, own)
  BY <1>1, TextsAre DEF TextInv, Holding
<1>3. new \in Ids /\ new \notin DOMAIN shares /\ new # None
  BY <1>1, <1>2, FreeIdIs, IdsAre
<1>4. /\ rs \in Maps(Share) /\ DOMAIN rs \subseteq DOMAIN shares
      /\ \A u \in Names \ {t} : texts[u] # None
           => texts[u] \in DOMAIN rs /\ rs[texts[u]].born = shares[texts[u]].born
  <2>1. PICK tx, sh : tx = texts /\ sh = shares
    OBVIOUS
  <2>2. Good(tx, sh, levels, own) /\ tx[t] # None /\ rs = Released(sh, tx[t])
    BY <1>1, <1>2, <2>1
  <2>3. /\ rs \in Maps(Share) /\ DOMAIN rs \subseteq DOMAIN sh
        /\ \A u \in Names \ {t} : tx[u] # None
             => tx[u] \in DOMAIN rs /\ rs[tx[u]].born = sh[tx[u]].born
    BY <2>2, LetGoSpares
  <2>. QED  BY <2>1, <2>3
<1>5. /\ texts' = [texts EXCEPT ![t] = new] /\ shares' = SetOf(rs, new, NewShare(items))
      /\ levels' = (IF shares[id].refs # 1 THEN levels ELSE Forgotten(levels, id))
      /\ own' = [own EXCEPT ![t] = items]
  BY <1>1 DEF TextFromUtf8, Become, Forgotten
<1>6. shares'[new].born = 1 /\ \A i \in DOMAIN rs : shares'[i] = rs[i]
  <2>1. Depth \in Nat /\ new \notin DOMAIN rs
    BY <1>3, <1>4
  <2>2. PICK rt : rt = shares'
    OBVIOUS
  <2>3. rt[new].born = Depth /\ \A i \in DOMAIN rs : rt[i] = rs[i]
    BY <1>3, <1>4, <1>5, <2>1, <2>2, ShareAdded
  <2>. QED  BY <2>2, <2>3
<1>7. texts'[t] = new /\ \A u \in Names \ {t} : texts'[u] = texts[u]
  BY <1>2, <1>5
<1>8. Spared(texts, shares, texts', shares', t)
  BY <1>4, <1>6, <1>7 DEF Spared
<1>9. Len(levels') = 1 /\ levels'[1].own = levels[1].own
  <2>1. CASE shares[id].refs # 1
    BY <1>2, <1>5, <2>1
  <2>2. CASE shares[id].refs = 1
    <3>1. PICK f : f = Forgotten(levels, id)
      OBVIOUS
    <3>2. Len(f) = 1 /\ \A n \in 1 .. Len(levels) : f[n].own = levels[n].own
      BY <1>2, <3>1, ForgottenIs
    <3>3. 1 \in 1 .. Len(levels) /\ levels' = f
      BY <1>2, <1>5, <2>2, <3>1
    <3>. QED  BY <3>2, <3>3
  <2>. QED  BY <2>1, <2>2
<1>. QED  BY <1>3, <1>5, <1>6, <1>7, <1>8, <1>9

\* What a detach makes, piece by piece.
LEMMA DetachedSpares ==
  ASSUME Countable, TextInv, NEW t \in Names, texts[t] # None, Depth = 1,
         NEW d, d = Detached(State, t)
  PROVE  /\ Spared(texts, shares, d.texts, d.shares, t)
         /\ shares[texts[t]].refs <= 1
              => d.texts = texts /\ d.shares = shares
         /\ d.shares[d.texts[t]].born \in {1, shares[texts[t]].born}
<1>1. PICK id : id = texts[t]
  OBVIOUS
<1>2. /\ Good(texts, shares, levels, own) /\ texts \in [Names -> Nat]
      /\ shares \in Maps(Share) /\ id \in DOMAIN shares /\ State = St(texts, shares, levels)
  BY <1>1, TextsAre DEF TextInv, Holding
<1>3. CASE shares[id].refs <= 1
  <2>1. d = State
    BY <1>1, <1>2, <1>3 DEF Detached, St
  <2>2. d.texts = texts /\ d.shares = shares
    BY <2>1 DEF State
  <2>. QED  BY <2>2 DEF Spared
<1>4. CASE ~(shares[id].refs <= 1)
  <2>1. PICK new, rs, items : /\ new = FreeId(shares) /\ rs = Released(shares, id)
                              /\ items = shares[id].items
    OBVIOUS
  <2>2. new \in Ids /\ new \notin DOMAIN shares
    BY <1>2, <2>1, FreeIdIs
  <2>3. /\ rs \in Maps(Share) /\ DOMAIN rs \subseteq DOMAIN shares
        /\ \A u \in Names \ {t} : texts[u] # None
             => texts[u] \in DOMAIN rs /\ rs[texts[u]].born = shares[texts[u]].born
    <3>1. PICK tx, sh : tx = texts /\ sh = shares
      OBVIOUS
    <3>2. Good(tx, sh, levels, own) /\ tx[t] # None /\ rs = Released(sh, tx[t])
      BY <1>1, <1>2, <2>1, <3>1
    <3>3. /\ rs \in Maps(Share) /\ DOMAIN rs \subseteq DOMAIN sh
          /\ \A u \in Names \ {t} : tx[u] # None
               => tx[u] \in DOMAIN rs /\ rs[tx[u]].born = sh[tx[u]].born
      BY <3>2, LetGoSpares
    <3>. QED  BY <3>1, <3>3
  <2>4. PICK rt : rt = SetOf(rs, new, NewShare(items))
    OBVIOUS
  <2>5. d.texts = [texts EXCEPT ![t] = new] /\ d.shares = rt
    <3>1. d = [State EXCEPT !.texts[t] = new, !.shares = rt]
      BY <1>1, <1>2, <1>4, <2>1, <2>4 DEF Detached, St
    <3>. QED  BY <3>1 DEF State
  <2>6. rt[new].born = 1 /\ \A i \in DOMAIN rs : rt[i] = rs[i]
    <3>1. items \in Seq(Elems)
      BY <1>2, <2>1, SharesIn
    <3>2. Depth \in Nat /\ new \notin DOMAIN rs
      BY <2>2, <2>3
    <3>3. rt[new].born = Depth /\ \A i \in DOMAIN rs : rt[i] = rs[i]
      BY <2>2, <2>3, <2>4, <3>1, <3>2, ShareAdded
    <3>. QED  BY <3>3
  <2>7. d.texts[t] = new /\ \A u \in Names \ {t} : d.texts[u] = texts[u]
    BY <1>2, <2>5
  <2>8. Spared(texts, shares, d.texts, d.shares, t)
    BY <2>3, <2>5, <2>6, <2>7 DEF Spared
  <2>. QED  BY <1>1, <1>4, <2>5, <2>6, <2>7, <2>8
<1>. QED  BY <1>1, <1>3, <1>4

\* A write leaves every share as old as it was, and the level what it knows of the texts.
LEMMA WrittenSpares ==
  ASSUME NEW tx, NEW sh \in Maps(Share), NEW lv \in Seq(Level), Len(lv) = 1, Depth = 1,
         NEW t, tx[t] \in DOMAIN sh, NEW items \in Seq(Elems),
         NEW r, r = Written(St(tx, sh, lv), t, items)
  PROVE  /\ r.texts = tx /\ \A i \in DOMAIN sh : r.shares[i].born = sh[i].born
         /\ Len(r.levels) = 1 /\ r.levels[1].own = lv[1].own
<1>1. PICK id : id = tx[t]
  OBVIOUS
<1>2. PICK v : v = sh[id].items
  OBVIOUS
<1>3. /\ r.texts = tx /\ r.shares = [sh EXCEPT ![id].items = items]
      /\ r.levels = Shadowed(lv, id, v)
  <2>1. r = [St(tx, sh, lv) EXCEPT !.shares[id].items = items,
                !.levels[1].shadow =
                   IF id \in DOMAIN lv[1].shadow THEN lv[1].shadow
                   ELSE SetOf(lv[1].shadow, id, v)]
    BY <1>1, <1>2 DEF Written, St
  <2>2. r = St(tx, [sh EXCEPT ![id].items = items],
                [lv EXCEPT ![1].shadow =
                   IF id \in DOMAIN lv[1].shadow THEN lv[1].shadow
                   ELSE SetOf(lv[1].shadow, id, v)])
    BY <2>1 DEF St
  <2>3. PICK s2 : s2 = [sh EXCEPT ![id].items = items]
    OBVIOUS
  <2>4. PICK l2 : l2 = Shadowed(lv, id, v)
    OBVIOUS
  <2>5. r = St(tx, s2, l2)
    <3>1. 1 \in 1 .. Len(lv)
      OBVIOUS
    <3>. QED  BY <2>2, <2>3, <2>4, <3>1 DEF Shadowed
  <2>6. r.texts = tx /\ r.shares = s2 /\ r.levels = l2
    BY <2>5 DEF St
  <2>. QED  BY <2>3, <2>4, <2>6
<1>4. ASSUME NEW i \in DOMAIN sh PROVE r.shares[i].born = sh[i].born
  <2>1. sh[id] = [items |-> sh[id].items, refs |-> sh[id].refs, born |-> sh[id].born]
    BY <1>1, SharesIn
  <2>2. PICK y : y = [sh[id] EXCEPT !.items = items]
    OBVIOUS
  <2>3. y.born = sh[id].born
    BY <2>1, <2>2
  <2>4. r.shares = [sh EXCEPT ![id] = y]
    BY <1>3, <2>2
  <2>. QED  BY <1>1, <2>3, <2>4
<1>5. id \in Ids /\ v \in Seq(Elems)
  BY <1>1, <1>2, SharesIn
<1>6. ShadowsIn(Shadowed(lv, id, v), lv, id, v)
  <2>1. Len(lv) # 0
    OBVIOUS
  <2>. QED  BY <1>5, <2>1, ShadowedIs
<1>7. Len(r.levels) = 1 /\ r.levels[1].own = lv[1].own
  BY <1>3, <1>6 DEF ShadowsIn
<1>. QED  BY <1>3, <1>4, <1>7

\* Text t was written: what is so of the other texts, of t, and of the level.
Touched(ty, rs, lw, t) ==
  /\ Spared(texts, shares, ty, rs, t)
  /\ ty[t] # None /\ rs[ty[t]].born \in {1, shares[texts[t]].born}
  /\ shares[texts[t]].refs = 1
       => /\ ty[t] = texts[t] /\ rs[texts[t]].refs = 1
          /\ rs[texts[t]].born = shares[texts[t]].born
  /\ Len(lw) = 1 /\ lw[1].own = levels[1].own

LEMMA EditSpares ==
  ASSUME Countable, TextInv, NEW t \in Names, texts[t] # None, Depth = 1,
         NEW items \in Seq(Elems), NEW r, r = Written(Detached(State, t), t, items)
  PROVE  /\ Good(r.texts, r.shares, r.levels, [own EXCEPT ![t] = items])
         /\ Touched(r.texts, r.shares, r.levels, t)
<1>1. /\ Good(texts, shares, levels, own) /\ State = St(texts, shares, levels)
      /\ Len(levels) = Depth /\ Len(levels) # 0 /\ levels \in Seq(Level)
      /\ Holding(texts, shares, own)
  <2>1. Len(levels) = 1
    BY DEF Depth
  <2>. QED  BY <2>1, TextsAre DEF TextInv
<1>2. PICK d : d = Detached(State, t)
  OBVIOUS
<1>3. PICK tx, sh : tx = d.texts /\ sh = d.shares
  OBVIOUS
<1>4. /\ d = St(tx, sh, levels) /\ Good(tx, sh, levels, own)
      /\ Alone(tx, sh, texts, shares, t)
  <2>1. LET q == Detached(St(texts, shares, levels), t) IN
        /\ q = St(q.texts, q.shares, levels) /\ Good(q.texts, q.shares, levels, own)
        /\ Alone(q.texts, q.shares, texts, shares, t)
    BY <1>1, DetachedIs
  <2>. QED  BY <1>1, <1>2, <1>3, <2>1
<1>5. tx[t] # None /\ sh[tx[t]].refs = 1
  BY <1>4 DEF Alone
<1>6. /\ Spared(texts, shares, tx, sh, t)
      /\ shares[texts[t]].refs <= 1 => tx = texts /\ sh = shares
      /\ sh[tx[t]].born \in {1, shares[texts[t]].born}
  BY <1>2, <1>3, DetachedSpares
<1>7. sh \in Maps(Share) /\ tx[t] \in DOMAIN sh /\ Holding(tx, sh, own)
  BY <1>4, <1>5 DEF Good, TextTyped, Holding
<1>8. r = Written(St(tx, sh, levels), t, items)
  BY <1>2, <1>4
<1>9. /\ Good(tx, r.shares, r.levels, [own EXCEPT ![t] = items])
      /\ \A i \in DOMAIN sh : r.shares[i].refs = sh[i].refs
  <2>1. LET q == Written(St(tx, sh, levels), t, items) IN
        /\ Good(tx, q.shares, q.levels, [own EXCEPT ![t] = items])
        /\ \A i \in DOMAIN sh : q.shares[i].refs = sh[i].refs
    BY <1>1, <1>4, <1>5, WrittenIs
  <2>. QED  BY <1>8, <2>1
<1>10. /\ r.texts = tx /\ \A i \in DOMAIN sh : r.shares[i].born = sh[i].born
       /\ Len(r.levels) = 1 /\ r.levels[1].own = levels[1].own
  <2>1. Len(levels) = 1
    BY <1>1
  <2>. QED  BY <1>1, <1>7, <1>8, <2>1, WrittenSpares
<1>11. Spared(texts, shares, r.texts, r.shares, t)
  <2>1. ASSUME NEW u \in Names \ {t}, texts[u] # None
        PROVE  r.shares[texts[u]].born = shares[texts[u]].born
    <3>1. tx[u] = texts[u] /\ sh[texts[u]].born = shares[texts[u]].born
      BY <1>6, <2>1 DEF Spared
    <3>2. texts[u] \in DOMAIN sh
      BY <1>7, <2>1, <3>1 DEF Holding
    <3>. QED  BY <1>10, <3>1, <3>2
  <2>. QED  BY <1>6, <1>10, <2>1 DEF Spared
<1>12. r.texts[t] # None /\ r.shares[r.texts[t]].born \in {1, shares[texts[t]].born}
  BY <1>5, <1>6, <1>7, <1>10
<1>13. shares[texts[t]].refs = 1
         => /\ r.texts[t] = texts[t] /\ r.shares[texts[t]].refs = 1
            /\ r.shares[texts[t]].born = shares[texts[t]].born
  <2>1. shares[texts[t]].refs = 1 => tx = texts /\ sh = shares
    BY <1>6
  <2>. QED  BY <1>5, <1>7, <1>9, <1>10, <2>1
<1>14. Good(r.texts, r.shares, r.levels, [own EXCEPT ![t] = items])
  BY <1>9, <1>10
<1>. QED  BY <1>10, <1>11, <1>12, <1>13, <1>14 DEF Touched

\* The share that a commit hands up is as old as those that were there before.
LEMMA CommitSpares ==
  ASSUME Countable, TextInv, Depth = 1, Commit
  PROVE  /\ texts' = texts /\ own' = own /\ levels' = <<>>
         /\ \A u \in Names : texts[u] # None /\ shares[texts[u]].born \in {0, 1}
              => shares'[texts[u]].born = 0
<1>1. shares \in Maps(Share) /\ Holding(texts, shares, own)
  BY TextsAre
<1>2. \A i \in DOMAIN shares :
        shares'[i].born = IF shares[i].born = Depth THEN Depth - 1 ELSE shares[i].born
  <2>1. PICK rs : rs = HandUp(shares)
    OBVIOUS
  <2>2. Depth \in Nat \ {0}
    OBVIOUS
  <2>3. \A i \in DOMAIN shares :
          rs[i].born = IF shares[i].born = Depth THEN Depth - 1 ELSE shares[i].born
    BY <1>1, <2>1, <2>2, HandUpIs
  <2>. QED  BY <2>1, <2>3 DEF Commit
<1>3. ASSUME NEW u \in Names, texts[u] # None, shares[texts[u]].born \in {0, 1}
      PROVE  shares'[texts[u]].born = 0
  <2>1. texts[u] \in DOMAIN shares
    BY <1>1, <1>3 DEF Holding
  <2>. QED  BY <1>2, <1>3, <2>1
<1>. QED  BY <1>3 DEF Commit

\* An abort leaves the texts whose share was there before, and what they held then.
LEMMA AbortSpares ==
  ASSUME Countable, NEW oh, Good(texts, shares, levels, oh), Len(levels) = 1, Abort
  PROVE  /\ levels' = <<>>
         /\ \A u \in Names : texts'[u] # None
              => texts'[u] = texts[u] /\ texts[u] # None /\ shares'[texts[u]].born = 0
         /\ \A u \in Names : texts[u] # None /\ shares[texts[u]].born = 0
              => texts'[u] = texts[u] /\ own'[u] = levels[1].own[u]
<1>1. /\ texts \in [Names -> Nat] /\ shares \in Maps(Share) /\ Depth = 1
      /\ Holding(texts, shares, oh) /\ None \notin DOMAIN shares
  <2>1. shares \in Maps(Share)
    BY DEF Good, TextTyped
  <2>. QED  BY <2>1, SharesIn, IdsAre DEF Good, TextTyped, Depth
<1>2. PICK kept : kept = {id \in DOMAIN shares : shares[id].born < 1}
  OBVIOUS
<1>3. \A id : id \in kept <=> id \in DOMAIN shares /\ shares[id].born = 0
  <2>1. \A id \in DOMAIN shares : shares[id].born \in Nat
    BY <1>1, SharesIn
  <2>. QED  BY <1>2, <2>1
<1>4. PICK top : top = levels[1]
  OBVIOUS
<1>5. /\ texts' = [t \in Names |-> IF texts[t] \in kept THEN texts[t] ELSE None]
      /\ own' = [t \in Names |-> IF texts[t] \in kept THEN top.own[t] ELSE <<>>]
      /\ shares' = [id \in kept |-> IF id \in DOMAIN top.shadow
                                    THEN [shares[id] EXCEPT !.items = top.shadow[id]]
                                    ELSE shares[id]]
  BY <1>1, <1>2, <1>4 DEF Abort
<1>6. levels' = <<>>
  <2>1. levels' = [n \in 1 .. 1 - 1 |->
                     [levels[n] EXCEPT !.own =
                        [t \in Names |-> IF texts[t] \in kept THEN @[t] ELSE <<>>]]]
    BY <1>1, <1>2 DEF Abort
  <2>2. 1 .. 1 - 1 = {}
    OBVIOUS
  <2>3. DOMAIN levels' = {} /\ levels' = [n \in {} |-> 0]
    BY <2>1, <2>2
  <2>. QED  BY <2>3
<1>7. ASSUME NEW id \in kept PROVE shares'[id].born = 0
  <2>1. shares[id] = [items |-> shares[id].items, refs |-> shares[id].refs,
                      born |-> shares[id].born]
    BY <1>1, <1>3, SharesIn
  <2>2. PICK y : y = [shares[id] EXCEPT !.items = top.shadow[id]]
    OBVIOUS
  <2>3. y.born = shares[id].born /\ shares[id].born = 0
    BY <1>3, <2>1, <2>2
  <2>4. shares'[id] = IF id \in DOMAIN top.shadow THEN y ELSE shares[id]
    BY <1>5, <2>2
  <2>. QED  BY <2>3, <2>4
<1>8. \A u \in Names : /\ texts'[u] = IF texts[u] \in kept THEN texts[u] ELSE None
                       /\ texts[u] \in kept => own'[u] = top.own[u]
  BY <1>5
<1>9. \A u \in Names : texts[u] # None => texts[u] \in DOMAIN shares
  BY <1>1 DEF Holding
<1>10. None \notin kept
  BY <1>1, <1>3
<1>. QED  BY <1>3, <1>4, <1>6, <1>7, <1>8, <1>9, <1>10

----------------------------------------------------------------------------
(* What holds between the steps of a call                                  *)

\* Texts have addresses, and the table has room for one when it is made.
Handed == Countable /\ None \notin Names /\ FirstCap \in Nat \ {0}

OpenCall == [op : {"open"}, text : Names, holds : Seq(Elems),
             step : {"begin", "write", "commit", "install", "abort", "discard"}]
EditCall == [op : {"edit"}, text : Names, holds : Seq(Elems),
             step : {"begin", "write", "commit", "abort"},
             h : Nat, at : Nat, left : Nat, todo : Seq(Elems), shared : BOOLEAN]

\* No text has two handles.
TableGood(sl, cp, sd) ==
  /\ sl \in Seq(Names \cup {None}) /\ cp \in Nat /\ Len(sl) <= cp
  /\ DOMAIN sd = DOMAIN sl /\ \A h \in DOMAIN sl : sd[h] \in Seq(Elems)
  /\ \A g, h \in DOMAIN sl : g # h /\ sl[g] # None => sl[g] # sl[h]

InTable(sl, u) == \E h \in DOMAIN sl : sl[h] = u

\* Texts tx are each in the table, leaked, or among those of X.
Covered(tx, sl, lk, X) == \A u \in Names : tx[u] # None => u \in lk \cup X \/ InTable(sl, u)

Pending(c) == IF c.op = "open" THEN {c.text} ELSE {}

\* Every handle that is not broken has its text, and it holds what was said; those
\* of X aside.
Agrees(tx, ow, sl, sd, br, X) ==
  \A h \in DOMAIN sl :
    sl[h] # None /\ h \notin br /\ sl[h] \notin X => tx[sl[h]] # None /\ ow[sl[h]] = sd[h]

\* The shares of texts, but those of X, were there before the transaction.
OldOnes(tx, sh, X) == \A u \in Names \ X : tx[u] # None => sh[tx[u]].born = 0

AtRest ==
  /\ levels = <<>> /\ TextInv
  /\ Agrees(texts, own, slots, said, broken, {})
  /\ OldOnes(texts, shares, {})

\* In the transaction of a call on text t the level knows what every text held.
AtWork(t) ==
  /\ Len(levels) = 1
  /\ Agrees(texts, levels[1].own, slots, said, broken, {})
  /\ Agrees(texts, own, slots, said, broken, {t})
  /\ OldOnes(texts, shares, {t})
  /\ texts[t] # None => shares[texts[t]].born \in {0, 1}

Undoable == \E oh : Good(texts, shares, levels, oh)

OpenGood ==
  /\ call \in OpenCall /\ ~InTable(slots, call.text)
  /\ call.step \in {"begin", "install", "discard"} => AtRest
  /\ call.step \in {"write", "commit", "abort"} => AtWork(call.text)
  /\ call.step \in {"write", "commit"} => TextInv
  /\ call.step = "abort" => Undoable
  /\ call.step \in {"begin", "write", "commit", "install"} => texts[call.text] # None
  /\ call.step \in {"commit", "install"} => own[call.text] = call.holds

\* What is to be done yet makes of the text what the edit is for.
Ahead(c, s) ==
  IsSplice(c.holds, s, c.at, c.left, c.todo) /\ (c.left = 0 \/ c.todo = <<>>)

EditGood ==
  /\ call \in EditCall
  /\ call.h \in DOMAIN slots /\ slots[call.h] = call.text /\ call.h \notin broken
  /\ texts[call.text] # None
  /\ call.step = "begin" => AtRest
  /\ call.step \in {"write", "commit", "abort"} => AtWork(call.text)
  /\ call.step \in {"write", "commit"} => TextInv
  /\ call.step = "abort" => Undoable
  /\ call.step \in {"begin", "write"} => Ahead(call, own[call.text])
  /\ call.step = "commit" => own[call.text] = call.holds
  /\ call.shared = FALSE
       => shares[texts[call.text]].refs = 1 /\ shares[texts[call.text]].born = 0

GuestInv ==
  /\ TableGood(slots, cap, said)
  /\ Covered(texts, slots, leaked, Pending(call))
  /\ (call = Guest!Idle /\ AtRest) \/ OpenGood \/ EditGood

\* Which call it is, by its op.
LEMMA Which ==
  ASSUME GuestInv
  PROVE  /\ call = Guest!Idle => AtRest /\ Pending(call) = {}
         /\ call.op = "open" => OpenGood /\ Pending(call) = {call.text}
         /\ call.op = "edit" => EditGood /\ Pending(call) = {}
         /\ call # Guest!Idle => call.op = "open" \/ call.op = "edit"
<1>1. Guest!Idle.op = "none"
  BY DEF Guest!Idle
<1>2. OpenGood => call.op = "open"
  BY DEF OpenGood, OpenCall
<1>3. EditGood => call.op = "edit"
  BY DEF EditGood, EditCall
<1>. QED  BY <1>1, <1>2, <1>3 DEF GuestInv, Pending

\* The next step of an open, or of an edit.
LEMMA OpenTo ==
  ASSUME call \in OpenCall, NEW s, Guest!To(s),
         s \in {"begin", "write", "commit", "install", "abort", "discard"}
  PROVE  /\ call' \in OpenCall /\ call'.step = s /\ call'.op = "open"
         /\ call'.text = call.text /\ call'.holds = call.holds
BY DEF OpenCall, Guest!To

LEMMA EditTo ==
  ASSUME call \in EditCall, NEW s, Guest!To(s), s \in {"begin", "write", "commit", "abort"}
  PROVE  /\ call' \in EditCall /\ call'.step = s /\ call'.op = "edit"
         /\ call'.text = call.text /\ call'.holds = call.holds /\ call'.h = call.h
         /\ call'.at = call.at /\ call'.left = call.left /\ call'.todo = call.todo
         /\ call'.shared = call.shared
BY DEF EditCall, Guest!To

\* What is so of the handles when one text was touched that none of them has, or that
\* is left aside.
LEMMA SparedAgrees ==
  ASSUME NEW tx, NEW sh, NEW ty, NEW rs, NEW t, Spared(tx, sh, ty, rs, t),
         NEW ow, NEW ox, \A u \in Names \ {t} : ox[u] = ow[u],
         NEW sl, NEW cp, NEW sd, TableGood(sl, cp, sd), NEW br,
         NEW X, Agrees(tx, ow, sl, sd, br, X), InTable(sl, t) => t \in X
  PROVE  Agrees(ty, ox, sl, sd, br, X)
<1>. SUFFICES ASSUME NEW h \in DOMAIN sl, sl[h] # None, h \notin br, sl[h] \notin X
              PROVE  ty[sl[h]] # None /\ ox[sl[h]] = sd[h]
  BY DEF Agrees
<1>1. sl[h] \in Names \cup {None}
  BY DEF TableGood
<1>2. sl[h] # t
  BY DEF InTable
<1>. QED  BY <1>1, <1>2 DEF Agrees, Spared

\* The level knows what the texts held, as long as the text is there.
LEMMA LevelAgrees ==
  ASSUME NEW tx, NEW sh, NEW ty, NEW rs, NEW t, Spared(tx, sh, ty, rs, t), ty[t] # None,
         NEW ow, NEW sl, NEW cp, NEW sd, TableGood(sl, cp, sd), NEW br,
         NEW X, Agrees(tx, ow, sl, sd, br, X)
  PROVE  Agrees(ty, ow, sl, sd, br, X)
<1>. SUFFICES ASSUME NEW h \in DOMAIN sl, sl[h] # None, h \notin br, sl[h] \notin X
              PROVE  ty[sl[h]] # None /\ ow[sl[h]] = sd[h]
  BY DEF Agrees
<1>1. sl[h] \in Names \cup {None}
  BY DEF TableGood
<1>. QED  BY <1>1 DEF Agrees, Spared

LEMMA SparedCovered ==
  ASSUME NEW tx, NEW sh, NEW ty, NEW rs, NEW t, Spared(tx, sh, ty, rs, t),
         NEW sl, NEW lk, NEW X, NEW Y, Covered(tx, sl, lk, X), X \ {t} \subseteq Y,
         ty[t] # None => t \in Y \/ InTable(sl, t)
  PROVE  Covered(ty, sl, lk, Y)
BY DEF Covered, Spared

\* A write of text t in the transaction of its call.
LEMMA WorkSpared ==
  ASSUME TableGood(slots, cap, said), NEW t \in Names, AtWork(t),
         Spared(texts, shares, texts', shares', t), texts'[t] # None,
         shares'[texts'[t]].born \in {0, 1},
         Len(levels') = 1, levels'[1].own = levels[1].own,
         \A u \in Names \ {t} : own'[u] = own[u], UNCHANGED <<slots, said, broken>>
  PROVE  AtWork(t)'
<1>1. Agrees(texts, own, slots, said, broken, {t}) /\ OldOnes(texts, shares, {t})
      /\ Agrees(texts, levels[1].own, slots, said, broken, {})
  BY DEF AtWork
<1>2. Agrees(texts', own', slots, said, broken, {t})
  BY <1>1, SparedAgrees
<1>3. PICK lo : lo = levels[1].own
  OBVIOUS
<1>4. Agrees(texts', lo, slots, said, broken, {})
  BY <1>1, <1>3, LevelAgrees
<1>5. OldOnes(texts', shares', {t})
  BY <1>1 DEF OldOnes, Spared
<1>. QED  BY <1>2, <1>3, <1>4, <1>5 DEF AtWork

----------------------------------------------------------------------------
(* The steps of a call that makes a text                                   *)

LEMMA FreshIs ==
  ASSUME NEW t \in Names, Guest!Fresh(t)
  PROVE  texts[t] = None /\ ~InTable(slots, t) /\ t \notin leaked
<1>1. t \notin Live
  BY SameTexts DEF Guest!Fresh, Guest!Taken
<1>2. t \notin {slots[h] : h \in DOMAIN slots} /\ t \notin leaked
  BY DEF Guest!Fresh, Guest!Taken, Guest!ToSet
<1>. QED  BY <1>1, <1>2 DEF Live, InTable

\* A text was made and the call goes on with it, nobody else touched.
LEMMA Opened ==
  ASSUME Handed, GuestInv, NEW t \in Names, ~InTable(slots, t), AtRest, Pending(call) = {},
         TextInv', Spared(texts, shares, texts', shares', t), levels' = levels,
         texts'[t] # None, shares'[texts'[t]].born = 0, own'[t] \in Seq(Elems),
         \A u \in Names \ {t} : own'[u] = own[u],
         UNCHANGED <<slots, cap, said, broken, leaked>>,
         call' \in OpenCall, call'.text = t,
         call'.step = "begin" \/ (call'.step = "install" /\ own'[t] = call'.holds)
  PROVE  GuestInv'
<1>1. Agrees(texts', own', slots, said, broken, {})
  BY SparedAgrees DEF AtRest, GuestInv
<1>2. OldOnes(texts', shares', {})
  <2>1. OldOnes(texts, shares, {})
    BY DEF AtRest
  <2>. QED  BY <2>1 DEF OldOnes, Spared
<1>3. AtRest'
  BY <1>1, <1>2 DEF AtRest
<1>4. OpenGood'
  BY <1>3 DEF OpenGood
<1>5. Covered(texts', slots, leaked, {t})
  BY SparedCovered DEF GuestInv
<1>6. Pending(call') = {t}
  BY DEF Pending, OpenCall
<1>. QED  BY <1>4, <1>5, <1>6 DEF GuestInv

LEMMA OpenHolds ==
  ASSUME Handed, GuestInv, NEW t \in Names, NEW items \in Seq(Elems), Guest!Open(t, items)
  PROVE  GuestInv'
<1>1. /\ call = Guest!Idle /\ TextNew(t)
      /\ call' = [op |-> "open", step |-> "begin", text |-> t, holds |-> items]
      /\ UNCHANGED <<slots, cap, said, broken, leaked>>
  BY SameSteps DEF Guest!Open, Guest!table, Guest!told
<1>2. AtRest /\ Pending(call) = {} /\ TextInv
  BY <1>1, Which DEF AtRest
<1>3. ~InTable(slots, t)
  BY FreshIs DEF Guest!Open
<1>4. TextInv'
  BY <1>1, <1>2, NewKeeps DEF Handed
<1>5. /\ Spared(texts, shares, texts', shares', t) /\ levels' = levels
      /\ texts'[t] # None /\ shares'[texts'[t]].born = 0 /\ own' = [own EXCEPT ![t] = <<>>]
  BY <1>1, <1>2, NewSpares DEF Handed, TextNew
<1>6. own'[t] \in Seq(Elems) /\ \A u \in Names \ {t} : own'[u] = own[u]
  <2>1. own \in [Names -> Seq(Elems)]
    BY <1>2, TextsAre
  <2>. QED  BY <1>5, <2>1
<1>7. call' \in OpenCall /\ call'.text = t /\ call'.step = "begin"
  BY <1>1 DEF OpenCall
<1>. QED  BY <1>1, <1>2, <1>3, <1>4, <1>5, <1>6, <1>7, Opened

LEMMA CloneHolds ==
  ASSUME Handed, GuestInv, NEW t \in Names, NEW h \in DOMAIN slots, Guest!Clone(t, h)
  PROVE  GuestInv'
<1>1. PICK u : u = slots[h]
  OBVIOUS
<1>2. /\ call = Guest!Idle /\ TextClone(t, u) /\ u # None /\ h \notin broken
      /\ call' = [op |-> "open", step |-> "install", text |-> t, holds |-> said[h]]
      /\ UNCHANGED <<slots, cap, said, broken, leaked>>
  BY <1>1, SameSteps, SameTexts DEF Guest!Clone, Guest!table, Guest!told, Guest!Holds
<1>3. AtRest /\ Pending(call) = {} /\ TextInv
  BY <1>2, Which DEF AtRest
<1>4. /\ u \in Names /\ said[h] \in Seq(Elems) /\ texts[u] # None /\ own[u] = said[h]
      /\ shares[texts[u]].born = 0
  <2>1. u \in Names /\ said[h] \in Seq(Elems)
    BY <1>1, <1>2 DEF GuestInv, TableGood
  <2>2. texts[u] # None /\ own[u] = said[h]
    BY <1>1, <1>2, <1>3 DEF AtRest, Agrees
  <2>. QED  BY <1>3, <2>1, <2>2 DEF AtRest, OldOnes
<1>5. ~InTable(slots, t)
  BY FreshIs DEF Guest!Clone
<1>6. TextInv'
  BY <1>2, <1>3, <1>4, CloneKeeps DEF Handed
<1>7. /\ Spared(texts, shares, texts', shares', t) /\ levels' = levels
      /\ texts'[t] # None /\ texts'[t] = texts[u]
      /\ shares'[texts[u]].born = shares[texts[u]].born /\ own' = [own EXCEPT ![t] = own[u]]
  BY <1>2, <1>3, <1>4, CloneSpares DEF Handed
<1>8. own'[t] = said[h] /\ \A v \in Names \ {t} : own'[v] = own[v]
  <2>1. own \in [Names -> Seq(Elems)]
    BY <1>3, TextsAre
  <2>. QED  BY <1>4, <1>7, <2>1
<1>9. shares'[texts'[t]].born = 0 /\ own'[t] \in Seq(Elems)
  BY <1>4, <1>7, <1>8
<1>10. /\ call' \in OpenCall /\ call'.text = t /\ call'.step = "install"
       /\ call'.holds = said[h]
  BY <1>2, <1>4 DEF OpenCall
<1>. QED  BY <1>2, <1>3, <1>5, <1>6, <1>7, <1>8, <1>9, <1>10, Opened

\* The transaction of a call begins: the level remembers what the texts hold.
LEMMA BeginHolds == ASSUME Handed, GuestInv, Guest!Begin PROVE GuestInv'
<1>1. /\ levels' = Append(levels, [shadow |-> <<>>, own |-> own])
      /\ UNCHANGED <<texts, shares, own>>
      /\ UNCHANGED <<slots, cap, said, broken, leaked>>
      /\ call # Guest!Idle /\ call.step = "begin" /\ Guest!To("write")
  BY SameEnds DEF Guest!Begin, Guest!table, Guest!told
<1>2. AtRest
  BY <1>1, Which DEF OpenGood, EditGood
<1>3. TextInv' /\ Len(levels') = 1 /\ levels'[1].own = own
  <2>1. PICK e : e = [shadow |-> <<>>, own |-> own]
    OBVIOUS
  <2>2. levels = <<>> /\ levels' = Append(levels, e) /\ e.own = own
    BY <1>1, <1>2, <2>1 DEF AtRest
  <2>3. Len(levels') = 1 /\ levels'[1] = e
    BY <2>2
  <2>4. TextInv'
    BY <1>1, <1>2, BeginGives DEF AtRest, Handed
  <2>. QED  BY <2>2, <2>3, <2>4
<1>4. ASSUME NEW t \in Names PROVE AtWork(t)'
  <2>1. /\ Agrees(texts, own, slots, said, broken, {}) /\ OldOnes(texts, shares, {})
    BY <1>2 DEF AtRest
  <2>2. Agrees(texts, own, slots, said, broken, {t}) /\ OldOnes(texts, shares, {t})
    BY <2>1 DEF Agrees, OldOnes
  <2>3. texts[t] # None => shares[texts[t]].born \in {0, 1}
    BY <2>1 DEF OldOnes
  <2>. QED  BY <1>1, <1>3, <2>1, <2>2, <2>3 DEF AtWork
<1>5. CASE call.op = "open"
  <2>1. OpenGood /\ Pending(call) = {call.text}
    BY <1>5, Which
  <2>2. /\ call' \in OpenCall /\ call'.step = "write" /\ call'.op = "open"
        /\ call'.text = call.text /\ call'.holds = call.holds
    BY <1>1, <2>1, OpenTo DEF OpenGood
  <2>3. call.text \in Names
    BY <2>1 DEF OpenGood, OpenCall
  <2>4. AtWork(call.text)'
    BY <1>4, <2>2, <2>3
  <2>5. OpenGood'
    BY <1>1, <1>3, <2>1, <2>2, <2>4 DEF OpenGood
  <2>6. Pending(call') = Pending(call)
    BY <2>1, <2>2 DEF Pending
  <2>. QED  BY <1>1, <2>5, <2>6 DEF GuestInv
<1>6. CASE call.op = "edit"
  <2>1. EditGood /\ Pending(call) = {}
    BY <1>6, Which
  <2>2. /\ call' \in EditCall /\ call'.step = "write" /\ call'.op = "edit"
        /\ call'.text = call.text /\ call'.holds = call.holds /\ call'.h = call.h
        /\ call'.at = call.at /\ call'.left = call.left /\ call'.todo = call.todo
        /\ call'.shared = call.shared
    BY <1>1, <2>1, EditTo DEF EditGood
  <2>3. call.text \in Names
    BY <2>1 DEF EditGood, EditCall
  <2>4. AtWork(call.text)'
    BY <1>4, <2>2, <2>3
  <2>5. Ahead(call', own[call.text])
    BY <1>1, <2>1, <2>2 DEF EditGood, Ahead
  <2>6. EditGood'
    BY <1>1, <1>3, <2>1, <2>2, <2>4, <2>5 DEF EditGood
  <2>7. Pending(call') = Pending(call)
    BY <2>1, <2>2 DEF Pending
  <2>. QED  BY <1>1, <2>6, <2>7 DEF GuestInv
<1>. QED  BY <1>1, <1>5, <1>6, Which

\* Nothing began: an open has a text to be discarded, an edit is over.
LEMMA NoBeginHolds == ASSUME Handed, GuestInv, Guest!NoBegin PROVE GuestInv'
<1>1. /\ UNCHANGED <<texts, shares, levels, own>>
      /\ UNCHANGED <<slots, cap, said, broken, leaked>>
      /\ call # Guest!Idle /\ call.step = "begin"
      /\ IF call.op = "open" THEN Guest!To("discard") ELSE call' = Guest!Idle
  BY DEF Guest!NoBegin, Guest!below, Guest!table, Guest!told, Guest!Answered
<1>2. AtRest
  BY <1>1, Which DEF OpenGood, EditGood
<1>3. AtRest'
  BY <1>1, <1>2 DEF AtRest, TextInv
<1>4. CASE call.op = "open"
  <2>1. OpenGood /\ Pending(call) = {call.text}
    BY <1>4, Which
  <2>2. /\ call' \in OpenCall /\ call'.step = "discard" /\ call'.op = "open"
        /\ call'.text = call.text /\ call'.holds = call.holds
    BY <1>1, <1>4, <2>1, OpenTo DEF OpenGood
  <2>3. OpenGood'
    BY <1>1, <1>3, <2>1, <2>2 DEF OpenGood
  <2>4. Pending(call') = Pending(call)
    BY <2>1, <2>2 DEF Pending
  <2>. QED  BY <1>1, <2>3, <2>4 DEF GuestInv
<1>5. CASE call.op = "edit"
  <2>1. Pending(call) = {} /\ call' = Guest!Idle
    BY <1>1, <1>5, Which
  <2>2. Pending(call') = {}
    BY <2>1 DEF Pending, Guest!Idle
  <2>. QED  BY <1>1, <1>3, <2>1, <2>2 DEF GuestInv
<1>. QED  BY <1>1, <1>4, <1>5, Which

\* The bytes of the guest are in, in a share of the transaction.
LEMMA FillHolds == ASSUME Handed, GuestInv, Guest!Fill PROVE GuestInv'
<1>1. PICK t, items : t = call.text /\ items = call.holds
  OBVIOUS
<1>2. /\ TextFromUtf8(t, items) /\ UNCHANGED <<slots, cap, said, broken, leaked>>
      /\ call.op = "open" /\ call.step = "write" /\ Guest!To("commit")
  BY <1>1, SameWrites DEF Guest!Fill, Guest!At, Guest!table, Guest!told
<1>3. OpenGood /\ Pending(call) = {t}
  BY <1>1, <1>2, Which
<1>4. /\ t \in Names /\ items \in Seq(Elems) /\ texts[t] # None /\ ~InTable(slots, t)
      /\ TextInv /\ AtWork(t)
  BY <1>1, <1>2, <1>3 DEF OpenGood, OpenCall
<1>5. Depth = 1
  BY <1>4 DEF AtWork, Depth
<1>6. TextInv'
  BY <1>2, <1>4, FromUtf8Keeps DEF Handed, Live
<1>7. /\ Spared(texts, shares, texts', shares', t)
      /\ texts'[t] # None /\ shares'[texts'[t]].born = 1
      /\ Len(levels') = 1 /\ levels'[1].own = levels[1].own /\ own' = [own EXCEPT ![t] = items]
  BY <1>2, <1>4, <1>5, Utf8Spares DEF Handed
<1>8. own'[t] = items /\ \A u \in Names \ {t} : own'[u] = own[u]
  <2>1. own \in [Names -> Seq(Elems)]
    BY <1>4, TextsAre
  <2>. QED  BY <1>4, <1>7, <2>1
<1>9. AtWork(t)'
  <2>1. TableGood(slots, cap, said) /\ UNCHANGED <<slots, said, broken>>
    BY <1>2 DEF GuestInv
  <2>. QED  BY <1>4, <1>7, <1>8, <2>1, WorkSpared
<1>10. /\ call' \in OpenCall /\ call'.step = "commit" /\ call'.op = "open"
       /\ call'.text = t /\ call'.holds = items
  BY <1>1, <1>2, <1>3, OpenTo DEF OpenGood
<1>11. OpenGood'
  BY <1>2, <1>4, <1>6, <1>7, <1>8, <1>9, <1>10 DEF OpenGood
<1>12. Covered(texts', slots, leaked, {t})
  BY <1>3, <1>7, SparedCovered DEF GuestInv
<1>13. Pending(call') = {t}
  BY <1>10 DEF Pending
<1>. QED  BY <1>2, <1>11, <1>12, <1>13 DEF GuestInv

\* The text has a handle.
LEMMA InstallHolds ==
  ASSUME Handed, GuestInv, NEW h \in 1 .. Len(slots) + 1, Guest!Install(h)
  PROVE  GuestInv'
<1>1. PICK t, items : t = call.text /\ items = call.holds
  OBVIOUS
<1>2. /\ UNCHANGED <<texts, shares, levels, own, leaked>>
      /\ call # Guest!Idle /\ call.step = "install" /\ call' = Guest!Idle
      /\ said' = [i \in DOMAIN said \cup {h} |-> IF i = h THEN items ELSE said[i]]
      /\ broken' = broken \ {h}
  BY <1>1 DEF Guest!Install, Guest!below, Guest!Answered
<1>3. OpenGood /\ Pending(call) = {t}
  <2>1. ~(call.op = "edit")
    BY <1>2, Which DEF EditGood, EditCall
  <2>. QED  BY <1>1, <1>2, <2>1, Which
<1>4. /\ t \in Names /\ items \in Seq(Elems) /\ texts[t] # None /\ ~InTable(slots, t)
      /\ AtRest /\ own[t] = items /\ t # None
  BY <1>1, <1>2, <1>3 DEF OpenGood, OpenCall, Handed
<1>5. /\ slots \in Seq(Names \cup {None}) /\ cap \in Nat /\ Len(slots) <= cap
      /\ Len(slots) \in Nat /\ DOMAIN slots = 1 .. Len(slots) /\ DOMAIN said = DOMAIN slots
      /\ \A i \in DOMAIN slots : said[i] \in Seq(Elems)
      /\ \A g, i \in DOMAIN slots : g # i /\ slots[g] # None => slots[g] # slots[i]
  BY DEF GuestInv, TableGood
<1>6. /\ slots' \in Seq(Names \cup {None}) /\ slots'[h] = t
      /\ DOMAIN slots' = DOMAIN slots \cup {h}
      /\ \A i \in DOMAIN slots' \ {h} : i \in DOMAIN slots /\ slots'[i] = slots[i]
      /\ \A i \in DOMAIN slots : i = h => slots[i] = None
      /\ cap' \in Nat /\ Len(slots') <= cap'
  <2>1. CASE \E i \in DOMAIN slots : slots[i] = Guest!None
    <3>1. /\ h \in DOMAIN slots /\ slots[h] = None /\ slots' = [slots EXCEPT ![h] = t]
          /\ cap' = cap
      BY <1>1, <2>1, SameTexts DEF Guest!Install
    <3>2. slots' \in Seq(Names \cup {None}) /\ Len(slots') = Len(slots)
      BY <1>4, <1>5, <3>1
    <3>. QED  BY <1>4, <1>5, <3>1, <3>2
  <2>2. CASE ~(\E i \in DOMAIN slots : slots[i] = Guest!None)
    <3>1. /\ h = Len(slots) + 1 /\ slots' = Append(slots, t)
          /\ cap' = IF h <= cap THEN cap ELSE IF cap = 0 THEN FirstCap ELSE 2 * cap
      BY <1>1, <2>2 DEF Guest!Install
    <3>2. /\ slots' \in Seq(Names \cup {None}) /\ Len(slots') = Len(slots) + 1
          /\ slots'[h] = t /\ \A i \in 1 .. Len(slots) : slots'[i] = slots[i]
      BY <1>4, <1>5, <3>1
    <3>3. cap' \in Nat /\ h <= cap'
      BY <1>5, <3>1 DEF Handed
    <3>4. DOMAIN slots' = 1 .. Len(slots) + 1
      BY <3>2
    <3>. QED  BY <1>5, <3>1, <3>2, <3>3, <3>4
  <2>. QED  BY <2>1, <2>2
<1>7. DOMAIN said' = DOMAIN slots' /\ said'[h] = items
      /\ \A i \in DOMAIN slots' \ {h} : said'[i] = said[i]
  BY <1>2, <1>5, <1>6
<1>8. TableGood(slots', cap', said')
  <2>1. ASSUME NEW g \in DOMAIN slots', NEW i \in DOMAIN slots', g # i, slots'[g] # None
        PROVE  slots'[g] # slots'[i]
    <3>1. \A j \in DOMAIN slots : slots[j] # t
      BY <1>4 DEF InTable
    <3>2. CASE g = h
      BY <1>6, <2>1, <3>1, <3>2
    <3>3. CASE g # h
      BY <1>5, <1>6, <2>1, <3>1, <3>3
    <3>. QED  BY <3>2, <3>3
  <2>2. \A i \in DOMAIN slots' : said'[i] \in Seq(Elems)
    BY <1>4, <1>5, <1>6, <1>7
  <2>. QED  BY <1>6, <1>7, <2>1, <2>2 DEF TableGood
<1>9. AtRest'
  <2>1. Agrees(texts, own, slots', said', broken', {})
    <3>. SUFFICES ASSUME NEW i \in DOMAIN slots', slots'[i] # None, i \notin broken'
                  PROVE  texts[slots'[i]] # None /\ own[slots'[i]] = said'[i]
      BY DEF Agrees
    <3>1. CASE i = h
      BY <1>4, <1>6, <1>7, <3>1
    <3>2. CASE i # h
      <4>1. i \in DOMAIN slots /\ slots'[i] = slots[i] /\ said'[i] = said[i] /\ i \notin broken
        BY <1>2, <1>6, <1>7, <3>2
      <4>. QED  BY <1>4, <4>1 DEF AtRest, Agrees
    <3>. QED  BY <3>1, <3>2
  <2>. QED  BY <1>2, <1>4, <2>1 DEF AtRest, TextInv
<1>10. Covered(texts, slots', leaked, {})
  <2>1. \A u : InTable(slots, u) => u = None \/ InTable(slots', u)
    BY <1>6 DEF InTable
  <2>2. InTable(slots', t)
    BY <1>6 DEF InTable
  <2>3. Covered(texts, slots, leaked, {t})
    BY <1>3 DEF GuestInv
  <2>. QED  BY <2>1, <2>2, <2>3 DEF Covered, Handed
<1>11. Pending(call') = {}
  BY <1>2 DEF Pending, Guest!Idle
<1>. QED  BY <1>2, <1>8, <1>9, <1>10, <1>11 DEF GuestInv

\* A table that is full takes nothing: the text is to be discarded.
LEMMA NoSlotHolds == ASSUME Handed, GuestInv, Guest!NoSlot PROVE GuestInv'
<1>1. /\ UNCHANGED <<texts, shares, levels, own>>
      /\ UNCHANGED <<slots, cap, said, broken, leaked>>
      /\ call # Guest!Idle /\ call.step = "install" /\ Guest!To("discard")
  BY DEF Guest!NoSlot, Guest!below, Guest!table, Guest!told
<1>2. OpenGood /\ Pending(call) = {call.text}
  <2>1. ~(call.op = "edit")
    BY <1>1, Which DEF EditGood, EditCall
  <2>. QED  BY <1>1, <2>1, Which
<1>3. /\ call' \in OpenCall /\ call'.step = "discard" /\ call'.op = "open"
      /\ call'.text = call.text /\ call'.holds = call.holds
  BY <1>1, <1>2, OpenTo DEF OpenGood
<1>4. AtRest'
  BY <1>1, <1>2 DEF OpenGood, AtRest, TextInv
<1>5. OpenGood'
  BY <1>1, <1>2, <1>3, <1>4 DEF OpenGood
<1>6. Pending(call') = Pending(call)
  BY <1>2, <1>3 DEF Pending
<1>. QED  BY <1>1, <1>5, <1>6 DEF GuestInv

\* A text that is free, or leaked: the others are as they were.
LEMMA FreedGives ==
  ASSUME Handed, AtRest, TableGood(slots, cap, said), NEW t \in Names, Guest!Freed(t),
         UNCHANGED <<said, broken>>, \A h \in DOMAIN slots' : h \in DOMAIN slots
           /\ (slots'[h] # None => slots'[h] = slots[h] /\ slots[h] # t)
  PROVE  AtRest' /\ \A u \in Names : texts'[u] # None /\ u \notin leaked'
                                       => texts[u] # None /\ u # t /\ u \notin leaked
<1>1. TextInv /\ levels = <<>> /\ OldOnes(texts, shares, {})
      /\ Agrees(texts, own, slots, said, broken, {})
  BY DEF AtRest
<1>2. CASE leaked' = leaked \cup {t} /\ UNCHANGED Guest!below
  <2>1. UNCHANGED <<texts, shares, levels, own>>
    BY <1>2 DEF Guest!below
  <2>2. Agrees(texts, own, slots', said, broken, {})
    BY <1>1 DEF Agrees
  <2>3. AtRest'
    BY <1>1, <2>1, <2>2 DEF AtRest, TextInv
  <2>. QED  BY <1>2, <2>1, <2>3
<1>3. CASE TextFree(t) /\ UNCHANGED leaked
  <2>1. /\ Spared(texts, shares, texts', shares', t)
        /\ texts'[t] = None /\ texts[t] # None
        /\ levels' = levels /\ own' = [own EXCEPT ![t] = <<>>]
    BY <1>1, <1>3, FreeSpares DEF Handed
  <2>2. TextInv'
    BY <1>1, <1>3, <2>1, FreeKeeps DEF Handed, Live
  <2>3. \A u \in Names \ {t} : own'[u] = own[u]
    BY <1>1, <2>1, TextsAre
  <2>4. OldOnes(texts', shares', {})
    BY <1>1, <2>1 DEF OldOnes, Spared
  <2>5. Agrees(texts', own', slots', said, broken, {})
    <3>. SUFFICES ASSUME NEW h \in DOMAIN slots', slots'[h] # None, h \notin broken
                  PROVE  texts'[slots'[h]] # None /\ own'[slots'[h]] = said[h]
      BY DEF Agrees
    <3>1. /\ h \in DOMAIN slots /\ slots'[h] = slots[h] /\ slots[h] # t
          /\ slots[h] \in Names /\ slots[h] # None
      BY DEF TableGood
    <3>2. texts[slots[h]] # None /\ own[slots[h]] = said[h]
      BY <1>1, <3>1 DEF Agrees
    <3>. QED  BY <2>1, <2>3, <3>1, <3>2 DEF Spared
  <2>6. AtRest'
    BY <1>1, <2>1, <2>2, <2>4, <2>5 DEF AtRest
  <2>7. \A u \in Names : texts'[u] # None => texts[u] # None /\ u # t
    BY <2>1 DEF Spared
  <2>. QED  BY <1>3, <2>6, <2>7
<1>4. (TextFree(t) /\ UNCHANGED leaked) \/ (leaked' = leaked \cup {t} /\ UNCHANGED Guest!below)
  BY SameSteps DEF Guest!Freed
<1>. QED  BY <1>2, <1>3, <1>4

LEMMA DiscardHolds == ASSUME Handed, GuestInv, Guest!Discard PROVE GuestInv'
<1>1. PICK t : t = call.text
  OBVIOUS
<1>2. /\ UNCHANGED <<slots, cap, said, broken>> /\ call' = Guest!Idle
      /\ call # Guest!Idle /\ call.step = "discard" /\ Guest!Freed(t)
  BY <1>1 DEF Guest!Discard, Guest!table, Guest!Answered
<1>3. OpenGood /\ Pending(call) = {t}
  <2>1. ~(call.op = "edit")
    BY <1>2, Which DEF EditGood, EditCall
  <2>. QED  BY <1>1, <1>2, <2>1, Which
<1>4. t \in Names /\ AtRest /\ ~InTable(slots, t)
  BY <1>1, <1>2, <1>3 DEF OpenGood, OpenCall
<1>5. AtRest' /\ \A u \in Names : texts'[u] # None /\ u \notin leaked'
                                    => texts[u] # None /\ u # t /\ u \notin leaked
  <2>1. \A h \in DOMAIN slots' : h \in DOMAIN slots
           /\ (slots'[h] # None => slots'[h] = slots[h] /\ slots[h] # t)
    BY <1>2, <1>4 DEF InTable
  <2>2. TableGood(slots, cap, said) /\ UNCHANGED <<said, broken>>
    BY <1>2 DEF GuestInv
  <2>. QED  BY <1>2, <1>4, <2>1, <2>2, FreedGives
<1>6. Covered(texts', slots, leaked', {})
  BY <1>3, <1>5 DEF GuestInv, Covered
<1>7. Pending(call') = {}
  BY <1>2 DEF Pending, Guest!Idle
<1>. QED  BY <1>2, <1>5, <1>6, <1>7 DEF GuestInv

LEMMA DropHolds ==
  ASSUME Handed, GuestInv, NEW h \in DOMAIN slots, Guest!Drop(h)
  PROVE  GuestInv'
<1>1. PICK t : t = slots[h]
  OBVIOUS
<1>2. /\ call = Guest!Idle /\ t # None /\ slots' = [slots EXCEPT ![h] = None]
      /\ Guest!Freed(t) /\ UNCHANGED <<cap, call, said, broken>>
  BY <1>1, SameTexts DEF Guest!Drop, Guest!Holds
<1>3. AtRest /\ Pending(call) = {} /\ TableGood(slots, cap, said)
  BY <1>2, Which DEF GuestInv
<1>4. /\ slots \in Seq(Names \cup {None}) /\ t \in Names
      /\ \A g, i \in DOMAIN slots : g # i /\ slots[g] # None => slots[g] # slots[i]
  BY <1>1, <1>2, <1>3 DEF TableGood
<1>5. /\ slots' \in Seq(Names \cup {None}) /\ DOMAIN slots' = DOMAIN slots
      /\ Len(slots') = Len(slots) /\ slots'[h] = None
      /\ \A i \in DOMAIN slots \ {h} : slots'[i] = slots[i]
  BY <1>2, <1>4
<1>6. AtRest' /\ \A u \in Names : texts'[u] # None /\ u \notin leaked'
                                    => texts[u] # None /\ u # t /\ u \notin leaked
  <2>1. \A i \in DOMAIN slots' : i \in DOMAIN slots
           /\ (slots'[i] # None => slots'[i] = slots[i] /\ slots[i] # t)
    BY <1>1, <1>2, <1>4, <1>5
  <2>2. UNCHANGED <<said, broken>>
    BY <1>2
  <2>. QED  BY <1>2, <1>3, <1>4, <2>1, <2>2, FreedGives
<1>7. Covered(texts', slots', leaked', {})
  <2>1. \A u \in Names : InTable(slots, u) /\ u # t => InTable(slots', u)
    BY <1>1, <1>5 DEF InTable
  <2>2. Covered(texts, slots, leaked, {})
    BY <1>3 DEF GuestInv
  <2>. QED  BY <1>6, <2>1, <2>2 DEF Covered
<1>8. TableGood(slots', cap, said)
  BY <1>3, <1>5 DEF TableGood
<1>9. call' = Guest!Idle /\ Pending(call') = {}
  BY <1>2, <1>3
<1>. QED  BY <1>2, <1>6, <1>7, <1>8, <1>9 DEF GuestInv

----------------------------------------------------------------------------
(* The steps of an edit                                                    *)

LEMMA EditHolds ==
  ASSUME Handed, GuestInv, NEW h \in DOMAIN slots, NEW at \in Nat, NEW n \in Nat,
         NEW items \in Seq(Elems), at + n <= Len(said[h]), n = 0 \/ items = <<>>,
         Guest!Edit(h, at, n, items)
  PROVE  GuestInv'
<1>1. PICK t, s, r : t = slots[h] /\ s = said[h] /\ r = Guest!Splice(s, at, n, items)
  OBVIOUS
<1>2. /\ call = Guest!Idle /\ t # None /\ h \notin broken
      /\ call' = [op |-> "edit", step |-> "begin", text |-> t, h |-> h, at |-> at, left |-> n,
                  todo |-> items, holds |-> r, shared |-> shares[texts[t]].refs > 1]
      /\ UNCHANGED <<texts, shares, levels, own>>
      /\ UNCHANGED <<slots, cap, said, broken, leaked>>
  BY <1>1, SameTexts DEF Guest!Edit, Guest!Holds, Guest!below, Guest!table, Guest!told
<1>3. AtRest /\ Pending(call) = {} /\ TextInv
  BY <1>2, Which DEF AtRest
<1>4. /\ t \in Names /\ h \in Nat /\ s \in Seq(Elems) /\ texts[t] # None /\ own[t] = s
      /\ shares[texts[t]].born = 0
  <2>1. t \in Names /\ s \in Seq(Elems) /\ h \in Nat
    BY <1>1, <1>2 DEF GuestInv, TableGood
  <2>2. texts[t] # None /\ own[t] = s
    BY <1>1, <1>2, <1>3 DEF AtRest, Agrees
  <2>. QED  BY <1>3, <2>1, <2>2 DEF AtRest, OldOnes
<1>5. IsSplice(r, s, at, n, items)
  BY <1>1, <1>4, SpliceIs DEF Guest!Splice
<1>6. r \in Seq(Elems)
  BY <1>5 DEF IsSplice
<1>7. shares[texts[t]].refs \in Nat \ {0}
  <2>1. shares \in Maps(Share) /\ texts[t] \in DOMAIN shares
    BY <1>3, <1>4, TextsAre DEF Holding
  <2>. QED  BY <2>1, SharesIn
<1>8. /\ call' \in EditCall /\ call'.op = "edit" /\ call'.step = "begin" /\ call'.text = t
      /\ call'.h = h /\ call'.at = at /\ call'.left = n /\ call'.todo = items
      /\ call'.holds = r
  BY <1>2, <1>4, <1>6 DEF EditCall
<1>9. call'.shared = FALSE => shares[texts[t]].refs = 1
  <2>1. call'.shared = (shares[texts[t]].refs > 1)
    BY <1>2, Zenon
  <2>2. call'.shared = FALSE => ~(shares[texts[t]].refs > 1)
    BY <2>1, Zenon
  <2>. QED  BY <1>7, <2>2
<1>10. Ahead(call', own[t])
  BY <1>4, <1>5, <1>8 DEF Ahead
<1>11. AtRest'
  BY <1>2, <1>3 DEF AtRest, TextInv
<1>12. EditGood'
  BY <1>1, <1>2, <1>4, <1>8, <1>9, <1>10, <1>11 DEF EditGood
<1>13. Pending(call') = Pending(call)
  BY <1>3, <1>8 DEF Pending
<1>. QED  BY <1>2, <1>12, <1>13 DEF GuestInv

\* Text t of an edit was written in its transaction: what of the call is so still.
LEMMA EditWrote ==
  ASSUME Handed, GuestInv, EditGood, call.step = "write",
         NEW t \in Names, t = call.text, NEW items \in Seq(Elems), Edit(t, items),
         UNCHANGED <<slots, cap, said, broken, leaked>>
  PROVE  /\ TextInv' /\ AtWork(t)' /\ texts'[t] # None /\ own'[t] = items
         /\ Covered(texts', slots, leaked, {})
         /\ call.shared = FALSE
              => shares'[texts'[t]].refs = 1 /\ shares'[texts'[t]].born = 0
<1>1. TextInv /\ AtWork(t) /\ texts[t] # None /\ Countable
  BY DEF EditGood, Handed
<1>2. Depth = 1
  BY <1>1 DEF AtWork, Depth
<1>3. PICK r : r = Written(Detached(State, t), t, items)
  OBVIOUS
<1>4. /\ texts' = r.texts /\ shares' = r.shares /\ levels' = r.levels
      /\ own' = [own EXCEPT ![t] = items]
  BY <1>3 DEF Edit, Become
<1>5. /\ Spared(texts, shares, texts', shares', t)
      /\ texts'[t] # None /\ shares'[texts'[t]].born \in {1, shares[texts[t]].born}
      /\ shares[texts[t]].refs = 1
           => /\ texts'[t] = texts[t] /\ shares'[texts[t]].refs = 1
              /\ shares'[texts[t]].born = shares[texts[t]].born
      /\ Len(levels') = 1 /\ levels'[1].own = levels[1].own
  <2>1. Touched(r.texts, r.shares, r.levels, t)
    BY <1>1, <1>2, <1>3, EditSpares
  <2>2. Touched(texts', shares', levels', t)
    BY <1>4, <2>1
  <2>. QED  BY <2>2 DEF Touched
<1>6. TextInv'
  BY <1>1, EditKeeps DEF Handed
<1>7. own'[t] = items /\ \A u \in Names \ {t} : own'[u] = own[u]
  <2>1. own \in [Names -> Seq(Elems)]
    BY <1>1, TextsAre
  <2>. QED  BY <1>4, <2>1
<1>8. AtWork(t)'
  <2>1. TableGood(slots, cap, said) /\ shares'[texts'[t]].born \in {0, 1}
    BY <1>1, <1>5 DEF GuestInv, AtWork
  <2>. QED  BY <1>1, <1>5, <1>7, <2>1, WorkSpared
<1>9. Covered(texts', slots, leaked, {})
  <2>1. Covered(texts, slots, leaked, {}) /\ InTable(slots, t)
    BY Which DEF GuestInv, EditGood, EditCall, InTable
  <2>2. {} \ {t} \subseteq {}
    OBVIOUS
  <2>. QED  BY <1>5, <2>1, <2>2, SparedCovered
<1>10. call.shared = FALSE
         => shares'[texts'[t]].refs = 1 /\ shares'[texts'[t]].born = 0
  BY <1>5 DEF EditGood
<1>. QED  BY <1>5, <1>6, <1>7, <1>8, <1>9, <1>10

LEMMA InsertOneHolds == ASSUME Handed, GuestInv, Guest!InsertOne PROVE GuestInv'
<1>1. PICK t, at, todo, r : /\ t = call.text /\ at = call.at /\ todo = call.todo
                            /\ r = call.holds
  OBVIOUS
<1>2. /\ call.op = "edit" /\ call.step = "write" /\ todo # <<>>
      /\ TextInsert(t, at, Head(todo))
      /\ call' = [call EXCEPT !.todo = Tail(todo), !.at = at + 1]
      /\ UNCHANGED <<slots, cap, said, broken, leaked>>
  BY <1>1, SameWrites DEF Guest!InsertOne, Guest!At, Guest!table, Guest!told
<1>3. EditGood /\ Pending(call) = {}
  BY <1>2, Which
<1>4. /\ call \in EditCall /\ t \in Names /\ at \in Nat /\ todo \in Seq(Elems)
      /\ TextInv /\ texts[t] # None /\ call.left = 0
      /\ IsSplice(r, own[t], at, 0, todo)
  BY <1>1, <1>2, <1>3 DEF EditGood, EditCall, Ahead
<1>5. PICK s, e, one : s = own[t] /\ e = Head(todo) /\ one = <<e>>
  OBVIOUS
<1>6. e \in Elems /\ one \in Seq(Elems) /\ s \in Seq(Elems) /\ Held(t) = s /\ Len(s) \in Nat
  <2>1. own \in [Names -> Seq(Elems)] /\ Held(t) = own[t]
    BY <1>4, TextsAre DEF Live
  <2>2. s \in Seq(Elems) /\ Held(t) = s /\ Len(s) \in Nat
    BY <1>4, <1>5, <2>1
  <2>3. e \in Elems
    BY <1>2, <1>4, <1>5
  <2>. QED  BY <1>5, <2>2, <2>3
<1>7. PICK items : items = InsertAt(s, at + 1, e)
  OBVIOUS
<1>8. at <= Len(s) /\ Edit(t, items)
  BY <1>2, <1>5, <1>6, <1>7 DEF TextInsert
<1>9. IsSplice(items, s, at, 0, one)
  <2>1. (at + 1) - 1 = at /\ at + 0 + 1 = at + 1 /\ at + 0 <= Len(s) /\ 0 \in Nat
    BY <1>4, <1>6, <1>8
  <2>2. items = SubSeq(s, 1, (at + 1) - 1) \o one \o SubSeq(s, at + 1, Len(s))
    BY <1>5, <1>7 DEF InsertAt
  <2>3. items = SubSeq(s, 1, at) \o one \o SubSeq(s, at + 0 + 1, Len(s))
    BY <2>1, <2>2
  <2>. QED  BY <1>4, <1>6, <2>1, <2>3, SpliceIs
<1>10. items \in Seq(Elems)
  BY <1>9 DEF IsSplice
<1>11. /\ TextInv' /\ AtWork(t)' /\ texts'[t] # None /\ own'[t] = items
       /\ Covered(texts', slots, leaked, {})
       /\ call.shared = FALSE
            => shares'[texts'[t]].refs = 1 /\ shares'[texts'[t]].born = 0
  BY <1>1, <1>2, <1>3, <1>4, <1>8, <1>10, EditWrote
<1>12. IsSplice(r, items, at + 1, 0, Tail(todo)) /\ Tail(todo) \in Seq(Elems)
  BY <1>2, <1>4, <1>5, <1>6, <1>9, InsertOn
<1>13. PICK rest : rest = Tail(todo)
  OBVIOUS
<1>14. /\ call' \in EditCall /\ call'.op = "edit" /\ call'.step = "write" /\ call'.text = t
       /\ call'.h = call.h /\ call'.at = at + 1 /\ call'.left = 0 /\ call'.todo = rest
       /\ call'.holds = r /\ call'.shared = call.shared
  <2>1. call' = [call EXCEPT !.todo = rest, !.at = at + 1] /\ at + 1 \in Nat
        /\ rest \in Seq(Elems)
    BY <1>2, <1>4, <1>12, <1>13
  <2>. QED  BY <1>1, <1>2, <1>4, <2>1 DEF EditCall
<1>15. Ahead(call', own'[t])
  BY <1>11, <1>12, <1>13, <1>14 DEF Ahead
<1>16. EditGood'
  BY <1>1, <1>2, <1>3, <1>11, <1>14, <1>15 DEF EditGood
<1>17. Pending(call') = {}
  BY <1>14 DEF Pending
<1>. QED  BY <1>2, <1>11, <1>16, <1>17 DEF GuestInv

LEMMA DeleteOneHolds == ASSUME Handed, GuestInv, Guest!DeleteOne PROVE GuestInv'
<1>1. PICK t, at, n, r, nil : /\ t = call.text /\ at = call.at /\ n = call.left
                              /\ r = call.holds /\ nil = <<>>
  OBVIOUS
<1>2. /\ call.op = "edit" /\ call.step = "write" /\ n > 0
      /\ TextDelete(t, at)
      /\ call' = [call EXCEPT !.left = n - 1]
      /\ UNCHANGED <<slots, cap, said, broken, leaked>>
  BY <1>1, SameWrites DEF Guest!DeleteOne, Guest!At, Guest!table, Guest!told
<1>3. EditGood /\ Pending(call) = {}
  BY <1>2, Which
<1>4. /\ call \in EditCall /\ t \in Names /\ at \in Nat /\ n \in Nat
      /\ TextInv /\ texts[t] # None /\ call.todo = nil
      /\ IsSplice(r, own[t], at, n, nil)
  BY <1>1, <1>2, <1>3 DEF EditGood, EditCall, Ahead
<1>5. PICK s : s = own[t]
  OBVIOUS
<1>6. s \in Seq(Elems) /\ Held(t) = s /\ Len(s) \in Nat /\ nil \in Seq(Elems)
  <2>1. own \in [Names -> Seq(Elems)] /\ Held(t) = own[t]
    BY <1>4, TextsAre DEF Live
  <2>. QED  BY <1>1, <1>4, <1>5, <2>1
<1>7. PICK items : items = RemoveAt(s, at + 1)
  OBVIOUS
<1>8. at < Len(s) /\ Edit(t, items)
  BY <1>2, <1>6, <1>7 DEF TextDelete
<1>9. IsSplice(items, s, at, 1, nil)
  <2>1. (at + 1) - 1 = at /\ at + 1 <= Len(s) /\ 1 \in Nat
    BY <1>4, <1>6, <1>8
  <2>2. PICK p, q : p = SubSeq(s, 1, at) /\ q = SubSeq(s, at + 1 + 1, Len(s))
    OBVIOUS
  <2>3. p \in Seq(Elems)
    BY <1>4, <1>6, <2>1, <2>2
  <2>4. p \o nil = p
    BY <1>1, <2>3
  <2>5. items = p \o q
    <3>1. items = SubSeq(s, 1, (at + 1) - 1) \o SubSeq(s, at + 1 + 1, Len(s))
      BY <1>7 DEF RemoveAt
    <3>. QED  BY <2>1, <2>2, <3>1
  <2>6. items = SubSeq(s, 1, at) \o nil \o SubSeq(s, at + 1 + 1, Len(s))
    BY <2>2, <2>4, <2>5
  <2>. QED  BY <1>4, <1>6, <2>1, <2>6, SpliceIs
<1>10. items \in Seq(Elems)
  BY <1>9 DEF IsSplice
<1>11. /\ TextInv' /\ AtWork(t)' /\ texts'[t] # None /\ own'[t] = items
       /\ Covered(texts', slots, leaked, {})
       /\ call.shared = FALSE
            => shares'[texts'[t]].refs = 1 /\ shares'[texts'[t]].born = 0
  BY <1>1, <1>2, <1>3, <1>4, <1>8, <1>10, EditWrote
<1>12. IsSplice(r, items, at, n - 1, nil)
  BY <1>1, <1>2, <1>4, <1>5, <1>6, <1>9, DeleteOn
<1>13. /\ call' \in EditCall /\ call'.op = "edit" /\ call'.step = "write" /\ call'.text = t
       /\ call'.h = call.h /\ call'.at = at /\ call'.left = n - 1 /\ call'.todo = nil
       /\ call'.holds = r /\ call'.shared = call.shared
  <2>1. n - 1 \in Nat
    BY <1>2, <1>4
  <2>. QED  BY <1>1, <1>2, <1>4, <2>1 DEF EditCall
<1>14. Ahead(call', own'[t])
  BY <1>1, <1>11, <1>12, <1>13 DEF Ahead
<1>15. EditGood'
  BY <1>1, <1>2, <1>3, <1>11, <1>13, <1>14 DEF EditGood
<1>16. Pending(call') = {}
  BY <1>13 DEF Pending
<1>. QED  BY <1>2, <1>11, <1>15, <1>16 DEF GuestInv

\* Nothing is left to do: the text reads what the edit is for.
LEMMA EditedHolds == ASSUME Handed, GuestInv, Guest!Edited PROVE GuestInv'
<1>1. /\ call.op = "edit" /\ call.step = "write" /\ call.todo = <<>> /\ call.left = 0
      /\ Guest!To("commit")
      /\ UNCHANGED <<texts, shares, levels, own>>
      /\ UNCHANGED <<slots, cap, said, broken, leaked>>
  BY DEF Guest!Edited, Guest!At, Guest!below, Guest!table, Guest!told
<1>2. EditGood /\ Pending(call) = {}
  BY <1>1, Which
<1>3. PICK t, nil : t = call.text /\ nil = <<>>
  OBVIOUS
<1>4. t \in Names /\ TextInv /\ AtWork(t) /\ IsSplice(call.holds, own[t], call.at, 0, nil)
  BY <1>1, <1>2, <1>3 DEF EditGood, EditCall, Ahead
<1>5. own[t] = call.holds
  <2>1. own[t] \in Seq(Elems)
    BY <1>4, TextsAre
  <2>. QED  BY <1>3, <1>4, <2>1, SpliceDone
<1>6. /\ call' \in EditCall /\ call'.step = "commit" /\ call'.op = "edit"
      /\ call'.text = call.text /\ call'.holds = call.holds /\ call'.h = call.h
      /\ call'.at = call.at /\ call'.left = call.left /\ call'.todo = call.todo
      /\ call'.shared = call.shared
  BY <1>1, <1>2, EditTo DEF EditGood
<1>7. TextInv' /\ AtWork(t)'
  BY <1>1, <1>4 DEF TextInv, AtWork
<1>8. EditGood'
  BY <1>1, <1>2, <1>3, <1>5, <1>6, <1>7 DEF EditGood
<1>9. Pending(call') = {}
  BY <1>6 DEF Pending
<1>. QED  BY <1>1, <1>2, <1>8, <1>9 DEF GuestInv

\* A write that failed is to be taken back.
LEMMA Failed ==
  ASSUME Handed, GuestInv, EditGood, Pending(call) = {}, call.step = "write",
         Guest!To("abort"), UNCHANGED <<slots, cap, said, broken, leaked>>,
         NEW t \in Names, t = call.text, AtWork(t)', texts'[t] # None, Undoable',
         Covered(texts', slots, leaked, {}),
         call.shared = FALSE
           => shares'[texts'[t]].refs = 1 /\ shares'[texts'[t]].born = 0
  PROVE  GuestInv'
<1>1. /\ call' \in EditCall /\ call'.step = "abort" /\ call'.op = "edit"
      /\ call'.text = t /\ call'.holds = call.holds /\ call'.h = call.h
      /\ call'.shared = call.shared
  BY EditTo DEF EditGood
<1>2. EditGood'
  BY <1>1 DEF EditGood
<1>3. Pending(call') = {}
  BY <1>1 DEF Pending
<1>. QED  BY <1>2, <1>3 DEF GuestInv

LEMMA FailHolds == ASSUME Handed, GuestInv, Guest!Fail PROVE GuestInv'
<1>1. PICK t, s, nil : t = call.text /\ s = Detached(State, t) /\ nil = <<>>
  OBVIOUS
<1>2. /\ call # Guest!Idle /\ call.step = "write" /\ Guest!To("abort")
      /\ UNCHANGED <<slots, cap, said, broken, leaked>>
      /\ \/ UNCHANGED <<texts, shares, levels, own>>
         \/ /\ call.op = "edit"
            /\ Become(s, own) \/ Become(Written(s, t, nil), own)
  BY <1>1, SameSteps, SameTexts DEF Guest!Fail, Guest!below, Guest!table, Guest!told
<1>3. CASE call.op = "open"
  <2>1. OpenGood /\ Pending(call) = {t}
    BY <1>1, <1>3, Which
  <2>2. TextInv /\ AtWork(t) /\ ~InTable(slots, t)
    BY <1>1, <1>2, <2>1 DEF OpenGood
  <2>3. UNCHANGED <<texts, shares, levels, own>>
    BY <1>2, <1>3
  <2>4. Undoable' /\ AtWork(t)'
    BY <1>2, <2>2, <2>3 DEF Undoable, TextInv, AtWork
  <2>5. /\ call' \in OpenCall /\ call'.step = "abort" /\ call'.op = "open"
        /\ call'.text = t /\ call'.holds = call.holds
    BY <1>1, <1>2, <2>1, OpenTo DEF OpenGood
  <2>6. OpenGood'
    BY <1>2, <2>2, <2>4, <2>5 DEF OpenGood
  <2>7. Pending(call') = {t}
    BY <2>5 DEF Pending
  <2>. QED  BY <1>2, <2>1, <2>3, <2>6, <2>7 DEF GuestInv
<1>4. CASE call.op = "edit"
  <2>1. EditGood /\ Pending(call) = {}
    BY <1>4, Which
  <2>2. /\ t \in Names /\ TextInv /\ AtWork(t) /\ texts[t] # None /\ Countable
        /\ call.shared = FALSE => shares[texts[t]].refs = 1 /\ shares[texts[t]].born = 0
        /\ Covered(texts, slots, leaked, {}) /\ InTable(slots, t)
        /\ TableGood(slots, cap, said)
    BY <1>1, <1>2, <2>1 DEF EditGood, EditCall, GuestInv, Handed, InTable
  <2>3. Depth = 1 /\ Len(levels) = 1 /\ shares[texts[t]].born \in {0, 1}
    BY <2>2 DEF AtWork, Depth
  <2>4. CASE UNCHANGED <<texts, shares, levels, own>>
    <3>1. Undoable' /\ AtWork(t)'
      BY <1>2, <2>2, <2>4 DEF Undoable, TextInv, AtWork
    <3>. QED  BY <1>1, <1>2, <2>1, <2>2, <2>4, <3>1, Failed
  <2>5. ASSUME Touched(texts', shares', levels', t), own' = own, Undoable'
        PROVE  GuestInv'
    <3>1. /\ Spared(texts, shares, texts', shares', t)
          /\ texts'[t] # None /\ shares'[texts'[t]].born \in {1, shares[texts[t]].born}
          /\ shares[texts[t]].refs = 1
               => /\ texts'[t] = texts[t] /\ shares'[texts[t]].refs = 1
                  /\ shares'[texts[t]].born = shares[texts[t]].born
          /\ Len(levels') = 1 /\ levels'[1].own = levels[1].own
      BY <2>5 DEF Touched
    <3>2. AtWork(t)'
      <4>1. /\ shares'[texts'[t]].born \in {0, 1} /\ UNCHANGED <<slots, said, broken>>
            /\ \A u \in Names \ {t} : own'[u] = own[u]
        BY <1>2, <2>3, <2>5, <3>1
      <4>. QED  BY <2>2, <3>1, <4>1, WorkSpared
    <3>3. Covered(texts', slots, leaked, {})
      <4>1. {} \ {t} \subseteq {}
        OBVIOUS
      <4>. QED  BY <2>2, <3>1, <4>1, SparedCovered
    <3>4. call.shared = FALSE
            => shares'[texts'[t]].refs = 1 /\ shares'[texts'[t]].born = 0
      BY <2>2, <3>1
    <3>. QED  BY <1>1, <1>2, <2>1, <2>2, <2>5, <3>1, <3>2, <3>3, <3>4, Failed
  <2>6. CASE Become(s, own)
    <3>1. texts' = s.texts /\ shares' = s.shares /\ levels' = s.levels /\ own' = own
      BY <2>6 DEF Become
    <3>2. /\ s = St(s.texts, s.shares, levels) /\ Good(s.texts, s.shares, levels, own)
          /\ Alone(s.texts, s.shares, texts, shares, t)
      <4>1. Good(texts, shares, levels, own) /\ State = St(texts, shares, levels)
        BY <2>2, TextsAre DEF TextInv
      <4>2. LET q == Detached(St(texts, shares, levels), t) IN
            /\ q = St(q.texts, q.shares, levels) /\ Good(q.texts, q.shares, levels, own)
            /\ Alone(q.texts, q.shares, texts, shares, t)
        BY <2>2, <2>3, <4>1, DetachedIs
      <4>. QED  BY <1>1, <4>1, <4>2
    <3>3. s.levels = levels
      BY <3>2 DEF St
    <3>4. /\ Spared(texts, shares, texts', shares', t)
          /\ shares[texts[t]].refs <= 1 => texts' = texts /\ shares' = shares
          /\ shares'[texts'[t]].born \in {1, shares[texts[t]].born}
      <4>1. /\ Spared(texts, shares, s.texts, s.shares, t)
            /\ shares[texts[t]].refs <= 1 => s.texts = texts /\ s.shares = shares
            /\ s.shares[s.texts[t]].born \in {1, shares[texts[t]].born}
        BY <1>1, <2>2, <2>3, DetachedSpares
      <4>. QED  BY <3>1, <4>1
    <3>5. texts'[t] # None
      BY <3>1, <3>2 DEF Alone
    <3>6. Touched(texts', shares', levels', t)
      <4>1. shares[texts[t]].refs = 1 => texts' = texts /\ shares' = shares
        BY <3>4
      <4>2. Len(levels') = 1 /\ levels'[1].own = levels[1].own
        BY <2>3, <3>1, <3>3
      <4>. QED  BY <3>4, <3>5, <4>1, <4>2 DEF Touched
    <3>7. Undoable'
      BY <3>1, <3>2, <3>3 DEF Undoable
    <3>. QED  BY <2>5, <3>1, <3>6, <3>7
  <2>7. CASE Become(Written(s, t, nil), own)
    <3>1. PICK r : r = Written(s, t, nil)
      OBVIOUS
    <3>2. texts' = r.texts /\ shares' = r.shares /\ levels' = r.levels /\ own' = own
      BY <2>7, <3>1 DEF Become
    <3>3. nil \in Seq(Elems)
      BY <1>1
    <3>4. /\ Good(r.texts, r.shares, r.levels, [own EXCEPT ![t] = nil])
          /\ Touched(r.texts, r.shares, r.levels, t)
      BY <1>1, <2>2, <2>3, <3>1, <3>3, EditSpares
    <3>5. Touched(texts', shares', levels', t)
      BY <3>2, <3>4
    <3>6. Undoable'
      BY <3>2, <3>4 DEF Undoable
    <3>. QED  BY <2>5, <3>2, <3>5, <3>6
  <2>. QED  BY <1>2, <2>4, <2>6, <2>7
<1>. QED  BY <1>2, <1>3, <1>4, Which

\* What was written stays, and the call's handle is known to hold it.
LEMMA CommitHolds == ASSUME Handed, GuestInv, Guest!Commit PROVE GuestInv'
<1>1. /\ call # Guest!Idle /\ call.step = "commit" /\ Commit /\ UNCHANGED <<slots, cap>>
      /\ IF call.op = "open" THEN Guest!To("install") /\ UNCHANGED <<said, broken, leaked>>
         ELSE /\ said' = [said EXCEPT ![call.h] = call.holds]
              /\ call' = Guest!Idle /\ UNCHANGED <<broken, leaked>>
  BY SameEnds DEF Guest!Commit, Guest!table, Guest!told, Guest!Answered
<1>2. PICK t : t = call.text
  OBVIOUS
<1>3. /\ t \in Names /\ TextInv /\ AtWork(t) /\ texts[t] # None /\ own[t] = call.holds
  BY <1>1, <1>2, Which DEF OpenGood, OpenCall, EditGood, EditCall
<1>4. /\ TextInv' /\ texts' = texts /\ own' = own /\ levels' = <<>>
      /\ \A u \in Names : texts[u] # None /\ shares[texts[u]].born \in {0, 1}
           => shares'[texts[u]].born = 0
  <2>1. Depth = 1
    BY <1>3 DEF AtWork, Depth
  <2>. QED  BY <1>1, <1>3, <2>1, CommitKeeps, CommitSpares DEF Handed
<1>5. OldOnes(texts', shares', {})
  <2>1. \A u \in Names : texts[u] # None => shares[texts[u]].born \in {0, 1}
    BY <1>3 DEF AtWork, OldOnes
  <2>. QED  BY <1>4, <2>1 DEF OldOnes
<1>6. Agrees(texts, own, slots, said, broken, {t})
  BY <1>3 DEF AtWork
<1>7. CASE call.op = "open"
  <2>1. OpenGood /\ Pending(call) = {t}
    BY <1>2, <1>7, Which
  <2>2. Agrees(texts, own, slots, said, broken, {}) /\ ~InTable(slots, t)
    BY <1>2, <1>6, <2>1 DEF OpenGood, Agrees, InTable
  <2>3. AtRest'
    BY <1>1, <1>4, <1>5, <1>7, <2>2 DEF AtRest
  <2>4. /\ call' \in OpenCall /\ call'.step = "install" /\ call'.op = "open"
        /\ call'.text = t /\ call'.holds = call.holds
    BY <1>1, <1>2, <1>7, <2>1, OpenTo DEF OpenGood
  <2>5. OpenGood'
    BY <1>1, <1>3, <1>4, <2>2, <2>3, <2>4 DEF OpenGood
  <2>6. Pending(call') = {t}
    BY <2>4 DEF Pending
  <2>. QED  BY <1>1, <1>4, <1>7, <2>1, <2>5, <2>6 DEF GuestInv
<1>8. CASE call.op = "edit"
  <2>1. EditGood /\ Pending(call) = {} /\ TableGood(slots, cap, said)
    BY <1>8, Which DEF GuestInv
  <2>2. PICK h, items : h = call.h /\ items = call.holds
    OBVIOUS
  <2>3. h \in DOMAIN slots /\ slots[h] = t /\ t # None /\ items \in Seq(Elems)
    BY <1>2, <1>3, <2>1, <2>2 DEF EditGood, EditCall, Handed
  <2>4. said' = [said EXCEPT ![h] = items] /\ UNCHANGED <<broken, leaked>>
        /\ call' = Guest!Idle
    BY <1>1, <1>8, <2>2
  <2>5. DOMAIN said' = DOMAIN said /\ DOMAIN said = DOMAIN slots /\ said'[h] = items
        /\ \A i \in DOMAIN slots \ {h} : said'[i] = said[i]
    BY <2>1, <2>3, <2>4 DEF TableGood
  <2>6. TableGood(slots, cap, said')
    BY <2>1, <2>3, <2>5 DEF TableGood
  <2>7. Agrees(texts, own, slots, said', broken, {})
    <3>. SUFFICES ASSUME NEW i \in DOMAIN slots, slots[i] # None, i \notin broken
                  PROVE  texts[slots[i]] # None /\ own[slots[i]] = said'[i]
      BY DEF Agrees
    <3>1. CASE i = h
      BY <1>3, <2>2, <2>3, <2>5, <3>1
    <3>2. CASE i # h
      <4>1. slots[i] # t
        BY <2>1, <2>3, <3>2 DEF TableGood
      <4>. QED  BY <1>6, <2>5, <3>2, <4>1 DEF Agrees
    <3>. QED  BY <3>1, <3>2
  <2>8. AtRest'
    BY <1>1, <1>4, <1>5, <2>4, <2>7 DEF AtRest
  <2>9. Pending(call') = {}
    BY <2>4 DEF Pending, Guest!Idle
  <2>. QED  BY <1>1, <1>4, <2>1, <2>4, <2>6, <2>8, <2>9 DEF GuestInv
<1>. QED  BY <1>1, <1>7, <1>8, Which

\* Every text is as it was when the call began, or gone with a share of the call.
LEMMA AbortHolds == ASSUME Handed, GuestInv, Guest!Abort PROVE GuestInv'
<1>1. /\ call # Guest!Idle /\ call.step = "abort" /\ Abort /\ UNCHANGED <<slots, cap>>
      /\ UNCHANGED <<said, leaked>>
      /\ IF call.op = "open" THEN Guest!To("discard") /\ UNCHANGED broken
         ELSE /\ broken' = IF call.shared THEN broken \cup {call.h} ELSE broken
              /\ call' = Guest!Idle
  BY SameEnds DEF Guest!Abort, Guest!table, Guest!told, Guest!Answered
<1>2. PICK t : t = call.text
  OBVIOUS
<1>3. t \in Names /\ Undoable /\ AtWork(t)
  BY <1>1, <1>2, Which DEF OpenGood, OpenCall, EditGood, EditCall
<1>4. PICK oh : Good(texts, shares, levels, oh)
  BY <1>3 DEF Undoable
<1>5. /\ TextInv' /\ levels' = <<>>
      /\ \A u \in Names : texts'[u] # None
           => texts'[u] = texts[u] /\ texts[u] # None /\ shares'[texts[u]].born = 0
      /\ \A u \in Names : texts[u] # None /\ shares[texts[u]].born = 0
           => texts'[u] = texts[u] /\ own'[u] = levels[1].own[u]
  <2>1. Len(levels) = 1 /\ Countable
    BY <1>3 DEF AtWork, Handed
  <2>. QED  BY <1>1, <1>4, <2>1, AbortGives, AbortSpares
<1>6. OldOnes(texts', shares', {})
  BY <1>5 DEF OldOnes
<1>7. PICK lo : lo = levels[1].own
  OBVIOUS
<1>8. /\ Agrees(texts, lo, slots, said, broken, {}) /\ OldOnes(texts, shares, {t})
      /\ TableGood(slots, cap, said)
  BY <1>3, <1>7 DEF AtWork, GuestInv
<1>9. ASSUME NEW h \in DOMAIN slots, slots[h] # None, h \notin broken,
             slots[h] = t => shares[texts[t]].born = 0
      PROVE  texts'[slots[h]] # None /\ own'[slots[h]] = said[h]
  <2>1. slots[h] \in Names /\ texts[slots[h]] # None /\ lo[slots[h]] = said[h]
    BY <1>8, <1>9 DEF Agrees, TableGood
  <2>2. shares[texts[slots[h]]].born = 0
    BY <1>8, <1>9, <2>1 DEF OldOnes
  <2>. QED  BY <1>5, <1>7, <2>1, <2>2
<1>10. \A X : Covered(texts, slots, leaked, X) => Covered(texts', slots, leaked, X)
  BY <1>5 DEF Covered
<1>11. CASE call.op = "open"
  <2>1. OpenGood /\ Pending(call) = {t}
    BY <1>2, <1>11, Which
  <2>2. ~InTable(slots, t)
    BY <1>2, <2>1 DEF OpenGood
  <2>3. Agrees(texts', own', slots, said, broken, {})
    BY <1>9, <2>2 DEF Agrees, InTable
  <2>4. AtRest'
    BY <1>1, <1>5, <1>6, <1>11, <2>3 DEF AtRest
  <2>5. /\ call' \in OpenCall /\ call'.step = "discard" /\ call'.op = "open"
        /\ call'.text = t /\ call'.holds = call.holds
    BY <1>1, <1>2, <1>11, <2>1, OpenTo DEF OpenGood
  <2>6. OpenGood'
    BY <1>1, <2>2, <2>4, <2>5 DEF OpenGood
  <2>7. Pending(call') = {t}
    BY <2>5 DEF Pending
  <2>. QED  BY <1>1, <1>8, <1>10, <2>1, <2>6, <2>7 DEF GuestInv
<1>12. CASE call.op = "edit"
  <2>1. EditGood /\ Pending(call) = {}
    BY <1>12, Which
  <2>2. /\ call' = Guest!Idle /\ UNCHANGED <<slots, cap, said, leaked>>
        /\ broken' = IF call.shared THEN broken \cup {call.h} ELSE broken
    BY <1>1, <1>12
  <2>3. call.shared \in BOOLEAN /\ call.h \in DOMAIN slots /\ slots[call.h] = t /\ t # None
    BY <1>2, <1>3, <2>1 DEF EditGood, EditCall, Handed
  <2>4. ASSUME NEW h \in DOMAIN slots, slots[h] # None, h \notin broken'
        PROVE  h \notin broken /\ (slots[h] = t => shares[texts[t]].born = 0)
    <3>1. h \notin broken
      <4>1. CASE call.shared
        BY <2>2, <2>4, <4>1
      <4>2. CASE ~call.shared
        BY <2>2, <2>4, <4>2
      <4>. QED  BY <4>1, <4>2
    <3>2. ASSUME slots[h] = t PROVE shares[texts[t]].born = 0
      <4>1. h = call.h
        BY <1>8, <2>3, <2>4, <3>2 DEF TableGood
      <4>2. ~call.shared
        BY <2>2, <2>4, <4>1
      <4>3. call.shared = FALSE
        BY <2>3, <4>2
      <4>. QED  BY <1>2, <2>1, <4>3 DEF EditGood
    <3>. QED  BY <3>1, <3>2
  <2>5. Agrees(texts', own', slots, said, broken', {})
    BY <1>9, <2>4 DEF Agrees
  <2>6. AtRest'
    BY <1>5, <1>6, <2>2, <2>5 DEF AtRest
  <2>7. Pending(call') = {}
    BY <2>2 DEF Pending, Guest!Idle
  <2>. QED  BY <1>8, <1>10, <2>1, <2>2, <2>6, <2>7 DEF GuestInv
<1>. QED  BY <1>1, <1>11, <1>12, Which

LEMMA GuestStarts == ASSUME Handed, Guest!Init PROVE GuestInv
<1>1. /\ Init /\ slots = <<>> /\ cap = 0 /\ call = Guest!Idle
      /\ said = <<>> /\ broken = {} /\ leaked = {}
  BY SameEnds DEF Guest!Init, Guest!GuestInit
<1>2. TextInv /\ levels = <<>> /\ \A u \in Names : texts[u] = None
  BY <1>1, TextInit DEF Handed, Init
<1>3. /\ slots \in Seq(Names \cup {None}) /\ Len(slots) = 0 /\ DOMAIN slots = {}
      /\ DOMAIN said = {} /\ cap \in Nat /\ 0 <= cap
  BY <1>1
<1>4. TableGood(slots, cap, said)
  BY <1>3 DEF TableGood
<1>5. AtRest
  BY <1>2, <1>3 DEF AtRest, Agrees, OldOnes
<1>6. Covered(texts, slots, leaked, Pending(call))
  BY <1>2 DEF Covered
<1>. QED  BY <1>1, <1>4, <1>5, <1>6 DEF GuestInv

LEMMA GuestStep == ASSUME Handed, GuestInv, [Guest!Next]_(Guest!vars) PROVE GuestInv'
<1>0. ASSUME NEW items \in Guest!Texts1 PROVE items \in Seq(Elems)
  <2>1. PICK n \in 0 .. MaxLen : items \in [1 .. n -> Elems]
    BY <1>0 DEF Guest!Texts1
  <2>2. n \in Nat
    BY <2>1
  <2>. QED  BY <2>1, <2>2
<1>1. ASSUME NEW t \in Names, NEW items \in Guest!Texts1, Guest!Open(t, items)
      PROVE  GuestInv'
  BY <1>0, <1>1, OpenHolds
<1>2. ASSUME NEW t \in Names, NEW h \in DOMAIN slots, Guest!Clone(t, h) PROVE GuestInv'
  BY <1>2, CloneHolds
<1>3. ASSUME NEW h \in DOMAIN slots, NEW i \in 0 .. MaxLen, NEW items \in Guest!Texts1,
             Guest!Insert(h, i, items)
      PROVE  GuestInv'
  <2>1. i \in Nat /\ 0 \in Nat /\ items \in Seq(Elems)
    BY <1>0
  <2>2. i <= Len(said[h]) /\ Guest!Edit(h, i, 0, items) /\ i + 0 = i
    BY <1>3, <2>1 DEF Guest!Insert
  <2>. QED  BY <2>1, <2>2, EditHolds
<1>4. ASSUME NEW h \in DOMAIN slots, NEW i \in 0 .. MaxLen, NEW j \in 0 .. MaxLen,
             Guest!Delete(h, i, j)
      PROVE  GuestInv'
  <2>1. PICK n, nil : n = j - i /\ nil = <<>>
    OBVIOUS
  <2>2. i <= j /\ j <= Len(said[h]) /\ Guest!Edit(h, i, n, nil)
    BY <1>4, <2>1 DEF Guest!Delete
  <2>3. i \in Nat /\ n \in Nat /\ i + n = j /\ nil \in Seq(Elems)
    BY <2>1, <2>2
  <2>. QED  BY <2>1, <2>2, <2>3, EditHolds
<1>5. CASE \E t \in Names : \/ \E items \in Guest!Texts1 : Guest!Open(t, items)
                            \/ \E h \in DOMAIN slots : Guest!Clone(t, h)
  BY <1>1, <1>2, <1>5
<1>6. CASE \E h \in DOMAIN slots :
             \/ \E i \in 0 .. MaxLen, items \in Guest!Texts1 :
                  Len(said[h]) + Len(items) <= MaxLen /\ Guest!Insert(h, i, items)
             \/ \E i, j \in 0 .. MaxLen : Guest!Delete(h, i, j)
             \/ Guest!Drop(h)
  BY <1>3, <1>4, <1>6, DropHolds
<1>7. CASE \E h \in 1 .. Len(slots) + 1 : Guest!Install(h)
  BY <1>7, InstallHolds
<1>8. CASE \/ Guest!Begin \/ Guest!NoBegin \/ Guest!Fill \/ Guest!NoSlot \/ Guest!Discard
           \/ Guest!InsertOne \/ Guest!DeleteOne \/ Guest!Edited \/ Guest!Fail
           \/ Guest!Commit \/ Guest!Abort
  BY <1>8, BeginHolds, NoBeginHolds, FillHolds, NoSlotHolds, DiscardHolds, InsertOneHolds,
     DeleteOneHolds, EditedHolds, FailHolds, CommitHolds, AbortHolds
<1>9. CASE UNCHANGED Guest!vars
  <2>1. /\ UNCHANGED <<texts, shares, levels, own>>
        /\ UNCHANGED <<slots, cap, call, said, broken, leaked>>
    BY <1>9 DEF Guest!vars, Guest!below, Guest!table, Guest!told
  <2>2. (AtRest => AtRest') /\ (Undoable => Undoable')
    BY <2>1 DEF AtRest, TextInv, Undoable
  <2>3. \A t : AtWork(t) => AtWork(t)'
    BY <2>1 DEF AtWork
  <2>4. TextInv => TextInv'
    BY <2>1 DEF TextInv
  <2>5. (OpenGood => OpenGood') /\ (EditGood => EditGood')
    BY <2>1, <2>2, <2>3, <2>4 DEF OpenGood, EditGood
  <2>. QED  BY <2>1, <2>2, <2>5 DEF GuestInv
<1>. QED  BY <1>5, <1>6, <1>7, <1>8, <1>9 DEF Guest!Next

\* Between calls every handle that is not broken has a text of its own, which holds
\* what its holder was told.
LEMMA HandlesAre == ASSUME Handed, GuestInv PROVE Guest!HandlesTrue
<1>. SUFFICES ASSUME call = Guest!Idle
              PROVE  /\ levels = <<>>
                     /\ \A h \in DOMAIN slots : Guest!Holds(h) =>
                          /\ \A g \in DOMAIN slots \ {h} : slots[g] # slots[h]
                          /\ h \notin broken => /\ slots[h] \in Guest!T!Live
                                                /\ Guest!T!Held(slots[h]) = said[h]
                     /\ Guest!T!Live \subseteq Guest!ToSet(slots) \cup leaked
                     /\ Len(slots) <= cap
  BY DEF Guest!HandlesTrue
<1>1. AtRest /\ Pending(call) = {} /\ TableGood(slots, cap, said) /\ TextInv
  BY Which DEF AtRest, GuestInv
<1>2. ASSUME NEW h \in DOMAIN slots, slots[h] # None, NEW g \in DOMAIN slots \ {h}
      PROVE  slots[g] # slots[h]
  BY <1>1, <1>2 DEF TableGood
<1>3. ASSUME NEW h \in DOMAIN slots, slots[h] # None, h \notin broken
      PROVE  slots[h] \in Live /\ Held(slots[h]) = said[h]
  <2>1. slots[h] \in Names /\ texts[slots[h]] # None /\ own[slots[h]] = said[h]
    BY <1>1, <1>3 DEF AtRest, Agrees, TableGood
  <2>2. slots[h] \in Live
    BY <2>1 DEF Live
  <2>3. Held(slots[h]) = own[slots[h]]
    BY <1>1, <2>2, TextsAre
  <2>. QED  BY <2>1, <2>2, <2>3
<1>4. ASSUME NEW u \in Live PROVE u \in leaked \/ \E h \in DOMAIN slots : slots[h] = u
  BY <1>1 DEF Live, GuestInv, Covered, InTable
<1>5. Live \subseteq Guest!ToSet(slots) \cup leaked
  BY <1>4 DEF Guest!ToSet
<1>6. levels = <<>> /\ Len(slots) <= cap
  BY <1>1 DEF AtRest, TableGood
<1>. QED  BY <1>2, <1>3, <1>5, <1>6, SameTexts DEF Guest!Holds

\* A guest's handle leads to a text of its own, which holds what the calls that were
\* answered made of it, whatever calls on it or on its clones failed midway
\* (wit_text_runtime.c:143-243, 522-772).
THEOREM HandlesLast == ASSUME Handed PROVE Guest!Spec => []Guest!HandlesTrue
<1>1. GuestInv => Guest!HandlesTrue
  BY HandlesAre
<1>2. GuestInv /\ [Guest!Next]_(Guest!vars) => GuestInv'
  BY GuestStep
<1>. QED  BY <1>1, <1>2, GuestStarts, PTL DEF Guest!Spec

----------------------------------------------------------------------------
(* A document, for any characters and any number of revisions              *)

CONSTANTS Chars, MaxRev
VARIABLES doc, clean, undo, redo, run, disk, astray, lost

Saved == INSTANCE Document

Revision == [text : Seq(Chars), rev : Nat]
Run == [kind : {"none"} \cup Saved!Kinds, start : Nat, deleted : Nat, inserted : Nat]

\* Revisions u, then d, then r backwards: each is newer than those before it.
Ordered(u, d, r) ==
  /\ \A i, j \in DOMAIN u : i < j => u[i].rev < u[j].rev
  /\ \A i \in DOMAIN u : u[i].rev < d.rev
  /\ \A i \in DOMAIN r : d.rev < r[i].rev
  /\ \A i, j \in DOMAIN r : i < j => r[j].rev < r[i].rev

Kept(s, c, k) == s.rev = c => s.text = k

\* What is numbered c among them reads k.
Matching(u, d, r, c, k) ==
  /\ \A i \in DOMAIN u : Kept(u[i], c, k)
  /\ Kept(d, c, k)
  /\ \A i \in DOMAIN r : Kept(r[i], c, k)

\* Text now is text old and n characters more, which end at e.
Grew(old, now, e, n) ==
  /\ n \in Nat /\ e \in n .. Len(now) /\ Len(now) = Len(old) + n
  /\ \A k \in 1 .. e - n : now[k] = old[k]
  /\ \A k \in e + 1 .. Len(now) : now[k] = old[k - n]

Typing(rn) == rn.kind = "insert" /\ rn.deleted = 0

\* A run of typing put its characters one after another into the last snapshot.
Joined(u, d, rn) ==
  Typing(rn) => \E n \in Nat : /\ rn.inserted <= n
                               /\ Grew(u[Len(u)].text, d.text, rn.start + rn.inserted, n)

DocTyped(u, d, r, c, k, rn) ==
  /\ d \in Revision /\ u \in Seq(Revision) /\ r \in Seq(Revision)
  /\ c \in Nat /\ k \in Seq(Chars) /\ rn \in Run

\* The document and its history: what the runs look at, and what it rests on.
DocGood(u, d, r, c, k, rn, ast) ==
  /\ DocTyped(u, d, r, c, k, rn)
  /\ Ordered(u, d, r)
  /\ (rn # Saved!NoRun => r = <<>> /\ u # <<>>)
  /\ Joined(u, d, rn)
  /\ (~ast => Matching(u, d, r, c, k))

DocInv == DocGood(undo, doc, redo, clean, disk, run, astray)

\* Text with a stretch of it replaced.
LEMMA SplicedIs ==
  ASSUME NEW text \in Seq(Chars), NEW new \in Seq(Chars),
         NEW a \in Nat, NEW b \in Nat, a <= b, b <= Len(text), NEW s,
         s = Saved!Spliced(text, a, b, new)
  PROVE  /\ s \in Seq(Chars) /\ Len(s) = Len(text) - (b - a) + Len(new)
         /\ \A k \in 1 .. a : s[k] = text[k]
         /\ \A k \in a + Len(new) + 1 .. Len(s) : s[k] = text[k - Len(new) + (b - a)]
<1>1. PICK p : p = SubSeq(text, 1, a)
  OBVIOUS
<1>2. PICK q : q = SubSeq(text, b + 1, Len(text))
  OBVIOUS
<1>3. p \in Seq(Chars) /\ Len(p) = a /\ \A k \in 1 .. a : p[k] = text[k]
  <2>1. Len(text) \in Nat
    OBVIOUS
  <2>. QED  BY <1>1, <2>1
<1>4. q \in Seq(Chars) /\ Len(q) = Len(text) - b /\ \A k \in 1 .. Len(q) : q[k] = text[b + k]
  <2>1. Len(text) \in Nat
    OBVIOUS
  <2>. QED  BY <1>2, <2>1
<1>5. s = (p \o new) \o q
  BY <1>1, <1>2 DEF Saved!Spliced, Saved!Slice
<1>6. PICK l : l = p \o new
  OBVIOUS
<1>7. /\ l \in Seq(Chars) /\ Len(l) = a + Len(new)
      /\ \A k \in 1 .. a : l[k] = text[k]
  <2>1. p \in Seq(Chars)
    BY <1>3
  <2>2. /\ l \in Seq(Chars) /\ Len(l) = Len(p) + Len(new)
        /\ \A k \in 1 .. Len(p) : l[k] = p[k]
    <3>1. Cat(Chars, l, p, new)
      BY <1>6, <2>1, ConcatIs
    <3>. QED  BY <3>1 DEF Cat
  <2>. QED  BY <1>3, <2>2
<1>8. s = l \o q
  BY <1>5, <1>6
<1>9. s \in Seq(Chars) /\ Len(s) = a + Len(new) + (Len(text) - b)
  <2>1. l \in Seq(Chars) /\ q \in Seq(Chars)
    BY <1>4, <1>7
  <2>2. s \in Seq(Chars) /\ Len(s) = Len(l) + Len(q)
    <3>1. Cat(Chars, s, l, q)
      BY <1>8, <2>1, ConcatIs
    <3>. QED  BY <3>1 DEF Cat
  <2>. QED  BY <1>4, <1>7, <2>2
<1>10. ASSUME NEW k \in 1 .. a PROVE s[k] = text[k]
  <2>1. k \in 1 .. Len(l) /\ Len(new) \in Nat
    BY <1>7
  <2>2. Cat(Chars, s, l, q)
    BY <1>4, <1>7, <1>8, ConcatIs
  <2>. QED  BY <1>7, <2>1, <2>2 DEF Cat
<1>11. ASSUME NEW k \in a + Len(new) + 1 .. Len(s)
       PROVE  s[k] = text[k - Len(new) + (b - a)]
  <2>1. PICK n \in Nat : n = Len(new)
    OBVIOUS
  <2>2. PICK m \in Nat : m = Len(text)
    OBVIOUS
  <2>3. k \in Nat /\ k - Len(l) \in 1 .. Len(q) /\ k > Len(l)
    BY <1>4, <1>7, <1>9, <2>1, <2>2
  <2>4. s[k] = q[k - Len(l)]
    <3>1. k \in Len(l) + 1 .. Len(s)
      BY <1>7, <2>1
    <3>2. Cat(Chars, s, l, q)
      BY <1>4, <1>7, <1>8, ConcatIs
    <3>. QED  BY <3>1, <3>2 DEF Cat
  <2>5. q[k - Len(l)] = text[b + (k - Len(l))]
    BY <1>4, <2>3
  <2>6. b + (k - Len(l)) = k - Len(new) + (b - a)
    BY <1>7, <2>1, <2>3
  <2>. QED  BY <2>4, <2>5, <2>6
<1>12. Len(s) = Len(text) - (b - a) + Len(new)
  BY <1>9
<1>. QED  BY <1>9, <1>10, <1>11, <1>12

\* A keystroke where the last one ended lengthens the stretch that was put in.
LEMMA GrewOn ==
  ASSUME NEW old \in Seq(Chars), NEW now \in Seq(Chars), NEW new \in Seq(Chars),
         NEW e \in Nat, NEW n \in Nat, Grew(old, now, e, n), NEW s,
         s = Saved!Spliced(now, e, e, new)
  PROVE  Grew(old, s, e + Len(new), n + Len(new))
<1>1. e <= Len(now) /\ n <= e /\ Len(now) \in Nat /\ Len(old) \in Nat /\ Len(new) \in Nat
  BY DEF Grew
<1>2. /\ s \in Seq(Chars) /\ Len(s) = Len(now) + Len(new)
      /\ \A k \in 1 .. e : s[k] = now[k]
      /\ \A k \in e + Len(new) + 1 .. Len(s) : s[k] = now[k - Len(new)]
  <2>1. /\ s \in Seq(Chars) /\ Len(s) = Len(now) - (e - e) + Len(new)
        /\ \A k \in 1 .. e : s[k] = now[k]
        /\ \A k \in e + Len(new) + 1 .. Len(s) : s[k] = now[k - Len(new) + (e - e)]
    BY <1>1, SplicedIs
  <2>2. Len(s) = Len(now) + Len(new)
    BY <1>1, <2>1
  <2>3. ASSUME NEW k \in e + Len(new) + 1 .. Len(s) PROVE s[k] = now[k - Len(new)]
    <3>1. k - Len(new) + (e - e) = k - Len(new)
      BY <1>1
    <3>. QED  BY <2>1, <3>1
  <2>. QED  BY <2>1, <2>2, <2>3
<1>3. PICK m \in Nat : m = Len(new)
  BY <1>1
<1>4. Len(s) = Len(old) + (n + m) /\ n + m \in Nat /\ e + m \in n + m .. Len(s)
  BY <1>1, <1>2, <1>3 DEF Grew
<1>5. ASSUME NEW k \in 1 .. (e + m) - (n + m) PROVE s[k] = old[k]
  <2>1. k \in 1 .. e /\ k \in 1 .. e - n
    BY <1>1, <1>3
  <2>. QED  BY <1>2, <2>1 DEF Grew
<1>6. ASSUME NEW k \in (e + m) + 1 .. Len(s) PROVE s[k] = old[k - (n + m)]
  <2>1. /\ k \in e + m + 1 .. Len(s) /\ k - m \in e + 1 .. Len(now)
        /\ (k - m) - n = k - (n + m)
    BY <1>1, <1>2, <1>3
  <2>2. s[k] = now[k - m] /\ now[k - m] = old[(k - m) - n]
    BY <1>2, <1>3, <2>1 DEF Grew
  <2>. QED  BY <2>1, <2>2
<1>. QED  BY <1>3, <1>4, <1>5, <1>6 DEF Grew

\* A text with an empty stretch put in is one that has grown.
LEMMA GrewFirst ==
  ASSUME NEW old \in Seq(Chars), NEW new \in Seq(Chars), NEW a \in Nat, a <= Len(old),
         NEW s, s = Saved!Spliced(old, a, a, new)
  PROVE  Grew(old, s, a + Len(new), Len(new))
<1>1. Grew(old, old, a, 0)
  BY DEF Grew
<1>2. Grew(old, s, a + Len(new), 0 + Len(new))
  BY <1>1, GrewOn
<1>. QED  BY <1>2

\* What has grown is what it was, parted by what was put in.
LEMMA GrewIs ==
  ASSUME NEW old \in Seq(Chars), NEW now \in Seq(Chars), NEW e, NEW n, Grew(old, now, e, n)
  PROVE  /\ Len(now) - Len(old) = n
         /\ now = Saved!Slice(old, 0, e - n) \o Saved!Slice(now, e - n, e)
                  \o Saved!Slice(old, e - n, Len(old))
<1>1. /\ Len(now) \in Nat /\ Len(old) \in Nat /\ n \in Nat /\ e \in Nat /\ e <= Len(now)
      /\ n <= e /\ Len(now) = Len(old) + n
  BY DEF Grew
<1>2. PICK p : p = SubSeq(old, 1, e - n)
  OBVIOUS
<1>3. PICK q : q = SubSeq(now, e - n + 1, e)
  OBVIOUS
<1>4. PICK r : r = SubSeq(old, e - n + 1, Len(old))
  OBVIOUS
<1>5. p \in Seq(Chars) /\ Len(p) = e - n /\ \A k \in 1 .. e - n : p[k] = now[k]
  <2>1. p \in Seq(Chars) /\ Len(p) = e - n /\ \A k \in 1 .. e - n : p[k] = old[k]
    BY <1>1, <1>2
  <2>. QED  BY <2>1 DEF Grew
<1>6. q \in Seq(Chars) /\ Len(q) = n /\ \A k \in 1 .. n : q[k] = now[e - n + k]
  BY <1>1, <1>3
<1>7. /\ r \in Seq(Chars) /\ Len(r) = Len(now) - e
      /\ \A k \in 1 .. Len(now) - e : r[k] = now[e + k]
  <2>1. /\ r \in Seq(Chars) /\ Len(r) = Len(now) - e
        /\ \A k \in 1 .. Len(now) - e : r[k] = old[e - n + k]
    BY <1>1, <1>4
  <2>2. ASSUME NEW k \in 1 .. Len(now) - e PROVE now[e + k] = old[e - n + k]
    <3>1. e + k \in e + 1 .. Len(now) /\ (e + k) - n = e - n + k
      BY <1>1
    <3>2. now[e + k] = old[(e + k) - n]
      BY <3>1 DEF Grew
    <3>. QED  BY <3>1, <3>2
  <2>. QED  BY <2>1, <2>2
<1>8. PICK l : l = p \o q
  OBVIOUS
<1>9. /\ l \in Seq(Chars) /\ Len(l) = e
      /\ \A k \in 1 .. e : l[k] = now[k]
  <2>1. /\ l \in Seq(Chars) /\ Len(l) = e
        /\ \A k \in 1 .. e - n : l[k] = p[k]
        /\ \A k \in e - n + 1 .. e : l[k] = q[k - (e - n)]
    <3>1. p \in Seq(Chars) /\ q \in Seq(Chars)
      BY <1>5, <1>6
    <3>2. /\ l \in Seq(Chars) /\ Len(l) = Len(p) + Len(q)
          /\ \A k \in 1 .. Len(p) : l[k] = p[k]
          /\ \A k \in Len(p) + 1 .. Len(l) : l[k] = q[k - Len(p)]
      <4>1. Cat(Chars, l, p, q)
        BY <1>8, <3>1, ConcatIs
      <4>. QED  BY <4>1 DEF Cat
    <3>3. Len(p) = e - n /\ Len(l) = e
      BY <1>1, <1>5, <1>6, <3>2
    <3>. QED  BY <3>2, <3>3
  <2>2. ASSUME NEW k \in e - n + 1 .. e PROVE l[k] = now[k]
    <3>1. k - (e - n) \in 1 .. n /\ e - n + (k - (e - n)) = k
      BY <1>1
    <3>. QED  BY <1>6, <2>1, <3>1
  <2>3. \A k \in 1 .. e : k \in 1 .. e - n \/ k \in e - n + 1 .. e
    BY <1>1
  <2>. QED  BY <1>5, <2>1, <2>2, <2>3
<1>10. PICK s : s = l \o r
  OBVIOUS
<1>11. s \in Seq(Chars) /\ Len(s) = Len(now) /\ \A k \in 1 .. Len(now) : s[k] = now[k]
  <2>1. /\ s \in Seq(Chars) /\ Len(s) = Len(now)
        /\ \A k \in 1 .. e : s[k] = l[k]
        /\ \A k \in e + 1 .. Len(now) : s[k] = r[k - e]
    <3>1. l \in Seq(Chars) /\ r \in Seq(Chars)
      BY <1>7, <1>9
    <3>2. /\ s \in Seq(Chars) /\ Len(s) = Len(l) + Len(r)
          /\ \A k \in 1 .. Len(l) : s[k] = l[k]
          /\ \A k \in Len(l) + 1 .. Len(s) : s[k] = r[k - Len(l)]
      <4>1. Cat(Chars, s, l, r)
        BY <1>10, <3>1, ConcatIs
      <4>. QED  BY <4>1 DEF Cat
    <3>3. Len(l) = e /\ Len(s) = Len(now)
      BY <1>1, <1>7, <1>9, <3>2
    <3>. QED  BY <3>2, <3>3
  <2>2. ASSUME NEW k \in e + 1 .. Len(now) PROVE s[k] = now[k]
    <3>1. k - e \in 1 .. Len(now) - e /\ e + (k - e) = k
      BY <1>1
    <3>. QED  BY <1>7, <2>1, <3>1
  <2>3. \A k \in 1 .. Len(now) : k \in 1 .. e \/ k \in e + 1 .. Len(now)
    BY <1>1
  <2>. QED  BY <1>9, <2>1, <2>2, <2>3
<1>12. s = now
  BY <1>11, SeqEqual
<1>13. (p \o q) \o r = now
  BY <1>8, <1>10, <1>12
<1>14. /\ Saved!Slice(old, 0, e - n) = p /\ Saved!Slice(now, e - n, e) = q
       /\ Saved!Slice(old, e - n, Len(old)) = r
  <2>1. 0 + 1 = 1
    OBVIOUS
  <2>. QED  BY <1>2, <1>3, <1>4, <2>1 DEF Saved!Slice
<1>15. Len(now) - Len(old) = n
  BY <1>1
<1>. QED  BY <1>13, <1>14, <1>15

\* Revisions are numbered.
LEMMA Numbered == /\ \A x \in Revision : x.rev \in Nat /\ x.text \in Seq(Chars)
                  /\ \A s \in Seq(Revision), i \in Nat : i \in DOMAIN s => s[i] \in Revision
                  /\ \A s \in Seq(Revision) : DOMAIN s \subseteq Nat
<1>1. \A x \in Revision : x.rev \in Nat /\ x.text \in Seq(Chars)
  BY DEF Revision
<1>2. \A s \in Seq(Revision), i \in Nat : i \in DOMAIN s => s[i] \in Revision
  OBVIOUS
<1>3. \A s \in Seq(Revision) : DOMAIN s \subseteq Nat
  OBVIOUS
<1>. QED  BY <1>1, <1>2, <1>3

\* The newest revision goes on the snapshots before it.
LEMMA PushedIs ==
  ASSUME NEW s \in Seq(Revision), NEW x \in Revision, NEW t, t = Append(s, x)
  PROVE  /\ t \in Seq(Revision) /\ Len(t) = Len(s) + 1 /\ t # <<>> /\ t[Len(t)] = x
         /\ DOMAIN t = DOMAIN s \cup {Len(s) + 1}
         /\ \A i \in DOMAIN s : t[i] = s[i]
         /\ \A i \in DOMAIN s : i < Len(s) + 1
<1>1. Len(s) \in Nat /\ DOMAIN s = 1 .. Len(s)
  OBVIOUS
<1>2. t \in Seq(Revision) /\ Len(t) = Len(s) + 1
  OBVIOUS
<1>3. DOMAIN t = 1 .. Len(s) + 1
  BY <1>2
<1>4. 1 .. Len(s) + 1 = 1 .. Len(s) \cup {Len(s) + 1}
  BY <1>1
<1>5. t[Len(s) + 1] = x /\ \A i \in 1 .. Len(s) : t[i] = s[i]
  BY <1>1
<1>6. t # <<>>
  BY <1>1, <1>2
<1>7. \A i \in 1 .. Len(s) : i < Len(s) + 1
  BY <1>1
<1>. QED  BY <1>1, <1>2, <1>3, <1>4, <1>5, <1>6, <1>7

\* The last of some snapshots comes off.
LEMMA PoppedIs ==
  ASSUME NEW s \in Seq(Revision), s # <<>>, NEW t, t = Saved!Front(s)
  PROVE  /\ t \in Seq(Revision) /\ Len(t) = Len(s) - 1 /\ Len(s) \in DOMAIN s
         /\ Saved!Top(s) = s[Len(s)] /\ s[Len(s)] \in Revision
         /\ DOMAIN t \subseteq DOMAIN s /\ DOMAIN s = DOMAIN t \cup {Len(s)}
         /\ \A i \in DOMAIN t : t[i] = s[i] /\ i < Len(s)
<1>1. PICK n \in Nat : n = Len(s)
  OBVIOUS
<1>2. n >= 1 /\ DOMAIN s = 1 .. n
  BY <1>1
<1>3. t = SubSeq(s, 1, n - 1)
  BY <1>1 DEF Saved!Front
<1>4. t \in Seq(Revision) /\ Len(t) = n - 1 /\ \A i \in 1 .. n - 1 : t[i] = s[i]
  BY <1>1, <1>2, <1>3
<1>5. DOMAIN t = 1 .. n - 1
  BY <1>2, <1>4
<1>6. 1 .. n = 1 .. (n - 1) \cup {n} /\ 1 .. n - 1 \subseteq 1 .. n /\ \A i \in 1 .. n - 1 : i < n
  BY <1>2
<1>7. n \in 1 .. n /\ s[n] \in Revision
  BY <1>1, <1>2
<1>. QED  BY <1>1, <1>2, <1>4, <1>5, <1>6, <1>7 DEF Saved!Top

----------------------------------------------------------------------------
(* Snapshots pushed and popped                                             *)

\* An edit with a snapshot before it, and one that goes on from the last.
LEMMA Edited1 ==
  ASSUME NEW u \in Seq(Revision), NEW d \in Revision, NEW r, Ordered(u, d, r),
         NEW e \in Revision, e.rev = d.rev + 1, NEW v, v \in {u, Append(u, d)}
  PROVE  Ordered(v, e, <<>>) /\ v \in Seq(Revision)
<1>1. d.rev \in Nat /\ e.rev \in Nat /\ \A i \in DOMAIN u : u[i].rev \in Nat
  BY Numbered
<1>2. DOMAIN <<>> = {}
  OBVIOUS
<1>3. \A i \in DOMAIN u : u[i].rev < d.rev
  BY DEF Ordered
<1>4. \A i \in DOMAIN u : u[i].rev < e.rev
  BY <1>1, <1>3
<1>5. CASE v = u
  BY <1>2, <1>4, <1>5 DEF Ordered
<1>6. CASE v = Append(u, d)
  <2>1. /\ v \in Seq(Revision)
        /\ DOMAIN v = DOMAIN u \cup {Len(u) + 1} /\ v[Len(u) + 1] = d
        /\ \A i \in DOMAIN u : v[i] = u[i] /\ i < Len(u) + 1 /\ i \in Nat
        /\ Len(u) + 1 \in Nat
    <3>1. /\ v \in Seq(Revision) /\ Len(v) = Len(u) + 1 /\ v[Len(v)] = d
          /\ DOMAIN v = DOMAIN u \cup {Len(u) + 1}
          /\ \A i \in DOMAIN u : v[i] = u[i]
          /\ \A i \in DOMAIN u : i < Len(u) + 1
      BY <1>6, PushedIs
    <3>2. Len(u) \in Nat /\ DOMAIN u \subseteq Nat
      OBVIOUS
    <3>. QED  BY <3>1, <3>2
  <2>2. \A i \in DOMAIN v : v[i].rev < e.rev
    BY <1>1, <1>4, <2>1
  <2>3. ASSUME NEW i \in DOMAIN v, NEW j \in DOMAIN v, i < j PROVE v[i].rev < v[j].rev
    <3>1. i \in DOMAIN u
      BY <2>1, <2>3
    <3>2. CASE j \in DOMAIN u
      BY <2>1, <2>3, <3>1, <3>2 DEF Ordered
    <3>3. CASE j = Len(u) + 1
      BY <1>3, <2>1, <3>1, <3>3
    <3>. QED  BY <2>1, <3>2, <3>3
  <2>. QED  BY <1>2, <2>1, <2>2, <2>3 DEF Ordered
<1>. QED  BY <1>5, <1>6

\* Undo: the last snapshot becomes the document, which becomes the next to redo.
LEMMA Back ==
  ASSUME NEW u \in Seq(Revision), NEW d \in Revision, NEW r \in Seq(Revision),
         Ordered(u, d, r), u # <<>>,
         NEW v, v = Saved!Front(u), NEW e, e = Saved!Top(u), NEW s, s = Append(r, d)
  PROVE  /\ v \in Seq(Revision) /\ e \in Revision /\ s \in Seq(Revision)
         /\ Ordered(v, e, s)
         /\ \A c, k : Matching(u, d, r, c, k) => Matching(v, e, s, c, k)
<1>1. PICK n : n = Len(u)
  OBVIOUS
<1>2. /\ v \in Seq(Revision) /\ e = u[n] /\ e \in Revision /\ n \in DOMAIN u
      /\ DOMAIN v \subseteq DOMAIN u
      /\ \A i \in DOMAIN v : v[i] = u[i] /\ i < n
  BY <1>1, PoppedIs
<1>3. PICK m : m = Len(r) + 1
  OBVIOUS
<1>4. /\ s \in Seq(Revision) /\ DOMAIN s = DOMAIN r \cup {m} /\ s[m] = d
      /\ \A i \in DOMAIN r : s[i] = r[i]
      /\ \A i \in DOMAIN r : i < m
  BY <1>3, PushedIs
<1>5. m \in Nat /\ DOMAIN r \subseteq Nat /\ DOMAIN u \subseteq Nat
  BY <1>3
<1>6. e.rev \in Nat /\ d.rev \in Nat /\ \A i \in DOMAIN r : r[i].rev \in Nat
  BY <1>2, Numbered
<1>7. e.rev < d.rev
  BY <1>2 DEF Ordered
<1>8. \A i, j \in DOMAIN v : i < j => v[i].rev < v[j].rev
  BY <1>2 DEF Ordered
<1>9. \A i \in DOMAIN v : v[i].rev < e.rev
  BY <1>2 DEF Ordered
<1>10. \A i \in DOMAIN r : d.rev < r[i].rev
  BY DEF Ordered
<1>11. \A i \in DOMAIN s : e.rev < s[i].rev
  BY <1>4, <1>6, <1>7, <1>10
<1>12. ASSUME NEW i \in DOMAIN s, NEW j \in DOMAIN s, i < j PROVE s[j].rev < s[i].rev
  <2>1. i \in DOMAIN r
    <3>1. j \in Nat /\ ~(m < j)
      BY <1>4, <1>5
    <3>. QED  BY <1>4, <1>12, <3>1
  <2>2. CASE j \in DOMAIN r
    BY <1>4, <1>12, <2>1, <2>2 DEF Ordered
  <2>3. CASE j = m
    BY <1>4, <1>10, <2>1, <2>3
  <2>. QED  BY <1>4, <2>2, <2>3
<1>13. Ordered(v, e, s)
  BY <1>8, <1>9, <1>11, <1>12 DEF Ordered
<1>14. ASSUME NEW c, NEW k, Matching(u, d, r, c, k) PROVE Matching(v, e, s, c, k)
  <2>1. \A i \in DOMAIN v : Kept(v[i], c, k)
    BY <1>2, <1>14 DEF Matching
  <2>2. Kept(e, c, k)
    BY <1>2, <1>14 DEF Matching
  <2>3. \A i \in DOMAIN s : Kept(s[i], c, k)
    BY <1>4, <1>14 DEF Matching
  <2>. QED  BY <2>1, <2>2, <2>3 DEF Matching
<1>. QED  BY <1>2, <1>4, <1>13, <1>14

\* Redo: the other way.
LEMMA Forth ==
  ASSUME NEW u \in Seq(Revision), NEW d \in Revision, NEW r \in Seq(Revision),
         Ordered(u, d, r), r # <<>>,
         NEW v, v = Append(u, d), NEW e, e = Saved!Top(r), NEW s, s = Saved!Front(r)
  PROVE  /\ v \in Seq(Revision) /\ e \in Revision /\ s \in Seq(Revision)
         /\ Ordered(v, e, s)
         /\ \A c, k : Matching(u, d, r, c, k) => Matching(v, e, s, c, k)
<1>1. PICK n : n = Len(r)
  OBVIOUS
<1>2. /\ s \in Seq(Revision) /\ e = r[n] /\ e \in Revision /\ n \in DOMAIN r
      /\ DOMAIN s \subseteq DOMAIN r
      /\ \A i \in DOMAIN s : s[i] = r[i] /\ i < n
  BY <1>1, PoppedIs
<1>3. PICK m : m = Len(u) + 1
  OBVIOUS
<1>4. /\ v \in Seq(Revision) /\ DOMAIN v = DOMAIN u \cup {m} /\ v[m] = d
      /\ \A i \in DOMAIN u : v[i] = u[i]
      /\ \A i \in DOMAIN u : i < m
  BY <1>3, PushedIs
<1>5. m \in Nat /\ DOMAIN r \subseteq Nat /\ DOMAIN u \subseteq Nat
  BY <1>3
<1>6. e.rev \in Nat /\ d.rev \in Nat /\ \A i \in DOMAIN u : u[i].rev \in Nat
  BY <1>2, Numbered
<1>7. d.rev < e.rev
  BY <1>2 DEF Ordered
<1>8. \A i, j \in DOMAIN s : i < j => s[j].rev < s[i].rev
  BY <1>2 DEF Ordered
<1>9. \A i \in DOMAIN s : e.rev < s[i].rev
  BY <1>2 DEF Ordered
<1>10. \A i \in DOMAIN u : u[i].rev < d.rev
  BY DEF Ordered
<1>11. \A i \in DOMAIN v : v[i].rev < e.rev
  BY <1>4, <1>6, <1>7, <1>10
<1>12. ASSUME NEW i \in DOMAIN v, NEW j \in DOMAIN v, i < j PROVE v[i].rev < v[j].rev
  <2>1. i \in DOMAIN u
    <3>1. j \in Nat /\ ~(m < j)
      BY <1>4, <1>5
    <3>. QED  BY <1>4, <1>12, <3>1
  <2>2. CASE j \in DOMAIN u
    BY <1>4, <1>12, <2>1, <2>2 DEF Ordered
  <2>3. CASE j = m
    BY <1>4, <1>10, <2>1, <2>3
  <2>. QED  BY <1>4, <2>2, <2>3
<1>13. Ordered(v, e, s)
  BY <1>8, <1>9, <1>11, <1>12 DEF Ordered
<1>14. ASSUME NEW c, NEW k, Matching(u, d, r, c, k) PROVE Matching(v, e, s, c, k)
  <2>1. \A i \in DOMAIN v : Kept(v[i], c, k)
    BY <1>4, <1>14 DEF Matching
  <2>2. Kept(e, c, k)
    BY <1>2, <1>14 DEF Matching
  <2>3. \A i \in DOMAIN s : Kept(s[i], c, k)
    BY <1>2, <1>14 DEF Matching
  <2>. QED  BY <2>1, <2>2, <2>3 DEF Matching
<1>. QED  BY <1>2, <1>4, <1>13, <1>14

----------------------------------------------------------------------------
(* Steps of a document                                                     *)

\* Texts of a bounded length are texts.
LEMMA BoundedTexts == \A m : \A x \in Saved!TextsUpTo(m) : x \in Seq(Chars)
<1>. SUFFICES ASSUME NEW m, NEW x \in Saved!TextsUpTo(m) PROVE x \in Seq(Chars)
  OBVIOUS
<1>1. PICK k \in 0 .. m : x \in [1 .. k -> Chars]
  BY DEF Saved!TextsUpTo
<1>2. k \in Nat
  BY <1>1
<1>. QED  BY <1>1, <1>2

\* What an edit records is a run.
LEMMA RunsAre == /\ Saved!NoRun \in Run
                 /\ \A kind \in Saved!Kinds, s, d, n \in Nat : Saved!Recorded(kind, s, d, n) \in Run
<1>2. \A kind \in {"none"} \cup Saved!Kinds, s, d, n \in Nat :
        [kind |-> kind, start |-> s, deleted |-> d, inserted |-> n] \in Run
  BY DEF Run
<1>3. Saved!NoRun \in Run
  <2>1. "none" \in {"none"} \cup Saved!Kinds /\ 0 \in Nat
    OBVIOUS
  <2>. QED  BY <1>2, <2>1 DEF Saved!NoRun
<1>. QED  BY <1>2, <1>3 DEF Saved!Recorded

LEMMA DocInit == Saved!Init => DocInv
<1>. SUFFICES ASSUME Saved!Init PROVE DocInv
  OBVIOUS
<1>1. PICK t \in Saved!TextsUpTo(1) : doc = [text |-> t, rev |-> 0] /\ astray = (t # disk)
  BY DEF Saved!Init
<1>2. disk \in Saved!TextsUpTo(1) /\ undo = <<>> /\ redo = <<>> /\ clean = 0 /\ run = Saved!NoRun
  BY DEF Saved!Init
<1>3. \A x \in Saved!TextsUpTo(1) : x \in Seq(Chars)
  BY BoundedTexts
<1>4. doc \in Revision /\ run \in Run /\ doc.text = t
  <2>1. t \in Seq(Chars)
    BY <1>1, <1>3
  <2>2. doc \in Revision /\ doc.text = t
    BY <1>1, <2>1 DEF Revision
  <2>. QED  BY <1>2, <2>2, RunsAre
<1>5. DocTyped(undo, doc, redo, clean, disk, run)
  <2>1. <<>> \in Seq(Revision)
    OBVIOUS
  <2>. QED  BY <1>2, <1>3, <1>4, <2>1 DEF DocTyped
<1>6. Ordered(undo, doc, redo)
  BY <1>2 DEF Ordered
<1>7. Joined(undo, doc, run)
  BY <1>2 DEF Joined, Typing, Saved!NoRun
<1>8. ~astray => Matching(undo, doc, redo, clean, disk)
  <2>1. DOMAIN <<>> = {}
    OBVIOUS
  <2>2. ~astray => doc.text = disk
    BY <1>1, <1>4
  <2>. QED  BY <1>2, <2>1, <2>2 DEF Matching, Kept
<1>. QED  BY <1>2, <1>5, <1>6, <1>7, <1>8 DEF DocInv, DocGood

\* Where a keystroke goes on from: what is typed at a place is put in there.
Typed(kind, start, deleted, n, text, new) ==
  kind = "insert" /\ deleted = 0 =>
    \E ins \in Seq(Chars) : /\ n = Len(ins) /\ start <= Len(text)
                            /\ new = Saved!Spliced(text, start, start, ins)

\* The new run says what grew since its snapshot.
LEMMA JoinedOn ==
  ASSUME DocInv, NEW new \in Seq(Chars), NEW kind, NEW start \in Nat, NEW deleted \in Nat,
         NEW n \in Nat, Typed(kind, start, deleted, n, doc.text, new),
         NEW u, NEW e, e.text = new, NEW rn, rn = Saved!Recorded(kind, start, deleted, n),
         IF Saved!CanCoalesce(kind, start, deleted, n) THEN u = undo ELSE u = Append(undo, doc)
  PROVE  Joined(u, e, rn)
<1>. SUFFICES ASSUME Typing(rn)
              PROVE  \E l \in Nat : rn.inserted <= l
                                    /\ Grew(u[Len(u)].text, e.text, rn.start + rn.inserted, l)
  BY DEF Joined
<1>1. kind = "insert" /\ deleted = 0 /\ rn.start = start /\ rn.inserted = n
  BY DEF Saved!Recorded, Saved!NoRun, Typing
<1>2. PICK ins \in Seq(Chars) : /\ n = Len(ins) /\ start <= Len(doc.text)
                                /\ new = Saved!Spliced(doc.text, start, start, ins)
  BY <1>1 DEF Typed
<1>3. doc \in Revision /\ undo \in Seq(Revision) /\ doc.text \in Seq(Chars)
  BY Numbered DEF DocInv, DocGood, DocTyped
<1>4. CASE Saved!CanCoalesce(kind, start, deleted, n)
  <2>1. Typing(run) /\ start = run.start + run.inserted /\ run # Saved!NoRun
    BY <1>1, <1>4 DEF Saved!CanCoalesce, Typing, Saved!NoRun
  <2>2. undo # <<>> /\ u = undo
    BY <1>4, <2>1 DEF DocInv, DocGood
  <2>3. PICK l \in Nat : run.inserted <= l /\ Grew(undo[Len(undo)].text, doc.text, start, l)
    BY <2>1 DEF DocInv, DocGood, Joined
  <2>4. undo[Len(undo)].text \in Seq(Chars)
    <3>1. Len(undo) \in DOMAIN undo
      BY <1>3, <2>2
    <3>. QED  BY <1>3, <3>1, Numbered
  <2>5. Grew(undo[Len(undo)].text, new, start + n, l + n)
    BY <1>2, <1>3, <2>3, <2>4, GrewOn
  <2>6. n <= l + n /\ l + n \in Nat
    OBVIOUS
  <2>. QED  BY <1>1, <2>2, <2>5, <2>6
<1>5. CASE ~Saved!CanCoalesce(kind, start, deleted, n)
  <2>1. u[Len(u)] = doc
    <3>1. u = Append(undo, doc)
      BY <1>5
    <3>. QED  BY <1>3, <3>1, PushedIs
  <2>2. Grew(doc.text, new, start + n, n)
    BY <1>2, <1>3, GrewFirst
  <2>3. n <= n
    OBVIOUS
  <2>. QED  BY <1>1, <2>1, <2>2, <2>3
<1>. QED  BY <1>4, <1>5

\* An edit: a revision of its own number, with a snapshot unless it goes on.
LEMMA ApplyKeeps ==
  ASSUME DocInv, NEW new \in Seq(Chars), NEW kind \in Saved!Kinds,
         NEW start \in Nat, NEW deleted \in Nat, NEW n \in Nat,
         Typed(kind, start, deleted, n, doc.text, new),
         Saved!Apply(new, kind, start, deleted, n)
  PROVE  DocInv'
<1>1. /\ doc \in Revision /\ undo \in Seq(Revision) /\ redo \in Seq(Revision)
      /\ clean \in Nat /\ disk \in Seq(Chars) /\ doc.rev \in Nat
      /\ Ordered(undo, doc, redo)
  BY Numbered DEF DocInv, DocGood, DocTyped
<1>2. PICK e : e = [text |-> new, rev |-> doc.rev + 1]
  OBVIOUS
<1>3. e \in Revision /\ e.rev = doc.rev + 1 /\ e.text = new
  BY <1>1, <1>2 DEF Revision
<1>4. PICK rn : rn = Saved!Recorded(kind, start, deleted, n)
  OBVIOUS
<1>5. rn \in Run
  BY <1>4, RunsAre
<1>6. /\ doc' = e /\ run' = rn /\ astray' = (astray \/ Saved!Reused)
      /\ clean' = clean /\ disk' = disk
  BY <1>2, <1>4 DEF Saved!Apply
<1>7. PICK v : v = undo'
  OBVIOUS
<1>8. /\ redo' = <<>> /\ v \in {undo, Append(undo, doc)}
      /\ run' # Saved!NoRun => v # <<>>
      /\ IF Saved!CanCoalesce(kind, start, deleted, n)
         THEN v = undo ELSE v = Append(undo, doc)
  <2>1. CASE Saved!CanCoalesce(kind, start, deleted, n)
    <3>1. run # Saved!NoRun
      BY <2>1 DEF Saved!CanCoalesce, Saved!NoRun
    <3>2. redo = <<>> /\ undo # <<>>
      BY <3>1 DEF DocInv, DocGood
    <3>3. undo' = undo /\ redo' = redo
      BY <2>1 DEF Saved!Apply
    <3>. QED  BY <1>7, <2>1, <3>2, <3>3
  <2>2. CASE ~Saved!CanCoalesce(kind, start, deleted, n)
    <3>1. undo' = Append(undo, doc) /\ redo' = <<>>
      BY <2>2 DEF Saved!Apply
    <3>2. Append(undo, doc) # <<>>
      BY <1>1, PushedIs
    <3>. QED  BY <1>7, <2>2, <3>1, <3>2
  <2>. QED  BY <2>1, <2>2
<1>9. Ordered(v, e, <<>>) /\ v \in Seq(Revision)
  BY <1>1, <1>3, <1>8, Edited1
<1>10. Joined(v, e, rn)
  BY <1>3, <1>4, <1>8, JoinedOn
<1>11. ASSUME ~astray' PROVE Matching(v, e, <<>>, clean, disk)
  <2>1. ~astray /\ ~(doc.rev < clean)
    BY <1>6, <1>11 DEF Saved!Reused
  <2>2. Matching(undo, doc, redo, clean, disk)
    BY <2>1 DEF DocInv, DocGood
  <2>3. e.rev # clean
    BY <1>1, <1>3, <2>1
  <2>4. Kept(e, clean, disk)
    BY <2>3 DEF Kept
  <2>5. \A i \in DOMAIN v : Kept(v[i], clean, disk)
    <3>1. CASE v = undo
      BY <2>2, <3>1 DEF Matching
    <3>2. CASE v = Append(undo, doc)
      <4>1. /\ DOMAIN v = DOMAIN undo \cup {Len(undo) + 1} /\ v[Len(undo) + 1] = doc
            /\ \A i \in DOMAIN undo : v[i] = undo[i]
        BY <1>1, <3>2, PushedIs
      <4>. QED  BY <2>2, <4>1 DEF Matching
    <3>. QED  BY <1>8, <3>1, <3>2
  <2>. QED  BY <2>4, <2>5 DEF Matching
<1>12. DocTyped(v, e, <<>>, clean, disk, rn)
  <2>1. <<>> \in Seq(Revision)
    OBVIOUS
  <2>. QED  BY <1>1, <1>3, <1>5, <1>9, <2>1 DEF DocTyped
<1>13. DocGood(v, e, <<>>, clean, disk, rn, astray')
  BY <1>6, <1>8, <1>9, <1>10, <1>11, <1>12 DEF DocGood
<1>. QED  BY <1>6, <1>7, <1>8, <1>13 DEF DocInv

\* The edits of the document are of that kind.
LEMMA EditsKeep ==
  ASSUME DocInv,
         \/ \E a, b \in 0 .. Len(doc.text), kind \in Saved!Kinds, new \in Saved!TextsUpTo(1) :
              Saved!ReplaceRange(a, b, new, kind)
         \/ \E new \in Saved!TextsUpTo(1) : Saved!ReplaceUtf8(new)
  PROVE  DocInv'
<1>1. doc \in Revision /\ doc.text \in Seq(Chars) /\ Len(doc.text) \in Nat
  <2>1. doc \in Revision
    BY DEF DocInv, DocGood, DocTyped
  <2>2. doc.text \in Seq(Chars)
    BY <2>1, Numbered
  <2>. QED  BY <2>1, <2>2
<1>2. ASSUME NEW a \in 0 .. Len(doc.text), NEW b \in 0 .. Len(doc.text),
             NEW kind \in Saved!Kinds, NEW new \in Saved!TextsUpTo(1),
             Saved!ReplaceRange(a, b, new, kind)
      PROVE  DocInv'
  <2>1. a \in Nat /\ b \in Nat /\ a <= b /\ b <= Len(doc.text) /\ b - a \in Nat
    BY <1>1, <1>2 DEF Saved!ReplaceRange
  <2>2. new \in Seq(Chars) /\ Len(new) \in Nat
    BY BoundedTexts
  <2>3. PICK s : s = Saved!Spliced(doc.text, a, b, new)
    OBVIOUS
  <2>4. s \in Seq(Chars)
    BY <1>1, <2>1, <2>2, <2>3, SplicedIs
  <2>5. Saved!Apply(s, kind, a, b - a, Len(new))
    BY <1>2, <2>3 DEF Saved!ReplaceRange
  <2>6. Typed(kind, a, b - a, Len(new), doc.text, s)
    <3>1. ASSUME b - a = 0 PROVE b = a
      BY <2>1, <3>1
    <3>. QED  BY <2>1, <2>2, <2>3, <3>1 DEF Typed
  <2>. QED  BY <2>1, <2>2, <2>4, <2>5, <2>6, ApplyKeeps
<1>3. ASSUME NEW new \in Saved!TextsUpTo(1), Saved!ReplaceUtf8(new) PROVE DocInv'
  <2>1. new \in Seq(Chars)
    BY BoundedTexts
  <2>2. "all" \in Saved!Kinds /\ Typed("all", 0, Len(doc.text), 0, doc.text, new)
    BY DEF Saved!Kinds, Typed
  <2>3. Saved!Apply(new, "all", 0, Len(doc.text), 0)
    BY <1>3 DEF Saved!ReplaceUtf8
  <2>4. 0 \in Nat
    OBVIOUS
  <2>. QED  BY <1>1, <2>1, <2>2, <2>3, <2>4, ApplyKeeps
<1>. QED  BY <1>2, <1>3

\* A run that is over joins nothing.
LEMMA RunOver == /\ Saved!NoRun \in Run /\ \A u, d : Joined(u, d, Saved!NoRun)
BY RunsAre DEF Joined, Typing, Saved!NoRun

LEMMA UndoKeeps == ASSUME DocInv, Saved!Undo PROVE DocInv'
<1>1. /\ doc \in Revision /\ undo \in Seq(Revision) /\ redo \in Seq(Revision)
      /\ clean \in Nat /\ disk \in Seq(Chars) /\ Ordered(undo, doc, redo)
      /\ ~astray => Matching(undo, doc, redo, clean, disk)
  BY DEF DocInv, DocGood, DocTyped
<1>2. PICK v : v = Saved!Front(undo)
  OBVIOUS
<1>3. PICK e : e = Saved!Top(undo)
  OBVIOUS
<1>4. PICK s : s = Append(redo, doc)
  OBVIOUS
<1>5. /\ undo # <<>> /\ doc' = e /\ undo' = v /\ redo' = s /\ run' = Saved!NoRun
      /\ clean' = clean /\ disk' = disk /\ astray' = astray
  BY <1>2, <1>3, <1>4 DEF Saved!Undo
<1>6. /\ v \in Seq(Revision) /\ e \in Revision /\ s \in Seq(Revision) /\ Ordered(v, e, s)
      /\ \A c, k : Matching(undo, doc, redo, c, k) => Matching(v, e, s, c, k)
  BY <1>1, <1>2, <1>3, <1>4, <1>5, Back
<1>7. DocGood(v, e, s, clean, disk, Saved!NoRun, astray)
  BY <1>1, <1>6, RunOver DEF DocGood, DocTyped
<1>. QED  BY <1>5, <1>7 DEF DocInv

LEMMA RedoKeeps == ASSUME DocInv, Saved!Redo PROVE DocInv'
<1>1. /\ doc \in Revision /\ undo \in Seq(Revision) /\ redo \in Seq(Revision)
      /\ clean \in Nat /\ disk \in Seq(Chars) /\ Ordered(undo, doc, redo)
      /\ ~astray => Matching(undo, doc, redo, clean, disk)
  BY DEF DocInv, DocGood, DocTyped
<1>2. PICK v : v = Append(undo, doc)
  OBVIOUS
<1>3. PICK e : e = Saved!Top(redo)
  OBVIOUS
<1>4. PICK s : s = Saved!Front(redo)
  OBVIOUS
<1>5. /\ redo # <<>> /\ doc' = e /\ undo' = v /\ redo' = s /\ run' = Saved!NoRun
      /\ clean' = clean /\ disk' = disk /\ astray' = astray
  BY <1>2, <1>3, <1>4 DEF Saved!Redo
<1>6. /\ v \in Seq(Revision) /\ e \in Revision /\ s \in Seq(Revision) /\ Ordered(v, e, s)
      /\ \A c, k : Matching(undo, doc, redo, c, k) => Matching(v, e, s, c, k)
  BY <1>1, <1>2, <1>3, <1>4, <1>5, Forth
<1>7. DocGood(v, e, s, clean, disk, Saved!NoRun, astray)
  BY <1>1, <1>6, RunOver DEF DocGood, DocTyped
<1>. QED  BY <1>5, <1>7 DEF DocInv

\* Of revisions in order only the document has its number.
LEMMA SaveKeeps == ASSUME DocInv, Saved!Save PROVE DocInv'
<1>1. /\ doc \in Revision /\ undo \in Seq(Revision) /\ redo \in Seq(Revision)
      /\ Ordered(undo, doc, redo)
  BY DEF DocInv, DocGood, DocTyped
<1>2. doc.rev \in Nat /\ doc.text \in Seq(Chars)
  BY <1>1, Numbered
<1>3. PICK c : c = doc.rev
  OBVIOUS
<1>4. PICK k : k = doc.text
  OBVIOUS
<1>5. /\ doc' = doc /\ undo' = undo /\ redo' = redo /\ run' = Saved!NoRun
      /\ clean' = c /\ disk' = k /\ astray' = FALSE
  BY <1>3, <1>4 DEF Saved!Save
<1>6. Matching(undo, doc, redo, c, k)
  <2>1. \A i \in DOMAIN undo : undo[i].rev \in Nat /\ undo[i].rev # c
    BY <1>1, <1>2, <1>3, Numbered DEF Ordered
  <2>2. \A i \in DOMAIN redo : redo[i].rev \in Nat /\ redo[i].rev # c
    BY <1>1, <1>2, <1>3, Numbered DEF Ordered
  <2>. QED  BY <1>4, <2>1, <2>2 DEF Matching, Kept
<1>7. DocGood(undo, doc, redo, c, k, Saved!NoRun, FALSE)
  BY <1>1, <1>2, <1>3, <1>4, <1>6, RunOver DEF DocGood, DocTyped
<1>. QED  BY <1>5, <1>7 DEF DocInv

\* What a torn save leaves of the text is no longer what is clean.
LEMMA TearKeeps == ASSUME DocInv, Saved!TearSave PROVE DocInv'
<1>1. doc \in Revision /\ DocGood(undo, doc, redo, clean, disk, run, astray)
  BY DEF DocInv, DocGood, DocTyped
<1>2. doc.text \in Seq(Chars) /\ Len(doc.text) \in Nat
  <2>1. doc.text \in Seq(Chars)
    BY <1>1, Numbered
  <2>. QED  BY <2>1
<1>3. PICK n \in 0 .. Len(doc.text) - 1 : disk' = Saved!Slice(doc.text, 0, n)
  BY DEF Saved!TearSave
<1>4. PICK k : k = disk'
  OBVIOUS
<1>5. k \in Seq(Chars)
  <2>1. k = SubSeq(doc.text, 1, n)
    <3>1. 0 + 1 = 1
      OBVIOUS
    <3>. QED  BY <1>3, <1>4, <3>1 DEF Saved!Slice
  <2>2. n \in Nat /\ n <= Len(doc.text)
    BY <1>2
  <2>. QED  BY <1>2, <2>1, <2>2
<1>6. /\ doc' = doc /\ undo' = undo /\ redo' = redo /\ run' = run
      /\ clean' = clean /\ disk' = k /\ astray' = TRUE
  BY <1>4 DEF Saved!TearSave
<1>7. DocGood(undo, doc, redo, clean, k, run, TRUE)
  BY <1>1, <1>5 DEF DocGood, DocTyped
<1>. QED  BY <1>6, <1>7 DEF DocInv

LEMMA DocStep == ASSUME DocInv, [Saved!Next]_(Saved!vars) PROVE DocInv'
<1>1. CASE UNCHANGED Saved!vars
  BY <1>1 DEF DocInv, Saved!vars
<1>2. ASSUME \E a, b \in 0 .. Len(doc.text), kind \in Saved!Kinds : Saved!FailEdit(kind, a, b)
      PROVE  DocInv'
  BY <1>2 DEF DocInv, Saved!FailEdit
<1>3. ASSUME Saved!BreakCoalescing PROVE DocInv'
  <2>1. /\ doc' = doc /\ undo' = undo /\ redo' = redo /\ run' = Saved!NoRun
        /\ clean' = clean /\ disk' = disk /\ astray' = astray
    BY <1>3 DEF Saved!BreakCoalescing
  <2>2. DocGood(undo, doc, redo, clean, disk, Saved!NoRun, astray)
    BY RunOver DEF DocInv, DocGood, DocTyped
  <2>. QED  BY <2>1, <2>2 DEF DocInv
<1>4. ASSUME Saved!Next PROVE DocInv'
  BY <1>2, <1>3, <1>4, EditsKeep, UndoKeeps, RedoKeeps, SaveKeeps, TearKeeps DEF Saved!Next
<1>. QED  BY <1>1, <1>4

----------------------------------------------------------------------------
(* What the runs look at                                                   *)

\* The line of a document is its snapshots, itself, and what can be redone.
Lined(l, u, r) ==
  /\ u \in Nat /\ r \in Nat /\ l \in Seq(Revision) /\ Len(l) = u + 1 + r
  /\ \A i \in 1 .. u : i \in DOMAIN undo /\ l[i] = undo[i]
  /\ l[u + 1] = doc
  /\ \A i \in u + 2 .. u + 1 + r :
       u + r + 2 - i \in DOMAIN redo /\ l[i] = redo[u + r + 2 - i]

\* That is the line.
LEMMA LineIs ==
  ASSUME DocInv, NEW l, l = Saved!Line, NEW u, u = Len(undo), NEW r, r = Len(redo)
  PROVE  Lined(l, u, r)
<1>1. /\ doc \in Revision /\ undo \in Seq(Revision) /\ redo \in Seq(Revision)
  BY DEF DocInv, DocGood, DocTyped
<1>2. u \in Nat /\ r \in Nat /\ DOMAIN undo = 1 .. u /\ DOMAIN redo = 1 .. r
  BY <1>1
<1>3. PICK t : t = [i \in 1 .. r |-> redo[r + 1 - i]]
  OBVIOUS
<1>4. t \in Seq(Revision) /\ Len(t) = r /\ \A i \in 1 .. r : t[i] = redo[r + 1 - i]
  <2>1. \A i \in 1 .. r : r + 1 - i \in 1 .. r
    BY <1>2
  <2>2. \A i \in 1 .. r : redo[r + 1 - i] \in Revision
    BY <1>1, <1>2, <2>1, Numbered
  <2>3. t \in [1 .. r -> Revision]
    BY <1>3, <2>2
  <2>. QED  BY <1>2, <1>3, <2>3
<1>5. PICK p : p = Append(undo, doc)
  OBVIOUS
<1>6. undo \o <<doc>> = p
  BY <1>1, <1>5
<1>7. l = p \o t
  BY <1>3, <1>6 DEF Saved!Line
<1>8. /\ p \in Seq(Revision) /\ Len(p) = u + 1 /\ p[u + 1] = doc
      /\ \A i \in DOMAIN undo : p[i] = undo[i]
  BY <1>1, <1>5, PushedIs
<1>9. /\ l \in Seq(Revision) /\ Len(l) = u + 1 + r
      /\ \A i \in 1 .. u + 1 + r : l[i] = IF i <= u + 1 THEN p[i] ELSE t[i - (u + 1)]
  <2>1. /\ p \o t \in Seq(Revision) /\ Len(p \o t) = Len(p) + Len(t)
        /\ \A i \in 1 .. Len(p) + Len(t) : (p \o t)[i] =
              IF i <= Len(p) THEN p[i] ELSE t[i - Len(p)]
    BY <1>4, <1>8, ConcatProperties
  <2>. QED  BY <1>4, <1>7, <1>8, <2>1
<1>10. ASSUME NEW i \in 1 .. u PROVE i \in DOMAIN undo /\ l[i] = undo[i]
  <2>1. i \in 1 .. u + 1 + r /\ i <= u + 1 /\ i \in DOMAIN undo
    BY <1>2
  <2>. QED  BY <1>8, <1>9, <2>1
<1>11. l[u + 1] = doc
  <2>1. u + 1 \in 1 .. u + 1 + r /\ u + 1 <= u + 1
    BY <1>2
  <2>. QED  BY <1>8, <1>9, <2>1
<1>12. ASSUME NEW i \in u + 2 .. u + 1 + r
       PROVE  u + r + 2 - i \in DOMAIN redo /\ l[i] = redo[u + r + 2 - i]
  <2>1. /\ i \in 1 .. u + 1 + r /\ ~(i <= u + 1) /\ i - (u + 1) \in 1 .. r
        /\ r + 1 - (i - (u + 1)) = u + r + 2 - i /\ u + r + 2 - i \in DOMAIN redo
    BY <1>2
  <2>. QED  BY <1>4, <1>9, <2>1
<1>. QED  BY <1>2, <1>9, <1>10, <1>11, <1>12 DEF Lined

\* Snapshots stand in the order of their edits, and what could be redone ends a run.
LEMMA InOrder == ASSUME DocInv PROVE Saved!HistoryInOrder
<1>1. PICK l : l = Saved!Line
  OBVIOUS
<1>2. PICK u : u = Len(undo)
  OBVIOUS
<1>3. PICK r : r = Len(redo)
  OBVIOUS
<1>4. /\ u \in Nat /\ r \in Nat /\ l \in Seq(Revision) /\ Len(l) = u + 1 + r
      /\ \A i \in 1 .. u : i \in DOMAIN undo /\ l[i] = undo[i]
      /\ l[u + 1] = doc
      /\ \A i \in u + 2 .. u + 1 + r :
           u + r + 2 - i \in DOMAIN redo /\ l[i] = redo[u + r + 2 - i]
  <2>1. Lined(l, u, r)
    BY <1>1, <1>2, <1>3, LineIs
  <2>. QED  BY <2>1 DEF Lined
<1>5. Ordered(undo, doc, redo) /\ doc \in Revision
  BY DEF DocInv, DocGood, DocTyped
<1>6. \A i \in 1 .. u : l[i].rev < l[u + 1].rev
  BY <1>4, <1>5 DEF Ordered
<1>7. \A i \in u + 2 .. u + 1 + r : l[u + 1].rev < l[i].rev
  BY <1>4, <1>5 DEF Ordered
<1>8. \A i \in 1 .. u + 1 + r : l[i].rev \in Nat
  BY <1>4, Numbered
<1>9. ASSUME NEW i \in 1 .. u + 1 + r, NEW j \in 1 .. u + 1 + r, i < j
      PROVE  l[i].rev < l[j].rev
  <2>1. CASE j <= u
    <3>1. i \in 1 .. u /\ j \in 1 .. u
      BY <1>4, <1>9, <2>1
    <3>. QED  BY <1>4, <1>5, <1>9, <3>1 DEF Ordered
  <2>2. CASE j = u + 1
    <3>1. i \in 1 .. u
      BY <1>4, <1>9, <2>2
    <3>. QED  BY <1>6, <2>2, <3>1
  <2>3. CASE i = u + 1
    <3>1. j \in u + 2 .. u + 1 + r
      BY <1>4, <1>9, <2>3
    <3>. QED  BY <1>7, <2>3, <3>1
  <2>4. CASE i <= u /\ u + 1 < j
    <3>1. i \in 1 .. u /\ j \in u + 2 .. u + 1 + r /\ u + 1 \in 1 .. u + 1 + r
      BY <1>4, <2>4
    <3>. QED  BY <1>6, <1>7, <1>8, <3>1
  <2>5. CASE u + 1 < i
    <3>1. /\ i \in u + 2 .. u + 1 + r /\ j \in u + 2 .. u + 1 + r
          /\ u + r + 2 - j < u + r + 2 - i
      BY <1>4, <1>9, <2>5
    <3>. QED  BY <1>4, <1>5, <3>1 DEF Ordered
  <2>. QED  BY <1>4, <2>1, <2>2, <2>3, <2>4, <2>5
<1>10. run # Saved!NoRun => redo = <<>> /\ undo # <<>>
  BY DEF DocInv, DocGood
<1>. QED  BY <1>1, <1>4, <1>9, <1>10 DEF Saved!HistoryInOrder

\* What is numbered as the clean revision reads as the file does.
LEMMA CleanIs == ASSUME DocInv PROVE Saved!CleanIsSaved
<1>. SUFFICES ASSUME ~astray, NEW i \in 1 .. Len(Saved!Line), Saved!Line[i].rev = clean
              PROVE  Saved!Line[i].text = disk
  BY DEF Saved!CleanIsSaved
<1>1. PICK l : l = Saved!Line
  OBVIOUS
<1>2. PICK u : u = Len(undo)
  OBVIOUS
<1>3. PICK r : r = Len(redo)
  OBVIOUS
<1>4. /\ u \in Nat /\ r \in Nat /\ l \in Seq(Revision) /\ Len(l) = u + 1 + r
      /\ \A n \in 1 .. u : n \in DOMAIN undo /\ l[n] = undo[n]
      /\ l[u + 1] = doc
      /\ \A n \in u + 2 .. u + 1 + r :
           u + r + 2 - n \in DOMAIN redo /\ l[n] = redo[u + r + 2 - n]
  <2>1. Lined(l, u, r)
    BY <1>1, <1>2, <1>3, LineIs
  <2>. QED  BY <2>1 DEF Lined
<1>5. Matching(undo, doc, redo, clean, disk)
  BY DEF DocInv, DocGood
<1>6. i \in 1 .. u \/ i = u + 1 \/ i \in u + 2 .. u + 1 + r
  BY <1>1, <1>4
<1>7. Kept(l[i], clean, disk)
  BY <1>4, <1>5, <1>6 DEF Matching
<1>. QED  BY <1>1, <1>7 DEF Kept

\* A run of typing is one stretch put into the text it began from.
LEMMA OneRunIs == ASSUME DocInv PROVE Saved!OneRun
<1>. SUFFICES ASSUME run.kind = "insert", run.deleted = 0
              PROVE  LET before == Saved!Top(undo).text
                         grown == Len(doc.text) - Len(before)
                         end == run.start + run.inserted
                     IN  /\ grown >= run.inserted
                         /\ doc.text = Saved!Slice(before, 0, end - grown)
                                       \o Saved!Slice(doc.text, end - grown, end)
                                       \o Saved!Slice(before, end - grown, Len(before))
  BY DEF Saved!OneRun
<1>1. PICK old : old = Saved!Top(undo).text
  OBVIOUS
<1>2. PICK now : now = doc.text
  OBVIOUS
<1>3. PICK e : e = run.start + run.inserted
  OBVIOUS
<1>4. undo # <<>> /\ undo \in Seq(Revision) /\ doc \in Revision /\ run \in Run
  <2>1. run # Saved!NoRun
    BY DEF Saved!NoRun
  <2>. QED  BY <2>1 DEF DocInv, DocGood, DocTyped
<1>5. Saved!Top(undo) = undo[Len(undo)] /\ undo[Len(undo)] \in Revision
  BY <1>4, PoppedIs
<1>6. old \in Seq(Chars) /\ now \in Seq(Chars)
  BY <1>1, <1>2, <1>4, <1>5, Numbered
<1>7. PICK n \in Nat : run.inserted <= n /\ Grew(old, now, e, n)
  BY <1>1, <1>2, <1>3, <1>5 DEF DocInv, DocGood, Joined, Typing
<1>8. /\ Len(now) - Len(old) = n
      /\ now = Saved!Slice(old, 0, e - n) \o Saved!Slice(now, e - n, e)
               \o Saved!Slice(old, e - n, Len(old))
  BY <1>6, <1>7, GrewIs
<1>9. run.inserted \in Nat
  BY <1>4 DEF Run
<1>10. n >= run.inserted
  BY <1>7, <1>9
<1>. QED  BY <1>1, <1>2, <1>3, <1>8, <1>10

\* In every order of edits, undos, redos and saves the snapshots stand in the order
\* of their edits, the revision that calls itself clean is the one on disk, and a
\* run of typing is one stretch (editor_document.c:141-147, 297-338, 455-516).
THEOREM HistoryHolds == Saved!Spec => []Saved!DocumentLaws
<1>1. DocInv => Saved!DocumentLaws
  BY InOrder, CleanIs, OneRunIs DEF Saved!DocumentLaws
<1>2. DocInv /\ [Saved!Next]_(Saved!vars) => DocInv'
  BY DocStep
<1>. QED  BY <1>1, <1>2, DocInit, PTL DEF Saved!Spec

----------------------------------------------------------------------------
(* What is remembered of the lines, for any lines, lengths and folds       *)

CONSTANTS MaxLines, MaxLength, MaxFolds, WrapWidth
VARIABLES lines, cache, folds, stale

Rows == INSTANCE LineCache

Entry(x) == x = [tokens |-> x.tokens, fold |-> x.fold]

\* What entry c of a line says is so, unless it is known to be old.
True(ls, c, old, i) ==
  /\ Entry(c[i])
  /\ c[i].tokens \subseteq {SubSeq(ls, 1, i)}
  /\ i \notin old => c[i].fold \subseteq {Rows!Region(ls, i)}

Remembers(ls, c, old) ==
  /\ ls \in Seq(Nat) /\ DOMAIN c = 1 .. Len(ls)
  /\ \A i \in 1 .. Len(ls) : True(ls, c, old, i)

CacheInv == Remembers(lines, cache, stale)

\* Two texts have their first m lines in common.
Agree(old, new, m) ==
  m \in Nat /\ m <= Len(old) /\ m <= Len(new) /\ \A i \in 1 .. m : old[i] = new[i]

\* The less-than relation of the naturals, as a set of pairs.
NatLess == {p \in Nat \X Nat : p[1] < p[2]}

\* A non-empty set of naturals has a least element.
LEMMA LeastExists ==
  ASSUME NEW S \in SUBSET Nat, S # {}
  PROVE  \E s \in S : \A t \in S : s <= t
<1>1. IsWellFoundedOn(NatLess, Nat)
  <2>1. OpToRel(<, Nat) = NatLess
    BY DEF OpToRel, NatLess
  <2>. QED  BY <2>1, NatLessThanWellFounded
<1>2. PICK s \in S : \A t \in S : ~(<<t, s>> \in NatLess)
  BY <1>1, WFMin, Zenon
<1>3. ASSUME NEW t \in S PROVE s <= t
  <2>1. t \in Nat /\ s \in Nat /\ <<t, s>> \notin NatLess
    BY <1>2
  <2>2. ~(t < s)
    BY <2>1 DEF NatLess
  <2>. QED  BY <2>1, <2>2
<1>. QED  BY <1>3

\* One of bounded naturals is the greatest.
LEMMA GreatestExists ==
  ASSUME NEW n \in Nat, NEW S \in SUBSET (0 .. n), S # {}
  PROVE  \E s \in S : \A t \in S : s >= t
<1>1. PICK R : R = {n - s : s \in S}
  OBVIOUS
<1>2. R \in SUBSET Nat /\ R # {}
  <2>1. \A s \in S : n - s \in Nat
    OBVIOUS
  <2>. QED  BY <1>1, <2>1
<1>3. PICK r \in R : \A t \in R : r <= t
  BY <1>2, LeastExists
<1>4. PICK s \in S : r = n - s
  BY <1>1, <1>3
<1>5. ASSUME NEW t \in S PROVE s >= t
  <2>1. n - t \in R
    BY <1>1
  <2>2. r <= n - t
    BY <1>3, <2>1
  <2>. QED  BY <1>4, <2>2
<1>. QED  BY <1>5

\* Above the first line that is not the same all lines are.
LEMMA AboveTheSame ==
  ASSUME NEW old \in Seq(Nat), NEW new \in Seq(Nat), NEW f, f = Rows!FirstDirty(old, new)
  PROVE  \E m \in Nat : Agree(old, new, m) /\ f \in Nat /\ f <= m + 1
<1>1. Len(old) \in Nat /\ Len(new) \in Nat
  OBVIOUS
<1>2. CASE old = new
  <2>1. f = Len(new) + 1
    BY <1>2 DEF Rows!FirstDirty
  <2>2. Agree(old, new, Len(new))
    BY <1>1, <1>2 DEF Agree
  <2>. QED  BY <1>1, <2>1, <2>2
<1>3. CASE old # new
  <2>1. PICK S : S = {k \in 0 .. Len(old) : k <= Len(new) /\ \A i \in 1 .. k : old[i] = new[i]}
    OBVIOUS
  <2>2. S \in SUBSET (0 .. Len(old)) /\ 0 \in S
    BY <1>1, <2>1
  <2>3. \E s \in S : \A t \in S : s >= t
    BY <1>1, <2>2, GreatestExists
  <2>4. PICK m : m = Rows!Max(S)
    OBVIOUS
  <2>5. m \in S
    BY <2>3, <2>4 DEF Rows!Max
  <2>6. Agree(old, new, m)
    BY <1>1, <2>1, <2>5 DEF Agree
  <2>7. f = IF m \in {Len(old), Len(new)} THEN m ELSE m + 1
    BY <1>3, <2>1, <2>4 DEF Rows!FirstDirty
  <2>8. m \in Nat
    BY <2>6 DEF Agree
  <2>. QED  BY <2>6, <2>7, <2>8
<1>. QED  BY <1>2, <1>3

\* The line that ended a region is a line or one past the last.
LEMMA ReachIs ==
  ASSUME NEW ls \in Seq(Nat), NEW i \in 1 .. Len(ls)
  PROVE  Rows!Reach(ls, i) \in Nat
<1>1. Len(ls) \in Nat /\ i \in Nat
  OBVIOUS
<1>2. CASE Rows!Stops(ls, i) = {}
  BY <1>1, <1>2 DEF Rows!Reach, Rows!Stop
<1>3. CASE Rows!Stops(ls, i) # {}
  <2>1. PICK S : S = Rows!Stops(ls, i)
    OBVIOUS
  <2>2. S \in SUBSET Nat
    BY <1>1, <2>1 DEF Rows!Stops
  <2>3. \E x \in S : \A j \in S : x <= j
    BY <1>3, <2>1, <2>2, LeastExists
  <2>4. Rows!Min(S) \in Nat
    BY <2>2, <2>3 DEF Rows!Min
  <2>. QED  BY <1>1, <1>3, <2>1, <2>4 DEF Rows!Reach, Rows!Stop
<1>. QED  BY <1>2, <1>3

\* A region is that of the lines up to the one that ended it.
LEMMA RegionKept ==
  ASSUME NEW old \in Seq(Nat), NEW new \in Seq(Nat), NEW m, Agree(old, new, m),
         NEW i \in 1 .. m, Rows!Reach(old, i) <= m
  PROVE  Rows!Region(new, i) = Rows!Region(old, i)
<1>1. m \in Nat /\ m <= Len(old) /\ m <= Len(new) /\ Len(old) \in Nat /\ Len(new) \in Nat
  BY DEF Agree
<1>2. i \in Nat /\ i >= 1 /\ i <= m /\ old[i] = new[i]
  BY <1>1 DEF Agree
<1>3. CASE old[i] = 0
  BY <1>2, <1>3 DEF Rows!Region
<1>4. CASE old[i] # 0
  <2>1. PICK s : s = Rows!Stop(old, i)
    OBVIOUS
  <2>2. s <= m
    BY <1>4, <2>1 DEF Rows!Reach
  <2>3. PICK O : O = Rows!Stops(old, i)
    OBVIOUS
  <2>4. PICK N : N = Rows!Stops(new, i)
    OBVIOUS
  <2>5. \A j : j \in O <=> j \in i + 1 .. Len(old) /\ old[j] # 0 /\ old[j] <= old[i]
    BY <2>3 DEF Rows!Stops
  <2>6. \A j : j \in N <=> j \in i + 1 .. Len(new) /\ new[j] # 0 /\ new[j] <= new[i]
    BY <2>4 DEF Rows!Stops
  <2>7. O # {}
    <3>1. ~(Len(old) + 1 <= m)
      BY <1>1
    <3>. QED  BY <2>1, <2>2, <2>3, <3>1 DEF Rows!Stop
  <2>8. s \in O /\ \A j \in O : s <= j
    <3>1. s = Rows!Min(O)
      BY <2>1, <2>3, <2>7 DEF Rows!Stop
    <3>2. O \in SUBSET Nat
      BY <1>1, <1>2, <2>5
    <3>3. \E x \in O : \A j \in O : x <= j
      BY <2>7, <3>2, LeastExists
    <3>. QED  BY <3>1, <3>3 DEF Rows!Min
  <2>9. s \in i + 1 .. m /\ s \in Nat
    BY <1>1, <1>2, <2>2, <2>5, <2>8
  <2>10. \A j \in i + 1 .. s : /\ old[j] = new[j]
                               /\ j \in i + 1 .. Len(old) /\ j \in i + 1 .. Len(new)
    <3>1. ASSUME NEW j \in i + 1 .. s
          PROVE  j \in 1 .. m /\ j \in i + 1 .. Len(old) /\ j \in i + 1 .. Len(new)
      BY <1>1, <1>2, <2>9
    <3>. QED  BY <3>1 DEF Agree
  <2>11. s \in N
    <3>1. s \in i + 1 .. s
      BY <1>2, <2>9
    <3>. QED  BY <1>2, <2>5, <2>6, <2>8, <2>10, <3>1
  <2>12. ASSUME NEW j \in N PROVE s <= j
    <3>1. ASSUME ~(s <= j) PROVE FALSE
      <4>1. j \in i + 1 .. s
        BY <1>1, <1>2, <2>6, <2>9, <2>12, <3>1
      <4>2. j \in O
        BY <1>2, <2>5, <2>6, <2>10, <2>12, <4>1
      <4>. QED  BY <2>8, <3>1, <4>2
    <3>. QED  BY <3>1
  <2>13. Rows!Stop(new, i) = s
    <3>1. N # {} /\ N \in SUBSET Nat
      <4>1. \A j \in i + 1 .. Len(new) : j \in Nat
        BY <1>1, <1>2
      <4>2. \A j \in N : j \in Nat
        BY <2>6, <4>1
      <4>. QED  BY <2>11, <4>2
    <3>2. PICK x : x = Rows!Min(N)
      OBVIOUS
    <3>3. x \in N /\ \A j \in N : x <= j
      BY <2>11, <2>12, <3>2 DEF Rows!Min
    <3>4. x = s
      BY <2>9, <2>11, <2>12, <3>1, <3>3
    <3>. QED  BY <2>4, <3>1, <3>2, <3>4 DEF Rows!Stop
  <2>14. \A j : j \in Rows!Body(old, i) /\ j < s <=> j \in Rows!Body(new, i) /\ j < s
    <3>1. \A j : j \in i + 1 .. Len(old) /\ j < s => j \in i + 1 .. s
      BY <1>1, <1>2, <2>9
    <3>2. \A j : j \in i + 1 .. Len(new) /\ j < s => j \in i + 1 .. s
      BY <1>1, <1>2, <2>9
    <3>. QED  BY <1>2, <2>10, <3>1, <3>2 DEF Rows!Body
  <2>15. (\E j \in Rows!Body(old, i) : j < s) <=> (\E j \in Rows!Body(new, i) : j < s)
    BY <2>14
  <2>. QED  BY <1>2, <2>1, <2>13, <2>15 DEF Rows!Region
<1>. QED  BY <1>3, <1>4

\* What an edit keeps of the lines above it still holds.
LEMMA LinesEdited ==
  ASSUME CacheInv, NEW new \in Seq(Nat), Rows!Edit(new)
  PROVE  CacheInv'
<1>1. PICK old : old = lines
  OBVIOUS
<1>2. PICK c : c = cache
  OBVIOUS
<1>3. PICK st : st = stale
  OBVIOUS
<1>4. PICK f : f = Rows!FirstDirty(old, new)
  OBVIOUS
<1>5. /\ old \in Seq(Nat) /\ DOMAIN c = 1 .. Len(old)
      /\ \A i \in 1 .. Len(old) : True(old, c, st, i)
  BY <1>1, <1>2, <1>3 DEF CacheInv, Remembers
<1>6. PICK m \in Nat : Agree(old, new, m) /\ f \in Nat /\ f <= m + 1
  BY <1>4, <1>5, AboveTheSame
<1>7. PICK d : d = cache'
  OBVIOUS
<1>8. PICK su : su = stale'
  OBVIOUS
<1>9. /\ lines' = new
      /\ d = [i \in 1 .. Len(new) |-> IF Rows!Kept(old, new, i) THEN c[i] ELSE Rows!Fresh]
      /\ su = {i \in 1 .. Len(new) : /\ Rows!Kept(old, new, i) /\ c[i].fold # {}
                                     /\ i \in st \/ f <= Rows!Reach(old, i)}
  BY <1>1, <1>2, <1>3, <1>4, <1>7, <1>8 DEF Rows!Edit
<1>10. m <= Len(old) /\ m <= Len(new) /\ Len(old) \in Nat /\ Len(new) \in Nat
  BY <1>5, <1>6 DEF Agree
<1>11. ASSUME NEW i \in 1 .. Len(new) PROVE True(new, d, su, i)
  <2>1. CASE ~Rows!Kept(old, new, i)
    <3>1. d[i] = Rows!Fresh
      BY <1>9, <2>1
    <3>2. Entry(d[i]) /\ d[i].tokens = {} /\ d[i].fold = {}
      BY <3>1 DEF Entry, Rows!Fresh
    <3>. QED  BY <3>2 DEF True
  <2>2. CASE Rows!Kept(old, new, i)
    <3>1. i <= Len(old) /\ i < f /\ i \in Nat /\ i >= 1
      BY <1>4, <1>10, <2>2 DEF Rows!Kept
    <3>2. i \in 1 .. m /\ i \in 1 .. Len(old)
      BY <1>6, <1>10, <3>1
    <3>3. d[i] = c[i] /\ True(old, c, st, i)
      BY <1>5, <1>9, <2>2, <3>2
    <3>4. SubSeq(new, 1, i) = SubSeq(old, 1, i)
      <4>1. PICK a : a = SubSeq(old, 1, i)
        OBVIOUS
      <4>2. PICK b : b = SubSeq(new, 1, i)
        OBVIOUS
      <4>3. a \in Seq(Nat) /\ Len(a) = i /\ \A j \in 1 .. i : a[j] = old[j]
        BY <1>5, <1>10, <3>1, <4>1
      <4>4. b \in Seq(Nat) /\ Len(b) = i /\ \A j \in 1 .. i : b[j] = new[j]
        BY <1>6, <1>10, <3>1, <3>2, <4>2
      <4>5. \A j \in 1 .. i : old[j] = new[j]
        <5>1. \A j \in 1 .. i : j \in 1 .. m
          BY <1>10, <3>2
        <5>. QED  BY <1>6, <5>1 DEF Agree
      <4>6. a = b
        BY <4>3, <4>4, <4>5, SeqEqual
      <4>. QED  BY <4>1, <4>2, <4>6
    <3>5. ASSUME i \notin su PROVE d[i].fold \subseteq {Rows!Region(new, i)}
      <4>1. CASE c[i].fold = {}
        BY <3>3, <4>1
      <4>2. CASE c[i].fold # {}
        <5>1. i \notin st /\ ~(f <= Rows!Reach(old, i))
          BY <1>9, <2>2, <3>5, <4>2
        <5>2. Rows!Reach(old, i) \in Nat
          BY <1>5, <3>2, ReachIs
        <5>3. Rows!Reach(old, i) <= m
          BY <1>6, <5>1, <5>2
        <5>4. Rows!Region(new, i) = Rows!Region(old, i)
          BY <1>5, <1>6, <3>2, <5>3, RegionKept
        <5>. QED  BY <3>3, <5>1, <5>4 DEF True
      <4>. QED  BY <4>1, <4>2
    <3>6. Entry(d[i]) /\ d[i].tokens \subseteq {SubSeq(new, 1, i)}
      BY <3>3, <3>4 DEF True
    <3>. QED  BY <3>5, <3>6 DEF True
  <2>. QED  BY <2>1, <2>2
<1>12. DOMAIN d = 1 .. Len(new)
  BY <1>9
<1>13. Remembers(new, d, su)
  BY <1>11, <1>12 DEF Remembers
<1>. QED  BY <1>7, <1>8, <1>9, <1>13 DEF CacheInv

\* One entry is worked out, and is right.
LEMMA EntrySet ==
  ASSUME CacheInv, NEW i \in Rows!Lines, NEW x, Entry(x),
         x.tokens \subseteq {SubSeq(lines, 1, i)},
         i \notin stale => x.fold \subseteq {Rows!Region(lines, i)},
         NEW d, d = [cache EXCEPT ![i] = x]
  PROVE  Remembers(lines, d, stale)
<1>1. /\ lines \in Seq(Nat) /\ DOMAIN cache = 1 .. Len(lines)
      /\ \A j \in 1 .. Len(lines) : True(lines, cache, stale, j)
  BY DEF CacheInv, Remembers
<1>2. DOMAIN d = 1 .. Len(lines) /\ \A j \in 1 .. Len(lines) : d[j] = IF j = i THEN x ELSE cache[j]
  BY <1>1
<1>3. ASSUME NEW j \in 1 .. Len(lines) PROVE True(lines, d, stale, j)
  <2>1. CASE j = i
    <3>1. d[j] = x
      BY <1>2, <2>1
    <3>. QED  BY <2>1, <3>1 DEF True
  <2>2. CASE j # i
    <3>1. d[j] = cache[j]
      BY <1>2, <2>2
    <3>. QED  BY <1>1, <3>1 DEF True
  <2>. QED  BY <2>1, <2>2
<1>. QED  BY <1>1, <1>2, <1>3 DEF Remembers

\* The entry of a line is a record, and a field of it is set without the other.
LEMMA EntryIs ==
  ASSUME CacheInv, NEW i \in Rows!Lines
  PROVE  /\ True(lines, cache, stale, i)
         /\ \A v : [cache EXCEPT ![i].tokens = v] =
                     [cache EXCEPT ![i] = [tokens |-> v, fold |-> cache[i].fold]]
         /\ \A v : [cache EXCEPT ![i].fold = v] =
                     [cache EXCEPT ![i] = [tokens |-> cache[i].tokens, fold |-> v]]
<1>1. i \in 1 .. Len(lines) /\ True(lines, cache, stale, i)
  BY DEF CacheInv, Remembers, Rows!Lines
<1>2. PICK x : x = cache[i]
  OBVIOUS
<1>3. x = [tokens |-> x.tokens, fold |-> x.fold]
  BY <1>1, <1>2 DEF True, Entry
<1>4. ASSUME NEW v PROVE [x EXCEPT !.tokens = v] = [tokens |-> v, fold |-> x.fold]
  BY <1>3
<1>5. ASSUME NEW v PROVE [x EXCEPT !.fold = v] = [tokens |-> x.tokens, fold |-> v]
  BY <1>3
<1>6. \A v : [cache EXCEPT ![i].tokens = v] = [cache EXCEPT ![i] = [x EXCEPT !.tokens = v]]
  BY <1>2
<1>7. \A v : [cache EXCEPT ![i].fold = v] = [cache EXCEPT ![i] = [x EXCEPT !.fold = v]]
  BY <1>2
<1>. QED  BY <1>1, <1>2, <1>4, <1>5, <1>6, <1>7

LEMMA TokensKeep == ASSUME CacheInv, NEW i \in Rows!Lines, Rows!Tokens(i) PROVE CacheInv'
<1>1. PICK t : t = IF cache[i].tokens = {} THEN {SubSeq(lines, 1, i)} ELSE cache[i].tokens
  OBVIOUS
<1>2. PICK x : x = [tokens |-> t, fold |-> cache[i].fold]
  OBVIOUS
<1>3. cache' = [cache EXCEPT ![i] = x] /\ lines' = lines /\ stale' = stale
  <2>1. cache' = [cache EXCEPT ![i].tokens = t]
    BY <1>1 DEF Rows!Tokens
  <2>. QED  BY <1>2, <2>1, EntryIs DEF Rows!Tokens
<1>4. True(lines, cache, stale, i)
  BY EntryIs
<1>5. Entry(x) /\ x.tokens = t /\ x.fold = cache[i].fold
  BY <1>2 DEF Entry
<1>6. t \subseteq {SubSeq(lines, 1, i)}
  BY <1>1, <1>4 DEF True
<1>7. i \notin stale => x.fold \subseteq {Rows!Region(lines, i)}
  BY <1>4, <1>5 DEF True
<1>8. PICK d : d = [cache EXCEPT ![i] = x]
  OBVIOUS
<1>9. Remembers(lines, d, stale)
  BY <1>5, <1>6, <1>7, <1>8, EntrySet
<1>. QED  BY <1>3, <1>8, <1>9 DEF CacheInv

LEMMA FoldKeeps == ASSUME CacheInv, NEW i \in Rows!Lines, Rows!Fold(i) PROVE CacheInv'
<1>1. PICK v : v = Rows!FoldOf(i)
  OBVIOUS
<1>2. PICK x : x = [tokens |-> cache[i].tokens, fold |-> {v}]
  OBVIOUS
<1>3. cache' = [cache EXCEPT ![i] = x] /\ lines' = lines /\ stale' = stale
  <2>1. cache' = [cache EXCEPT ![i].fold = {v}]
    BY <1>1 DEF Rows!Fold, Rows!LookUp
  <2>. QED  BY <1>2, <2>1, EntryIs DEF Rows!Fold
<1>4. True(lines, cache, stale, i)
  BY EntryIs
<1>5. Entry(x) /\ x.tokens = cache[i].tokens /\ x.fold = {v}
  BY <1>2 DEF Entry
<1>6. x.tokens \subseteq {SubSeq(lines, 1, i)}
  BY <1>4, <1>5 DEF True
<1>7. ASSUME i \notin stale PROVE v = Rows!Region(lines, i)
  <2>1. CASE cache[i].fold = {}
    BY <1>1, <2>1 DEF Rows!FoldOf
  <2>2. CASE cache[i].fold # {}
    <3>1. cache[i].fold = {Rows!Region(lines, i)}
      BY <1>4, <1>7, <2>2 DEF True
    <3>2. v \in cache[i].fold
      BY <1>1, <2>2 DEF Rows!FoldOf
    <3>. QED  BY <3>1, <3>2
  <2>. QED  BY <2>1, <2>2
<1>8. PICK d : d = [cache EXCEPT ![i] = x]
  OBVIOUS
<1>9. Remembers(lines, d, stale)
  BY <1>5, <1>6, <1>7, <1>8, EntrySet
<1>. QED  BY <1>3, <1>8, <1>9 DEF CacheInv

\* An edit changes, adds or takes out a line.
LEMMA EditedLines ==
  ASSUME NEW ls \in Seq(Nat), NEW i \in 1 .. Len(ls), NEW n \in 0 .. MaxLength
  PROVE  /\ [ls EXCEPT ![i] = n] \in Seq(Nat)
         /\ SubSeq(ls, 1, i) \o <<n>> \o SubSeq(ls, i + 1, Len(ls)) \in Seq(Nat)
         /\ SubSeq(ls, 1, i - 1) \o SubSeq(ls, i + 1, Len(ls)) \in Seq(Nat)
<1>1. n \in Nat /\ i \in Nat /\ i >= 1 /\ i <= Len(ls) /\ Len(ls) \in Nat
  OBVIOUS
<1>2. [ls EXCEPT ![i] = n] \in Seq(Nat)
  BY <1>1
<1>3. SubSeq(ls, 1, i) \in Seq(Nat) /\ SubSeq(ls, 1, i - 1) \in Seq(Nat)
  BY <1>1
<1>4. SubSeq(ls, i + 1, Len(ls)) \in Seq(Nat)
  BY <1>1
<1>5. <<n>> \in Seq(Nat)
  BY <1>1
<1>6. \A p, q \in Seq(Nat) : p \o q \in Seq(Nat)
  OBVIOUS
<1>. QED  BY <1>2, <1>3, <1>4, <1>5, <1>6

LEMMA LinesInit == Rows!Init => CacheInv
<1>. SUFFICES ASSUME Rows!Init PROVE CacheInv
  OBVIOUS
<1>1. lines \in [1 .. 1 -> 0 .. MaxLength] /\ cache = <<Rows!Fresh>> /\ stale = {}
  BY DEF Rows!Init
<1>2. lines \in Seq(Nat) /\ Len(lines) = 1
  <2>1. \A n \in 0 .. MaxLength : n \in Nat
    OBVIOUS
  <2>2. PICK one \in Nat : one = 1
    OBVIOUS
  <2>3. lines \in [1 .. one -> Nat] /\ DOMAIN lines = 1 .. one
    BY <1>1, <2>1, <2>2
  <2>4. lines \in Seq(Nat)
    BY <2>3
  <2>5. Len(lines) = one
    BY <2>2, <2>3, <2>4
  <2>. QED  BY <2>2, <2>4, <2>5
<1>3. DOMAIN cache = 1 .. 1 /\ cache[1] = Rows!Fresh
  BY <1>1
<1>4. Entry(Rows!Fresh) /\ Rows!Fresh.tokens = {} /\ Rows!Fresh.fold = {}
  BY DEF Entry, Rows!Fresh
<1>5. ASSUME NEW i \in 1 .. 1 PROVE True(lines, cache, stale, i)
  <2>1. cache[i] = Rows!Fresh
    BY <1>3
  <2>. QED  BY <1>4, <2>1 DEF True
<1>. QED  BY <1>2, <1>3, <1>5 DEF CacheInv, Remembers

LEMMA LinesStep == ASSUME CacheInv, [Rows!Next]_(Rows!vars) PROVE CacheInv'
<1>1. ASSUME lines' = lines, cache' = cache, stale' = stale PROVE CacheInv'
  BY <1>1 DEF CacheInv
<1>2. lines \in Seq(Nat) /\ Rows!Lines = 1 .. Len(lines)
  BY DEF CacheInv, Remembers, Rows!Lines
<1>3. ASSUME NEW i \in Rows!Lines, NEW n \in 0 .. MaxLength,
             \/ Rows!Edit([lines EXCEPT ![i] = n])
             \/ Rows!Edit(SubSeq(lines, 1, i) \o <<n>> \o SubSeq(lines, i + 1, Len(lines)))
      PROVE  CacheInv'
  <2>1. PICK new \in Seq(Nat) : Rows!Edit(new)
    BY <1>2, <1>3, EditedLines
  <2>. QED  BY <2>1, LinesEdited
<1>4. ASSUME NEW i \in Rows!Lines,
             Rows!Edit(SubSeq(lines, 1, i - 1) \o SubSeq(lines, i + 1, Len(lines)))
      PROVE  CacheInv'
  <2>1. PICK new : new = SubSeq(lines, 1, i - 1) \o SubSeq(lines, i + 1, Len(lines))
    OBVIOUS
  <2>2. new \in Seq(Nat)
    <3>1. i \in Nat /\ i >= 1 /\ i <= Len(lines) /\ Len(lines) \in Nat
      BY <1>2
    <3>2. SubSeq(lines, 1, i - 1) \in Seq(Nat) /\ SubSeq(lines, i + 1, Len(lines)) \in Seq(Nat)
      BY <1>2, <3>1
    <3>. QED  BY <2>1, <3>2
  <2>. QED  BY <1>4, <2>1, <2>2, LinesEdited
<1>5. ASSUME Rows!Relabel PROVE CacheInv'
  <2>1. PICK d : d = [i \in Rows!Lines |-> Rows!Fresh]
    OBVIOUS
  <2>2. cache' = d /\ stale' = {} /\ lines' = lines
    BY <1>5, <2>1 DEF Rows!Relabel
  <2>3. Entry(Rows!Fresh) /\ Rows!Fresh.tokens = {} /\ Rows!Fresh.fold = {}
    BY DEF Entry, Rows!Fresh
  <2>4. DOMAIN d = 1 .. Len(lines) /\ \A i \in 1 .. Len(lines) : d[i] = Rows!Fresh
    BY <1>2, <2>1
  <2>5. \A i \in 1 .. Len(lines) : True(lines, d, {}, i)
    BY <2>3, <2>4 DEF True
  <2>6. Remembers(lines, d, {})
    BY <1>2, <2>4, <2>5 DEF Remembers
  <2>. QED  BY <2>2, <2>6 DEF CacheInv
<1>6. ASSUME NEW i \in Rows!Lines, Rows!Unfold(i) \/ Rows!MoveCaret(i) PROVE CacheInv'
  BY <1>1, <1>6 DEF Rows!Unfold, Rows!MoveCaret
<1>7. ASSUME Rows!Next PROVE CacheInv'
  BY <1>3, <1>4, <1>5, <1>6, <1>7, TokensKeep, FoldKeeps DEF Rows!Next
<1>8. CASE UNCHANGED Rows!vars
  BY <1>1, <1>8 DEF Rows!vars
<1>. QED  BY <1>7, <1>8

\* What the editor remembers of a line is what it would find now, in every order of
\* edits, draws and folds (editor_line_cache.c:23-41, 144-199).
THEOREM LinesStayFresh == Rows!Spec => []Rows!CacheFresh
<1>1. CacheInv => Rows!CacheFresh
  BY DEF CacheInv, Remembers, True, Rows!CacheFresh, Rows!Lines
<1>2. CacheInv /\ [Rows!Next]_(Rows!vars) => CacheInv'
  BY LinesStep
<1>. QED  BY <1>1, <1>2, LinesInit, PTL DEF Rows!Spec

----------------------------------------------------------------------------
(* The folds and the rows that are shown                                   *)

\* There may be lines, and characters fit in a row.
Roomy == MaxLines \in Nat \ {0} /\ WrapWidth \in Nat \ {0}

\* What was found for a line, old or not, begins at that line.
Headed(c, i) == \A r \in c[i].fold : r # Rows!None => r[1] = i

\* A fold is the region of a line, unless it is known to be old.
FoldTrue(ls, old, f) ==
  f[1] \notin old => f[1] \in 1 .. Len(ls) /\ f = Rows!Region(ls, f[1]) /\ f # Rows!None

FoldInv ==
  /\ Len(lines) \in 1 .. MaxLines
  /\ \A i \in 1 .. Len(lines) : Headed(cache, i)
  /\ \A f \in folds : FoldTrue(lines, stale, f)

RegionInv == CacheInv /\ FoldInv

\* An edit makes a line more, or one less, or neither.
LEMMA EditedLength ==
  ASSUME NEW ls \in Seq(Nat), NEW i \in 1 .. Len(ls), NEW n \in Nat
  PROVE  /\ Len([ls EXCEPT ![i] = n]) = Len(ls)
         /\ Len(SubSeq(ls, 1, i) \o <<n>> \o SubSeq(ls, i + 1, Len(ls))) = Len(ls) + 1
         /\ Len(SubSeq(ls, 1, i - 1) \o SubSeq(ls, i + 1, Len(ls))) = Len(ls) - 1
<1>1. i \in Nat /\ i >= 1 /\ i <= Len(ls) /\ Len(ls) \in Nat
  OBVIOUS
<1>2. PICK p : p = SubSeq(ls, 1, i)
  OBVIOUS
<1>3. PICK q : q = SubSeq(ls, i + 1, Len(ls))
  OBVIOUS
<1>4. PICK r : r = SubSeq(ls, 1, i - 1)
  OBVIOUS
<1>5. p \in Seq(Nat) /\ Len(p) = i
  BY <1>1, <1>2
<1>6. q \in Seq(Nat) /\ Len(q) = Len(ls) - i
  BY <1>1, <1>3
<1>7. r \in Seq(Nat) /\ Len(r) = i - 1
  BY <1>1, <1>4
<1>8. \A u, w \in Seq(Nat) : u \o w \in Seq(Nat) /\ Len(u \o w) = Len(u) + Len(w)
  OBVIOUS
<1>9. /\ Len(p \o <<n>> \o q) = Len(ls) + 1
      /\ Len(r \o q) = Len(ls) - 1
  <2>1. PICK u : u = <<n>>
    OBVIOUS
  <2>2. u \in Seq(Nat) /\ Len(u) = 1
    BY <2>1
  <2>3. PICK w : w = p \o u
    OBVIOUS
  <2>4. w \in Seq(Nat) /\ Len(w) = i + 1
    BY <1>5, <1>8, <2>2, <2>3
  <2>5. Len(w \o q) = Len(ls) + 1
    <3>1. Len(w \o q) = Len(w) + Len(q)
      BY <1>6, <1>8, <2>4
    <3>. QED  BY <1>1, <1>6, <2>4, <3>1
  <2>6. Len(r \o q) = Len(ls) - 1
    <3>1. Len(r \o q) = Len(r) + Len(q)
      BY <1>6, <1>7, <1>8
    <3>. QED  BY <1>1, <1>6, <1>7, <3>1
  <2>. QED  BY <2>1, <2>3, <2>5, <2>6
<1>10. Len([ls EXCEPT ![i] = n]) = Len(ls)
  BY <1>1
<1>. QED  BY <1>2, <1>3, <1>4, <1>9, <1>10

LEMMA FoldsEdited ==
  ASSUME RegionInv, NEW new \in Seq(Nat), Len(new) \in 1 .. MaxLines, Rows!Edit(new)
  PROVE  RegionInv'
<1>1. CacheInv'
  BY LinesEdited DEF RegionInv
<1>2. lines' = new /\ folds' = {}
  BY DEF Rows!Edit
<1>3. PICK old : old = lines
  OBVIOUS
<1>4. PICK c : c = cache
  OBVIOUS
<1>5. PICK d : d = [i \in 1 .. Len(new) |-> IF Rows!Kept(old, new, i) THEN c[i] ELSE Rows!Fresh]
  OBVIOUS
<1>6. cache' = d
  BY <1>3, <1>4, <1>5 DEF Rows!Edit
<1>7. ASSUME NEW i \in 1 .. Len(new) PROVE Headed(d, i)
  <2>1. CASE Rows!Kept(old, new, i)
    <3>1. d[i] = c[i]
      BY <1>5, <2>1
    <3>2. i \in 1 .. Len(lines)
      BY <1>3, <2>1 DEF Rows!Kept, RegionInv, CacheInv, Remembers
    <3>3. Headed(c, i)
      BY <1>4, <3>2 DEF RegionInv, FoldInv
    <3>. QED  BY <3>1, <3>3 DEF Headed
  <2>2. CASE ~Rows!Kept(old, new, i)
    <3>1. d[i] = Rows!Fresh
      BY <1>5, <2>2
    <3>. QED  BY <3>1 DEF Headed, Rows!Fresh
  <2>. QED  BY <2>1, <2>2
<1>. QED  BY <1>1, <1>2, <1>6, <1>7 DEF RegionInv, FoldInv

\* What is found for a line begins at it, and is right if nothing old was kept for it.
LEMMA FoldOfIs ==
  ASSUME RegionInv, NEW i \in Rows!Lines, NEW v, v = Rows!FoldOf(i)
  PROVE  /\ v # Rows!None => v[1] = i
         /\ i \notin stale => v = Rows!Region(lines, i)
<1>1. i \in 1 .. Len(lines) /\ True(lines, cache, stale, i) /\ Headed(cache, i)
  BY DEF RegionInv, CacheInv, FoldInv, Remembers, Rows!Lines
<1>2. CASE cache[i].fold = {}
  <2>1. v = Rows!Region(lines, i)
    BY <1>2 DEF Rows!FoldOf
  <2>2. v # Rows!None => v[1] = i
    BY <2>1 DEF Rows!Region
  <2>. QED  BY <2>1, <2>2
<1>3. CASE cache[i].fold # {}
  <2>1. v \in cache[i].fold
    BY <1>3 DEF Rows!FoldOf
  <2>. QED  BY <1>1, <2>1 DEF Headed, True
<1>. QED  BY <1>2, <1>3

LEMMA FoldsFold == ASSUME RegionInv, NEW i \in Rows!Lines, Rows!Fold(i) PROVE RegionInv'
<1>1. CacheInv'
  BY FoldKeeps DEF RegionInv
<1>2. PICK v : v = Rows!FoldOf(i)
  OBVIOUS
<1>3. /\ v # Rows!None => v[1] = i
      /\ i \notin stale => v = Rows!Region(lines, i)
  BY <1>2, FoldOfIs
<1>4. lines' = lines /\ stale' = stale
  BY DEF Rows!Fold
<1>5. \A f \in folds' : f \in folds \/ (f = v /\ v # Rows!None)
  BY <1>2 DEF Rows!Fold
<1>6. PICK d : d = [cache EXCEPT ![i].fold = {v}]
  OBVIOUS
<1>7. cache' = d
  BY <1>2, <1>6 DEF Rows!Fold, Rows!LookUp
<1>8. i \in 1 .. Len(lines) /\ DOMAIN cache = 1 .. Len(lines)
  BY DEF RegionInv, CacheInv, Remembers, Rows!Lines
<1>9. ASSUME NEW j \in 1 .. Len(lines) PROVE Headed(d, j)
  <2>1. CASE j = i
    <3>1. PICK x : x = [tokens |-> cache[i].tokens, fold |-> {v}]
      OBVIOUS
    <3>2. d = [cache EXCEPT ![i] = x]
      BY <1>6, <3>1, EntryIs DEF RegionInv
    <3>3. d[j] = x
      BY <1>8, <2>1, <3>2
    <3>4. x.fold = {v}
      BY <3>1
    <3>. QED  BY <1>3, <2>1, <3>3, <3>4 DEF Headed
  <2>2. CASE j # i
    <3>1. d[j] = cache[j]
      BY <1>6, <1>8, <2>2
    <3>. QED  BY <3>1 DEF Headed, RegionInv, FoldInv
  <2>. QED  BY <2>1, <2>2
<1>10. ASSUME NEW f \in folds' PROVE FoldTrue(lines, stale, f)
  <2>1. CASE f \in folds
    BY <2>1 DEF RegionInv, FoldInv
  <2>2. CASE f = v /\ v # Rows!None
    BY <1>3, <1>8, <2>2 DEF FoldTrue
  <2>. QED  BY <1>5, <2>1, <2>2
<1>. QED  BY <1>1, <1>4, <1>7, <1>9, <1>10 DEF RegionInv, FoldInv

LEMMA FoldsInit == ASSUME Roomy, Rows!Init PROVE RegionInv
<1>1. CacheInv
  BY LinesInit
<1>2. Len(lines) = 1
  <2>1. DOMAIN lines = 1 .. 1
    BY DEF Rows!Init
  <2>. QED  BY <1>1, <2>1 DEF CacheInv, Remembers
<1>3. cache = <<Rows!Fresh>> /\ folds = {}
  BY DEF Rows!Init
<1>4. cache[1] = Rows!Fresh
  BY <1>3
<1>5. Headed(cache, 1)
  BY <1>4 DEF Headed, Rows!Fresh
<1>. QED  BY <1>1, <1>2, <1>3, <1>5 DEF RegionInv, FoldInv, Roomy

LEMMA FoldsStep ==
  ASSUME Roomy, RegionInv, [Rows!Next]_(Rows!vars) PROVE RegionInv'
<1>1. /\ lines \in Seq(Nat) /\ Rows!Lines = 1 .. Len(lines)
      /\ Len(lines) \in 1 .. MaxLines /\ DOMAIN cache = 1 .. Len(lines)
  BY DEF RegionInv, CacheInv, FoldInv, Remembers, Rows!Lines
<1>2. ASSUME lines' = lines, cache' = cache, stale' = stale, folds' \subseteq folds PROVE RegionInv'
  BY <1>2 DEF RegionInv, FoldInv, CacheInv
<1>3. ASSUME NEW i \in Rows!Lines, NEW n \in 0 .. MaxLength,
             \/ Rows!Edit([lines EXCEPT ![i] = n])
             \/ /\ Len(lines) < MaxLines
                /\ Rows!Edit(SubSeq(lines, 1, i) \o <<n>> \o SubSeq(lines, i + 1, Len(lines)))
      PROVE  RegionInv'
  <2>1. PICK a : a = [lines EXCEPT ![i] = n]
    OBVIOUS
  <2>2. PICK b : b = SubSeq(lines, 1, i) \o <<n>> \o SubSeq(lines, i + 1, Len(lines))
    OBVIOUS
  <2>3. a \in Seq(Nat) /\ b \in Seq(Nat)
    BY <1>1, <2>1, <2>2, EditedLines
  <2>4. Len(a) = Len(lines) /\ Len(b) = Len(lines) + 1
    <3>1. n \in Nat
      OBVIOUS
    <3>. QED  BY <1>1, <2>1, <2>2, <3>1, EditedLength
  <2>5. Len(a) \in 1 .. MaxLines
    BY <1>1, <2>4
  <2>6. Len(lines) < MaxLines => Len(b) \in 1 .. MaxLines
    BY <1>1, <2>4 DEF Roomy
  <2>7. Rows!Edit(a) \/ (Len(lines) < MaxLines /\ Rows!Edit(b))
    BY <1>3, <2>1, <2>2
  <2>. QED  BY <2>3, <2>5, <2>6, <2>7, FoldsEdited
<1>4. ASSUME NEW i \in Rows!Lines, Len(lines) > 1,
             Rows!Edit(SubSeq(lines, 1, i - 1) \o SubSeq(lines, i + 1, Len(lines)))
      PROVE  RegionInv'
  <2>1. PICK new : new = SubSeq(lines, 1, i - 1) \o SubSeq(lines, i + 1, Len(lines))
    OBVIOUS
  <2>2. new \in Seq(Nat)
    <3>1. i \in Nat /\ i >= 1 /\ i <= Len(lines) /\ Len(lines) \in Nat
      BY <1>1
    <3>2. SubSeq(lines, 1, i - 1) \in Seq(Nat) /\ SubSeq(lines, i + 1, Len(lines)) \in Seq(Nat)
      BY <1>1, <3>1
    <3>. QED  BY <2>1, <3>2
  <2>3. Len(new) = Len(lines) - 1
    <3>1. 0 \in Nat
      OBVIOUS
    <3>. QED  BY <1>1, <2>1, <3>1, EditedLength
  <2>4. Len(new) \in 1 .. MaxLines
    BY <1>1, <1>4, <2>3 DEF Roomy
  <2>. QED  BY <1>4, <2>1, <2>2, <2>4, FoldsEdited
<1>5. ASSUME Rows!Relabel PROVE RegionInv'
  <2>1. PICK d : d = [i \in Rows!Lines |-> Rows!Fresh]
    OBVIOUS
  <2>2. cache' = d /\ folds' = {} /\ lines' = lines
    BY <1>5, <2>1 DEF Rows!Relabel
  <2>3. ASSUME NEW i \in 1 .. Len(lines) PROVE Headed(d, i)
    <3>1. d[i] = Rows!Fresh
      BY <1>1, <2>1
    <3>. QED  BY <3>1 DEF Headed, Rows!Fresh
  <2>4. CacheInv'
    BY <1>5, LinesStep DEF Rows!Next, RegionInv
  <2>. QED  BY <1>1, <2>2, <2>3, <2>4 DEF RegionInv, FoldInv
<1>6. ASSUME NEW i \in Rows!Lines, Rows!Unfold(i) \/ Rows!MoveCaret(i) PROVE RegionInv'
  BY <1>2, <1>6 DEF Rows!Unfold, Rows!MoveCaret
<1>7. ASSUME NEW i \in Rows!Lines, Rows!Tokens(i) PROVE RegionInv'
  <2>1. CacheInv'
    BY <1>7, TokensKeep DEF RegionInv
  <2>2. lines' = lines /\ folds' = folds /\ stale' = stale
    BY <1>7 DEF Rows!Tokens
  <2>3. PICK t : t = IF cache[i].tokens = {} THEN {SubSeq(lines, 1, i)} ELSE cache[i].tokens
    OBVIOUS
  <2>4. PICK x : x = [tokens |-> t, fold |-> cache[i].fold]
    OBVIOUS
  <2>5. PICK d : d = [cache EXCEPT ![i] = x]
    OBVIOUS
  <2>6. cache' = d
    <3>1. cache' = [cache EXCEPT ![i].tokens = t]
      BY <1>7, <2>3 DEF Rows!Tokens
    <3>. QED  BY <2>4, <2>5, <3>1, EntryIs DEF RegionInv
  <2>7. x.fold = cache[i].fold
    BY <2>4
  <2>8. ASSUME NEW j \in 1 .. Len(lines) PROVE Headed(d, j)
    <3>1. d[j] = IF j = i THEN x ELSE cache[j]
      BY <1>1, <2>5
    <3>2. d[j].fold = cache[j].fold
      BY <2>7, <3>1
    <3>. QED  BY <3>2 DEF Headed, RegionInv, FoldInv
  <2>. QED  BY <2>1, <2>2, <2>6, <2>8 DEF RegionInv, FoldInv
<1>8. ASSUME Rows!Next PROVE RegionInv'
  BY <1>3, <1>4, <1>5, <1>6, <1>7, <1>8, FoldsFold DEF Rows!Next
<1>9. CASE UNCHANGED Rows!vars
  BY <1>2, <1>9 DEF Rows!vars
<1>. QED  BY <1>8, <1>9

\* Every fold is known to be right.
Sound == \A f \in folds : f[1] \notin stale

\* A header's region ends at the last line, or before one that is indented no more.
LEMMA StopIs ==
  ASSUME NEW ls \in Seq(Nat), NEW i \in 1 .. Len(ls), NEW s, s = Rows!Stop(ls, i)
  PROVE  /\ s \in i + 1 .. Len(ls) + 1
         /\ s <= Len(ls) => ls[s] # 0 /\ ls[s] <= ls[i]
         /\ \A j \in i + 1 .. Len(ls) : ls[j] # 0 /\ ls[j] <= ls[i] => s <= j
<1>1. i \in Nat /\ i >= 1 /\ i <= Len(ls) /\ Len(ls) \in Nat
  OBVIOUS
<1>2. PICK S : S = {j \in i + 1 .. Len(ls) : ls[j] # 0 /\ ls[j] <= ls[i]}
  OBVIOUS
<1>3. Rows!Stops(ls, i) = S
  BY <1>2 DEF Rows!Stops
<1>4. CASE S = {}
  <2>1. s = Len(ls) + 1
    BY <1>3, <1>4 DEF Rows!Stop
  <2>. QED  BY <1>1, <1>2, <1>4, <2>1
<1>5. CASE S # {}
  <2>1. S \in SUBSET Nat
    BY <1>1, <1>2
  <2>2. \E x \in S : \A j \in S : x <= j
    BY <1>5, <2>1, LeastExists
  <2>3. s = Rows!Min(S)
    BY <1>3, <1>5 DEF Rows!Stop
  <2>4. s \in S /\ \A j \in S : s <= j
    BY <2>2, <2>3 DEF Rows!Min
  <2>. QED  BY <1>1, <1>2, <2>4
<1>. QED  BY <1>4, <1>5

\* A fold and what it is made of.
IsFold(f, i, s) ==
  /\ i \in 1 .. Len(lines) /\ lines[i] # 0 /\ s = Rows!Stop(lines, i)
  /\ f = <<i, s - 1>> /\ f[1] = i /\ f[2] = s - 1
  /\ i + 1 < s /\ s \in Nat /\ s <= Len(lines) + 1

LEMMA FoldIs ==
  ASSUME RegionInv, Sound, NEW f \in folds
  PROVE  \E i, s : IsFold(f, i, s)
<1>1. lines \in Seq(Nat)
  BY DEF RegionInv, CacheInv, Remembers
<1>2. PICK i \in 1 .. Len(lines) : i = f[1] /\ f = Rows!Region(lines, i) /\ f # Rows!None
  BY DEF RegionInv, FoldInv, FoldTrue, Sound
<1>3. PICK s : s = Rows!Stop(lines, i)
  OBVIOUS
<1>4. /\ lines[i] # 0 /\ f = <<i, s - 1>>
      /\ \E j \in i + 1 .. Len(lines) : j < s
  BY <1>2, <1>3 DEF Rows!Region, Rows!Body
<1>5. s \in i + 1 .. Len(lines) + 1
  BY <1>1, <1>3, StopIs
<1>6. i \in Nat /\ Len(lines) \in Nat
  BY <1>1
<1>7. s \in Nat /\ s <= Len(lines) + 1 /\ i + 1 < s
  BY <1>4, <1>5, <1>6
<1>8. f[1] = i /\ f[2] = s - 1
  BY <1>4
<1>. QED  BY <1>2, <1>3, <1>4, <1>7, <1>8 DEF IsFold

\* Of two folds one is after the other or in it, and a header has one.
LEMMA FoldsNest ==
  ASSUME RegionInv, Sound, NEW f \in folds, NEW g \in folds
  PROVE  /\ f[1] = g[1] => f = g
         /\ f[1] < g[1] => g[1] > f[2] \/ g[2] <= f[2]
<1>1. lines \in Seq(Nat)
  BY DEF RegionInv, CacheInv, Remembers
<1>2. PICK i, s : IsFold(f, i, s)
  BY FoldIs
<1>3. PICK j, t : IsFold(g, j, t)
  BY FoldIs
<1>4. f[1] = g[1] => f = g
  BY <1>2, <1>3 DEF IsFold
<1>5. ASSUME i < j, ~(j > s - 1) PROVE t - 1 <= s - 1
  <2>1. i \in 1 .. Len(lines) /\ j \in 1 .. Len(lines) /\ Len(lines) \in Nat
    BY <1>1, <1>2, <1>3 DEF IsFold
  <2>2. s \in Nat /\ t \in Nat /\ s <= Len(lines) + 1 /\ t <= Len(lines) + 1
    BY <1>2, <1>3 DEF IsFold
  <2>3. s = Rows!Stop(lines, i) /\ t = Rows!Stop(lines, j) /\ lines[j] # 0
    BY <1>2, <1>3 DEF IsFold
  <2>4. CASE s = Len(lines) + 1
    BY <2>1, <2>2, <2>4
  <2>5. CASE s <= Len(lines)
    <3>1. lines[s] # 0 /\ lines[s] <= lines[i]
      BY <1>1, <2>1, <2>3, <2>5, StopIs
    <3>2. j < s
      BY <1>5, <2>1, <2>2
    <3>3. lines[j] # 0 /\ lines[j] <= lines[i] => s <= j
      <4>1. j \in i + 1 .. Len(lines)
        BY <1>5, <2>1
      <4>. QED  BY <1>1, <2>1, <2>3, <4>1, StopIs
    <3>4. s \in 1 .. Len(lines)
      BY <2>1, <2>2, <2>5, <3>2
    <3>5. lines[s] \in Nat /\ lines[i] \in Nat /\ lines[j] \in Nat
      BY <1>1, <2>1, <3>4
    <3>6. lines[s] <= lines[j]
      BY <2>1, <2>2, <2>3, <3>1, <3>2, <3>3, <3>5
    <3>7. t <= s
      <4>1. s \in j + 1 .. Len(lines)
        BY <2>1, <2>2, <2>5, <3>2
      <4>. QED  BY <1>1, <2>1, <2>3, <3>1, <3>6, <4>1, StopIs
    <3>. QED  BY <2>2, <3>7
  <2>. QED  BY <2>1, <2>2, <2>4, <2>5
<1>6. f[1] < g[1] => g[1] > f[2] \/ g[2] <= f[2]
  BY <1>2, <1>3, <1>5 DEF IsFold
<1>. QED  BY <1>4, <1>6

\* Line i has a fold, up to line s.
Header(i, s) == \E f \in folds : IsFold(f, i, s)

\* The line whose rows come after those of line i.
After(i, n) ==
  \/ Header(i, n)
  \/ ~Rows!Header(i) /\ n = i + 1

\* Lines are skipped where they are hidden, and it goes on with one that is not.
LEMMA AfterIs ==
  ASSUME RegionInv, Sound, NEW i \in 1 .. Len(lines), NEW n, After(i, n)
  PROVE  /\ n \in i + 1 .. Len(lines) + 1
         /\ \A j \in i + 1 .. n - 1 : Rows!Hidden(j)
         /\ ~Rows!Hidden(i) => ~Rows!Hidden(n)
<1>1. lines \in Seq(Nat)
  BY DEF RegionInv, CacheInv, Remembers
<1>2. i \in Nat /\ i >= 1 /\ i <= Len(lines) /\ Len(lines) \in Nat
  BY <1>1
<1>3. CASE Header(i, n)
  <2>1. PICK f \in folds : IsFold(f, i, n)
    BY <1>3 DEF Header
  <2>2. n \in Nat /\ n <= Len(lines) + 1 /\ i + 1 < n /\ f[1] = i /\ f[2] = n - 1
    BY <2>1 DEF IsFold
  <2>3. n \in i + 1 .. Len(lines) + 1
    BY <1>2, <2>2
  <2>4. ASSUME NEW j \in i + 1 .. n - 1 PROVE Rows!Hidden(j)
    <3>1. f[1] < j /\ j <= f[2]
      BY <1>2, <2>2
    <3>. QED  BY <3>1 DEF Rows!Hidden
  <2>5. ASSUME ~Rows!Hidden(i), NEW g \in folds, g[1] < n, n <= g[2] PROVE FALSE
    <3>1. PICK j, t : IsFold(g, j, t)
      BY FoldIs
    <3>2. j \in Nat /\ t \in Nat /\ g[1] = j /\ g[2] = t - 1
      BY <3>1 DEF IsFold
    <3>3. CASE j = i
      <4>1. f = g
        BY <2>2, <3>2, <3>3, FoldsNest
      <4>. QED  BY <2>2, <2>5, <4>1
    <3>4. CASE j < i
      <4>1. g[1] < i /\ i <= g[2]
        BY <1>2, <2>2, <2>5, <3>2, <3>4
      <4>. QED  BY <2>5, <4>1 DEF Rows!Hidden
    <3>5. CASE i < j
      <4>1. g[1] > f[2] \/ g[2] <= f[2]
        BY <2>2, <3>2, <3>5, FoldsNest
      <4>. QED  BY <2>2, <2>5, <3>2, <4>1
    <3>. QED  BY <1>2, <3>2, <3>3, <3>4, <3>5
  <2>6. ~Rows!Hidden(i) => ~Rows!Hidden(n)
    BY <2>5 DEF Rows!Hidden
  <2>. QED  BY <2>3, <2>4, <2>6
<1>4. CASE ~Rows!Header(i) /\ n = i + 1
  <2>1. n \in i + 1 .. Len(lines) + 1 /\ ~(\E j \in i + 1 .. n - 1 : TRUE)
    BY <1>2, <1>4
  <2>2. ASSUME ~Rows!Hidden(i), NEW g \in folds, g[1] < n, n <= g[2] PROVE FALSE
    <3>1. PICK j, t : IsFold(g, j, t)
      BY FoldIs
    <3>2. j \in Nat /\ t \in Nat /\ g[1] = j /\ g[2] = t - 1
      BY <3>1 DEF IsFold
    <3>3. j # i
      BY <1>4, <3>2 DEF Rows!Header
    <3>4. g[1] < i /\ i <= g[2]
      BY <1>2, <1>4, <2>2, <3>2, <3>3
    <3>. QED  BY <2>2, <3>4 DEF Rows!Hidden
  <2>3. ~Rows!Hidden(i) => ~Rows!Hidden(n)
    BY <2>2 DEF Rows!Hidden
  <2>. QED  BY <2>1, <2>3
<1>. QED  BY <1>3, <1>4 DEF After

\* There is one.
LEMMA AfterExists ==
  ASSUME RegionInv, Sound, NEW i \in 1 .. Len(lines)
  PROVE  \E n : After(i, n)
<1>1. CASE Rows!Header(i)
  <2>1. PICK f \in folds : f[1] = i
    BY <1>1 DEF Rows!Header
  <2>2. PICK j, s : IsFold(f, j, s)
    BY FoldIs
  <2>3. j = i
    BY <2>1, <2>2 DEF IsFold
  <2>. QED  BY <2>2, <2>3 DEF After, Header
<1>2. CASE ~Rows!Header(i)
  BY <1>2 DEF After
<1>. QED  BY <1>1, <1>2

Triples == Nat \X Nat \X Nat

\* The rows of one line: of this line, from its beginning to its end, without gaps.
Whole(p, i) ==
  /\ p \in Seq(Triples) /\ Len(p) >= 1
  /\ \A k \in 1 .. Len(p) : p[k][1] = i
  /\ \A k \in 1 .. Len(p) - 1 : p[k][3] = p[k + 1][2]
  /\ p[1][2] = 0 /\ p[Len(p)][3] = lines[i]

\* What is left of a line when it has been cut into full rows is no full row.
LEMMA RowsNeeded ==
  ASSUME NEW n \in Nat \ {0}, NEW w \in Nat \ {0}, NEW q, q = (n + w - 1) \div w
  PROVE  /\ q \in Nat /\ q >= 1 /\ ~(q * w < n)
         /\ \A k \in 1 .. q - 1 : k * w < n
<1>1. PICK a \in Nat : a = n + w - 1
  OBVIOUS
<1>2. q \in Nat /\ q * w <= a /\ a < q * w + w
  <2>1. q = a \div w
    BY <1>1
  <2>2. \A x \in Nat, y \in Nat \ {0} : x \div y \in Nat /\ x = y * (x \div y) + (x % y) /\ x % y \in 0 .. y - 1
    OBVIOUS
  <2>3. q \in Nat /\ a = w * q + (a % w) /\ a % w \in 0 .. w - 1
    BY <2>1, <2>2
  <2>4. PICK m \in Nat : m = w * q
    BY <2>3
  <2>5. q * w = m
    BY <2>3, <2>4
  <2>6. m <= a /\ a < m + w
    BY <2>3, <2>4
  <2>. QED  BY <2>3, <2>5, <2>6
<1>3. PICK m \in Nat : m = q * w
  BY <1>2
<1>4. m <= a /\ a < m + w
  BY <1>2, <1>3
<1>5. q # 0
  <2>1. q = 0 => m = 0
    BY <1>3
  <2>. QED  BY <1>1, <1>4, <2>1
<1>6. ~(m < n)
  BY <1>1, <1>4
<1>7. ASSUME NEW k \in 1 .. q - 1 PROVE k * w < n
  <2>1. k \in Nat /\ k >= 1 /\ q - k \in Nat /\ q - k >= 1
    BY <1>2
  <2>2. PICK d \in Nat : q = k + d + 1
    <3>1. (q - k) - 1 \in Nat /\ q = k + ((q - k) - 1) + 1
      BY <1>2, <2>1
    <3>. QED  BY <3>1
  <2>3. (k + d + 1) * w = k * w + d * w + w
    BY <2>1, <2>2
  <2>4. k * w \in Nat /\ d * w \in Nat
    BY <2>1, <2>2
  <2>5. PICK x \in Nat, y \in Nat : x = k * w /\ y = d * w
    BY <2>4
  <2>6. m = x + y + w
    BY <1>3, <2>2, <2>3, <2>5
  <2>7. x < n
    BY <1>1, <1>4, <2>6
  <2>. QED  BY <2>5, <2>7
<1>. QED  BY <1>2, <1>3, <1>5, <1>6, <1>7

LEMMA PiecesAre ==
  ASSUME Roomy, RegionInv, NEW i \in 1 .. Len(lines)
  PROVE  Whole(Rows!Pieces(i), i)
<1>1. lines \in Seq(Nat)
  BY DEF RegionInv, CacheInv, Remembers
<1>2. PICK n \in Nat : n = lines[i]
  BY <1>1
<1>3. i \in Nat
  BY <1>1
<1>4. PICK p : p = Rows!Pieces(i)
  OBVIOUS
<1>5. CASE n = 0
  <2>1. p = <<<<i, 0, 0>>>>
    BY <1>2, <1>4, <1>5 DEF Rows!Pieces
  <2>2. p \in Seq(Triples) /\ Len(p) = 1 /\ p[1] = <<i, 0, 0>>
    BY <1>3, <2>1 DEF Triples
  <2>3. p[1][1] = i /\ p[1][2] = 0 /\ p[1][3] = 0
    BY <2>2
  <2>. QED  BY <1>2, <1>4, <1>5, <2>2, <2>3 DEF Whole
<1>6. CASE n # 0
  <2>1. PICK w \in Nat \ {0} : w = WrapWidth
    BY DEF Roomy
  <2>2. PICK q : q = (n + w - 1) \div w
    OBVIOUS
  <2>3. /\ q \in Nat /\ q >= 1 /\ ~(q * w < n)
        /\ \A k \in 1 .. q - 1 : k * w < n
    BY <1>6, <2>2, RowsNeeded
  <2>4. p = [k \in 1 .. q |-> <<i, (k - 1) * w, IF k * w < n THEN k * w ELSE n>>]
    BY <1>2, <1>4, <1>6, <2>1, <2>2 DEF Rows!Pieces
  <2>5. ASSUME NEW k \in 1 .. q
        PROVE  /\ p[k] = <<i, (k - 1) * w, IF k * w < n THEN k * w ELSE n>>
               /\ p[k] \in Triples
    <3>1. k \in Nat /\ k - 1 \in Nat
      BY <2>3
    <3>2. k * w \in Nat /\ (k - 1) * w \in Nat
      BY <3>1
    <3>. QED  BY <1>3, <2>4, <3>2 DEF Triples
  <2>6. p \in Seq(Triples) /\ Len(p) = q
    <3>1. p = [k \in 1 .. q |-> p[k]]
      BY <2>4
    <3>2. p \in [1 .. q -> Triples]
      BY <2>5, <3>1
    <3>. QED  BY <2>3, <3>2
  <2>7. \A k \in 1 .. q : p[k][1] = i /\ p[k][2] = (k - 1) * w
                          /\ p[k][3] = IF k * w < n THEN k * w ELSE n
    BY <2>5
  <2>8. ASSUME NEW k \in 1 .. q - 1 PROVE p[k][3] = p[k + 1][2]
    <3>1. k \in 1 .. q /\ k + 1 \in 1 .. q /\ (k + 1) - 1 = k
      BY <2>3
    <3>2. p[k][3] = k * w
      BY <2>3, <2>7, <3>1
    <3>3. p[k + 1][2] = ((k + 1) - 1) * w
      BY <2>7, <3>1
    <3>. QED  BY <3>1, <3>2, <3>3
  <2>9. p[1][2] = 0 /\ p[q][3] = n
    <3>1. 1 \in 1 .. q /\ q \in 1 .. q /\ (1 - 1) * w = 0
      BY <2>3
    <3>2. p[1][2] = (1 - 1) * w
      BY <2>7, <3>1
    <3>3. p[q][3] = n
      BY <2>3, <2>7, <3>1
    <3>. QED  BY <3>1, <3>2, <3>3
  <2>. QED  BY <1>2, <1>4, <2>3, <2>6, <2>7, <2>8, <2>9 DEF Whole
<1>. QED  BY <1>5, <1>6

\* What RowsFrom is at i, if f says what it is further on.
RowsAt(f, i) ==
  IF i > Len(lines) THEN <<>>
  ELSE LET skipped == {g[2] : g \in {h \in folds : h[1] = i}}
       IN  Rows!Pieces(i) \o f[IF skipped = {} THEN i + 1
                                ELSE IF Rows!Max(skipped) < Len(lines) THEN Rows!Max(skipped) + 1
                                ELSE Len(lines) + 1]

LEMMA RowsAtIs ==
  ASSUME RegionInv, Sound, NEW i \in 1 .. Len(lines), NEW n, After(i, n), NEW f
  PROVE  RowsAt(f, i) = Rows!Pieces(i) \o f[n]
<1>1. lines \in Seq(Nat)
  BY DEF RegionInv, CacheInv, Remembers
<1>2. i \in Nat /\ i >= 1 /\ i <= Len(lines) /\ Len(lines) \in Nat /\ ~(i > Len(lines))
  BY <1>1
<1>3. PICK skipped : skipped = {g[2] : g \in {h \in folds : h[1] = i}}
  OBVIOUS
<1>4. PICK m : m = IF skipped = {} THEN i + 1
                   ELSE IF Rows!Max(skipped) < Len(lines) THEN Rows!Max(skipped) + 1
                   ELSE Len(lines) + 1
  OBVIOUS
<1>5. RowsAt(f, i) = Rows!Pieces(i) \o f[m]
  BY <1>2, <1>3, <1>4 DEF RowsAt
<1>6. CASE Header(i, n)
  <2>1. PICK g \in folds : IsFold(g, i, n)
    BY <1>6 DEF Header
  <2>2. g[1] = i /\ g[2] = n - 1 /\ n \in Nat /\ n <= Len(lines) + 1 /\ n - 1 \in Nat
    BY <1>2, <2>1 DEF IsFold
  <2>3. \A h \in folds : h[1] = i => h = g
    BY <2>2, FoldsNest
  <2>4. skipped = {n - 1}
    BY <1>3, <2>2, <2>3
  <2>5. Rows!Max(skipped) = n - 1
    BY <2>2, <2>4 DEF Rows!Max
  <2>6. m = n
    BY <1>2, <1>4, <2>2, <2>4, <2>5
  <2>. QED  BY <1>5, <2>6
<1>7. CASE ~Rows!Header(i) /\ n = i + 1
  <2>1. skipped = {}
    BY <1>3, <1>7 DEF Rows!Header
  <2>. QED  BY <1>4, <1>5, <1>7, <2>1
<1>. QED  BY <1>6, <1>7 DEF After

\* f says of the lines from m on what RowsFrom is there.
Tells(f, m) ==
  /\ f = [i \in m .. MaxLines + 1 |-> f[i]]
  /\ \A i \in m .. MaxLines + 1 : f[i] = RowsAt(f, i)

\* It can be told of a line before.
LEMMA TellsBefore ==
  ASSUME Roomy, RegionInv, Sound, NEW m \in 1 .. MaxLines + 1, NEW f, Tells(f, m + 1)
  PROVE  \E g : Tells(g, m)
<1>1. /\ lines \in Seq(Nat) /\ Len(lines) \in Nat /\ Len(lines) <= MaxLines
      /\ MaxLines \in Nat /\ m \in Nat /\ m >= 1 /\ m <= MaxLines + 1
  BY DEF RegionInv, CacheInv, FoldInv, Remembers, Roomy
<1>2. PICK g : g = [i \in m .. MaxLines + 1 |-> IF i = m THEN RowsAt(f, m) ELSE f[i]]
  OBVIOUS
<1>3. /\ \A i \in m .. MaxLines + 1 : g[i] = IF i = m THEN RowsAt(f, m) ELSE f[i]
      /\ g = [i \in m .. MaxLines + 1 |-> g[i]]
  BY <1>2
<1>4. ASSUME NEW i \in m .. MaxLines + 1 PROVE RowsAt(g, i) = RowsAt(f, i)
  <2>1. CASE i > Len(lines)
    BY <2>1 DEF RowsAt
  <2>2. CASE ~(i > Len(lines))
    <3>1. i \in 1 .. Len(lines)
      BY <1>1, <2>2
    <3>2. PICK n : After(i, n)
      BY <3>1, AfterExists
    <3>3. n \in i + 1 .. Len(lines) + 1
      BY <3>1, <3>2, AfterIs
    <3>4. n \in m .. MaxLines + 1 /\ n # m
      BY <1>1, <3>3
    <3>5. g[n] = f[n]
      BY <1>3, <3>4
    <3>6. RowsAt(g, i) = Rows!Pieces(i) \o g[n]
      BY <3>1, <3>2, RowsAtIs
    <3>7. RowsAt(f, i) = Rows!Pieces(i) \o f[n]
      BY <3>1, <3>2, RowsAtIs
    <3>. QED  BY <3>5, <3>6, <3>7
  <2>. QED  BY <2>1, <2>2
<1>5. ASSUME NEW i \in m .. MaxLines + 1 PROVE g[i] = RowsAt(g, i)
  <2>1. CASE i = m
    BY <1>3, <1>4, <2>1
  <2>2. CASE i # m
    <3>1. i \in m + 1 .. MaxLines + 1
      BY <1>1, <2>2
    <3>2. f[i] = RowsAt(f, i)
      BY <3>1 DEF Tells
    <3>. QED  BY <1>3, <1>4, <2>2, <3>2
  <2>. QED  BY <2>1, <2>2
<1>. QED  BY <1>3, <1>5 DEF Tells

\* A set of naturals with 0 and, with each of its members, the next one, is all of them.
LEMMA Induction ==
  ASSUME NEW S \in SUBSET Nat, 0 \in S, \A n \in S : n + 1 \in S
  PROVE  S = Nat
<1>. SUFFICES ASSUME Nat \ S # {} PROVE FALSE
  OBVIOUS
<1>1. PICK T : T = Nat \ S
  OBVIOUS
<1>2. PICK m \in T : \A t \in T : m <= t
  <2>1. T \in SUBSET Nat /\ T # {}
    BY <1>1
  <2>. QED  BY <2>1, LeastExists
<1>3. m \in Nat /\ m # 0 /\ m \notin S
  BY <1>1, <1>2
<1>4. m - 1 \in Nat /\ ~(m <= m - 1)
  BY <1>3
<1>5. m - 1 \in S
  BY <1>1, <1>2, <1>4
<1>6. (m - 1) + 1 = m
  BY <1>3
<1>. QED  BY <1>3, <1>5, <1>6

\* RowsFrom is what its definition says.
LEMMA RowsFromIs ==
  ASSUME Roomy, RegionInv, Sound
  PROVE  Tells(Rows!RowsFrom, 1)
<1>1. PICK N \in Nat : N = MaxLines + 1
  BY DEF Roomy
<1>2. PICK S : S = {k \in Nat : k <= N => \E f : Tells(f, (N - k) + 1)}
  OBVIOUS
<1>3. 0 \in S
  <2>1. PICK f : f = [i \in N + 1 .. N |-> 0]
    OBVIOUS
  <2>2. N + 1 .. N = {} /\ (N - 0) + 1 = N + 1
    BY <1>1
  <2>3. Tells(f, N + 1)
    <3>1. f = [i \in N + 1 .. MaxLines + 1 |-> f[i]]
      BY <1>1, <2>1, <2>2
    <3>. QED  BY <1>1, <2>2, <3>1 DEF Tells
  <2>. QED  BY <1>2, <2>2, <2>3
<1>4. ASSUME NEW k \in S PROVE k + 1 \in S
  <2>1. k \in Nat /\ k + 1 \in Nat
    BY <1>2
  <2>2. CASE ~(k + 1 <= N)
    BY <1>2, <2>1, <2>2
  <2>3. CASE k + 1 <= N
    <3>1. PICK m : m = (N - (k + 1)) + 1
      OBVIOUS
    <3>2. k <= N /\ m \in 1 .. MaxLines + 1 /\ m + 1 = (N - k) + 1
      BY <1>1, <2>1, <2>3, <3>1
    <3>3. PICK f : Tells(f, m + 1)
      BY <1>2, <3>2
    <3>4. \E g : Tells(g, m)
      BY <3>2, <3>3, TellsBefore
    <3>. QED  BY <1>2, <2>1, <3>1, <3>4
  <2>. QED  BY <2>2, <2>3
<1>5. S = Nat
  <2>1. S \in SUBSET Nat
    BY <1>2
  <2>. QED  BY <1>3, <1>4, <2>1, Induction
<1>6. PICK f : Tells(f, 1)
  <2>1. N \in S /\ N <= N /\ (N - N) + 1 = 1
    BY <1>1, <1>5
  <2>. QED  BY <1>2, <2>1
<1>7. f = [i \in 1 .. MaxLines + 1 |-> RowsAt(f, i)]
  BY <1>6 DEF Tells
<1>8. PICK g : g = CHOOSE h : h = [i \in 1 .. MaxLines + 1 |-> RowsAt(h, i)]
  OBVIOUS
<1>9. g = [i \in 1 .. MaxLines + 1 |-> RowsAt(g, i)]
  BY <1>7, <1>8, Zenon
<1>10. Rows!RowsFrom = g
  BY <1>8 DEF Rows!RowsFrom, RowsAt
<1>11. Tells(g, 1)
  <2>1. \A i \in 1 .. MaxLines + 1 : g[i] = RowsAt(g, i)
    BY <1>9
  <2>2. g = [i \in 1 .. MaxLines + 1 |-> g[i]]
    BY <1>9
  <2>. QED  BY <2>1, <2>2 DEF Tells
<1>. QED  BY <1>10, <1>11

\* One row comes after another: it goes on with the line, or with a later one.
Follows(r, q) ==
  \/ r[1] = q[1] /\ r[3] = q[2]
  \/ r[1] < q[1] /\ r[3] = lines[r[1]] /\ q[2] = 0

\* The rows from line i on: of the lines that no fold hides, of each, in order.
Shows(rows, i) ==
  /\ rows \in Seq(Triples)
  /\ \A k \in 1 .. Len(rows) : rows[k][1] \in i .. Len(lines) /\ ~Rows!Hidden(rows[k][1])
  /\ \A j \in i .. Len(lines) : ~Rows!Hidden(j) => \E k \in 1 .. Len(rows) : rows[k][1] = j
  /\ \A k \in 1 .. Len(rows) - 1 : Follows(rows[k], rows[k + 1])
  /\ Len(rows) >= 1 => rows[1][2] = 0

LEMMA ShowsMore ==
  ASSUME RegionInv, Sound, NEW i \in 1 .. Len(lines), ~Rows!Hidden(i),
         NEW n, After(i, n), NEW p, Whole(p, i), NEW rest, Shows(rest, n)
  PROVE  Shows(p \o rest, i)
<1>1. lines \in Seq(Nat) /\ i \in Nat /\ Len(lines) \in Nat /\ i <= Len(lines)
  BY DEF RegionInv, CacheInv, Remembers
<1>2. /\ n \in i + 1 .. Len(lines) + 1
      /\ \A j \in i + 1 .. n - 1 : Rows!Hidden(j)
  BY AfterIs
<1>3. PICK rows : rows = p \o rest
  OBVIOUS
<1>4. PICK a \in Nat : a = Len(p)
  BY DEF Whole
<1>5. PICK b \in Nat : b = Len(rest)
  BY DEF Shows
<1>6. /\ rows \in Seq(Triples) /\ Len(rows) = a + b
      /\ \A k \in 1 .. a : rows[k] = p[k]
      /\ \A k \in 1 .. b : rows[a + k] = rest[k]
  <2>1. p \in Seq(Triples) /\ rest \in Seq(Triples)
    BY DEF Whole, Shows
  <2>2. /\ rows \in Seq(Triples) /\ Len(rows) = Len(p) + Len(rest)
        /\ \A k \in 1 .. Len(p) + Len(rest) :
             rows[k] = IF k <= Len(p) THEN p[k] ELSE rest[k - Len(p)]
    BY <1>3, <2>1
  <2>3. ASSUME NEW k \in 1 .. a PROVE rows[k] = p[k]
    BY <1>4, <1>5, <2>2
  <2>4. ASSUME NEW k \in 1 .. b PROVE rows[a + k] = rest[k]
    <3>1. a + k \in 1 .. a + b /\ ~(a + k <= a) /\ (a + k) - a = k
      BY <1>4, <1>5
    <3>. QED  BY <1>4, <1>5, <2>2, <3>1
  <2>. QED  BY <1>4, <1>5, <2>2, <2>3, <2>4
<1>7. ASSUME NEW k \in 1 .. a + b PROVE k \in 1 .. a \/ \E m \in 1 .. b : k = a + m
  <2>1. CASE k <= a
    BY <1>4, <1>5, <2>1
  <2>2. CASE ~(k <= a)
    <3>1. k - a \in 1 .. b /\ k = a + (k - a)
      BY <1>4, <1>5, <2>2
    <3>. QED  BY <3>1
  <2>. QED  BY <2>1, <2>2
<1>8. ASSUME NEW k \in 1 .. Len(rows)
      PROVE  rows[k][1] \in i .. Len(lines) /\ ~Rows!Hidden(rows[k][1])
  <2>1. CASE k \in 1 .. a
    <3>1. rows[k][1] = i
      BY <1>4, <1>6, <2>1 DEF Whole
    <3>. QED  BY <1>1, <3>1
  <2>2. ASSUME NEW m \in 1 .. b, k = a + m PROVE rows[k][1] \in i .. Len(lines) /\ ~Rows!Hidden(rows[k][1])
    <3>1. rows[k] = rest[m]
      BY <1>6, <2>2
    <3>2. rest[m][1] \in n .. Len(lines) /\ ~Rows!Hidden(rest[m][1])
      BY <1>5 DEF Shows
    <3>3. rest[m][1] \in i .. Len(lines)
      BY <1>1, <1>2, <3>2
    <3>. QED  BY <3>1, <3>2, <3>3
  <2>. QED  BY <1>6, <1>7, <2>1, <2>2
<1>9. ASSUME NEW j \in i .. Len(lines), ~Rows!Hidden(j)
      PROVE  \E k \in 1 .. Len(rows) : rows[k][1] = j
  <2>1. CASE j = i
    <3>1. 1 \in 1 .. a /\ 1 \in 1 .. Len(rows) /\ rows[1] = p[1]
      BY <1>4, <1>5, <1>6 DEF Whole
    <3>2. p[1][1] = i
      BY <1>4, <3>1 DEF Whole
    <3>. QED  BY <2>1, <3>1, <3>2
  <2>2. CASE j # i
    <3>1. j \in n .. Len(lines)
      BY <1>1, <1>2, <1>9, <2>2
    <3>2. PICK m \in 1 .. b : rest[m][1] = j
      BY <1>5, <1>9, <3>1 DEF Shows
    <3>3. a + m \in 1 .. Len(rows) /\ rows[a + m] = rest[m]
      BY <1>4, <1>5, <1>6
    <3>. QED  BY <3>2, <3>3
  <2>. QED  BY <2>1, <2>2
<1>10. ASSUME NEW k \in 1 .. Len(rows) - 1 PROVE Follows(rows[k], rows[k + 1])
  <2>1. k \in Nat /\ k >= 1 /\ k + 1 <= a + b
    BY <1>6
  <2>2. CASE k + 1 <= a
    <3>1. k \in 1 .. a /\ k + 1 \in 1 .. a /\ k \in 1 .. a - 1
      BY <1>4, <2>1, <2>2
    <3>2. p[k][1] = i /\ p[k + 1][1] = i /\ p[k][3] = p[k + 1][2]
      BY <1>4, <3>1 DEF Whole
    <3>. QED  BY <1>6, <3>1, <3>2 DEF Follows
  <2>3. CASE k = a
    <3>1. a \in 1 .. a /\ 1 \in 1 .. b
      BY <1>4, <1>5, <2>1, <2>3
    <3>2. rows[k] = p[a] /\ rows[k + 1] = rest[1]
      BY <1>6, <2>3, <3>1
    <3>3. p[a][1] = i /\ p[a][3] = lines[i]
      BY <1>4, <3>1 DEF Whole
    <3>4. rest[1][1] \in n .. Len(lines) /\ rest[1][2] = 0
      BY <1>5, <3>1 DEF Shows
    <3>5. i < rest[1][1]
      BY <1>1, <1>2, <3>4
    <3>. QED  BY <3>2, <3>3, <3>4, <3>5 DEF Follows
  <2>4. CASE a < k
    <3>1. PICK m : m = k - a
      OBVIOUS
    <3>2. m \in 1 .. b /\ m + 1 \in 1 .. b /\ m \in 1 .. b - 1 /\ k = a + m /\ k + 1 = a + (m + 1)
      BY <1>4, <1>5, <2>1, <2>4, <3>1
    <3>3. rows[k] = rest[m] /\ rows[k + 1] = rest[m + 1]
      BY <1>6, <3>2
    <3>4. Follows(rest[m], rest[m + 1])
      BY <1>5, <3>2 DEF Shows
    <3>. QED  BY <3>3, <3>4
  <2>. QED  BY <1>4, <2>1, <2>2, <2>3, <2>4
<1>11. rows[1][2] = 0
  <2>1. 1 \in 1 .. a
    BY <1>4 DEF Whole
  <2>. QED  BY <1>6, <2>1 DEF Whole
<1>12. Shows(rows, i)
  BY <1>6, <1>8, <1>9, <1>10, <1>11 DEF Shows
<1>. QED  BY <1>3, <1>12

\* From each line that is not hidden on, the rows are those of the lines that are not.
LEMMA RowsShow ==
  ASSUME Roomy, RegionInv, Sound, NEW i \in 1 .. Len(lines) + 1, ~Rows!Hidden(i)
  PROVE  Shows(Rows!RowsFrom[i], i)
<1>1. /\ lines \in Seq(Nat) /\ Len(lines) \in Nat /\ Len(lines) <= MaxLines /\ MaxLines \in Nat
  BY DEF RegionInv, CacheInv, FoldInv, Remembers, Roomy
<1>2. PICK f : f = Rows!RowsFrom
  OBVIOUS
<1>3. \A j \in 1 .. MaxLines + 1 : f[j] = RowsAt(f, j)
  BY <1>2, RowsFromIs DEF Tells
<1>4. PICK N \in Nat : N = Len(lines) + 1
  BY <1>1
<1>5. PICK S : S = {k \in Nat : \A j \in 1 .. N : N - k <= j /\ ~Rows!Hidden(j) => Shows(f[j], j)}
  OBVIOUS
<1>6. ASSUME NEW j \in 1 .. N, ~Rows!Hidden(j),
             \A m \in j + 1 .. N : ~Rows!Hidden(m) => Shows(f[m], m)
      PROVE  Shows(f[j], j)
  <2>1. f[j] = RowsAt(f, j)
    BY <1>1, <1>3, <1>4
  <2>2. CASE j = N
    <3>1. f[j] = <<>>
      BY <1>1, <1>4, <2>1, <2>2 DEF RowsAt
    <3>2. j .. Len(lines) = {}
      BY <1>1, <1>4, <2>2
    <3>. QED  BY <3>1, <3>2 DEF Shows
  <2>3. CASE j # N
    <3>1. j \in 1 .. Len(lines)
      BY <1>1, <1>4, <2>3
    <3>2. PICK n : After(j, n)
      BY <3>1, AfterExists
    <3>3. n \in j + 1 .. N /\ ~Rows!Hidden(n)
      BY <1>4, <1>6, <3>1, <3>2, AfterIs
    <3>4. Shows(f[n], n)
      BY <1>6, <3>3
    <3>5. f[j] = Rows!Pieces(j) \o f[n]
      BY <2>1, <3>1, <3>2, RowsAtIs
    <3>6. PICK p : p = Rows!Pieces(j)
      OBVIOUS
    <3>7. Whole(p, j)
      BY <3>1, <3>6, PiecesAre
    <3>8. Shows(p \o f[n], j)
      BY <1>6, <3>1, <3>2, <3>4, <3>7, ShowsMore
    <3>. QED  BY <3>5, <3>6, <3>8
  <2>. QED  BY <2>2, <2>3
<1>7. 0 \in S
  <2>1. ASSUME NEW j \in 1 .. N, N - 0 <= j, ~Rows!Hidden(j) PROVE Shows(f[j], j)
    <3>1. j + 1 .. N = {}
      BY <1>4, <2>1
    <3>. QED  BY <1>6, <2>1, <3>1
  <2>. QED  BY <1>5, <2>1
<1>8. ASSUME NEW k \in S PROVE k + 1 \in S
  <2>1. k \in Nat /\ k + 1 \in Nat
    BY <1>5
  <2>2. ASSUME NEW j \in 1 .. N, N - (k + 1) <= j, ~Rows!Hidden(j) PROVE Shows(f[j], j)
    <3>1. ASSUME NEW m \in j + 1 .. N, ~Rows!Hidden(m) PROVE Shows(f[m], m)
      <4>1. m \in 1 .. N /\ N - k <= m
        BY <1>4, <2>1, <2>2
      <4>. QED  BY <1>5, <3>1, <4>1
    <3>. QED  BY <1>6, <2>2, <3>1
  <2>. QED  BY <1>5, <2>1, <2>2
<1>9. S = Nat
  <2>1. S \in SUBSET Nat
    BY <1>5
  <2>. QED  BY <1>7, <1>8, <2>1, Induction
<1>10. N \in S /\ i \in 1 .. N /\ N - N <= i
  BY <1>1, <1>4, <1>9
<1>. QED  BY <1>2, <1>5, <1>10

LEMMA RestShown == ASSUME Roomy, RegionInv PROVE Rows!RowsShowTheRest
<1>. SUFFICES ASSUME Sound PROVE Rows!RowsShowTheRest
  BY DEF Rows!RowsShowTheRest, Sound
<1>1. /\ lines \in Seq(Nat) /\ Len(lines) \in Nat /\ Rows!Lines = 1 .. Len(lines)
  BY DEF RegionInv, CacheInv, Remembers, Rows!Lines
<1>2. ASSUME NEW f \in folds PROVE 1 <= f[1] /\ f[1] < f[2] /\ f[2] <= Len(lines)
  <2>1. PICK i, s : IsFold(f, i, s)
    BY FoldIs
  <2>. QED  BY <1>1, <2>1 DEF IsFold
<1>3. ~Rows!Hidden(1)
  <2>1. ASSUME NEW f \in folds, f[1] < 1 PROVE FALSE
    <3>1. PICK i, s : IsFold(f, i, s)
      BY FoldIs
    <3>. QED  BY <1>1, <2>1, <3>1 DEF IsFold
  <2>. QED  BY <2>1 DEF Rows!Hidden
<1>4. PICK rows : rows = Rows!RowsFrom[1]
  OBVIOUS
<1>5. Shows(rows, 1)
  <2>1. 1 \in 1 .. Len(lines) + 1
    BY <1>1
  <2>. QED  BY <1>3, <1>4, <2>1, RowsShow
<1>6. ASSUME NEW i \in Rows!Lines
      PROVE  Rows!Hidden(i) <=> \A k \in 1 .. Len(rows) : rows[k][1] # i
  <2>1. CASE Rows!Hidden(i)
    BY <1>5, <2>1 DEF Shows
  <2>2. CASE ~Rows!Hidden(i)
    BY <1>1, <1>5, <2>2 DEF Shows
  <2>. QED  BY <2>1, <2>2
<1>7. \A k \in 1 .. Len(rows) - 1 :
        \/ rows[k][1] = rows[k + 1][1] /\ rows[k][3] = rows[k + 1][2]
        \/ /\ rows[k][1] < rows[k + 1][1]
           /\ rows[k][3] = lines[rows[k][1]] /\ rows[k + 1][2] = 0
  BY <1>5 DEF Shows, Follows
<1>8. \A f, g \in folds : f[1] < g[1] => g[1] > f[2] \/ g[2] <= f[2]
  BY FoldsNest
<1>. QED  BY <1>2, <1>4, <1>6, <1>7, <1>8 DEF Rows!RowsShowTheRest

\* Folds lie in one another or apart, and the rows show each line that no fold hides,
\* in order, once and whole, while no fold is known to be old
\* (node_text_editor.c:511-622).
THEOREM LinesAreShown == ASSUME Roomy PROVE Rows!Spec => []Rows!LinesLaws
<1>1. RegionInv => Rows!CacheFresh
  BY DEF RegionInv, CacheInv, Remembers, True, Rows!CacheFresh, Rows!Lines
<1>2. RegionInv => Rows!LinesLaws
  BY <1>1, RestShown DEF Rows!LinesLaws
<1>3. RegionInv /\ [Rows!Next]_(Rows!vars) => RegionInv'
  BY FoldsStep
<1>4. Rows!Init => RegionInv
  BY FoldsInit
<1>. QED  BY <1>2, <1>3, <1>4, PTL DEF Rows!Spec


---------------------------------------------------------------------------
(* Literals, for any contents, hashes and sizes                            *)

CONSTANTS Contents, HashOf, InitialCap, PageCap, MaxIds, MaxPages
VARIABLES added, pages, page, buckets, sealed, gave

Interned == INSTANCE Literals

---------------------------------------------------------------------------
(* Folds: recursion over sets of places, the last place first               *)

\* The last place of a set.
LEMMA LastIs ==
  ASSUME NEW n \in Nat, NEW s \in SUBSET (1 .. n), s # {}
  PROVE  Interned!Max(s) \in s /\ \A i \in s : Interned!Max(s) >= i
<1>1. \E x \in s : \A i \in s : x >= i
  <2>1. s \in SUBSET (0 .. n)
    OBVIOUS
  <2>. QED  BY <2>1, GreatestExists
<1>. QED  BY <1>1 DEF Interned!Max

\* What seating an old slot's entry makes of the new slots.
Reseated(b, e) == IF e = Interned!None THEN b ELSE Interned!Seat(b, e, Interned!Get(e))

\* Function h says of each set of old slots g what the new ones are, a at first, once the
\* entries in it are seated, the last after the rest.
Folds(h, n, a, g) ==
  \A s \in SUBSET (1 .. n) :
    h[s] = IF s = {} THEN a ELSE Reseated(h[s \ {Interned!Max(s)}], g[Interned!Max(s)])

\* There is one.
LEMMA FoldExists ==
  ASSUME NEW n \in Nat, NEW a, NEW g
  PROVE  \E h : Folds(h, n, a, g)
<1>1. PICK N : N = {k \in Nat : \E h : Folds(h, k, a, g)}
  OBVIOUS
<1>2. 0 \in N
  <2>1. PICK h : h = [s \in SUBSET (1 .. 0) |-> a]
    OBVIOUS
  <2>2. \A s \in SUBSET (1 .. 0) : s = {}
    OBVIOUS
  <2>3. \A s \in SUBSET (1 .. 0) : h[s] = a /\ s = {}
    BY <2>1, <2>2
  <2>4. Folds(h, 0, a, g)
    BY <2>3 DEF Folds
  <2>. QED  BY <1>1, <2>4
<1>3. ASSUME NEW k \in N PROVE k + 1 \in N
  <2>1. k \in Nat /\ k + 1 \in Nat
    BY <1>1
  <2>2. PICK f : Folds(f, k, a, g)
    BY <1>1
  <2>3. PICK h : h = [s \in SUBSET (1 .. k + 1) |->
                        IF k + 1 \in s THEN Reseated(f[s \ {k + 1}], g[k + 1]) ELSE f[s]]
    OBVIOUS
  <2>4. ASSUME NEW s \in SUBSET (1 .. k) PROVE h[s] = f[s]
    <3>1. s \in SUBSET (1 .. k + 1) /\ k + 1 \notin s
      BY <2>1
    <3>. QED  BY <2>3, <3>1
  <2>5. ASSUME NEW s \in SUBSET (1 .. k + 1)
        PROVE  h[s] = IF s = {} THEN a ELSE Reseated(h[s \ {Interned!Max(s)}], g[Interned!Max(s)])
    <3>1. CASE k + 1 \in s
      <4>1. PICK o : o = s \ {k + 1}
        OBVIOUS
      <4>2. o \in SUBSET (1 .. k)
        BY <2>1, <4>1
      <4>3. PICK m : m = Interned!Max(s)
        OBVIOUS
      <4>4. m \in s /\ \A i \in s : m >= i
        BY <2>1, <3>1, <4>3, LastIs
      <4>5. m = k + 1
        <5>1. m \in 1 .. k + 1 /\ m >= k + 1
          BY <3>1, <4>4
        <5>. QED  BY <2>1, <5>1
      <4>6. h[s] = Reseated(f[o], g[k + 1])
        BY <2>3, <3>1, <4>1
      <4>7. h[o] = f[o]
        BY <2>4, <4>2
      <4>. QED  BY <3>1, <4>1, <4>3, <4>5, <4>6, <4>7
    <3>2. CASE k + 1 \notin s
      <4>1. s \in SUBSET (1 .. k)
        BY <2>1, <3>2
      <4>2. h[s] = f[s]
        BY <2>4, <4>1
      <4>3. PICK o : o = s \ {Interned!Max(s)}
        OBVIOUS
      <4>4. o \in SUBSET (1 .. k)
        BY <4>1, <4>3
      <4>5. h[o] = f[o]
        BY <2>4, <4>4
      <4>6. f[s] = IF s = {} THEN a ELSE Reseated(f[o], g[Interned!Max(s)])
        BY <2>2, <4>1, <4>3 DEF Folds
      <4>. QED  BY <4>2, <4>3, <4>5, <4>6
    <3>. QED  BY <3>1, <3>2
  <2>6. Folds(h, k + 1, a, g)
    BY <2>5 DEF Folds
  <2>. QED  BY <1>1, <2>1, <2>6
<1>4. N = Nat
  <2>1. N \in SUBSET Nat
    BY <1>1
  <2>. QED  BY <1>2, <1>3, <2>1, Induction
<1>. QED  BY <1>1, <1>4

\* What it says of the first places, one more at a time.
LEMMA FoldPrefix ==
  ASSUME NEW n \in Nat, NEW a, NEW g, NEW h, Folds(h, n, a, g)
  PROVE  /\ h[1 .. 0] = a
         /\ \A k \in Nat : k + 1 <= n => h[1 .. k + 1] = Reseated(h[1 .. k], g[k + 1])
<1>1. h[1 .. 0] = a
  <2>1. 1 .. 0 \in SUBSET (1 .. n) /\ 1 .. 0 = {}
    OBVIOUS
  <2>. QED  BY <2>1 DEF Folds
<1>2. ASSUME NEW k \in Nat, k + 1 <= n PROVE h[1 .. k + 1] = Reseated(h[1 .. k], g[k + 1])
  <2>1. PICK s : s = 1 .. k + 1
    OBVIOUS
  <2>2. s \in SUBSET (1 .. n) /\ s # {} /\ k + 1 \in s /\ s \ {k + 1} = 1 .. k
    <3>1. \A i : i \in s <=> i \in 1 .. k \/ i = k + 1
      BY <2>1
    <3>2. k + 1 \notin 1 .. k
      OBVIOUS
    <3>3. s \in SUBSET (1 .. n)
      BY <1>2, <2>1
    <3>. QED  BY <3>1, <3>2, <3>3
  <2>3. PICK m : m = Interned!Max(s)
    OBVIOUS
  <2>4. m \in s /\ m >= k + 1
    BY <2>2, <2>3, LastIs
  <2>5. m = k + 1
    BY <2>1, <2>4
  <2>6. h[s] = Reseated(h[s \ {m}], g[m])
    BY <2>2, <2>3 DEF Folds
  <2>. QED  BY <2>1, <2>2, <2>5, <2>6
<1>. QED  BY <1>1, <1>2

---------------------------------------------------------------------------
(* The way of a hash through the slots                                     *)

\* Contents are sequences of bytes, each with a hash.
Hashable == /\ Contents \subseteq Seq(Nat) /\ HashOf \in [Contents -> Nat]
            /\ InitialCap \in Nat \ {0} /\ PageCap \in Nat

Way(q, h, k) == 1 + ((h + k - 1) % q)

\* Quotient and remainder are one pair.
LEMMA RemainderIs ==
  ASSUME NEW q \in Nat, q > 0, NEW d \in Nat, NEW r \in 0 .. q - 1
  PROVE (q * d + r) % q = r
<1>1. PICK x : x = q * d + r
  OBVIOUS
<1>2. PICK e \in Nat, s \in 0 .. q - 1 : x = q * e + s /\ s = x % q
  <2>1. x \in Nat
    BY <1>1
  <2>2. x % q \in 0 .. q - 1 /\ x \div q \in Nat /\ x = q * (x \div q) + (x % q)
    BY <2>1
  <2>. QED  BY <2>2
<1>3. ASSUME NEW c \in Nat, NEW t \in 0 .. q - 1, NEW f \in Nat, NEW u \in 0 .. q - 1,
             c < f, q * c + t = q * f + u
      PROVE  FALSE
  <2>1. PICK g \in Nat : f = c + 1 + g
    <3>1. f - c - 1 \in Nat /\ f = c + 1 + (f - c - 1)
      BY <1>3
    <3>. QED  BY <3>1
  <2>2. q * g \in Nat /\ q * f = q * c + q + q * g
    BY <2>1
  <2>. QED  BY <1>3, <2>2
<1>4. q * d + r = q * e + s
  BY <1>1, <1>2
<1>5. ~(d < e) /\ ~(e < d)
  <2>1. ~(d < e)
    BY <1>2, <1>3, <1>4
  <2>2. ~(e < d)
    BY <1>2, <1>3, <1>4
  <2>. QED  BY <2>1, <2>2
<1>6. d = e
  BY <1>2, <1>5
<1>7. PICK p \in Nat : p = q * d
  OBVIOUS
<1>8. r = s
  <2>1. p + r = p + s
    BY <1>4, <1>6, <1>7
  <2>. QED  BY <1>2, <1>7, <2>1
<1>9. x % q = r
  BY <1>2, <1>8
<1>. QED  BY <1>1, <1>9

\* It is of slots, and comes by each of them.
LEMMA WayIs ==
  ASSUME NEW q \in Nat, q > 0, NEW h \in Nat
  PROVE  /\ \A k \in 1 .. q : Way(q, h, k) \in 1 .. q
         /\ \A s \in 1 .. q : \E k \in 1 .. q : Way(q, h, k) = s
<1>1. ASSUME NEW k \in 1 .. q PROVE Way(q, h, k) \in 1 .. q
  <2>1. h + k - 1 \in Nat
    OBVIOUS
  <2>2. (h + k - 1) % q \in 0 .. q - 1
    BY <2>1
  <2>. QED  BY <2>2 DEF Way
<1>2. ASSUME NEW s \in 1 .. q PROVE \E k \in 1 .. q : Way(q, h, k) = s
  <2>1. PICK d \in Nat, r \in 0 .. q - 1 : h = q * d + r
    <3>1. h % q \in 0 .. q - 1 /\ h \div q \in Nat /\ h = q * (h \div q) + (h % q)
      OBVIOUS
    <3>. QED  BY <3>1
  <2>2. PICK p \in Nat : p = q * d
    OBVIOUS
  <2>3. CASE s > r
    <3>1. s - r \in 1 .. q /\ s - 1 \in 0 .. q - 1
      BY <2>3
    <3>2. h + (s - r) - 1 = q * d + (s - 1)
      BY <2>1, <2>2
    <3>3. (q * d + (s - 1)) % q = s - 1
      BY <3>1, RemainderIs
    <3>4. Way(q, h, s - r) = s
      BY <3>2, <3>3 DEF Way
    <3>. QED  BY <3>1, <3>4
  <2>4. CASE s <= r
    <3>1. (s + q) - r \in 1 .. q /\ s - 1 \in 0 .. q - 1 /\ d + 1 \in Nat
      BY <2>4
    <3>2. q * (d + 1) = p + q
      BY <2>2
    <3>3. h + ((s + q) - r) - 1 = q * (d + 1) + (s - 1)
      BY <2>1, <2>2, <3>2
    <3>4. (q * (d + 1) + (s - 1)) % q = s - 1
      BY <3>1, RemainderIs
    <3>5. Way(q, h, (s + q) - r) = s
      BY <3>3, <3>4 DEF Way
    <3>. QED  BY <3>1, <3>5
  <2>. QED  BY <2>3, <2>4
<1>. QED  BY <1>1, <1>2

\* The slots in the order they are tried.
LEMMA SlotsAre ==
  ASSUME NEW q \in Nat, q > 0, NEW b \in [1 .. q -> Nat], NEW h \in Nat
  PROVE  /\ Len(b) = q
         /\ Interned!Slots(b, h) = [k \in 1 .. q |-> Way(q, h, k)]
         /\ Len(Interned!Slots(b, h)) = q
<1>1. Len(b) = q
  OBVIOUS
<1>2. Interned!Slots(b, h) = [k \in 1 .. q |-> Way(q, h, k)]
  BY <1>1 DEF Interned!Slots, Way
<1>3. PICK o : o = Interned!Slots(b, h)
  OBVIOUS
<1>4. o \in [1 .. q -> 1 .. q]
  <2>1. \A k \in 1 .. q : Way(q, h, k) \in 1 .. q
    BY WayIs
  <2>. QED  BY <1>2, <1>3, <2>1
<1>5. Len(o) = q
  BY <1>4
<1>. QED  BY <1>1, <1>2, <1>3, <1>5

\* The least of a set.
LEMMA LeastIs ==
  ASSUME NEW n \in Nat, NEW I \in SUBSET (1 .. n), NEW k \in I, \A i \in I : k <= i
  PROVE  Interned!Min(I) = k
<1>1. PICK m : m = Interned!Min(I)
  OBVIOUS
<1>2. m \in I /\ \A i \in I : m <= i
  BY <1>1 DEF Interned!Min
<1>3. m <= k /\ k <= m /\ m \in Nat /\ k \in Nat
  BY <1>2
<1>. QED  BY <1>1, <1>3

\* The k-th slot on the way of a hash is the first empty one.
Seats(b, q, h, k) ==
  b[Way(q, h, k)] = 0 /\ \A j \in 1 .. q : j < k => b[Way(q, h, j)] # 0

\* An entry is seated there.
LEMMA SeatIs ==
  ASSUME NEW q \in Nat, q > 0, NEW b \in [1 .. q -> Nat], NEW bytes,
         HashOf[bytes] \in Nat, NEW entry, NEW k \in 1 .. q, Seats(b, q, HashOf[bytes], k)
  PROVE  Interned!Seat(b, entry, bytes) = [b EXCEPT ![Way(q, HashOf[bytes], k)] = entry]
<1>1. PICK h \in Nat : h = HashOf[bytes]
  OBVIOUS
<1>2. PICK o : o = Interned!Slots(b, h)
  OBVIOUS
<1>3. Len(o) = q /\ o = [j \in 1 .. q |-> Way(q, h, j)]
  BY <1>2, SlotsAre
<1>4. PICK I : I = {i \in 1 .. Len(o) : b[o[i]] = 0 \/ FALSE}
  OBVIOUS
<1>5. Interned!Min(I) = k /\ I # {}
  <2>1. I \in SUBSET (1 .. q) /\ k \in I
    BY <1>1, <1>3, <1>4 DEF Seats
  <2>2. ASSUME NEW i \in I PROVE k <= i
    <3>1. i \in 1 .. q /\ b[Way(q, h, i)] = 0
      BY <1>3, <1>4
    <3>2. ~(i < k)
      BY <1>1, <3>1 DEF Seats
    <3>. QED  BY <3>1, <3>2
  <2>. QED  BY <2>1, <2>2, LeastIs
<1>6. o[k] = Way(q, h, k) /\ Way(q, h, k) \in 1 .. q /\ k # 0
  <2>1. \A j \in 1 .. q : Way(q, h, j) \in 1 .. q
    BY WayIs
  <2>. QED  BY <1>3, <2>1
<1>7. PICK w : w = Way(q, h, k)
  OBVIOUS
<1>8. Interned!FirstSlot(b, h, LAMBDA e : FALSE) = w
  <2>1. Interned!SelectInSeq(o, LAMBDA s : b[s] = 0 \/ FALSE) = k
    BY <1>4, <1>5 DEF Interned!SelectInSeq
  <2>. QED  BY <1>2, <1>6, <1>7, <2>1 DEF Interned!FirstSlot, Interned!None
<1>9. Interned!Seat(b, entry, bytes) = [b EXCEPT ![w] = entry]
  <2>1. w # 0
    BY <1>6, <1>7
  <2>. QED  BY <1>1, <1>8, <2>1 DEF Interned!Seat
<1>. QED  BY <1>1, <1>7, <1>9

---------------------------------------------------------------------------
(* A table of entries E, those of contents gv, in q slots                   *)

Seated(b, q, gv, e) ==
  \E k \in 1 .. q : /\ b[Way(q, HashOf[gv[e]], k)] = e
                    /\ \A j \in 1 .. q : j < k => b[Way(q, HashOf[gv[e]], j)] # 0

Table(b, q, gv, E) ==
  /\ b \in [1 .. q -> Nat]
  /\ \A s \in 1 .. q : b[s] # 0 => b[s] \in E
  /\ \A s, t \in 1 .. q : b[s] = b[t] /\ b[s] # 0 => s = t
  /\ \A e \in E : Seated(b, q, gv, e)

\* There is an empty slot when there are more slots than entries.
LEMMA EmptySlot ==
  ASSUME NEW q \in Nat, NEW n \in Nat, n < q, NEW E \in SUBSET (1 .. n), NEW b, NEW gv,
         Table(b, q, gv, E)
  PROVE  \E s \in 1 .. q : b[s] = 0
<1>. SUFFICES ASSUME \A s \in 1 .. q : b[s] # 0 PROVE FALSE
  OBVIOUS
<1>1. b \in [1 .. q -> 1 .. n]
  <2>1. \A s \in 1 .. q : b[s] \in 1 .. n
    BY DEF Table
  <2>. QED  BY <2>1 DEF Table
<1>2. /\ IsFiniteSet(1 .. q) /\ Cardinality(1 .. q) = q
      /\ IsFiniteSet(1 .. n) /\ Cardinality(1 .. n) = n
  <2>1. \A m \in Nat : IsFiniteSet(1 .. m) /\ Cardinality(1 .. m) = m
    <3>1. ASSUME NEW m \in Nat PROVE IsFiniteSet(1 .. m) /\ Cardinality(1 .. m) = m
      <4>1. 1 \in Int /\ m \in Int
        OBVIOUS
      <4>2. Cardinality(1 .. m) = IF 1 > m THEN 0 ELSE m - 1 + 1
        BY <4>1, FS_Interval
      <4>3. IsFiniteSet(1 .. m)
        BY <4>1, FS_Interval
      <4>. QED  BY <4>2, <4>3
    <3>. QED  BY <3>1
  <2>. QED  BY <2>1
<1>3. \E s, t \in 1 .. q : s # t /\ b[s] = b[t]
  <2>1. Cardinality(1 .. n) < Cardinality(1 .. q)
    BY <1>2
  <2>. QED  BY <1>1, <1>2, <2>1, FS_PigeonHole
<1>. QED  BY <1>3 DEF Table

\* Where the first of the empty slots on a way is.
LEMMA FirstEmpty ==
  ASSUME NEW q \in Nat, q > 0, NEW h \in Nat, NEW b, NEW s \in 1 .. q, b[s] = 0
  PROVE  \E k \in 1 .. q : Seats(b, q, h, k)
<1>1. PICK I : I = {k \in 1 .. q : b[Way(q, h, k)] = 0}
  OBVIOUS
<1>2. I \in SUBSET Nat /\ I # {}
  <2>1. \E k \in 1 .. q : Way(q, h, k) = s
    BY WayIs
  <2>. QED  BY <1>1, <2>1
<1>3. PICK k \in I : \A i \in I : k <= i
  BY <1>2, LeastExists
<1>4. ASSUME NEW j \in 1 .. q, j < k PROVE b[Way(q, h, j)] # 0
  <2>1. k \in Nat /\ ~(k <= j)
    BY <1>1, <1>4
  <2>. QED  BY <1>1, <1>3, <2>1
<1>. QED  BY <1>1, <1>3, <1>4 DEF Seats

\* Another entry takes its seat, and leaves the others theirs.
LEMMA SeatKeeps ==
  ASSUME NEW q \in Nat, NEW n \in Nat, n < q, NEW E \in SUBSET (1 .. n), NEW b, NEW gv,
         Table(b, q, gv, E), NEW e \in Nat, e # 0, e \notin E, HashOf[gv[e]] \in Nat,
         \A i \in E : HashOf[gv[i]] \in Nat
  PROVE  Table(Interned!Seat(b, e, gv[e]), q, gv, E \cup {e})
<1>1. PICK h \in Nat : h = HashOf[gv[e]]
  OBVIOUS
<1>2. q > 0
  OBVIOUS
<1>3. PICK k \in 1 .. q : Seats(b, q, h, k)
  <2>1. \E s \in 1 .. q : b[s] = 0
    BY EmptySlot
  <2>. QED  BY <1>2, <2>1, FirstEmpty
<1>4. PICK w : w = Way(q, h, k)
  OBVIOUS
<1>5. w \in 1 .. q /\ b[w] = 0
  <2>1. \A j \in 1 .. q : Way(q, h, j) \in 1 .. q
    BY <1>2, WayIs
  <2>. QED  BY <1>3, <1>4, <2>1 DEF Seats
<1>6. b \in [1 .. q -> Nat]
  BY DEF Table
<1>7. PICK c : c = [b EXCEPT ![w] = e]
  OBVIOUS
<1>8. Interned!Seat(b, e, gv[e]) = c
  <2>1. PICK y : y = gv[e]
    OBVIOUS
  <2>2. h = HashOf[y]
    BY <1>1, <2>1
  <2>3. Seats(b, q, HashOf[y], k) /\ HashOf[y] \in Nat
    BY <1>1, <1>3, <2>2
  <2>4. Interned!Seat(b, e, y) = [b EXCEPT ![Way(q, HashOf[y], k)] = e]
    BY <1>2, <1>6, <2>3, SeatIs
  <2>. QED  BY <1>4, <1>7, <2>1, <2>2, <2>4
<1>9. c \in [1 .. q -> Nat] /\ c[w] = e /\ \A s \in 1 .. q : s # w => c[s] = b[s]
  BY <1>5, <1>6, <1>7
<1>10. \A s \in 1 .. q : b[s] # 0 => c[s] = b[s] /\ s # w
  BY <1>5, <1>9
<1>11. \A s \in 1 .. q : c[s] # 0 => c[s] \in E \cup {e}
  BY <1>9 DEF Table
<1>12. \A s, t \in 1 .. q : c[s] = c[t] /\ c[s] # 0 => s = t
  <2>1. \A s \in 1 .. q : b[s] # e
    BY DEF Table
  <2>. QED  BY <1>9, <2>1 DEF Table
<1>13. Seated(c, q, gv, e)
  <2>1. ASSUME NEW j \in 1 .. q, j < k PROVE c[Way(q, h, j)] # 0
    <3>1. Way(q, h, j) \in 1 .. q
      BY <1>2, WayIs
    <3>. QED  BY <1>3, <1>10, <2>1, <3>1 DEF Seats
  <2>. QED  BY <1>1, <1>4, <1>9, <2>1 DEF Seated
<1>14. ASSUME NEW i \in E PROVE Seated(c, q, gv, i)
  <2>1. PICK g \in Nat : g = HashOf[gv[i]]
    OBVIOUS
  <2>2. PICK m \in 1 .. q : /\ b[Way(q, g, m)] = i
                            /\ \A j \in 1 .. q : j < m => b[Way(q, g, j)] # 0
    <3>1. Seated(b, q, gv, i)
      BY DEF Table
    <3>. QED  BY <2>1, <3>1 DEF Seated
  <2>3. \A j \in 1 .. q : Way(q, g, j) \in 1 .. q
    BY <1>2, WayIs
  <2>4. c[Way(q, g, m)] = i
    <3>1. i # 0
      OBVIOUS
    <3>. QED  BY <1>10, <2>2, <2>3, <3>1
  <2>5. \A j \in 1 .. q : j < m => c[Way(q, g, j)] # 0
    BY <1>10, <2>2, <2>3
  <2>. QED  BY <2>1, <2>4, <2>5 DEF Seated
<1>. QED  BY <1>8, <1>9, <1>11, <1>12, <1>13, <1>14 DEF Table

\* The table the entries of another are seated in.
LEMMA GrownIs ==
  ASSUME Hashable, NEW q \in Nat, NEW n \in Nat, n <= q, NEW gv, NEW old,
         Table(old, q, gv, 1 .. n), NEW size \in Nat, n < size,
         size = IF q = 0 THEN InitialCap ELSE 2 * q,
         \A e \in 1 .. n : HashOf[gv[e]] \in Nat /\ Interned!Get(e) = gv[e]
  PROVE  Table(Interned!Grown(old), size, gv, 1 .. n)
<1>. DEFINE Seen(k) == {e \in 1 .. n : \E i \in 1 .. k : old[i] = e}
<1>1. /\ old \in [1 .. q -> Nat] /\ Len(old) = q /\ DOMAIN old = 1 .. q
      /\ (old = <<>> <=> q = 0)
  <2>1. old \in [1 .. q -> Nat]
    BY DEF Table
  <2>. QED  BY <2>1
<1>2. PICK a : a = [k \in 1 .. size |-> 0]
  OBVIOUS
<1>3. Table(a, size, gv, Seen(0))
  <2>1. Seen(0) = {}
    OBVIOUS
  <2>2. a \in [1 .. size -> Nat] /\ \A s \in 1 .. size : a[s] = 0
    BY <1>2
  <2>. HIDE DEF Seen
  <2>. QED  BY <2>1, <2>2 DEF Table
<1>4. PICK f : Folds(f, q, a, old)
  BY FoldExists
<1>. DEFINE Of(h, s) == IF s = {} THEN a
                         ELSE IF old[Interned!Max(s)] = Interned!None
                              THEN h[s \ {Interned!Max(s)}]
                              ELSE Interned!Seat(h[s \ {Interned!Max(s)}], old[Interned!Max(s)],
                                                 Interned!Get(old[Interned!Max(s)]))
            R(h) == h = [s \in SUBSET DOMAIN old |-> Of(h, s)]
<1>5. \E h : R(h)
  <2>1. PICK h : h = [s \in SUBSET DOMAIN old |-> f[s]]
    OBVIOUS
  <2>2. ASSUME NEW s \in SUBSET (1 .. q)
        PROVE  h[s] = Of(h, s)
    <3>1. PICK o : o = s \ {Interned!Max(s)}
      OBVIOUS
    <3>2. h[s] = f[s] /\ h[o] = f[o]
      BY <1>1, <2>1, <3>1
    <3>3. f[s] = IF s = {} THEN a ELSE Reseated(f[o], old[Interned!Max(s)])
      BY <1>4, <3>1 DEF Folds
    <3>. QED  BY <3>1, <3>2, <3>3 DEF Reseated
  <2>. HIDE DEF Of
  <2>3. R(h)
    BY <1>1, <2>1, <2>2
  <2>. QED  BY <2>3
<1>6. PICK h : h = CHOOSE g : R(g)
  OBVIOUS
<1>7. R(h)
  BY <1>5, <1>6
<1>8. Interned!Grown(old) = h[DOMAIN old]
  <2>1. a = [k \in 1 .. (IF old = <<>> THEN InitialCap ELSE 2 * Len(old)) |-> Interned!None]
    BY <1>1, <1>2 DEF Interned!None
  <2>. QED  BY <1>6, <2>1 DEF Interned!Grown, Interned!FoldLeft, Interned!MapThenFoldSet
<1>9. Folds(h, q, a, old)
  <2>1. \A s \in SUBSET (1 .. q) : h[s] = Of(h, s)
    <3>. HIDE DEF Of
    <3>. QED  BY <1>1, <1>7
  <2>. HIDE DEF R
  <2>. QED  BY <2>1 DEF Folds, Reseated
<1>. HIDE DEF R, Of
<1>10. /\ h[1 .. 0] = a
       /\ \A k \in Nat : k + 1 <= q => h[1 .. k + 1] = Reseated(h[1 .. k], old[k + 1])
  BY <1>9, FoldPrefix
<1>. DEFINE M == {k \in Nat : k <= q => Table(h[1 .. k], size, gv, Seen(k))}
<1>11. 0 \in M
  BY <1>3, <1>10
<1>12. ASSUME NEW k \in M PROVE k + 1 \in M
  <2>1. k \in Nat
    OBVIOUS
  <2>. SUFFICES ASSUME k + 1 <= q PROVE Table(h[1 .. k + 1], size, gv, Seen(k + 1))
    BY <2>1
  <2>2. PICK b : b = h[1 .. k]
    OBVIOUS
  <2>3. Table(b, size, gv, Seen(k))
    BY <2>1, <2>2
  <2>4. PICK e : e = old[k + 1]
    OBVIOUS
  <2>5. h[1 .. k + 1] = Reseated(b, e)
    BY <1>10, <2>1, <2>2, <2>4
  <2>6. k + 1 \in 1 .. q
    BY <2>1
  <2>7. CASE e = 0
    <3>1. Seen(k + 1) = Seen(k)
      <4>1. ASSUME NEW x \in 1 .. n
            PROVE  (\E i \in 1 .. k + 1 : old[i] = x) <=> (\E i \in 1 .. k : old[i] = x)
        <5>1. old[k + 1] # x
          BY <2>4, <2>7
        <5>. QED  BY <2>1, <5>1
      <4>. QED  BY <4>1
    <3>2. h[1 .. k + 1] = b
      BY <2>5, <2>7 DEF Reseated, Interned!None
    <3>. HIDE DEF Seen
    <3>. QED  BY <2>3, <3>1, <3>2
  <2>8. CASE e # 0
    <3>1. e \in 1 .. n
      BY <2>4, <2>6, <2>8 DEF Table
    <3>2. e \notin Seen(k)
      <4>1. ASSUME NEW i \in 1 .. k PROVE old[i] # e
        <5>1. i \in 1 .. q /\ i # k + 1
          BY <2>1, <2>6
        <5>. QED  BY <2>4, <2>6, <2>8, <5>1 DEF Table
      <4>. QED  BY <4>1
    <3>3. Seen(k + 1) = Seen(k) \cup {e}
      <4>1. ASSUME NEW x
            PROVE  (\E i \in 1 .. k + 1 : old[i] = x) <=> (\E i \in 1 .. k : old[i] = x) \/ x = e
        BY <2>1, <2>4
      <4>. QED  BY <3>1, <4>1
    <3>4. Seen(k) \in SUBSET (1 .. n)
      OBVIOUS
    <3>. HIDE DEF Seen
    <3>5. h[1 .. k + 1] = Interned!Seat(b, e, gv[e])
      BY <2>5, <2>8, <3>1 DEF Reseated, Interned!None
    <3>6. e \in Nat /\ HashOf[gv[e]] \in Nat /\ \A i \in Seen(k) : HashOf[gv[i]] \in Nat
      BY <3>1, <3>4
    <3>7. Table(Interned!Seat(b, e, gv[e]), size, gv, Seen(k) \cup {e})
      BY <2>3, <2>8, <3>2, <3>4, <3>6, SeatKeeps
    <3>. QED  BY <3>3, <3>5, <3>7
  <2>. QED  BY <2>7, <2>8
<1>13. q \in M
  <2>1. M \in SUBSET Nat
    OBVIOUS
  <2>. HIDE DEF M
  <2>. QED  BY <1>11, <1>12, <2>1, Induction
<1>14. Seen(q) = 1 .. n
  <2>1. ASSUME NEW e \in 1 .. n PROVE \E i \in 1 .. q : old[i] = e
    <3>1. Seated(old, q, gv, e) /\ HashOf[gv[e]] \in Nat /\ q > 0
      BY DEF Table
    <3>2. PICK k \in 1 .. q : old[Way(q, HashOf[gv[e]], k)] = e
      BY <3>1 DEF Seated
    <3>3. Way(q, HashOf[gv[e]], k) \in 1 .. q
      BY <3>1, WayIs
    <3>. QED  BY <3>2, <3>3
  <2>. QED  BY <2>1
<1>. HIDE DEF Seen
<1>15. Table(h[1 .. q], size, gv, Seen(q))
  BY <1>13
<1>. QED  BY <1>1, <1>8, <1>14, <1>15

---------------------------------------------------------------------------
(* What is in the table lies in its pages, and is found                     *)

Literal == [page : Nat, from : Nat, len : Nat]

\* Literal e is of content c, which lies in one of the pages ps.
Lies(ps, e, c) ==
  /\ e.len = Len(c)
  /\ e.len > 0 => /\ e.page \in 1 .. Len(ps) /\ e.from > 0
                  /\ e.from + e.len - 1 <= Len(ps[e.page])
                  /\ \A j \in 1 .. e.len : ps[e.page][(e.from + j) - 1] = c[j]

\* Pages ps, of which pg is being filled, hold all of the entries ad, those of gv.
Stored(ps, pg, ad, gv) ==
  /\ ps \in Seq(Seq(Nat)) /\ pg \in 0 .. Len(ps)
  /\ ad \in Seq(Literal) /\ gv \in Seq(Contents) /\ Len(ad) = Len(gv)
  /\ \A id \in 1 .. Len(gv) : Lies(ps, ad[id], gv[id])
  /\ \A i \in 1 .. Len(ps) : Len(ps[i]) > PageCap => i # pg

Once(gv) == \A i, j \in 1 .. Len(gv) : gv[i] = gv[j] => i = j

Looked(b, gv) == Table(b, Len(b), gv, 1 .. Len(gv)) /\ b \in Seq(Nat) /\ Len(gv) <= Len(b)

LitInv == Stored(pages, page, added, gave) /\ Once(gave) /\ Looked(buckets, gave)

LEMMA GetIs ==
  ASSUME Hashable, LitInv, NEW id \in 1 .. Len(gave)
  PROVE  Interned!Get(id) = gave[id]
<1>1. PICK e : e = added[id]
  OBVIOUS
<1>2. PICK c : c = gave[id]
  OBVIOUS
<1>3. e \in Literal /\ c \in Seq(Nat) /\ Lies(pages, e, c)
  BY <1>1, <1>2 DEF LitInv, Stored, Hashable
<1>4. e.page \in Nat /\ e.from \in Nat /\ e.len \in Nat
  BY <1>3 DEF Literal
<1>5. CASE e.len = 0
  <2>1. Interned!Get(id) = <<>>
    BY <1>1, <1>5 DEF Interned!Get
  <2>2. Len(c) = 0
    BY <1>3, <1>5 DEF Lies
  <2>3. c = <<>>
    BY <1>3, <2>2
  <2>. QED  BY <1>2, <2>1, <2>3
<1>6. CASE e.len # 0
  <2>1. PICK p \in Seq(Nat) : p = pages[e.page]
    BY <1>3, <1>4, <1>6 DEF LitInv, Stored, Lies
  <2>2. PICK f \in Nat : f = e.from
    BY <1>4
  <2>3. PICK n \in Nat : n = e.len
    BY <1>4
  <2>4. /\ f > 0 /\ n > 0 /\ n = Len(c) /\ f + n - 1 <= Len(p)
        /\ \A j \in 1 .. n : p[(f + j) - 1] = c[j]
    <3>1. n = Len(c) /\ n > 0 /\ e.len > 0
      BY <1>3, <1>4, <1>6, <2>3 DEF Lies
    <3>2. f > 0 /\ f + n - 1 <= Len(p)
      BY <1>3, <2>1, <2>2, <2>3, <3>1 DEF Lies
    <3>3. \A j \in 1 .. n : p[(f + j) - 1] = c[j]
      BY <1>3, <2>1, <2>2, <2>3, <3>1 DEF Lies
    <3>. QED  BY <3>1, <3>2, <3>3
  <2>5. PICK s : s = SubSeq(p, f, f + n - 1)
    OBVIOUS
  <2>6. Interned!Get(id) = s
    BY <1>1, <1>6, <2>1, <2>2, <2>3, <2>5 DEF Interned!Get
  <2>7. s = [j \in 1 .. n |-> p[(f + j) - 1]]
    <3>1. f \in 1 .. Len(p) + 1 /\ f + n - 1 \in f - 1 .. Len(p)
      BY <2>4
    <3>2. \A i \in 1 .. n : f + i - 1 = (f + i) - 1
      OBVIOUS
    <3>3. (f + n - 1) - f + 1 = n
      OBVIOUS
    <3>. QED  BY <2>4, <2>5, <3>1, <3>2, <3>3
  <2>8. c = [j \in 1 .. n |-> c[j]]
    BY <1>3, <2>4
  <2>9. s = c
    BY <2>4, <2>7, <2>8
  <2>. QED  BY <1>2, <2>6, <2>9
<1>. QED  BY <1>5, <1>6

\* Looking for a content finds the entry of it, or none.
LEMMA ProbeIs ==
  ASSUME Hashable, LitInv
  PROVE  /\ \A id \in 1 .. Len(gave) : Interned!Probe(gave[id]) = id
         /\ \A bytes \in Contents :
              Interned!Probe(bytes) # Interned!None
                => Interned!Probe(bytes) \in 1 .. Len(gave) /\ gave[Interned!Probe(bytes)] = bytes
<1>1. PICK q \in Nat : q = Len(buckets)
  BY DEF LitInv, Looked
<1>2. PICK n \in Nat : n = Len(gave)
  BY DEF LitInv, Stored
<1>3. Len(added) = n /\ n <= q /\ Table(buckets, q, gave, 1 .. n)
  BY <1>1, <1>2 DEF LitInv, Looked, Stored
<1>4. buckets \in [1 .. q -> Nat] /\ \A s \in 1 .. q : buckets[s] # 0 => buckets[s] \in 1 .. n
  BY <1>3 DEF Table
<1>5. \A id \in 1 .. n : Interned!Get(id) = gave[id] /\ gave[id] \in Contents
  <2>1. \A id \in 1 .. n : gave[id] \in Contents
    BY <1>2 DEF LitInv, Stored
  <2>. QED  BY <1>2, <2>1, GetIs
<1>. DEFINE Will(s, bytes) == \/ buckets[s] = Interned!None
                              \/ buckets[s] <= Len(added) /\ Interned!Get(buckets[s]) = bytes
<1>6. ASSUME NEW bytes \in Contents, q > 0
      PROVE  \/ /\ Interned!Probe(bytes) = 0
                /\ \A i \in 1 .. q : ~Will(Way(q, HashOf[bytes], i), bytes)
             \/ \E m \in 1 .. q :
                  /\ Interned!Probe(bytes) = buckets[Way(q, HashOf[bytes], m)]
                  /\ Will(Way(q, HashOf[bytes], m), bytes)
                  /\ \A i \in 1 .. q : Will(Way(q, HashOf[bytes], i), bytes) => m <= i
  <2>1. PICK h \in Nat : h = HashOf[bytes]
    BY DEF Hashable
  <2>2. PICK o : o = Interned!Slots(buckets, h)
    OBVIOUS
  <2>3. Len(o) = q /\ o = [j \in 1 .. q |-> Way(q, h, j)]
    BY <1>4, <1>6, <2>2, SlotsAre
  <2>4. \A i \in 1 .. q : o[i] = Way(q, h, i) /\ Way(q, h, i) \in 1 .. q
    <3>1. \A i \in 1 .. q : Way(q, h, i) \in 1 .. q
      BY <1>6, WayIs
    <3>. QED  BY <2>3, <3>1
  <2>5. PICK I : I = {i \in 1 .. Len(o) : Will(o[i], bytes)}
    OBVIOUS
  <2>6. PICK k : k = IF I # {} THEN Interned!Min(I) ELSE 0
    OBVIOUS
  <2>7. Interned!Probe(bytes) = IF k = 0 THEN 0
                                ELSE IF o[k] = 0 THEN 0 ELSE buckets[o[k]]
    <3>1. Interned!SelectInSeq(o, LAMBDA s : buckets[s] = Interned!None
            \/ (buckets[s] <= Len(added) /\ Interned!Get(buckets[s]) = bytes)) = k
      BY <2>5, <2>6 DEF Interned!SelectInSeq
    <3>2. Interned!FirstSlot(buckets, h,
            LAMBDA e : e <= Len(added) /\ Interned!Get(e) = bytes) = IF k = 0 THEN 0 ELSE o[k]
      BY <2>2, <3>1 DEF Interned!FirstSlot
    <3>. QED  BY <2>1, <3>2 DEF Interned!Probe, Interned!None
  <2>8. CASE I = {}
    <3>1. Interned!Probe(bytes) = 0
      BY <2>6, <2>7, <2>8
    <3>2. ASSUME NEW i \in 1 .. q PROVE ~Will(Way(q, h, i), bytes)
      <4>1. ~Will(o[i], bytes)
        <5>. HIDE DEF Will
        <5>. QED  BY <2>3, <2>5, <2>8
      <4>. QED  BY <2>4, <4>1
    <3>. QED  BY <2>1, <3>1, <3>2
  <2>9. CASE I # {}
    <3>1. I \in SUBSET (1 .. q) /\ I \in SUBSET Nat
      BY <2>3, <2>5
    <3>2. PICK m \in I : \A i \in I : m <= i
      BY <2>9, <3>1, LeastExists
    <3>3. Interned!Min(I) = m
      BY <3>1, <3>2, LeastIs
    <3>4. m \in 1 .. q /\ Will(o[m], bytes) /\ k = m
      <4>. HIDE DEF Will
      <4>. QED  BY <2>5, <2>6, <2>9, <3>1, <3>2, <3>3
    <3>5. Interned!Probe(bytes) = buckets[o[m]]
      <4>1. o[m] \in 1 .. q
        BY <2>4, <3>4
      <4>2. o[m] # 0 /\ m # 0
        BY <3>4, <4>1
      <4>. QED  BY <2>7, <3>4, <4>2
    <3>6. ASSUME NEW i \in 1 .. q, Will(Way(q, h, i), bytes) PROVE m <= i
      <4>1. i \in I
        <5>. HIDE DEF Will
        <5>. QED  BY <2>3, <2>4, <2>5, <3>6
      <4>. QED  BY <3>2, <4>1
    <3>. HIDE DEF Will
    <3>. QED  BY <2>1, <2>4, <3>4, <3>5, <3>6
  <2>. QED  BY <2>8, <2>9
<1>7. ASSUME NEW id \in 1 .. n PROVE Interned!Probe(gave[id]) = id
  <2>1. PICK bytes \in Contents : bytes = gave[id]
    BY <1>5
  <2>2. PICK h \in Nat : h = HashOf[bytes]
    BY DEF Hashable
  <2>3. q > 0
    BY <1>3
  <2>4. PICK k \in 1 .. q : /\ buckets[Way(q, h, k)] = id
                            /\ \A j \in 1 .. q : j < k => buckets[Way(q, h, j)] # 0
    BY <1>3, <2>1, <2>2 DEF Table, Seated
  <2>5. Will(Way(q, h, k), bytes)
    BY <1>3, <1>5, <2>1, <2>4
  <2>6. PICK m \in 1 .. q : /\ Interned!Probe(bytes) = buckets[Way(q, h, m)]
                            /\ Will(Way(q, h, m), bytes)
                            /\ \A i \in 1 .. q : Will(Way(q, h, i), bytes) => m <= i
    <3>. HIDE DEF Will
    <3>. QED  BY <1>6, <2>2, <2>3, <2>5
  <2>7. m <= k
    <3>. HIDE DEF Will
    <3>. QED  BY <2>5, <2>6
  <2>8. CASE m = k
    BY <2>1, <2>4, <2>6, <2>8
  <2>9. CASE m # k
    <3>1. PICK s \in 1 .. q : s = Way(q, h, m)
      BY <2>3, WayIs
    <3>2. buckets[s] # 0
      BY <2>4, <2>7, <2>9, <3>1
    <3>3. buckets[s] \in 1 .. n /\ Interned!Get(buckets[s]) = bytes
      BY <1>4, <2>6, <3>1, <3>2 DEF Interned!None
    <3>4. gave[buckets[s]] = gave[id]
      BY <1>5, <2>1, <3>3
    <3>5. buckets[s] = id
      BY <1>2, <3>3, <3>4 DEF LitInv, Once
    <3>. QED  BY <2>1, <2>6, <3>1, <3>5
  <2>. QED  BY <2>8, <2>9
<1>8. ASSUME NEW bytes \in Contents, Interned!Probe(bytes) # Interned!None
      PROVE  Interned!Probe(bytes) \in 1 .. n /\ gave[Interned!Probe(bytes)] = bytes
  <2>1. q > 0
    <3>. SUFFICES ASSUME q = 0 PROVE FALSE
      OBVIOUS
    <3>1. PICK h : h = HashOf[bytes]
      OBVIOUS
    <3>2. PICK o : o = Interned!Slots(buckets, h)
      OBVIOUS
    <3>3. o = <<>> /\ Len(o) = 0
      <4>1. o = [k \in 1 .. 0 |-> 1 + ((h + k - 1) % Len(buckets))]
        BY <1>1, <3>2 DEF Interned!Slots
      <4>. QED  BY <4>1
    <3>4. Interned!SelectInSeq(o, LAMBDA s : buckets[s] = Interned!None
            \/ (buckets[s] <= Len(added) /\ Interned!Get(buckets[s]) = bytes)) = 0
      BY <3>3 DEF Interned!SelectInSeq
    <3>5. Interned!FirstSlot(buckets, h,
            LAMBDA e : e <= Len(added) /\ Interned!Get(e) = bytes) = 0
      BY <3>2, <3>4 DEF Interned!FirstSlot
    <3>. QED  BY <1>8, <3>1, <3>5 DEF Interned!Probe, Interned!None
  <2>2. PICK h \in Nat : h = HashOf[bytes]
    BY DEF Hashable
  <2>3. PICK m \in 1 .. q : /\ Interned!Probe(bytes) = buckets[Way(q, h, m)]
                            /\ Will(Way(q, h, m), bytes)
    <3>. HIDE DEF Will
    <3>. QED  BY <1>6, <1>8, <2>1, <2>2 DEF Interned!None
  <2>4. PICK s \in 1 .. q : s = Way(q, h, m)
    BY <2>1, WayIs
  <2>5. buckets[s] # 0
    BY <1>8, <2>3, <2>4 DEF Interned!None
  <2>6. buckets[s] \in 1 .. n /\ Interned!Get(buckets[s]) = bytes
    BY <1>4, <2>3, <2>4, <2>5 DEF Interned!None
  <2>. QED  BY <1>5, <2>3, <2>4, <2>6
<1>. QED  BY <1>2, <1>7, <1>8

---------------------------------------------------------------------------
(* What adding does                                                        *)

\* Bytes are copied to where nothing lies.
LEMMA CopiedKeeps ==
  ASSUME Hashable, LitInv, NEW bytes \in Contents, NEW c, c = Interned!Copied(bytes)
  PROVE  /\ Stored(c.pages, c.page, added, gave)
         /\ c.at \in Literal /\ Lies(c.pages, c.at, bytes)
<1>1. PICK ps \in Seq(Seq(Nat)) : ps = pages
  BY DEF LitInv, Stored
<1>2. PICK pg \in 0 .. Len(ps) : pg = page
  BY <1>1 DEF LitInv, Stored
<1>3. PICK n \in Nat : n = Len(ps)
  OBVIOUS
<1>4. bytes \in Seq(Nat) /\ PageCap \in Nat
  BY DEF Hashable
<1>5. PICK z \in Nat : z = Len(bytes)
  BY <1>4
<1>6. /\ \A id \in 1 .. Len(gave) : Lies(ps, added[id], gave[id]) /\ added[id] \in Literal
      /\ \A i \in 1 .. n : Len(ps[i]) > PageCap => i # pg
  BY <1>1, <1>2, <1>3 DEF LitInv, Stored
<1>7. \A i \in 1 .. n : ps[i] \in Seq(Nat) /\ Len(ps[i]) \in Nat
  BY <1>3
<1>. DEFINE Longer(rs) ==
       /\ rs \in Seq(Seq(Nat)) /\ Len(rs) >= n
       /\ \A i \in 1 .. n : /\ Len(rs[i]) >= Len(ps[i]) /\ Len(rs[i]) \in Nat
                            /\ \A j \in 1 .. Len(ps[i]) : rs[i][j] = ps[i][j]
\* Whatever page is longer now, what lay in it still does.
<1>8. ASSUME NEW rs, Longer(rs), NEW id \in 1 .. Len(gave)
      PROVE  Lies(rs, added[id], gave[id])
  <2>1. PICK e : e = added[id]
    OBVIOUS
  <2>2. PICK g : g = gave[id]
    OBVIOUS
  <2>3. Lies(ps, e, g) /\ e \in Literal
    BY <1>6, <2>1, <2>2
  <2>4. PICK i \in Nat : i = e.page
    BY <2>3 DEF Literal
  <2>5. PICK f \in Nat : f = e.from
    BY <2>3 DEF Literal
  <2>6. PICK l \in Nat : l = e.len
    BY <2>3 DEF Literal
  <2>7. CASE l = 0
    BY <2>1, <2>2, <2>3, <2>6, <2>7 DEF Lies
  <2>8. CASE l > 0
    <3>1. i \in 1 .. n /\ f > 0 /\ f + l - 1 <= Len(ps[i])
      BY <1>3, <2>3, <2>4, <2>5, <2>6, <2>8 DEF Lies
    <3>2. \A j \in 1 .. l : ps[i][(f + j) - 1] = g[j]
      BY <2>3, <2>4, <2>5, <2>6, <2>8 DEF Lies
    <3>3. Len(rs[i]) >= Len(ps[i]) /\ Len(rs[i]) \in Nat /\ Len(ps[i]) \in Nat
      BY <1>7, <1>8, <3>1
    <3>4. f + l - 1 <= Len(rs[i])
      BY <3>1, <3>3
    <3>5. ASSUME NEW j \in 1 .. l PROVE rs[i][(f + j) - 1] = g[j]
      <4>1. (f + j) - 1 \in 1 .. Len(ps[i])
        BY <3>1, <3>3
      <4>. QED  BY <1>8, <3>1, <3>2, <4>1
    <3>6. i \in 1 .. Len(rs)
      <4>1. Len(rs) \in Nat /\ Len(rs) >= n
        BY <1>8
      <4>. QED  BY <3>1, <4>1
    <3>7. l = Len(g)
      BY <2>3, <2>6 DEF Lies
    <3>. HIDE DEF Longer
    <3>8. Lies(rs, e, g)
      BY <2>4, <2>5, <2>6, <3>1, <3>4, <3>5, <3>6, <3>7 DEF Lies
    <3>. QED  BY <2>1, <2>2, <3>8
  <2>. QED  BY <2>7, <2>8
\* It is enough to know the pages, the one being filled, and where the bytes are.
<1>9. ASSUME NEW rs, NEW rp, NEW at, c = [pages |-> rs, page |-> rp, at |-> at],
             Longer(rs), rp \in 0 .. Len(rs),
             \A i \in 1 .. Len(rs) : Len(rs[i]) > PageCap => i # rp,
             at \in Literal, Lies(rs, at, bytes)
      PROVE  /\ Stored(c.pages, c.page, added, gave)
             /\ c.at \in Literal /\ Lies(c.pages, c.at, bytes)
  <2>1. c.pages = rs /\ c.page = rp /\ c.at = at
    BY <1>9
  <2>2. rs \in Seq(Seq(Nat)) /\ \A id \in 1 .. Len(gave) : Lies(rs, added[id], gave[id])
    BY <1>8, <1>9
  <2>3. added \in Seq(Literal) /\ gave \in Seq(Contents) /\ Len(added) = Len(gave)
    BY DEF LitInv, Stored
  <2>. HIDE DEF Longer
  <2>4. Stored(rs, rp, added, gave)
    BY <1>9, <2>2, <2>3 DEF Stored
  <2>. QED  BY <1>9, <2>1, <2>4
<1>10. CASE bytes = <<>>
  <2>1. PICK at : at = [page |-> 1, from |-> 1, len |-> 0]
    OBVIOUS
  <2>2. c = [pages |-> ps, page |-> pg, at |-> at]
    <3>1. c = [pages |-> pages, page |-> page, at |-> at]
      BY <1>10, <2>1 DEF Interned!Copied
    <3>. QED  BY <1>1, <1>2, <3>1
  <2>3. Longer(ps)
    BY <1>3, <1>7
  <2>4. at \in Literal /\ Lies(ps, at, bytes)
    <3>1. at.len = 0 /\ Len(bytes) = 0
      BY <1>10, <2>1
    <3>2. at \in Literal
      BY <2>1 DEF Literal
    <3>. QED  BY <3>1, <3>2 DEF Lies
  <2>5. \A i \in 1 .. Len(ps) : Len(ps[i]) > PageCap => i # pg
    BY <1>3, <1>6
  <2>. HIDE DEF Longer
  <2>. QED  BY <1>9, <2>2, <2>3, <2>4, <2>5
\* In a page of its own.
<1>11. ASSUME bytes # <<>>, NEW rp, rp \in {pg, n + 1}, z > PageCap => rp = pg,
              c = [pages |-> Append(pages, bytes), page |-> rp,
                   at |-> [page |-> Len(pages) + 1, from |-> 1, len |-> Len(bytes)]]
       PROVE  /\ Stored(c.pages, c.page, added, gave)
              /\ c.at \in Literal /\ Lies(c.pages, c.at, bytes)
  <2>1. PICK rs : rs = Append(ps, bytes)
    OBVIOUS
  <2>2. PICK at : at = [page |-> n + 1, from |-> 1, len |-> z]
    OBVIOUS
  <2>3. c = [pages |-> rs, page |-> rp, at |-> at]
    BY <1>1, <1>3, <1>5, <1>11, <2>1, <2>2
  <2>4. /\ rs \in Seq(Seq(Nat)) /\ Len(rs) = n + 1 /\ rs[n + 1] = bytes
        /\ \A i \in 1 .. n : rs[i] = ps[i]
    BY <1>3, <1>4, <2>1
  <2>5. Longer(rs)
    BY <1>7, <2>4
  <2>6. at \in Literal
    BY <2>2 DEF Literal
  <2>7. Lies(rs, at, bytes)
    <3>1. at.page = n + 1 /\ at.from = 1 /\ at.len = z
      BY <2>2
    <3>2. n + 1 \in 1 .. Len(rs) /\ 1 > 0 /\ 1 + z - 1 <= Len(rs[n + 1])
      BY <1>5, <2>4
    <3>3. \A j \in 1 .. z : (1 + j) - 1 = j
      OBVIOUS
    <3>4. \A j \in 1 .. z : rs[n + 1][(1 + j) - 1] = bytes[j]
      BY <2>4, <3>3
    <3>. HIDE DEF Longer
    <3>. QED  BY <1>5, <3>1, <3>2, <3>4 DEF Lies
  <2>8. rp \in 0 .. Len(rs)
    BY <1>2, <1>3, <1>11, <2>4
  <2>9. ASSUME NEW i \in 1 .. Len(rs), Len(rs[i]) > PageCap PROVE i # rp
    <3>1. CASE i = n + 1
      <4>1. z > PageCap
        BY <1>5, <2>4, <2>9, <3>1
      <4>2. rp \in 0 .. n
        BY <1>2, <1>3, <1>11, <4>1
      <4>. QED  BY <3>1, <4>2
    <3>2. CASE i # n + 1
      <4>1. i \in 1 .. n
        BY <2>4, <3>2
      <4>2. i # pg
        BY <1>6, <2>4, <2>9, <4>1
      <4>. QED  BY <1>11, <3>2, <4>2
    <3>. QED  BY <3>1, <3>2
  <2>. HIDE DEF Longer
  <2>. QED  BY <1>9, <2>3, <2>5, <2>6, <2>7, <2>8, <2>9
<1>12. CASE bytes # <<>> /\ z > PageCap
  <2>1. c = [pages |-> Append(pages, bytes), page |-> pg,
             at |-> [page |-> Len(pages) + 1, from |-> 1, len |-> Len(bytes)]]
    <3>1. Len(bytes) > PageCap
      BY <1>5, <1>12
    <3>2. c = [pages |-> Append(pages, bytes), page |-> page,
               at |-> [page |-> Len(pages) + 1, from |-> 1, len |-> Len(bytes)]]
      BY <1>12, <3>1 DEF Interned!Copied
    <3>. QED  BY <1>2, <3>2
  <2>. HIDE DEF Longer
  <2>. QED  BY <1>11, <1>12, <2>1
<1>13. CASE bytes # <<>> /\ ~(z > PageCap) /\ (page = 0 \/ Len(pages[page]) + Len(bytes) > PageCap)
  <2>1. c = [pages |-> Append(pages, bytes), page |-> n + 1,
             at |-> [page |-> Len(pages) + 1, from |-> 1, len |-> Len(bytes)]]
    BY <1>1, <1>3, <1>5, <1>13 DEF Interned!Copied
  <2>. HIDE DEF Longer
  <2>. QED  BY <1>11, <1>13, <2>1
\* Behind the last ones.
<1>14. CASE bytes # <<>> /\ ~(z > PageCap) /\ page # 0 /\ ~(Len(pages[page]) + Len(bytes) > PageCap)
  <2>1. PICK old : old = ps[pg]
    OBVIOUS
  <2>2. pg \in 1 .. n /\ old \in Seq(Nat)
    BY <1>2, <1>3, <1>14, <2>1
  <2>3. PICK o \in Nat : o = Len(old)
    BY <2>2
  <2>4. PICK both : both = old \o bytes
    OBVIOUS
  <2>5. /\ both \in Seq(Nat) /\ Len(both) = o + z
        /\ \A j \in 1 .. o : both[j] = old[j]
        /\ \A j \in 1 .. z : both[o + j] = bytes[j]
    BY <1>4, <1>5, <2>2, <2>3, <2>4
  <2>6. PICK rs : rs = [ps EXCEPT ![pg] = both]
    OBVIOUS
  <2>7. PICK at : at = [page |-> pg, from |-> o + 1, len |-> z]
    OBVIOUS
  <2>8. c = [pages |-> rs, page |-> pg, at |-> at]
    <3>1. c = [pages |-> [pages EXCEPT ![page] = pages[page] \o bytes], page |-> page,
               at |-> [page |-> page, from |-> Len(pages[page]) + 1, len |-> Len(bytes)]]
      BY <1>5, <1>14 DEF Interned!Copied
    <3>. QED  BY <1>1, <1>2, <1>5, <2>1, <2>3, <2>4, <2>6, <2>7, <3>1
  <2>9. /\ rs \in Seq(Seq(Nat)) /\ Len(rs) = n /\ rs[pg] = both
        /\ \A i \in 1 .. n : i # pg => rs[i] = ps[i]
    <3>1. ps \in [1 .. n -> Seq(Nat)]
      BY <1>3
    <3>2. rs \in [1 .. n -> Seq(Nat)]
      BY <2>2, <2>5, <2>6, <3>1
    <3>. QED  BY <2>2, <2>6, <3>1, <3>2
  <2>10. Longer(rs)
    <3>1. ASSUME NEW i \in 1 .. n
          PROVE  /\ Len(rs[i]) >= Len(ps[i]) /\ Len(rs[i]) \in Nat
                 /\ \A j \in 1 .. Len(ps[i]) : rs[i][j] = ps[i][j]
      <4>1. CASE i = pg
        <5>1. rs[i] = both /\ ps[i] = old /\ o + z >= o /\ o + z \in Nat
          BY <2>1, <2>9, <4>1
        <5>. QED  BY <2>3, <2>5, <5>1
      <4>2. CASE i # pg
        BY <1>7, <2>9, <4>2
      <4>. QED  BY <4>1, <4>2
    <3>. QED  BY <2>9, <3>1
  <2>11. at \in Literal
    BY <2>2, <2>7 DEF Literal
  <2>. HIDE DEF Longer
  <2>12. Lies(rs, at, bytes)
    <3>1. at.page = pg /\ at.from = o + 1 /\ at.len = z
      BY <2>7
    <3>2. pg \in 1 .. Len(rs) /\ o + 1 > 0 /\ (o + 1) + z - 1 <= Len(rs[pg])
      BY <2>2, <2>5, <2>9
    <3>3. \A j \in 1 .. z : ((o + 1) + j) - 1 = o + j
      OBVIOUS
    <3>4. \A j \in 1 .. z : rs[pg][((o + 1) + j) - 1] = bytes[j]
      BY <2>5, <2>9, <3>3
    <3>. QED  BY <1>5, <3>1, <3>2, <3>4 DEF Lies
  <2>13. ASSUME NEW i \in 1 .. Len(rs), Len(rs[i]) > PageCap PROVE i # pg
    <3>1. Len(rs[pg]) <= PageCap
      <4>1. ~(o + z > PageCap)
        BY <1>1, <1>2, <1>5, <1>14, <2>1, <2>3
      <4>. QED  BY <1>4, <2>5, <2>9, <4>1
    <3>2. SUFFICES ASSUME i = pg PROVE FALSE
      OBVIOUS
    <3>3. Len(rs[pg]) \in Nat
      BY <2>5, <2>9
    <3>. QED  BY <1>4, <2>13, <3>1, <3>2, <3>3
  <2>14. pg \in 0 .. Len(rs)
    BY <2>2, <2>9
  <2>. QED  BY <1>9, <2>8, <2>10, <2>11, <2>12, <2>13, <2>14
<1>. QED  BY <1>10, <1>12, <1>13, <1>14

\* An entry's seat depends on its content alone.
LEMMA TableSame ==
  ASSUME NEW b, NEW q, NEW gv, NEW gw, NEW E, Table(b, q, gv, E), \A e \in E : gw[e] = gv[e]
  PROVE  Table(b, q, gw, E)
<1>1. ASSUME NEW e \in E PROVE Seated(b, q, gw, e)
  <2>1. Seated(b, q, gv, e) /\ gw[e] = gv[e]
    BY DEF Table
  <2>. QED  BY <2>1 DEF Seated
<1>. QED  BY <1>1 DEF Table

\* There is room for one more entry, in the table or in a larger one.
LEMMA RoomIs ==
  ASSUME Hashable, LitInv, NEW room,
         room = IF Interned!Full(Len(added) + 1) THEN Interned!Grown(buckets) ELSE buckets
  PROVE  \E r \in Nat : Len(gave) < r /\ Table(room, r, gave, 1 .. Len(gave))
<1>1. PICK q \in Nat : q = Len(buckets)
  BY DEF LitInv, Looked
<1>2. PICK n \in Nat : n = Len(gave) /\ n = Len(added)
  BY DEF LitInv, Stored
<1>3. n <= q /\ Table(buckets, q, gave, 1 .. n)
  BY <1>1, <1>2 DEF LitInv, Looked
<1>4. CASE Interned!Full(Len(added) + 1)
  <2>1. PICK size \in Nat : size = IF q = 0 THEN InitialCap ELSE 2 * q
    BY DEF Hashable
  <2>2. n < size
    BY <1>3, <2>1 DEF Hashable
  <2>3. ASSUME NEW e \in 1 .. n PROVE HashOf[gave[e]] \in Nat /\ Interned!Get(e) = gave[e]
    <3>1. gave[e] \in Contents
      BY <1>2 DEF LitInv, Stored
    <3>. QED  BY <1>2, <3>1, GetIs DEF Hashable
  <2>4. Table(Interned!Grown(buckets), size, gave, 1 .. n)
    BY <1>3, <2>1, <2>2, <2>3, GrownIs
  <2>. QED  BY <1>2, <1>4, <2>2, <2>4
<1>5. CASE ~Interned!Full(Len(added) + 1)
  <2>1. ~((n + 1 + 1) * 4 > q * 3)
    BY <1>1, <1>2, <1>5 DEF Interned!Full
  <2>2. n < q
    BY <2>1
  <2>. QED  BY <1>2, <1>3, <1>5, <2>2
<1>. QED  BY <1>4, <1>5

LEMMA AddKeeps ==
  ASSUME Hashable, LitInv, NEW bytes \in Contents, Interned!Add(bytes)
  PROVE  LitInv'
<1>1. PICK c : c = Interned!Copied(bytes)
  OBVIOUS
<1>2. /\ Stored(c.pages, c.page, added, gave)
      /\ c.at \in Literal /\ Lies(c.pages, c.at, bytes)
  BY <1>1, CopiedKeeps
<1>3. PICK n \in Nat : n = Len(gave) /\ n = Len(added)
  BY DEF LitInv, Stored
<1>4. gave \in Seq(Contents) /\ added \in Seq(Literal)
  BY DEF LitInv, Stored
<1>5. CASE UNCHANGED <<added, pages, page, buckets, gave>>
  BY <1>5 DEF LitInv
<1>6. CASE Interned!Probe(bytes) # Interned!None
  <2>1. /\ gave' = [gave EXCEPT ![Interned!Probe(bytes)] = bytes]
        /\ UNCHANGED <<added, pages, page, buckets>>
    BY <1>6 DEF Interned!Add
  <2>2. PICK p : p = Interned!Probe(bytes)
    OBVIOUS
  <2>3. p \in 1 .. n /\ gave[p] = bytes
    BY <1>3, <1>6, <2>2, ProbeIs
  <2>4. gave' = gave
    BY <1>3, <1>4, <2>1, <2>2, <2>3
  <2>. QED  BY <1>5, <2>1, <2>4
<1>7. CASE Interned!Keep(c) /\ UNCHANGED <<added, buckets, gave>>
  <2>1. pages' = c.pages /\ page' = c.page
    BY <1>7 DEF Interned!Keep
  <2>2. Stored(pages', page', added', gave')
    BY <1>2, <1>7, <2>1
  <2>3. Once(gave') /\ Looked(buckets', gave')
    BY <1>7 DEF LitInv
  <2>. QED  BY <2>2, <2>3 DEF LitInv
<1>8. ASSUME NEW room,
             room = IF Interned!Full(Len(added) + 1) THEN Interned!Grown(buckets) ELSE buckets,
             Interned!Probe(bytes) = Interned!None, Interned!Keep(c),
             added' = Append(added, c.at), gave' = Append(gave, bytes),
             buckets' = Interned!Seat(room, Len(added) + 1, bytes)
      PROVE  LitInv'
  <2>1. PICK at : at = c.at
    OBVIOUS
  <2>2. PICK gv : gv = Append(gave, bytes)
    OBVIOUS
  <2>3. /\ gv \in Seq(Contents) /\ Len(gv) = n + 1 /\ gv[n + 1] = bytes
        /\ \A i \in 1 .. n : gv[i] = gave[i]
    <3>1. PICK old \in Seq(Contents) : old = gave
      BY <1>4
    <3>2. gv = Append(old, bytes) /\ Len(old) = n
      BY <1>3, <2>2, <3>1
    <3>3. gv \in Seq(Contents) /\ Len(gv) = n + 1 /\ gv[n + 1] = bytes
      BY <3>2
    <3>4. \A i \in 1 .. n : gv[i] = old[i]
      BY <3>2
    <3>. QED  BY <3>1, <3>3, <3>4
  <2>4. PICK ad : ad = Append(added, at)
    OBVIOUS
  <2>5. /\ ad \in Seq(Literal) /\ Len(ad) = n + 1 /\ ad[n + 1] = at
        /\ \A i \in 1 .. n : ad[i] = added[i]
    BY <1>2, <1>3, <1>4, <2>1, <2>4
  <2>6. pages' = c.pages /\ page' = c.page
    BY <1>8 DEF Interned!Keep
  <2>7. PICK ps : ps = c.pages
    OBVIOUS
  <2>8. Stored(ps, c.page, ad, gv)
    <3>1. ASSUME NEW id \in 1 .. Len(gv) PROVE Lies(ps, ad[id], gv[id])
      <4>1. CASE id = n + 1
        BY <1>2, <2>1, <2>3, <2>5, <2>7, <4>1
      <4>2. CASE id # n + 1
        <5>1. id \in 1 .. n
          BY <2>3, <4>2
        <5>2. Lies(ps, added[id], gave[id])
          BY <1>2, <1>3, <2>7, <5>1 DEF Stored
        <5>. QED  BY <2>3, <2>5, <5>1, <5>2
      <4>. QED  BY <4>1, <4>2
    <3>. QED  BY <1>2, <2>3, <2>5, <2>7, <3>1 DEF Stored
  <2>9. Once(gv)
    <3>1. ASSUME NEW i \in 1 .. n PROVE gv[i] # bytes
      <4>. SUFFICES ASSUME gave[i] = bytes PROVE FALSE
        BY <2>3
      <4>1. Interned!Probe(gave[i]) = i
        BY <1>3, ProbeIs
      <4>2. i # 0
        OBVIOUS
      <4>. QED  BY <1>8, <4>1, <4>2 DEF Interned!None
    <3>2. \A i, j \in 1 .. n : gv[i] = gv[j] => i = j
      BY <1>3, <2>3 DEF LitInv, Once
    <3>3. ASSUME NEW i \in 1 .. n + 1, NEW j \in 1 .. n + 1, gv[i] = gv[j] PROVE i = j
      <4>1. i \in 1 .. n \/ i = n + 1
        OBVIOUS
      <4>2. j \in 1 .. n \/ j = n + 1
        OBVIOUS
      <4>. QED  BY <2>3, <3>1, <3>2, <3>3, <4>1, <4>2
    <3>. QED  BY <2>3, <3>3 DEF Once
  <2>10. PICK r \in Nat : n < r /\ Table(room, r, gave, 1 .. n)
    BY <1>3, <1>8, RoomIs
  <2>11. PICK b : b = Interned!Seat(room, n + 1, gv[n + 1])
    OBVIOUS
  <2>12. Table(b, r, gv, 1 .. n + 1)
    <3>1. Table(room, r, gv, 1 .. n)
      BY <2>3, <2>10, TableSame
    <3>2. \A i \in 1 .. n + 1 : HashOf[gv[i]] \in Nat
      BY <2>3 DEF Hashable
    <3>3. PICK E : E = 1 .. n
      OBVIOUS
    <3>4. n + 1 \notin E /\ E \in SUBSET (1 .. n) /\ n + 1 \in Nat /\ n + 1 # 0
      BY <3>3
    <3>5. HashOf[gv[n + 1]] \in Nat /\ \A i \in E : HashOf[gv[i]] \in Nat
      <4>1. n + 1 \in 1 .. n + 1 /\ \A i \in E : i \in 1 .. n + 1
        BY <3>3
      <4>. QED  BY <3>2, <4>1
    <3>6. Table(b, r, gv, E \cup {n + 1})
      BY <2>10, <2>11, <3>1, <3>3, <3>4, <3>5, SeatKeeps
    <3>7. E \cup {n + 1} = 1 .. n + 1
      BY <3>3
    <3>. QED  BY <3>6, <3>7
  <2>13. Looked(b, gv)
    <3>1. b \in [1 .. r -> Nat]
      BY <2>12 DEF Table
    <3>2. b \in Seq(Nat) /\ Len(b) = r
      BY <3>1
    <3>3. n + 1 <= r
      BY <2>10
    <3>. QED  BY <2>3, <2>12, <3>2, <3>3 DEF Looked
  <2>14. gave' = gv /\ added' = ad /\ buckets' = b /\ pages' = ps /\ page' = c.page
    BY <1>3, <1>8, <2>1, <2>2, <2>3, <2>4, <2>6, <2>7, <2>11
  <2>15. Stored(pages', page', added', gave') /\ Once(gave') /\ Looked(buckets', gave')
    BY <2>8, <2>9, <2>13, <2>14
  <2>. QED  BY <2>15 DEF LitInv
<1>9. CASE Interned!Probe(bytes) = Interned!None
  <2>1. PICK room : room = IF Interned!Full(Len(added) + 1) THEN Interned!Grown(buckets) ELSE buckets
    OBVIOUS
  <2>2. \/ UNCHANGED <<added, pages, page, buckets, gave>>
        \/ Interned!Keep(c) /\ UNCHANGED <<added, buckets, gave>>
        \/ /\ Interned!Keep(c)
           /\ added' = Append(added, c.at) /\ gave' = Append(gave, bytes)
           /\ buckets' = Interned!Seat(room, Len(added) + 1, bytes)
    BY <1>1, <1>9, <2>1 DEF Interned!Add
  <2>. QED  BY <1>5, <1>7, <1>8, <1>9, <2>1, <2>2
<1>. QED  BY <1>6, <1>9

LEMMA LitEmpty ==
  ASSUME Hashable
  PROVE  Stored(<<>>, 0, <<>>, <<>>) /\ Once(<<>>) /\ Looked(<<>>, <<>>)
<1>1. Stored(<<>>, 0, <<>>, <<>>)
  BY DEF Stored
<1>2. Once(<<>>)
  BY DEF Once
<1>3. Looked(<<>>, <<>>)
  <2>1. Len(<<>>) = 0 /\ <<>> \in [1 .. 0 -> Nat] /\ <<>> \in Seq(Nat)
    OBVIOUS
  <2>2. Table(<<>>, 0, <<>>, 1 .. 0)
    BY <2>1 DEF Table
  <2>. QED  BY <2>1, <2>2 DEF Looked
<1>. QED  BY <1>1, <1>2, <1>3

\* Hands out what it was given, for ever: an id stands for the content it was given out
\* for, the content is found under that id and no other however often the table grew and
\* whatever allocation failed, and no page that is larger than pages are is filled further
\* (text_literal.c:48-180, 279-340).
THEOREM LiteralsLast == ASSUME Hashable PROVE Interned!Spec => []Interned!LiteralsLast
<1>1. Interned!Init => LitInv
  BY LitEmpty DEF Interned!Init, LitInv
<1>2. LitInv /\ [Interned!Next]_(Interned!literalVars) => LitInv'
  <2>. SUFFICES ASSUME LitInv, [Interned!Next]_(Interned!literalVars) PROVE LitInv'
    OBVIOUS
  <2>1. CASE UNCHANGED Interned!literalVars
    BY <2>1 DEF Interned!literalVars, LitInv
  <2>2. CASE Interned!Seal
    BY <2>2 DEF Interned!Seal, LitInv
  <2>3. CASE Interned!Free
    BY <2>3, LitEmpty DEF Interned!Free, LitInv
  <2>4. ASSUME NEW bytes \in Contents, Interned!Add(bytes) PROVE LitInv'
    BY <2>4, AddKeeps
  <2>. QED  BY <2>1, <2>2, <2>3, <2>4 DEF Interned!Next
<1>3. LitInv => Interned!LiteralsLast
  <2>. SUFFICES ASSUME LitInv PROVE Interned!LiteralsLast
    OBVIOUS
  <2>1. Len(added) = Len(gave) /\ DOMAIN added = 1 .. Len(gave) /\ DOMAIN pages = 1 .. Len(pages)
    BY DEF LitInv, Stored
  <2>2. \A i \in 1 .. Len(pages) : Len(pages[i]) > PageCap => i # page
    BY DEF LitInv, Stored
  <2>3. \A id \in 1 .. Len(gave) : Interned!Get(id) = gave[id]
    BY GetIs
  <2>4. \A id \in 1 .. Len(gave) : Interned!Probe(gave[id]) = id
    BY ProbeIs
  <2>. QED  BY <2>1, <2>2, <2>3, <2>4 DEF Interned!LiteralsLast
<1>. QED  BY <1>1, <1>2, <1>3, PTL DEF Interned!Spec

---------------------------------------------------------------------------
(* Trees that threads share, for any threads and any trees                 *)

CONSTANTS Threads, Handles, Literals, Bad, MaxNesting, MaxVisits, Word, MaxTrees, MaxHeld
VARIABLES draft, registry, places, held, strayed

Shared == INSTANCE Trees WITH at <- places, astray <- strayed

---------------------------------------------------------------------------
(* Sums over a finite set                                                  *)

\* What holds of a set when it holds of each set with an element less holds of all.
LEMMA SubsetInduction ==
  ASSUME NEW S, IsFiniteSet(S), NEW G,
         \A s \in SUBSET S : (\A x \in s : s \ {x} \in G) => s \in G
  PROVE  \A s \in SUBSET S : s \in G
<1>1. PICK N : N = {k \in Nat : \A s \in SUBSET S : Cardinality(s) = k => s \in G}
  OBVIOUS
<1>2. ASSUME NEW s \in SUBSET S
      PROVE  /\ IsFiniteSet(s) /\ Cardinality(s) \in Nat
             /\ \A x \in s : Cardinality(s \ {x}) = Cardinality(s) - 1 /\ Cardinality(s) > 0
  <2>1. IsFiniteSet(s)
    BY FS_Subset
  <2>2. Cardinality(s) \in Nat
    BY <2>1, FS_CardinalityType
  <2>3. ASSUME NEW x \in s PROVE Cardinality(s \ {x}) = Cardinality(s) - 1
    BY <2>1, FS_RemoveElement
  <2>4. ASSUME NEW x \in s PROVE Cardinality(s) # 0
    BY <2>1, FS_EmptySet
  <2>. QED  BY <2>1, <2>2, <2>3, <2>4
<1>3. 0 \in N
  <2>1. ASSUME NEW s \in SUBSET S, Cardinality(s) = 0 PROVE s \in G
    <3>1. s = {}
      BY <1>2, <2>1, FS_EmptySet
    <3>. QED  BY <3>1
  <2>. QED  BY <1>1, <2>1
<1>4. ASSUME NEW k \in N PROVE k + 1 \in N
  <2>1. ASSUME NEW s \in SUBSET S, Cardinality(s) = k + 1 PROVE s \in G
    <3>1. ASSUME NEW x \in s PROVE s \ {x} \in G
      <4>1. PICK o : o = s \ {x}
        OBVIOUS
      <4>2. o \in SUBSET S /\ Cardinality(o) = k
        <5>1. Cardinality(o) = Cardinality(s) - 1
          BY <1>2, <4>1
        <5>2. k \in Nat
          BY <1>1
        <5>. QED  BY <2>1, <4>1, <5>1, <5>2
      <4>. QED  BY <1>1, <4>1, <4>2
    <3>. QED  BY <3>1
  <2>2. k + 1 \in Nat
    BY <1>1
  <2>. QED  BY <1>1, <2>1, <2>2
<1>5. N = Nat
  <2>1. N \in SUBSET Nat
    BY <1>1
  <2>. QED  BY <1>3, <1>4, <2>1, Induction
<1>. QED  BY <1>1, <1>2, <1>5

Some(s) == CHOOSE x \in s : TRUE

LEMMA SomeIs == \A s : s # {} => Some(s) \in s
BY DEF Some

\* Function h says of each subset of S what the f of its elements are together.
Sums(h, S, f) ==
  \A s \in SUBSET S : h[s] = IF s = {} THEN 0 ELSE f[Some(s)] + h[s \ {Some(s)}]

LEMMA SumsExist ==
  ASSUME NEW S, IsFiniteSet(S), NEW f
  PROVE  \E h : Sums(h, S, f)
<1>. DEFINE Upto(h, k) == \A s \in SUBSET S : Cardinality(s) <= k =>
                            h[s] = IF s = {} THEN 0 ELSE f[Some(s)] + h[s \ {Some(s)}]
<1>1. PICK N : N = {k \in Nat : \E h : Upto(h, k)}
  OBVIOUS
<1>2. ASSUME NEW s \in SUBSET S
      PROVE  /\ IsFiniteSet(s) /\ Cardinality(s) \in Nat /\ (Cardinality(s) = 0 <=> s = {})
             /\ s # {} => Cardinality(s \ {Some(s)}) = Cardinality(s) - 1
  <2>1. IsFiniteSet(s)
    BY FS_Subset
  <2>2. Cardinality(s) \in Nat
    BY <2>1, FS_CardinalityType
  <2>3. ASSUME s # {} PROVE Cardinality(s \ {Some(s)}) = Cardinality(s) - 1
    <3>1. Some(s) \in s
      BY <2>3, SomeIs
    <3>. QED  BY <2>1, <3>1, FS_RemoveElement
  <2>4. Cardinality(s) = 0 <=> s = {}
    BY <2>1, FS_EmptySet
  <2>. QED  BY <2>1, <2>2, <2>3, <2>4
<1>3. 0 \in N
  <2>1. PICK h : h = [s \in SUBSET S |-> 0]
    OBVIOUS
  <2>2. ASSUME NEW s \in SUBSET S, Cardinality(s) <= 0 PROVE s = {} /\ h[s] = 0
    <3>1. PICK c \in Nat : c = Cardinality(s) /\ (c = 0 <=> s = {})
      BY <1>2
    <3>2. c = 0
      BY <2>2, <3>1
    <3>. QED  BY <2>1, <3>1, <3>2
  <2>. QED  BY <1>1, <2>2
<1>4. ASSUME NEW k \in N PROVE k + 1 \in N
  <2>1. k \in Nat /\ k + 1 \in Nat
    BY <1>1
  <2>2. PICK g : Upto(g, k)
    BY <1>1
  <2>3. PICK h : h = [s \in SUBSET S |-> IF Cardinality(s) = k + 1
                                         THEN f[Some(s)] + g[s \ {Some(s)}] ELSE g[s]]
    OBVIOUS
  <2>4. ASSUME NEW s \in SUBSET S, Cardinality(s) <= k PROVE h[s] = g[s]
    <3>1. Cardinality(s) # k + 1
      BY <1>2, <2>1, <2>4
    <3>. QED  BY <2>3, <3>1
  <2>5. ASSUME NEW s \in SUBSET S, Cardinality(s) <= k + 1
        PROVE  h[s] = IF s = {} THEN 0 ELSE f[Some(s)] + h[s \ {Some(s)}]
    <3>1. PICK c \in Nat : c = Cardinality(s) /\ (c = 0 <=> s = {}) /\ c <= k + 1
      BY <1>2, <2>5
    <3>2. CASE c <= k
      <4>1. h[s] = g[s]
        BY <2>4, <3>1, <3>2
      <4>2. g[s] = IF s = {} THEN 0 ELSE f[Some(s)] + g[s \ {Some(s)}]
        BY <2>2, <3>1, <3>2
      <4>3. CASE s = {}
        BY <4>1, <4>2, <4>3
      <4>4. CASE s # {}
        <5>1. PICK o : o = s \ {Some(s)}
          OBVIOUS
        <5>2. o \in SUBSET S /\ Cardinality(o) = c - 1 /\ c - 1 <= k
          BY <1>2, <2>1, <3>1, <3>2, <4>4, <5>1
        <5>3. h[o] = g[o]
          BY <2>4, <5>2
        <5>. QED  BY <4>1, <4>2, <4>4, <5>1, <5>3
      <4>. QED  BY <4>3, <4>4
    <3>3. CASE ~(c <= k)
      <4>1. c = k + 1 /\ s # {}
        BY <2>1, <3>1, <3>3
      <4>2. PICK o : o = s \ {Some(s)}
        OBVIOUS
      <4>3. o \in SUBSET S /\ Cardinality(o) = k
        <5>1. Cardinality(o) = c - 1
          BY <1>2, <3>1, <4>1, <4>2
        <5>. QED  BY <2>1, <4>1, <4>2, <5>1
      <4>4. h[o] = g[o]
        BY <2>1, <2>4, <4>3
      <4>5. h[s] = f[Some(s)] + g[o]
        BY <2>3, <3>1, <4>1, <4>2
      <4>. QED  BY <4>1, <4>2, <4>4, <4>5
    <3>. QED  BY <3>2, <3>3
  <2>6. Upto(h, k + 1)
    BY <2>5
  <2>. HIDE DEF Upto
  <2>. QED  BY <1>1, <2>1, <2>6
<1>5. N = Nat
  <2>1. N \in SUBSET Nat
    BY <1>1
  <2>. QED  BY <1>3, <1>4, <2>1, Induction
<1>6. PICK n \in Nat : n = Cardinality(S)
  BY FS_CardinalityType
<1>7. PICK h : Upto(h, n)
  <2>. HIDE DEF Upto
  <2>. QED  BY <1>1, <1>5
<1>8. \A s \in SUBSET S : Cardinality(s) <= n
  BY <1>6, FS_Subset
<1>9. Sums(h, S, f)
  BY <1>7, <1>8 DEF Sums
<1>. QED  BY <1>9

\* Sums are naturals, whoever is counted first.
Adds(h, S, f) ==
  \A s \in SUBSET S : h[s] \in Nat /\ \A x \in s : h[s] = f[x] + h[s \ {x}]

LEMMA SumsAre ==
  ASSUME NEW S, IsFiniteSet(S), NEW f \in [S -> Nat], NEW h, Sums(h, S, f)
  PROVE  Adds(h, S, f)
<1>1. PICK G : G = {s \in SUBSET S :
                     h[s] \in Nat /\ \A x \in s : h[s] = f[x] + h[s \ {x}] /\ h[s \ {x}] \in Nat}
  OBVIOUS
<1>2. ASSUME NEW s \in SUBSET S, \A x \in s : s \ {x} \in G PROVE s \in G
  <2>1. CASE s = {}
    <3>1. h[s] = 0
      BY <2>1 DEF Sums
    <3>. QED  BY <1>1, <2>1, <3>1
  <2>2. CASE s # {}
    <3>1. PICK y : y = Some(s)
      OBVIOUS
    <3>2. y \in s /\ f[y] \in Nat
      BY <2>2, <3>1, SomeIs
    <3>3. h[s] = f[y] + h[s \ {y}]
      BY <2>2, <3>1 DEF Sums
    <3>4. h[s \ {y}] \in Nat
      BY <1>1, <1>2, <3>2
    <3>5. ASSUME NEW x \in s PROVE h[s] = f[x] + h[s \ {x}] /\ h[s \ {x}] \in Nat
      <4>1. CASE x = y
        BY <3>3, <3>4, <4>1
      <4>2. CASE x # y
        <5>1. PICK o : o = (s \ {y}) \ {x}
          OBVIOUS
        <5>2. o = (s \ {x}) \ {y}
          BY <5>1
        <5>3. x \in s \ {y} /\ y \in s \ {x}
          BY <3>2, <4>2
        <5>4. h[s \ {y}] = f[x] + h[o]
          BY <1>1, <1>2, <3>2, <5>1, <5>3
        <5>5. h[s \ {x}] = f[y] + h[o] /\ h[s \ {x}] \in Nat
          BY <1>1, <1>2, <5>2, <5>3
        <5>6. f[x] \in Nat /\ h[o] \in Nat
          BY <1>1, <1>2, <3>2, <5>1, <5>3
        <5>. QED  BY <1>1, <1>2, <3>2, <3>3, <5>4, <5>5, <5>6
      <4>. QED  BY <4>1, <4>2
    <3>6. h[s] \in Nat
      BY <3>2, <3>3, <3>4
    <3>. QED  BY <1>1, <3>5, <3>6
  <2>. QED  BY <2>1, <2>2
<1>3. \A s \in SUBSET S : s \in G
  BY <1>2, SubsetInduction
<1>. QED  BY <1>1, <1>3 DEF Adds

\* Of two that differ in one element.
LEMMA SumsDiffer ==
  ASSUME NEW S, IsFiniteSet(S), NEW f \in [S -> Nat], NEW g \in [S -> Nat], NEW x \in S,
         \A y \in S : y # x => f[y] = g[y],
         NEW h, Sums(h, S, f), NEW k, Sums(k, S, g)
  PROVE  h[S] + g[x] = k[S] + f[x]
<1>1. /\ \A s \in SUBSET S : h[s] \in Nat /\ \A y \in s : h[s] = f[y] + h[s \ {y}]
      /\ \A s \in SUBSET S : k[s] \in Nat /\ \A y \in s : k[s] = g[y] + k[s \ {y}]
  <2>1. Adds(h, S, f) /\ Adds(k, S, g)
    BY SumsAre
  <2>. QED  BY <2>1 DEF Adds
<1>2. PICK G : G = {s \in SUBSET S : x \notin s => h[s] = k[s]}
  OBVIOUS
<1>3. ASSUME NEW s \in SUBSET S, \A y \in s : s \ {y} \in G PROVE s \in G
  <2>. SUFFICES ASSUME x \notin s PROVE h[s] = k[s]
    BY <1>2
  <2>1. CASE s = {}
    BY <2>1 DEF Sums
  <2>2. CASE s # {}
    <3>1. PICK y \in s : TRUE
      BY <2>2
    <3>2. PICK o : o = s \ {y}
      OBVIOUS
    <3>3. h[o] = k[o]
      BY <1>2, <1>3, <3>1, <3>2
    <3>4. h[s] = f[y] + h[o] /\ k[s] = g[y] + k[o] /\ f[y] = g[y]
      BY <1>1, <3>1, <3>2
    <3>. QED  BY <3>3, <3>4
  <2>. QED  BY <2>1, <2>2
<1>4. \A s \in SUBSET S : s \in G
  BY <1>3, SubsetInduction
<1>5. PICK o : o = S \ {x}
  OBVIOUS
<1>6. o \in SUBSET S /\ x \notin o
  BY <1>5
<1>7. h[o] = k[o] /\ h[o] \in Nat
  BY <1>1, <1>2, <1>4, <1>6
<1>8. h[S] = f[x] + h[o] /\ k[S] = g[x] + k[o]
  BY <1>1, <1>5
<1>. QED  BY <1>7, <1>8

\* Each element counts, and a sum of small numbers is not large.
LEMMA SumsBound ==
  ASSUME NEW S, IsFiniteSet(S), NEW f \in [S -> Nat], NEW h, Sums(h, S, f),
         NEW b \in Nat, \A x \in S : f[x] <= b
  PROVE  h[S] \in Nat /\ h[S] <= Cardinality(S) * b /\ \A x \in S : f[x] <= h[S]
<1>1. \A s \in SUBSET S : h[s] \in Nat /\ \A y \in s : h[s] = f[y] + h[s \ {y}]
  <2>1. Adds(h, S, f)
    BY SumsAre
  <2>. QED  BY <2>1 DEF Adds
<1>2. PICK G : G = {s \in SUBSET S : h[s] <= Cardinality(s) * b}
  OBVIOUS
<1>3. ASSUME NEW s \in SUBSET S, \A y \in s : s \ {y} \in G PROVE s \in G
  <2>1. IsFiniteSet(s)
    BY FS_Subset
  <2>2. CASE s = {}
    <3>1. Cardinality(s) = 0 /\ h[s] = 0
      BY <2>2, FS_EmptySet DEF Sums
    <3>. QED  BY <1>2, <3>1
  <2>3. CASE s # {}
    <3>1. PICK y \in s : TRUE
      BY <2>3
    <3>2. PICK o : o = s \ {y}
      OBVIOUS
    <3>3. PICK c \in Nat : c = Cardinality(s)
      BY <2>1, FS_CardinalityType
    <3>4. Cardinality(o) = c - 1
      BY <2>1, <3>1, <3>2, <3>3, FS_RemoveElement
    <3>5. c # 0
      BY <2>1, <2>3, <3>3, FS_EmptySet
    <3>6. PICK d \in Nat : d = c - 1
      BY <3>3, <3>5
    <3>7. h[o] <= d * b /\ h[o] \in Nat
      BY <1>1, <1>2, <1>3, <3>1, <3>2, <3>4, <3>6
    <3>8. h[s] = f[y] + h[o] /\ f[y] <= b /\ f[y] \in Nat
      BY <1>1, <3>1, <3>2
    <3>9. PICK p \in Nat : p = d * b
      OBVIOUS
    <3>10. c = d + 1 /\ c * b = p + b
      <4>1. c = d + 1
        BY <3>3, <3>5, <3>6
      <4>2. (d + 1) * b = d * b + b
        OBVIOUS
      <4>. QED  BY <3>9, <4>1, <4>2
    <3>11. h[s] <= p + b
      BY <3>7, <3>8, <3>9
    <3>. QED  BY <1>2, <3>3, <3>10, <3>11
  <2>. QED  BY <2>2, <2>3
<1>4. \A s \in SUBSET S : s \in G
  BY <1>3, SubsetInduction
<1>5. ASSUME NEW x \in S PROVE f[x] <= h[S]
  <2>1. PICK o : o = S \ {x}
    OBVIOUS
  <2>2. h[o] \in Nat /\ f[x] \in Nat /\ h[S] = f[x] + h[o]
    BY <1>1, <2>1
  <2>. QED  BY <2>2
<1>. QED  BY <1>1, <1>2, <1>4, <1>5

LEMMA SumsZero ==
  ASSUME NEW S, IsFiniteSet(S), NEW f \in [S -> Nat], NEW h, Sums(h, S, f), \A x \in S : f[x] = 0
  PROVE  h[S] = 0
<1>1. h[S] \in Nat /\ h[S] <= Cardinality(S) * 0
  BY SumsBound
<1>2. Cardinality(S) \in Nat
  BY FS_CardinalityType
<1>3. Cardinality(S) * 0 = 0
  BY <1>2
<1>. QED  BY <1>1, <1>3

\* The sum over all threads.
Total(f) == (CHOOSE h : Sums(h, Threads, f))[Threads]

Bounded == /\ IsFiniteSet(Threads) /\ MaxHeld \in Nat \ {0} /\ MaxTrees \in Nat
           /\ Word \in Nat /\ Word > 1 /\ Cardinality(Threads) * MaxHeld < Word

LEMMA TotalIs ==
  ASSUME Bounded, NEW f \in [Threads -> Nat]
  PROVE  /\ Total(f) \in Nat /\ \A t \in Threads : f[t] <= Total(f)
         /\ (\A t \in Threads : f[t] <= MaxHeld) => Total(f) < Word
         /\ (\A t \in Threads : f[t] = 0) => Total(f) = 0
<1>1. PICK h : h = CHOOSE k : Sums(k, Threads, f)
  OBVIOUS
<1>2. Sums(h, Threads, f) /\ IsFiniteSet(Threads)
  BY <1>1, SumsExist DEF Bounded
<1>3. Total(f) = h[Threads]
  BY <1>1 DEF Total
<1>4. h[Threads] \in Nat
  <2>1. Adds(h, Threads, f)
    BY <1>2, SumsAre
  <2>. QED  BY <2>1 DEF Adds
<1>5. ASSUME NEW t \in Threads PROVE f[t] <= h[Threads]
  <2>1. PICK o : o = Threads \ {t}
    OBVIOUS
  <2>2. \A s \in SUBSET Threads : h[s] \in Nat /\ \A x \in s : h[s] = f[x] + h[s \ {x}]
    <3>1. Adds(h, Threads, f)
      BY <1>2, SumsAre
    <3>. QED  BY <3>1 DEF Adds
  <2>3. h[Threads] = f[t] + h[o] /\ h[o] \in Nat /\ f[t] \in Nat
    BY <2>1, <2>2
  <2>. QED  BY <2>3
<1>6. ASSUME \A t \in Threads : f[t] <= MaxHeld PROVE h[Threads] < Word
  <2>1. h[Threads] <= Cardinality(Threads) * MaxHeld
    BY <1>2, <1>6, SumsBound DEF Bounded
  <2>2. Cardinality(Threads) \in Nat
    BY <1>2, FS_CardinalityType
  <2>3. PICK p \in Nat : p = Cardinality(Threads) * MaxHeld
    BY <2>2 DEF Bounded
  <2>. QED  BY <1>4, <2>1, <2>3 DEF Bounded
<1>7. ASSUME \A t \in Threads : f[t] = 0 PROVE h[Threads] = 0
  BY <1>2, <1>7, SumsZero
<1>. QED  BY <1>3, <1>4, <1>5, <1>6, <1>7

LEMMA TotalDiffers ==
  ASSUME Bounded, NEW f \in [Threads -> Nat], NEW g \in [Threads -> Nat], NEW t \in Threads,
         \A u \in Threads : u # t => f[u] = g[u]
  PROVE  Total(f) + g[t] = Total(g) + f[t]
<1>1. PICK h : h = CHOOSE k : Sums(k, Threads, f)
  OBVIOUS
<1>2. PICK k : k = CHOOSE i : Sums(i, Threads, g)
  OBVIOUS
<1>3. Sums(h, Threads, f) /\ Sums(k, Threads, g)
  BY <1>1, <1>2, SumsExist DEF Bounded
<1>4. h[Threads] + g[t] = k[Threads] + f[t]
  BY <1>3, SumsDiffer DEF Bounded
<1>. QED  BY <1>1, <1>2, <1>4 DEF Total

\* It is what the model adds up.
Refs(id) == Shared!MapThenSumSet(LAMBDA t : held[t][id], Threads)

LEMMA ModelTotal ==
  ASSUME Bounded, NEW f \in [Threads -> Nat], NEW id, \A t \in Threads : f[t] = held[t][id]
  PROVE  Refs(id) = Total(f)
<1>. DEFINE Of(h, s) == IF s = {} THEN 0 ELSE held[Some(s)][id] + h[s \ {Some(s)}]
            R(h) == h = [s \in SUBSET Threads |-> Of(h, s)]
<1>1. PICK h : h = CHOOSE k : R(k)
  OBVIOUS
<1>2. \E k : R(k)
  <2>1. PICK e : Sums(e, Threads, f)
    BY SumsExist DEF Bounded
  <2>2. PICK k : k = [s \in SUBSET Threads |-> e[s]]
    OBVIOUS
  <2>3. ASSUME NEW s \in SUBSET Threads PROVE k[s] = Of(k, s)
    <3>1. PICK o : o = s \ {Some(s)}
      OBVIOUS
    <3>2. k[s] = e[s] /\ k[o] = e[o]
      BY <2>2, <3>1
    <3>3. s # {} => f[Some(s)] = held[Some(s)][id]
      BY SomeIs
    <3>4. e[s] = IF s = {} THEN 0 ELSE f[Some(s)] + e[o]
      BY <2>1, <3>1 DEF Sums
    <3>. QED  BY <3>1, <3>2, <3>3, <3>4
  <2>. HIDE DEF Of
  <2>4. R(k)
    BY <2>2, <2>3
  <2>. QED  BY <2>4
<1>3. R(h)
  BY <1>1, <1>2
<1>4. Refs(id) = h[Threads]
  BY <1>1 DEF Refs, Shared!MapThenSumSet, Shared!MapThenFoldSet, Some
<1>5. Sums(h, Threads, f)
  <2>1. ASSUME NEW s \in SUBSET Threads
        PROVE  h[s] = IF s = {} THEN 0 ELSE f[Some(s)] + h[s \ {Some(s)}]
    <3>1. h[s] = Of(h, s)
      <4>. HIDE DEF Of
      <4>. QED  BY <1>3
    <3>2. s # {} => f[Some(s)] = held[Some(s)][id]
      BY SomeIs
    <3>. HIDE DEF R
    <3>. QED  BY <3>1, <3>2
  <2>. QED  BY <2>1 DEF Sums
<1>. HIDE DEF R
<1>6. PICK k : k = CHOOSE i : Sums(i, Threads, f)
  OBVIOUS
<1>7. Sums(k, Threads, f)
  BY <1>5, <1>6
<1>8. h[Threads] = k[Threads]
  <2>1. CASE Threads = {}
    BY <1>5, <1>7, <2>1 DEF Sums
  <2>2. CASE Threads # {}
    <3>1. PICK t \in Threads : TRUE
      BY <2>2
    <3>2. h[Threads] + f[t] = k[Threads] + f[t]
      BY <1>5, <1>7, <3>1, SumsDiffer DEF Bounded
    <3>3. h[Threads] \in Nat /\ k[Threads] \in Nat
      <4>1. Threads \in SUBSET Threads /\ IsFiniteSet(Threads)
        BY DEF Bounded
      <4>2. Adds(h, Threads, f) /\ Adds(k, Threads, f)
        BY <1>5, <1>7, <4>1, SumsAre
      <4>. QED  BY <4>1, <4>2 DEF Adds
    <3>. QED  BY <3>1, <3>2, <3>3
  <2>. QED  BY <2>1, <2>2
<1>. QED  BY <1>4, <1>6, <1>8 DEF Total

---------------------------------------------------------------------------
(* The count of a tree's references                                        *)

\* A count r that wraps stands for n.
Stands(n, r) == r \in 0 .. Word - 1 /\ \E k \in Nat : n = Word * k + r

LEMMA CountMoves ==
  ASSUME Bounded, NEW n \in Nat, NEW r, Stands(n, r)
  PROVE  /\ Stands(n + 1, (r + 1) % Word)
         /\ Stands(n + (Word - 1), (r + (Word - 1)) % Word)
         /\ n >= 1 => Stands(n - 1, (r + (Word - 1)) % Word)
         /\ n >= Word - 1 => Stands(n - (Word - 1), (r + 1) % Word)
         /\ n < Word => n = r
<1>1. Word \in Nat /\ Word > 1
  BY DEF Bounded
<1>2. PICK k \in Nat : n = Word * k + r
  BY DEF Stands
<1>3. r \in 0 .. Word - 1 /\ r \in Nat
  BY <1>1 DEF Stands
<1>4. PICK p \in Nat : p = Word * k
  BY <1>1
<1>5. ASSUME NEW x \in Nat
      PROVE  \E e \in Nat, q \in Nat : q = Word * e /\ x = q + (x % Word) /\ x % Word \in 0 .. Word - 1
  <2>1. x % Word \in 0 .. Word - 1 /\ x \div Word \in Nat /\ x = Word * (x \div Word) + (x % Word)
    BY <1>1
  <2>2. PICK e \in Nat, m \in 0 .. Word - 1 : x = Word * e + m /\ m = x % Word
    BY <2>1
  <2>3. PICK q \in Nat : q = Word * e
    BY <1>1
  <2>. QED  BY <2>2, <2>3
\* Up by what the count was moved by.
<1>6. ASSUME NEW d \in Nat PROVE Stands(n + d, (r + d) % Word)
  <2>1. r + d \in Nat
    BY <1>3
  <2>2. PICK m : m = (r + d) % Word
    OBVIOUS
  <2>3. PICK e \in Nat, q \in Nat : q = Word * e /\ r + d = q + m /\ m \in 0 .. Word - 1
    BY <1>5, <2>1, <2>2
  <2>4. Word * (k + e) = p + q
    BY <1>1, <1>4, <2>3
  <2>5. n + d = Word * (k + e) + m
    BY <1>2, <1>3, <1>4, <2>3, <2>4
  <2>6. k + e \in Nat
    BY <2>3
  <2>. QED  BY <2>2, <2>3, <2>5, <2>6 DEF Stands
\* Down by what it takes to come round.
<1>7. ASSUME NEW d \in 1 .. Word - 1, n >= d PROVE Stands(n - d, (r + (Word - d)) % Word)
  <2>1. r + (Word - d) \in Nat
    BY <1>1, <1>3
  <2>2. PICK m : m = (r + (Word - d)) % Word
    OBVIOUS
  <2>3. PICK e \in Nat, q \in Nat : q = Word * e /\ r + (Word - d) = q + m /\ m \in 0 .. Word - 1
    BY <1>5, <2>1, <2>2
  <2>4. k + e # 0
    <3>. SUFFICES ASSUME k = 0, e = 0 PROVE FALSE
      BY <2>3
    <3>1. n = r /\ r + (Word - d) = m
      BY <1>1, <1>2, <1>3, <2>3
    <3>. QED  BY <1>1, <1>3, <1>7, <2>3, <3>1
  <2>5. PICK f \in Nat : f = (k + e) - 1
    BY <2>3, <2>4
  <2>6. Word * f = (p + q) - Word
    <3>1. k + e = f + 1
      BY <2>3, <2>4, <2>5
    <3>2. Word * (f + 1) = Word * f + Word
      BY <1>1, <2>5
    <3>3. Word * (k + e) = Word * k + Word * e
      BY <1>1, <2>3
    <3>4. PICK o \in Nat : o = Word * f
      BY <1>1
    <3>5. o + Word = p + q
      BY <1>4, <2>3, <3>1, <3>2, <3>3, <3>4
    <3>. QED  BY <1>1, <3>4, <3>5
  <2>7. n - d = Word * f + m
    <3>1. n = p + r
      BY <1>2, <1>4
    <3>2. PICK o \in Int : o = Word * f
      BY <1>1, <2>5
    <3>3. o = (p + q) - Word
      BY <2>6, <3>2
    <3>4. n - d = o + m
      BY <1>1, <1>3, <2>3, <3>1, <3>3
    <3>. QED  BY <3>2, <3>4
  <2>. QED  BY <2>2, <2>3, <2>5, <2>7 DEF Stands
<1>8. Word - (Word - 1) = 1 /\ 1 \in 1 .. Word - 1 /\ Word - 1 \in 1 .. Word - 1 /\ Word - 1 \in Nat
  BY <1>1
<1>9. n < Word => n = r
  <2>1. SUFFICES ASSUME n < Word PROVE k = 0
    BY <1>1, <1>2, <1>3
  <2>2. SUFFICES ASSUME k # 0 PROVE FALSE
    OBVIOUS
  <2>3. PICK j \in Nat : k = j + 1
    <3>1. k - 1 \in Nat /\ k = (k - 1) + 1
      BY <2>2
    <3>. QED  BY <3>1
  <2>4. Word * k = Word * j + Word /\ Word * j \in Nat
    BY <1>1, <2>3
  <2>. QED  BY <1>1, <1>2, <1>3, <2>1, <2>4
<1>10. n >= Word - 1 => Stands(n - (Word - 1), (r + 1) % Word)
  BY <1>7, <1>8
<1>. QED  BY <1>6, <1>7, <1>8, <1>9, <1>10

\* What a thread adds to the count of tree id: its references, and what a call it is in
\* has put there for a moment.
Calls == {"rest", "take back", "give back", "free", "look"}
Places(n) == [Threads -> [op : Calls, id : 0 .. n]]
Holdings == [Threads -> [1 .. MaxTrees -> 0 .. MaxHeld]]

Within(pl, t, id, ops) == pl[t].id = id /\ pl[t].op \in ops

Extra(pl, t, id) ==
  IF pl[t].id = id /\ pl[t].op = "take back" THEN 1
  ELSE IF pl[t].id = id /\ pl[t].op = "give back" THEN Word - 1 ELSE 0

Weights(pl, hd, id) == [t \in Threads |-> hd[t][id] + Extra(pl, t, id)]

\* The count stands for that, and a tree that is gone, going, or in a call that is undone
\* has no references.
Counted(r, fr, pl, hd, id) ==
  /\ Stands(Total(Weights(pl, hd, id)), r)
  /\ fr \/ (\E t \in Threads : Within(pl, t, id, {"take back", "give back", "free"}))
       => \A t \in Threads : hd[t][id] = 0

LEMMA HoldingIs ==
  ASSUME Bounded, NEW hd \in Holdings, NEW t \in Threads, NEW id \in 1 .. MaxTrees
  PROVE  hd[t][id] \in Nat /\ hd[t][id] <= MaxHeld /\ MaxHeld \in Nat
<1>1. hd[t] \in [1 .. MaxTrees -> 0 .. MaxHeld]
  BY DEF Holdings
<1>2. hd[t][id] \in 0 .. MaxHeld
  BY <1>1
<1>. QED  BY <1>2 DEF Bounded

LEMMA WeightsAre ==
  ASSUME Bounded, NEW n, NEW pl, NEW hd \in Holdings, NEW id \in 1 .. MaxTrees
  PROVE  Weights(pl, hd, id) \in [Threads -> Nat]
<1>1. ASSUME NEW t \in Threads
      PROVE  hd[t][id] + Extra(pl, t, id) \in Nat
  <2>1. hd[t][id] \in Nat
    BY HoldingIs
  <2>2. PICK m \in Nat : m = Word - 1
    BY DEF Bounded
  <2>3. Extra(pl, t, id) \in {0, 1, m}
    BY <2>2 DEF Extra
  <2>. QED  BY <2>1, <2>3
<1>. QED  BY <1>1 DEF Weights

\* No call on tree id is going to be undone.
Calm(pl, id) == \A t \in Threads : ~Within(pl, t, id, {"take back", "give back"})

\* While no call is undone the count is that of the references.
LEMMA CountKnown ==
  ASSUME Bounded, NEW pl, NEW hd \in Holdings, NEW id \in 1 .. MaxTrees, NEW r, NEW fr,
         Counted(r, fr, pl, hd, id), Calm(pl, id)
  PROVE  /\ r = Total(Weights(pl, hd, id))
         /\ \A t \in Threads : Weights(pl, hd, id)[t] = hd[t][id] /\ hd[t][id] <= r
<1>1. PICK w : w = Weights(pl, hd, id)
  OBVIOUS
<1>2. w \in [Threads -> Nat]
  BY <1>1, WeightsAre
<1>3. \A t \in Threads : w[t] = hd[t][id]
  <2>. SUFFICES ASSUME NEW t \in Threads PROVE w[t] = hd[t][id]
    OBVIOUS
  <2>1. PICK x \in Nat : x = hd[t][id]
    BY HoldingIs
  <2>2. Extra(pl, t, id) = 0
    BY DEF Within, Extra, Calm
  <2>3. w[t] = hd[t][id] + Extra(pl, t, id)
    BY <1>1 DEF Weights
  <2>4. w[t] = x
    BY <2>1, <2>2, <2>3
  <2>. QED  BY <2>1, <2>4
<1>4. \A t \in Threads : w[t] <= MaxHeld
  BY <1>3, HoldingIs
<1>5. PICK n \in Nat : n = Total(w)
  BY <1>2, TotalIs
<1>6. n < Word /\ \A t \in Threads : w[t] <= n
  BY <1>2, <1>4, <1>5, TotalIs
<1>7. Stands(n, r)
  BY <1>1, <1>5 DEF Counted
<1>8. n = r
  BY <1>6, <1>7, CountMoves
<1>. QED  BY <1>1, <1>3, <1>5, <1>6, <1>8

\* A count of none is that of a tree nobody has.
LEMMA NobodyHas ==
  ASSUME Bounded, NEW pl, NEW hd \in Holdings, NEW id \in 1 .. MaxTrees, NEW fr,
         Counted(0, fr, pl, hd, id)
  PROVE  \A t \in Threads : hd[t][id] = 0
<1>1. CASE ~Calm(pl, id)
  BY <1>1 DEF Counted, Within, Calm
<1>2. CASE Calm(pl, id)
  <2>1. \A t \in Threads : hd[t][id] <= 0
    BY <1>2, CountKnown
  <2>2. \A t \in Threads : hd[t][id] \in Nat
    BY HoldingIs
  <2>. QED  BY <2>1, <2>2
<1>. QED  BY <1>1, <1>2

\* What a thread does with another tree changes nothing.
LEMMA CountedSame ==
  ASSUME NEW pl, NEW hd, NEW pm, NEW hm, NEW id, NEW r, NEW fr, Counted(r, fr, pl, hd, id),
         \A t \in Threads : hm[t][id] = hd[t][id],
         \A t \in Threads : pl[t].id = id \/ pm[t].id = id => pm[t] = pl[t]
  PROVE  Counted(r, fr, pm, hm, id)
<1>1. ASSUME NEW t \in Threads, NEW ops PROVE Within(pm, t, id, ops) <=> Within(pl, t, id, ops)
  BY DEF Within
<1>2. Weights(pm, hm, id) = Weights(pl, hd, id)
  <2>1. \A t \in Threads : Extra(pm, t, id) = Extra(pl, t, id)
    BY DEF Extra
  <2>. QED  BY <2>1 DEF Weights
<1>3. (\E t \in Threads : Within(pm, t, id, {"take back", "give back", "free"}))
        => \E t \in Threads : Within(pl, t, id, {"take back", "give back", "free"})
  BY <1>1
<1>. QED  BY <1>2, <1>3 DEF Counted

\* One thread's part changes, and the sum by as much.
Others(pl, hd, pm, hm, id, t) ==
  \A u \in Threads : u # t => pm[u] = pl[u] /\ hm[u][id] = hd[u][id]

Moved(a, b, t) ==
  \E m, n, c, d \in Nat :
    m = Total(a) /\ n = Total(b) /\ c = a[t] /\ d = b[t] /\ c <= m /\ m + d = n + c

LEMMA TotalMoves ==
  ASSUME Bounded, NEW pl, NEW hd \in Holdings, NEW pm, NEW hm \in Holdings,
         NEW id \in 1 .. MaxTrees, NEW t \in Threads, Others(pl, hd, pm, hm, id, t)
  PROVE  Moved(Weights(pl, hd, id), Weights(pm, hm, id), t)
<1>1. PICK a : a = Weights(pl, hd, id)
  OBVIOUS
<1>2. PICK b : b = Weights(pm, hm, id)
  OBVIOUS
<1>3. a \in [Threads -> Nat] /\ b \in [Threads -> Nat]
  BY <1>1, <1>2, WeightsAre
<1>4. ASSUME NEW u \in Threads, u # t PROVE a[u] = b[u]
  <2>1. Extra(pm, u, id) = Extra(pl, u, id) /\ hm[u][id] = hd[u][id]
    BY <1>4 DEF Extra, Others
  <2>. QED  BY <1>1, <1>2, <2>1 DEF Weights
<1>5. Total(a) + b[t] = Total(b) + a[t]
  BY <1>3, <1>4, TotalDiffers
<1>6. Total(a) \in Nat /\ Total(b) \in Nat /\ a[t] <= Total(a) /\ a[t] \in Nat /\ b[t] \in Nat
  BY <1>3, TotalIs
<1>. QED  BY <1>1, <1>2, <1>5, <1>6 DEF Moved

---------------------------------------------------------------------------
(* What calls do to it                                                     *)

\* A reference more, put on a count that is not none, while no call is undone.
LEMMA RetainCounted ==
  ASSUME Bounded, NEW pl, NEW hd \in Holdings, NEW hm \in Holdings,
         NEW id \in 1 .. MaxTrees, NEW t \in Threads, NEW r, NEW fr,
         Counted(r, fr, pl, hd, id), r # 0, Calm(pl, id),
         hm[t][id] = hd[t][id] + 1, \A u \in Threads : u # t => hm[u][id] = hd[u][id]
  PROVE  Counted((r + 1) % Word, fr, pl, hm, id)
<1>1. PICK a : a = Weights(pl, hd, id)
  OBVIOUS
<1>2. PICK b : b = Weights(pl, hm, id)
  OBVIOUS
<1>3. PICK m \in Nat, k \in Nat, c \in Nat, d \in Nat :
        m = Total(a) /\ k = Total(b) /\ c = a[t] /\ d = b[t] /\ m + d = k + c
  <2>1. Others(pl, hd, pl, hm, id, t)
    BY DEF Others
  <2>. QED  BY <1>1, <1>2, <2>1, TotalMoves DEF Moved
<1>4. d = c + 1
  <2>1. PICK x \in Nat : x = hd[t][id]
    BY HoldingIs
  <2>2. Extra(pl, t, id) = 0
    BY DEF Within, Extra, Calm
  <2>3. a[t] = hd[t][id] + Extra(pl, t, id) /\ b[t] = hm[t][id] + Extra(pl, t, id)
    BY <1>1, <1>2 DEF Weights
  <2>4. c = x /\ d = x + 1
    BY <1>3, <2>1, <2>2, <2>3
  <2>. QED  BY <2>4
<1>5. k = m + 1
  BY <1>3, <1>4
<1>6. Stands(Total(b), (r + 1) % Word)
  <2>1. Stands(m, r)
    BY <1>1, <1>3 DEF Counted
  <2>. QED  BY <1>3, <1>5, <2>1, CountMoves
\* Somebody has it, so it is neither gone nor going.
<1>7. \E u \in Threads : hd[u][id] # 0
  <2>1. SUFFICES ASSUME \A u \in Threads : hd[u][id] = 0 PROVE FALSE
    OBVIOUS
  <2>2. \A u \in Threads : a[u] = 0
    <3>1. \A u \in Threads : Weights(pl, hd, id)[u] = hd[u][id]
      BY CountKnown
    <3>. QED  BY <1>1, <2>1, <3>1
  <2>3. a \in [Threads -> Nat]
    BY <1>1, WeightsAre
  <2>4. Total(a) = 0
    BY <2>2, <2>3, TotalIs
  <2>5. r = Total(a)
    BY <1>1, CountKnown
  <2>. QED  BY <2>4, <2>5
<1>8. ~fr /\ \A u \in Threads : ~Within(pl, u, id, {"take back", "give back", "free"})
  BY <1>7 DEF Counted
<1>. QED  BY <1>2, <1>6, <1>8 DEF Counted

Leaves(pl, pm, t, r) == pl[t].op = "rest" /\ pm[t].op = (IF r = 1 THEN "free" ELSE "rest")

\* A reference less, and the last one to leave is to free.
LEMMA ReleaseCounted ==
  ASSUME Bounded, NEW pl, NEW pm, NEW hd \in Holdings, NEW hm \in Holdings,
         NEW id \in 1 .. MaxTrees, NEW t \in Threads, NEW r, NEW fr,
         Counted(r, fr, pl, hd, id), Leaves(pl, pm, t, r),
         hd[t][id] > 0, hm[t][id] = hd[t][id] - 1,
         \A u \in Threads : u # t => pm[u] = pl[u] /\ hm[u][id] = hd[u][id]
  PROVE  Counted((r + (Word - 1)) % Word, fr, pm, hm, id)
<1>1. PICK a : a = Weights(pl, hd, id)
  OBVIOUS
<1>2. PICK b : b = Weights(pm, hm, id)
  OBVIOUS
<1>3. PICK m \in Nat, k \in Nat, c \in Nat, d \in Nat :
        m = Total(a) /\ k = Total(b) /\ c = a[t] /\ d = b[t] /\ c <= m /\ m + d = k + c
  <2>1. Others(pl, hd, pm, hm, id, t)
    BY DEF Others
  <2>. QED  BY <1>1, <1>2, <2>1, TotalMoves DEF Moved
<1>4. ~fr /\ \A u \in Threads : ~Within(pl, u, id, {"take back", "give back", "free"})
  <2>1. hd[t][id] # 0
    BY HoldingIs
  <2>. QED  BY <2>1, Zenon DEF Counted
<1>5. Calm(pl, id)
  BY <1>4 DEF Within, Calm
<1>6. c >= 1 /\ d = c - 1
  <2>1. PICK x \in Nat : x = hd[t][id] /\ x > 0
    BY HoldingIs
  <2>2. Extra(pl, t, id) = 0 /\ Extra(pm, t, id) = 0
    BY DEF Extra, Leaves
  <2>3. a[t] = hd[t][id] + Extra(pl, t, id) /\ b[t] = hm[t][id] + Extra(pm, t, id)
    BY <1>1, <1>2 DEF Weights
  <2>4. c = x /\ d = x - 1
    BY <1>3, <2>1, <2>2, <2>3
  <2>. QED  BY <2>1, <2>4
<1>7. k = m - 1 /\ m >= 1
  BY <1>3, <1>6
<1>8. Stands(Total(b), (r + (Word - 1)) % Word)
  <2>1. Stands(m, r)
    BY <1>1, <1>3 DEF Counted
  <2>. QED  BY <1>3, <1>7, <2>1, CountMoves
<1>9. CASE r = 1
  <2>1. Total(b) = 0
    <3>1. r = Total(Weights(pl, hd, id))
      BY <1>5, CountKnown
    <3>. QED  BY <1>1, <1>3, <1>7, <1>9, <3>1
  <2>2. ASSUME NEW u \in Threads PROVE hm[u][id] = 0
    <3>1. PICK x \in Nat : x = hm[u][id]
      BY HoldingIs
    <3>2. b \in [Threads -> Nat]
      BY <1>2, WeightsAre
    <3>3. b[u] <= 0 /\ b[u] \in Nat
      BY <2>1, <3>2, TotalIs
    <3>4. Extra(pm, u, id) = 0
      <4>1. CASE u = t
        BY <1>9, <4>1 DEF Extra, Leaves
      <4>2. CASE u # t
        BY <1>5, <4>2 DEF Extra, Within, Calm
      <4>. QED  BY <4>1, <4>2
    <3>5. b[u] = x + Extra(pm, u, id)
      BY <1>2, <3>1 DEF Weights
    <3>6. b[u] = x + 0
      BY <3>4, <3>5
    <3>. QED  BY <3>1, <3>3, <3>6
  <2>. QED  BY <1>2, <1>8, <2>2 DEF Counted
<1>10. CASE r # 1
  <2>1. ASSUME NEW u \in Threads PROVE ~Within(pm, u, id, {"take back", "give back", "free"})
    <3>1. CASE u = t
      BY <1>10, <3>1 DEF Within, Leaves
    <3>2. CASE u # t
      BY <1>4, <3>2 DEF Within
    <3>. QED  BY <3>1, <3>2
  <2>. QED  BY <1>2, <1>4, <1>8, <2>1 DEF Counted
<1>. QED  BY <1>9, <1>10

\* The count moves by what the thread's call has put there.
Turns(r, s, pl, pm, t, id) ==
  \/ s = r /\ Extra(pm, t, id) = Extra(pl, t, id)
  \/ s = (r + 1) % Word /\ Extra(pl, t, id) = 0 /\ Extra(pm, t, id) = 1
  \/ s = (r + 1) % Word /\ Extra(pl, t, id) = Word - 1 /\ Extra(pm, t, id) = 0
  \/ s = (r + (Word - 1)) % Word /\ Extra(pl, t, id) = 0 /\ Extra(pm, t, id) = Word - 1
  \/ s = (r + (Word - 1)) % Word /\ Extra(pl, t, id) = 1 /\ Extra(pm, t, id) = 0

\* A thread goes into a call that is undone, out of one, or frees: nobody has the tree.
LEMMA Undone ==
  ASSUME Bounded, NEW pl, NEW pm, NEW hd \in Holdings,
         NEW id \in 1 .. MaxTrees, NEW t \in Threads, NEW r, NEW s, NEW fr, NEW fs,
         Counted(r, fr, pl, hd, id), \A u \in Threads : u # t => pm[u] = pl[u],
         \A u \in Threads : hd[u][id] = 0,
         Turns(r, s, pl, pm, t, id)
  PROVE  Counted(s, fs, pm, hd, id)
<1>1. PICK a : a = Weights(pl, hd, id)
  OBVIOUS
<1>2. PICK b : b = Weights(pm, hd, id)
  OBVIOUS
<1>3. PICK m \in Nat : m = Word - 1
  BY DEF Bounded
<1>4. PICK i \in Nat, j \in Nat, c \in Nat, d \in Nat :
        i = Total(a) /\ j = Total(b) /\ c = a[t] /\ d = b[t] /\ c <= i /\ i + d = j + c
  <2>1. Others(pl, hd, pm, hd, id, t)
    BY DEF Others
  <2>2. Moved(Weights(pl, hd, id), Weights(pm, hd, id), t)
    BY <2>1, TotalMoves
  <2>3. Moved(a, b, t)
    BY <1>1, <1>2, <2>2
  <2>. QED  BY <2>3 DEF Moved
<1>5. Extra(pl, t, id) \in {0, 1, m} /\ Extra(pm, t, id) \in {0, 1, m}
  BY <1>3 DEF Extra
<1>6. c = Extra(pl, t, id) /\ d = Extra(pm, t, id)
  <2>1. a[t] = hd[t][id] + Extra(pl, t, id) /\ b[t] = hd[t][id] + Extra(pm, t, id)
    BY <1>1, <1>2 DEF Weights
  <2>2. a[t] = 0 + Extra(pl, t, id) /\ b[t] = 0 + Extra(pm, t, id)
    BY <2>1
  <2>. QED  BY <1>4, <1>5, <2>2
<1>7. Stands(i, r)
  BY <1>1, <1>4 DEF Counted
<1>8. Stands(j, s)
  <2>1. CASE s = r /\ d = c
    <3>1. j = i
      BY <1>4, <2>1
    <3>. QED  BY <1>7, <2>1, <3>1
  <2>2. CASE s = (r + 1) % Word /\ c = 0 /\ d = 1
    <3>1. j = i + 1
      BY <1>4, <2>2
    <3>. QED  BY <1>7, <2>2, <3>1, CountMoves
  <2>3. CASE s = (r + 1) % Word /\ c = m /\ d = 0
    <3>1. j = i - (Word - 1) /\ i >= Word - 1
      BY <1>3, <1>4, <2>3
    <3>. QED  BY <1>7, <2>3, <3>1, CountMoves
  <2>4. CASE s = (r + (Word - 1)) % Word /\ c = 0 /\ d = m
    <3>1. j = i + (Word - 1)
      BY <1>3, <1>4, <2>4
    <3>. QED  BY <1>7, <2>4, <3>1, CountMoves
  <2>5. CASE s = (r + (Word - 1)) % Word /\ c = 1 /\ d = 0
    <3>1. j = i - 1 /\ i >= 1
      BY <1>4, <2>5
    <3>. QED  BY <1>7, <2>5, <3>1, CountMoves
  <2>. QED  BY <1>3, <1>6, <2>1, <2>2, <2>3, <2>4, <2>5 DEF Turns
<1>. QED  BY <1>2, <1>4, <1>8 DEF Counted

\* A tree that was just registered is its registrant's.
LEMMA Registered ==
  ASSUME Bounded, NEW n \in Nat, NEW pl \in Places(n), NEW hd \in Holdings,
         NEW t \in Threads, n + 1 \in 1 .. MaxTrees, hd[t][n + 1] = 1,
         \A u \in Threads : u # t => hd[u][n + 1] = 0
  PROVE  Counted(1, FALSE, pl, hd, n + 1)
<1>1. PICK id \in 1 .. MaxTrees : id = n + 1
  OBVIOUS
<1>2. \A u \in Threads : pl[u].id # id
  BY <1>1 DEF Places
<1>3. \A u \in Threads : Extra(pl, u, id) = 0
  BY <1>2 DEF Extra
<1>4. PICK b : b = Weights(pl, hd, id)
  OBVIOUS
<1>5. PICK a : a = [u \in Threads |-> 0]
  OBVIOUS
<1>6. b \in [Threads -> Nat] /\ a \in [Threads -> Nat]
  BY <1>4, <1>5, WeightsAre
<1>7. ASSUME NEW u \in Threads PROVE b[u] = IF u = t THEN 1 ELSE 0
  <2>1. b[u] = hd[u][id] + Extra(pl, u, id)
    BY <1>4 DEF Weights
  <2>2. PICK x \in Nat : x = hd[u][id] /\ x = IF u = t THEN 1 ELSE 0
    BY <1>1
  <2>3. b[u] = x + 0
    BY <1>3, <2>1, <2>2
  <2>. QED  BY <2>2, <2>3
<1>8. Total(a) = 0 /\ Total(b) \in Nat
  <2>1. \A u \in Threads : a[u] = 0
    BY <1>5
  <2>. QED  BY <1>6, <2>1, TotalIs
<1>9. Total(a) + b[t] = Total(b) + a[t]
  <2>1. \A u \in Threads : u # t => a[u] = b[u]
    BY <1>5, <1>7
  <2>. QED  BY <1>6, <2>1, TotalDiffers
<1>10. Total(b) = 1
  BY <1>5, <1>7, <1>8, <1>9
<1>11. Stands(1, 1)
  <2>1. 1 = Word * 0 + 1 /\ 1 \in 0 .. Word - 1
    BY DEF Bounded
  <2>. QED  BY <2>1 DEF Stands
<1>12. \A u \in Threads : ~Within(pl, u, id, {"take back", "give back", "free"})
  BY <1>2 DEF Within
<1>13. Counted(1, FALSE, pl, hd, id)
  BY <1>4, <1>10, <1>11, <1>12 DEF Counted
<1>. QED  BY <1>1, <1>13

---------------------------------------------------------------------------
(* Who has a reference to a tree finds it                                  *)

TreeEntry(T) == [text : T, refs : 0 .. Word - 1, free : BOOLEAN]

\* Only entry id is another.
Changed(rg, rs, id) ==
  /\ \E T : rg \in Seq(TreeEntry(T)) /\ rs \in Seq(TreeEntry(T))
  /\ Len(rs) = Len(rg) /\ \A i \in 1 .. Len(rg) : i # id => rs[i] = rg[i]

\* Places and holdings are those of calls on n trees: a thread at rest is with no tree, and
\* nobody has a tree that is not yet there.
Standing(n, pl, hd) ==
  /\ n \in 0 .. MaxTrees /\ pl \in Places(n) /\ hd \in Holdings
  /\ \A t \in Threads : pl[t].op = "rest" <=> pl[t].id = 0
  /\ \A t \in Threads, id \in 1 .. MaxTrees : id > n => hd[t][id] = 0

\* Every count is that of the references and of the calls under way.
AllCounted(rg, pl, hd) ==
  \A id \in 1 .. Len(rg) : Counted(rg[id].refs, rg[id].free, pl, hd, id)

\* The invariant: while no call has strayed, all are counted.
Shares(rg, pl, hd, st) ==
  /\ \E T : rg \in Seq(TreeEntry(T))
  /\ Standing(Len(rg), pl, hd)
  /\ st \in BOOLEAN /\ (~st => AllCounted(rg, pl, hd))

Goal(n, c, id) == c \in Calls /\ id \in 0 .. n /\ (c = "rest" <=> id = 0)
Put(pl, pm, t, c, id) == pm = [pl EXCEPT ![t] = [op |-> c, id |-> id]]
Give(hd, hm, t, id, x) == hm = [hd EXCEPT ![t][id] = x]

\* A thread's part in other trees, and the others' part in this one, is as it was.
Aside(pl, hd, pm, hm, t, id) ==
  /\ pl[t].id \in {0, id} /\ pm[t].id \in {0, id} /\ \A u \in Threads : u # t => pm[u] = pl[u]
  /\ \A u \in Threads, i \in 1 .. MaxTrees : u # t \/ i # id => hm[u][i] = hd[u][i]

\* One thread's place changes.
LEMMA PlaceChanges ==
  ASSUME NEW n \in 0 .. MaxTrees, MaxTrees \in Nat, NEW pl, NEW hd, Standing(n, pl, hd),
         NEW t \in Threads, NEW c, NEW id, Goal(n, c, id), NEW pm,
         Put(pl, pm, t, c, id)
  PROVE  /\ Standing(n, pm, hd)
         /\ pm[t].op = c /\ pm[t].id = id
         /\ \A u \in Threads : u # t => pm[u] = pl[u]
<1>1. pl \in [Threads -> [op : Calls, id : 0 .. n]]
  BY DEF Standing, Places
<1>2. [op |-> c, id |-> id] \in [op : Calls, id : 0 .. n]
  BY DEF Goal
<1>3. pm \in [Threads -> [op : Calls, id : 0 .. n]] /\ pm[t] = [op |-> c, id |-> id]
      /\ \A u \in Threads : u # t => pm[u] = pl[u]
  BY <1>1, <1>2 DEF Put
<1>4. pm[t].op = c /\ pm[t].id = id
  BY <1>3
<1>5. \A u \in Threads : pm[u].op = "rest" <=> pm[u].id = 0
  BY <1>3, <1>4 DEF Standing, Goal
<1>. QED  BY <1>3, <1>4, <1>5 DEF Standing, Places

\* One thread's references to one tree change.
LEMMA HoldingChanges ==
  ASSUME MaxTrees \in Nat, NEW n \in 0 .. MaxTrees, NEW pl, NEW hd, Standing(n, pl, hd), NEW t \in Threads,
         NEW id \in 1 .. n, NEW x \in 0 .. MaxHeld, NEW hm, Give(hd, hm, t, id, x)
  PROVE  /\ Standing(n, pl, hm)
         /\ hm[t][id] = x
         /\ \A u \in Threads, i \in 1 .. MaxTrees : u # t \/ i # id => hm[u][i] = hd[u][i]
<1>1. hd \in [Threads -> [1 .. MaxTrees -> 0 .. MaxHeld]] /\ id \in 1 .. MaxTrees
  BY DEF Standing, Holdings
<1>2. PICK g : g = [hd[t] EXCEPT ![id] = x]
  OBVIOUS
<1>3. g \in [1 .. MaxTrees -> 0 .. MaxHeld] /\ g[id] = x
      /\ \A i \in 1 .. MaxTrees : i # id => g[i] = hd[t][i]
  <2>1. hd[t] \in [1 .. MaxTrees -> 0 .. MaxHeld]
    BY <1>1
  <2>. QED  BY <1>1, <1>2, <2>1
<1>4. hm = [hd EXCEPT ![t] = g]
  BY <1>2 DEF Give
<1>5. hm \in [Threads -> [1 .. MaxTrees -> 0 .. MaxHeld]] /\ hm[t] = g
      /\ \A u \in Threads : u # t => hm[u] = hd[u]
  BY <1>1, <1>3, <1>4
<1>6. \A u \in Threads, i \in 1 .. MaxTrees : u # t \/ i # id => hm[u][i] = hd[u][i]
  BY <1>3, <1>5
<1>7. hm[t][id] = x
  BY <1>3, <1>5
<1>8. \A u \in Threads, i \in 1 .. MaxTrees : i > n => hm[u][i] = 0
  <2>. SUFFICES ASSUME NEW u \in Threads, NEW i \in 1 .. MaxTrees, i > n PROVE hm[u][i] = 0
    OBVIOUS
  <2>1. i # id
    OBVIOUS
  <2>. QED  BY <1>6, <2>1 DEF Standing
<1>. QED  BY <1>5, <1>6, <1>7, <1>8 DEF Standing, Holdings

\* One entry's count or mark changes.
LEMMA EntryChanges ==
  ASSUME NEW T, NEW rg \in Seq(TreeEntry(T)), NEW id \in 1 .. Len(rg), NEW r \in 0 .. Word - 1,
         NEW fr \in BOOLEAN, NEW rs,
         \/ rs = [rg EXCEPT ![id].refs = r] /\ fr = rg[id].free
         \/ rs = [rg EXCEPT ![id].free = fr] /\ r = rg[id].refs
  PROVE  /\ rs \in Seq(TreeEntry(T)) /\ Len(rs) = Len(rg)
         /\ rs[id].refs = r /\ rs[id].free = fr
         /\ \A i \in 1 .. Len(rg) : i # id => rs[i] = rg[i]
<1>1. rg[id] \in TreeEntry(T)
  OBVIOUS
<1>2. PICK e \in TreeEntry(T) : e.refs = r /\ e.free = fr /\ rs = [rg EXCEPT ![id] = e]
  <2>1. CASE rs = [rg EXCEPT ![id].refs = r] /\ fr = rg[id].free
    <3>1. PICK e : e = [rg[id] EXCEPT !.refs = r]
      OBVIOUS
    <3>2. e \in TreeEntry(T) /\ e.refs = r /\ e.free = fr
      BY <1>1, <2>1, <3>1 DEF TreeEntry
    <3>3. rs = [rg EXCEPT ![id] = e]
      BY <2>1, <3>1
    <3>. QED  BY <3>2, <3>3
  <2>2. CASE rs = [rg EXCEPT ![id].free = fr] /\ r = rg[id].refs
    <3>1. PICK e : e = [rg[id] EXCEPT !.free = fr]
      OBVIOUS
    <3>2. e \in TreeEntry(T) /\ e.refs = r /\ e.free = fr
      BY <1>1, <2>2, <3>1 DEF TreeEntry
    <3>3. rs = [rg EXCEPT ![id] = e]
      BY <2>2, <3>1
    <3>. QED  BY <3>2, <3>3
  <2>. QED  BY <2>1, <2>2
<1>3. rs \in Seq(TreeEntry(T)) /\ Len(rs) = Len(rg) /\ rs[id] = e
      /\ \A i \in 1 .. Len(rg) : i # id => rs[i] = rg[i]
  BY <1>2
<1>. QED  BY <1>2, <1>3

\* What a thread does with one tree leaves the counts of the others.
LEMMA OthersCounted ==
  ASSUME Bounded, NEW rg, NEW rs, NEW pl, NEW hd, NEW pm, NEW hm, NEW st, NEW sm \in BOOLEAN,
         Shares(rg, pl, hd, st), NEW id \in 1 .. Len(rg), NEW t \in Threads, Changed(rg, rs, id),
         Aside(pl, hd, pm, hm, t, id), Standing(Len(rg), pm, hm), st => sm,
         ~sm => Counted(rs[id].refs, rs[id].free, pm, hm, id)
  PROVE  Shares(rs, pm, hm, sm)
<1>1. ASSUME ~sm, NEW i \in 1 .. Len(rg) PROVE Counted(rs[i].refs, rs[i].free, pm, hm, i)
  <2>1. CASE i = id
    BY <1>1, <2>1
  <2>2. CASE i # id
    <3>1. Counted(rg[i].refs, rg[i].free, pl, hd, i)
      BY <1>1 DEF Shares, AllCounted
    <3>2. i \in 1 .. MaxTrees
      BY DEF Standing, Bounded
    <3>3. \A u \in Threads : hm[u][i] = hd[u][i]
      BY <2>2, <3>2 DEF Aside
    <3>4. pl[t].id # i /\ pm[t].id # i
      BY <2>2 DEF Aside
    <3>5. \A u \in Threads : pl[u].id = i \/ pm[u].id = i => pm[u] = pl[u]
      BY <3>4 DEF Aside
    <3>6. Counted(rg[i].refs, rg[i].free, pm, hm, i)
      BY <3>1, <3>3, <3>5, CountedSame
    <3>. QED  BY <2>2, <3>6 DEF Changed
  <2>. QED  BY <2>1, <2>2
<1>2. ~sm => AllCounted(rs, pm, hm)
  BY <1>1 DEF AllCounted, Changed
<1>. QED  BY <1>2 DEF Shares, Changed

SharesInv == Shares(registry, places, held, strayed)

LEMMA SharesKnown ==
  ASSUME Bounded, SharesInv
  PROVE  /\ \A t \in Threads : /\ places[t].op \in Calls /\ places[t].id \in 0 .. Len(registry)
                               /\ places[t] = Shared!Rest => places[t].op = "rest" /\ places[t].id = 0
         /\ held \in Holdings /\ places \in Places(Len(registry)) /\ Standing(Len(registry), places, held)
         /\ Len(registry) \in 0 .. MaxTrees /\ MaxTrees \in Nat /\ strayed \in BOOLEAN
         /\ DOMAIN registry = 1 .. Len(registry)
         /\ \A i \in DOMAIN registry :
              /\ i \in 1 .. MaxTrees /\ registry[i].refs \in 0 .. Word - 1 /\ registry[i].free \in BOOLEAN
              /\ ~strayed => Counted(registry[i].refs, registry[i].free, places, held, i)
<1>1. PICK T : registry \in Seq(TreeEntry(T))
  BY DEF SharesInv, Shares
<1>2. Standing(Len(registry), places, held)
  BY DEF SharesInv, Shares
<1>3. places \in [Threads -> [op : Calls, id : 0 .. Len(registry)]] /\ held \in Holdings
      /\ Len(registry) \in 0 .. MaxTrees /\ MaxTrees \in Nat
  BY <1>2 DEF Standing, Places, Bounded
<1>4. DOMAIN registry = 1 .. Len(registry)
  BY <1>1
<1>5. ASSUME NEW i \in DOMAIN registry
      PROVE  /\ i \in 1 .. MaxTrees /\ registry[i].refs \in 0 .. Word - 1 /\ registry[i].free \in BOOLEAN
             /\ ~strayed => Counted(registry[i].refs, registry[i].free, places, held, i)
  <2>1. registry[i] \in TreeEntry(T)
    BY <1>1, <1>4
  <2>2. ~strayed => Counted(registry[i].refs, registry[i].free, places, held, i)
    BY <1>4 DEF SharesInv, Shares, AllCounted
  <2>. QED  BY <1>3, <1>4, <2>1, <2>2 DEF TreeEntry
<1>6. ASSUME NEW t \in Threads
      PROVE  /\ places[t].op \in Calls /\ places[t].id \in 0 .. Len(registry)
             /\ places[t] = Shared!Rest => places[t].op = "rest" /\ places[t].id = 0
  BY <1>3 DEF Shared!Rest
<1>7. strayed \in BOOLEAN
  BY DEF SharesInv, Shares
<1>8. places \in Places(Len(registry))
  BY <1>2 DEF Standing
<1>. QED  BY <1>2, <1>3, <1>4, <1>5, <1>6, <1>7, <1>8

\* An action on one entry, spelled out.
LEMMA CountIs ==
  ASSUME Bounded, SharesInv, NEW id \in DOMAIN registry, NEW d \in Nat, Shared!Count(id, d)
  PROVE  /\ Changed(registry, registry', id)
         /\ registry'[id].refs = (registry[id].refs + d) % Word
         /\ registry'[id].free = registry[id].free
<1>1. PICK T : registry \in Seq(TreeEntry(T))
  BY DEF SharesInv, Shares
<1>2. id \in 1 .. Len(registry)
  BY SharesKnown
<1>3. PICK o \in Nat : o = registry[id].refs
  <2>1. registry[id].refs \in 0 .. Word - 1
    BY SharesKnown
  <2>. QED  BY <2>1
<1>4. PICK r : r = (registry[id].refs + d) % Word
  OBVIOUS
<1>5. r \in 0 .. Word - 1
  BY <1>3, <1>4 DEF Bounded
<1>6. PICK fr \in BOOLEAN : fr = registry[id].free
  BY SharesKnown
<1>7. PICK rs : rs = registry'
  OBVIOUS
<1>8. rs = [registry EXCEPT ![id].refs = r]
  BY <1>4, <1>7 DEF Shared!Count
<1>9. /\ rs \in Seq(TreeEntry(T)) /\ Len(rs) = Len(registry) /\ rs[id].refs = r /\ rs[id].free = fr
      /\ \A i \in 1 .. Len(registry) : i # id => rs[i] = registry[i]
  BY <1>1, <1>2, <1>5, <1>6, <1>8, EntryChanges
<1>. QED  BY <1>1, <1>4, <1>6, <1>7, <1>9 DEF Changed

\* A thread goes into a call that will be undone, comes out of one, or has freed.
LEMMA TurnKeeps ==
  ASSUME Bounded, SharesInv, NEW t \in Threads, NEW id \in 1 .. Len(registry), NEW rs,
         Changed(registry, rs, id), NEW pm, Standing(Len(registry), pm, held),
         Aside(places, held, pm, held, t, id), NEW sm \in BOOLEAN, strayed => sm,
         ~sm => Turns(registry[id].refs, rs[id].refs, places, pm, t, id),
         ~sm => \A u \in Threads : held[u][id] = 0
  PROVE  Shares(rs, pm, held, sm)
<1>1. PICK r, s, fr, fs : r = registry[id].refs /\ s = rs[id].refs /\ fr = registry[id].free /\ fs = rs[id].free
  OBVIOUS
<1>2. ASSUME ~sm PROVE Counted(s, fs, pm, held, id)
  <2>1. Turns(r, s, places, pm, t, id)
    BY <1>1, <1>2
  <2>2. Counted(r, fr, places, held, id)
    BY <1>1, <1>2, SharesKnown
  <2>3. \A u \in Threads : u # t => pm[u] = places[u]
    BY DEF Aside
  <2>4. id \in 1 .. MaxTrees /\ held \in Holdings
    BY SharesKnown
  <2>. QED  BY <1>2, <2>1, <2>2, <2>3, <2>4, Undone
<1>3. ~sm => Counted(rs[id].refs, rs[id].free, pm, held, id)
  BY <1>1, <1>2
<1>4. Shares(registry, places, held, strayed)
  BY DEF SharesInv
<1>. QED  BY <1>3, <1>4, OthersCounted

---------------------------------------------------------------------------
(* Each call keeps the counts                                              *)

\* A tree is registered.
LEMMA ShareRegister ==
  ASSUME Bounded, SharesInv, NEW t \in Threads, Shared!Register(t)
  PROVE  SharesInv'
<1>1. PICK T : registry \in Seq(TreeEntry(T))
  BY DEF SharesInv, Shares
<1>2. PICK n \in 0 .. MaxTrees : n = Len(registry) /\ n + 1 \in 1 .. MaxTrees
  BY SharesKnown DEF Shared!Register
<1>3. PICK x : x = [text |-> draft, refs |-> 1, free |-> FALSE]
  OBVIOUS
<1>4. PICK U : U = T \cup {draft}
  OBVIOUS
<1>5. x \in TreeEntry(U) /\ registry \in Seq(TreeEntry(U))
  <2>1. 1 \in 0 .. Word - 1
    BY DEF Bounded
  <2>2. x \in TreeEntry(U)
    BY <1>3, <1>4, <2>1 DEF TreeEntry
  <2>3. \A i \in 1 .. Len(registry) : registry[i] \in TreeEntry(T)
    BY <1>1
  <2>4. TreeEntry(T) \subseteq TreeEntry(U)
    BY <1>4 DEF TreeEntry
  <2>. QED  BY <1>1, <2>2, <2>3, <2>4
<1>6. PICK rs \in Seq(TreeEntry(U)) : /\ rs = registry' /\ Len(rs) = n + 1 /\ rs[n + 1] = x
                                  /\ \A i \in 1 .. n : rs[i] = registry[i]
  <2>1. registry' = Append(registry, x)
    BY <1>3 DEF Shared!Register
  <2>. QED  BY <1>2, <1>5, <2>1
<1>7. Standing(n, places, held) /\ places \in Places(n)
  BY <1>2, SharesKnown
<1>8. Standing(n + 1, places, held)
  <2>1. places \in Places(n + 1)
    <3>1. [op : Calls, id : 0 .. n] \subseteq [op : Calls, id : 0 .. n + 1]
      BY <1>2
    <3>. QED  BY <1>7, <3>1 DEF Places
  <2>2. \A u \in Threads, i \in 1 .. MaxTrees : i > n + 1 => held[u][i] = 0
    BY <1>2, <1>7 DEF Standing, Bounded
  <2>3. n + 1 \in 0 .. MaxTrees
    BY <1>2 DEF Bounded
  <2>. QED  BY <1>7, <2>1, <2>2, <2>3 DEF Standing
<1>9. PICK hm : hm = held'
  OBVIOUS
<1>10. /\ Standing(n + 1, places, hm) /\ hm[t][n + 1] = 1
       /\ \A u \in Threads, i \in 1 .. MaxTrees : u # t \/ i # n + 1 => hm[u][i] = held[u][i]
  <2>1. Give(held, hm, t, n + 1, 1)
    BY <1>2, <1>9 DEF Shared!Register, Give
  <2>2. 1 \in 0 .. MaxHeld /\ MaxTrees \in Nat
    BY DEF Bounded
  <2>3. n + 1 \in 0 .. MaxTrees /\ n + 1 \in 1 .. n + 1
    BY <1>2 DEF Bounded
  <2>. QED  BY <1>8, <2>1, <2>2, <2>3, HoldingChanges
<1>11. Counted(1, FALSE, places, hm, n + 1)
  <2>1. \A u \in Threads : u # t => hm[u][n + 1] = 0
    <3>. SUFFICES ASSUME NEW u \in Threads, u # t PROVE hm[u][n + 1] = 0
      OBVIOUS
    <3>1. held[u][n + 1] = 0
      BY <1>2, <1>7 DEF Standing
    <3>. QED  BY <1>2, <1>10, <3>1
  <2>2. hm \in Holdings /\ n \in Nat
    BY <1>2, <1>10 DEF Standing
  <2>. QED  BY <1>2, <1>7, <1>10, <2>1, <2>2, Registered
<1>12. ASSUME ~strayed, NEW i \in 1 .. n + 1
       PROVE  Counted(rs[i].refs, rs[i].free, places, hm, i)
  <2>1. CASE i = n + 1
    <3>1. rs[i].refs = 1 /\ rs[i].free = FALSE
      BY <1>3, <1>6, <2>1
    <3>. QED  BY <1>11, <2>1, <3>1
  <2>2. CASE i # n + 1
    <3>1. i \in 1 .. n /\ i \in 1 .. MaxTrees
      BY <1>2, <2>2 DEF Bounded
    <3>2. Counted(registry[i].refs, registry[i].free, places, held, i)
      BY <1>2, <1>12, <3>1, SharesKnown
    <3>3. \A u \in Threads : hm[u][i] = held[u][i]
      BY <1>10, <2>2, <3>1
    <3>4. Counted(registry[i].refs, registry[i].free, places, hm, i)
      BY <3>2, <3>3, CountedSame
    <3>. QED  BY <1>6, <3>1, <3>4
  <2>. QED  BY <2>1, <2>2
<1>13. Shares(rs, places, hm, strayed)
  <2>1. ~strayed => AllCounted(rs, places, hm)
    BY <1>6, <1>12 DEF AllCounted
  <2>2. strayed \in BOOLEAN
    BY SharesKnown
  <2>. QED  BY <1>6, <1>10, <2>1, <2>2 DEF Shares
<1>14. places' = places /\ strayed' = strayed
  BY DEF Shared!Register
<1>. QED  BY <1>6, <1>9, <1>13, <1>14 DEF SharesInv

Entering == {"take back", "give back", "look"}

\* A thread at rest goes into a call on tree id.
LEMMA Entered ==
  ASSUME Bounded, SharesInv, NEW t \in Threads, places[t].op = "rest", NEW id \in 1 .. Len(registry),
         NEW c \in Entering, NEW pm, Put(places, pm, t, c, id)
  PROVE  /\ Standing(Len(registry), pm, held) /\ Aside(places, held, pm, held, t, id)
         /\ Extra(places, t, id) = 0
         /\ pm[t].op = c /\ pm[t].id = id
<1>1. /\ places[t].id = 0 /\ Standing(Len(registry), places, held)
      /\ Len(registry) \in 0 .. MaxTrees /\ MaxTrees \in Nat
  BY SharesKnown DEF Standing
<1>2. Goal(Len(registry), c, id)
  <2>1. c \in Calls /\ c # "rest"
    BY DEF Calls, Entering
  <2>2. id \in 0 .. Len(registry) /\ id # 0
    BY <1>1
  <2>. QED  BY <2>1, <2>2 DEF Goal
<1>3. /\ Standing(Len(registry), pm, held) /\ pm[t].op = c /\ pm[t].id = id
      /\ \A u \in Threads : u # t => pm[u] = places[u]
  <2>1. PICK k : k = c
    OBVIOUS
  <2>2. Put(places, pm, t, k, id) /\ Goal(Len(registry), k, id)
    BY <1>2, <2>1
  <2>3. /\ Standing(Len(registry), pm, held) /\ pm[t].op = k /\ pm[t].id = id
        /\ \A u \in Threads : u # t => pm[u] = places[u]
    BY <1>1, <2>2, PlaceChanges
  <2>. QED  BY <2>1, <2>3
<1>4. Aside(places, held, pm, held, t, id)
  BY <1>1, <1>3 DEF Aside
<1>5. Extra(places, t, id) = 0
  BY DEF Extra
<1>. QED  BY <1>3, <1>4, <1>5

\* A reference is added.
LEMMA ShareRetain ==
  ASSUME Bounded, SharesInv, NEW t \in Threads, NEW id, Shared!Retain(t, id)
  PROVE  SharesInv'
<1>1. id \in DOMAIN registry /\ places[t] = Shared!Rest /\ Shared!Count(id, 1)
  BY DEF Shared!Retain
<1>2. /\ id \in 1 .. Len(registry) /\ id \in 1 .. MaxTrees /\ places[t].op = "rest" /\ places[t].id = 0
      /\ Standing(Len(registry), places, held) /\ held \in Holdings
      /\ strayed \in BOOLEAN /\ Len(registry) \in 0 .. MaxTrees /\ MaxTrees \in Nat
      /\ ~strayed => Counted(registry[id].refs, registry[id].free, places, held, id)
  BY <1>1, SharesKnown
<1>3. /\ Changed(registry, registry', id) /\ registry'[id].refs = (registry[id].refs + 1) % Word
      /\ registry'[id].free = registry[id].free
  BY <1>1, CountIs
<1>4. CASE registry[id].refs = 0
  <2>1. held' = held /\ strayed' = strayed /\ places' = [places EXCEPT ![t] = [op |-> "take back", id |-> id]]
    BY <1>4 DEF Shared!Retain, Shared!Goes
  <2>2. PICK pm, c : pm = places' /\ c = "take back" /\ c \in Entering /\ Put(places, pm, t, c, id)
    BY <2>1 DEF Put, Entering
  <2>3. /\ Standing(Len(registry), pm, held) /\ Aside(places, held, pm, held, t, id)
        /\ Extra(places, t, id) = 0 /\ pm[t].op = c /\ pm[t].id = id
    <3>1. Put(places, pm, t, c, id) /\ c \in Entering
      BY <2>2
    <3>. QED  BY <1>2, <3>1, Entered
  <2>4. ASSUME ~strayed PROVE \A u \in Threads : held[u][id] = 0
    <3>1. Counted(0, registry[id].free, places, held, id)
      BY <1>2, <1>4, <2>4
    <3>. QED  BY <1>2, <3>1, NobodyHas
  <2>5. Turns(registry[id].refs, registry'[id].refs, places, pm, t, id)
    <3>1. Extra(pm, t, id) = 1
      BY <2>2, <2>3 DEF Extra
    <3>. QED  BY <1>3, <2>3, <3>1 DEF Turns
  <2>6. Shares(registry', pm, held, strayed)
    BY <1>2, <1>3, <2>3, <2>4, <2>5, TurnKeeps
  <2>. QED  BY <2>1, <2>2, <2>6 DEF SharesInv
<1>5. CASE registry[id].refs # 0
  <2>1. /\ places' = places /\ held' = [held EXCEPT ![t][id] = @ + 1] /\ held[t][id] < MaxHeld
        /\ strayed' = (strayed \/ \E u \in Threads : places[u].id = id /\ places[u].op \in {"take back", "give back"})
    BY <1>5 DEF Shared!Retain
  <2>2. PICK x \in Nat : x = held[t][id] /\ x + 1 \in 0 .. MaxHeld
    <3>1. PICK x \in Nat, y \in Nat : x = held[t][id] /\ y = MaxHeld
      BY <1>2, HoldingIs
    <3>2. held[t][id] < MaxHeld
      BY <2>1
    <3>. QED  BY <3>1, <3>2
  <2>3. PICK hm : hm = held'
    OBVIOUS
  <2>4. /\ Standing(Len(registry), places, hm) /\ hm[t][id] = x + 1
        /\ \A u \in Threads, i \in 1 .. MaxTrees : u # t \/ i # id => hm[u][i] = held[u][i]
    <3>1. Give(held, hm, t, id, x + 1)
      BY <2>1, <2>2, <2>3 DEF Give
    <3>. QED  BY <1>2, <2>2, <3>1, HoldingChanges
  <2>5. PICK sm \in BOOLEAN : sm = strayed' /\ (strayed => sm) /\ (~sm => Calm(places, id))
    <3>1. ~strayed' => Calm(places, id)
      BY <2>1 DEF Calm, Within
    <3>. QED  BY <1>2, <2>1, <3>1
  <2>6. ASSUME ~sm
        PROVE  Counted(registry'[id].refs, registry'[id].free, places, hm, id)
    <3>1. Counted(registry[id].refs, registry[id].free, places, held, id)
      BY <1>2, <2>5, <2>6
    <3>2. \A u \in Threads : u # t => hm[u][id] = held[u][id]
      BY <1>2, <2>4
    <3>3. hm[t][id] = held[t][id] + 1 /\ hm \in Holdings
      BY <1>2, <2>2, <2>4 DEF Standing
    <3>. QED  BY <1>2, <1>3, <1>5, <2>5, <2>6, <3>1, <3>2, <3>3, RetainCounted
  <2>7. Shares(registry', places, hm, sm)
    <3>1. Aside(places, held, places, hm, t, id)
      BY <1>2, <2>4 DEF Aside
    <3>2. Shares(registry, places, held, strayed)
      BY DEF SharesInv
    <3>. QED  BY <1>2, <1>3, <2>4, <2>5, <2>6, <3>1, <3>2, OthersCounted
  <2>. QED  BY <2>1, <2>3, <2>5, <2>7 DEF SharesInv
<1>. QED  BY <1>4, <1>5

\* A reference is taken away.
LEMMA ShareRelease ==
  ASSUME Bounded, SharesInv, NEW t \in Threads, NEW id \in 1 .. MaxTrees, Shared!Release(t, id)
  PROVE  SharesInv'
<1>1. places[t] = Shared!Rest /\ held[t][id] > 0 /\ Shared!Count(id, Word - 1) /\ strayed' = strayed
      /\ held' = [held EXCEPT ![t][id] = @ - 1]
      /\ places' = IF registry[id].refs = 1 THEN [places EXCEPT ![t] = [op |-> "free", id |-> id]] ELSE places
  BY DEF Shared!Release, Shared!Goes
<1>2. /\ places[t].op = "rest" /\ places[t].id = 0 /\ Len(registry) \in 0 .. MaxTrees /\ MaxTrees \in Nat
      /\ Standing(Len(registry), places, held) /\ held \in Holdings /\ strayed \in BOOLEAN
      /\ DOMAIN registry = 1 .. Len(registry)
  BY <1>1, SharesKnown
<1>3. PICK x \in Nat : x = held[t][id] /\ x > 0 /\ x - 1 \in 0 .. MaxHeld
  <2>1. PICK x \in Nat, y \in Nat : x = held[t][id] /\ y = MaxHeld /\ x <= y
    BY <1>2, HoldingIs
  <2>. QED  BY <1>1, <2>1
<1>4. id \in 1 .. Len(registry) /\ id \in DOMAIN registry
  <2>1. ~(id > Len(registry))
    BY <1>2, <1>3 DEF Standing
  <2>. QED  BY <1>2, <2>1
<1>5. ~strayed => Counted(registry[id].refs, registry[id].free, places, held, id)
  BY <1>4, SharesKnown
<1>6. /\ Changed(registry, registry', id) /\ registry'[id].refs = (registry[id].refs + (Word - 1)) % Word
      /\ registry'[id].free = registry[id].free
  <2>1. Word - 1 \in Nat
    BY DEF Bounded
  <2>. QED  BY <1>1, <1>4, <2>1, CountIs
<1>7. PICK pm : /\ pm = places' /\ Standing(Len(registry), pm, held)
                /\ pm[t].op = (IF registry[id].refs = 1 THEN "free" ELSE "rest") /\ pm[t].id \in {0, id}
                /\ \A u \in Threads : u # t => pm[u] = places[u]
  <2>1. CASE registry[id].refs = 1
    <3>1. PICK pm, c : pm = places' /\ c = "free" /\ Put(places, pm, t, c, id)
      BY <1>1, <2>1 DEF Put
    <3>2. Goal(Len(registry), c, id)
      <4>1. c \in Calls /\ c # "rest"
        BY <3>1 DEF Calls
      <4>2. id \in 0 .. Len(registry) /\ id # 0
        BY <1>4
      <4>. QED  BY <4>1, <4>2 DEF Goal
    <3>3. /\ Standing(Len(registry), pm, held) /\ pm[t].op = c /\ pm[t].id = id
          /\ \A u \in Threads : u # t => pm[u] = places[u]
      <4>1. Put(places, pm, t, c, id)
        BY <3>1
      <4>. QED  BY <1>2, <3>2, <4>1, PlaceChanges
    <3>. QED  BY <2>1, <3>1, <3>3
  <2>2. CASE registry[id].refs # 1
    BY <1>1, <1>2, <2>2
  <2>. QED  BY <2>1, <2>2
<1>8. PICK hm : hm = held' /\ Give(held, hm, t, id, x - 1)
  BY <1>1, <1>3 DEF Give
<1>9. /\ Standing(Len(registry), pm, hm) /\ hm[t][id] = x - 1
      /\ \A u \in Threads, i \in 1 .. MaxTrees : u # t \/ i # id => hm[u][i] = held[u][i]
  BY <1>2, <1>3, <1>4, <1>7, <1>8, HoldingChanges
<1>10. ASSUME ~strayed
       PROVE  Counted(registry'[id].refs, registry'[id].free, pm, hm, id)
  <2>1. Counted(registry[id].refs, registry[id].free, places, held, id)
    BY <1>5, <1>10
  <2>2. \A u \in Threads : u # t => pm[u] = places[u] /\ hm[u][id] = held[u][id]
    BY <1>7, <1>9
  <2>3. held[t][id] > 0 /\ hm[t][id] = held[t][id] - 1 /\ hm \in Holdings
    BY <1>1, <1>3, <1>9 DEF Standing
  <2>4. PICK r, s, fr : /\ r = registry[id].refs /\ s = registry'[id].refs /\ fr = registry[id].free
                        /\ Leaves(places, pm, t, r) /\ s = (r + (Word - 1)) % Word /\ Counted(r, fr, places, held, id)
    BY <1>2, <1>6, <1>7, <2>1 DEF Leaves
  <2>5. Counted((r + (Word - 1)) % Word, fr, pm, hm, id)
    <3>1. Leaves(places, pm, t, r) /\ Counted(r, fr, places, held, id)
      BY <2>4
    <3>2. held \in Holdings
      BY <1>2
    <3>. QED  BY <2>2, <2>3, <3>1, <3>2, ReleaseCounted
  <2>. QED  BY <1>6, <2>4, <2>5
<1>11. Shares(registry', pm, hm, strayed)
  <2>1. Aside(places, held, pm, hm, t, id)
    BY <1>2, <1>7, <1>9 DEF Aside
  <2>2. Shares(registry, places, held, strayed)
    BY DEF SharesInv
  <2>. QED  BY <1>2, <1>4, <1>6, <1>9, <1>10, <2>1, <2>2, OthersCounted
<1>. QED  BY <1>1, <1>7, <1>8, <1>11 DEF SharesInv

\* A reference less than none.
LEMMA ShareUnderflow ==
  ASSUME Bounded, SharesInv, NEW t \in Threads, NEW id, Shared!Underflow(t, id)
  PROVE  SharesInv'
<1>1. /\ id \in DOMAIN registry /\ places[t] = Shared!Rest /\ Shared!Count(id, Word - 1) /\ registry[id].refs = 0
      /\ held' = held /\ strayed' = strayed /\ places' = [places EXCEPT ![t] = [op |-> "give back", id |-> id]]
  BY DEF Shared!Underflow, Shared!Goes
<1>2. /\ id \in 1 .. Len(registry) /\ id \in 1 .. MaxTrees /\ places[t].op = "rest" /\ places[t].id = 0
      /\ Standing(Len(registry), places, held) /\ held \in Holdings
      /\ strayed \in BOOLEAN /\ Len(registry) \in 0 .. MaxTrees /\ MaxTrees \in Nat
      /\ ~strayed => Counted(registry[id].refs, registry[id].free, places, held, id)
  BY <1>1, SharesKnown
<1>3. /\ Changed(registry, registry', id) /\ registry'[id].refs = (registry[id].refs + (Word - 1)) % Word
  <2>1. Word - 1 \in Nat
    BY DEF Bounded
  <2>. QED  BY <1>1, <2>1, CountIs
<1>4. PICK pm, c : pm = places' /\ c = "give back" /\ c \in Entering /\ Put(places, pm, t, c, id)
  BY <1>1 DEF Put, Entering
<1>5. /\ Standing(Len(registry), pm, held) /\ Aside(places, held, pm, held, t, id)
      /\ Extra(places, t, id) = 0 /\ pm[t].op = c /\ pm[t].id = id
  <2>1. Put(places, pm, t, c, id) /\ c \in Entering
    BY <1>4
  <2>. QED  BY <1>2, <2>1, Entered
<1>6. ASSUME ~strayed PROVE \A u \in Threads : held[u][id] = 0
  <2>1. Counted(0, registry[id].free, places, held, id)
    BY <1>1, <1>2, <1>6
  <2>. QED  BY <1>2, <2>1, NobodyHas
<1>7. Turns(registry[id].refs, registry'[id].refs, places, pm, t, id)
  <2>1. Extra(pm, t, id) = Word - 1
    BY <1>4, <1>5 DEF Extra
  <2>. QED  BY <1>3, <1>5, <2>1 DEF Turns
<1>8. Shares(registry', pm, held, strayed)
  BY <1>2, <1>3, <1>5, <1>6, <1>7, TurnKeeps
<1>. QED  BY <1>1, <1>4, <1>8 DEF SharesInv

\* Somebody looks at a tree.
LEMMA LookedAt ==
  ASSUME NEW pl, NEW hd, NEW pm, NEW id, NEW t, NEW r, NEW fr, Counted(r, fr, pl, hd, id),
         \A u \in Threads : u # t => pm[u] = pl[u],
         \A ops : Within(pm, t, id, ops) => ops \ {"look"} # ops,
         Extra(pm, t, id) = 0 /\ Extra(pl, t, id) = 0
  PROVE  Counted(r, fr, pm, hd, id)
<1>1. Weights(pm, hd, id) = Weights(pl, hd, id)
  <2>1. ASSUME NEW u \in Threads PROVE Extra(pm, u, id) = Extra(pl, u, id)
    <3>1. CASE u = t
      BY <3>1
    <3>2. CASE u # t
      BY <3>2 DEF Extra
    <3>. QED  BY <3>1, <3>2
  <2>. QED  BY <2>1 DEF Weights
<1>2. ASSUME NEW u \in Threads, Within(pm, u, id, {"take back", "give back", "free"})
      PROVE  Within(pl, u, id, {"take back", "give back", "free"})
  <2>1. u # t
    BY <1>2
  <2>. QED  BY <1>2, <2>1 DEF Within
<1>. QED  BY <1>1, <1>2 DEF Counted

LEMMA ShareLook ==
  ASSUME Bounded, SharesInv, NEW t \in Threads, NEW id, Shared!Look(t, id)
  PROVE  SharesInv'
<1>1. /\ id \in DOMAIN registry /\ places[t] = Shared!Rest /\ registry' = registry
      /\ held' = held /\ strayed' = strayed /\ places' = [places EXCEPT ![t] = [op |-> "look", id |-> id]]
  BY DEF Shared!Look, Shared!Goes
<1>2. /\ id \in 1 .. Len(registry) /\ id \in 1 .. MaxTrees /\ places[t].op = "rest" /\ strayed \in BOOLEAN
      /\ ~strayed => Counted(registry[id].refs, registry[id].free, places, held, id)
  BY <1>1, SharesKnown
<1>3. PICK pm, c : pm = places' /\ c = "look" /\ c \in Entering /\ Put(places, pm, t, c, id)
  BY <1>1 DEF Put, Entering
<1>4. /\ Standing(Len(registry), pm, held) /\ Aside(places, held, pm, held, t, id)
      /\ Extra(places, t, id) = 0 /\ pm[t].op = c
  <2>1. Put(places, pm, t, c, id) /\ c \in Entering
    BY <1>3
  <2>. QED  BY <1>2, <2>1, Entered
<1>5. Extra(pm, t, id) = 0 /\ \A ops : Within(pm, t, id, ops) => ops \ {"look"} # ops
  BY <1>3, <1>4 DEF Extra, Within
<1>6. ASSUME ~strayed PROVE Counted(registry[id].refs, registry[id].free, pm, held, id)
  <2>1. \A u \in Threads : u # t => pm[u] = places[u]
    BY <1>4 DEF Aside
  <2>. QED  BY <1>2, <1>4, <1>5, <1>6, <2>1, LookedAt
<1>7. Shares(registry, pm, held, strayed)
  <2>1. Changed(registry, registry, id)
    BY DEF SharesInv, Shares, Changed
  <2>2. Shares(registry, places, held, strayed)
    BY DEF SharesInv
  <2>. QED  BY <1>2, <1>4, <1>6, <2>1, <2>2, OthersCounted
<1>. QED  BY <1>1, <1>3, <1>7 DEF SharesInv

\* A call ends: what it put on the count is taken off, or the tree is freed, or not.
LEMMA ShareFinish ==
  ASSUME Bounded, SharesInv, NEW t \in Threads, Shared!Finish(t)
  PROVE  SharesInv'
<1>1. PICK id : id = places[t].id
  OBVIOUS
<1>2. /\ \/ places[t].op = "take back" /\ Shared!Count(id, Word - 1)
         \/ places[t].op = "give back" /\ Shared!Count(id, 1)
         \/ places[t].op = "free" /\ registry' = [registry EXCEPT ![id].free = TRUE]
         \/ places[t].op \in {"free", "look"} /\ registry' = registry
      /\ places' = [places EXCEPT ![t] = [op |-> "rest", id |-> 0]]
      /\ strayed' = (strayed \/ (places[t].op = "look" /\ registry[id].free)) /\ held' = held
  BY <1>1 DEF Shared!Finish, Shared!Rest
<1>3. /\ Standing(Len(registry), places, held) /\ held \in Holdings /\ strayed \in BOOLEAN
      /\ Len(registry) \in 0 .. MaxTrees /\ MaxTrees \in Nat /\ DOMAIN registry = 1 .. Len(registry)
  BY SharesKnown
<1>4. id \in 1 .. Len(registry) /\ id \in 1 .. MaxTrees /\ id \in DOMAIN registry
  <2>1. places[t].op # "rest"
    BY <1>2
  <2>2. id # 0
    BY <1>1, <1>3, <2>1 DEF Standing
  <2>3. id \in 0 .. Len(registry)
    BY <1>1, SharesKnown
  <2>. QED  BY <1>3, <2>2, <2>3
<1>5. PICK pm, c : pm = places' /\ c = "rest" /\ Put(places, pm, t, c, 0)
  BY <1>2 DEF Put
<1>6. /\ Standing(Len(registry), pm, held) /\ pm[t].op = c /\ pm[t].id = 0
      /\ \A u \in Threads : u # t => pm[u] = places[u]
  <2>1. Goal(Len(registry), c, 0)
    BY <1>3, <1>5 DEF Goal, Calls
  <2>2. Put(places, pm, t, c, 0)
    BY <1>5
  <2>. QED  BY <1>3, <2>1, <2>2, PlaceChanges
<1>7. Aside(places, held, pm, held, t, id) /\ Extra(pm, t, id) = 0
  <2>1. places[t].id \in {0, id} /\ pm[t].id \in {0, id} /\ pm[t].id # id
    BY <1>1, <1>4, <1>6
  <2>2. Aside(places, held, pm, held, t, id)
    BY <1>6, <2>1 DEF Aside
  <2>. QED  BY <2>1, <2>2 DEF Extra
<1>8. PICK sm \in BOOLEAN : sm = strayed' /\ (strayed => sm)
  BY <1>2, <1>3
<1>9. ASSUME ~strayed, places[t].op \in {"take back", "give back", "free"}, NEW u \in Threads
      PROVE  held[u][id] = 0
  <2>1. Counted(registry[id].refs, registry[id].free, places, held, id)
    BY <1>4, <1>9, SharesKnown
  <2>2. Within(places, t, id, {"take back", "give back", "free"})
    BY <1>1, <1>9 DEF Within
  <2>. QED  BY <2>1, <2>2 DEF Counted
<1>10. Changed(registry, registry, id)
  BY DEF SharesInv, Shares, Changed
<1>11. CASE places[t].op = "take back" /\ Shared!Count(id, Word - 1)
  <2>1. Changed(registry, registry', id) /\ registry'[id].refs = (registry[id].refs + (Word - 1)) % Word
    <3>1. Word - 1 \in Nat
      BY DEF Bounded
    <3>. QED  BY <1>4, <1>11, <3>1, CountIs
  <2>2. Extra(places, t, id) = 1
    BY <1>1, <1>11 DEF Extra
  <2>3. Turns(registry[id].refs, registry'[id].refs, places, pm, t, id)
    BY <1>7, <2>1, <2>2 DEF Turns
  <2>4. ~sm => \A u \in Threads : held[u][id] = 0
    BY <1>8, <1>9, <1>11
  <2>5. Shares(registry', pm, held, sm)
    BY <1>4, <1>6, <1>7, <1>8, <2>1, <2>3, <2>4, TurnKeeps
  <2>. QED  BY <1>2, <1>5, <1>8, <2>5 DEF SharesInv
<1>12. CASE places[t].op = "give back" /\ Shared!Count(id, 1)
  <2>1. Changed(registry, registry', id) /\ registry'[id].refs = (registry[id].refs + 1) % Word
    BY <1>4, <1>12, CountIs
  <2>2. Extra(places, t, id) = Word - 1
    BY <1>1, <1>12 DEF Extra
  <2>3. Turns(registry[id].refs, registry'[id].refs, places, pm, t, id)
    BY <1>7, <2>1, <2>2 DEF Turns
  <2>4. ~sm => \A u \in Threads : held[u][id] = 0
    BY <1>8, <1>9, <1>12
  <2>5. Shares(registry', pm, held, sm)
    BY <1>4, <1>6, <1>7, <1>8, <2>1, <2>3, <2>4, TurnKeeps
  <2>. QED  BY <1>2, <1>5, <1>8, <2>5 DEF SharesInv
<1>13. CASE places[t].op = "free" /\ (registry' = registry \/ registry' = [registry EXCEPT ![id].free = TRUE])
  <2>1. Extra(places, t, id) = 0
    BY <1>13 DEF Extra
  <2>2. PICK rs : rs = registry' /\ Changed(registry, rs, id) /\ rs[id].refs = registry[id].refs
    <3>1. CASE registry' = registry
      BY <1>10, <3>1
    <3>2. CASE registry' = [registry EXCEPT ![id].free = TRUE]
      <4>1. PICK T : registry \in Seq(TreeEntry(T))
        BY DEF SharesInv, Shares
      <4>2. PICK rs, fr : rs = registry' /\ fr = TRUE
        OBVIOUS
      <4>3. PICK r \in 0 .. Word - 1 : r = registry[id].refs
        BY <1>4, SharesKnown
      <4>4. fr \in BOOLEAN /\ rs = [registry EXCEPT ![id].free = fr]
        BY <3>2, <4>2
      <4>5. /\ rs \in Seq(TreeEntry(T)) /\ Len(rs) = Len(registry) /\ rs[id].refs = r
            /\ \A i \in 1 .. Len(registry) : i # id => rs[i] = registry[i]
        BY <1>4, <4>1, <4>3, <4>4, EntryChanges
      <4>. QED  BY <4>1, <4>2, <4>3, <4>5 DEF Changed
    <3>. QED  BY <1>13, <3>1, <3>2
  <2>3. Turns(registry[id].refs, rs[id].refs, places, pm, t, id)
    BY <1>7, <2>1, <2>2 DEF Turns
  <2>4. ~sm => \A u \in Threads : held[u][id] = 0
    BY <1>8, <1>9, <1>13
  <2>5. Shares(rs, pm, held, sm)
    BY <1>4, <1>6, <1>7, <1>8, <2>2, <2>3, <2>4, TurnKeeps
  <2>. QED  BY <1>2, <1>5, <1>8, <2>2, <2>5 DEF SharesInv
<1>14. CASE places[t].op = "look" /\ registry' = registry
  <2>1. Extra(places, t, id) = 0 /\ Extra(pm, t, id) = 0
    BY <1>7, <1>14 DEF Extra
  <2>2. \A ops : Within(pm, t, id, ops) => ops \ {"look"} # ops
    BY <1>4, <1>6 DEF Within
  <2>3. ASSUME ~sm PROVE Counted(registry[id].refs, registry[id].free, pm, held, id)
    <3>1. Counted(registry[id].refs, registry[id].free, places, held, id)
      BY <1>4, <1>8, <2>3, SharesKnown
    <3>. QED  BY <1>6, <2>1, <2>2, <3>1, LookedAt
  <2>4. Shares(registry, pm, held, sm)
    <3>1. Shares(registry, places, held, strayed)
      BY DEF SharesInv
    <3>. QED  BY <1>4, <1>6, <1>7, <1>8, <1>10, <2>3, <3>1, OthersCounted
  <2>. QED  BY <1>2, <1>5, <1>8, <1>14, <2>4 DEF SharesInv
<1>. QED  BY <1>2, <1>11, <1>12, <1>13, <1>14

LEMMA ShareInit == ASSUME Bounded, Shared!Init PROVE SharesInv
<1>1. /\ registry = <<>> /\ places = [t \in Threads |-> Shared!Rest] /\ strayed = FALSE
      /\ held = [t \in Threads |-> [id \in 1 .. MaxTrees |-> 0]]
  BY DEF Shared!Init, Shared!Trees
<1>2. registry \in Seq(TreeEntry({})) /\ Len(registry) = 0
  BY <1>1
<1>3. places \in Places(0) /\ \A t \in Threads : places[t].op = "rest" <=> places[t].id = 0
  BY <1>1 DEF Places, Calls, Shared!Rest
<1>4. held \in Holdings /\ \A t \in Threads, id \in 1 .. MaxTrees : held[t][id] = 0
  <2>1. 0 \in 0 .. MaxHeld
    BY DEF Bounded
  <2>. QED  BY <1>1, <2>1 DEF Holdings
<1>5. Standing(0, places, held)
  <2>1. 0 \in 0 .. MaxTrees
    BY DEF Bounded
  <2>. QED  BY <1>3, <1>4, <2>1 DEF Standing
<1>6. AllCounted(registry, places, held)
  BY <1>2 DEF AllCounted
<1>. QED  BY <1>1, <1>2, <1>5, <1>6 DEF SharesInv, Shares

LEMMA ShareStep == ASSUME Bounded, SharesInv, [Shared!Next]_(Shared!treeVars) PROVE SharesInv'
<1>1. CASE UNCHANGED <<registry, places, held, strayed>>
  BY <1>1 DEF SharesInv
<1>2. ASSUME NEW h \in Handles, Shared!Write(h) PROVE SharesInv'
  BY <1>1, <1>2 DEF Shared!Write
<1>3. ASSUME NEW k \in DOMAIN draft, Shared!Splice(k) PROVE SharesInv'
  BY <1>1, <1>3 DEF Shared!Splice
<1>4. CASE UNCHANGED Shared!treeVars
  BY <1>1, <1>4 DEF Shared!treeVars
<1>5. Shared!Trees = 1 .. MaxTrees
  BY DEF Shared!Trees
<1>. QED  BY <1>2, <1>3, <1>4, <1>5, ShareRegister, ShareFinish, ShareRetain, ShareRelease, ShareUnderflow,
             ShareLook DEF Shared!Next

\* What the invariant says of holders.
LEMMA HoldersKnown == ASSUME Bounded, SharesInv PROVE Shared!HoldersSee
<1>1. SUFFICES ASSUME ~strayed, NEW id \in DOMAIN registry
      PROVE  LET refs == Shared!MapThenSumSet(LAMBDA t : held[t][id], Threads)
             IN  /\ refs > 0 => ~registry[id].free
                 /\ (\A t \in Threads : places[t].id # id) => registry[id].refs = refs
  BY DEF Shared!HoldersSee
<1>2. /\ id \in 1 .. MaxTrees /\ held \in Holdings
      /\ Counted(registry[id].refs, registry[id].free, places, held, id)
  BY <1>1, SharesKnown
<1>3. PICK f : f = [t \in Threads |-> held[t][id]]
  OBVIOUS
<1>4. f \in [Threads -> Nat] /\ \A t \in Threads : f[t] = held[t][id]
  <2>1. \A t \in Threads : held[t][id] \in Nat
    BY <1>2, HoldingIs
  <2>. QED  BY <1>3, <2>1
<1>5. PICK n \in Nat : n = Total(f)
  BY <1>4, TotalIs
<1>6. Refs(id) = n
  BY <1>4, <1>5, ModelTotal
<1>7. registry[id].free => n = 0
  <2>1. SUFFICES ASSUME registry[id].free PROVE n = 0
    OBVIOUS
  <2>2. \A t \in Threads : held[t][id] = 0
    BY <1>2, <2>1 DEF Counted
  <2>3. \A t \in Threads : f[t] = 0
    BY <1>4, <2>2
  <2>. QED  BY <1>4, <1>5, <2>3, TotalIs
<1>8. ASSUME \A t \in Threads : places[t].id # id PROVE registry[id].refs = n
  <2>1. Calm(places, id)
    BY <1>8 DEF Calm, Within
  <2>2. registry[id].refs = Total(Weights(places, held, id))
        /\ \A t \in Threads : Weights(places, held, id)[t] = held[t][id]
    <3>1. PICK r, fr : r = registry[id].refs /\ fr = registry[id].free /\ Counted(r, fr, places, held, id)
      BY <1>2
    <3>2. Counted(r, fr, places, held, id) /\ id \in 1 .. MaxTrees /\ held \in Holdings
      BY <1>2, <3>1
    <3>3. r = Total(Weights(places, held, id)) /\ \A t \in Threads : Weights(places, held, id)[t] = held[t][id]
      BY <2>1, <3>2, CountKnown
    <3>. QED  BY <3>1, <3>3
  <2>3. Weights(places, held, id) \in [Threads -> Nat]
    BY <1>2, WeightsAre
  <2>4. Weights(places, held, id) = f
    BY <1>4, <2>2, <2>3
  <2>. QED  BY <1>5, <2>2, <2>4
<1>. QED  BY <1>6, <1>7, <1>8 DEF Refs

\* Who has a reference to a tree finds its text, and the count is that of the references when
\* nobody is in a call on the tree (text_tree_registry.c:64-208), whatever threads there are,
\* whatever they register, take and give back, and wherever in their calls they are, until a
\* call on an entry nobody has comes between.
THEOREM HoldersAreSeen == ASSUME Bounded PROVE Shared!Spec => []Shared!HoldersSee
<1>1. Shared!Init => SharesInv
  BY ShareInit
<1>2. SharesInv /\ [Shared!Next]_(Shared!treeVars) => SharesInv'
  BY ShareStep
<1>3. SharesInv => Shared!HoldersSee
  BY HoldersKnown
<1>. QED  BY <1>1, <1>2, <1>3, PTL DEF Shared!Spec

=============================================================================

---------------------------- MODULE OrderedMap ----------------------------
(* What a Sapling database promises to the one transaction that writes it: *)
(* an ordered map from keys to values, with a cursor that rests on a key,  *)
(* or on none.  A database that keeps several values under one key holds   *)
(* them as composite keys: Group gives the part that the user calls key.   *)
EXTENDS Naturals, FiniteSets
LOCAL INSTANCE FiniteSetsExt

CONSTANTS Keys, Vals, NoKey, Group(_)

VARIABLES map, \* the pairs
          at   \* the key the cursor rests on, or NoKey

vars == <<map, at>>

Present == DOMAIN map

Above(k) == {j \in Present : j > k}
Below(k) == {j \in Present : j < k}
Alike(k) == {j \in Present : Group(j) = Group(k)}

Lowest(S) == IF S = {} THEN NoKey ELSE Min(S)
Highest(S) == IF S = {} THEN NoKey ELSE Max(S)

With(m, k, v) == [j \in DOMAIN m \cup {k} |-> IF j = k THEN v ELSE m[j]]
Without(m, S) == [j \in DOMAIN m \ S |-> m[j]]

Init == map = [k \in {} |-> 0] /\ at = NoKey

\* Writes through the transaction: the cursor has to be placed anew.
Write == \E k \in Keys, v \in Vals : map' = With(map, k, v) /\ at' = NoKey

Erase == \E k \in Present : map' = Without(map, {k}) /\ at' = NoKey

\* Pairs that lie together are erased; that it is all of the range that was
\* asked for is not promised here.
EraseRange ==
  LET gone == Present \ DOMAIN map'
  IN  /\ map' = Without(map, gone)
      /\ \A i, j \in gone, k \in Present : i < k /\ k < j => k \in gone
      /\ at' = NoKey

Load ==
  /\ Present \subseteq DOMAIN map'
  /\ \E v \in Vals : \A k \in DOMAIN map' :
       map'[k] = v \/ (k \in Present /\ map'[k] = map[k])
  /\ at' = NoKey

\* Writes through the cursor keep it in place.
Overwrite ==
  /\ at # NoKey
  /\ \E v \in Vals : map' = With(map, at, v)
  /\ at' = at

\* The erasing cursor moves on to the next pair, or loses its place.
EraseHere ==
  /\ at # NoKey
  /\ map' = Without(map, {at})
  /\ at' \in {Lowest(Above(at)), NoKey}

Place ==
  /\ at' \in {NoKey, Lowest(Present), Highest(Present)}
             \cup {Lowest({j \in Present : j >= k}) : k \in Keys}
  /\ map' = map

Step ==
  /\ at # NoKey
  /\ at' \in {Lowest(Above(at)), Highest(Below(at))}
  /\ map' = map

\* Among the values of one key the cursor stays where it is at either end,
\* but loses its place at the ends of the whole database.
StepAlike ==
  /\ at # NoKey
  /\ \E to \in {Lowest(Above(at)), Highest(Below(at))} :
       at' = IF to = NoKey \/ to \in Alike(at) THEN to ELSE at
  /\ map' = map

EndAlike ==
  /\ at # NoKey
  /\ at' \in {Min(Alike(at)), Max(Alike(at))}
  /\ map' = map

Next == \/ Write \/ Erase \/ EraseRange \/ Load \/ Overwrite \/ EraseHere
        \/ Place \/ Step \/ StepAlike \/ EndAlike

Spec == Init /\ [][Next]_vars

===========================================================================

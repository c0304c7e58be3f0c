----------------------------- MODULE MCLibrary -----------------------------
(* Small instances of the single-owner components, side by side: a         *)
(* behaviour is one of a single part, chosen at the start.                 *)
EXTENDS Naturals, Sequences

VARIABLES part,
          tree, entries, cur,
          queue, bytes, bound, ps, asleep, failed,
          dbs, txns, opens, policy, doing, getting,
          data, expiry, index, cp, now,
          env, open,
          root, lo, hi,
          texts, shares, levels, own,
          watches, dupsort, changing, writer, tells, owed, wrong,
          backing, next, chunks, free, room, used, budget, held, lost,
          slots, cap, call, said, broken, leaked

btree == <<tree, entries, cur>>
hostq == <<queue, bytes, bound, ps, asleep, failed>>
store == <<dbs, txns, opens>>
workers == <<policy, doing, getting>>
ttl == <<data, expiry, index, cp, now>>
tries == <<env, open>>
seqs == <<root, lo, hi>>
texting == <<texts, shares, levels, own>>
watching == <<watches, dupsort, changing, writer, tells, owed, wrong>>
arena == <<backing, next, chunks, free, room, used, budget, held, lost>>
guest == <<slots, cap, call, said, broken, leaked>>

----------------------------------------------------------------------------
NoKey == 0

Tree == INSTANCE BTree WITH
          Keys <- 1 .. 5, Vals <- {1, 2}, LeafRoom <- 4, IntRoom <- 2,
          Batches <- {1 .. 5, {2, 4}}

\* Cells of one size on two levels and more, and cells of two sizes.
TreeDeep == INSTANCE BTree WITH
          Keys <- 1 .. 5, Vals <- {2}, LeafRoom <- 4, IntRoom <- 2,
          Batches <- {1 .. 5, {2, 4}}
TreeWide == INSTANCE BTree WITH
          Keys <- 1 .. 3, Vals <- {1, 2}, LeafRoom <- 4, IntRoom <- 2,
          Batches <- {1 .. 3}

Queue == INSTANCE HostQueue WITH
           Senders <- {"s1", "s2"}, Lens <- {1, 2, 3}, MaxLens <- {2, 3},
           MaxBytes <- 2, Wrap <- 16, MaxQueued <- 3

\* A count of bytes that wraps: frames that should wait get in.
Wrapping == INSTANCE HostQueue WITH
              Senders <- {"s1", "s2"}, Lens <- {1, 2, 3}, MaxLens <- {2, 3},
              MaxBytes <- 2, Wrap <- 4, MaxQueued <- 3

Store == INSTANCE StoreRuntime WITH
           Clients <- {"c"}, MaxDbs <- 2, MaxTxns <- 3, MaxOpens <- 3

Workers == INSTANCE WorkerStore WITH
             Clients <- {}, MaxDbs <- 1, MaxTxns <- 3, MaxOpens <- 1,
             Workers <- {"w1", "w2"}, TableSize <- 2

Timed == INSTANCE Ttl WITH Keys <- 1 .. 2, MaxTime <- 2, MaxBatch <- 2

\* Two keys of one hash and two that part later and at once; keys of different
\* lengths, none of them another one and zeros.
Hashes == <<<<0, 0, 0>>, <<0, 0, 0>>, <<0, 0, 1>>, <<1, 0, 0>>>>
BitKeys == <<<<0, 0, 0>>, <<0, 1, 0>>, <<0, 1, 1, 0>>, <<1, 0, 0, 0, 1>>, <<1, 0, 1>>>>
HashTrie == INSTANCE Env WITH
              txns <- open, HashKeys <- 1 .. 4, BitKeys <- {}, Vals <- {1},
              Txns <- {1}, Hash <- Hashes, Bits <- BitKeys, None <- 0
BitTrie == INSTANCE Env WITH
             txns <- open, HashKeys <- {}, BitKeys <- 1 .. 5, Vals <- {1},
             Txns <- {1}, Hash <- Hashes, Bits <- BitKeys, None <- 0
Nested == INSTANCE Env WITH
            txns <- open, HashKeys <- {1}, BitKeys <- {1, 2}, Vals <- {1},
            Txns <- {1, 2}, Hash <- Hashes, Bits <- BitKeys, None <- 0

Sequence == INSTANCE Seqs WITH MaxHandle <- 13

\* Transactions in one another, and the text that a split needs more.
NestedTexts == INSTANCE Texts WITH
                 Names <- {1, 2}, Elems <- {1}, MaxLen <- 2, MaxLevels <- 2
SplitTexts == INSTANCE Texts WITH
                Names <- {1, 2, 3}, Elems <- {1}, MaxLen <- 1, MaxLevels <- 1

\* A guest's texts, and a table that holds one before it grows.
GuestTexts == INSTANCE TextRuntime WITH
                Names <- {1, 2}, Elems <- {1, 2}, MaxLen <- 2, FirstCap <- 1

\* A watch of more rows and one of fewer; two keys, and two threads.
Near == [dbi |-> 0, prefix |-> <<1, 2>>, cb |-> 2]
Wide == [dbi |-> 0, prefix |-> <<1>>, cb |-> 1]

Watched == INSTANCE Watches WITH
             txns <- changing, Threads <- {1}, Dbis <- {0}, Keys <- {<<1>>, <<1, 2>>},
             Watchers <- {Near, Wide}, MaxDepth <- 2
Shared == INSTANCE Watches WITH
            txns <- changing, Threads <- {1, 2}, Dbis <- {0}, Keys <- {<<1, 2>>},
            Watchers <- {Near, Wide}, MaxDepth <- 2

\* Nodes smaller and larger than a page, and a stack that outgrows its room.
Slots == INSTANCE Arena WITH
           Backings <- {"malloc", "linear"}, PageSize <- 2, NodeSizes <- {1, 3},
           Align <- 2, LinearBytes <- 9, Budgets <- {0, 2}, FirstRoom <- 1, MaxNext <- 4

----------------------------------------------------------------------------
Parts == {"deep", "wide", "queue", "wraps", "store", "workers", "ttl",
          "hashes", "bits", "nested", "seqs", "texts", "splits", "guest", "watched", "shared", "arena"}

Init ==
  /\ part \in Parts
  /\ Tree!Init /\ Queue!Init /\ Timed!Init /\ Sequence!Init
  /\ Slots!Init /\ (part # "arena" => backing = "malloc")
  /\ IF part = "workers" THEN Workers!Init
     ELSE Store!StoreInit /\ policy = <<>> /\ doing = <<>> /\ getting = 0
  /\ CASE part = "hashes" -> HashTrie!Init
       [] part = "bits" -> BitTrie!Init
       [] OTHER -> Nested!Init
  /\ CASE part = "splits" -> SplitTexts!Init
       [] part = "guest" -> GuestTexts!T!Init
       [] OTHER -> NestedTexts!Init
  /\ GuestTexts!GuestInit
  /\ IF part = "shared" THEN Shared!Init ELSE Watched!Init

\* The part that was chosen takes its step, the others rest.
Next ==
  /\ UNCHANGED part
  /\ part \notin {"deep", "wide"} => UNCHANGED btree
  /\ part \notin {"queue", "wraps"} => UNCHANGED hostq
  /\ part \notin {"store", "workers"} => UNCHANGED store
  /\ part # "workers" => UNCHANGED workers
  /\ part # "ttl" => UNCHANGED ttl
  /\ part \notin {"hashes", "bits", "nested"} => UNCHANGED tries
  /\ part # "seqs" => UNCHANGED seqs
  /\ part \notin {"texts", "splits", "guest"} => UNCHANGED texting
  /\ part # "guest" => UNCHANGED guest
  /\ part \notin {"watched", "shared"} => UNCHANGED watching
  /\ part # "arena" => UNCHANGED arena
  /\ CASE part = "deep" -> TreeDeep!Next
       [] part = "wide" -> TreeWide!Next
       [] part = "queue" -> Queue!Next
       [] part = "wraps" -> Wrapping!Next
       [] part = "store" -> Store!StoreNext
       [] part = "workers" -> Workers!Next
       [] part = "ttl" -> Timed!Next
       [] part = "hashes" -> HashTrie!Next
       [] part = "bits" -> BitTrie!Next
       [] part = "nested" -> Nested!Next
       [] part = "seqs" -> Sequence!Next
       [] part = "texts" -> NestedTexts!Next
       [] part = "splits" -> SplitTexts!Next
       [] part = "guest" -> GuestTexts!Next
       [] part = "watched" -> Watched!Next
       [] part = "shared" -> Shared!Next
       [] part = "arena" -> Slots!Next

Spec ==
  Init /\ [][Next]_<<part, btree, hostq, store, workers, ttl, tries, seqs, texting, watching,
                     arena, guest>>

----------------------------------------------------------------------------
\* Splits, emptied pages, bulk loads and cursor moves are those of an ordered
\* map (sapling.c:1738-5577): BTree!ImplementsMap, looked at in its own parts.
MapStep == part \in {"deep", "wide"} => [Tree!Map!Next]_(Tree!Map!vars)
ImplementsMap == Tree!Map!Init /\ [][MapStep]_btree

\* No sender or receiver of a host queue sleeps through its cue, nor when the
\* count of its bytes has wrapped (host_queue.c:119-131).
NobodyStranded == /\ part = "queue" => Queue!NobodyStranded
                  /\ part = "wraps" => Wrapping!NobodyStranded

\* No transaction of the WIT store outlives its database, and no worker of a
\* session reaches a transaction of another (orchestration_runtime.c:2645-3175);
\* no two callers of the arena hold one slot or one byte (arena.c:285-559).
OwnersApart == /\ part = "store" => Store!TxnsKeepTheirDb
               /\ part = "workers" => Workers!NobodyElsesTxn
               /\ part = "arena" => Slots!SlotsOwned

\* The TTL rows of a key keep step with one another and with its value; the
\* tries of an environment hold what was put into them (sapling.c, hamt.c, bept.c).
RowsAgree == /\ part = "ttl" => Timed!RowsAgree
             /\ part = "hashes" => HashTrie!TriesAgree
             /\ part = "bits" => BitTrie!TriesAgree
             /\ part = "nested" => Nested!TriesAgree

\* A sequence holds its handles in order and finds and cuts them there.
AsSequence == part = "seqs" => Sequence!AsSequence

\* Clones of a text never see each other's writes, aborts give back what was; a
\* guest's handles hold what its calls were told (wit_text_runtime.c:143-772).
ClonesApart == /\ part = "texts" => NestedTexts!ClonesApart
               /\ part = "splits" => SplitTexts!ClonesApart
               /\ part = "guest" => GuestTexts!HandlesTrue

\* Watchers are told of each change that was recorded, once, and of no other
\* (sapling.c:566-790, 4120-4213).
WatchersHear == /\ part = "watched" => Watched!WatchersHear
                /\ part = "shared" => Shared!WatchersHear

============================================================================

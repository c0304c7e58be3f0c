---------------------------- MODULE TextRuntime ----------------------------
(* Texts that a guest holds by handle (wit_text_runtime.c), over the texts    *)
(* and transactions of Texts.  A call is a run of steps, any of which may find *)
(* no memory; one call runs at a time.  An edit whose offsets or bytes are not *)
(* good fails in its transaction before it has written.                       *)
EXTENDS Naturals, Sequences, FiniteSets, SequencesExt

CONSTANTS
  Names, Elems, MaxLen,  \* as in Texts; a text more than the guest holds
  FirstCap               \* slots of a first table: 8

VARIABLES
  texts, shares, levels, own,
  slots,   \* slots up to slot_count: the text of each handle
  cap,     \* slot_cap
  call,    \* the call that runs, and the step it is at
  said,    \* history: what a handle holds, by the answers its holder had
  broken,  \* history: handles of which a failed edit may have cost the text
  leaked     \* history: texts that a refused free left to nobody

T == INSTANCE Texts WITH MaxLevels <- 1

below == <<texts, shares, levels, own>>
table == <<slots, cap>>
told  == <<said, broken, leaked>>
vars  == <<below, table, call, told>>

None == 0
Idle == [op |-> "none"]
Answered == call' = Idle

Holds(h) == h \in DOMAIN slots /\ slots[h] # None

\* A text nobody has: in a free block of memory, which a handle may still name.
Taken == T!Live \cup ToSet(slots) \cup leaked
Fresh(t) == t \notin Taken /\ \A u \in Names : u < t => u \in Taken

----------------------------------------------------------------------------
(* Steps of a call                                                          *)

At(op, step) == call.op = op /\ call.step = step
To(step) == call' = [call EXCEPT !.step = step]

Begin ==
  /\ call # Idle /\ call.step = "begin"
  /\ T!Begin /\ To("write")
  /\ UNCHANGED <<table, told>>

NoBegin ==
  /\ call # Idle /\ call.step = "begin"
  /\ IF call.op = "open" THEN To("discard") ELSE Answered
  /\ UNCHANGED <<below, table, told>>

\* text_new and text_clone run in transactions of their own.
Open(t, items) ==
  /\ call = Idle /\ Fresh(t)
  /\ T!TextNew(t)
  /\ call' = [op |-> "open", step |-> "begin", text |-> t, holds |-> items]
  /\ UNCHANGED <<table, told>>

Clone(t, h) ==
  /\ call = Idle /\ Fresh(t) /\ Holds(h) /\ h \notin broken
  /\ T!TextClone(t, slots[h])
  /\ call' = [op |-> "open", step |-> "install", text |-> t, holds |-> said[h]]
  /\ UNCHANGED <<table, told>>

\* The whole of the guest's bytes, or none of them.
Fill ==
  /\ At("open", "write")
  /\ T!TextFromUtf8(call.text, call.holds) /\ To("commit")
  /\ UNCHANGED <<table, told>>

\* A clear slot is taken; a table that is full grows or refuses.
Install(h) ==
  /\ call # Idle /\ call.step = "install"
  /\ IF \E i \in DOMAIN slots : slots[i] = None
     THEN /\ h \in DOMAIN slots /\ slots[h] = None
          /\ \A i \in 1 .. h - 1 : slots[i] # None
          /\ slots' = [slots EXCEPT ![h] = call.text] /\ UNCHANGED cap
     ELSE /\ h = Len(slots) + 1
          /\ slots' = Append(slots, call.text)
          /\ cap' = IF h <= cap THEN cap ELSE IF cap = 0 THEN FirstCap ELSE 2 * cap
  /\ said' = [i \in DOMAIN said \cup {h} |-> IF i = h THEN call.holds ELSE said[i]]
  /\ broken' = broken \ {h}
  /\ Answered
  /\ UNCHANGED <<below, leaked>>

NoSlot ==
  /\ call # Idle /\ call.step = "install"
  /\ None \notin ToSet(slots) /\ Len(slots) = cap
  /\ To("discard")
  /\ UNCHANGED <<below, table, told>>

\* A text is freed in a transaction, which may be refused.
Freed(t) == \/ T!TextFree(t) /\ UNCHANGED leaked
            \/ leaked' = leaked \cup {t} /\ UNCHANGED below

\* The text that could not be filled, or found no slot.
Discard ==
  /\ call # Idle /\ call.step = "discard"
  /\ Freed(call.text)
  /\ Answered
  /\ UNCHANGED <<table, said, broken>>

----------------------------------------------------------------------------
Splice(s, at, n, items) ==
  SubSeq(s, 1, at) \o items \o SubSeq(s, at + n + 1, Len(s))

\* n elements out of the text and items into it, one of the two empty.
Edit(h, at, n, items) ==
  /\ call = Idle /\ Holds(h) /\ h \notin broken
  /\ call' = [op |-> "edit", step |-> "begin", text |-> slots[h], h |-> h,
              at |-> at, left |-> n, todo |-> items,
              holds |-> Splice(said[h], at, n, items),
              shared |-> shares[texts[slots[h]]].refs > 1]
  /\ UNCHANGED <<below, table, told>>

Insert(h, offset, items) == offset <= Len(said[h]) /\ Edit(h, offset, 0, items)
Delete(h, start, end) ==
  start <= end /\ end <= Len(said[h]) /\ Edit(h, start, end - start, <<>>)

\* One code point more, one element less.
InsertOne ==
  /\ At("edit", "write") /\ call.todo # <<>>
  /\ T!TextInsert(call.text, call.at, Head(call.todo))
  /\ call' = [call EXCEPT !.todo = Tail(@), !.at = @ + 1]
  /\ UNCHANGED <<table, told>>

DeleteOne ==
  /\ At("edit", "write") /\ call.left > 0
  /\ T!TextDelete(call.text, call.at)
  /\ call' = [call EXCEPT !.left = @ - 1]
  /\ UNCHANGED <<table, told>>

\* The last one is in.
Edited ==
  /\ At("edit", "write") /\ call.todo = <<>> /\ call.left = 0
  /\ To("commit")
  /\ UNCHANGED <<below, table, told>>

\* A write that finds no memory leaves the text as it was, or on a share of its
\* own, or split in two of which it has neither.
Fail ==
  /\ call # Idle /\ call.step = "write"
  /\ \/ UNCHANGED below
     \/ /\ call.op = "edit"
        /\ LET s == T!Detached(T!State, call.text)
           IN  \/ T!Become(s, own)
               \/ T!Become(T!Written(s, call.text, <<>>), own)
  /\ To("abort")
  /\ UNCHANGED <<table, told>>

Commit ==
  /\ call # Idle /\ call.step = "commit"
  /\ T!Commit
  /\ IF call.op = "open" THEN To("install") /\ UNCHANGED told
     ELSE /\ said' = [said EXCEPT ![call.h] = call.holds]
          /\ Answered
          /\ UNCHANGED <<broken, leaked>>
  /\ UNCHANGED table

\* Seeded fault: the transaction of an edit that failed is committed.
FaultyAbort ==
  /\ call # Idle /\ call.step = "abort"
  /\ T!Commit
  /\ IF call.op = "open" THEN To("discard") ELSE Answered
  /\ UNCHANGED <<table, told>>

\* Of a text that was on a share with others, the abort frees the new share.
Abort ==
  /\ call # Idle /\ call.step = "abort"
  /\ T!Abort
  /\ IF call.op = "open" THEN To("discard") /\ UNCHANGED broken
     ELSE /\ broken' = IF call.shared THEN broken \cup {call.h} ELSE broken
          /\ Answered
  /\ UNCHANGED <<table, said, leaked>>

\* The slot is clear, whether or not the text can be freed.
Drop(h) ==
  /\ call = Idle /\ Holds(h) /\ h \notin broken
  /\ slots' = [slots EXCEPT ![h] = None]
  /\ Freed(slots[h])
  /\ UNCHANGED <<cap, call, said, broken>>

----------------------------------------------------------------------------
GuestInit ==
  /\ slots = <<>> /\ cap = 0 /\ call = Idle
  /\ said = <<>> /\ broken = {} /\ leaked = {}

Init == T!Init /\ GuestInit

Texts1 == UNION {[1 .. n -> Elems] : n \in 0 .. MaxLen}

Next ==
  \/ \E t \in Names :
       \/ \E items \in Texts1 : Open(t, items)
       \/ \E h \in DOMAIN slots : Clone(t, h)
  \/ Begin \/ NoBegin \/ Fill \/ NoSlot \/ Discard
  \/ \E h \in 1 .. Len(slots) + 1 : Install(h)
  \/ \E h \in DOMAIN slots :
       \/ \E i \in 0 .. MaxLen, items \in Texts1 :
            Len(said[h]) + Len(items) <= MaxLen /\ Insert(h, i, items)
       \/ \E i, j \in 0 .. MaxLen : Delete(h, i, j)
       \/ Drop(h)
  \/ InsertOne \/ DeleteOne \/ Edited \/ Fail \/ Commit \/ Abort

Spec == Init /\ [][Next]_vars

----------------------------------------------------------------------------
\* A handle leads to a text of its own, which holds what the calls answered ok
\* made of it and nothing of the calls that failed, of its clones, or of a
\* handle that was dropped and given out again; the text is gone only where an
\* edit failed on a share with others.  Nothing is kept for a call that is over,
\* but a text whose free was refused (wit_text_runtime.c:143-243, 522-772).
HandlesTrue ==
  call = Idle =>
    /\ levels = <<>>
    /\ \A h \in DOMAIN slots : Holds(h) =>
         /\ \A g \in DOMAIN slots \ {h} : slots[g] # slots[h]
         /\ h \notin broken => /\ slots[h] \in T!Live
                               /\ T!Held(slots[h]) = said[h]
    /\ T!Live \subseteq ToSet(slots) \cup leaked
    /\ Len(slots) <= cap

============================================================================

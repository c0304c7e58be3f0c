-------------------------------- MODULE Wire --------------------------------
(* What the runner writes down and reads back: message and intent frames     *)
(* (wire_v0.c), the rows that keep a frame (wit_wire_bridge_v0.c), leases    *)
(* and dedupe records (lease_v0.c, dedupe_v0.c).  Frames are records of      *)
(* their fields and a body of bytes; how many bytes a field takes matters    *)
(* for sizes only.  The writer and reader of a row's fields are generated    *)
(* and taken to keep what they are given.                                    *)
EXTENDS Integers, Sequences, SequencesExt, FiniteSetsExt

CONSTANTS Messages, Intents, Leases, Dedupes, \* what is to be written
          Header,       \* bytes before the body of a frame
          MaxU32,       \* the greatest 32-bit value, here a small one
          Word,         \* 2^64, here a small one
          MaxChecksum   \* room for a checksum

VARIABLES item, \* what was written
          held, \* a frame, a row, or the fields of a record as they are now
          form, \* what held is
          damage \* whether held was damaged in keeping

wireVars == <<item, held, form, damage>>

Flags == {"durable", "high", "dedupe", "ack", "from", "trace"}
Refused == [of |-> "refused"]
Signed(x) == IF x >= Word \div 2 THEN x - Word ELSE x

----------------------------------------------------------------------------
(* Messages.                                                                 *)

ValidMessage(m) ==
  /\ m.kind \in {"command", "event", "timer"}
  /\ m.flags \subseteq Flags
  /\ m.id # <<>>
  /\ "trace" \notin m.flags => m.trace = <<>>
  /\ "from" \notin m.flags => m.from = 0

MessageSize(m) == Header + Len(m.id) + Len(m.trace) + Len(m.payload)

FaultyEncodeMessage(m) == \* Seeded fault: an empty trace is written as none
  [of |-> "message", version |-> 0, size |-> MessageSize(m), kind |-> m.kind,
   flags |-> m.flags, reserved |-> 0, to |-> m.to, route |-> m.route, at |-> m.at,
   from |-> m.from, idLen |-> Len(m.id),
   traceLen |-> IF m.trace # <<>> THEN Len(m.trace) ELSE MaxU32,
   payloadLen |-> Len(m.payload), body |-> m.id \o m.trace \o m.payload]

\* No trace is written as the greatest length there is.
EncodeMessage(m) ==
  IF ~ValidMessage(m) \/ MessageSize(m) > MaxU32 THEN Refused
  ELSE [of |-> "message", version |-> 0, size |-> MessageSize(m), kind |-> m.kind,
        flags |-> m.flags, reserved |-> 0, to |-> m.to, route |-> m.route, at |-> m.at,
        from |-> m.from, idLen |-> Len(m.id),
        traceLen |-> IF "trace" \in m.flags THEN Len(m.trace) ELSE MaxU32,
        payloadLen |-> Len(m.payload), body |-> m.id \o m.trace \o m.payload]

\* What is sent from nobody says 0, whatever the frame says.
DecodeMessage(f) ==
  LET traceLen == IF "trace" \in f.flags THEN f.traceLen ELSE 0
      from == f.idLen + 1
      upto == f.idLen + traceLen
  IN  IF \/ f.of # "message" \/ f.version # 0 \/ f.reserved # 0
         \/ f.size # Header + Len(f.body)
         \/ f.kind \notin {"command", "event", "timer"}
         \/ ~(f.flags \subseteq Flags)
         \/ f.idLen = 0
         \/ ("trace" \in f.flags) = (f.traceLen = MaxU32)
         \/ Header + f.idLen + traceLen + f.payloadLen # f.size
      THEN Refused
      ELSE [kind |-> f.kind, flags |-> f.flags, to |-> f.to, route |-> f.route,
            at |-> f.at, from |-> IF "from" \in f.flags THEN f.from ELSE 0,
            id |-> SubSeq(f.body, 1, f.idLen), trace |-> SubSeq(f.body, from, upto),
            payload |-> SubSeq(f.body, upto + 1, upto + f.payloadLen)]

----------------------------------------------------------------------------
(* Intents: a message to send on, or to be handed back at a due time.        *)

ValidIntent(i) ==
  /\ i.kind \in {"emit", "arm"}
  /\ i.flags \subseteq {"due"}
  /\ i.message # <<>>
  /\ (i.kind = "arm") = ("due" \in i.flags)
  /\ "due" \notin i.flags => i.due = 0

IntentSize(i) == Header + Len(i.message)

EncodeIntent(i) ==
  IF ~ValidIntent(i) \/ IntentSize(i) > MaxU32 THEN Refused
  ELSE [of |-> "intent", version |-> 0, size |-> IntentSize(i), kind |-> i.kind,
        flags |-> i.flags, reserved |-> 0, due |-> i.due, len |-> Len(i.message),
        body |-> i.message]

DecodeIntent(f) ==
  LET i == [kind |-> f.kind, flags |-> f.flags, due |-> f.due, message |-> f.body]
  IN  IF \/ f.of # "intent" \/ f.version # 0 \/ f.reserved # 0
         \/ f.size # Header + Len(f.body)
         \/ f.len = 0 \/ Header + f.len # f.size
         \/ ~ValidIntent(i)
      THEN Refused ELSE i

----------------------------------------------------------------------------
(* Rows: the envelope of a message has its own fields for some of the flags. *)

RowFlags == {"durable", "high", "dedupe"}

Envelope(m) ==
  [id |-> m.id, hasFrom |-> "from" \in m.flags, from |-> m.from, to |-> m.to,
   route |-> m.route, at |-> m.at, kind |-> m.kind, flags |-> m.flags \cap RowFlags,
   ack |-> "ack" \in m.flags, hasTrace |-> "trace" \in m.flags, trace |-> m.trace,
   payload |-> m.payload]

FlagsOf(e) ==
  (e.flags \cap RowFlags) \cup {f \in {"ack"} : e.ack} \cup {f \in {"from"} : e.hasFrom}
    \cup {f \in {"trace"} : e.hasTrace}

MessageOf(e) ==
  [kind |-> e.kind, flags |-> FlagsOf(e), to |-> e.to, route |-> e.route, at |-> e.at,
   from |-> IF e.hasFrom THEN e.from ELSE 0, id |-> e.id,
   trace |-> IF e.hasTrace THEN e.trace ELSE <<>>, payload |-> e.payload]

FrameOf(row) == EncodeMessage(MessageOf(row.envelope))

InboxRow(m) == [dbi |-> "inbox", envelope |-> Envelope(m)]
OutboxRow(m, at) == [dbi |-> "outbox", envelope |-> Envelope(m), committed |-> at]
TimerRow(m) == [dbi |-> "timers", envelope |-> Envelope(m)]
DeadRow(m, rc, n, at) ==
  [dbi |-> "dead", envelope |-> Envelope(m), rc |-> rc, attempts |-> n, failed |-> at]

InboxFrame(row) == IF row.dbi = "inbox" THEN FrameOf(row) ELSE Refused
OutboxFrame(row) == IF row.dbi = "outbox" THEN FrameOf(row) ELSE Refused
TimerFrame(row) == IF row.dbi = "timers" THEN FrameOf(row) ELSE Refused

DeadFrame(row) == IF row.dbi = "dead" THEN FrameOf(row) ELSE Refused

\* The count of attempts is 32 bits wide again when a dead letter is replayed.
DeadLetter(row) ==
  IF row.dbi = "dead" => row.attempts \in 0 .. MaxU32 THEN DeadFrame(row) ELSE Refused

----------------------------------------------------------------------------
(* Records written field by field, each behind its tag.                      *)

\* An owner is unsigned and is written as a signed number.
EncodeLease(l) ==
  <<<<"record", 38>>, <<"variant", 33>>, <<"leased", 0>>, <<"record", 27>>,
    <<"s64", Signed(l.owner)>>, <<"s64", l.deadline>>, <<"s64", l.attempts>>>>

DecodeLease(raw) ==
  IF \/ Len(raw) # 7
     \/ SubSeq(raw, 1, 4) # SubSeq(EncodeLease([owner |-> 0, deadline |-> 0, attempts |-> 0]), 1, 4)
     \/ \E k \in 5 .. 7 : raw[k][1] # "s64"
     \/ raw[5][2] < 0 \/ raw[7][2] \notin 0 .. MaxU32
  THEN Refused
  ELSE [owner |-> raw[5][2], deadline |-> raw[6][2], attempts |-> raw[7][2]]

Shortened(checksum) == SubSeq(checksum, 1, Min({Len(checksum), MaxChecksum}))

EncodeDedupe(d) ==
  LET c == Shortened(d.checksum)
  IN  <<<<"record", 15 + Len(c)>>, <<d.accepted, 0>>, <<"s64", d.seen>>, <<"bytes", Len(c)>>>> \o c

DecodeDedupe(raw) ==
  IF \/ Len(raw) < 4
     \/ raw[1] # <<"record", 15 + Len(raw) - 4>>
     \/ raw[2][1] \notin {"true", "false"} \/ raw[3][1] # "s64"
     \/ raw[4] # <<"bytes", Len(raw) - 4>>
  THEN Refused
  ELSE [accepted |-> raw[2][1], seen |-> raw[3][2],
        checksum |-> Shortened(SubSeq(raw, 5, Len(raw)))]

----------------------------------------------------------------------------
(* What may happen to something written: it goes from frame to row and back, *)
(* as often as it is delivered, put back and given up; or it is damaged.     *)

Decoded ==
  CASE form = "frame" -> DecodeMessage(held)
    [] form = "intent" -> DecodeIntent(held)
    [] form = "lease" -> DecodeLease(held)
    [] form = "dedupe" -> DecodeDedupe(held)

Keep(row) == held' = row /\ form' = "row" /\ UNCHANGED <<item, damage>>

ToRow ==
  LET m == DecodeMessage(held)
  IN  /\ form = "frame" /\ m # Refused
      /\ \/ Keep(InboxRow(m))
         \/ Keep(OutboxRow(m, 1))
         \/ Keep(TimerRow(m))
         \/ \E n \in {1, MaxU32} : Keep(DeadRow(m, -1, n, 1))

FromRow ==
  /\ form = "row"
  /\ held' \in {InboxFrame(held), OutboxFrame(held), TimerFrame(held), DeadLetter(held)}
                 \ {Refused}
  /\ form' = "frame"
  /\ UNCHANGED <<item, damage>>

\* Fields that come out other than they went in; a body cut short.
DamagedFrames(f) ==
  {[f EXCEPT !.size = @ + 1], [f EXCEPT !.version = 1], [f EXCEPT !.reserved = 1],
   [f EXCEPT !.body = Front(@)], [f EXCEPT !.body = Append(@, "x")], [f EXCEPT !.kind = "odd"]}
  \cup UNION {{[f EXCEPT !.flags = @ \cup {x}], [f EXCEPT !.flags = @ \ {x}]} :
                 x \in Flags \cup {"odd", "due"}}

DamagedMessages(f) ==
  UNION {{[f EXCEPT !.idLen = n], [f EXCEPT !.traceLen = n], [f EXCEPT !.payloadLen = n]} :
           n \in {0, 1, 2, MaxU32}}
  \cup {[f EXCEPT !.from = 2]}
  \cup {g \in {[f EXCEPT !.idLen = @ + 1, !.payloadLen = @ - 1]} : g.payloadLen >= 0}

Damage ==
  /\ ~damage /\ form # "row"
  /\ held' \in CASE form = "frame" -> DamagedFrames(held) \cup DamagedMessages(held)
                 [] form = "intent" -> DamagedFrames(held) \cup {[held EXCEPT !.kind = "emit"],
                                         [held EXCEPT !.len = @ - 1], [held EXCEPT !.due = 0]}
                 [] OTHER -> {Front(held), Append(held, <<"byte", 0>>)}
                             \cup {[held EXCEPT ![k][1] = "odd"] : k \in 1 .. 4}
                             \cup {[held EXCEPT ![k][2] = @ + 1] : k \in {1, 4}}
  /\ damage' = TRUE
  /\ UNCHANGED <<item, form>>

Init ==
  /\ damage = FALSE
  /\ \/ item \in Messages /\ form = "frame" /\ held = EncodeMessage(item)
     \/ item \in Intents /\ form = "intent" /\ held = EncodeIntent(item)
     \/ item \in Leases /\ form = "lease" /\ held = EncodeLease(item)
     \/ item \in Dedupes /\ form = "dedupe" /\ held = EncodeDedupe(item)
  /\ form \in {"frame", "intent"} => held # Refused

Next == ToRow \/ FromRow \/ Damage

Spec == Init /\ [][Next]_wireVars

----------------------------------------------------------------------------
\* What was written comes back whole, through however many frames and rows. An
\* owner above the signed numbers does not: its lease cannot be read at all
\* (lease_v0.c:70, 107). A checksum comes back as far as there is room for it.
Whole ==
  ~damage =>
    CASE form = "row" -> MessageOf(held.envelope) = item
      [] form = "lease" -> IF item.owner < Word \div 2 THEN Decoded = item ELSE Decoded = Refused
      [] form = "dedupe" ->
           Decoded = [item EXCEPT !.checksum = Shortened(@)]
      [] OTHER -> Decoded = item

\* What is damaged is refused or is something that could have been written:
\* it can be put into a row, sent on and read again, and is the same there.
\* No number of bytes other than those of the fields is taken.
Sound ==
  damage =>
    CASE form = "frame" /\ Decoded # Refused ->
           /\ ValidMessage(Decoded) /\ MessageSize(Decoded) = held.size
           /\ DecodeMessage(EncodeMessage(Decoded)) = Decoded
           /\ MessageOf(Envelope(Decoded)) = Decoded
      [] form = "intent" /\ Decoded # Refused ->
           ValidIntent(Decoded) /\ EncodeIntent(Decoded) = held
      [] form = "lease" -> Decoded = Refused
      [] form = "dedupe" -> Decoded # Refused => EncodeDedupe(Decoded) = held
      [] OTHER -> TRUE

WireLaws == Whole /\ Sound

============================================================================

-------------------------------- MODULE Utf8 --------------------------------
(* Code points and bytes: the six readers of UTF-8 that a byte may pass on   *)
(* its way into a text, and the writers on the way out (text.c,              *)
(* editor_text_model.c, editor_document.c, editor_search.c,                  *)
(* node_text_editor.c, wit_text_runtime.c).  Three of the readers are        *)
(* strict, three are not.                                                    *)
EXTENDS Naturals, Sequences, SequencesExt

CONSTANTS Bytes,   \* the bytes that may come
          MaxBytes \* bound on them

VARIABLES bytes, \* what has come
          text   \* the code points that were made of it

utf8Vars == <<bytes, text>>

Refused == [n |-> 0, point |-> 0]
Read(n, point) == [n |-> n, point |-> point]

FaultyValid(c) == c <= 1114111 \* Seeded fault: halves of pairs are code points too

Valid(c) == c <= 1114111 /\ c \notin 55296 .. 57343

----------------------------------------------------------------------------
(* Bits: the lower k bits of a byte, whether it goes on another.             *)

Follows(b) == b \div 64 = 2
Low(b) == b % 64
Two(b) == (b[1] % 32) * 64 + Low(b[2])
Three(b) == (b[1] % 16) * 4096 + Low(b[2]) * 64 + Low(b[3])
Four(b) == (b[1] % 8) * 262144 + Low(b[2]) * 4096 + Low(b[3]) * 64 + Low(b[4])
Goes(b, n) == Len(b) >= n /\ \A k \in 2 .. n : Follows(b[k])

----------------------------------------------------------------------------
(* Writers.                                                                  *)

Size(c) == IF c <= 127 THEN 1 ELSE IF c <= 2047 THEN 2 ELSE IF c <= 65535 THEN 3 ELSE 4

InBytes(c, n) ==
  CASE n = 1 -> <<c>>
    [] n = 2 -> <<192 + c \div 64, 128 + Low(c)>>
    [] n = 3 -> <<224 + c \div 4096, 128 + Low(c \div 64), 128 + Low(c)>>
    [] n = 4 -> <<240 + c \div 262144, 128 + Low(c \div 4096), 128 + Low(c \div 64), 128 + Low(c)>>

Encode(c) == IF Valid(c) THEN InBytes(c, Size(c)) ELSE <<>>

\* What is typed: half of a pair takes four bytes.
EncodeTyped(c) ==
  CASE c > 1114111 -> <<>>
    [] c \in 55296 .. 57343 -> InBytes(c, 4)
    [] OTHER -> InBytes(c, Size(c))

ToUtf8(t) == FlattenSeq([i \in DOMAIN t |-> Encode(t[i])])
Length(t) == FoldLeft(LAMBDA n, c : n + Size(c), 0, t)

----------------------------------------------------------------------------
(* Readers of one code point.                                                *)

\* Of a text: the bytes that may begin and follow are listed.
DecodeText(b) ==
  LET c == b[1]
  IN  CASE c <= 127 -> Read(1, c)
        [] c \in 194 .. 223 /\ Goes(b, 2) -> Read(2, Two(b))
        [] /\ c \in 224 .. 239 /\ Goes(b, 3)
           /\ (c = 224 => b[2] >= 160) /\ (c = 237 => b[2] < 160) -> Read(3, Three(b))
        [] /\ c \in 240 .. 244 /\ Goes(b, 4)
           /\ (c = 240 => b[2] >= 144) /\ (c = 244 => b[2] <= 143) -> Read(4, Four(b))
        [] OTHER -> Refused

\* Of the editor's model: the code point that comes out is looked at.
DecodeModel(b) ==
  LET c == b[1]
  IN  CASE c < 128 -> Read(1, c)
        [] c \div 32 = 6 /\ Goes(b, 2) /\ Two(b) >= 128 -> Read(2, Two(b))
        [] /\ c \div 16 = 14 /\ Goes(b, 3)
           /\ Three(b) >= 2048 /\ Three(b) \notin 55296 .. 57343 -> Read(3, Three(b))
        [] c \div 8 = 30 /\ Goes(b, 4) /\ Four(b) \in 65536 .. 1114111 -> Read(4, Four(b))
        [] OTHER -> Refused

\* Of what a guest inserts: looked at in the same way.
DecodeGuest(b) == DecodeModel(b)

\* Of a document, and of its view: any bytes that go on one another.
DecodeDocument(b) ==
  LET c == b[1]
  IN  CASE c < 128 -> Read(1, c)
        [] c \div 32 = 6 /\ Goes(b, 2) -> Read(2, Two(b))
        [] c \div 16 = 14 /\ Goes(b, 3) -> Read(3, Three(b))
        [] c \div 8 = 30 /\ Goes(b, 4) -> Read(4, Four(b))
        [] OTHER -> Refused

DecodeView(b) == DecodeDocument(b)

\* Of what is searched: how many bytes only.
DecodeSearch(b) == DecodeDocument(b).n

\* Of what was replaced: how many bytes the first of them announces.
Announced(c) ==
  CASE c < 128 -> 1 [] c \div 32 = 6 -> 2 [] c \div 16 = 14 -> 3 [] c \div 8 = 30 -> 4
    [] OTHER -> 0

----------------------------------------------------------------------------
(* Readers of all of it: the code points, or that it was refused.            *)

All(b, Decode(_)) ==
  LET from[k \in 1 .. Len(b) + 1] ==
        IF k > Len(b) THEN [ok |-> TRUE, points |-> <<>>]
        ELSE LET d == Decode(SubSeq(b, k, Len(b)))
             IN  IF d.n = 0 THEN [ok |-> FALSE, points |-> <<>>]
                 ELSE LET rest == from[k + d.n]
                      IN  [ok |-> rest.ok, points |-> <<d.point>> \o rest.points]
  IN  from[1]

FromUtf8(b) == All(b, DecodeText)
GuestPoints(b) == All(b, DecodeGuest)

\* Put into a document or a view each code point passes the text, which
\* refuses what is none.
Pasted(b, Decode(_)) ==
  LET r == All(b, Decode)
  IN  [r EXCEPT !.ok = @ /\ \A i \in DOMAIN r.points : Valid(r.points[i])]

\* Where the caret goes after what was pasted: refused, or so many places on.
Count(b) == All(b, LAMBDA s : IF Announced(s[1]) <= Len(s) THEN Read(Announced(s[1]), 0) ELSE Refused)

CountSearched(b) == All(b, LAMBDA s : Read(DecodeSearch(s), 0))

----------------------------------------------------------------------------
Come(b) ==
  /\ Len(bytes) < MaxBytes /\ text = <<>>
  /\ bytes' = Append(bytes, b) /\ UNCHANGED text

\* Loaded whole or not at all.
Load ==
  /\ FromUtf8(bytes).ok
  /\ text' = FromUtf8(bytes).points /\ bytes' = <<>>

Paste ==
  /\ \/ Pasted(bytes, DecodeDocument).ok /\ text' = Pasted(bytes, DecodeDocument).points
     \/ Pasted(bytes, DecodeView).ok /\ text' = Pasted(bytes, DecodeView).points
  /\ bytes' = <<>>

\* A key press becomes bytes first.
Type ==
  /\ bytes # <<>> /\ DecodeDocument(bytes).n = Len(bytes)
  /\ LET typed == EncodeTyped(DecodeDocument(bytes).point)
     IN  typed # <<>> /\ Pasted(typed, DecodeView).ok /\ text' = Pasted(typed, DecodeView).points
  /\ bytes' = <<>>

Init == bytes = <<>> /\ text = <<>>

Next == Load \/ Paste \/ Type \/ \E b \in Bytes : Come(b)

Spec == Init /\ [][Next]_utf8Vars

----------------------------------------------------------------------------
\* The strict readers agree on every string of bytes, and the lax ones agree
\* with them on what they take, so a document shows what its file says.
ReadersAgree ==
  bytes # <<>> =>
    LET d == DecodeText(bytes)
    IN  /\ DecodeModel(bytes) = d
        /\ GuestPoints(bytes) = FromUtf8(bytes)
        /\ d # Refused =>
             /\ DecodeDocument(bytes) = d /\ DecodeSearch(bytes) = d.n
             /\ Valid(d.point) /\ Encode(d.point) = SubSeq(bytes, 1, d.n)
        /\ DecodeSearch(bytes) # 0 => Announced(bytes[1]) = DecodeSearch(bytes)

\* Whatever came in, and by whichever reader, goes out as bytes that every
\* reader takes for the same text, as many as were said before they were
\* written; the caret moves by as many places as there are code points.
TextGoesOut ==
  LET out == ToUtf8(text)
  IN  /\ FromUtf8(out) = [ok |-> TRUE, points |-> text]
      /\ Length(text) = Len(out)
      /\ Len(Count(out).points) = Len(text) /\ Len(CountSearched(out).points) = Len(text)
      /\ Pasted(bytes, DecodeView).ok =>
           Len(Count(bytes).points) = Len(Pasted(bytes, DecodeView).points)

Utf8Laws == ReadersAgree /\ TextGoesOut

============================================================================

------------------------------- MODULE Thatch -------------------------------
(* JSON kept in packed regions (thatch.c, thatch_core.c, thatch_json.c): a   *)
(* text is parsed into the cells of a region and read back there by cursors; *)
(* a region lives and dies with the transaction it was made in.              *)
(* A word, a group of four hex digits, a number and a length are one symbol  *)
(* of a text or one cell of a region.                                        *)
EXTENDS Integers, Sequences
LOCAL INSTANCE FiniteSetsExt
LOCAL INSTANCE SequencesExt

CONSTANTS Alphabet,    \* per kind of text, the symbols that are typed into it
          Openings,    \* and the texts the typing starts from
          MaxTyped,
          Documents,   \* the texts that paths are asked of
          PathParts,   \* what paths are put together from
          MaxParts,
          Lines,       \* the lines of the files that are parsed line by line
          MaxLevels, MaxRegions,
          Capacity,    \* the cells of a region
          MinInt, MaxInt, NumRoom, MaxIndex

VARIABLES kind, input, typed,
          asked, parts, \* a path and the number of its parts
          regions,     \* per region, its text, its cells, whether it is sealed, its frees
          levels       \* per open transaction, its regions and what there was before

vars == <<kind, input, typed, asked, parts, regions, levels>>
text == <<kind, input, typed>>
path == <<asked, parts>>

----------------------------------------------------------------------------
(* Writing.  A parser has a place in its text, the cells written and rc.     *)

Digit == [c \in {"0", "1", "2", "3", "7", "8", "9"} |->
            CASE c = "0" -> 0 [] c = "1" -> 1 [] c = "2" -> 2 [] c = "3" -> 3
              [] c = "7" -> 7 [] c = "8" -> 8 [] c = "9" -> 9]
Digits == DOMAIN Digit
Letters == {"k", "n", "u", "e"}
Words == {"null", "true", "false"}
Blanks == {" ", "\n"}
Escapes == [c \in {"\"", "\\", "n"} |-> IF c = "n" THEN "\n" ELSE c]

Begun(pos) == [pos |-> pos, out |-> <<>>, rc |-> "ok"]
Fail(p, rc) == [p EXCEPT !.rc = rc]
Ok(p) == p.rc = "ok"
On(p, n) == IF Ok(p) THEN [p EXCEPT !.pos = @ + n] ELSE p

\* jp_peek: {} at the end of the text.
Peek(s, p) == IF p.pos < Len(s) THEN {s[p.pos + 1]} ELSE {}
Sees(s, p, set) == Peek(s, p) # {} /\ Peek(s, p) \subseteq set
SkipWs(s, p) ==
  [p EXCEPT !.pos = Min({k \in p.pos .. Len(s) : k = Len(s) \/ s[k + 1] \notin Blanks})]
PastDigits(s, p) ==
  [p EXCEPT !.pos = Min({k \in p.pos .. Len(s) : k = Len(s) \/ s[k + 1] \notin Digits})]

\* thatch_write_tag, thatch_write_data, thatch_reserve_skip: nothing past the end.
Emit(p, cells) ==
  IF ~Ok(p) THEN p
  ELSE IF Len(p.out) + Len(cells) > Capacity THEN Fail(p, "oom")
  ELSE [p EXCEPT !.out = @ \o cells]

Open(p, tag) == Emit(Emit(p, <<<<tag>>>>), <<<<"len", 0>>>>)

\* thatch_commit_skip: the length at loc is that of what was written after it.
CommitSkip(p, loc) ==
  IF Ok(p) THEN [p EXCEPT !.out[loc] = <<"len", Len(p.out) - loc>>] ELSE p

----------------------------------------------------------------------------
\* jp_read_hex4, utf8_encode and the pairs of surrogates; p is after the `u'.
Unicode(s, p) ==
  LET rest == SubSeq(s, p.pos + 1, Len(s))
  IN  CASE IsPrefix(<<"bmp">>, rest) -> Emit(On(p, 1), <<<<"char", "bmp">>>>)
        [] IsPrefix(<<"hi", "\\", "u", "lo">>, rest) -> Emit(On(p, 4), <<<<"char", "pair">>>>)
        [] OTHER -> Fail(p, "parse")

RECURSIVE Chars(_, _)
Chars(s, p) ==
  IF ~Ok(p) \/ Sees(s, p, {"\""}) THEN p
  ELSE IF Peek(s, p) = {} \/ Sees(s, p, {"ctl", "\n"}) THEN Fail(p, "parse")
  ELSE IF ~Sees(s, p, {"\\"}) THEN Chars(s, On(Emit(p, <<<<"char", s[p.pos + 1]>>>>), 1))
  ELSE LET e == On(p, 1)
       IN  CASE Sees(s, e, {"u"}) -> Chars(s, Unicode(s, On(e, 1)))
             [] Sees(s, e, DOMAIN Escapes) ->
                  Chars(s, On(Emit(e, <<<<"char", Escapes[s[e.pos + 1]]>>>>), 1))
             [] OTHER -> Fail(e, "parse")

StringFrom(s, begun) == On(CommitSkip(Chars(s, begun), Len(begun.out)), 1)

String(s, p, tag) ==
  IF Sees(s, p, {"\""}) THEN StringFrom(s, Open(On(p, 1), tag)) ELSE Fail(p, "parse")

\* C's division, towards zero, of a number that may be negative.
Div10(n) == IF n >= 0 THEN n \div 10 ELSE -((-n) \div 10)

\* Seeded fault: a division that rounds down.
FaultyAccumulate(neg, ds) ==
  FoldLeft(LAMBDA v, c :
             LET d == Digit[c]
             IN  CASE v = {} -> {}
                   [] neg -> {n * 10 - d : n \in {m \in v : m >= (MinInt + d) \div 10}}
                   [] OTHER -> {n * 10 + d : n \in {m \in v : m <= Div10(MaxInt - d)}},
           {0}, ds)

\* The digits as an integer, {} when it overflows.
Accumulate(neg, ds) ==
  FoldLeft(LAMBDA v, c :
             LET d == Digit[c]
             IN  CASE v = {} -> {}
                   [] neg -> {n * 10 - d : n \in {m \in v : m >= Div10(MinInt + d)}}
                   [] OTHER -> {n * 10 + d : n \in {m \in v : m <= Div10(MaxInt - d)}},
           {0}, ds)

\* jp_parse_number: each part has at least one digit; the whole part begins with
\* a zero only if that is all of it; what is no integer becomes a double if it
\* fits the buffer.
Required(s, p) == IF Sees(s, p, Digits) THEN PastDigits(s, p) ELSE Fail(p, "parse")
Whole(s, p) == IF Sees(s, p, {"0"}) THEN On(p, 1) ELSE Required(s, p)
Fraction(s, p) == IF Ok(p) /\ Sees(s, p, {"."}) THEN Required(s, On(p, 1)) ELSE p
Exponent(s, p) ==
  IF Ok(p) /\ Sees(s, p, {"e"})
  THEN Required(s, On(p, IF Sees(s, On(p, 1), {"+", "-"}) THEN 2 ELSE 1)) ELSE p

\* told: all of it, int: the integer it is.
NumberTold(end, told, int) ==
  CASE ~Ok(end) -> end
    [] int # {} -> Emit(Emit(end, <<<<"int">>>>), <<<<"num", CHOOSE n \in int : TRUE>>>>)
    [] Len(told) >= NumRoom -> Fail(end, "parse")
    [] OTHER -> Emit(Emit(end, <<<<"double">>>>), <<<<"num", told>>>>)

NumberTo(s, from, first, whole, end) ==
  NumberTold(end, SubSeq(s, from + 1, end.pos),
             IF end.pos = whole.pos
             THEN Accumulate(first.pos > from, SubSeq(s, first.pos + 1, whole.pos)) ELSE {})

NumberFrom(s, from, first) ==
  NumberTo(s, from, first, Whole(s, first), Exponent(s, Fraction(s, Whole(s, first))))

Number(s, p) == NumberFrom(s, p.pos, IF Sees(s, p, {"-"}) THEN On(p, 1) ELSE p)

----------------------------------------------------------------------------
RECURSIVE ValueAt(_, _), Items(_, _, _)

Value(s, p) == IF Ok(p) THEN ValueAt(s, SkipWs(s, p)) ELSE p

Colon(s, p) == IF Ok(p) /\ ~Sees(s, p, {":"}) THEN Fail(p, "parse") ELSE On(p, 1)
Name(s, p) == Colon(s, SkipWs(s, String(s, SkipWs(s, p), "key")))

Followed(s, p, close) ==
  CASE ~Ok(p) -> p
    [] Sees(s, p, {","}) -> Items(s, On(p, 1), close)
    [] Sees(s, p, {close}) -> On(p, 1)
    [] OTHER -> Fail(p, "parse")

\* The elements of an array, or the members of an object, up to the bracket.
Items(s, p, close) ==
  Followed(s, SkipWs(s, Value(s, IF close = "]" THEN p ELSE Name(s, p))), close)

AllItems(s, p, close) ==
  CASE ~Ok(p) -> p
    [] Sees(s, p, {close}) -> On(p, 1)
    [] OTHER -> Items(s, p, close)

ContainerFrom(s, begun, close) ==
  CommitSkip(AllItems(s, SkipWs(s, begun), close), Len(begun.out))

\* jp_parse_array, jp_parse_object
Container(s, p, tag, close) == ContainerFrom(s, Open(On(p, 1), tag), close)

\* jp_parse_value
ValueAt(s, p) ==
  CASE Sees(s, p, Words) -> Emit(On(p, 1), <<<<s[p.pos + 1]>>>>)
    [] Sees(s, p, {"\""}) -> String(s, p, "string")
    [] Sees(s, p, {"["}) -> Container(s, p, "array", "]")
    [] Sees(s, p, {"{"}) -> Container(s, p, "object", "}")
    [] Sees(s, p, Digits \cup {"-"}) -> Number(s, p)
    [] OTHER -> Fail(p, "parse")

\* tj_parse: nothing but blanks may follow.
ToTheEnd(s, p) == IF Ok(p) /\ p.pos # Len(s) THEN Fail(p, "parse") ELSE p
Parse(s) == ToTheEnd(s, SkipWs(s, Value(s, Begun(0))))

----------------------------------------------------------------------------
(* Reading, by cursors into the cells.                                       *)

Tag(cells, c) == cells[c + 1][1]
Length(cells, c) == cells[c + 2][2]

\* tj_val_byte_size
Size(cells, c) ==
  CASE Tag(cells, c) \in Words -> 1
    [] Tag(cells, c) \in {"int", "double"} -> 2
    [] OTHER -> 2 + Length(cells, c)

Content(cells, c) == [i \in 1 .. Length(cells, c) |-> cells[c + 2 + i][2]]

\* tj_iter_array, tj_iter_object, tj_iter_next, tj_iter_next_kv: where each key,
\* if there are keys, and each value begins.
Entries(cells, c) ==
  LET end == c + 2 + Length(cells, c)
      from[k \in c + 2 .. Capacity] ==
        IF k >= end THEN <<>>
        ELSE LET v == IF Tag(cells, c) = "object" THEN k + Size(cells, k) ELSE k
             IN  <<[key |-> k, value |-> v]>> \o from[v + Size(cells, v)]
  IN  from[c + 2]

\* tj_get: the first member of that name.
Get(cells, c, key) ==
  IF Tag(cells, c) # "object" THEN <<"type">>
  ELSE LET es == Entries(cells, c)
           hits == {i \in DOMAIN es : Content(cells, es[i].key) = key}
       IN  IF hits = {} THEN <<"not_found">> ELSE <<"ok", es[Min(hits)].value>>

\* tj_index
Index(cells, c, i) ==
  IF Tag(cells, c) # "array" THEN <<"type">>
  ELSE LET es == Entries(cells, c)
       IN  IF i < Len(es) THEN <<"ok", es[i + 1].value>> ELSE <<"not_found">>

\* The value at a cursor, as tj_type, tj_int, tj_double, tj_string and the
\* iterators tell it.
RECURSIVE Read(_, _)
Read(cells, c) ==
  LET tag == Tag(cells, c)
  IN  CASE tag \in Words -> <<tag>>
        [] tag \in {"int", "double"} -> <<tag, cells[c + 2][2]>>
        [] tag = "string" -> <<tag, Content(cells, c)>>
        [] tag = "array" ->
             LET es == Entries(cells, c)
             IN  <<tag, [i \in DOMAIN es |-> Read(cells, es[i].value)]>>
        [] tag = "object" ->
             LET es == Entries(cells, c)
             IN  <<tag, [i \in DOMAIN es |-> <<Content(cells, es[i].key),
                                               Read(cells, es[i].value)>>]>>

----------------------------------------------------------------------------
\* tj_path, from place p of the path (its first is 1) and the value at c.
DigitsFrom(s, p) == Max({k \in p .. Len(s) + 1 : \A i \in p .. k - 1 : s[i] \in Digits})
NameFrom(s, p) == Max({k \in p .. Len(s) + 1 : \A i \in p .. k - 1 : s[i] \in Letters \cup Digits})
At(s, p) == IF p \in DOMAIN s THEN s[p] ELSE "end"

Ordinal(ds) ==
  FoldLeft(LAMBDA v, c : {n * 10 + Digit[c] : n \in {m \in v : m <= (MaxIndex - Digit[c]) \div 10}},
           {0}, ds)

\* What is between two brackets: where it ends and the step it asks for.
Bracket(s, p) ==
  CASE At(s, p) = "\"" ->
         LET q == Min({k \in p + 1 .. Len(s) + 1 : At(s, k) \in {"\"", "end"}})
         IN  IF At(s, q) = "\"" /\ At(s, q + 1) = "]"
             THEN <<q + 2, "key", SubSeq(s, p + 1, q - 1)>> ELSE <<"parse">>
    [] At(s, p) \in Digits ->
         LET q == DigitsFrom(s, p)
             n == Ordinal(SubSeq(s, p, q - 1))
         IN  IF n # {} /\ At(s, q) = "]" THEN <<q + 1, "index", CHOOSE i \in n : TRUE>>
             ELSE <<"parse">>
    [] OTHER -> <<"parse">>

Step(s, p) ==
  LET q == IF s[p] = "." THEN p + 1 ELSE p
      to == NameFrom(s, q)
  IN  CASE At(s, q) = "[" -> Bracket(s, q + 1)
        [] At(s, q) \in Letters -> <<to, "key", SubSeq(s, q, to - 1)>>
        [] OTHER -> <<"parse">>

RECURSIVE Walk(_, _, _, _)
WalkOn(cells, s, p, got) == IF got[1] = "ok" THEN Walk(cells, s, p, got[2]) ELSE got

WalkBy(cells, s, step, c) ==
  IF Len(step) = 1 THEN step
  ELSE WalkOn(cells, s, step[1],
              IF step[2] = "key" THEN Get(cells, c, step[3]) ELSE Index(cells, c, step[3]))

Walk(cells, s, p, c) == IF p > Len(s) THEN <<"ok", c>> ELSE WalkBy(cells, s, Step(s, p), c)

Path(cells, s) == IF At(s, 1) # "." THEN <<"parse">> ELSE Walk(cells, s, 2, 0)

----------------------------------------------------------------------------
(* Regions and the transactions they are made in.                            *)

Live == {r \in DOMAIN regions : regions[r].frees = 0}
Top == levels[Len(levels)]
Ids(seq) == {seq[i] : i \in DOMAIN seq}
Freed(rs) == [r \in DOMAIN regions |->
                IF r \in rs THEN [regions[r] EXCEPT !.frees = @ + 1] ELSE regions[r]]

Init == /\ kind \in DOMAIN Openings
        /\ input \in Openings[kind]
        /\ typed = 0
        /\ asked = <<>> /\ parts = 0
        /\ regions = <<>>
        /\ levels = <<>>

Type(c) == /\ typed < MaxTyped
           /\ input' = Append(input, c) /\ typed' = typed + 1
           /\ UNCHANGED <<kind, path, regions, levels>>

Ask(part) == /\ input \in Documents /\ parts < MaxParts
             /\ asked' = asked \o part /\ parts' = parts + 1
             /\ UNCHANGED <<text, regions, levels>>

\* thatch_on_begin
Begin == /\ Len(levels) < MaxLevels
         /\ levels' = Append(levels, [own |-> <<>>, before |-> Live])
         /\ UNCHANGED <<text, path, regions>>

Made(said, parsed) ==
  [i \in DOMAIN said |->
     [text |-> said[i], cells |-> parsed[i].out, sealed |-> FALSE,
      frees |-> IF Ok(parsed[i]) THEN 0 ELSE 1]]

\* The lines up to the first that cannot be parsed or is refused.
Stopping(made, refused) ==
  LET stops == {i \in DOMAIN made : made[i].frees = 1 \/ i = refused}
  IN  IF stops = {} THEN made ELSE SubSeq(made, 1, Min(stops))

Take(made) ==
  /\ Len(regions) + Len(made) <= MaxRegions
  /\ regions' = regions \o made
  /\ levels' = [levels EXCEPT ![Len(levels)].own =
                  Reverse(SelectSeq([i \in DOMAIN made |-> Len(regions) + i],
                                    LAMBDA r : made[r - Len(regions)].frees = 0)) \o @]
  /\ UNCHANGED <<text, path>>

\* tj_parse_jsonl: the line that cannot be parsed ends it and gives its region
\* back, the line at which the caller refuses ends it and keeps its own.  A line
\* of blanks is passed over.
ParseLines(lines, refused) ==
  LET said == SelectSeq(lines, LAMBDA l : \E i \in DOMAIN l : l[i] \notin Blanks)
  IN  /\ levels # <<>>
      /\ Take(Stopping(Made(said, [i \in DOMAIN said |-> Parse(said[i])]), refused))

\* A caller writes on in a region that is not sealed.
Write(r) == /\ r \in Live /\ ~regions[r].sealed /\ Len(regions[r].cells) < Capacity
            /\ regions' = [regions EXCEPT ![r].cells = Append(@, <<"null">>)]
            /\ UNCHANGED <<text, path, levels>>

\* thatch_seal
Seal(r) == /\ r \in Live /\ ~regions[r].sealed
           /\ regions' = [regions EXCEPT ![r].sealed = TRUE]
           /\ UNCHANGED <<text, path, levels>>

\* thatch_region_release: refused for what is not the transaction's own.
Release(r) == /\ levels # <<>> /\ r \in Ids(Top.own)
              /\ regions' = Freed({r})
              /\ levels' = [levels EXCEPT ![Len(levels)].own = SelectSeq(@, LAMBDA x : x # r)]
              /\ UNCHANGED <<text, path>>

\* Seeded fault: a nested commit lets its regions go as an outer one does.
FaultyHandOver(ls) == SubSeq(ls, 1, Len(ls) - 1)

\* The parent, if there is one, takes the regions over.
HandOver(ls) ==
  LET n == Len(ls)
  IN  IF n = 1 THEN <<>>
      ELSE [SubSeq(ls, 1, n - 1) EXCEPT ![n - 1].own = ls[n].own \o @]

\* thatch_on_commit
Commit == /\ levels # <<>>
          /\ regions' = [r \in DOMAIN regions |->
                           IF r \in Ids(Top.own) THEN [regions[r] EXCEPT !.sealed = TRUE]
                           ELSE regions[r]]
          /\ levels' = HandOver(levels)
          /\ UNCHANGED <<text, path>>

\* thatch_on_abort
Abort == /\ levels # <<>>
         /\ regions' = Freed(Ids(Top.own))
         /\ levels' = SubSeq(levels, 1, Len(levels) - 1)
         /\ UNCHANGED <<text, path>>

Next == \/ \E c \in Alphabet[kind] : Type(c)
        \/ \E part \in PathParts : Ask(part)
        \/ Begin \/ Commit \/ Abort
        \/ \E lines \in Lines : \E refused \in 0 .. Len(lines) : ParseLines(lines, refused)
        \/ \E r \in DOMAIN regions : Write(r) \/ Seal(r) \/ Release(r)

Spec == Init /\ [][Next]_vars

----------------------------------------------------------------------------
(* What the grammar of JSON says a text means: a set, empty or of one value. *)

Strip(t) ==
  LET solid == {i \in DOMAIN t : t[i] \notin Blanks}
  IN  IF solid = {} THEN <<>> ELSE SubSeq(t, Min(solid), Max(solid))

Upto(t, k) == SubSeq(t, 1, k - 1)
After(t, k) == SubSeq(t, k + 1, Len(t))
Places(t, c) == {k \in DOMAIN t : t[k] = c}

Unit(u) ==
  CASE Len(u) = 1 -> Ids(u) \ {"\"", "\\", "ctl", "\n"}
    [] Len(u) = 2 /\ u[1] = "\\" /\ u[2] \in DOMAIN Escapes -> {Escapes[u[2]]}
    [] u = <<"\\", "u", "bmp">> -> {"bmp"}
    [] u = <<"\\", "u", "hi", "\\", "u", "lo">> -> {"pair"}
    [] OTHER -> {}

RECURSIVE Spelled(_)
Spelled(t) ==
  IF t = <<>> THEN {<<>>}
  ELSE UNION {{<<c>> \o r : c \in Unit(SubSeq(t, 1, k)), r \in Spelled(After(t, k))} :
                k \in {1, 2, 3, 6} \cap DOMAIN t}

Quoted(t) ==
  IF Len(t) >= 2 /\ t[1] = "\"" /\ t[Len(t)] = "\"" THEN Spelled(Upto(After(t, 1), Len(t) - 1))
  ELSE {}

AllDigits(t) == t # <<>> /\ Ids(t) \subseteq Digits
IsWhole(t) == AllDigits(t) /\ (t[1] = "0" => Len(t) = 1)
IsFraction(t) == t # <<>> => t[1] = "." /\ AllDigits(After(t, 1))
IsExponent(t) ==
  t # <<>> =>
    t[1] = "e" /\ (AllDigits(After(t, 1)) \/ (At(t, 2) \in {"+", "-"} /\ AllDigits(After(t, 2))))
Number10(t) == FoldLeft(LAMBDA v, c : v * 10 + Digit[c], 0, t)

Numeral(t) ==
  LET neg == At(t, 1) = "-"
      body == IF neg THEN After(t, 1) ELSE t
      n == IF neg THEN -Number10(body) ELSE Number10(body)
      split == \E i \in DOMAIN body : \E j \in i .. Len(body) :
                 /\ IsWhole(SubSeq(body, 1, i)) /\ IsFraction(SubSeq(body, i + 1, j))
                 /\ IsExponent(After(body, j))
  IN  CASE IsWhole(body) /\ n \in MinInt .. MaxInt -> {<<"int", n>>}
        [] split /\ Len(t) < NumRoom -> {<<"double", t>>}
        [] OTHER -> {}

RECURSIVE Means(_), Elements(_), Members(_)
Elements(t) ==
  {<<v>> : v \in Means(t)}
    \cup UNION {{<<v>> \o r : v \in Means(Upto(t, k)), r \in Elements(After(t, k))} :
                  k \in Places(t, ",")}

Members(t) ==
  LET one(u) == UNION {{<<name, v>> : name \in Quoted(Strip(Upto(u, k))), v \in Means(After(u, k))} :
                         k \in Places(u, ":")}
  IN  {<<m>> : m \in one(t)}
        \cup UNION {{<<m>> \o r : m \in one(Upto(t, k)), r \in Members(After(t, k))} :
                      k \in Places(t, ",")}

Means(t0) ==
  LET t == Strip(t0)
      inner == Upto(After(t, 1), Len(t) - 1)
      within(open, close) == Len(t) >= 2 /\ t[1] = open /\ t[Len(t)] = close
      none == Strip(inner) = <<>>
  IN  CASE Len(t) = 1 /\ t[1] \in Words -> {<<t[1]>>}
        [] At(t, 1) = "\"" -> {<<"string", u>> : u \in Quoted(t)}
        [] within("[", "]") -> {<<"array", es>> : es \in (IF none THEN {<<>>} ELSE Elements(inner))}
        [] within("{", "}") -> {<<"object", ms>> : ms \in (IF none THEN {<<>>} ELSE Members(inner))}
        [] OTHER -> Numeral(t)

RECURSIVE Weight(_)
Weight(v) ==
  LET total(ws) == FoldLeft(LAMBDA a, b : a + b, 2, ws)
  IN  CASE v[1] \in Words -> 1
        [] v[1] \in {"int", "double"} -> 2
        [] v[1] = "string" -> 2 + Len(v[2])
        [] v[1] = "array" -> total([i \in DOMAIN v[2] |-> Weight(v[2][i])])
        [] v[1] = "object" ->
             total([i \in DOMAIN v[2] |-> 2 + Len(v[2][i][1]) + Weight(v[2][i][2])])

Taken(p, meant) ==
  IF Ok(p) THEN meant = {Read(p.out, 0)} /\ \A v \in meant : Weight(v) = Len(p.out)
  ELSE \A v \in meant : p.rc = "oom" /\ Weight(v) > Capacity

\* A text is taken if it is JSON and fits, and is then read back as what it means
\* (thatch_json.c:44-431).
ParseSound == parts = 0 => Taken(Parse(input), Means(input))

----------------------------------------------------------------------------
(* Paths, as steps that are taken one after the other in the value itself.   *)

\* One step, with the point before it or without.
Item(t) ==
  LET u == IF At(t, 1) = "." THEN After(t, 1) ELSE t
      in == Upto(After(u, 1), Len(u) - 1)
      key == Upto(After(in, 1), Len(in) - 1)
  IN  CASE At(u, 1) \in Letters /\ Ids(u) \subseteq Letters \cup Digits -> {<<"key", u>>}
        [] Len(u) > 2 /\ u[1] = "[" /\ u[Len(u)] = "]" /\ AllDigits(in) /\ Number10(in) <= MaxIndex ->
             {<<"index", Number10(in)>>}
        [] Len(u) > 3 /\ u[1] = "[" /\ u[Len(u)] = "]" /\ Len(in) >= 2 /\ in[1] = "\""
             /\ in[Len(in)] = "\"" /\ "\"" \notin Ids(key) -> {<<"key", key>>}
        [] OTHER -> {}

\* Names that touch are one name.
RECURSIVE Steps(_)
Steps(t) ==
  IF t = <<>> THEN {<<>>}
  ELSE UNION {{<<st>> \o r : st \in Item(SubSeq(t, 1, k)), r \in Steps(After(t, k))} :
                k \in {k \in DOMAIN t : ~(t[k] \in Letters \cup Digits
                                          /\ At(t, k + 1) \in Letters \cup Digits)}}

StepIn(v, st) ==
  CASE st[1] = "key" /\ v[1] = "object" ->
         LET hits == {i \in DOMAIN v[2] : v[2][i][1] = st[2]}
         IN  IF hits = {} THEN <<"not_found">> ELSE <<"ok", v[2][Min(hits)][2]>>
    [] st[1] = "index" /\ v[1] = "array" ->
         IF st[2] < Len(v[2]) THEN <<"ok", v[2][st[2] + 1]>> ELSE <<"not_found">>
    [] OTHER -> <<"type">>

Chain(v, steps) ==
  FoldLeft(LAMBDA got, st : IF got[1] = "ok" THEN StepIn(got[2], st) ELSE got, <<"ok", v>>, steps)

Answered(got, cells, readings) ==
  IF readings = {} THEN got[1] # "ok"
  ELSE \A steps \in readings :
         Chain(Read(cells, 0), steps) = IF got[1] = "ok" THEN <<"ok", Read(cells, got[2])>> ELSE got

\* A path is answered as its steps are, one after the other; what is no path has
\* no answer (thatch_json.c:563-951).
PathsFollow ==
  parts > 0 =>
    \A cells \in {Parse(input).out} :
      Answered(Path(cells, asked), cells,
               IF At(asked, 1) = "." THEN Steps(After(asked, 1)) ELSE {})

----------------------------------------------------------------------------
\* A region is freed once at most and is in one list or, committed, sealed and in
\* none; what an open transaction would free is all that came since it began; and
\* whatever is written on, a region reads as its text (thatch.c:34-170).
RegionsKept ==
  /\ \A r \in DOMAIN regions :
       LET held == {i \in DOMAIN levels : r \in Ids(levels[i].own)}
       IN  /\ regions[r].frees = 0 => regions[r].sealed \/ held # {}
           /\ regions[r].frees > 0 => regions[r].frees = 1 /\ held = {}
           /\ regions[r].frees = 0 => {Read(regions[r].cells, 0)} = Means(regions[r].text)
  /\ \A i \in DOMAIN levels :
       levels[i].before = Live \ UNION {Ids(levels[k].own) : k \in i .. Len(levels)}

ThatchLaws == ParseSound /\ PathsFollow /\ RegionsKept

=============================================================================

------------------------------- MODULE Syntax -------------------------------
(* The tokens of a line in each language the editor colours                  *)
(* (editor_syntax.c).  A scanner starts at an offset and reads up to a limit,*)
(* the end of the line, and may look back at what stands before it.          *)
EXTENDS TextModel
LOCAL INSTANCE FiniteSetsExt

CONSTANTS Alphabet,   \* per language, the characters that are typed
          Openings,   \* per language, the texts the typing starts from
          MaxTyped, TabSize

VARIABLES language, text, typed

vars == <<language, text, typed>>

----------------------------------------------------------------------------
(* What the editor marks: brackets that belong together (editor_brackets.c)  *)
(* and white space with its columns (editor_whitespace.c).                   *)

Closing == [c \in {"(", "[", "{"} |-> CASE c = "(" -> ")" [] c = "[" -> "]" [] c = "{" -> "}"]
Brackets == DOMAIN Closing \cup {Closing[c] : c \in DOMAIN Closing}

Count(t, a, b, c) == Cardinality({o \in a .. b : At(t, o) = c})

\* The first bracket to the right, or to the left, that leaves none of its own
\* kind open in between: {<<open, close>>}, or {} if there is none.
Match(t, o) ==
  LET c == At(t, o)
      openers == {b \in DOMAIN Closing : c \in {b, Closing[b]}}
      Level(b, a, z) == Count(t, a, z, b) = Count(t, a, z, Closing[b])
      right == {k \in o + 1 .. Len(t) - 1 : c \in DOMAIN Closing /\ At(t, k) = Closing[c]
                                               /\ Level(c, o + 1, k - 1)}
      left == {k \in 0 .. o - 1 : \E b \in openers : c # b /\ At(t, k) = b
                                               /\ Level(b, k + 1, o - 1)}
  IN  IF right # {} THEN {<<o, Min(right)>>}
      ELSE IF left # {} THEN {<<Max(left), o>>} ELSE {}

\* The bracket before the caret goes first.
MatchNear(t, caret) ==
  LET before == IF caret > 0 THEN Match(t, caret - 1) ELSE {}
  IN  IF before # {} THEN before ELSE IF caret < Len(t) THEN Match(t, caret) ELSE {}

----------------------------------------------------------------------------
\* A tab is as wide as it takes to the next multiple of the tab size.
Width(c, column, tab) == IF c = "\t" THEN tab - ((column - 1) % tab) ELSE 1

\* The column, from 1, each offset of the text is shown in.
Columns(t, tab) ==
  LET column[o \in 0 .. Len(t)] ==
        IF o = LineStart(t, LineAt(t, o)) THEN 1
        ELSE column[o - 1] + Width(At(t, o - 1), column[o - 1], tab)
  IN  column

Leading(t, line) ==
  LET from == LineStart(t, line)
      to == LineEnd(t, line)
  IN  Max({o \in from .. to : \A k \in from .. o - 1 : At(t, k) \in {" ", "\t"}})

\* describe_line: the columns of the indentation, and the guides drawn in them.
Indent(t, line, tab) == Columns(t, tab)[Leading(t, line)] - 1
Guides(t, line, tab) == Indent(t, line, tab) \div tab

\* find_in_line: the first white space at an offset or after it.
FindMarker(t, line, from, tab) ==
  LET start == Greatest(from, LineStart(t, line))
      marked == {o \in start .. LineEnd(t, line) - 1 : At(t, o) \in {" ", "\t"}}
      column == Columns(t, tab)
  IN  IF marked = {} THEN {}
      ELSE LET o == Min(marked) IN {<<o, column[o], Width(At(t, o), column[o], tab)>>}

----------------------------------------------------------------------------
\* The letters of the instances, "tick" for a back tick, and words that stand for
\* the tables of keywords and types.
Letter == {"a", "b", "e", "o", "r", "x"}
Listed == {<<"a">>, <<"a", "b">>}

Digit == {"0", "1", "7"}
DigitsOf == [x |-> Digit \cup {"a", "b", "e"}, b |-> {"0", "1"}, o |-> Digit]
Alnum == Letter \cup Digit
Blank == {" ", "\t", "\r", "\n"}
Breaks == {"\r", "\n"}

----------------------------------------------------------------------------
\* The first offset at or after `from' with a character of S, or without one.
Until(t, from, lim, S) == Min({o \in from .. lim : o = lim \/ At(t, o) \in S} \cup {lim})
Past(t, from, lim, S) == Min({o \in from .. lim : o = lim \/ At(t, o) \notin S} \cup {lim})

Has(t, o, lim, s) == o + Len(s) <= lim /\ Slice(t, o, o + Len(s)) = s
Is(t, o, lim, S) == o < lim /\ At(t, o) \in S

\* Seeded fault: the look ahead does not stop at the limit.
FaultyNextIs(t, o, lim, c) == Is(t, Past(t, o, Len(t), Blank), Len(t), {c})

\* json_string_is_property and its kin: the next character that is not blank.
NextIs(t, o, lim, c) == Is(t, Past(t, o, lim, Blank), lim, {c})

\* find_previous_non_whitespace_codepoint: {} at the start of the text.
Previous(t, o) ==
  LET solid == {k \in 0 .. o - 1 : At(t, k) \notin Blank}
  IN  IF solid = {} THEN {} ELSE {At(t, Max(solid))}

LeadsLine(t, o) == \A k \in LineStart(t, LineAt(t, o)) .. o - 1 :
                     At(t, k) \in {" ", "\t"} \/ \E b \in k .. o - 1 : At(t, b) \in Breaks

Escaped(t, from, o) ==
  LET run == {k \in from .. o : \A b \in k .. o - 1 : At(t, b) = "\\"}
  IN  Cardinality(run) % 2 = 0

InvalidTo(t, o, lim, stops) == Greatest(o + 1, Until(t, o, lim, stops \cup Blank))
Invalid(t, o, lim, stops) == <<InvalidTo(t, o, lim, stops), "invalid">>

LineComment(t, o, lim) == <<Until(t, o, lim, Breaks), "comment">>

\* From `from' to the first `close', or to the limit.
Block(t, from, lim, close, kind, unclosed) ==
  LET ends == {k \in from .. lim : Has(t, k, lim, close)}
  IN  IF ends = {} THEN <<lim, unclosed>> ELSE <<Min(ends) + Len(close), kind>>

String(t, o, lim, q) ==
  LET close == {k \in o + 1 .. lim - 1 : At(t, k) = q /\ ~Escaped(t, o + 1, k)}
      break == {k \in o + 1 .. lim - 1 : q = "'" /\ At(t, k) \in Breaks}
      first == Min(close \cup break)
  IN  IF close \cup break = {} THEN <<lim, "invalid">>
      ELSE IF first \in close THEN <<first + 1, "string">> ELSE <<first, "invalid">>

PropertyIf(t, token, lim) ==
  IF token[2] \in {"string", "plain"} /\ NextIs(t, token[1], lim, ":")
  THEN <<token[1], "property">> ELSE token

\* Up to a character on the same line, which the token takes in.
Span(t, from, lim, c, kind) ==
  LET e == Until(t, from, lim, Breaks \cup {c})
  IN  IF Is(t, e, lim, {c}) THEN <<e + 1, kind>> ELSE <<e, "invalid">>

----------------------------------------------------------------------------
\* Digits and the underscores between them; an underscore before a letter starts
\* a suffix.
SuffixAt(t, o, lim) == o + 1 < lim /\ At(t, o) = "_" /\ At(t, o + 1) \in Letter
DigitsTo(t, from, lim, D) ==
  Min({o \in from .. lim : o = lim \/ (At(t, o) \notin D /\ (At(t, o) # "_" \/ SuffixAt(t, o, lim)))}
      \cup {lim})

FractionTo(t, o, lim) == IF Is(t, o, lim, {"."}) /\ Is(t, o + 1, lim, Digit)
                         THEN DigitsTo(t, o + 1, lim, Digit) ELSE o

ExponentTo(t, o, lim) ==
  LET sign == IF Is(t, o + 1, lim, {"+", "-"}) THEN 1 ELSE 0
  IN  IF Is(t, o, lim, {"e"}) /\ Is(t, o + 1 + sign, lim, Digit)
      THEN DigitsTo(t, o + 1 + sign, lim, Digit) ELSE o

\* The end of the number at o, or o if there is none: a base without digits is
\* passed over, and digits looked for after it.
NumberTo(t, o, lim) ==
  LET a == IF Is(t, o, lim, {"-"}) THEN o + 1 ELSE o
      based == Is(t, a, lim, {"0"}) /\ Is(t, a + 1, lim, {"x", "b", "o"})
      inBase == IF based THEN DigitsTo(t, a + 2, lim, DigitsOf[At(t, a + 1)]) ELSE a
      from == IF based THEN a + 2 ELSE a
      whole == DigitsTo(t, from, lim, Digit)
      \* A sign or underscores alone are no number.
      seen == (based /\ inBase > from) \/ \E k \in from .. whole - 1 : At(t, k) \in Digit
      e == IF based /\ inBase > from THEN inBase
           ELSE ExponentTo(t, FractionTo(t, whole, lim), lim)
  IN  IF ~seen THEN o
      ELSE IF Is(t, e, lim, {"_"}) THEN Past(t, e + 1, lim, Alnum \cup {"_"}) ELSE e

Number(t, o, lim) == <<NumberTo(t, o, lim), "number">>
IsNumber(t, o, lim, S) == At(t, o) \in S /\ NumberTo(t, o, lim) > o
Signed == Digit \cup {"-"}

Word(t, o, e) == <<e, IF Slice(t, o, e) \in Listed THEN "keyword" ELSE "plain">>

\* A prefix, and what it is with and without a name after it.
Prefixed(t, o, lim, S, kind, bare) ==
  LET e == Past(t, o + 1, lim, S) IN <<e, IF e > o + 1 THEN kind ELSE bare>>

Punct(e) == <<e, "punctuation">>

----------------------------------------------------------------------------
\* The token at o, which is not blank, as <<end, kind>>, in each language.
JsonPunct == {"{", "[", ",", ":"}

Json(t, o, lim) ==
  LET c == At(t, o)
      word == InvalidTo(t, o, lim, JsonPunct)
  IN  CASE c = "\"" -> PropertyIf(t, String(t, o, lim, c), lim)
        [] c \in Signed -> IF NumberTo(t, o, lim) > o THEN Number(t, o, lim)
                           ELSE Invalid(t, o, lim, JsonPunct)
        [] c \in JsonPunct -> Punct(o + 1)
        [] OTHER -> <<word, IF Slice(t, o, word) \in Listed THEN "keyword" ELSE "invalid">>

LambkinSymbol == {"+", "-", "*", "/", "<", ">", "&", "~"}
LambkinStart == Letter \cup {"_"} \cup LambkinSymbol
LambkinPunct == {"(", ")", ":", ",", ".", ";", "="}

LambkinName(t, o, lim) ==
  IF At(t, o) = "tick"
  THEN Least(lim, Until(t, o + 1, lim, {"tick"}) + 1)
  ELSE Past(t, IF At(t, o) = "%" THEN o + 1 ELSE o, lim, LambkinStart \cup Digit)

Lambkin(t, o, lim) ==
  LET c == At(t, o)
  IN  IF Has(t, o, lim, <<"-", "-">>) \/ Has(t, o, lim, <<"/", "/">>) THEN LineComment(t, o, lim)
      ELSE IF Has(t, o, lim, <<":", "=">>) \/ Has(t, o, lim, <<"-", ">">>) THEN Punct(o + 2)
      ELSE IF IsNumber(t, o, lim, Signed) THEN Number(t, o, lim)
      ELSE CASE c \in {"\"", "'"} -> String(t, o, lim, c)
             [] c \in LambkinPunct -> Punct(o + 1)
             [] c \in LambkinStart \cup {"tick", "%"} -> Word(t, o, LambkinName(t, o, lim))
             [] OTHER -> Invalid(t, o, lim, LambkinPunct)

WitPunct == {"(", ")", "<", ">", ":", ",", ".", ";", "=", "@"}

Wit(t, o, lim) ==
  LET c == At(t, o)
      name == Past(t, IF c = "%" THEN o + 1 ELSE o, lim, Alnum \cup {"_", "-"})
  IN  IF Has(t, o, lim, <<"/", "/">>) THEN LineComment(t, o, lim)
      ELSE IF Has(t, o, lim, <<"-", ">">>) THEN Punct(o + 2)
      ELSE IF IsNumber(t, o, lim, Digit) THEN Number(t, o, lim)
      ELSE CASE c = "\"" -> String(t, o, lim, c)
             [] c \in WitPunct -> Punct(o + 1)
             [] c \in Letter \cup {"_", "%"} -> PropertyIf(t, Word(t, o, name), lim)
             [] OTHER -> Invalid(t, o, lim, WitPunct)

WatSymbol == Alnum \cup {"_", "$", ".", "-", "!", "?", "/", "*", "+", "<", ">", "=", ":"}

WatName(t, o, e) ==
  IF At(t, o) = "$" THEN <<e, "property">>
  ELSE IF \E k \in o .. e - 1 : At(t, k) = "." THEN <<e, "keyword">> ELSE Word(t, o, e)

Wat(t, o, lim) ==
  LET c == At(t, o)
  IN  IF Has(t, o, lim, <<";", ";">>) THEN LineComment(t, o, lim)
      ELSE IF Has(t, o, lim, <<"(", ";">>) THEN Block(t, o + 2, lim, <<";", ")">>, "comment", "invalid")
      ELSE IF IsNumber(t, o, lim, Signed) THEN Number(t, o, lim)
      ELSE CASE c = "\"" -> String(t, o, lim, c)
             [] c \in {"(", ")"} -> Punct(o + 1)
             [] c \in Letter \cup {"_", "$"} -> WatName(t, o, Past(t, o, lim, WatSymbol))
             [] OTHER -> Invalid(t, o, lim, {"(", ")", "\""})

\* A digit run and a full stop overwrite the character looked at with the one
\* behind them (editor_syntax.c:1103-1111).
MarkdownSeen(t, o, lim) ==
  LET m == Past(t, o, lim, Digit)
  IN  IF LeadsLine(t, o) /\ At(t, o) \in Digit /\ m + 1 < lim /\ At(t, m) = "."
      THEN At(t, m + 1) ELSE At(t, o)

MarkdownPunct == {"[", "]", "(", ")", "*", "_", "~", "!", "tick", "#", ">", "-", "+"}

MarkdownLeads(t, o, lim) ==
  LET c == At(t, o)
      m == Past(t, o, lim, Digit)
  IN  IF ~LeadsLine(t, o) THEN {}
      ELSE IF c \in {"#", ">"} \/ (c \in {"tick", "~"} /\ Has(t, o, lim, <<c, c, c>>))
      THEN {<<Until(t, o, lim, Breaks), IF c = ">" THEN "comment" ELSE "keyword">>}
      ELSE IF c \in {"-", "+", "*"} /\ Is(t, o + 1, lim, Blank) THEN {Punct(o + 1)}
      ELSE IF c \in Digit /\ Is(t, m, lim, {"."}) /\ Is(t, m + 1, lim, Blank)
      THEN {Punct(m + 1)} ELSE {}

Markdown(t, o, lim) ==
  LET c == MarkdownSeen(t, o, lim)
      plain == Until(t, o, lim, Blank \cup MarkdownPunct)
  IN  IF MarkdownLeads(t, o, lim) # {} THEN Only(MarkdownLeads(t, o, lim))
      ELSE CASE c = "tick" -> Span(t, o + 1, lim, "tick", "string")
             [] c = "[" -> Span(t, o + 1, lim, "]", "property")
             [] c \in {"]", "(", ")", "*", "_", "~", "!"} -> Punct(o + 1)
             [] OTHER -> IF plain > o THEN <<plain, "plain">> ELSE Punct(o + 1)

YamlStops == Blank \cup {":", "[", "]", "{", "}", ",", "#", "&", "*", "!", "|", ">", "?"}
YamlName == Alnum \cup {"_", "-"}

Yaml(t, o, lim) ==
  LET c == At(t, o)
      rule == LeadsLine(t, o) /\ \E s \in {"-", "."} : Has(t, o, lim, <<s, s, s>>)
      mark == c \in {"-", "?"} /\ LeadsLine(t, o) /\ (o + 1 = lim \/ Is(t, o + 1, lim, Blank))
      plain == Until(t, o, lim, YamlStops)
  IN  IF rule THEN Punct(o + 3)
      ELSE IF mark THEN Punct(o + 1)
      ELSE IF IsNumber(t, o, lim, Signed) THEN Number(t, o, lim)
      ELSE CASE c = "#" -> LineComment(t, o, lim)
             [] c \in {"\"", "'"} -> PropertyIf(t, String(t, o, lim, c), lim)
             [] c \in {"&", "*"} -> Prefixed(t, o, lim, YamlName, "property", "punctuation")
             [] c = "!" -> Prefixed(t, o, lim, YamlName, "type", "punctuation")
             [] c \in {"|", ">"} -> <<o + 1, "keyword">>
             [] c \in {":", "[", "]", "{", "}", ",", "?"} -> Punct(o + 1)
             [] OTHER -> IF NextIs(t, plain, lim, ":") THEN <<plain, "property">>
                         ELSE Word(t, o, plain)

PythonDelimiter == {"(", ")", ",", ".", ";"}
PythonOperator == {":", "=", "+", "-", "*", "/", "%", "<", ">", "!", "&", "|", "^"}
PythonQuote == {"\"", "'"}

PythonString(t, q, lim) ==
  LET c == At(t, q)
  IN  IF Has(t, q, lim, <<c, c, c>>) THEN Block(t, q + 3, lim, <<c, c, c>>, "string", "string")
      ELSE String(t, q, lim, c)

\* The offset of the quote after one or two prefix letters.
PythonPrefixed(t, o, lim) ==
  IF ~Is(t, o, lim, {"r", "b"}) THEN {}
  ELSE IF Is(t, o + 1, lim, PythonQuote) THEN {o + 1}
  ELSE IF Is(t, o + 1, lim, {"r", "b"}) /\ Is(t, o + 2, lim, PythonQuote) THEN {o + 2} ELSE {}

Python(t, o, lim) ==
  LET c == At(t, o)
  IN  IF PythonPrefixed(t, o, lim) # {} THEN PythonString(t, Only(PythonPrefixed(t, o, lim)), lim)
      ELSE IF IsNumber(t, o, lim, Signed) THEN Number(t, o, lim)
      ELSE CASE c = "#" -> LineComment(t, o, lim)
             [] c = "@" -> Prefixed(t, o, lim, Alnum \cup {"_", "."}, "property", "punctuation")
             [] c \in PythonQuote -> PythonString(t, o, lim)
             [] c \in PythonDelimiter -> Punct(o + 1)
             [] c \in PythonOperator -> Punct(Past(t, o, lim, PythonOperator))
             [] c \in Letter \cup {"_"} -> Word(t, o, Past(t, o, lim, Alnum \cup {"_"}))
             [] OTHER -> Invalid(t, o, lim, PythonDelimiter \cup PythonOperator
                                             \cup PythonQuote \cup {"@", "#"})

JsDelimiter == {"(", ")", "[", "]", "{", "}", ",", ";", "."}
JsOperator == {":", "=", "+", "-", "*", "/", "%", "<", ">", "!", "&", "|", "^", "?", "~"}
JsName == Alnum \cup {"_", "$"}

\* What may stand before a regular expression; it closes outside of a class.
RegexStarts(t, o) ==
  Previous(t, o) \subseteq {"(", "{", "[", "=", ":", ",", ";", "!", "?", "&", "|",
                            "+", "-", "*", "%", "^", "~"}

Regex(t, o, lim) ==
  LET Plain(k) == ~Escaped(t, o + 1, k)
      InClass(k) == \E b \in o + 1 .. k - 1 :
                      /\ At(t, b) = "[" /\ Plain(b)
                      /\ \A z \in b + 1 .. k - 1 : ~(At(t, z) = "]" /\ Plain(z))
      close == {k \in o + 1 .. lim - 1 : At(t, k) = "/" /\ Plain(k) /\ ~InClass(k)}
      break == {k \in o + 1 .. lim - 1 : At(t, k) \in Breaks}
      first == Min(close \cup break)
  IN  IF close \cup break = {} THEN <<lim, "invalid">>
      ELSE IF first \in break THEN <<first, "invalid">>
      ELSE <<Past(t, first + 1, lim, Letter), "string">>

Template(t, o, lim) ==
  LET close == {k \in o + 1 .. lim - 1 : At(t, k) = "tick" /\ ~Escaped(t, o + 1, k)}
  IN  IF close = {} THEN <<lim, "invalid">> ELSE <<Min(close) + 1, "string">>

JavaScript(t, o, lim) ==
  LET c == At(t, o)
  IN  IF Has(t, o, lim, <<"/", "/">>) THEN LineComment(t, o, lim)
      ELSE IF Has(t, o, lim, <<"/", "*">>)
      THEN Block(t, o + 2, lim, <<"*", "/">>, "comment", "invalid")
      ELSE IF c = "/" /\ o + 1 < lim /\ RegexStarts(t, o) THEN Regex(t, o, lim)
      ELSE IF LeadsLine(t, o) /\ Has(t, o, lim, <<"#", "!">>) THEN LineComment(t, o, lim)
      ELSE IF IsNumber(t, o, lim, Signed) THEN Number(t, o, lim)
      ELSE CASE c \in {"\"", "'"} -> PropertyIf(t, String(t, o, lim, c), lim)
             [] c = "tick" -> Template(t, o, lim)
             [] c \in {"@", "#"} -> Prefixed(t, o, lim, JsName \cup {"."}, "property", "punctuation")
             [] c \in JsDelimiter -> Punct(o + 1)
             [] c \in JsOperator -> Punct(Past(t, o, lim, JsOperator))
             [] c \in Letter \cup {"_", "$"} ->
                  PropertyIf(t, Word(t, o, Past(t, o, lim, JsName)), lim)
             [] OTHER -> Invalid(t, o, lim, JsDelimiter \cup JsOperator
                                             \cup {"@", "#", "\"", "'", "tick"})

CssName == Alnum \cup {"_", "-"}
CssPunct == {"{", "}", "(", ")", "[", "]", ":", ";", ",", ".", ">", "+", "~", "*"}

\* A number takes its unit or its percent sign along.
CssNumber(t, o, lim) ==
  LET e == NumberTo(t, o, lim)
  IN  <<IF Is(t, e, lim, {"%"}) THEN e + 1 ELSE Past(t, e, lim, Letter), "number">>

Css(t, o, lim) ==
  LET c == At(t, o)
      name == Past(t, o, lim, CssName)
      property == NextIs(t, name, lim, ":") /\ Previous(t, o) \cap {".", "#", ":"} = {}
  IN  IF Has(t, o, lim, <<"/", "*">>) THEN Block(t, o + 2, lim, <<"*", "/">>, "comment", "invalid")
      ELSE IF IsNumber(t, o, lim, Signed) THEN CssNumber(t, o, lim)
      ELSE CASE c = "@" -> Prefixed(t, o, lim, CssName, "keyword", "punctuation")
             [] c \in {"\"", "'"} -> String(t, o, lim, c)
             [] c = "#" -> Prefixed(t, o, lim, CssName, "string", "punctuation")
             [] c \in CssPunct -> Punct(o + 1)
             [] c \in Letter \cup {"_", "-"} -> <<name, IF property THEN "property" ELSE "plain">>
             [] OTHER -> Invalid(t, o, lim, CssPunct \cup {"#", "@", "\"", "'"})

\* HTML and XML: a name after what opens a tag is the tag's.
MarkupName(t, o, lim) ==
  LET e == Past(t, o, lim, Alnum \cup {"_", ":", "-", "."})
  IN  <<e, IF Previous(t, o) \cap {"<", "/", "!", "?"} # {} THEN "keyword"
           ELSE IF NextIs(t, e, lim, "=") THEN "property" ELSE "plain">>

Markup(t, o, lim) ==
  LET c == At(t, o)
  IN  IF Has(t, o, lim, <<"<", "!", "-", "-">>)
      THEN Block(t, o + 4, lim, <<"-", "-", ">">>, "comment", "invalid")
      ELSE IF (c = "<" /\ Is(t, o + 1, lim, {"/", "!", "?"}))
              \/ (c \in {"/", "?"} /\ Is(t, o + 1, lim, {">"})) THEN Punct(o + 2)
      ELSE CASE c \in {"\"", "'"} -> String(t, o, lim, c)
             [] c \in {"<", ">", "="} -> Punct(o + 1)
             [] c \in Letter \cup {"_", ":"} -> MarkupName(t, o, lim)
             [] OTHER -> Invalid(t, o, lim, {"<", ">", "/", "?", "!", "=", "\"", "'"})

----------------------------------------------------------------------------
Languages == {"json", "lambkin", "wit", "wat", "markdown", "yaml", "python",
              "javascript", "css", "markup"}

Scan(lang, t, o, lim) ==
  CASE lang = "json" -> Json(t, o, lim)
    [] lang = "lambkin" -> Lambkin(t, o, lim)
    [] lang = "wit" -> Wit(t, o, lim)
    [] lang = "wat" -> Wat(t, o, lim)
    [] lang = "markdown" -> Markdown(t, o, lim)
    [] lang = "yaml" -> Yaml(t, o, lim)
    [] lang = "python" -> Python(t, o, lim)
    [] lang = "javascript" -> JavaScript(t, o, lim)
    [] lang = "css" -> Css(t, o, lim)
    [] lang = "markup" -> Markup(t, o, lim)

\* croft_editor_syntax_next_token: {<<start, end, kind>>}, or {} at the limit.
NextToken(lang, t, from, lim) ==
  LET o == Past(t, from, lim, Blank)
  IN  IF from >= lim \/ o = lim THEN {} ELSE {<<o>> \o Scan(lang, t, o, lim)}

\* line_cache_tokens_for_line, which stops at a token that is empty.
Followed(next, tokens) ==
  IF \E token \in next : token[2] > token[1] THEN <<Only(next)>> \o tokens[Only(next)[2]]
  ELSE <<>>

TokensOf(lang, t, line) ==
  LET lim == LineEnd(t, line)
      tokens[from \in Nat] == Followed(NextToken(lang, t, from, lim), tokens)
  IN  tokens[LineStart(t, line)]

----------------------------------------------------------------------------
Init ==
  /\ language \in Languages
  /\ text \in Openings[language]
  /\ typed = 0

Type(c) ==
  /\ typed < MaxTyped
  /\ text' = Append(text, c) /\ typed' = typed + 1
  /\ UNCHANGED language

Next == \E c \in Alphabet[language] : Type(c)

Spec == Init /\ [][Next]_vars

----------------------------------------------------------------------------
\* The tokens of a line, of that line with nothing under it, and of it alone.
LineTokens(line) ==
  LET from == LineStart(text, line)
      to == LineEnd(text, line)
      shown == [all |-> text, above |-> Slice(text, 0, to), alone |-> Slice(text, from, to)]
  IN  [view \in DOMAIN shown |->
         TokensOf(language, shown[view], IF view = "alone" THEN 1 ELSE line)]

\* The tokens of a line lie in it one after the other and leave out nothing but
\* blanks: no scanner passes the end it is given or stops short of it.
Tiles(ts, from, to) ==
  /\ \A i \in 1 .. Len(ts) - 1 : ts[i][2] <= ts[i + 1][1]
  /\ \A i \in 1 .. Len(ts) : from <= ts[i][1] /\ ts[i][2] <= to
  /\ \A o \in from .. to - 1 :
       At(text, o) \in Blank \/ \E i \in 1 .. Len(ts) : o \in ts[i][1] .. ts[i][2] - 1

Shifted(ts, n) == [i \in 1 .. Len(ts) |-> <<ts[i][1] + n, ts[i][2] + n, ts[i][3]>>]

\* The tokens of a line stay what they are whatever is typed under it, which is
\* what the line cache counts on; they change with what is typed above it in the
\* three languages that look back over a line break, and in no other.
OthersIgnored(tokens, from) ==
  /\ tokens.all = tokens.above
  /\ language \notin {"javascript", "css", "markup"} =>
       tokens.all = Shifted(tokens.alone, from)

LineLaws(tokens, from, to) == Tiles(tokens.all, from, to) /\ OthersIgnored(tokens, from)

TokensLaws ==
  \A line \in 1 .. LineCount(text) :
    LineLaws(LineTokens(line), LineStart(text, line), LineEnd(text, line))

\* Two brackets that match do so from either side, matches of a kind never cross,
\* and the caret finds the match of a bracket on either side of it.
BracketsPair ==
  LET of == [o \in Offsets(text) |-> Match(text, o)]
  IN  /\ \A o \in Offsets(text) : \A m \in of[o] : of[m[1]] = {m} /\ of[m[2]] = {m}
      /\ \A o, p \in Offsets(text) : \A m \in of[o], n \in of[p] :
           At(text, m[1]) = At(text, n[1]) /\ m[1] < n[1] => n[2] < m[2] \/ m[2] < n[1]
      /\ \A caret \in 0 .. Len(text) :
           MatchNear(text, caret) = {}
             <=> \A o \in {caret - 1, caret} \cap Offsets(text) : of[o] = {}

\* White space is found where the indentation and the guides count it.
MarksAgree ==
  \A line \in 1 .. LineCount(text) :
    LET from == LineStart(text, line)
        lead == Leading(text, line)
        found == {Only(FindMarker(text, line, o, TabSize)) :
                    o \in {k \in from .. LineEnd(text, line) : FindMarker(text, line, k, TabSize) # {}}}
        indent == {m \in found : m[1] < lead}
    IN  /\ UNION {m[2] .. m[2] + m[3] - 1 : m \in indent} = 1 .. Indent(text, line, TabSize)
        /\ \A m \in found : At(text, m[1]) = "\t" => (m[2] + m[3] - 1) % TabSize = 0
        /\ Guides(text, line, TabSize) * TabSize <= Indent(text, line, TabSize)

SyntaxLaws == TokensLaws /\ BracketsPair /\ MarksAgree

============================================================================

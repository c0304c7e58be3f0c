---------------------------- MODULE FindReplace ----------------------------
(* Searching in the editor (editor_search.c) and the find and replace bar of *)
(* its node (node_text_editor.c): while the bar is open, what is typed goes  *)
(* into its fields.  Editor has what is done to the text otherwise; here a   *)
(* selection is put anywhere.                                                *)
EXTENDS TextModel
LOCAL INSTANCE FiniteSetsExt

CONSTANTS Chars, MaxLen, MaxField \* bounds on the text and the fields

VARIABLES text, anchor, active,
          query, replacement, \* find_query, replace_query
          bar                 \* which field has the keys: "off", "find" or, of
                              \* the bar with both, "query" or "replacement"

vars == <<text, anchor, active, query, replacement, bar>>

SelMin == Least(anchor, active)
SelMax == Greatest(anchor, active)
TextsUpTo(n) == UNION {[1 .. k -> Chars] : k \in 0 .. n}

Init ==
  /\ text \in TextsUpTo(MaxLen)
  /\ anchor = 0 /\ active = 0
  /\ query = <<>> /\ replacement = <<>> /\ bar = "off"

----------------------------------------------------------------------------
\* Occurrences of q, as <<from, to>>; an empty query has none.
Matches(t, q) ==
  {<<o, o + Len(q)>> : o \in {p \in 0 .. Len(t) : q # <<>> /\ p + Len(q) <= Len(t)
                                                   /\ Slice(t, p, p + Len(q)) = q}}

\* Seeded fault: the search goes on one past where the last match began.
FaultyNextMatch(t, q, from) ==
  {m \in Matches(t, q) : m[1] > from /\ \A n \in Matches(t, q) : n[1] > from => m[1] <= n[1]}

\* The first match from an offset on, the last one that ends by an offset: the
\* match alone, or {}.
NextMatch(t, q, from) ==
  {m \in Matches(t, q) : m[1] >= from /\ \A n \in Matches(t, q) : n[1] >= from => m[1] <= n[1]}

PreviousMatch(t, q, before) ==
  {m \in Matches(t, q) : m[2] <= before /\ \A n \in Matches(t, q) : n[2] <= before => n[1] <= m[1]}

Or(S, T) == IF S # {} THEN S ELSE T

NextWrapped(t, q, from) == Or(NextMatch(t, q, from), NextMatch(t, q, 0))
PreviousWrapped(t, q, before) == Or(PreviousMatch(t, q, before), PreviousMatch(t, q, Len(t)))

\* The matches that are counted and replaced: each from the end of the last.
Counted(t, q) ==
  LET from[o \in 0 .. Len(t)] ==
        LET next == NextMatch(t, q, o)
        IN  IF next = {} THEN <<>>
            ELSE <<Only(next)>> \o from[Only(next)[2]]
  IN  from[0]

Replaced(t, q, r) ==
  LET found == Counted(t, q)
      upTo[k \in 0 .. Len(found)] ==
        IF k = 0 THEN <<>>
        ELSE upTo[k - 1] \o Slice(t, IF k = 1 THEN 0 ELSE found[k - 1][2], found[k][1]) \o r
  IN  upTo[Len(found)] \o Slice(t, IF found = <<>> THEN 0 ELSE found[Len(found)][2], Len(t))

----------------------------------------------------------------------------
Selection(t, a, b) == Slice(t, Least(a, b), Greatest(a, b))

OnMatch == query # <<>> /\ Selection(text, anchor, active) = query

\* text_editor_find_match_stats: which match is selected, 0 for none, of how many.
Current ==
  IF OnMatch THEN Len(SelectSeq(Counted(text, query), LAMBDA m : m[1] < SelMin)) + 1 ELSE 0
Total == Len(Counted(text, query))

\* A match that is found is selected.
SelectMatch(found) ==
  IF found = {} THEN UNCHANGED <<anchor, active>>
  ELSE anchor' = Only(found)[1] /\ active' = Only(found)[2]

\* The bar takes the selection for its query when it can.
Copied == IF anchor # active /\ SelMax - SelMin <= MaxField /\ "\n" \notin {At(text, o) : o \in SelMin .. SelMax - 1}
          THEN Selection(text, anchor, active) ELSE query

Refresh(q) == SelectMatch(NextWrapped(text, q, SelMin))

Activate(both) ==
  /\ query' = Copied
  /\ bar' = IF ~both THEN "find" ELSE IF Copied # <<>> THEN "replacement" ELSE "query"
  /\ Refresh(Copied)
  /\ UNCHANGED <<text, replacement>>

Close ==
  /\ bar # "off" /\ bar' = "off"
  /\ UNCHANGED <<text, anchor, active, query, replacement>>

SwitchField ==
  /\ bar \in {"query", "replacement"}
  /\ bar' = IF bar = "query" THEN "replacement" ELSE "query"
  /\ UNCHANGED <<text, anchor, active, query, replacement>>

\* Typing into a field, and taking its last character back.
SetField(new) ==
  /\ bar # "off" /\ Len(new) <= MaxField
  /\ IF bar = "replacement"
     THEN replacement' = new /\ UNCHANGED <<query, anchor, active>>
     ELSE query' = new /\ Refresh(new) /\ UNCHANGED replacement
  /\ UNCHANGED <<text, bar>>

Field == IF bar = "replacement" THEN replacement ELSE query
TypeInField(c) == c # "\n" /\ SetField(Append(Field, c))
Backspace == Field # <<>> /\ SetField(SubSeq(Field, 1, Len(Field) - 1))

\* An empty query is made of the selection first.
Wanted == IF query # <<>> THEN query ELSE Copied

Find(q, found) ==
  /\ q # <<>> /\ query' = q
  /\ bar' = IF bar \in {"query", "replacement"} THEN bar ELSE "find"
  /\ SelectMatch(found)
  /\ UNCHANGED <<text, replacement>>

FindNext ==
  Find(Wanted, NextWrapped(text, Wanted,
                           IF Selection(text, anchor, active) = Wanted THEN SelMax ELSE SelMin))

FindPrevious == Find(Wanted, PreviousWrapped(text, Wanted, SelMin))

----------------------------------------------------------------------------
\* The match a replacement takes, and what comes of it: the text, and what is
\* selected then.
ToReplace(t, q, a, b) ==
  IF Selection(t, a, b) = q /\ q # <<>> THEN {<<Least(a, b), Greatest(a, b)>>}
  ELSE NextWrapped(t, q, Least(a, b))

AfterReplace(t, q, r, m) ==
  LET new == Spliced(t, m[1], m[2], r)
      end == m[1] + Len(r)
      next == NextWrapped(new, q, end)
  IN  [text |-> new, sel |-> IF next = {} THEN <<m[1], end>> ELSE Only(next)]

Replacing ==
  /\ Wanted # <<>> /\ query' = Wanted
  /\ bar' = "replacement"
  /\ UNCHANGED replacement

ReplaceNext ==
  /\ Replacing
  /\ LET found == ToReplace(text, Wanted, anchor, active)
         s == AfterReplace(text, Wanted, replacement, Only(found))
     IN  IF found = {} THEN UNCHANGED <<text, anchor, active>>
         ELSE /\ Len(s.text) <= MaxLen
              /\ text' = s.text /\ anchor' = s.sel[1] /\ active' = s.sel[2]

ReplaceAll ==
  /\ Replacing
  /\ LET first == NextMatch(text, Wanted, 0)
     IN  IF first = {} THEN UNCHANGED <<text, anchor, active>>
         ELSE /\ Len(Replaced(text, Wanted, replacement)) <= MaxLen
              /\ text' = Replaced(text, Wanted, replacement)
              /\ anchor' = Only(first)[1] /\ active' = Only(first)[1] + Len(replacement)

SelectAnywhere(a, b) ==
  /\ anchor' = a /\ active' = b
  /\ UNCHANGED <<text, query, replacement, bar>>

Next ==
  \/ \E both \in BOOLEAN : Activate(both)
  \/ Close \/ SwitchField \/ Backspace
  \/ \E c \in Chars : TypeInField(c)
  \/ FindNext \/ FindPrevious \/ ReplaceNext \/ ReplaceAll
  \/ \E a, b \in 0 .. Len(text) : SelectAnywhere(a, b)

Spec == Init /\ [][Next]_vars

----------------------------------------------------------------------------
\* A query that no two occurrences of can overlap.
Apart(q) == \A k \in 1 .. Len(q) - 1 : SubSeq(q, 1, k) # SubSeq(q, Len(q) - k + 1, Len(q))

\* The bar counts right: with a match selected, next and previous go to the next
\* and the last one of those counted and come back, all of them in one round.
\* (A query that overlaps itself can be found where it is not counted.)
FindGoesRound ==
  Apart(query) /\ OnMatch =>
    LET found == Counted(text, query)
        After(k) == IF k = Total THEN 1 ELSE k + 1
    IN  /\ Current \in 1 .. Total
        /\ found[Current] = <<SelMin, SelMax>>
        /\ NextWrapped(text, query, SelMax) = {found[After(Current)]}
        /\ PreviousWrapped(text, query, found[After(Current)][1]) = {found[Current]}

\* Replacing all is replacing the first match and then the next, as often as
\* there were matches, whatever the replacement holds.
ReplaceAllIsEach ==
  query # <<>> /\ Total > 0 =>
    LET step[k \in 0 .. Total] ==
          IF k = 0 THEN [text |-> text, sel |-> Counted(text, query)[1]]
          ELSE LET s == step[k - 1]
               IN  AfterReplace(s.text, query, replacement,
                                Only(ToReplace(s.text, query, s.sel[1], s.sel[2])))
    IN  step[Total].text = Replaced(text, query, replacement)

SearchLaws == FindGoesRound /\ ReplaceAllIsEach

============================================================================

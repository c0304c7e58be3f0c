----------------------------- MODULE LineCache -----------------------------
(* What the editor remembers of its lines (editor_line_cache.c): the tokens  *)
(* of a line and the region that folds under it (editor_folding.c), and what *)
(* the node makes of them: folds and the rows it shows (node_text_editor.c). *)
(* A line is its length: 0 is blank, n has n - 1 columns of indentation.     *)
EXTENDS Naturals, FiniteSets, Sequences, FiniteSetsExt

CONSTANTS MaxLines, MaxLength,
          MaxFolds,  \* stands for the 64 of folded_regions
          WrapWidth  \* characters that fit in a row

VARIABLES lines,
          cache,   \* per line: [tokens, fold]
          folds,   \* folded_regions: <<header, last line>>
          stale   \* history: lines whose fold was kept though a line it had been
                   \* worked out from is another one now

vars == <<lines, cache, folds, stale>>

\* What is not worked out yet is {}, what is {x}; no region is <<>>.
Fresh == [tokens |-> {}, fold |-> {}]
None == <<>>
Lines == 1 .. Len(lines)

Init ==
  /\ lines \in [1 .. 1 -> 0 .. MaxLength]
  /\ cache = <<Fresh>> /\ folds = {} /\ stale = {}

----------------------------------------------------------------------------
\* The lines under a header that are indented more, blank ones between and after
\* them included; the first line after it that is not blank must be one of them.
Body(ls, i) == {j \in i + 1 .. Len(ls) : ls[j] > ls[i]}
Stops(ls, i) == {j \in i + 1 .. Len(ls) : ls[j] # 0 /\ ls[j] <= ls[i]}
Stop(ls, i) == IF Stops(ls, i) = {} THEN Len(ls) + 1 ELSE Min(Stops(ls, i))

\* The last line that is looked at for it.
Reach(ls, i) == IF ls[i] = 0 THEN i ELSE Stop(ls, i)

Region(ls, i) ==
  IF ls[i] # 0 /\ \E j \in Body(ls, i) : j < Stop(ls, i)
  THEN <<i, Stop(ls, i) - 1>> ELSE None

\* The line that holds the first difference; one past the end if there is none.
FirstDirty(old, new) ==
  LET same == Max({k \in 0 .. Len(old) : k <= Len(new) /\ \A i \in 1 .. k : old[i] = new[i]})
  IN  IF old = new THEN Len(new) + 1
      ELSE IF same \in {Len(old), Len(new)} THEN same ELSE same + 1

\* Seeded fault: only what comes after the changed line is worked out anew.
FaultyKept(old, new, i) == i <= Len(old) /\ i <= FirstDirty(old, new)

Kept(old, new, i) == i <= Len(old) /\ i < FirstDirty(old, new)

\* croft_editor_line_cache_sync, called with every change of the text; the node
\* forgets its folds.
Edit(new) ==
  /\ lines' = new
  /\ cache' = [i \in 1 .. Len(new) |-> IF Kept(lines, new, i) THEN cache[i] ELSE Fresh]
  /\ stale' = {i \in 1 .. Len(new) :
                  /\ Kept(lines, new, i) /\ cache[i].fold # {}
                  /\ i \in stale \/ FirstDirty(lines, new) <= Reach(lines, i)}
  /\ folds' = {}

\* Another language or tab size: nothing is kept.
Relabel ==
  /\ cache' = [i \in Lines |-> Fresh]
  /\ stale' = {} /\ folds' = {}
  /\ UNCHANGED lines

----------------------------------------------------------------------------
\* A token of a line depends on what stands before it.
Tokens(i) ==
  /\ cache' = [cache EXCEPT ![i].tokens = IF @ = {} THEN {SubSeq(lines, 1, i)} ELSE @]
  /\ UNCHANGED <<lines, folds, stale>>

FoldOf(i) == IF cache[i].fold = {} THEN Region(lines, i)
             ELSE CHOOSE r \in cache[i].fold : TRUE

LookUp(i) == cache' = [cache EXCEPT ![i].fold = {FoldOf(i)}]

Hidden(line) == \E f \in folds : f[1] < line /\ line <= f[2]
Header(line) == \E f \in folds : f[1] = line

Fold(i) ==
  /\ ~Header(i) /\ ~Hidden(i)
  /\ LookUp(i)
  /\ folds' = folds \cup (IF FoldOf(i) = None \/ Cardinality(folds) = MaxFolds
                          THEN {} ELSE {FoldOf(i)})
  /\ UNCHANGED <<lines, stale>>

\* The fold under this header, or else the first one that hides this line.
Unfold(i) ==
  LET own == {f \in folds : f[1] = i}
      around == {f \in folds : f[1] < i /\ i <= f[2]}
      first == {f \in around : \A g \in around : f[1] <= g[1]}
  IN  /\ folds' = folds \ (IF own # {} THEN own ELSE first)
      /\ UNCHANGED <<lines, cache, stale>>

\* text_editor_sync_selection: the caret is never moved into a fold.
MoveCaret(line) ==
  /\ folds' = {f \in folds : ~(f[1] < line /\ line <= f[2])}
  /\ UNCHANGED <<lines, cache, stale>>

Next ==
  \/ \E i \in Lines, n \in 0 .. MaxLength :
       \/ Edit([lines EXCEPT ![i] = n])
       \/ Len(lines) < MaxLines /\ Edit(SubSeq(lines, 1, i) \o <<n>> \o SubSeq(lines, i + 1, Len(lines)))
  \/ \E i \in Lines : Len(lines) > 1 /\ Edit(SubSeq(lines, 1, i - 1) \o SubSeq(lines, i + 1, Len(lines)))
  \/ Relabel
  \/ \E i \in Lines : Tokens(i) \/ Fold(i) \/ Unfold(i) \/ MoveCaret(i)

Spec == Init /\ [][Next]_vars

----------------------------------------------------------------------------
\* text_editor_rebuild_visual_layout: the rows, as <<line, from, to>>, of a line
\* and of those after it that its fold does not skip.
Pieces(i) ==
  IF lines[i] = 0 THEN <<<<i, 0, 0>>>>
  ELSE [k \in 1 .. (lines[i] + WrapWidth - 1) \div WrapWidth |->
          <<i, (k - 1) * WrapWidth, IF k * WrapWidth < lines[i] THEN k * WrapWidth ELSE lines[i]>>]

RowsFrom[i \in 1 .. MaxLines + 1] ==
  IF i > Len(lines) THEN <<>>
  ELSE LET skipped == {f[2] : f \in {g \in folds : g[1] = i}}
       IN  Pieces(i) \o RowsFrom[IF skipped = {} THEN i + 1
                                  ELSE IF Max(skipped) < Len(lines) THEN Max(skipped) + 1
                                  ELSE Len(lines) + 1]

\* What is remembered of a line is what would be found now, in every order of
\* edits, draws and folds; a fold is so as long as no line up to the one that
\* ended its region changed (editor_line_cache.c:23-41, 144-199).
CacheFresh ==
  \A i \in Lines :
    /\ cache[i].tokens \subseteq {SubSeq(lines, 1, i)}
    /\ i \notin stale => cache[i].fold \subseteq {Region(lines, i)}

\* Folds lie within one another or apart, and the rows show each line that no
\* fold hides, in order, once and whole (node_text_editor.c:511-622).
RowsShowTheRest ==
  LET rows == RowsFrom[1]
      sound == \A f \in folds : f[1] \notin stale
  IN  sound =>
        /\ \A f, g \in folds : f[1] < g[1] => g[1] > f[2] \/ g[2] <= f[2]
        /\ \A f \in folds : f[1] < f[2] /\ f[2] <= Len(lines)
        /\ \A i \in Lines : Hidden(i) <=> \A k \in 1 .. Len(rows) : rows[k][1] # i
        /\ \A k \in 1 .. Len(rows) - 1 :
             \/ rows[k][1] = rows[k + 1][1] /\ rows[k][3] = rows[k + 1][2]
             \/ /\ rows[k][1] < rows[k + 1][1]
                /\ rows[k][3] = lines[rows[k][1]] /\ rows[k + 1][2] = 0

LinesLaws == CacheFresh /\ RowsShowTheRest

============================================================================

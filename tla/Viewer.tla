------------------------------- MODULE Viewer -------------------------------
(* The JSON viewer (json_viewer_state.c): a tree shown as lines, of which the *)
(* expanded objects and arrays show what is in them.  Nodes have paths, texts *)
(* of names and indexes, by which lines, expansions and selection find one    *)
(* another.  The renderers of the lines and of their paths are the guest's    *)
(* (thatch_json_guest.c).  A string with line breaks takes more lines than    *)
(* its path.  Scrolling is by lines.                                          *)
EXTENDS Integers, FiniteSets, Sequences, SequencesExt

CONSTANTS Docs,    \* a document: its nodes in order, [kind, up, name, more]
          LineCap, \* lines the viewer has room for: 512
          Height   \* lines that are in view

VARIABLES tree,     \* doc
          path,     \* path_storage: the path of each node
          expanded, \* expanded_indices
          selected, \* selected_path_index
          shown,    \* the node that each line is of
          sighted,  \* the node that each of visible_line_paths is of
          good,     \* the last rebuild answered ok
          scroll,   \* scroll_y
          shrunk    \* history: lines went away since the last scroll

viewVars == <<tree, path, expanded, selected, shown, sighted, good, scroll, shrunk>>

Nodes == DOMAIN tree

----------------------------------------------------------------------------
(* Paths                                                                    *)

\* Names and indexes are sequences of characters: a name may have a dot or a
\* bracket in it, and there may be several of one name.
PathIn(d) ==
  LET of[n \in DOMAIN d] ==
        IF n = 1 THEN <<".">>
        ELSE LET up == of[d[n].up]
             IN  IF d[d[n].up].kind = "array" THEN up \o <<"[">> \o d[n].name \o <<"]">>
                 ELSE (IF Last(up) = "." THEN up ELSE Append(up, ".")) \o d[n].name
  IN  [n \in DOMAIN d |-> of[n]]

\* The listed paths are those of objects and arrays, in order.
Holds(n) == tree[n].kind # "leaf"
Paths == SelectSeq([n \in Nodes |-> n], Holds)
Indices == 1 .. Len(Paths)
PathAt(i) == path[Paths[i]]

\* An object or array can be expanded if another one's path goes on from its own.
GoesOn(p, q) ==
  /\ IsPrefix(p, q) /\ Len(q) > Len(p)
  /\ p = <<".">> \/ q[Len(p) + 1] \in {".", "["}
Expandable(i) == \E j \in Indices \ {i} : GoesOn(PathAt(i), PathAt(j))

\* The index of a path, 0 if it is not listed: the first that is equal.
Find(p) == LET S == {i \in Indices : PathAt(i) = p}
           IN  IF S = {} THEN 0 ELSE CHOOSE i \in S : \A j \in S : i <= j

\* Seeded fault: an index is not cut off by itself.
FaultyCut(p, k) ==
  LET marks == {i \in 1 .. k : p[i] = "."}
      last == CHOOSE i \in marks : \A j \in marks : j <= i
  IN  IF SubSeq(p, 1, k) = <<".">> THEN 0 ELSE IF last = 1 THEN 1 ELSE last - 1

\* How much is left of a path of k parts when its last name or index is cut off,
\* 0 if nothing can be.
Cut(p, k) ==
  LET marks == {i \in 1 .. k : p[i] \in {".", "["}}
      last == CHOOSE i \in marks : \A j \in marks : j <= i
  IN  IF marks = {} \/ SubSeq(p, 1, k) = <<".">> THEN 0
      ELSE IF last = 1 THEN 1 ELSE last - 1

\* The listed path that a line's path leads to: its own, or the next one above.
Selectable(p) ==
  LET from[k \in 0 .. Len(p)] ==
        IF k = 0 THEN 0
        ELSE IF Find(SubSeq(p, 1, k)) # 0 THEN Find(SubSeq(p, 1, k))
        ELSE from[Cut(p, k)]
  IN  from[Len(p)]

----------------------------------------------------------------------------
(* Rendering                                                                *)

\* The nodes that show when the paths in P are expanded.
Visible(P) ==
  LET shows[n \in Nodes] ==
        n = 1 \/ (shows[tree[n].up] /\ Holds(tree[n].up) /\ path[tree[n].up] \in P)
  IN  SelectSeq([n \in Nodes |-> n], LAMBDA n : shows[n])

\* A line or more for each.
Rows(seen) ==
  FlattenSeq([i \in DOMAIN seen |-> [k \in 1 .. 1 + tree[seen[i]].more |-> seen[i]]])

Pathed(exp) == {PathAt(exp[i]) : i \in DOMAIN exp}

\* rebuild_render: of too many lines the first ones are kept and the paths are
\* not read; where lines and paths differ in number both are, with an error.
Rebuilt(exp) ==
  LET seen == Visible(Pathed(exp))
      rows == Rows(seen)
      full == Len(rows) > LineCap
  IN  /\ expanded' = exp
      /\ shown' = IF full THEN SubSeq(rows, 1, LineCap) ELSE rows
      /\ sighted' = IF full THEN sighted ELSE seen
      /\ good' = (~full /\ Len(seen) = Len(rows))
      /\ shrunk' = (shrunk \/ Len(shown') < Len(shown))
      /\ UNCHANGED <<tree, path, scroll>>

----------------------------------------------------------------------------
(* Keys and calls: of the selected path, or of one that is selected first.   *)

Keeps == UNCHANGED <<tree, path, expanded, shown, sighted, good, scroll, shrunk>>

SelectPrev == selected' = (IF selected = 1 THEN Len(Paths) ELSE selected - 1) /\ Keeps
SelectNext == selected' = (selected % Len(Paths)) + 1 /\ Keeps
SelectIndex(i) == selected' = i /\ Keeps

Added(i) == IF i \in ToSet(expanded) THEN expanded ELSE Append(expanded, i)
Removed(i) == SelectSeq(expanded, LAMBDA j : j # i)

Unless(i, change) ==
  IF Expandable(i) THEN change
  ELSE Keeps

Toggle(i) ==
  /\ selected' = i
  /\ Unless(i, Rebuilt(IF i \in ToSet(expanded) THEN Removed(i) ELSE Added(i)))

SetExpanded(i, wanted) ==
  /\ selected' = i
  /\ Unless(i, Rebuilt(IF wanted THEN Added(i) ELSE Removed(i)))

\* A click, on a view that was rebuilt.
SelectLine(l) ==
  /\ good /\ l \in DOMAIN sighted
  /\ LET i == Selectable(path[sighted[l]]) IN selected' = IF i = 0 THEN selected ELSE i
  /\ Keeps

SelectedLines == {l \in DOMAIN sighted : path[sighted[l]] = PathAt(selected)}

MaxScroll == IF Len(shown) > Height THEN Len(shown) - Height ELSE 0
Clamp(y) == IF y < 0 THEN 0 ELSE IF y > MaxScroll THEN MaxScroll ELSE y

ScrollTo(y) ==
  /\ scroll' = y /\ shrunk' = FALSE
  /\ UNCHANGED <<tree, path, expanded, selected, shown, sighted, good>>

ScrollBy(d) == ScrollTo(Clamp(scroll + d))
Home == ScrollTo(0)
End == ScrollTo(MaxScroll)

----------------------------------------------------------------------------
\* Loaded with its root expanded, if it can be, and the path after it selected.
\* A document that cannot be shown so far is not shown at all.
Init ==
  /\ tree \in Docs /\ path = PathIn(tree)
  /\ LET exp == IF Expandable(1) THEN <<1>> ELSE <<>>
         seen == Visible(Pathed(exp))
     IN  /\ Len(Rows(seen)) = Len(seen) /\ Len(seen) <= LineCap
         /\ expanded = exp /\ shown = seen /\ sighted = seen
  /\ selected = IF Len(Paths) > 1 THEN 2 ELSE 1
  /\ good = TRUE /\ scroll = 0 /\ shrunk = FALSE

Next ==
  \/ SelectPrev \/ SelectNext
  \/ \E i \in Indices :
       SelectIndex(i) \/ Toggle(i) \/ SetExpanded(i, TRUE) \/ SetExpanded(i, FALSE)
  \/ \E l \in DOMAIN sighted : SelectLine(l)
  \/ \E d \in {-1, 1} : ScrollBy(d)
  \/ Home \/ End

Spec == Init /\ [][Next]_viewVars

----------------------------------------------------------------------------
\* No name in it looks like a path, and no two paths are the same.
Plain ==
  /\ \A n \in Nodes \ {1} :
       tree[tree[n].up].kind = "object" =>
         tree[n].name # <<>> /\ ToSet(tree[n].name) \cap {".", "["} = {}
  /\ \A n, m \in Nodes : n # m => path[n] # path[m]

\* The object or array a line is of, or the one it is in.
Nearest(n) == IF Holds(n) THEN n ELSE tree[n].up

\* As long as rebuilds succeed, a line is of the node of its path, and a click on
\* it selects that object or array, or the one it is in; the selected path has a
\* line where all above it is expanded and nowhere else.  In documents whose
\* names look like paths only the first is so (json_viewer_state.c:124-239).
LinesLead ==
  good =>
    /\ shown = sighted
    /\ Plain =>
         /\ \A l \in DOMAIN sighted :
              LET i == Selectable(path[sighted[l]]) IN i # 0 /\ Paths[i] = Nearest(sighted[l])
         /\ Paths[selected] \in ToSet(shown) <=> SelectedLines # {}

\* No path is expanded twice or in vain, whatever failed, and the view begins
\* at a line of the document unless lines went away (json_viewer_state.c:280-345,
\* 600-640).
ExpansionsHold ==
  /\ \A i \in DOMAIN expanded :
       /\ Expandable(expanded[i])
       /\ \A j \in DOMAIN expanded : i # j => expanded[i] # expanded[j]
  /\ scroll >= 0 /\ (scroll > MaxScroll => shrunk)

ViewerLaws == LinesLead /\ ExpansionsHold

============================================================================

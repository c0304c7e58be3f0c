------------------------------ MODULE Document ------------------------------
(* A document of the editor (editor_document.c, editor_document_fs.c): its   *)
(* text with a revision number, the snapshots to undo and redo to, the run   *)
(* of edits that one undo takes back, and the file it is saved to.           *)
EXTENDS TextModel

CONSTANTS Chars,   \* characters that are put in
          MaxLen,  \* bound on the length of the text
          MaxRev   \* bound on the revision, current_revision

VARIABLES doc,    \* [text, rev], document->text and current_revision
          clean,  \* clean_revision
          undo, redo,
          run,    \* coalesce
          disk,   \* what the file at path holds
          astray, \* history: a clean revision number that says nothing any more
          lost    \* the text is gone with an aborted transaction

vars == <<doc, clean, undo, redo, run, disk, astray, lost>>

Kinds == {"insert", "backward", "forward", "all"}
NoRun == [kind |-> "none", start |-> 0, deleted |-> 0, inserted |-> 0]

TextsUpTo(n) == UNION {[1 .. k -> Chars] : k \in 0 .. n}
Dirty == doc.rev # clean

\* croft_editor_document_open: the file's contents, or those given if it cannot
\* be read; both are clean.
Init ==
  /\ disk \in TextsUpTo(1)
  /\ \E t \in TextsUpTo(1) :
       /\ doc = [text |-> t, rev |-> 0]
       /\ astray = (t # disk)
  /\ clean = 0 /\ undo = <<>> /\ redo = <<>>
  /\ run = NoRun /\ lost = FALSE

----------------------------------------------------------------------------
\* A keystroke joins the run when it goes on where the last one left off.
CanCoalesce(kind, start, deleted, inserted) ==
  /\ run.kind = kind
  /\ \/ /\ kind = "insert" /\ deleted = 0 /\ run.deleted = 0
        /\ start = run.start + run.inserted
     \/ /\ kind = "backward" /\ inserted = 0 /\ run.inserted = 0
        /\ start + deleted = run.start
     \/ /\ kind = "forward" /\ inserted = 0 /\ run.inserted = 0
        /\ start = run.start

Recorded(kind, start, deleted, inserted) ==
  IF kind = "all" THEN NoRun
  ELSE [kind |-> kind, start |-> start, deleted |-> deleted, inserted |-> inserted]

\* A numbering that goes past the clean revision from below meets it again.
Reused == doc.rev < clean

Apply(new, kind, start, deleted, inserted) ==
  /\ ~lost /\ doc.rev < MaxRev /\ Len(new) <= MaxLen
  /\ IF CanCoalesce(kind, start, deleted, inserted)
     THEN UNCHANGED <<undo, redo>>
     ELSE undo' = Append(undo, doc) /\ redo' = <<>>
  /\ doc' = [text |-> new, rev |-> doc.rev + 1]
  /\ run' = Recorded(kind, start, deleted, inserted)
  /\ astray' = (astray \/ Reused)
  /\ UNCHANGED <<clean, disk, lost>>

\* replace_range_with_codepoint and replace_range_with_utf8, for which nothing in
\* place of nothing is an edit, and delete_range.
ReplaceRange(a, b, new, kind) ==
  /\ a <= b /\ b <= Len(doc.text)
  /\ Apply(Spliced(doc.text, a, b, new), kind, a, b - a, Len(new))

ReplaceUtf8(new) == Apply(new, "all", 0, Len(doc.text), 0)

\* An edit that fails when it has written already: its transaction is aborted.
\* The snapshot made the text shared, so the write had put the text on a sequence
\* of its own, which the abort frees.  One that coalesces has no snapshot, and
\* the abort puts its sequence back.
FailEdit(kind, a, b) ==
  /\ ~lost /\ a < b /\ b <= Len(doc.text)
  /\ lost' = ~CanCoalesce(kind, a, b - a, 1)
  /\ UNCHANGED <<doc, clean, undo, redo, run, disk, astray>>

----------------------------------------------------------------------------
Front(s) == SubSeq(s, 1, Len(s) - 1)
Top(s) == s[Len(s)]

\* Seeded fault: the run goes on after an undo.
FaultyUndo ==
  /\ ~lost /\ undo # <<>>
  /\ doc' = Top(undo) /\ undo' = Front(undo)
  /\ redo' = Append(redo, doc)
  /\ UNCHANGED <<clean, run, disk, astray, lost>>

Undo ==
  /\ ~lost /\ undo # <<>>
  /\ doc' = Top(undo) /\ undo' = Front(undo)
  /\ redo' = Append(redo, doc)
  /\ run' = NoRun
  /\ UNCHANGED <<clean, disk, astray, lost>>

Redo ==
  /\ ~lost /\ redo # <<>>
  /\ doc' = Top(redo) /\ redo' = Front(redo)
  /\ undo' = Append(undo, doc)
  /\ run' = NoRun
  /\ UNCHANGED <<clean, disk, astray, lost>>

BreakCoalescing ==
  /\ run' = NoRun
  /\ UNCHANGED <<doc, clean, undo, redo, disk, astray, lost>>

\* save, and save_as, which makes the new file the document's.
Save ==
  /\ ~lost
  /\ disk' = doc.text /\ clean' = doc.rev
  /\ astray' = FALSE /\ run' = NoRun
  /\ UNCHANGED <<doc, undo, redo, lost>>

\* The file is cut before it is written, and the write may stop on the way.
TearSave ==
  /\ ~lost
  /\ \E n \in 0 .. Len(doc.text) - 1 : disk' = Slice(doc.text, 0, n)
  /\ astray' = TRUE
  /\ UNCHANGED <<doc, clean, undo, redo, run, lost>>

Next ==
  \/ \E a, b \in 0 .. Len(doc.text), kind \in Kinds :
       \/ \E new \in TextsUpTo(1) : ReplaceRange(a, b, new, kind)
       \/ FailEdit(kind, a, b)
  \/ \E new \in TextsUpTo(1) : ReplaceUtf8(new)
  \/ Undo \/ Redo \/ BreakCoalescing \/ Save \/ TearSave

Spec == Init /\ [][Next]_vars

----------------------------------------------------------------------------
\* Snapshots stand in the order of their edits, and an undo that could be redone
\* ends the run: a keystroke can never grow a text that a redo would replace
\* (editor_document.c:297-338, 455-516).
Line == undo \o <<doc>> \o [i \in 1 .. Len(redo) |-> redo[Len(redo) + 1 - i]]

HistoryInOrder ==
  /\ \A i, j \in 1 .. Len(Line) : i < j => Line[i].rev < Line[j].rev
  /\ run # NoRun => redo = <<>> /\ undo # <<>>

\* The document that calls itself clean is the one on disk, unless the number of
\* its clean revision was given out twice, a save was torn, or it was opened
\* without its file (editor_document.c:141-147, editor_document_fs.c:64-97).
CleanIsSaved == ~astray => \A s \in {Line[i] : i \in 1 .. Len(Line)} :
                              s.rev = clean => s.text = disk

\* What an undo takes back in one go is one run of typing or deleting: it grew
\* by insertions only, or shrank by deletions only, next to one another.
OneRun ==
  run.kind = "insert" /\ run.deleted = 0 /\ ~lost =>
    LET before == Top(undo).text
        grown == Len(doc.text) - Len(before)
        end == run.start + run.inserted
    IN  /\ grown >= run.inserted
        /\ doc.text = Slice(before, 0, end - grown)
                      \o Slice(doc.text, end - grown, end)
                      \o Slice(before, end - grown, Len(before))

DocumentLaws == HistoryInOrder /\ CleanIsSaved /\ OneRun

============================================================================

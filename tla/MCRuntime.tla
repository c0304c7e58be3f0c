----------------------------- MODULE MCRuntime -----------------------------
(* Small instances of the editor and of parts of the runtimes that guests    *)
(* call, side by side: a behaviour is one of a single part, chosen at the    *)
(* start.                                                                    *)
EXTENDS Integers, Sequences

VARIABLES part,
          text, anchor, active, preferred,
          query, replacement, bar,
          language, typed,
          doc, clean, undo, redo, run, disk, astray, lost,
          lines, cache, folds, stale,
          tree, path, expanded, selected, shown, sighted, good, scroll, shrunk

caret == <<anchor, active, preferred>>
search == <<query, replacement, bar>>
typing == <<language, typed>>
document == <<doc, clean, undo, redo, run, disk, astray, lost>>
rows == <<lines, cache, folds, stale>>
viewing == <<tree, path, expanded, selected, shown, sighted, good, scroll, shrunk>>
editing == <<text, caret, search, typing, document, rows, viewing>>

----------------------------------------------------------------------------
\* Characters, blanks and line breaks that are typed; a name of several parts.
Typed == INSTANCE Editor WITH
           Alphabet <- {"a", " ", "\n"}, Openings <- {<<>>}, MaxLen <- 4,
           TabSize <- 2, UseSpaces <- TRUE
Named == INSTANCE Editor WITH
           Alphabet <- {}, Openings <- {<<"A", "A", "a", "_">>, <<"A", "-", "_", "a">>},
           MaxLen <- 4,
           TabSize <- 2, UseSpaces <- FALSE

Finding == INSTANCE FindReplace WITH Chars <- {"a", "b"}, MaxLen <- 3, MaxField <- 2

\* What the scanners of each language tell apart, and texts that take several
\* characters to get to.
Alphabets == [json |-> {"\"", "\\", ":", "0", ".", "-", "\n"},
              lambkin |-> {"-", "/", "'", "\\", "tick", "a", "\t"},
              wit |-> {"-", ">", "a", ":", "0", "x", "_"},
              wat |-> {"(", ";", ")", "$", ".", "a", "0"},
              markdown |-> {"1", ".", "tick", "[", "]", "\n", "-"},
              yaml |-> {"-", "&", "'", ":", " ", "\n", "1"},
              python |-> {"\"", "r", "@", ".", "1", "e", "\n"},
              javascript |-> {"/", "*", "]", "\\", "a", "#", "\n"},
              css |-> {"#", "-", "1", "%", ":", "a", "\n"},
              markup |-> {"<", "!", "-", ">", "a", "=", "\n"}]
Starts == [l \in DOMAIN Alphabets |->
             {<<>>} \cup CASE l = "markup" -> {<<"<", "!", "-", "-">>}
                           [] l = "python" -> {<<"\"", "\"", "\"">>}
                           [] l = "javascript" -> {<<"/", "[">>}
                           [] l = "json" -> {<<"(", "[", "\t">>}
                           [] OTHER -> {}]

Tokens == INSTANCE Syntax WITH
            Alphabet <- Alphabets, Openings <- Starts, MaxTyped <- 4, TabSize <- 4

Saved == INSTANCE Document WITH Chars <- {"a"}, MaxLen <- 2, MaxRev <- 4

Rows == INSTANCE LineCache WITH MaxLines <- 3, MaxLength <- 3, MaxFolds <- 2, WrapWidth <- 2

\* Objects and arrays in one another, of more lines than there is room for; a
\* string of two lines; names that look like paths, and none.
Node(k, up, name) == [kind |-> k, up |-> up, name |-> name, more |-> 0]
Top(k) == Node(k, 0, <<>>)
Nested == <<Top("object"), Node("object", 1, <<"a">>), Node("array", 2, <<"b">>),
            Node("object", 3, <<"0">>), Node("leaf", 4, <<"c">>), Node("leaf", 3, <<"1">>),
            Node("array", 1, <<"a", "b">>)>>
Broken == <<Top("array"), Node("array", 1, <<"0">>), Node("object", 2, <<"0">>),
            [Node("leaf", 2, <<"1">>) EXCEPT !.more = 1]>>
Dotted == <<Top("object"), Node("object", 1, <<"a">>), Node("object", 2, <<"b">>),
            Node("leaf", 1, <<"a", ".", "b">>), Node("object", 1, <<>>)>>
Flat == <<Top("object"), Node("leaf", 1, <<"a">>)>>

Viewed == INSTANCE Viewer WITH
            Docs <- {Nested, Broken, Dotted, Flat}, LineCap <- 6, Height <- 3

----------------------------------------------------------------------------
EditingParts == {"typed", "named", "find", "syntax", "document", "rows", "viewer"}

EditingInit ==
  /\ CASE part = "named" -> Named!Init
       [] part = "find" -> Finding!Init /\ preferred = 0
       [] part = "syntax" -> Tokens!Init /\ anchor = 0 /\ active = 0 /\ preferred = 0
       [] OTHER -> Typed!Init
  /\ part # "find" => query = <<>> /\ replacement = <<>> /\ bar = "off"
  /\ part # "syntax" => language = "none" /\ typed = 0
  /\ IF part = "document" THEN Saved!Init
     ELSE /\ doc = <<>> /\ clean = 0 /\ undo = <<>> /\ redo = <<>> /\ run = <<>>
          /\ disk = <<>> /\ astray = FALSE /\ lost = FALSE
  /\ IF part = "rows" THEN Rows!Init
     ELSE lines = <<>> /\ cache = <<>> /\ folds = {} /\ stale = {}
  /\ IF part = "viewer" THEN Viewed!Init
     ELSE /\ tree = <<>> /\ path = <<>> /\ expanded = <<>> /\ selected = 0
          /\ shown = <<>> /\ sighted = <<>> /\ good = TRUE /\ scroll = 0 /\ shrunk = FALSE

EditingNext ==
  /\ part \in {"document", "rows", "viewer"} => UNCHANGED text
  /\ part \notin {"typed", "named", "find"} => UNCHANGED caret
  /\ part = "find" => UNCHANGED preferred
  /\ part # "find" => UNCHANGED search
  /\ part # "syntax" => UNCHANGED typing
  /\ part # "document" => UNCHANGED document
  /\ part # "rows" => UNCHANGED rows
  /\ part # "viewer" => UNCHANGED viewing
  /\ CASE part = "typed" -> Typed!Next
       [] part = "named" -> Named!Next
       [] part = "find" -> Finding!Next
       [] part = "syntax" -> Tokens!Next
       [] part = "document" -> Saved!Next
       [] part = "rows" -> Rows!Next
       [] part = "viewer" -> Viewed!Next

----------------------------------------------------------------------------
VARIABLES builders, session,
          item, kept, form, damage,
          added, literals, page, buckets, sealed, gave,
          draft, registry, at, held, strayed,
          raw, readings,
          kind, input, pressed, asked, parts, regions, levels

planning == <<builders, session>>
wire == <<item, kept, form, damage>>
interning == <<added, literals, page, buckets, sealed, gave>>
trees == <<draft, registry, at, held, strayed>>
utf8 == <<raw, readings>>
thatch == <<kind, input, pressed, asked, parts, regions, levels>>
serving == <<planning, wire, interning, trees, utf8, thatch>>

----------------------------------------------------------------------------
\* Bundles that need, exclude and outgrow each other and the machine.
Bundle(t, r, c, p) == [traits |-> t, requires |-> r, conflicts |-> c, provides |-> p]
Stock == [base |-> Bundle({}, <<>>, {}, <<"x">>),
          gl |-> Bundle({"gpu"}, <<"base">>, {"soft"}, <<"x", "y">>),
          soft |-> Bundle({"mac"}, <<>>, {"gl"}, <<"z">>),
          net |-> Bundle({}, <<"soft">>, {}, <<>>)]
OnMac(where, traits) == [family |-> "app", applicability |-> [kind |-> where, traits |-> traits]]

Planned == INSTANCE Plans WITH
             Families <- [app |-> [traits |-> {"mac"}, requires |-> <<"base">>,
                                   slots |-> <<"ui">>],
                           suite |-> [traits |-> {}, requires |-> <<>>,
                                      slots |-> <<"ui", "ui2">>]],
             Slots <- [ui |-> <<"gl", "soft">>, ui2 |-> <<"base">>], Bundles <- Stock,
             Traits <- {"mac", "current-machine"},
             Creates <- {OnMac("machine", {"mac"}), OnMac("machine", {"win"}),
                         [OnMac("any", {}) EXCEPT !.family = "suite"]},
             Preferences <- [slot : {"ui"}, bundle : {"gl", "soft", "ghost"}],
             Modules <- {}, Schemas <- {}, Mailboxes <- {}, Workers <- {},
             MaxBuilders <- 1, MaxBundles <- 3, MaxPrefs <- 1, MaxPrefBundles <- 2,
             MaxModules <- 0, MaxMailboxes <- 0, MaxWorkers <- 0, MaxTables <- 0

\* Workers that want a table and mailboxes, two of one name.
Hand(n, t, i, o, s) ==
  [name |-> n, module |-> "m", replicas |-> 1, tables |-> t, inboxes |-> i,
   outboxes |-> o, startup |-> s]
Table == [name |-> "t"]

Staffed == INSTANCE Plans WITH
             Families <- [app |-> [traits |-> {}, requires |-> <<>>, slots |-> <<>>]],
             Slots <- <<>>, Bundles <- <<>>, Traits <- {},
             Creates <- {OnMac("any", {})},
             Preferences <- {[slot |-> "ui", bundle |-> ""]},
             Modules <- {[name |-> "m"]},
             Schemas <- [defined : {TRUE}, tables : {<<Table>>, <<Table, Table>>}],
             Mailboxes <- {[name |-> "b", producers |-> {"w"}, consumers |-> {"v"}],
                           [name |-> "b", producers |-> {"w", "v"}, consumers |-> {"v", "w"}]},
             Workers <- {Hand("w", <<"t">>, <<>>, <<"b">>, 1), Hand("v", <<>>, <<"b">>, <<>>, 2),
                         Hand("w", <<>>, <<>>, <<>>, 3), Hand("x", <<>>, <<>>, <<>>, 0)},
             MaxBuilders <- 1, MaxBundles <- 4, MaxPrefs <- 1, MaxPrefBundles <- 2,
             MaxModules <- 2, MaxMailboxes <- 2, MaxWorkers <- 2, MaxTables <- 1

----------------------------------------------------------------------------
\* Frames with and without each flag, owners on both sides of the sign.
Letters == [kind : {"command", "timer"},
            flags : SUBSET {"durable", "high", "dedupe", "ack", "from", "trace"},
            to : {1}, route : {2}, at : {3}, from : {0, 1},
            id : {<<"i">>, <<"i", "j">>}, trace : {<<>>, <<"t">>},
            payload : {<<>>, <<"p", "q">>}]
Checksum(n) == [i \in 1 .. n |-> <<"byte", i>>]

Wired == INSTANCE Wire WITH
           held <- kept, Messages <- Letters,
           Intents <- [kind : {"emit", "arm"}, flags : SUBSET {"due"}, due : {0, 1},
                       message : {<<"m">>, <<"m", "n">>}],
           Leases <- [owner : 0 .. 7, deadline : {0, 1}, attempts : {0, 1, 12}],
           Dedupes <- [accepted : {"true", "false"}, seen : {0},
                       checksum : {Checksum(n) : n \in 0 .. 3}],
           Header <- 8, MaxU32 <- 12, Word <- 8, MaxChecksum <- 2

\* Contents of one hash and of several, more than a page and a table hold.
Contents == {<<>>, <<1>>, <<2>>, <<1, 2>>, <<2, 1>>}
Interned == INSTANCE Literals WITH
              pages <- literals, Contents <- Contents,
              HashOf <- [c \in Contents |-> IF c = <<>> THEN 1 ELSE c[Len(c)] + 1],
              InitialCap <- 2, PageCap <- 2, MaxIds <- 5, MaxPages <- 4

\* Trees with more trees in them than may be visited, trees deeper in trees than
\* may be, and literals that cannot be read; references that threads share.
Said == <<<<7, 8>>, <<>>>>
Expanded == INSTANCE Trees WITH
              astray <- strayed, Threads <- {1},
              Handles <- {<<"literal", 1>>, <<"tree", 1>>, <<"tree", 2>>},
              Literals <- Said, Bad <- <<>>,
              MaxNesting <- 2, MaxVisits <- 2, Word <- 8, MaxTrees <- 2, MaxLen <- 2, MaxHeld <- 1
Chained == INSTANCE Trees WITH
             astray <- strayed, Threads <- {1},
             Handles <- {<<"literal", 2>>, <<"literal", 3>>, <<"tree", 1>>, <<"tree", 2>>},
             Literals <- <<<<7>>, <<>>>>, Bad <- <<>>,
             MaxNesting <- 2, MaxVisits <- 3, Word <- 4, MaxTrees <- 3, MaxLen <- 1, MaxHeld <- 1
Counted == INSTANCE Trees WITH
             astray <- strayed, Threads <- {1, 2, 3}, Handles <- {}, Literals <- Said, Bad <- <<>>,
             MaxNesting <- 2, MaxVisits <- 2, Word <- 16, MaxTrees <- 1, MaxLen <- 3, MaxHeld <- 2

\* Bytes on both sides of every limit.
Encoded == INSTANCE Utf8 WITH
             bytes <- raw, text <- readings, MaxBytes <- 4,
             Bytes <- {65, 128, 143, 144, 159, 160, 191, 193, 194, 224, 237, 239, 240, 244, 248}

\* JSON of every kind, typed from texts that come close to each limit; paths into
\* two texts; lines that cannot be parsed or are refused, in nested transactions.
Ten == <<"[", "8", ",", "2", ",", "0", ",", "0", ",">>
Members == <<"{", "\"", "k", "\"", ":", "[", "null", ",", "[", "2", "]", "]", ",",
             "\"", "k", "\"", ":", "1", ",", "\"", "\"", ":", "true", "}">>
Elements == <<"[", "[", "8", ",", "{", "\"", "k", "\"", ":", "true", "}", "]", ",", "null", "]">>
Packed == INSTANCE Thatch WITH
            typed <- pressed,
            Alphabet <- [arrays |-> {"[", "]", ",", "1", "null", " "},
                         objects |-> {"{", "}", ",", ":", "\"", "k", "null"},
                         numbers |-> {"-", "+", ".", "e", "0", "2", "3", "8"},
                         strings |-> {"\"", "\\", "u", "hi", "lo", "bmp", "ctl"},
                         paths |-> {}],
            Openings <- [arrays |-> {<<>>, <<"[", "[">>, Ten},
                         objects |-> {<<"{">>, <<"{", "\"", "k", "\"", ":">>},
                         numbers |-> {<<>>},
                         strings |-> {<<"\"">>, <<"\"", "\\", "u", "hi">>},
                         paths |-> {Members, Elements}],
            MaxTyped <- 5, Documents <- {Members, Elements},
            PathParts <- {<<".">>, <<"[">>, <<"[", "\"">>, <<"\"", "]">>, <<"1", "]">>,
                          <<"0", "]">>, <<"k">>, <<"1">>},
            MaxParts <- 4, Lines <- {}, MaxLevels <- 0, MaxRegions <- 0,
            Capacity <- 20, MinInt <- -28, MaxInt <- 27, NumRoom <- 4, MaxIndex <- 10
Kept == INSTANCE Thatch WITH
          typed <- pressed,
          Alphabet <- [none |-> {}], Openings <- [none |-> {<<>>}], MaxTyped <- 0,
          Documents <- {}, PathParts <- {}, MaxParts <- 0,
          Lines <- {<<<<"1">>, <<" ">>, <<"[", "]">>>>, <<<<"8">>, <<"[">>, <<"2">>>>},
          MaxLevels <- 2, MaxRegions <- 3,
          Capacity <- 3, MinInt <- -28, MaxInt <- 27, NumRoom <- 4, MaxIndex <- 10

----------------------------------------------------------------------------
ServingParts == {"planned", "staffed", "wire", "interned",
                 "expanded", "chained", "counted", "utf8", "packed", "kept"}

ServingInit ==
  /\ Planned!Init /\ Interned!Init /\ Encoded!Init
  /\ IF part = "wire" THEN Wired!Init
     ELSE item = <<>> /\ kept = <<>> /\ form = "none" /\ damage = FALSE
  /\ CASE part = "counted" -> Counted!Init
       [] part = "chained" -> Chained!Init
       [] OTHER -> Expanded!Init
  /\ IF part = "packed" THEN Packed!Init ELSE Kept!Init

ServingNext ==
  /\ part \notin {"planned", "staffed"} => UNCHANGED planning
  /\ part # "wire" => UNCHANGED wire
  /\ part # "interned" => UNCHANGED interning
  /\ part \notin {"expanded", "chained", "counted"} => UNCHANGED trees
  /\ part # "utf8" => UNCHANGED utf8
  /\ part \notin {"packed", "kept"} => UNCHANGED thatch
  /\ CASE part = "planned" -> Planned!Next
       [] part = "staffed" -> Staffed!Next
       [] part = "wire" -> Wired!Next
       [] part = "interned" -> Interned!Next
       [] part = "expanded" -> Expanded!Next
       [] part = "chained" -> Chained!Next
       [] part = "counted" -> Counted!Next
       [] part = "utf8" -> Encoded!Next
       [] part = "packed" -> Packed!Next
       [] part = "kept" -> Kept!Next

----------------------------------------------------------------------------
Init == /\ part \in EditingParts \cup ServingParts
        /\ EditingInit /\ ServingInit

\* The part that was chosen takes its step, the others rest.
Next == /\ UNCHANGED part
        /\ part \notin EditingParts => UNCHANGED editing
        /\ part \notin ServingParts => UNCHANGED serving
        /\ IF part \in EditingParts THEN EditingNext ELSE ServingNext

Spec == Init /\ [][Next]_<<part, editing, serving>>

----------------------------------------------------------------------------
\* Moves of the caret and edits do what they undo (editor_commands.c); a search
\* goes round the text and replaces each match once (editor_search.c).
EditorLaws == /\ part = "typed" => Typed!EditorLaws
              /\ part = "named" => Named!EditorLaws
              /\ part = "find" => Finding!SearchLaws

\* The history of a document is in order and what is clean is saved
\* (editor_document.c).
DocumentLaws == part = "document" => Saved!DocumentLaws

\* What is remembered of a line is right, and the rows show what no fold hides;
\* a line of the JSON viewer leads to the node it shows
\* (editor_line_cache.c, node_text_editor.c, json_viewer_state.c).
LinesLaws == /\ part = "rows" => Rows!LinesLaws
             /\ part = "viewer" => Viewed!ViewerLaws

\* The tokens of a line tile it, whatever is above and below
\* (editor_syntax.c, editor_brackets.c, editor_whitespace.c).
SyntaxLaws == part = "syntax" => Tokens!SyntaxLaws

\* A plan is that of its manifest and gives all that it asks for
\* (orchestration_runtime.c:2366-2572).
PlansHold == /\ part = "planned" => Planned!PlansHold
             /\ part = "staffed" => Staffed!PlansHold

\* What is written comes back whole; what was damaged is refused or is sound
\* (wire_v0.c, wit_wire_bridge_v0.c, lease_v0.c, dedupe_v0.c).
WireLaws == part = "wire" => Wired!WireLaws

\* A literal keeps its number and its bytes; a tree lasts while it is held and
\* expands to all of its text; the readers of UTF-8 agree where they should; JSON
\* that was taken is read back as it was meant while its region is kept
\* (text_literal.c, text_tree_registry.c, text.c, node_text_editor.c, thatch_json.c).
TextsLast == /\ part = "interned" => Interned!LiteralsLast
             /\ part = "expanded" => Expanded!TreesLaws
             /\ part = "chained" => Chained!TreesLaws
             /\ part = "counted" => Counted!TreesLaws
             /\ part = "utf8" => Encoded!Utf8Laws
             /\ part = "packed" => Packed!ThatchLaws
             /\ part = "kept" => Kept!ThatchLaws

============================================================================

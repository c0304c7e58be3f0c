# A verification development for Croft

Croft is a C runtime for small portable programs: a message runner on top of the
Sapling database, an orchestration runtime that launches WebAssembly workers, host
bindings, and an editor.  This directory holds TLA+ models of the parts of it that
several actors share and of the data structures they rest on, the TLC runs that check
them, and TLAPS proofs of what matters most.  The models are read off the C sources;
every definition that stands for code is listed with its lines in `PROJECT.json`
(`map`), every part of the system in `components`, and everything hard to test in
`hazards`.

    tlc -workers 2 -config MCMailbox.cfg Mailbox      # one run
    tlapm MailboxProofs.tla                           # one proof

## Inventory

| part | state | operations | hard because |
| --- | --- | --- | --- |
| runner inbox (`src/runner/mailbox_v0.c`, `runner_v0.c`) | DBI 1 inbox, 3 leases, 5 retry counts, each keyed by worker and sequence number or message id | put, poll: read, claim, run, ack / requeue / bury | every step is a transaction of its own and any number of runners may poll one inbox; leases lapse by the clock |
| dead letters (`dead_letter_v0.c`) | DBI 6 | move, replay, drain | drain and replay race; replay re-enters the inbox |
| worker thread and tick (`runner_v0.c`) | runner state, stop flag, counters, last sweep | start, stop, tick, shutdown | started and stopped from other threads |
| timers (`timer_v0.c`) | DBI 4, keyed by due time and number | append, drain due | at-least-once drain, order of keys, one bad timer at the head |
| attempts (`attempt_v0.c`, `txctx_v0.c`, `txstack_v0.c`) | staged reads and writes of a handler, a stack of frames | read, put, del, push, commit, abort, validate, apply | optimistic validation against other writers, retries |
| outbox, intents (`outbox_v0.c`, `intent_sink_v0.c`) | DBI 2, publisher's counter | append, drain, publish | published after the commit, restart of the counter |
| dedupe, staged leases (`dedupe_v0.c`, `lease_v0.c`) | rows of DBI 5 and 3 | get, put, sweep, acquire, release | reclaimed by age |
| scheduler (`scheduler_v0.c`) | none | next due, sleep time | boundaries |
| wire codec, WIT bridge (`wire_v0.c`, `wit_wire_bridge_v0.c`) | none | encode, decode | what was written may come back damaged |
| Sapling transactions and pages (`src/sapling/sapling.c`, `txn.c`) | roots, free list threaded through free pages, deferred list, reader table, one writer with nested children | begin, put, del, commit, abort, read | readers without locks over pages that writers reuse |
| Sapling trees and cursors | page bytes, the cursor's path | search, put, delete, split, ranges, bulk load, duplicates, cursor moves | pages that split, empty and vanish under a cursor or a range |
| Sapling TTL, watches, checkpoint | lookup and index rows of expiry times, watch records and changed keys of each transaction | sweep, track, notify, save, restore | rows that must agree, resumable sweeps, callbacks outside the mutex |
| arena (`arena.c`) | numbered slots, a stack of slots given back, linear memory | allocate, free and resize pages and nodes, set a budget | slots used again for blocks of other sizes, refused frees |
| sequences, texts (`seq.c`, `text.c`, `wit_text_runtime.c`) | finger trees, shared and shadowed per transaction; a guest's handles | push, pop, cut, join, clone, edit | deep restructuring, clones, nested aborts, calls that fail halfway |
| literals, tree registry (`text_literal.c`, `text_tree_registry.c`) | a hash table over arena pages, counted references | add, retain, release, expand | allocation that fails midway, threads that count |
| tries (`hamt.c`, `bept.c`), packed JSON (`thatch.c`, `thatch_json.c`) | roots per transaction, regions | put, get, delete, parse, read, path | collapse after a delete, lengths patched afterwards, nested transactions |
| orchestration session (`src/runtime/orchestration_runtime.c`) | phase, counts, threads, mailboxes, three mutexes and one condition variable | launch, stop, join, drop; send, recv, store calls of a worker | worker threads against the control thread |
| WIT mailbox and store runtimes | handle tables, queues, open transactions | open, send, recv, begin, commit, drop | handles outlive their owners |
| builders and plans (`orchestration_runtime.c`, `xpi_registry.c`) | manifest, plan, whether it is still valid | requests, resolve, launch, snapshot | requests refused halfway, plans that outlive their manifest |
| editor (`src/editor`, `src/scene/node_text_editor.c`) | text, selection, history, find bar, tokens and folds per line | type, move, delete, undo, save, search, fold | caches and carets that outlive the text they belong to |
| JSON viewer (`json_viewer_state.c`) | paths of nodes, expanded ones, lines in view | expand, collapse, click, scroll | lines and paths are found by comparing texts |
| host queue (`src/host/host_queue.c`) | a queue bounded by bytes | send, recv, try_recv | blocking on both ends |
| host bindings, WASI, scene, generators, vendored code | - | - | single-threaded or pure I/O |

How they interact: a runner, its producers and a replay share nothing but a Sapling
database, whose single-writer rule makes each of their write transactions atomic and
refuses the others with `ERR_BUSY`.  A session owns a store runtime (guarded by
`store_mutex`) and a mailbox runtime (guarded by `mailbox_mutex`); its phase and
counts are guarded by `state_mutex`; worker threads call them from their guests'
imports, the control thread calls stop, join and drop.

## Modules

| module | what it is |
| --- | --- |
| `Mailbox` | one worker's inbox with leases, retry counts, dead letters; producers, replay, drain, clock and any number of runners |
| `MessageLedger` | what the inbox promises about a message; `Mailbox` implements it |
| `MailboxProofs` | theorems about `Mailbox`, whose inductive invariant is at its end |
| `Pages` | pages, free list, deferral and transactions of a Sapling database |
| `PagesProofs` | theorems about `Pages` |
| `SnapshotStore` | what transactions promise; `Pages` implements it |
| `Session` | a session's control thread and worker threads |
| `SessionProofs` | theorems about `Session` |
| `Attempts` | one caller of the attempt engine, its stack of frames, and everyone else who writes the database |
| `AttemptsProofs` | theorems about `Attempts`, with lemmas on replaying calls |
| `Deliveries` | messages delivered through the WASI shim: deduplication, commit, reply in the outbox, drain |
| `DeliveriesProofs` | theorems about `Deliveries` |
| `Timers` | stored timers with their index in memory and its repairs |
| `Worker` | worker threads over `Timers`: loop, tick, idle sleep, start, stop, restore |
| `WorkerProofs` | theorems about `Worker` and `Timers` |
| `BTree` | the B+ tree, bulk loads, ranges and the cursor as values of one transaction |
| `OrderedMap` | what a database promises to its writer; `BTree` implements it |
| `Ttl` | values with an expiry time, their rows, and sweeps |
| `Watches` | tracked changes, nested commits, notification from several threads |
| `HostQueue` | the blocking queue of the host |
| `StoreRuntime`, `WorkerStore` | the WIT store's handles; the workers of a session over it |
| `StoreProofs` | theorems about both, about `HostQueue`, `Ttl`, `Watches` and `Arena` |
| `Tries` | the two tries as operators |
| `Env` | nested transactions of one environment with both tries |
| `Seqs` | the finger tree as operators, and one sequence under its operations |
| `Texts` | texts, clones and nested transactions |
| `TextProofs` | theorems about `Texts`, `TextRuntime`, `Document`, `LineCache`, `Literals` and `Trees` |
| `TextRuntime` | the texts that a guest holds by handle, over `Texts` |
| `Arena` | the slots of the allocator under Sapling |
| `Literals`, `Trees` | the literal table; shared trees of text and their expansion |
| `Utf8` | the readers and writers of UTF-8 |
| `Thatch` | packed JSON: parser, cursors, paths, regions and transactions |
| `Wire` | frames and rows, written, damaged and read |
| `Plans` | builders, resolution and launch |
| `TextModel` | offsets, lines, words |
| `Editor`, `Document`, `LineCache`, `FindReplace`, `Syntax` | where moves go and what tab does, and the editor node; undo and saving; cached lines, folds and rows; the search bar; the scanners |
| `Viewer` | the JSON viewer's lines, paths, expansion and scrolling |
| `MC*` | small instances for TLC; `MCLibrary` and `MCRuntime` hold several side by side, of which a behaviour chooses one at its start |

### Mailbox

Each write transaction of the code is one action, and so is each read transaction
whose result is used later: `Read` (read_next_inbox_frame), `Claim`, `HandleOk` /
`HandleRetryable` / `HandleFatal` (run_step and the choice of disposition), `Ack`,
`Count`, `Bury`, `Clear`, and the two transactions of a requeue, `ChooseSeq` and
`Place`.  `pc[r]` is where runner r is between them and `job[r]` what its locals hold:
the key, the *copy* of the frame the handler gets, the lease token its claim wrote,
the retry count, the requeue target and the rounds used.  Between any two of them any
other actor may step.  Abstractions:

- A frame is a message; messages sent are distinct.  Frames without an id are
  rejected by the decoder before they are stored.
- `ERR_BUSY` is a free choice of every action that begins a write transaction: another
  writer (of this or another worker) may hold the store at any time.
- The clock is one value that only grows (`CLOCK_REALTIME` set backwards is outside
  the model); a claim uses any reading between its frame read and now, as the code
  samples the clock before it begins the transaction.
- `Coordinated = TRUE` states the callers' obligation: producers and replays number
  their messages above every number in use.  The code nowhere enforces it:
  `runner_v0.h` leaves the numbering to the caller, and a producer with a counter of
  its own overwrites a requeued message.
- `sent`, `handled`, `failed`, `settled`, `drained` are history: no action's guard
  reads them, except that a message is sent once.

### Pages

The database as the page allocator sees it: `mem` is `db->pages` (a page is missing,
a leaf, or a free page holding the next free page's number), `free` the head of the
list, `deferred` the pages waiting for readers, `registered` the reader table as a
count per transaction id, `txns` the stack of open write transactions with their new
and old pages and what an abort restores.  `BeginWrite` includes db_process_deferred,
`Abort` the walk that gives back untracked new pages, `Alloc` the hardening branches
of raw_alloc.  A database is a tree of one leaf, so copy-on-write copies one page per
update instead of a path; the free list, the page sets and the two nested-commit
merges are exactly the code's.  Transactions are used innermost first, as the
interface requires.  At this commit `sap_btree_subsystem_init` returns NULL because
`sap_arena_alloc_node` (arena.c:416) rejects the NULL node number it passes; the model
takes the allocation to succeed.  The same call stands in 28 places of `sapling.c`
(TTL, watches, sweeps, cursors); the models of those take it to succeed too, as
`arena.h` promises.  A read-only child transaction is not begun here (see Findings).

### Session

`main` is where the control thread is, `pc[w]` where a worker is.  A use of
`state_mutex` is one action, since nothing waits while it is held; `mailbox_mutex`
is explicit (`lock`) because a receiver keeps it from its look at an empty mailbox
over its look at the phase until it sleeps.  The broadcasts of stop and of set_error
are actions of their own, as they are made after the mutex is given up.  A guest is
any sequence of sends and receives within its policy, ending well or not.  The
builder is `Plans`, the store policy `WorkerStore`.

### Attempts

`pc` is where `sap_runner_attempt_v0_run` is; `frames` is the stack with the reads,
staged writes and intents of each frame; `snapshot` what the read transaction sees.
The atomic function is any sequence of reads, puts, deletes, intents, pushes, commits
and aborts of frames, ended at any point by success or by any error.  The short write
transaction at the end (validate, apply, commit) is one step, because a second write
transaction is refused while it is open; that refusal is `StoreBusy`, enabled at any
time.  Other writers, other attempts among them, are `OtherWrite`.  `log` is history:
the function's calls and their answers, per frame, merged and dropped with the frames;
replaying it on a store says what the function would have been told there, what rows it
would have left and what it would have sent.  A commit
of a frame that clashes with its parent leaves an arbitrary part of the new reads
merged, as the loop in merge_child does.

### Deliveries

The same engine, seen from the shim: an attempt is two steps (`Invoke`, the guest on
its snapshot, and `Commit`), and what the shim adds is modelled in full: the look-up
of the dedupe row in the snapshot, the staged acceptance, the reply intent, its
publication under the publisher's number (never over an existing row), the drains that
copy a row, hand it out and delete it if unchanged.  Every runner's publisher starts at
number 0, as `sap_wasi_shim_v0_options_default` has it, and starts there again after
`Restart`.  `Exclusive = TRUE` states what the poll loop provides as long as no lease
lapses under a handler and a message is sent to one inbox once: it is not handled
twice at the same time.  The run
`deliveries_twice` drops it.  When a sink refuses a reply after the commit the delivery
fails, is made again, finds the message accepted and answers OK: the reply is lost for
good, and no property says otherwise.

### Worker and Timers

The threads of `Threads` are followed transaction by transaction through
`runner_thread_main`: poll the inbox, find the earliest timer (with each repair of the
index a write transaction of its own), hand it to the handler, delete it, sleep.  Other
runners of the database are `Elsewhere`.  The poll of the inbox is one step with any
outcome, since `Mailbox` has it.  A restore brings back the rows of a checkpoint and
leaves the index in memory as it was: that is what makes the two drift apart.  The
repair limit of 1024 rows is the constant `RepairLimit` (3); due times begin at 0,
because a negative one among them sorts differently in the rows and in the index, and
after a restore the search then ends in `ERR_CORRUPT`.  No db gate is set.

### BTree, Ttl and Watches

A tree is a value: `Pages` says which pages hold it.  `BTree` has the splits by number
of cells, the freeing of emptied pages, bulk loads, range counts and deletions, and the
cursor with its path; each action changes beside the tree an abstract set of entries
that its properties compare with it.  Separators are of one size, overflow values and
running out of memory midway are left out, and after a write that did not go through it
the cursor is placed anew, as the interface requires.  Duplicates are composite keys:
`Group` says which of them the user calls one key.  `Ttl` has the three rows of a key
and the batches of a sweep with its checkpoint; a put that fails changes nothing.
`Watches` says which keys each kind of write records; whether a put splits its leaf is
a choice, and the ghosts `silent` and `stray` mark what the code records wrongly
(Findings).  The ghost `wrong` is set by a call for a row nobody touched, and by a second
call to one watcher for one row of a commit.

### HostQueue, StoreRuntime and WorkerStore

What a thread of the queue does between two acquisitions of the mutex is one action, a
signal wakes any one sleeper, and any sleeper may wake by itself.  The store's handles
are small numbers used again at once and carry no generation; a worker's calls are
checked against its own table, which it changes after `store_mutex` is given up.  Put,
get and delete change no handle and are left out.

### Tries, sequences and texts

`Tries` and `Seqs` translate the C operators on nodes; `Env` and `Texts`
put them (or, in `Texts`, plain sequences: `Seqs` has the shapes) under nested
transactions.  Callers end children first; a nested commit that fails in a later
subsystem is left out.  Keys of the bit trie are not one another with zero words added,
which the code cannot tell apart.  Readers may put into the bit trie and commit, as the
code lets them.  Making, cloning and freeing a text runs a transaction of its own and
is refused while another is open; a text made or detached in an aborted transaction is
not used again.  In `TextRuntime` a call of a guest is a run of steps, any of which may
find no memory, and one call runs at a time; a handle whose edit failed on a shared text
is `broken` and not used again, a text whose free is refused stays (`leaked`).

### Arena

A block is an address and a size; a page taken from the stack of free slots keeps the
block of its slot if that is large enough.  A refused call changes nothing, except where
the code leaves something behind: a slot that the stack has no room for is `lost`, and
a resized node that cannot give its old slot back is gone (`ReallocFails`).  Callers give
back what they hold, as what they took it for, once, by number or by pointer.

### Literals, Trees, Utf8 and Thatch

Any allocation of the literal table may fail; hashes are given by a constant, so that
contents collide.  Trees are counted in the atomic steps of the code, with a `Word` that
wraps; literals in a tree are decoded already or cannot be.  Threads that break the
rules of the counts are marked `strayed`.  `Utf8` gives the same bytes to all six
readers.  In `Thatch` a word, a group of four hex digits, a number and a length are one
symbol of a text or one cell of a region, so a region holds `Capacity` cells; the
parser, `tj_path` and the cursors are translated step by step and compared with a
grammar of JSON that splits texts in every way.  Lines of `tj_parse_jsonl` are given
as lists.

### Wire and Plans

Frames are records of fields and a body; a byte may be damaged or cut off after
writing.  The generated writers of WIT records are taken to keep their fields.  In
`Plans` names are values, the caps of lists are constants, a refused request is a list
too long to keep, one session slot exists, and whether a launch finds everything ready
is a choice.

### The editor

`Editor` has every key of the node; the caret is set against the copy of the text
that is renewed only afterwards (`SetThenSync`).  `FindReplace` puts the selection
anywhere instead of repeating these moves.  In `Document` a failed edit that loses the
document ends the behaviour (`lost`), and a document that is clean only because a
revision number was used again is marked (`astray`).  In `LineCache` a line is its
length, and folds whose header lies above an edit are marked (`stale`).  In `Viewer` lines,
expansions and the selection find one another by the text of a node's path; after a
rebuild that failed lines are not clicked, and scrolling is by lines.  `Syntax`
translates the ten scanners; keyword and type tables are stood in for by a few words
(`Listed`), and the letters are those of the instances.

## Runs

| run | shows | bounds, and why they are enough |
| --- | --- | --- |
| `mailbox` | leases fence, nothing is lost or duplicated, the inductive invariant holds, the inbox implements the ledger | 2 runners, 2 messages, 5 keys, clock 0..2 with a lease of 1: a lapse, a takeover and its own lapse; budget 2 and count limit 3, so both are reached |
| `pages` | reuse, double frees, pinning, snapshots | 2 databases, 2 values, 2 readers, 3 pages, 2 commits, nesting 2: a page is deferred, held by an older reader, reclaimed and reused, and allocation fails |
| `session` | truthful phases, errors surface, cleanup, no missed mail, joins return | 1 sender, 2 receivers on different mailboxes of depth 1, 2 calls per guest: every stage of a receive meets every stage of a send, stop, failure and join |
| `session_stranded` (violated) | a broadcast without the mutex is missed and the join hangs | the same |
| `attempts` | reads are opaque, commits serializable, conflicts real, retries spent, intents in order | 2 rows, 1 value and absence, 2 intents, 3 frames, 3 calls per attempt, 1 retry: a row is read in one frame, written in another, merged into a third and changed by another writer |
| `deliveries` | one application per message, truthful answers, no reply lost from the outbox | 2 runners, 2 drains, 2 messages, 2 outbox numbers, 4 calls of the shim, 1 retry: a message delivered after any failure, both publishers at one number, two drains at one row |
| `deliveries_twice` (violated) | overlapping deliveries of one message both commit | the same, with 3 calls and without `Exclusive` |
| `worker` | timers are kept, the earliest goes first, due timers are served | 1 thread and another worker's timers, 2 due times, 3 numbers, 1 restore, repairs up to 3: the index misses a timer, names one that is gone and has another at its head |
| `split_drop` (violated) | a split by number of cells drops what does not fit | cells of 1 and 2 units in leaves of 3, 4 keys |
| `range_kept` (violated) | a range deletion stops at the first leaf it empties | leaves of 2 cells, 4 keys |
| `library` | the structures of the store agree with what they stand for, see below | below |
| `runtime` | the laws of the editor and of what guests call, see below | below |

A behaviour of `library` or `runtime` is one of a single part; the parts share no
variables that move.  The bounds of `library`:

- `deep`, `wide` (`ImplementsMap`): 5 keys of one size in leaves of 4 units and inner
  pages of 2, on two levels and more; 3 keys of two sizes.
- `queue`, `wraps` (`NobodyStranded`): 2 senders and a receiver, messages of 1 to 3 bytes,
  a limit of 2 bytes; the count of bytes never wraps, or wraps at 4, within two messages.
- `store`, `workers`, `arena` (`OwnersApart`): 2 databases and 3 transactions; 2 workers
  with tables of 2 and the control thread; pages of 2 units and nodes of 1 and 3, 4 slots,
  9 units of linear memory, a free stack that grows from 1, a budget of 2 or none.
- `ttl`, `hashes`, `bits`, `nested` (`RowsAgree`): 2 keys, times to 2, batches of 2; 4
  keys with equal, near and far hashes; 5 bit keys of different lengths; 2 levels of
  transactions.
- `seqs` (`AsSequence`): 13 handles, pushed, popped and cut on both sides, so that trees
  are deep within the deep.
- `texts`, `splits`, `guest` (`ClonesApart`): 2 names on 2 levels; 3 names on one; 2 texts
  of up to 2 of 2 elements, in a table that grows from 1 handle.
- `watched`, `shared` (`WatchersHear`): one thread with 2 keys, two threads with 1 key, 2
  watches, 2 levels, so that parent and child record one row.

The bounds of `runtime`:

- `typed`, `named`, `find` (`EditorLaws`): texts of up to 4 of a letter, a blank and a
  line break; two names of four characters with humps and marks; texts and fields of 3
  and 2.
- `document` (`DocumentLaws`): texts of up to 2 characters, revisions to 4.
- `rows`, `viewer` (`LinesLaws`): 3 lines of up to 3, 2 folds, rows 2 wide; 4 documents of
  up to 7 nodes, with names that look like paths and strings of several lines, room for 6
  lines of which 3 are in view.
- `syntax` (`SyntaxLaws`): 4 characters, of 7 per language, typed after openings that
  are already inside a comment, a string or a regular expression.
- `planned`, `staffed` (`PlansHold`): 4 bundles that need and exclude one another with
  room for 3, a family with more open slots than a plan holds; 4 workers, two of one name
  and one whose startup format has none, and 2 mailboxes.
- `wire` (`WireLaws`): every set of flags, sizes on both sides of a limit of 12, checksums
  around their length of 2, owners on both sides of the sign.
- `interned`, `expanded`, `chained`, `counted`, `utf8`, `packed`, `kept` (`TextsLast`): 5
  contents and a table that grows twice; 2 or 3 trees within one another beyond the
  limits of nesting and visits; 3 threads at one tree with a count that wraps at 16; four
  bytes of 15, on both sides of every limit; JSON of 5 symbols typed after openings that
  nearly fill 20 cells, numbers between -28 and 27, paths of 4 pieces; 3 regions on 2
  levels.

`CHECK_DEADLOCK FALSE` is set where the system may rest: an idle inbox (`mailbox`), a
session that waits for its caller or for mail, or is gone (`session*`), a worker that
was stopped and joined (`worker`), a part whose bound is used up or that has nothing to
do (`library`, `runtime`).  The other runs check for deadlock.

Fairness is assumed in two modules.  In `Session` each thread that can run is scheduled
(`WF` of the control thread's steps and of each worker's).  The caller's next call and
spurious wakeups have no fairness, and guests may end at any time.  Under it
`JoinReturns` says that only a worker asleep on an empty mailbox can keep a join from
returning.  In `Worker` the threads are scheduled and time passes (`WF`); what is
tried again and again succeeds in the end (`SF` of a handler that accepts, of the
transactions that delete a timer or repair the index, of a poll that does not fill its
batch, and of the other workers serving their timers): the code retries each of these
without limit, and a refusal means that somebody else got on.  Under it `TimersServed`
says that no due timer stays for ever while the threads are up; a runner that was
stopped and started without being initialised answers `ERR_BUSY` for ever, in the model
as in the code, and is outside it.  The runner's poll loop
has no liveness property: a refusal with `ERR_BUSY` may repeat for ever and the code
does nothing to prevent it.

## Findings

Four runs are expected to be violated; each shows the code departing from what a
comment or header of the repository says (`findings` in `PROJECT.json`): stop and failure
broadcasts can be missed by a receiver about to sleep; the dedupe row of a message is
read outside the read set, so that overlapping deliveries both commit; a leaf split
drops cells; a range deletion stops early.

Disagreements met while modelling that have no run.  The models do what the code does;
where a property would fail for one of them alone, a ghost marks the state and the
property leaves it out, and the module says so.

- Pages and transactions: a page freed within an aborted transaction may be left on the
  free list without memory.  The end of a read-only child transaction takes away the
  registration of another reader of the same snapshot (sapling.c:1263, 4029-4054), whose
  pages may then be reused; no code of the repository opens such a child.
- Watches: a put that splits a leaf below a parent with room is not recorded
  (sapling.c:2028-2036), so its watchers do not hear of it; a cursor's delete on a page
  already written in the transaction records another row (5508-5526); `dbi_open` can
  make a watched database keep duplicates although `dbi_set_dupsort` refuses; of two
  commits the later may tell first; a callback may run after its watch was removed.
- TTL: a plain put after one with a time is swept at the old time; the checkpoint of a
  sweep moves on although the sweep was undone.
- Tries: bit-trie keys that differ only by zero words at the end replace each other
  (bept.c:81-108); a put into the bit trie is not refused in a read-only transaction.
- Texts: `text_expand_handle_at` loses the whole text when the literal is not UTF-8
  (text.c:1366-1461); registering a text takes no references to the trees it names; a
  reference taken while the last is released revives the entry for a moment.  An edit by
  a guest that fails after its shared text was detached leaves the handle naming freed
  memory (text.c:514-553, wit_text_runtime.c:636-643); a text whose free is refused when
  its handle is dropped stays for good.
- Arena: `sap_arena_realloc_node` that cannot give the old node back loses both, although
  the header has the old one stay (arena.h:146).
- JSON viewer: objects and arrays that hold only scalars cannot be expanded; a name with
  dots or brackets, or an empty one, leads a click elsewhere; a string with a line break
  makes the view fail with the expansion already changed.
- UTF-8: the document, the search and the view accept overlong forms, surrogates and
  values past 10FFFF; the editor writes a surrogate in four bytes.
- Packed JSON: `tj_path` takes `..a` and `.[0]a` although the header calls bad syntax an
  error; the reported position of a bad escape is one past it; a nested commit seals the
  regions it hands to its parent; a committed region can never be freed.
- Leases: an owner from 2^63 on is written as a negative number and never read back.
- Builders: a refused schema wipes the one before it and leaves the plan valid
  (orchestration_runtime.c:3919); a preference stays, empty, when its bundle is refused;
  the default choice of a slot looks at neither needs nor conflicts of the bundle; workers
  of one name all start with the first one's startup data.
- Editor: a document at a revision used again after an undo may be clean without being
  what was saved (editor_document.c:141-147); a save is not atomic and a torn one is
  opened as it is; an edit that fails after the old text was taken away loses the
  document; folds whose header lies above an edit keep their old end; the bar may say
  "2 of 1"; tokens of JavaScript, CSS and markup depend on the text above their line.

## Proofs

All theorems hold for every value of the constants that satisfies the named ASSUMEs of
the modules (bounds are naturals, null values are none of the values they stand beside);
where one needs more, the theorem says so as its own assumption.

| module | theorems | needs |
| --- | --- | --- |
| `MailboxProofs` | `TypeCorrect`, `DispositionsJustified` | |
| | `FencingHolds`, `LeasesHonoured`, `ClaimsExclusive`, `HeadsOnly`, `FramesMatch`, `MessagesKept`, `MessagesSingle`, `InvariantHolds`, `LedgerImplemented` | `Coordinated` |
| `DeliveriesProofs` | `TypeCorrect`, `NoReplyLostHolds` | |
| | `AppliedOnceHolds`, `AnswersBackedHolds` | `Exclusive` |
| `SessionProofs` | `InvariantHolds`, `TypeCorrect`, `PhaseIsTruthful`, `ErrorsSurface`, `NoMailIsMissed` | |
| `AttemptsProofs` | `InvariantHolds`, `TypeCorrect`, `FunctionIsAlone`, `IntentsFollowCommits`, `RetriesAreSpent`, `AttemptsAreSerial`, `ConflictsAreReal` | |
| `PagesProofs` | `InvariantHolds`, `TypeCorrect`, `FreeListSafe`, `ReclaimComplete`, `SnapshotsImplemented` | |
| `WorkerProofs` | `InvariantHolds`, `TypeCorrect`, `TimersStay` | |
| | `OldestFirst` | `OneSign` |
| `StoreProofs` | `TransactionsKeepTheirDatabase` | |
| | `TablesAreOwn` | `Control \notin Workers` |
| | `NobodyIsStranded` | `Framed` |
| | `TtlRowsAgree` | `Timely` |
| | `SlotsAreOwned` | `Sized` |
| | `WatchersAreTold` | `Manned` |
| `TextProofs` | `TransactionsGiveBack`, `TextsApart` | `Countable` |
| | `HandlesLast` | `Handed` |
| | `HistoryHolds`, `LinesStayFresh` | |
| | `LinesAreShown` | `Roomy` |
| | `LiteralsLast` | `Hashable` |
| | `HoldersAreSeen` | `Bounded` |

### The inbox

None of the safety properties is inductive.  The argument: messages leave an inbox
only from its lowest key (a disposition needs the lease, and only the lowest key is
ever leased) and enter it only at `nextSeq` (a requeue's target is one past the last
key, which is `nextSeq` when the inbox is not empty).  So the occupied keys are
contiguous up to `nextSeq` (`Contiguous`), no key is filled twice, and a runner's copy
of its key's frame is right as long as anything is there (`FrameOK`).  A lease token
carries an attempt number that takeovers only increase, so the tokens of two runners
on one key differ (`DistinctTokens`) and at most one equals the row.  `Fencing` is the
conjunction; it is proved first, step by step for each action, and `Accounting` (where
each message is) is proved relative to it.  `IInv` is their conjunction with `TypeOK`
and is also checked by the run `mailbox`.

`LedgerImplemented` is the refinement: `Init` maps to the ledger's, and each action of
the inbox to one step of the ledger or none.  A step that takes a message out of the
inbox has to show that the ledger allows it, which is `Justified`: a runner about to
acknowledge holds a message whose handler has succeeded, and one about to bury holds a
message that has failed as often as the policy allows.  The stored retry count is no
witness of that by itself, as a runner counts in a transaction after the one it failed
in; it lags behind the failures by the runners that have yet to count theirs
(`Counting`, `Budgeted`).

### Deliveries

`NoReplyLostHolds` needs that a drain holds only what it has handed out and that a
message in the outbox or published is never taken out by anything but a drain that had
it (`Replies`).  `AppliedOnce` and `AnswersAreBacked` are not inductive.  The invariant
`Acceptance` says that two busy runners never have the same message, that a message has
a dedupe row exactly when it was applied, that a runner about to commit a guest's run
has a message without a row (`Staged`: nobody else can have committed it since the
snapshot), and that the replies of a message, with the one its runner still has to
publish, are no more than its applications (`Counted`).  The violated run shows that
without `Exclusive` it fails at `Staged`.

### The session

`PhaseTruthful` needs what the counters mean in between: workers are counted and started
in order and one is counted before its thread exists (`Launched`), joins go in order and
only over threads that returned (`Joins`), and unless the session has failed
`running_count` is exact (`Counts`): a worker whose guest cannot be bound returns without
taking itself off the count, but has failed the session first.  `NoMailMissed` needs
that a receiver between its look and its sleep still has an empty mailbox before it,
which is what holding `mailbox_mutex` gives (`Mail`).

### Attempts

The log of a frame and the frame itself are related by `Faithful`: a frame's reads are
the snapshot's; on any rows at all, replaying its calls leaves the frame's writes over
those rows and sends the frame's intents; the calls are told the same on all rows that
agree with the snapshot where it was seen, and are told something else on rows that
disagree with a read the frame recorded.  That is kept by every call (`FramesFaithful`)
and, at the merge of two frames, follows from replaying one log after the other
(`ReplayConcat`).  From it `FunctionIsAlone`, `AttemptsAreSerial` and
`ConflictsAreReal` are read off at the commit: validation succeeds exactly when the rows
read are still current.  `SendPhases` says what has been sent and what is left in each
phase.  One by-product: a merge never meets two reads of one row that differ, since all
of them are the snapshot's; the branch for it in merge_child is not reached through this
engine.

Replaying is a recursive function over the log.  The library's induction theorems
cannot be instantiated by the installed provers, so the module proves induction over
sets of naturals from the minimum of a well-founded relation (`Induction`,
`SequenceInduction`) and uses that.

### Pages

`FreeListSound` is about what a walk of the free list meets, and the list lives in the
pages themselves: it stays free of pages in use only if every push writes a page nobody
looks at and the list never runs into itself.  `FreeOK` says so with a certificate: a
function that gives each page of the list the pages after it, never itself among them
(`Chain`), all of them pages nobody has (`Taken`).  A push extends the certificate and an
allocation cuts its head off; the list may end in a page without memory, whose successor
is unknown.  The walk itself is a recursive function over at most `MaxPages` steps, and
`WalkListed` shows by induction over sets of naturals that it stays in the certificate.

The rest of the invariant says whose a page is.  `CommittedOK`: committed pages and
deferred ones are apart, and a page is deferred once.  `TxnOK`: a transaction's tree is
that of its parent (or the committed one) without its old pages and with new ones, and
none of these waits for a reader.  `PairOK`: the new pages of a child are unknown to all
its ancestors, which is what lets an abort give them back.  `ReaderOK`: each page of a
reader's snapshot is still committed or was deferred at or after the reader's start.
`ReadersOK` ties the reader table to the readers that are open: each txnid is registered
once for each of them (`Registered`), so that a writer reclaims a page only when no open
reader is covered by it alone.  The hardest steps are the commit of a child, whose merge
takes the pages it replaced off its parent's new ones, and the abort, which walks the
list to give back pages that were taken and freed again.

`SnapshotsImplemented` follows action by action: an action writes only pages that were
free or new in the innermost transaction (`Mine`), so what the committed tree, the outer
transactions and the readers see stays the same.  Where the allocator finds no page, the
step maps to a stutter.

### Workers and timers

`TimerKept` needs that a number is used for one timer only (`Numbered`) and that a
thread about to delete one has had it accepted (`Chosen`).  `OldestFirst` follows one
search: whatever the index names first, a round either hands over the first row as it is
stored or repairs the index.  It assumes due times of one sign (`OneSign`): rows are
sorted by their raw bytes and the index by value, so that a negative time is last in one
and first in the other (a hazard of its own; the run's due times begin at 0).

### Host queue, store and TTL

`NobodyIsStranded` assumes that the receiver is no sender and that no frame is empty
(`Framed`; croft_msg_validate refuses frames shorter than their header, host_queue.c:94).
`TransactionsKeepTheirDatabase` is inductive with the types; `TablesAreOwn` needs in
addition what a call in progress knows (`Knows`): a number it got from the store is its
own until it has entered it in its table, and one it has settled is out of its table
before another caller can get it from there.  `TtlRowsAgree` is inductive once the
values and rows are known to be functions; it needs that the clock's end is a number
(`Timely`), as the marks for other values lie beyond it.

### Watches

A watcher is told of what a transaction recorded, by calls that are made later, while
others write, of watches that may have been taken back by then.  `WatchInv` follows a row
all the way.  In an open transaction (`FrameGood`) what was touched and not silent is
recorded if it is watched, and what is recorded was touched or misnamed; all that lie in
one another record or none does, and they do exactly if there are watches, which nobody
sets or takes back while someone writes.  A merge records the child's rows one by one:
`MergeNotes` says by induction that the fold leaves out none, adds none and repeats none.
From the commit on (`TellGood`) what is owed is among the calls still to come; `CallsAre`
says that the flattened sequence has a call for each watch and row that fit, and no other,
and none twice (`Apart`), as no watch is set twice and no row recorded twice.
`Manned` says that no thread has the number that stands for none.  `SelectSeq` has no
definition the provers can expand, so `Watches` filters by flattening.

### The allocator

`SlotsAreOwned` rests on three things.  `Table`: the blocks of the slots lie inside what
the backing has given and no two share a byte.  `Owners`: what callers hold is what the
table says of its slot, and no slot is held twice.  `Shared`: each slot below `next` is
held, on the free stack, or lost to a stack with no room, and in one of these places
only; so a slot taken off the stack is nobody's.  Memory from `malloc` may come at any
address that is not in use; with more places than slots (`MaxNext + 1`) one is always left,
by counting.  In linear memory the end only grows, and blocks begin at multiples of
`Align`.  `Sized` says that sizes are positive and bounded, that the table may grow at all,
and that a page is a multiple of the widest alignment: the code neither checks nor
rounds it, and every configuration of the repository uses powers of two.

### Texts

What an abort gives back is not in the state: it is spread over the old roots that the
open levels keep, and a commit moves them.  `GivesBack` says where to look.  A share
holds, once the levels from n on are aborted, its oldest old root among those levels, or
what it holds now if they kept none (`Restores`); for each open level n and each text
whose share is older than n, that is what the text held when n began.  A write leaves
the innermost level's root where there is one, and a commit changes no oldest root that
an outer level sees (`Merged`).  A text that writes has its share to itself
by then (`Detached`), so that what other texts should get back is as before.
`Referred` gives `SoleUser`, that a share with one reference has one text, and
`FreeIdIs`, that there is an id for one share more: shares have a text each.  Finitely
many texts (`Countable`) is all that is assumed.  The actions that detach, write and
make several shares are composed of lemmas for one such step each (`LetGo`, `Given`,
`DetachedIs`, `WrittenIs`).

`HandlesLast` stands on these lemmas.  A call is several steps in a transaction of its
own, each of which may fail, so `GuestInv` has a case for a guest at rest, for a call
that makes a text (`OpenGood`) and for an edit (`EditGood`).  At rest no level is open,
each unbroken handle's text holds what was said of it, and every share is older than any
transaction.  At work the one open level remembers what every text held when the call
began, and only the call's text was touched since (`Spared`): that is what an abort goes
back to.  An edit removes and inserts one element after another; `Ahead` says that what
is left to do makes of what the text holds now what the edit is for (`IsSplice`).  An
abort loses only shares born in its transaction, and those are detached from shares with
others, which is why only such an edit can break a handle.  Nothing leaks, because each
text is in the table, of the call in progress, or among those whose free was refused
(`Covered`).  `Handed` says that texts are finitely many and have addresses, and that the
table's first capacity is positive.

### The document

`HistoryInOrder` is inductive once it is said of the two stacks and the document apart
(`Ordered`): an edit drops what could be redone and is numbered past the document, and
undo and redo move the document from one stack to the other.  The number of an edit
after an undo may have been used before, but then by a revision that was just dropped;
where the clean one is among these, `astray` marks it, and otherwise `Matching` is kept.
`OneRun` follows from `Joined`: the run's characters were put one stretch into the last
snapshot, which every insertion that continues the run extends by its own at its end
(`Grew`).

### Remembered lines

`LinesStayFresh` needs that what is kept over an edit is not touched by it.  Lines above
the first changed one are the same in both texts (`AboveTheSame`); the tokens of a line
depend on nothing else than the lines up to it, and its fold on those up to the one that
ends its region (`Reach`).  An entry whose reach goes past the first change is marked
`stale` by the model, as the code keeps such folds (Findings), and the theorem says
nothing of its fold.

`LinesAreShown` adds where the regions end.  A header's region ends at the last line or
before one indented no more (`StopIs`), which also ends each region that begins in it:
so `FoldsNest`.  Then the line after a fold is hidden only if its header is (`AfterIs`),
and from the end of the text upwards the rows from each line that is not hidden are those
of the lines that are not (`RowsShow`); that `RowsFrom`, a recursive function, is what its
definition says is shown in the same order (`RowsFromIs`).  `RowsNeeded` is the
arithmetic of cutting a line into rows.  What was found for a line begins at it, old or
not (`Headed`), so an old fold is known by its header.  `Roomy` says that there may be a
line and that a row takes a character at least, as it does in the code however narrow it
is (node_text_editor.c:505-507).

### Literals

`LiteralsLast` rests on two things.  Bytes are only ever put behind those that lie in a
page, or in a page of their own (`CopiedKeeps`), so what an entry stands for stays where
it lies; and page capacity bounds every page that is still filled.  The hash table is
right because each id sits on the way of its content's hash with no empty slot before it
(`Seated`), no id sits twice, and there are as many slots as ids at least (`Table`,
`Looked`): then looking stops at the id and not before (`ProbeIs`).  A way comes by every
slot (`WayIs`), and where there are more slots than ids one is empty (`EmptySlot`), so a
new entry finds a seat and takes nobody's (`SeatKeeps`); by induction over the old slots,
growing seats every entry anew (`GrownIs`).  That the table is not full when an entry
comes is kept by `Full`, which asks for growth early enough from any initial size
(`RoomIs`).  `Hashable` says that contents are sequences of bytes with a hash each, that
the first table has a bucket, and that a page's size is a natural number.

### Shared trees

The count of a tree is a number that wraps, and calls move it before they know whether
they may: one that finds none adds and takes back, or takes and gives back.  The invariant
(`Shares`) says what it stands for: it is congruent to the sum, over the threads, of the
references each has and of what the call it is in has put there for a moment (`Weights`,
`Stands`).  While a call is going to be undone, or the tree is free or about to be, nobody
has a reference (`Counted`).  So a count of none is that of a tree nobody has
(`NobodyHas`), even when it came to none by wrapping; and while no call is undone, the
count is the sum itself (`CountKnown`), for `Bounded` says that the references are fewer
than where the count wraps: there are finitely many threads and each has up to `MaxHeld`.
The code does not check that; its count has 32 bits.  Each step changes one thread's part
(`TotalMoves`, from `SumsDiffer` on sums over finite sets) and the count of one tree by as
much.

### Only model-checked

- Liveness (`JoinReturns`, `TimersServed`), with anything that depends on ENABLED: out of
  the prover's reach.
- Both tries and the sequences in `library`: they compute with recursive operators.
- In `runtime`, all but `document`, `rows`, `interned` and the counts of trees
  (`HoldersSee`): what is left states what recursion computes, as what a tree expands to
  (`ExpandsWhole`), or translates pure algorithms whose laws TLC checks for bounded
  inputs.

## Plan

All runs and the properties meant for this project are in it.  What could be added:

1. Staged leases, the sweep of dedupe rows, overflow values and memory that runs out in
   the B+ tree, if the runs have room.

`BTree`, `Seqs`, `Tries`, `Thatch` and `Syntax` use recursion over data and stay with
TLC, as does what `Trees` expand to.

## Not modelled

- The encoding of pages and cells: `Pages` sees a tree as a set of pages, `BTree` as a
  value, `Thatch` counts cells.  Overflow values and the merge of two databases.
- Checkpoint and restore, except for what a restore does to the timers' index.
- The arena's counters, scratch budgets and fault injection; failed allocations, except
  where the code's path after them is shared with another failure or leaves something
  half done (`Literals`, `Pages`): they are everywhere and each returns at once.
- Generated schemas and WIT writers: conversions without state.
- Staged leases and the sweep of dedupe rows: a row swept while its message may still be
  delivered again lets it be applied again; the age is the caller's to choose.
- Weak memory: the variables that the modelled threads share are guarded by a mutex,
  are atomics, or live in the database.
- Reads of aborted nested frames are validated by nobody in the code, and
  `CommittedIsSerial` is about the frames that survive.
- Host bindings, WASI files and clocks, the drawing and menus of the editor, scene,
  generators, vendored code: I/O or a single thread.

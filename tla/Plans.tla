------------------------------- MODULE Plans -------------------------------
(* The builders of the orchestration runtime (orchestration_runtime.c): a   *)
(* manifest is put together call by call, resolved into a plan against the  *)
(* compiled registry (xpi_registry.c), and launched.  The plan is kept and  *)
(* used by later calls, so every edit has to give it up.  Names are plain   *)
(* values; names too long to copy and lists too long to keep stand for all  *)
(* that a request is refused for.                                           *)
EXTENDS Naturals, Sequences, FiniteSets, SequencesExt

CONSTANTS Families, Slots, Bundles, Traits, \* the registry and its machine
          Creates,    \* what a builder is created with: family, applicability
          Preferences, Modules, Schemas, Mailboxes, Workers, \* what guests add
          MaxBuilders, MaxBundles, MaxPrefs, MaxPrefBundles,
          MaxModules, MaxMailboxes, MaxWorkers, MaxTables

VARIABLES builders, \* the builder slots: a builder or Free; torn: a schema was
                    \* refused after it had been written over
          session   \* the one session slot: Free, Taken, or, just after a
                    \* launch, what it was launched with

planVars == <<builders, session>>

Free == <<>>
NoPlan == <<>>
Taken == <<"taken">>

\* A session has its own copy of all it was launched with, which no call on a
\* builder changes: it is looked at once and not kept.
Kept == session' = IF session = Free THEN Free ELSE Taken

----------------------------------------------------------------------------
\* A list of distinct names of at most cap; a fallible result is the list or
\* Refused.
Refused == "refused"

AddUnique(list, name, cap) ==
  CASE name = "" -> Refused
    [] Contains(list, name) -> list
    [] Len(list) >= cap -> Refused
    [] OTHER -> Append(list, name)

AddEach(list, names, cap) ==
  FoldLeft(LAMBDA l, n : IF l = Refused THEN l ELSE AddUnique(l, n, cap), list, names)

\* The first record of that name, a sequence of one, or none.
Named(records, name) ==
  LET i == SelectInSeq(records, LAMBDA r : r.name = name)
  IN  IF i = 0 THEN <<>> ELSE <<records[i]>>

----------------------------------------------------------------------------
(* Resolution.  The plan is filled in place, so a resolution that fails      *)
(* leaves what it had got to.                                                *)

\* croft_xpi_applicability_matches
Applies(required) == required \subseteq Traits

\* croft_xpi_applicability_spec_matches
ManifestApplies(app) ==
  \/ app.kind = "any"
  \/ /\ Traits # {}
     /\ CASE app.kind = "neutral" -> TRUE
          [] app.kind = "machine" -> Applies({"current-machine"} \cup app.traits)
          [] app.kind = "trait" -> Applies(app.traits)

BarePlan(m) ==
  [family |-> m.family, modules |-> m.modules, schema |-> m.schema,
   mailboxes |-> m.mailboxes,
   workers |-> [i \in DOMAIN m.workers |->
                  [f \in {"name", "module", "replicas", "tables", "inboxes", "outboxes"} |->
                     m.workers[i][f]]],
   bundles |-> <<>>, slots |-> <<>>, provides |-> <<>>, diagnosed |-> FALSE]

Step(err, plan) == [err |-> err, plan |-> plan]

FamilyFault(m) ==
  CASE ~ManifestApplies(m.applicability) -> "applicability-mismatch"
    [] m.family \notin DOMAIN Families -> "unknown-family"
    [] ~Applies(Families[m.family].traits) -> "family-applicability-mismatch"
    [] OTHER -> "none"

\* An overflow leaves what fitted, in a plan that nobody uses.
Demanded(m, plan) ==
  LET all == AddEach(<<>>, Families[m.family].requires \o m.required, MaxBundles)
  IN  IF all = Refused THEN Step("bundle-requirements-overflow", plan)
      ELSE Step("none", [plan EXCEPT !.bundles = all])

\* A preferred bundle wins when it is one of the slot's; otherwise the first
\* of the slot's own that this machine can use.
SlotBundle(plan, slot, prefs) ==
  LET wanted(b) == /\ Contains(Slots[slot], b)
                   /\ Contains(plan.bundles, b) \/ b \in DOMAIN Bundles
      usable(b) == b \in DOMAIN Bundles /\ Applies(Bundles[b].traits)
      listed == IF prefs = <<>> THEN <<>> ELSE SelectSeq(prefs[1].bundles, wanted)
      own == SelectSeq(Slots[slot], usable)
  IN  IF listed # <<>> THEN listed[1] ELSE IF own # <<>> THEN own[1] ELSE Refused

BindSlot(plan, slot, b) ==
  LET all == AddUnique(plan.bundles, b, MaxBundles)
      bound == [plan EXCEPT !.slots = Append(@, [slot |-> slot, bundle |-> b])]
  IN  CASE b = Refused -> Step("unresolved-slot", plan)
        [] all = Refused -> Step("unresolved-slot", bound)
        [] OTHER -> Step("none", [bound EXCEPT !.bundles = all])

\* The open slots of the family, in its order; a plan holds as many as a
\* manifest holds preferences.
FillSlot(m, r, slot) ==
  IF r.err # "none" THEN r
  ELSE IF slot = "" \/ Len(r.plan.slots) >= MaxPrefs THEN Step("range", r.plan)
  ELSE IF slot \notin DOMAIN Slots THEN Step("unknown-slot", r.plan)
  ELSE BindSlot(r.plan, slot, SlotBundle(r.plan, slot, Named(m.preferred, slot)))

\* croft_orch_plan_has_conflict
HasConflict(plan, b) == \E other \in Bundles[b].conflicts : Contains(plan.bundles, other)

\* One bundle of the list, which grows by what it requires and gives what it
\* provides.
TakeBundle(plan, b) ==
  CASE b \notin DOMAIN Bundles -> Step("unknown-bundle", plan)
    [] ~Applies(Bundles[b].traits) -> Step("bundle-applicability-mismatch", plan)
    [] HasConflict(plan, b) -> Step("bundle-conflict", plan)
    [] AddEach(plan.bundles, Bundles[b].requires, MaxBundles) = Refused ->
         Step("bundle-requirements-overflow", plan)
    [] AddEach(plan.provides, Bundles[b].provides, MaxBundles) = Refused ->
         Step("bundle-field-overflow", plan)
    [] OTHER ->
         Step("none", [plan EXCEPT !.bundles = AddEach(@, Bundles[b].requires, MaxBundles),
                                   !.provides = AddEach(@, Bundles[b].provides, MaxBundles)])

RECURSIVE Close(_, _)
Close(r, i) ==
  IF r.err # "none" \/ i > Len(r.plan.bundles) THEN r
  ELSE Close(TakeBundle(r.plan, r.plan.bundles[i]), i + 1)

\* What a worker starts with, in a format without a name.
Formatless == 0

\* What the checks of one worker find wrong first.
WorkerFault(m, w) ==
  LET box(n) == Named(m.mailboxes, n)
  IN  CASE w.name = "" \/ w.module = "" \/ w.replicas = 0 -> "invalid-worker"
        [] Named(m.modules, w.module) = <<>> -> "unknown-worker-module"
        [] \E t \in ToSet(w.tables) : Named(m.schema.tables, t) = <<>> -> "unknown-worker-table"
        [] \E b \in ToSet(w.inboxes) :
             box(b) = <<>> \/ w.name \notin box(b)[1].consumers -> "invalid-inbox-binding"
        [] \E b \in ToSet(w.outboxes) :
             box(b) = <<>> \/ w.name \notin box(b)[1].producers -> "invalid-outbox-binding"
        [] w.startup = Formatless -> "invalid-startup-format"
        [] OTHER -> "none"

\* The payload and the workers, in the manifest's order.
Staff(m, plan) ==
  LET faults == SelectSeq([i \in DOMAIN m.workers |-> WorkerFault(m, m.workers[i])],
                          LAMBDA e : e # "none")
  IN  CASE Len(m.modules) > 1 -> Step("multiple-payload-modules-unsupported", plan)
        [] m.workers # <<>> /\ m.modules = <<>> -> Step("missing-payload-module", plan)
        [] faults # <<>> -> Step(faults[1], plan)
        [] OTHER -> Step("none", [plan EXCEPT !.diagnosed = TRUE])

Finished(m, r) == IF r.err # "none" THEN r ELSE Staff(m, r.plan)

Resolve(m) ==
  IF FamilyFault(m) # "none" THEN Step(FamilyFault(m), BarePlan(m))
  ELSE LET filled == FoldLeft(LAMBDA r, s : FillSlot(m, r, s), Demanded(m, BarePlan(m)),
                              Families[m.family].slots)
       IN  Finished(m, Close(filled, 1))

----------------------------------------------------------------------------
(* Calls on a builder: its manifest, the plan and whether the plan is that   *)
(* of the manifest, and what it last rendered for the guest.                 *)

NoSchema == [defined |-> FALSE, tables |-> <<>>]

\* A manifest leaves out nothing that it was told; a plan is shown once it is
\* that of the manifest, and says of a worker all but what it starts with.
ShownManifest(b) == b.manifest
ShownPlan(b) == IF b.valid THEN b.plan ELSE NoPlan

Rendered(b) == [b EXCEPT !.shown = [manifest |-> ShownManifest(b), plan |-> ShownPlan(b)]]

FaultyInvalidated(b) == [b EXCEPT !.shown.plan = NoPlan] \* Seeded fault: the plan is kept

\* croft_orch_builder_invalidate_resolved; nothing is torn that is made anew.
Invalidated(b) == [b EXCEPT !.valid = FALSE, !.plan = NoPlan, !.torn = FALSE]

Builder(h) == builders[h]
Live(h) == builders[h] # Free

\* croft_orch_allocate_builder: the first free slot.
Vacant(h) == ~Live(h) /\ \A g \in 1 .. h - 1 : Live(g)

Edit(h, manifest) ==
  /\ builders' = [builders EXCEPT ![h] = Rendered(Invalidated([@ EXCEPT !.manifest = manifest]))]
  /\ Kept

Create(h, c) ==
  LET m == [family |-> c.family, applicability |-> c.applicability, required |-> <<>>,
            preferred |-> <<>>, modules |-> <<>>, schema |-> NoSchema,
            mailboxes |-> <<>>, workers |-> <<>>]
      b == [manifest |-> m, plan |-> NoPlan, valid |-> FALSE,
            shown |-> [manifest |-> m, plan |-> NoPlan], torn |-> FALSE]
  IN  /\ Vacant(h)
      /\ builders' = [builders EXCEPT ![h] = b]
      /\ Kept

Drop(h) ==
  /\ Live(h)
  /\ builders' = [builders EXCEPT ![h] = Free]
  /\ Kept

RequireBundle(h, name) ==
  LET all == AddUnique(Builder(h).manifest.required, name, MaxBundles)
  IN  /\ Live(h) /\ all # Refused
      /\ Edit(h, [Builder(h).manifest EXCEPT !.required = all])

\* A preference for a slot not yet named is put down before its bundle is
\* looked at, and stays, empty, when that one is refused.
PreferSlot(h, slot, bundle) ==
  LET m == Builder(h).manifest
      i == SelectInSeq(m.preferred, LAMBDA p : p.name = slot)
      known == IF i # 0 THEN m.preferred
               ELSE Append(m.preferred, [name |-> slot, bundles |-> <<>>])
      at == IF i # 0 THEN i ELSE Len(known)
      all == AddUnique(known[at].bundles, bundle, MaxPrefBundles)
  IN  /\ Live(h) /\ (i = 0 => Len(m.preferred) < MaxPrefs)
      /\ IF all = Refused
         THEN builders' = [builders EXCEPT ![h].manifest.preferred = known] /\ Kept
         ELSE Edit(h, [m EXCEPT !.preferred = [known EXCEPT ![at].bundles = all]])

AddModule(h, module) ==
  LET m == Builder(h).manifest
  IN  /\ Live(h) /\ Len(m.modules) < MaxModules
      /\ Edit(h, [m EXCEPT !.modules = Append(@, module)])

\* Records are read from the request up to what the manifest has room for.
SchemaRead(s) == Len(s.tables) <= MaxTables
MailboxRead(m) == Cardinality(m.producers) <= MaxWorkers /\ Cardinality(m.consumers) <= MaxWorkers
WorkerRead(w) == /\ Len(w.tables) <= MaxTables
                 /\ Len(w.inboxes) <= MaxMailboxes /\ Len(w.outboxes) <= MaxMailboxes

\* The schema is read into the manifest itself: one that cannot be read takes
\* the old one with it, and the plan of the old one stays.
SetDbSchema(h, schema) ==
  /\ Live(h)
  /\ IF SchemaRead(schema) THEN Edit(h, [Builder(h).manifest EXCEPT !.schema = schema])
     ELSE /\ builders' = [builders EXCEPT
                            ![h].manifest.schema = [defined |-> TRUE, tables |-> <<>>],
                            ![h].torn = TRUE]
          /\ Kept

AddMailbox(h, mailbox) ==
  LET m == Builder(h).manifest
  IN  /\ Live(h) /\ Len(m.mailboxes) < MaxMailboxes /\ MailboxRead(mailbox)
      /\ Edit(h, [m EXCEPT !.mailboxes = Append(@, mailbox)])

AddWorker(h, worker) ==
  LET m == Builder(h).manifest
  IN  /\ Live(h) /\ Len(m.workers) < MaxWorkers /\ WorkerRead(worker)
      /\ Edit(h, [m EXCEPT !.workers = Append(@, worker)])

Snapshot(h) ==
  /\ Live(h)
  /\ builders' = [builders EXCEPT ![h] = Rendered(@)]
  /\ Kept

\* The plan is overwritten whether or not the resolution ends well.
Replanned(b, r) ==
  IF r.err # "none" THEN [b EXCEPT !.plan = r.plan]
  ELSE Rendered([b EXCEPT !.plan = r.plan, !.valid = TRUE])

ResolveCall(h) ==
  /\ Live(h)
  /\ builders' = [builders EXCEPT ![h] = Replanned(@, Resolve(@.manifest))]
  /\ Kept

----------------------------------------------------------------------------
(* Launching: the plan says who runs, the manifest what they start with.     *)

\* The worker of the manifest that has the name of the plan's comes first.
Startup(m, w) ==
  [tables |-> [i \in DOMAIN w.tables |-> Named(m.schema.tables, w.tables[i])],
   inboxes |-> [i \in DOMAIN w.inboxes |-> Named(m.mailboxes, w.inboxes[i])],
   outboxes |-> [i \in DOMAIN w.outboxes |-> Named(m.mailboxes, w.outboxes[i])],
   startup |-> Named(m.workers, w.name)[1].startup]

Launchable(m, plan) ==
  \A i \in DOMAIN plan.workers :
     LET w == plan.workers[i]
     IN  /\ Named(m.workers, w.name) # <<>>
         /\ \A t \in ToSet(w.tables) : Named(m.schema.tables, t) # <<>>
         /\ \A n \in ToSet(w.inboxes \o w.outboxes) : Named(m.mailboxes, n) # <<>>

\* ready: whether file, store and threads were to be had.
Started(b, r, ready) ==
  IF r.err = "none" /\ session = Free /\ ready /\ Launchable(b.manifest, r.plan)
  THEN [manifest |-> b.manifest, plan |-> r.plan, torn |-> b.torn,
        startups |-> [i \in DOMAIN r.plan.workers |->
                        Startup(b.manifest, r.plan.workers[i])]]
  ELSE IF session = Free THEN Free ELSE Taken

LaunchWith(h, r, ready) ==
  /\ builders' = [builders EXCEPT ![h].plan = r.plan, ![h].valid = r.err = "none"]
  /\ session' = Started(Builder(h), r, ready)

\* The plan at hand, or one made now.
Launch(h, ready) ==
  /\ Live(h)
  /\ LaunchWith(h, IF Builder(h).valid THEN Step("none", Builder(h).plan)
                   ELSE Resolve(Builder(h).manifest), ready)

DropSession == session # Free /\ session' = Free /\ UNCHANGED builders

----------------------------------------------------------------------------
Init == builders = [h \in 1 .. MaxBuilders |-> Free] /\ session = Free

BuilderCall(h) ==
  \/ \E c \in Creates : Create(h, c)
  \/ Drop(h)
  \/ \E b \in DOMAIN Bundles \cup {"ghost"} : RequireBundle(h, b)
  \/ \E p \in Preferences : PreferSlot(h, p.slot, p.bundle)
  \/ \E m \in Modules : AddModule(h, m)
  \/ \E s \in Schemas \cup {NoSchema} : SetDbSchema(h, s)
  \/ \E m \in Mailboxes : AddMailbox(h, m)
  \/ \E w \in Workers : AddWorker(h, w)
  \/ Snapshot(h)
  \/ ResolveCall(h)
  \/ \E ready \in BOOLEAN : Launch(h, ready)

Next == (\E h \in 1 .. MaxBuilders : BuilderCall(h)) \/ DropSession

Spec == Init /\ [][Next]_planVars

----------------------------------------------------------------------------
(* What a plan promises.                                                     *)

\* All that is asked for and all that this requires in turn.
Closure(asked) ==
  CHOOSE all \in {s \in SUBSET DOMAIN Bundles :
                    asked \subseteq s /\ \A b \in s : ToSet(Bundles[b].requires) \subseteq s} :
    \A other \in SUBSET DOMAIN Bundles :
       (asked \subseteq other /\ \A b \in other : ToSet(Bundles[b].requires) \subseteq other)
         => all \subseteq other

\* The bundles are those asked for with what they require, each once; they can
\* be used together on this machine, and give what they provide.
BundlesFit(m, plan) ==
  LET chosen == ToSet(plan.bundles)
      asked == ToSet(Families[m.family].requires) \cup ToSet(m.required)
                 \cup {s.bundle : s \in ToSet(plan.slots)}
  IN  /\ Cardinality(chosen) = Len(plan.bundles)
      /\ asked \subseteq DOMAIN Bundles /\ chosen = Closure(asked)
      /\ \A b, c \in chosen : c \notin Bundles[b].conflicts
      /\ \A b \in chosen : Applies(Bundles[b].traits)
      /\ ToSet(plan.provides) = UNION {ToSet(Bundles[b].provides) : b \in chosen}

\* Every open slot has one bundle, and the guest's first choice when that can
\* be had.
SlotsFilled(m, plan) ==
  /\ [i \in DOMAIN plan.slots |-> plan.slots[i].slot] = Families[m.family].slots
  /\ \A i \in DOMAIN plan.slots :
       LET s == plan.slots[i].slot
           wishes == UNION {ToSet(p.bundles) : p \in {q \in ToSet(m.preferred) : q.name = s}}
       IN  /\ Contains(Slots[s], plan.slots[i].bundle)
           /\ wishes \cap ToSet(Slots[s]) \cap DOMAIN Bundles # {}
                => plan.slots[i].bundle \in wishes

\* Whoever runs finds its module, its tables and its mailboxes, and starts
\* with its own data when no other worker has its name.
WorkersServed(s) ==
  \A i \in DOMAIN s.plan.workers :
     LET w == s.plan.workers[i]
         given == s.startups[i]
     IN  /\ \A j \in DOMAIN w.tables : given.tables[j][1].name = w.tables[j]
         /\ \A j \in DOMAIN w.inboxes : w.name \in given.inboxes[j][1].consumers
         /\ \A j \in DOMAIN w.outboxes : w.name \in given.outboxes[j][1].producers
         /\ Len(s.manifest.modules) = 1 /\ s.manifest.modules[1].name = w.module
         /\ (\A j \in DOMAIN s.plan.workers : s.plan.workers[j].name = w.name => i = j)
              => given.startup = s.manifest.workers[i].startup

\* A plan in use is that of its manifest, however the two were come by, unless
\* a refused call has torn the manifest (orchestration_runtime.c:3919).
PlanIsOf(m, plan) == BundlesFit(m, plan) /\ SlotsFilled(m, plan) /\ plan.diagnosed
                     /\ plan.schema = m.schema /\ plan.mailboxes = m.mailboxes
                     /\ Len(plan.workers) = Len(m.workers)

PlansHold ==
  /\ \A h \in 1 .. MaxBuilders :
       Live(h) => LET b == builders[h]
                  IN  /\ b.valid /\ ~b.torn => PlanIsOf(b.manifest, b.plan)
                      /\ b.shown.plan # NoPlan => b.valid
  /\ session \notin {Free, Taken} =>
       WorkersServed(session) /\ (~session.torn => PlanIsOf(session.manifest, session.plan))

============================================================================

---------------------------- MODULE ActionBody -----------------------------
(***************************************************************************)
(* What building one action does to the workspace: the preflight, the body  *)
(* of Engine::process after its upstream check, Engine::execute (exec       *)
(* lib.rs), outputs.rs, discovered.rs and the per-build digests of          *)
(* HashCache (core hashcache.rs), over a whole history of builds between    *)
(* which sources are edited, outputs are damaged and processes die.         *)
(*                                                                          *)
(* A digest is the content it stands for.  A key is the map of inputs to    *)
(* digests: argv, environment and toolchain do not change here.  The        *)
(* journal is the map Journal::load returns; how its file survives is the   *)
(* subject of module Journal, who may run when that of module Scheduler.    *)
(***************************************************************************)
EXTENDS Integers, FiniteSets, Functions

CONSTANTS
  Sources,        \* source files, declared or discovered
  Actions,        \* the closure being built
  Declared,       \* Declared[a]: the declared inputs of a, sources or outputs
  OrderOnly,      \* OrderOnly[a]: outputs a waits for and does not declare it reads
  Outputs,        \* Outputs[a]: the files a declares it writes
  Versions,       \* contents of a source
  Includes(_, _), \* external: further files a command reads, given a source it read
  Makes(_, _, _), \* external: what a command writes, given what it read
  Checkouts,      \* contents of the sources before the first build
  MaxEdits, MaxCrashes, MaxLosses, \* bounds on the history
  Missing,        \* digest of a file that is not there
  Garbage,        \* content nobody asked for: half-written or damaged
  None

Generated == UNION {Outputs[a] : a \in Actions}
Files == Sources \cup Generated
WaitsFor(a) == Declared[a] \cup OrderOnly[a]

\* Mutant: order-only inputs are not waited for.
MutProducersOf(a) == {p \in Actions : Outputs[p] \cap Declared[a] # {}}

ProducersOf(a) == {p \in Actions : Outputs[p] \cap WaitsFor(a) # {}}

ASSUME GraphAssumption ==
  /\ IsFiniteSet(Sources) /\ IsFiniteSet(Actions)
  /\ Declared \in [Actions -> SUBSET Files]
  /\ OrderOnly \in [Actions -> SUBSET Generated]
  /\ \A a, b \in Actions : a # b => Outputs[a] \cap Outputs[b] = {}
  /\ Sources \cap Generated = {}

\* toposort_targets rejects cycles; action_closure is a dependency order.
ASSUME AcyclicAssumption ==
  \E rank \in [Actions -> 1 .. Cardinality(Actions)] :
    \A a \in Actions : \A p \in ProducersOf(a) : rank[p] < rank[a]

\* A source's contents are numbered; the other digests are none of them.
ASSUME ContentAssumption ==
  /\ Versions \subseteq Nat /\ Missing \notin Nat /\ Garbage \notin Nat /\ None \notin Nat
  /\ Missing # Garbage /\ Missing # None /\ Garbage # None
  /\ None \notin {"cached", "executed", "failed", "skipped"}

\* A header includes nothing itself, and only sources include.  A generated
\* header is included only by an action that waits for it: graph.rs makes the
\* outputs of every generator a compile depends on its order-only inputs.
ASSUME IncludeAssumption ==
  \A a \in Actions : \A f \in Declared[a] \cap Sources, v \in Versions :
    \A g \in Includes(f, v) :
      /\ g \in Sources \cup WaitsFor(a)
      /\ g \in Sources => \A w \in Versions : Includes(g, w) = {}

ASSUME EnvironmentAssumption ==
  /\ Checkouts \subseteq [Sources -> Versions]
  /\ MaxEdits \in Nat /\ MaxCrashes \in Nat /\ MaxLosses \in Nat

VARIABLES
  disk,      \* content of every file
  journal,   \* per recorded action its inputs, discovered inputs and outputs
  cas,       \* contents of the store
  pc,        \* "off", "preflight" or "build"
  seen,      \* preflight: what matches_each found, file by file
  settled,   \* HashCache.settled: digests established during this build
  phase,     \* where each action is
  inputs,    \* the digests an action has gathered
  view,      \* what the running command has read
  verdict,   \* outcome of each action
  clean,     \* history: nothing was touched since a build of a quiet tree passed
  quiet,     \* history: no source was edited since this build started
  racing,    \* history: whether sources are edited during builds, see MayEdit
  edits, crashes, losses

store == <<journal, cas>>
process == <<phase, inputs, view, verdict>>
history == <<clean, quiet, racing, edits, crashes, losses>>
vars == <<disk, store, pc, seen, settled, process, history>>

Empty == [f \in {} |-> None]
Idle == [a \in Actions |-> "waiting"]
NoMaps == [a \in Actions |-> Empty]
NoVerdicts == [a \in Actions |-> None]
Unseen == [f \in Files |-> None]

With(m, f, v) == [g \in DOMAIN m \cup {f} |-> IF g = f THEN v ELSE m[g]]
Writing(files, v(_)) == [f \in Files |-> IF f \in files THEN v(f) ELSE disk[f]]
Entry(a) == journal[a]
Recorded == DOMAIN journal

Init ==
  /\ \E c \in Checkouts :
       disk = [f \in Files |-> IF f \in Sources THEN c[f] ELSE Missing]
  /\ journal = Empty /\ cas = {}
  /\ pc = "off" /\ seen = Unseen /\ settled = Unseen
  /\ phase = Idle /\ inputs = NoMaps /\ view = NoMaps /\ verdict = NoVerdicts
  /\ clean = FALSE /\ quiet = FALSE /\ racing \in BOOLEAN
  /\ edits = 0 /\ crashes = 0 /\ losses = 0

-----------------------------------------------------------------------------
(* The build: preflight *)

Start ==
  /\ pc = "off"
  /\ pc' = "preflight"
  /\ quiet' = TRUE
  /\ UNCHANGED <<disk, store, seen, settled, process, clean, racing, edits, crashes, losses>>

GraphDigests(f) ==
  {Entry(a).inputs[f] : a \in {b \in Recorded : f \in Declared[b]}}
    \cup {Entry(a).outputs[f] : a \in {b \in Recorded : f \in Outputs[b]}}
PathDigests(f) ==
  {Entry(a).inputs[f] : a \in {b \in Recorded : f \in Entry(b).discovered}}
Expected == {f \in Files : GraphDigests(f) \cup PathDigests(f) # {}}

\* matches_each looks at every expected path once, in parallel, and settles none.
\* Where no file changes meanwhile one look at all of them stands for every order.
Sample ==
  /\ pc = "preflight"
  /\ LET left == {f \in Expected : seen[f] = None}
     IN \E some \in SUBSET left \ {{}} :
          /\ IF racing THEN Cardinality(some) = 1 ELSE some = left
          /\ seen' = [f \in Files |-> IF f \in some THEN disk[f] ELSE seen[f]]
  /\ UNCHANGED <<disk, store, pc, settled, process, history>>

\* A file two records disagree about certifies nobody.
\* Mutant: discovered inputs are not looked at.
MutMatchesDeclared(a) ==
  /\ a \in Recorded
  /\ \A f \in Declared[a] \cup Outputs[a] : GraphDigests(f) = {seen[f]}

Matches(a) ==
  /\ a \in Recorded
  /\ \A f \in Declared[a] \cup Outputs[a] : GraphDigests(f) = {seen[f]}
  /\ \A f \in Entry(a).discovered : PathDigests(f) = {seen[f]}

\* Whoever waits for an action that will run is left to the scheduler.
\* Mutant: the fixed point over producers is not taken.
MutCertified == {a \in Actions : Matches(a)}

Certified ==
  UNION {S \in SUBSET {a \in Actions : Matches(a)} : \A a \in S : ProducersOf(a) \subseteq S}

Certify ==
  /\ pc = "preflight" /\ \A f \in Expected : seen[f] # None
  /\ pc' = "build"
  /\ verdict' = [a \in Actions |-> IF a \in Certified THEN "cached" ELSE None]
  /\ phase' = [a \in Actions |-> IF a \in Certified THEN "done" ELSE "waiting"]
  /\ seen' = Unseen
  /\ UNCHANGED <<disk, store, settled, inputs, view, history>>

\* Something could not be read: nothing is certified.
PreflightFails ==
  /\ pc = "preflight"
  /\ pc' = "build" /\ seen' = Unseen
  /\ UNCHANGED <<disk, store, settled, process, history>>

-----------------------------------------------------------------------------
(* Engine::process *)

\* HashCache::digest: established once per build; a missing file is not settled.
\* Mutant: a digest taken earlier in the build is not reused.
MutDigest(f) == disk[f]

Digest(f) == IF settled[f] # None THEN settled[f] ELSE disk[f]
Settle(f) == settled' = [settled EXCEPT ![f] = IF Digest(f) = Missing THEN None ELSE Digest(f)]

\* HashCache::invalidate, for the files an action writes.
\* Mutant: invalidation is forgotten.
MutInvalidated(digests, files) == digests

Invalidated(digests, files) == [f \in Files |-> IF f \in files THEN None ELSE digests[f]]

Enter(a) ==
  /\ pc = "build" /\ phase[a] = "waiting"
  /\ \A p \in ProducersOf(a) : phase[p] = "done"
  /\ IF \E p \in ProducersOf(a) : verdict[p] \in {"failed", "skipped"}
     THEN /\ phase' = [phase EXCEPT ![a] = "done"]
          /\ verdict' = [verdict EXCEPT ![a] = "skipped"]
     ELSE /\ phase' = [phase EXCEPT ![a] = "hashing"]
          /\ UNCHANGED verdict
  /\ UNCHANGED <<disk, store, pc, seen, settled, inputs, view, history>>

\* Declared inputs, and those the previous run discovered.
Wanted(a) == Declared[a] \cup (IF a \in Recorded THEN Entry(a).discovered ELSE {})

HashInput(a, f) ==
  /\ phase[a] = "hashing" /\ f \in Wanted(a) \ DOMAIN inputs[a]
  /\ inputs' = [inputs EXCEPT ![a] = With(@, f, Digest(f))]
  /\ Settle(f)
  /\ UNCHANGED <<disk, store, pc, seen, phase, view, verdict, history>>

KeyMatches(a) == a \in Recorded /\ Entry(a).inputs = inputs[a]
\* Mutant: it is enough that every output exists.
MutIntact(a) == \A f \in Outputs[a] : Digest(f) # Missing

Intact(a) == \A f \in Outputs[a] : Digest(f) = Entry(a).outputs[f]

\* The digests settled once outputs_intact has looked at the outputs.
Looked(a) ==
  [f \in Files |-> IF KeyMatches(a) /\ f \in Outputs[a] /\ Digest(f) # Missing
                  THEN Digest(f) ELSE settled[f]]
Restorable(a) == \A f \in Outputs[a] : Entry(a).outputs[f] \in cas

Decided(a) == phase[a] = "hashing" /\ DOMAIN inputs[a] = Wanted(a)
Done(a, v) ==
  /\ phase' = [phase EXCEPT ![a] = "done"]
  /\ verdict' = [verdict EXCEPT ![a] = v]
  /\ inputs' = [inputs EXCEPT ![a] = Empty]
  /\ view' = [view EXCEPT ![a] = Empty]

\* The recorded outputs are on disk.
Hit(a) ==
  /\ Decided(a) /\ KeyMatches(a) /\ Intact(a)
  /\ settled' = Looked(a)
  /\ Done(a, "cached")
  /\ UNCHANGED <<disk, store, pc, seen, history>>

\* They are not, but the store has them.
Restore(a) ==
  /\ Decided(a) /\ KeyMatches(a) /\ ~Intact(a) /\ Restorable(a)
  /\ disk' = Writing(Outputs[a], LAMBDA f : Entry(a).outputs[f])
  /\ settled' = Invalidated(Looked(a), Outputs[a])
  /\ Done(a, "cached")
  /\ UNCHANGED <<store, pc, seen, history>>

\* A file cannot be hashed, or the build was cancelled before the command starts.
Refuse(a) ==
  /\ phase[a] = "hashing"
  /\ Done(a, "failed")
  /\ UNCHANGED <<disk, store, pc, seen, settled, history>>

\* execute(): the outputs are forgotten and removed, and the command spawned.
Spawn(a) ==
  /\ Decided(a) /\ ~(KeyMatches(a) /\ (Intact(a) \/ Restorable(a)))
  /\ disk' = Writing(Outputs[a], LAMBDA f : Missing)
  /\ settled' = Invalidated(Looked(a), Outputs[a])
  /\ phase' = [phase EXCEPT ![a] = "running"]
  /\ UNCHANGED <<store, pc, seen, inputs, view, verdict, history>>

-----------------------------------------------------------------------------
(* The command, an external program *)

Reads(a, m) == Declared[a] \cup UNION {Includes(f, m[f]) : f \in Declared[a] \cap DOMAIN m \cap Sources}

ReadFile(a, f) ==
  /\ phase[a] = "running" /\ f \in Reads(a, view[a]) \ DOMAIN view[a]
  /\ disk[f] # Missing
  /\ view' = [view EXCEPT ![a] = With(@, f, disk[f])]
  /\ UNCHANGED <<disk, store, pc, seen, settled, phase, inputs, verdict, history>>

\* It exits with success.  The report on what it read replaces what was
\* discovered before; only digests of declared inputs are kept.
\* Mutant: what was discovered before is kept.
MutKeptInputs(a) == inputs[a]

KeptInputs(a) == [f \in Declared[a] |-> inputs[a][f]]

CommandSucceeds(a) ==
  /\ phase[a] = "running" /\ Reads(a, view[a]) = DOMAIN view[a]
  /\ disk' = Writing(Outputs[a], LAMBDA f : Makes(a, f, view[a]))
  /\ inputs' = [inputs EXCEPT ![a] = KeptInputs(a)]
  /\ phase' = [phase EXCEPT ![a] = "report"]
  /\ UNCHANGED <<store, pc, seen, settled, view, verdict, history>>

\* It exits with a failure, times out or is cancelled: remove_partial_outputs.
\* When a follow-up command cannot even be spawned, what the first one wrote stays.
CommandFails(a) ==
  /\ phase[a] = "running"
  /\ \E partial \in SUBSET Outputs[a] :
       disk' = Writing(Outputs[a], LAMBDA f : IF f \in partial THEN Garbage ELSE Missing)
  /\ Done(a, "failed")
  /\ UNCHANGED <<store, pc, seen, settled, history>>

-----------------------------------------------------------------------------
(* The rest of Engine::execute *)

Discovered(a) == DOMAIN view[a] \ Declared[a]

\* ingest_dependency_report digests what the command turned out to read.
HashReported(a, f) ==
  /\ phase[a] = "report" /\ f \in Discovered(a) \ DOMAIN inputs[a]
  /\ inputs' = [inputs EXCEPT ![a] = With(@, f, Digest(f))]
  /\ Settle(f)
  /\ UNCHANGED <<disk, store, pc, seen, phase, view, verdict, history>>

\* collect_and_publish_outputs, when every output is there.
Publish(a) ==
  /\ phase[a] = "report" /\ Discovered(a) \subseteq DOMAIN inputs[a]
  /\ \A f \in Outputs[a] : Digest(f) # Missing
  /\ settled' = [f \in Files |-> IF f \in Outputs[a] THEN Digest(f) ELSE settled[f]]
  /\ cas' = cas \cup {disk[f] : f \in Outputs[a]}
  /\ phase' = [phase EXCEPT ![a] = "record"]
  /\ UNCHANGED <<disk, journal, pc, seen, inputs, view, verdict, history>>

RecordEntry(a) ==
  /\ phase[a] = "record"
  /\ journal' = With(journal, a,
       [inputs |-> inputs[a], discovered |-> Discovered(a),
        outputs |-> [f \in Outputs[a] |-> Digest(f)]])
  /\ Done(a, "executed")
  /\ UNCHANGED <<disk, cas, pc, seen, settled, history>>

\* An unreadable report, a full store or a journal that cannot be written fails
\* the action after its command succeeded; nothing is removed on these paths.
BookkeepingFails(a) ==
  /\ phase[a] \in {"report", "record"}
  /\ Done(a, "failed")
  /\ UNCHANGED <<disk, store, pc, seen, settled, history>>

-----------------------------------------------------------------------------
(* The end of a build *)

Passed == \A a \in Actions : verdict[a] \in {"cached", "executed"}

Forget ==
  /\ pc' = "off" /\ seen' = Unseen /\ settled' = Unseen
  /\ phase' = Idle /\ inputs' = NoMaps /\ view' = NoMaps /\ verdict' = NoVerdicts

Finish ==
  /\ pc = "build" /\ \A a \in Actions : phase[a] = "done"
  /\ Forget
  /\ clean' = (clean \/ (quiet /\ Passed))
  /\ quiet' = FALSE
  /\ UNCHANGED <<disk, store, racing, edits, crashes, losses>>

\* The process dies; commands that were writing leave what they had.
Crash ==
  /\ pc # "off" /\ crashes < MaxCrashes
  /\ LET cut == UNION {Outputs[a] : a \in {b \in Actions : phase[b] = "running"}}
     IN \E partial \in SUBSET cut : disk' = Writing(partial, LAMBDA f : Garbage)
  /\ Forget
  /\ quiet' = FALSE /\ crashes' = crashes + 1
  /\ UNCHANGED <<store, clean, racing, edits, losses>>

-----------------------------------------------------------------------------
(* The rest of the world *)

\* Sources are edited between builds; in a racing history also during one, when
\* no command still to be reported on can read the file before its digest is
\* settled, and by contents never seen before.
Active(a) == phase[a] \in {"running", "report"}
MayEdit(f) ==
  \/ pc = "off"
  \/ racing /\ (settled[f] # None \/ \A a \in Actions : ~Active(a))

NewContents(f) ==
  {v \in Versions \cup {Missing} : v # disk[f] /\ (racing => v = disk[f] + 1)}

Edit(f) ==
  /\ edits < MaxEdits /\ MayEdit(f)
  /\ \E v \in NewContents(f) : disk' = [disk EXCEPT ![f] = v]
  /\ edits' = edits + 1
  /\ clean' = FALSE /\ quiet' = FALSE
  /\ UNCHANGED <<store, pc, seen, settled, process, racing, crashes, losses>>

\* Between builds an output is deleted or overwritten, or the store is collected; a
\* racing history is bounded to none of this.
Lose ==
  /\ pc = "off" /\ ~racing /\ losses < MaxLosses
  /\ losses' = losses + 1
  /\ \/ /\ \E f \in Generated, v \in {Missing, Garbage} :
             disk[f] # v /\ disk' = [disk EXCEPT ![f] = v]
        /\ clean' = FALSE
        /\ UNCHANGED cas
     \/ /\ \E v \in cas : cas' = cas \ {v}
        /\ UNCHANGED <<disk, clean>>
  /\ UNCHANGED <<journal, pc, seen, settled, process, quiet, racing, edits, crashes>>

ActionStep(a) ==
  \/ Enter(a) \/ Hit(a) \/ Restore(a) \/ Refuse(a) \/ Spawn(a)
  \/ CommandSucceeds(a) \/ CommandFails(a)
  \/ Publish(a) \/ RecordEntry(a) \/ BookkeepingFails(a)
  \/ \E f \in Files : HashInput(a, f) \/ ReadFile(a, f) \/ HashReported(a, f)

Next ==
  \/ Start \/ Sample \/ Certify \/ PreflightFails
  \/ (\E a \in Actions : ActionStep(a))
  \/ Finish \/ Crash
  \/ (\E f \in Sources : Edit(f)) \/ Lose

Spec == Init /\ [][Next]_vars

-----------------------------------------------------------------------------
(* Properties *)

\* Gathered digests, views and verdicts keep their shape, action by action.
TypeOK ==
  /\ DOMAIN disk = Files /\ DOMAIN settled = Files /\ DOMAIN seen = Files
  /\ pc \in {"off", "preflight", "build"}
  /\ \A f \in Files : settled[f] # Missing
  /\ \A a \in Actions :
       /\ phase[a] \in {"waiting", "hashing", "running", "report", "record", "done"}
       /\ verdict[a] \in {None, "cached", "executed", "failed", "skipped"}
       /\ (phase[a] = "done") = (verdict[a] # None)
       /\ phase[a] = "running" => DOMAIN inputs[a] = Wanted(a)
       /\ a \in Recorded => DOMAIN Entry(a).inputs = Declared[a] \cup Entry(a).discovered
  /\ clean \in BOOLEAN /\ quiet \in BOOLEAN

\* What a build from nothing would leave in every file.
CleanOf ==
  LET made[f \in Files] ==
        IF f \in Sources THEN disk[f]
        ELSE LET a == CHOOSE b \in Actions : f \in Outputs[b]
                 declared == [g \in Declared[a] |-> made[g]]
                 read == [g \in Reads(a, declared) |-> made[g]]
             IN IF \E g \in DOMAIN read : read[g] = Missing THEN Missing
                ELSE Makes(a, f, read)
  IN made

\* When a build of a tree nobody edits meanwhile passes, every output is what
\* a build from nothing would make, whatever was edited, reverted, damaged,
\* collected or killed before, and it stays so until somebody touches a file.
CleanBuildEquivalence ==
  clean => \A f \in Generated : disk[f] = CleanOf[f]

\* After such a build, and until somebody touches a file, no build runs a command.
NoOpStaysNoOp ==
  clean => \A a \in Actions : phase[a] \notin {"running", "report", "record"}

\* A journal entry pairs inputs with the outputs a command makes from them: no
\* crash, failure or early cutoff records one run's outputs with another's inputs,
\* unless a source is edited between its digest and the command's reading it.
EntriesReproducible ==
  ~racing => \A a \in Recorded : \A f \in Outputs[a] :
    Entry(a).outputs[f] = Makes(a, f, Entry(a).inputs)

\* Half-written or damaged outputs are never used: no command reads one, and
\* neither the store nor the journal ever holds one.
PartialNeverUsed ==
  /\ \A a \in Actions : \A f \in DOMAIN view[a] : view[a][f] # Garbage
  /\ Garbage \notin cas
  /\ \A a \in Recorded : \A f \in Outputs[a] : Entry(a).outputs[f] # Garbage

\* A passing build is as good as one from nothing, and as quiet the second time.
CleanBuildHolds == CleanBuildEquivalence /\ NoOpStaysNoOp

\* What later builds go by, entries and blobs, is well formed and true.
RecordsAreTrue == TypeOK /\ EntriesReproducible /\ PartialNeverUsed
=============================================================================

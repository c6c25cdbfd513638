------------------------------ MODULE WarmPath ------------------------------
(* What lets a build of an unchanged workspace do nothing: the graph store,   *)
(* the hash cache and the no-op certificate, which the build before left      *)
(* under .frost, and a dry run that uses the first two at the same time.      *)
(* One action makes "out" of "src".  A file has an identity (time, size,      *)
(* inode), which every write changes, and bytes, which are their own digest.  *)
EXTENDS Naturals, FiniteSets, SequencesExt

CONSTANTS
  Rules,              \* what a manifest says, apart from its wording
  Stamped,            \* rules whose action reads a stable stamp value
  Contents,           \* of a source
  Checkout,           \* the rule and the source to begin with
  Makes(_, _, _, _),  \* external: rule, environment, stamp, source -> bytes
  MaxEdits,           \* of edits and dry runs
  MaxCrashes, MaxPlans, Damaged, None

ASSUME ContentAssumption ==
  None \notin Nat /\ None \notin Contents

Programs == {"build", "dry"}
Files == {"src", "out"}

VARIABLES
  manifest,           \* [rule, wording]
  disk,               \* file -> [stat, bytes], None both if it is missing
  clock,              \* the last identity given
  env, values,        \* environment of the caller, output of the [stamp] command
  journal,            \* the recorded result: [key, src, out]
  hashcache,          \* hashcache.bin: [ino, frames, torn]
  store,              \* graph.bin: [fingerprint, sources, graph, intact]
  certificate,        \* noop.bin: [fingerprint, env, files]
  pc, call,           \* program: where it is, and [env, values] of the invocation
  graph, cache,       \* its graph; its HashCache [snapshot, updates, loaded, settled]
  todo, peek, seen,   \* files to digest, the identity just read (held is ghost), digests found
  captured,           \* the certificate it is writing
  moved,              \* ghost: something was edited since it started
  edits, crashes, plans

persistent == <<journal, hashcache, store, certificate>>
world == <<manifest, disk, clock, env, values>>
running == <<pc, call, graph, cache, todo, peek, seen, captured>>
counts == <<moved, edits, crashes, plans>>
vars == <<world, persistent, running, counts>>

Stopped == {"idle", "hit", "end"}
Missing == [stat |-> None, bytes |-> None]
NoCache == [snapshot |-> <<>>, updates |-> <<>>, loaded |-> None, settled |-> <<>>]
Init ==
  /\ manifest = [rule |-> Checkout.rule, wording |-> 0]
  /\ disk = [src |-> [stat |-> 1, bytes |-> Checkout.src], out |-> Missing]
  /\ clock = 1 /\ env = 0 /\ values = 0
  /\ journal = None /\ hashcache = None /\ store = None /\ certificate = None
  /\ pc = [p \in Programs |-> "idle"] /\ call = [p \in Programs |-> None]
  /\ graph = [p \in Programs |-> None] /\ cache = [p \in Programs |-> NoCache]
  /\ todo = [p \in Programs |-> {}] /\ peek = [p \in Programs |-> None]
  /\ seen = [p \in Programs |-> <<>>] /\ captured = [p \in Programs |-> None]
  /\ moved = [p \in Programs |-> FALSE] /\ edits = 0 /\ crashes = 0 /\ plans = 0

Go(p, where) == pc' = [pc EXCEPT ![p] = where]
StatOf(f) == disk[f].stat
BytesOf(f) == disk[f].bytes
Get(f, x) == IF x \in DOMAIN f THEN f[x] ELSE None
With(f, x, y) == [z \in DOMAIN f \cup {x} |-> IF z = x THEN y ELSE f[z]]
Over(f, g) == [x \in DOMAIN f \cup DOMAIN g |-> IF x \in DOMAIN f THEN f[x] ELSE g[x]]

-----------------------------------------------------------------------------
(* The graph store *)

\* Mutant: the store is taken to be that of the sources.
MutSourcesCurrent == TRUE

\* ensure_sources_current: the bytes of the manifests and the listings are those
\* the stamp was taken of.
SourcesCurrent == store.sources = manifest

\* GraphStore::cached_fingerprint reads no more than the header.
Fingerprint == IF store # None /\ SourcesCurrent THEN store.fingerprint ELSE None

\* load_graph: load_cached, for which no manifest is parsed; or else Manifest::load.
LoadGraph(p) ==
  /\ pc[p] = "graph"
  /\ IF store # None /\ SourcesCurrent /\ store.intact
     THEN graph' = [graph EXCEPT ![p] = store.graph] /\ Go(p, "load")
     ELSE graph' = [graph EXCEPT ![p] = manifest.rule] /\ Go(p, "compile")
  /\ UNCHANGED <<world, persistent, call, cache, todo, peek, seen, captured, counts>>

Saved(rule) ==
  store' = [fingerprint |-> rule, sources |-> manifest, graph |-> rule, intact |-> TRUE]

\* Mutant: a graph found under the fingerprint keeps the stamp it has.
MutRestamped(rule) == UNCHANGED store

\* A graph found under the fingerprint whose stamp is not that of the sources is
\* saved again.
Restamped(rule) == Saved(rule)

\* load_or_compile_instrumented, of the manifest that was parsed.
Compile(p) ==
  LET rule == graph[p]
      found == store # None /\ store.fingerprint = rule /\ store.intact
  IN
  /\ pc[p] = "compile" /\ Go(p, "load")
  /\ IF ~found THEN Saved(rule)
     ELSE IF SourcesCurrent THEN UNCHANGED store ELSE Restamped(rule)
  /\ UNCHANGED <<world, journal, hashcache, certificate, call, graph, cache, todo, peek,
                 seen, captured, counts>>

-----------------------------------------------------------------------------
(* The hash cache *)

Without(f, x) == Restrict(f, DOMAIN f \ {x})
Live(entries) == Restrict(entries, {f \in DOMAIN entries : entries[f] # None})

\* The frame whose entry for f counts: no later one has any.
Counts(frames, f, i) ==
  f \in DOMAIN frames[i] /\ \A j \in DOMAIN frames : j > i => f \notin DOMAIN frames[j]

\* decode: every frame before the torn one, the later entries last; an entry
\* without a digest removes.
Decode(frames) ==
  Live([f \in {g \in Files : \E i \in DOMAIN frames : Counts(frames, g, i)} |->
          frames[CHOOSE i \in DOMAIN frames : Counts(frames, f, i)][f]])
Entries(frames) == FoldLeft(LAMBDA n, frame : n + Cardinality(DOMAIN frame), 0, frames)

\* HashCache::load.
LoadHashCache(p) ==
  LET snapshot == Decode(hashcache.frames) IN
  /\ pc[p] = "load" /\ Go(p, IF p = "build" THEN "preflight" ELSE "inputs")
  /\ cache' = IF hashcache = None THEN cache
              ELSE [cache EXCEPT ![p].snapshot = snapshot,
                     ![p].loaded = [ino |-> hashcache.ino, length |-> Len(hashcache.frames),
                       complete |-> ~hashcache.torn,
                       superseded |-> Entries(hashcache.frames) - Cardinality(DOMAIN snapshot)]]
  /\ call' = [call EXCEPT ![p].values = values]
  /\ todo' = [todo EXCEPT ![p] = IF p = "build" THEN Files ELSE {"src"}]
  /\ UNCHANGED <<world, persistent, graph, peek, seen, captured, counts>>

Lookup(p, f) ==
  IF f \in DOMAIN cache[p].updates THEN cache[p].updates[f] ELSE Get(cache[p].snapshot, f)
Forget(c, f) == [c EXCEPT !.updates = With(@, f, None), !.settled = Without(@, f)]

\* A digest is settled while actions are decided, and not by matches_each.
Settles(p) == pc[p] \in {"inputs", "check", "made"}
Known(p, f) == Settles(p) /\ f \in DOMAIN cache[p].settled
Fresh(p, f) == StatOf(f) # None /\ Lookup(p, f) # None /\ Lookup(p, f).stat = StatOf(f)

Find(p, f, bytes) ==
  /\ seen' = [seen EXCEPT ![p] = With(@, f, bytes)]
  /\ todo' = [todo EXCEPT ![p] = @ \ {f}]

\* digest and matches_each: the bytes of a file are read when its entry is of another
\* identity.
LookAt(p, f) ==
  /\ f \in todo[p] /\ peek[p] = None
  /\ \/ Known(p, f) /\ Find(p, f, cache[p].settled[f]) /\ UNCHANGED <<cache, peek>>
     \/ /\ ~Known(p, f) /\ StatOf(f) = None
        /\ Find(p, f, None) /\ UNCHANGED peek
        /\ cache' = IF Settles(p) /\ Lookup(p, f) # None
                    THEN [cache EXCEPT ![p] = Forget(@, f)] ELSE cache
     \/ /\ ~Known(p, f) /\ Fresh(p, f)
        /\ Find(p, f, Lookup(p, f).bytes) /\ UNCHANGED peek
        /\ cache' = IF Settles(p)
                    THEN [cache EXCEPT ![p].settled = With(@, f, Lookup(p, f).bytes)] ELSE cache
     \/ /\ ~Known(p, f) /\ StatOf(f) # None /\ ~Fresh(p, f)
        /\ peek' = [peek EXCEPT ![p] = [file |-> f, stat |-> StatOf(f), held |-> BytesOf(f)]]
        /\ UNCHANGED <<cache, seen, todo>>
  /\ UNCHANGED <<world, persistent, pc, call, graph, captured, counts>>

\* Mutant: the identity is read once the bytes have been.
MutEntryOf(p) == [stat |-> StatOf(peek[p].file), bytes |-> peek[p].held]

\* The identity was read before the bytes.
EntryOf(p) == [stat |-> peek[p].stat, bytes |-> BytesOf(peek[p].file)]

HashFile(p) ==
  LET f == peek[p].file IN
  /\ peek[p] # None
  /\ Find(p, f, BytesOf(f)) /\ peek' = [peek EXCEPT ![p] = None]
  /\ cache' = [cache EXCEPT ![p].updates = With(@, f, EntryOf(p)),
                 ![p].settled = IF Settles(p) THEN With(@, f, BytesOf(f)) ELSE @]
  /\ UNCHANGED <<world, persistent, pc, call, graph, captured, counts>>

\* HashCache::save.  A frame is added to the very file that was loaded, if what it
\* supersedes stays below half of what lives; the file is replaced otherwise.
Save(p) ==
  LET mine == cache[p]
      same == /\ mine.loaded # None /\ hashcache # None /\ mine.loaded.complete
              /\ mine.loaded.ino = hashcache.ino /\ mine.loaded.length = Len(hashcache.frames)
  IN
  /\ pc[p] = "save"
  /\ Go(p, IF mine.updates = <<>> THEN "end"
           ELSE IF same /\ 2 * (mine.loaded.superseded + Cardinality(DOMAIN mine.updates))
                             <= Cardinality(DOMAIN mine.snapshot)
                THEN "append" ELSE "replace")
  /\ UNCHANGED <<world, persistent, call, graph, cache, todo, peek, seen, captured, counts>>

\* One write to a file opened for appending, whoever wrote to it since.
AppendFrame(p) ==
  /\ pc[p] = "append" /\ Go(p, "end")
  /\ hashcache' = [hashcache EXCEPT !.frames =
                     IF hashcache.torn THEN @ ELSE Append(@, cache[p].updates)]
  /\ UNCHANGED <<world, journal, store, certificate, call, graph, cache, todo, peek, seen,
                 captured, counts>>

ReplaceCache(p) ==
  /\ pc[p] = "replace" /\ Go(p, "end")
  /\ hashcache' = [ino |-> IF hashcache = None THEN 1 ELSE 1 - hashcache.ino, torn |-> FALSE,
                   frames |-> <<Live(Over(cache[p].updates, cache[p].snapshot))>>]
  /\ UNCHANGED <<world, journal, store, certificate, call, graph, cache, todo, peek, seen,
                 captured, counts>>

-----------------------------------------------------------------------------
(* The certificate *)

\* Mutant: the environment of the caller is left out.
MutCertificateHolds ==
  /\ certificate # None /\ Fingerprint = certificate.fingerprint
  /\ \A f \in Files : StatOf(f) = certificate.files[f]

\* check_for_daemon: the certificate speaks of this environment, of the graph that is
\* stored for the sources as they are, and of the files by their identities.
CertificateHolds ==
  /\ certificate # None /\ certificate.env = env
  /\ Fingerprint = certificate.fingerprint
  /\ \A f \in Files : StatOf(f) = certificate.files[f]

\* action_key: all that reaches the command.
Key(p, src) ==
  [rule |-> graph[p], env |-> call[p].env, src |-> src,
   values |-> IF graph[p] \in Stamped THEN call[p].values ELSE None]

AsRecorded(p) == seen[p]["src"] = journal.src /\ seen[p]["out"] = journal.out

\* preflight, once every file has been looked at.  For fast_noop::save the identities
\* are captured, with the graph, and every digest is verified after.
Certify(p) ==
  /\ pc[p] = "preflight" /\ todo[p] = {}
  /\ IF journal # None /\ journal.key = Key(p, journal.src) /\ AsRecorded(p)
     THEN IF Fingerprint = None THEN Go(p, "save") /\ UNCHANGED <<captured, todo>>
          ELSE /\ captured' = [captured EXCEPT ![p] = [fingerprint |-> Fingerprint,
                     env |-> call[p].env, files |-> [f \in Files |-> StatOf(f)]]]
               /\ todo' = [todo EXCEPT ![p] = Files] /\ Go(p, "verify")
     ELSE Go(p, "inputs") /\ todo' = [todo EXCEPT ![p] = {"src"}] /\ UNCHANGED captured
  /\ UNCHANGED <<world, persistent, call, graph, cache, peek, seen, counts>>

\* Mutant: the identities are written as captured.
MutVerified(p) == TRUE

\* verify_after_capture.
Verified(p) == AsRecorded(p)

WriteCertificate(p) ==
  /\ pc[p] = "verify" /\ todo[p] = {} /\ Go(p, "save")
  /\ certificate' = IF Verified(p) THEN captured[p] ELSE certificate
  /\ UNCHANGED <<world, journal, hashcache, store, call, graph, cache, todo, peek, seen,
                 captured, counts>>

-----------------------------------------------------------------------------
(* The engine, for the one action *)

\* Engine::process: the record is that of this key, or the command runs.
Decide(p) ==
  /\ pc[p] = "inputs" /\ todo[p] = {}
  /\ IF journal # None /\ journal.key = Key(p, seen[p]["src"])
     THEN Go(p, "check") /\ todo' = [todo EXCEPT ![p] = {"out"}]
     ELSE Go(p, IF p = "build" THEN "run" ELSE "save") /\ UNCHANGED todo
  /\ UNCHANGED <<world, persistent, call, graph, cache, peek, seen, captured, counts>>

Write(p, bytes) ==
  /\ clock' = clock + 1
  /\ disk' = [disk EXCEPT !["out"] = [stat |-> clock + 1, bytes |-> bytes]]
  /\ cache' = [cache EXCEPT ![p] = Forget(@, "out")]
  /\ UNCHANGED <<manifest, env, values>>

\* An output that is not as recorded is restored, in a dry run as well, or made again.
\* Two engines that write in one workspace at the same time are left out.
CheckOutput(p) ==
  /\ pc[p] = "check" /\ todo[p] = {}
  /\ \/ seen[p]["out"] = journal.out /\ Go(p, "save") /\ UNCHANGED <<world, cache>>
        /\ UNCHANGED moved
     \/ /\ seen[p]["out"] # journal.out /\ (p = "dry" => pc["build"] \in Stopped)
        /\ Write(p, journal.out) /\ Go(p, "save")
        /\ moved' = [q \in Programs |-> moved[q] \/ q # p]
     \/ /\ seen[p]["out"] # journal.out /\ Go(p, IF p = "build" THEN "run" ELSE "save")
        /\ UNCHANGED <<world, cache, moved>>
  /\ UNCHANGED <<persistent, call, graph, todo, peek, seen, captured, edits, crashes, plans>>

Made(rule, environment, stamps, src) ==
  Makes(rule, environment, IF rule \in Stamped THEN stamps ELSE None, src)

Run(p) ==
  /\ pc[p] = "run" /\ Go(p, "made") /\ todo' = [todo EXCEPT ![p] = {"out"}]
  /\ Write(p, Made(graph[p], call[p].env, call[p].values, BytesOf("src")))
  /\ UNCHANGED <<persistent, call, graph, peek, seen, captured, counts>>

Record(p) ==
  /\ pc[p] = "made" /\ todo[p] = {} /\ Go(p, "save")
  /\ journal' = [key |-> Key(p, seen[p]["src"]), src |-> seen[p]["src"], out |-> seen[p]["out"]]
  /\ UNCHANGED <<world, hashcache, store, certificate, call, graph, cache, todo, peek, seen,
                 captured, counts>>

-----------------------------------------------------------------------------
\* try_fast_noop, and the graph otherwise.  A dry run plans.
Start(p) ==
  /\ pc[p] \in Stopped
  /\ IF p = "build" THEN Go(p, IF CertificateHolds THEN "hit" ELSE "graph") /\ UNCHANGED plans
     ELSE /\ Go(p, "graph")
          /\ plans < MaxPlans /\ edits + plans < MaxEdits /\ plans' = plans + 1
  /\ call' = [call EXCEPT ![p] = [env |-> env, values |-> None]]
  /\ graph' = [graph EXCEPT ![p] = None] /\ cache' = [cache EXCEPT ![p] = NoCache]
  /\ seen' = [seen EXCEPT ![p] = <<>>] /\ captured' = [captured EXCEPT ![p] = None]
  /\ moved' = [moved EXCEPT ![p] = FALSE]
  /\ UNCHANGED <<world, persistent, todo, peek, edits, crashes>>

\* A process dies.  In the middle of a write to the hash cache, the frame is torn.
Crash(p) ==
  /\ pc[p] \notin Stopped /\ crashes < MaxCrashes /\ crashes' = crashes + 1
  /\ Go(p, "idle") /\ todo' = [todo EXCEPT ![p] = {}] /\ peek' = [peek EXCEPT ![p] = None]
  /\ graph' = [graph EXCEPT ![p] = None] /\ cache' = [cache EXCEPT ![p] = NoCache]
  /\ call' = [call EXCEPT ![p] = None] /\ seen' = [seen EXCEPT ![p] = <<>>]
  /\ captured' = [captured EXCEPT ![p] = None]
  /\ hashcache' = IF pc[p] = "append" THEN [hashcache EXCEPT !.torn = TRUE] ELSE hashcache
  /\ UNCHANGED <<world, journal, store, certificate, moved, edits, plans>>

Edited ==
  /\ edits + plans < MaxEdits /\ edits' = edits + 1
  /\ moved' = [p \in Programs |-> moved[p] \/ pc[p] # "idle"]
  /\ UNCHANGED <<running, crashes, plans>>

Changed(f, bytes) ==
  /\ clock' = clock + 1
  /\ disk' = [disk EXCEPT ![f] = IF bytes = None THEN Missing
                                 ELSE [stat |-> clock + 1, bytes |-> bytes]]
  /\ UNCHANGED <<manifest, env, values, persistent>>

\* An edit, or a touch; not between the digest of the source and the command.
EditSource ==
  /\ "src" \notin DOMAIN cache["build"].settled \/ pc["build"] \notin {"inputs", "check", "run"}
  /\ Edited /\ \E c \in Contents : Changed("src", c)

\* The output is damaged or removed, but not under the build that has just made it.
DamageOutput ==
  /\ pc["build"] # "made" /\ StatOf("out") # None
  /\ \A p \in Programs : peek[p] = None
  /\ Edited /\ \E bytes \in {None, Damaged} : Changed("out", bytes)

\* The manifest, unless a build or a load of it is under way.
EditManifest ==
  /\ pc["build"] \in Stopped /\ pc["dry"] # "compile" /\ Edited
  /\ \E rule \in Rules, wording \in {0, 1} :
       /\ manifest' = [rule |-> rule, wording |-> wording] /\ manifest' # manifest
  /\ UNCHANGED <<disk, clock, env, values, persistent>>

ChangeEnvironment ==
  Edited /\ env' = 1 - env /\ UNCHANGED <<manifest, disk, clock, values, persistent>>

\* What the [stamp] command prints changes, a commit for instance.
Commit == Edited /\ values' = 1 - values /\ UNCHANGED <<manifest, disk, clock, env, persistent>>

FlipBit ==
  /\ Edited /\ store # None /\ store.intact /\ store' = [store EXCEPT !.intact = FALSE]
  /\ UNCHANGED <<world, journal, hashcache, certificate>>

Work(p) ==
  \/ LoadGraph(p) \/ Compile(p) \/ LoadHashCache(p) \/ HashFile(p)
  \/ \E f \in Files : LookAt(p, f)
  \/ Save(p) \/ AppendFrame(p) \/ ReplaceCache(p)
  \/ Certify(p) \/ WriteCertificate(p)
  \/ Decide(p) \/ CheckOutput(p) \/ Run(p) \/ Record(p)

Next ==
  \/ \E p \in Programs : Start(p) \/ Work(p) \/ Crash(p)
  \/ EditSource \/ DamageOutput \/ EditManifest \/ ChangeEnvironment \/ Commit \/ FlipBit

\* A program that has started goes on, and builds keep being asked for.
Fairness == (\A p \in Programs : WF_vars(Work(p))) /\ WF_vars(Start("build"))
Spec == Init /\ [][Next]_vars /\ Fairness

-----------------------------------------------------------------------------
(* Properties *)

MadeOf(v) == Made(manifest.rule, env, v, BytesOf("src"))

\* "The certificate never makes a changed build look current" (fast_noop.rs), nor do
\* the hash cache and the graph store.  A build that ends well leaves the output that
\* the manifest, the environment, the stamp values and the source make, if none of
\* them was touched since it started.  The certificate knows no stamp values, see below.
UpToDateIsTrue ==
  ~moved["build"] =>
    /\ pc["build"] = "end" => BytesOf("out") = MadeOf(values)
    /\ pc["build"] = "hit" => \E v \in {0, 1} : BytesOf("out") = MadeOf(v)

\* "A new commit should rebuild the binary that embeds its SHA" (stamp.rs:12), when the
\* certificate answers as well.
StampReachesOutput ==
  ~moved["build"] /\ pc["build"] = "hit" => BytesOf("out") = MadeOf(values)

\* An entry of the hash cache, on disk or in a program, that is taken for a file as it
\* is has its bytes, whatever was edited between a look and a read, torn or raced for.
CacheTellsTruth ==
  LET Truthful(entries) ==
        \A f \in DOMAIN entries :
          entries[f] # None /\ entries[f].stat = StatOf(f) => entries[f].bytes = BytesOf(f)
  IN
  /\ hashcache # None => Truthful(Decode(hashcache.frames))
  /\ \A p \in Programs : Truthful(cache[p].snapshot) /\ Truthful(cache[p].updates)

\* "An equal stamp implies identical discovery and expansion" (graph_store.rs): a
\* graph that would be served without a manifest is the manifest's.
WarmGraphIsCurrent ==
  store # None /\ SourcesCurrent => store.graph = manifest.rule /\ store.fingerprint = manifest.rule

\* Digests and graphs kept from earlier runs are those of the workspace.
CachesTellTruth == CacheTellsTruth /\ WarmGraphIsCurrent

\* Once nothing is edited any more, builds come to be answered by the certificate.
SettlesDown == <>[](pc["build"] = "hit")
=============================================================================

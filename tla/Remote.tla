------------------------------- MODULE Remote -------------------------------
(* The remote cache: workspaces that ask a shared server for what an action   *)
(* produced, and publish what theirs did.  The server may lose, damage and    *)
(* refuse anything.  A digest names bytes and is the bytes; the executable    *)
(* bit is recovered from the digest and left out.                             *)
EXTENDS Naturals, FiniteSets, Functions, TLC

CONSTANTS
  Workspaces,         \* workspaces with a --remote-cache
  ActionsOf,          \* workspace -> the actions it builds, each by a worker
  Outputs,            \* action -> its declared outputs
  Contents,           \* of the source, and of the header it may include
  Checkout,           \* what both trees start from
  Earlier,            \* backend -> trees that an uploader has built before
  Includes,           \* contents of the source that include the header
  Makes(_, _, _),     \* action, output, what was read -> bytes
  Backends,           \* kinds of server
  Uploaders,          \* workspaces with --remote-upload
  MaxEdits, MaxFaults, MaxBuilds,   \* bounds; a crash is a fault
  Half, Damaged, Malformed, None

Workers == {p \in Workspaces \X UNION {ActionsOf[w] : w \in Workspaces} : p[2] \in ActionsOf[p[1]]}
FilesOfTree == {"src", "hdr"}

ASSUME ContentAssumption ==
  /\ None \notin Contents /\ Checkout \in [FilesOfTree -> Contents]
  /\ \A b \in Backends : Earlier[b] \subseteq [FilesOfTree -> Contents]

VARIABLES
  backend,
  entries,            \* server: trace key -> RemoteAction, Malformed if it cannot be read
  blobs,              \* server: name -> bytes
  tree,               \* workspace -> file -> contents
  building,           \* workspace -> a build runs
  settled,            \* workspace -> file -> digest of this build, None before
  store,              \* workspace -> its content store: digest -> bytes
  staged,             \* workspace -> .frost/remote: digest -> bytes, Half of them while it is written
  journal,            \* worker -> its JournalEntry, once it has one
  outs,               \* worker -> output -> bytes in the workspace, None if missing
  pc, got, todo, named,   \* worker: step, entry in hand, outputs left, names of its blobs
  edits, faults, builds

server == <<backend, entries, blobs>>
local == <<tree, building, settled, store, staged, journal, outs>>
step == <<pc, got, todo, named>>
counts == <<edits, faults, builds>>
vars == <<server, local, step, counts>>

\* What the command opens: the source, and the header when the source includes it.
Reads(source) == IF source \in Includes THEN {"src", "hdr"} ELSE {"src"}
Made(a, inputs) == [o \in Outputs[a] |-> Makes(a, o, inputs)]
TraceIn(a, files) ==
  LET read == Reads(files["src"])
      bytes == Made(a, [f \in read |-> files[f]])
  IN [outputs |-> bytes, discovered |-> [f \in read \ {"src"} |-> files[f]],
      remote |-> IF backend = "reapi" THEN [d \in Range(bytes) |-> d] ELSE <<>>]

Init ==
  /\ backend \in Backends
  /\ \/ entries = <<>> /\ blobs = <<>>
     \/ \E files \in Earlier[backend] :
          LET done == UNION {ActionsOf[w] : w \in Uploaders} IN
          /\ entries = [k \in {<<a, files["src"]>> : a \in done} |-> TraceIn(k[1], files)]
          /\ blobs = [d \in UNION {Range(TraceIn(a, files).outputs) : a \in done} |-> d]
  /\ tree = [w \in Workspaces |-> Checkout]
  /\ building = [w \in Workspaces |-> FALSE]
  /\ settled = [w \in Workspaces |-> [f \in FilesOfTree |-> None]]
  /\ store = [w \in Workspaces |-> <<>>] /\ staged = [w \in Workspaces |-> <<>>]
  /\ journal = <<>>
  /\ outs = [p \in Workers |-> [o \in Outputs[p[2]] |-> None]]
  /\ pc = [p \in Workers |-> "idle"] /\ got = [p \in Workers |-> None]
  /\ todo = [p \in Workers |-> {}] /\ named = [p \in Workers |-> <<>>]
  /\ edits = 0 /\ faults = 0 /\ builds = 0

-----------------------------------------------------------------------------
(* Digests and keys *)

\* HashCache::digest: the first of a build settles it.
DigestOf(w, file) == IF settled[w][file] # None THEN settled[w][file] ELSE tree[w][file]
Settle(w, files) ==
  settled' = [settled EXCEPT ![w] = [f \in FilesOfTree |->
                IF f \in files THEN DigestOf(w, f) ELSE @[f]]]

\* Mutant: the key is computed from the file as it is now.
MutTraceKey(p) == <<p[2], tree[p[1]]["src"]>>

\* trace_key: the action and its declared inputs.
TraceKey(p) == <<p[2], DigestOf(p[1], "src")>>

\* Mutant: what the producing run discovered is not compared.
MutApplies(p, entry) == DOMAIN entry.outputs = Outputs[p[2]]

\* remote_hit: the discovered inputs are the same here, and the outputs recorded
\* are those the action declares.
Applies(p, entry) ==
  /\ \A f \in DOMAIN entry.discovered : DigestOf(p[1], f) = entry.discovered[f]
  /\ DOMAIN entry.outputs = Outputs[p[2]]

\* Mutant: staged bytes are taken to be what was asked for.
MutVerified(bytes, digest) == TRUE

\* The digest of bytes, wherever they are taken over.
Verified(bytes, digest) == bytes = digest

With(f, x, y) == [k \in DOMAIN f \cup {x} |-> IF k = x THEN y ELSE f[k]]
Without(f, x) == Restrict(f, DOMAIN f \ {x})
Go(p, where) == pc' = [pc EXCEPT ![p] = where]

-----------------------------------------------------------------------------
(* A build of one workspace; every action is decided by a worker *)

StartBuild(w) ==
  /\ ~building[w] /\ builds < MaxBuilds
  /\ building' = [building EXCEPT ![w] = TRUE] /\ builds' = builds + 1
  /\ settled' = [settled EXCEPT ![w] = [f \in FilesOfTree |-> None]]
  /\ pc' = [p \in Workers |-> IF p[1] = w THEN "decide" ELSE pc[p]]
  /\ UNCHANGED <<server, tree, store, staged, journal, outs, got, todo, named,
                 edits, faults>>

\* Engine::process: a recorded result whose inputs are the same and whose outputs
\* are there is kept; if the outputs are not, they are restored or made again.
Decide(p) ==
  LET known == p \in DOMAIN journal
      read == {"src"} \cup (IF known THEN DOMAIN journal[p].inputs ELSE {})
  IN
  /\ pc[p] = "decide" /\ Settle(p[1], read)
  /\ IF known /\ \A f \in read : DigestOf(p[1], f) = journal[p].inputs[f]
     THEN IF outs[p] = journal[p].outputs THEN Go(p, "built") /\ UNCHANGED got
          ELSE Go(p, "restore") /\ got' = [got EXCEPT ![p] = journal[p]]
     ELSE Go(p, "lookup") /\ UNCHANGED got
  /\ UNCHANGED <<server, tree, building, store, staged, journal, outs, todo, named, counts>>

\* Mutant: a lookup that came to nothing is tried again.
MutOtherwise == "lookup"

\* Where every miss, error and refusal leads.
Otherwise == "run"

\* RemoteCache::action and the checks of remote_hit: there is no entry for a miss, an
\* unreadable one, or any failure of the transport.  Discovered inputs are digested
\* and go into the entry to record.
Lookup(p) ==
  /\ pc[p] = "lookup"
  /\ \/ /\ TraceKey(p) \in DOMAIN entries /\ entries[TraceKey(p)] # Malformed
        /\ LET entry == entries[TraceKey(p)] IN
           /\ Settle(p[1], DOMAIN entry.discovered)
           /\ IF Applies(p, entry)
              THEN /\ got' = [got EXCEPT ![p] = entry] /\ Go(p, "stage")
                   /\ todo' = [todo EXCEPT ![p] = Outputs[p[2]]]
              ELSE Go(p, Otherwise) /\ UNCHANGED <<got, todo>>
     \/ Go(p, Otherwise) /\ UNCHANGED <<got, todo, settled>>
  /\ UNCHANGED <<server, tree, building, store, staged, journal, outs, named, counts>>

\* What the server calls a blob.  Only a REAPI server has names of its own, which
\* an entry lacks for blobs whose upload failed.
Nameable(entry, digest) == backend # "reapi" \/ digest \in DOMAIN entry.remote

\* A blob that the store has is not fetched.  Otherwise the request is made and the
\* staged file is opened, which truncates it; it has one name for all workers.
StageBlob(p) ==
  /\ pc[p] = "stage" /\ todo[p] # {}
  /\ LET o == CHOOSE o \in todo[p] : TRUE
         digest == got[p].outputs[o]
     IN
       IF digest \in DOMAIN store[p[1]]
       THEN todo' = [todo EXCEPT ![p] = @ \ {o}] /\ UNCHANGED <<pc, staged, named>>
       ELSE \/ /\ Nameable(got[p], digest) /\ digest \in DOMAIN blobs
               /\ staged' = [staged EXCEPT ![p[1]] = With(@, digest, Half)]
               /\ named' = [named EXCEPT ![p] = [blob |-> digest, bytes |-> blobs[digest]]]
               /\ Go(p, "write") /\ UNCHANGED todo
            \/ /\ staged' = [staged EXCEPT ![p[1]] = Without(@, digest)]
               /\ Go(p, Otherwise) /\ UNCHANGED <<todo, named>>
  /\ UNCHANGED <<server, tree, building, settled, store, journal, outs, got, counts>>

\* The write goes to the file that was opened, unless another worker removed it.
WriteStaged(p) ==
  LET digest == named[p].blob IN
  /\ pc[p] = "write" /\ Go(p, "verify")
  /\ staged' = IF digest \in DOMAIN staged[p[1]]
               THEN [staged EXCEPT ![p[1]] = With(@, digest, named[p].bytes)] ELSE staged
  /\ UNCHANGED <<server, tree, building, settled, store, journal, outs, got, todo, named, counts>>

Staged(p) ==
  LET digest == named[p].blob IN
  digest \in DOMAIN staged[p[1]] /\ Verified(staged[p[1]][digest], digest)
Discard(p) ==
  /\ staged' = [staged EXCEPT ![p[1]] = Without(@, named[p].blob)]
  /\ named' = [named EXCEPT ![p] = <<>>]

VerifyStaged(p) ==
  /\ pc[p] = "verify"
  /\ IF Staged(p) THEN Go(p, "put") /\ UNCHANGED <<staged, named>>
     ELSE Go(p, Otherwise) /\ Discard(p)
  /\ UNCHANGED <<server, tree, building, settled, store, journal, outs, got, todo, counts>>

\* Cas::put copies the staged file and verifies the copy; the file goes.
PutStaged(p) ==
  LET digest == named[p].blob IN
  /\ pc[p] = "put" /\ Discard(p)
  /\ IF Staged(p)
     THEN /\ store' = [store EXCEPT ![p[1]] = With(@, digest, staged[p[1]][digest])]
          /\ Go(p, "stage")
     ELSE Go(p, Otherwise) /\ UNCHANGED store
  /\ UNCHANGED <<server, tree, building, settled, journal, outs, got, todo, counts>>

\* restore_outputs: output after output, each verified, up to the first that is not
\* there; the action is made after all then, and some outputs have been replaced.
Restore(p) ==
  LET there == {o \in Outputs[p[2]] :
                  /\ got[p].outputs[o] \in DOMAIN store[p[1]]
                  /\ Verified(store[p[1]][got[p].outputs[o]], got[p].outputs[o])}
  IN
  /\ pc[p] = "restore" \/ (pc[p] = "stage" /\ todo[p] = {})
  /\ \E done \in IF there = Outputs[p[2]] THEN {there} ELSE SUBSET there :
       outs' = [outs EXCEPT ![p] = [o \in Outputs[p[2]] |->
                  IF o \in done THEN store[p[1]][got[p].outputs[o]] ELSE @[o]]]
  /\ IF there = Outputs[p[2]] THEN Go(p, "record") ELSE Go(p, "run")
  /\ UNCHANGED <<server, tree, building, settled, store, staged, journal, got, todo, named, counts>>

\* Engine::execute: the command, the dependency report, the store.
Run(p) ==
  LET read == Reads(tree[p[1]]["src"])
      bytes == Made(p[2], [f \in read |-> tree[p[1]][f]])
  IN
  /\ pc[p] = "run" /\ Settle(p[1], read)
  /\ outs' = [outs EXCEPT ![p] = bytes]
  /\ store' = [store EXCEPT ![p[1]] = [d \in Range(bytes) |-> d] @@ @]
  /\ got' = [got EXCEPT ![p] = [outputs |-> bytes, remote |-> <<>>,
               discovered |-> [f \in read \ {"src"} |-> DigestOf(p[1], f)]]]
  /\ todo' = [todo EXCEPT ![p] = IF p[1] \in Uploaders THEN Outputs[p[2]] ELSE {}]
  /\ Go(p, IF p[1] \in Uploaders THEN "publish" ELSE "record")
  /\ UNCHANGED <<server, tree, building, staged, journal, named, counts>>

\* put_blob.  A directory keeps what it has under a name.
PublishBlob(p) ==
  /\ pc[p] = "publish" /\ todo[p] # {}
  /\ LET o == CHOOSE o \in todo[p] : TRUE
         digest == got[p].outputs[o]
     IN
       /\ todo' = [todo EXCEPT ![p] = @ \ {o}]
       /\ \/ /\ blobs' = IF backend = "directory" /\ digest \in DOMAIN blobs THEN blobs
                         ELSE With(blobs, digest, outs[p][o])
             /\ got' = [got EXCEPT ![p].remote =
                          IF backend = "reapi" THEN With(@, digest, digest) ELSE @]
          \/ UNCHANGED <<blobs, got>>
  /\ UNCHANGED <<backend, entries, local, pc, named, counts>>

\* put_action, whatever became of the blobs.
PublishEntry(p) ==
  /\ pc[p] = "publish" /\ todo[p] = {} /\ Go(p, "record")
  /\ \/ entries' = IF backend = "directory" /\ TraceKey(p) \in DOMAIN entries THEN entries
                   ELSE With(entries, TraceKey(p), got[p])
     \/ UNCHANGED entries
  /\ UNCHANGED <<backend, blobs, local, got, todo, named, counts>>

\* Mutant: what was discovered elsewhere is not recorded here.
MutRecorded(p) == [inputs |-> [f \in {"src"} |-> DigestOf(p[1], f)], outputs |-> got[p].outputs]

\* The entry to record: declared and discovered inputs, with their digests.
Recorded(p) ==
  [inputs |-> [f \in {"src"} \cup DOMAIN got[p].discovered |-> DigestOf(p[1], f)],
   outputs |-> got[p].outputs]

\* Journal::record.  A restore of what is recorded here leaves the journal alone.
Record(p) ==
  /\ pc[p] = "record" /\ Go(p, "built")
  /\ journal' = IF p \in DOMAIN journal /\ got[p] = journal[p] THEN journal
                ELSE With(journal, p, Recorded(p))
  /\ got' = [got EXCEPT ![p] = None]
  /\ UNCHANGED <<server, tree, building, settled, store, staged, outs, todo, named, counts>>

WorkersOf(w) == {p \in Workers : p[1] = w}
Reset(w) ==
  /\ pc' = [p \in Workers |-> IF p[1] = w THEN "idle" ELSE pc[p]]
  /\ got' = [p \in Workers |-> IF p[1] = w THEN None ELSE got[p]]
  /\ todo' = [p \in Workers |-> IF p[1] = w THEN {} ELSE todo[p]]
  /\ named' = [p \in Workers |-> IF p[1] = w THEN <<>> ELSE named[p]]
  /\ building' = [building EXCEPT ![w] = FALSE]

EndBuild(w) ==
  /\ building[w] /\ \A p \in WorkersOf(w) : pc[p] = "built"
  /\ Reset(w)
  /\ UNCHANGED <<server, tree, settled, store, staged, journal, outs, counts>>

-----------------------------------------------------------------------------
(* What happens around *)

\* Killed: the outputs and the store keep what was written.
Crash(w) ==
  /\ building[w] /\ faults < MaxFaults /\ faults' = faults + 1
  /\ Reset(w)
  /\ UNCHANGED <<server, tree, settled, store, staged, journal, outs, edits, builds>>

\* Edits, but none that races with a command that is still to read the file.
Edit(w) ==
  /\ edits < MaxEdits /\ edits' = edits + 1
  /\ \A p \in WorkersOf(w) : pc[p] \in {"idle", "publish", "record", "built"}
  /\ \E f \in FilesOfTree, c \in Contents : c # tree[w][f] /\ tree' = [tree EXCEPT ![w][f] = c]
  /\ UNCHANGED <<server, building, settled, store, staged, journal, outs, step, faults, builds>>

\* The server forgets or damages something; a local collection drops a blob.
Fault ==
  /\ faults < MaxFaults /\ faults' = faults + 1
  /\ \/ \E name \in DOMAIN blobs : blobs' = Without(blobs, name) /\ UNCHANGED <<entries, store>>
     \/ \E name \in DOMAIN blobs : blobs' = With(blobs, name, Damaged) /\ UNCHANGED <<entries, store>>
     \/ \E key \in DOMAIN entries : entries' = Without(entries, key) /\ UNCHANGED <<blobs, store>>
     \/ \E key \in DOMAIN entries : entries' = With(entries, key, Malformed) /\ UNCHANGED <<blobs, store>>
     \/ \E w \in Workspaces : \E d \in DOMAIN store[w] :
          store' = [store EXCEPT ![w] = Without(@, d)] /\ UNCHANGED <<entries, blobs>>
  /\ UNCHANGED <<backend, tree, building, settled, staged, journal, outs, step, edits, builds>>

Work(p) ==
  \/ Decide(p) \/ Lookup(p) \/ StageBlob(p) \/ WriteStaged(p)
  \/ VerifyStaged(p) \/ PutStaged(p) \/ Restore(p) \/ Run(p)
  \/ PublishBlob(p) \/ PublishEntry(p) \/ Record(p)

Next ==
  \/ \E w \in Workspaces : StartBuild(w) \/ EndBuild(w) \/ Crash(w) \/ Edit(w)
  \/ \E p \in Workers : Work(p)
  \/ Fault

Fairness ==
  /\ \A p \in Workers : WF_vars(Work(p))
  /\ \A w \in Workspaces : WF_vars(EndBuild(w))
Spec == Init /\ [][Next]_vars /\ Fairness

-----------------------------------------------------------------------------
(* Properties *)

TraceOf(key, entry) == With(entry.discovered, "src", key[2])

\* remote.rs: an entry is "a constructive trace rather than a guess".  What the
\* server says of an action is what running it makes of the inputs the entry
\* lists, which are all it reads, whoever published it, and however files were
\* edited meanwhile.
EntriesAreTraces ==
  \A key \in DOMAIN entries : entries[key] # Malformed =>
    LET trace == TraceOf(key, entries[key]) IN
    /\ DOMAIN trace = Reads(key[2])
    /\ entries[key].outputs = [o \in Outputs[key[1]] |-> Makes(key[1], o, trace)]

\* "Nothing here can change what a build produces, only whether it had to run."
\* An action that a build is done with has the outputs and the record that running
\* it on the inputs of this build gives, in this build and in those after it,
\* whatever the server answered.
RemoteIsTransparent ==
  \A p \in Workers : pc[p] = "built" =>
    LET inputs == [f \in Reads(settled[p[1]]["src"]) |-> settled[p[1]][f]] IN
    /\ outs[p] = Made(p[2], inputs)
    /\ p \in DOMAIN journal
    /\ journal[p].inputs = inputs /\ journal[p].outputs = outs[p]

\* docs/07: "The build cannot fail because of the remote cache".  Every build comes
\* to its end, whatever the server loses, damages or refuses.
BuildsEnd == \A w \in Workspaces : building[w] ~> ~building[w]
=============================================================================

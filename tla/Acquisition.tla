----------------------------- MODULE Acquisition -----------------------------
(* What frost takes from the network: pinned archives that `frost fetch`      *)
(* unpacks into the workspace, and releases that `frost self-update` puts in  *)
(* the place of the binary.  Two fetches may run at once, either may be       *)
(* killed anywhere, a rename may fail, the user may work in the directories   *)
(* meanwhile, and the server may answer anything.                             *)
EXTENDS Naturals, FiniteSets, Command

CONSTANTS
  Fetchers,           \* processes that run `frost fetch`
  Declarations,       \* name -> [sha, strip, dir]: what [fetch.*] may say
  Archives,           \* sha -> [safe, holds]: strip -> what is in there, None if it is no
                      \*   directory; one of "reserved" has a state file of its own
  Dirs,
  Own, Edited,        \* trees: the user's own, and one that the user has changed
  Releases,           \* [version, draft, sums, archive, reports]: the sums list a digest,
                      \*   the binary of the archive says which version it is
  RunningVersion,     \* the version that runs first
  MaxActs,            \* of what the user and the project do
  MaxFaults           \* kills, and renames that fail

Names == UNION {DOMAIN declarations : declarations \in Declarations}
Specs == UNION {{declarations[n] : n \in DOMAIN declarations} : declarations \in Declarations}
Contents ==
  {Own, Edited}
    \cup UNION {{Archives[sha].holds[strip] : strip \in DOMAIN Archives[sha].holds} :
               sha \in DOMAIN Archives}
Receipts ==
  [name : Names, sha : {spec.sha : spec \in Specs}, strip : {spec.strip : spec \in Specs},
   dir : Dirs, tree : Contents]
Vendored == [receipt : Receipts \cup {None}, tree : Contents, link : BOOLEAN]

\* What is unpacked has its place, and an archive holds one binary.
ASSUME AcqAssumption ==
  /\ None \notin Receipts \cup Vendored
  /\ \A declarations \in Declarations : declarations \in [DOMAIN declarations -> Specs]
  /\ Specs \subseteq [sha : {spec.sha : spec \in Specs}, strip : {spec.strip : spec \in Specs},
                     dir : Dirs]
  /\ \A r, s \in Releases : r.archive = s.archive => r.reports = s.reports

VARIABLES
  fetches,            \* the manifest
  vendored,           \* dir -> None or [receipt, tree, link]: link, it is a symbolic link
  job,                \* fetcher -> [at, names, todo, force, offline, name, spec,
                      \*             new, backup]
  kept,               \* ghost: what was vendored when the fetches began, or when the
                      \*   user last changed it
  lost,               \* ghost: directories whose tree was aside when a fetch was killed, or
                      \*   when the rename that restores it failed
  overtaken,          \* ghost: directories that the user has changed after a fetch found
                      \*   that it may replace them, and before it did
  latest, installed,  \* releases: what is offered, what the binary is
  update,             \* the release that `frost self-update` found, None if it does not run
  managed,            \* installed by cargo
  acts, faults

fetchVars == <<fetches, vendored, job, kept, lost, overtaken>>
updateVars == <<latest, installed, update, managed>>
acqVars == <<fetchVars, updateVars, acts, faults>>

Idle == [at |-> "idle", names |-> {}, force |-> FALSE, offline |-> FALSE, name |-> None,
         spec |-> None, new |-> None, backup |-> None]

Receipt(name, spec, tree) ==
  [name |-> name, sha |-> spec.sha, strip |-> spec.strip, dir |-> spec.dir, tree |-> tree]

Tree(receipt, tree) == [receipt |-> receipt, tree |-> tree, link |-> FALSE]

AcqInit ==
  /\ fetches \in Declarations
  /\ vendored \in [Dirs -> {None, Tree(None, Own)}]
  /\ job = [f \in Fetchers |-> Idle] /\ kept = vendored
  /\ lost = {} /\ overtaken = {}
  /\ latest \in Releases /\ installed = [version |-> RunningVersion, archive |-> None]
  /\ update = None /\ managed \in BOOLEAN
  /\ acts = 0 /\ faults = 0

-----------------------------------------------------------------------------
(* fetch_one *)

\* state_matches, and the same conditions of resolve_fetch_inputs
Matches(receipt, name, spec) ==
  receipt # None /\ receipt.name = name /\ receipt.sha = spec.sha
    /\ receipt.strip = spec.strip /\ receipt.dir = spec.dir

Quiet == \A f \in Fetchers : job[f].at = "idle"
Is(f, new) == job' = [job EXCEPT ![f] = new]
Ends(f) == Is(f, Idle)

\* run_fetch: select_names
StartFetch(f) ==
  /\ job[f].at = "idle" /\ acts < MaxActs /\ acts' = acts + 1
  /\ \E names \in SUBSET DOMAIN fetches \ {{}}, force, offline \in BOOLEAN :
       Is(f, [Idle EXCEPT !.at = "next", !.names = [n \in names |-> fetches[n]],
                          !.force = force, !.offline = offline])
  /\ IF Quiet THEN kept' = vendored /\ lost' = {} /\ overtaken' = {}
     ELSE UNCHANGED <<kept, lost, overtaken>>
  /\ UNCHANGED <<fetches, vendored, updateVars, faults>>

\* Mutant: whoever made a tree, it is replaced.
MutReplaceable(there, name, spec) == TRUE

\* What is there is missing, or is what frost has published under this name.
Replaceable(there, name, spec) ==
  \/ there = None
  \/ there.receipt # None /\ there.receipt.name = name /\ there.receipt.dir = spec.dir

\* reject_symlink_components
Linked(there) == there # None /\ there.link

UpToDate(there, name, spec) ==
  there # None /\ Matches(there.receipt, name, spec) /\ there.tree = there.receipt.tree

Check(f) ==
  /\ job[f].at = "next"
  /\ IF job[f].names = <<>> THEN Ends(f)
     ELSE \E name \in DOMAIN job[f].names :
       LET spec == job[f].names[name]
           there == vendored[spec.dir]
           rest == [n \in DOMAIN job[f].names \ {name} |-> job[f].names[n]]
           current == UpToDate(there, name, spec) /\ ~job[f].force
       IN IF Linked(there) THEN Ends(f)
          ELSE IF current THEN Is(f, [job[f] EXCEPT !.names = rest])
          ELSE IF job[f].offline \/ ~Replaceable(there, name, spec) THEN Ends(f)
          ELSE Is(f, [job[f] EXCEPT !.at = "stage", !.names = rest, !.name = name, !.spec = spec])
  /\ UNCHANGED <<fetches, vendored, kept, lost, overtaken, updateVars, acts, faults>>

\* Mutant: what comes is taken for what was asked.
MutIsPinned(sha, spec) == TRUE

\* sha256_file of the download
IsPinned(sha, spec) == sha = spec.sha

\* download: what a server sends, or nothing.
Downloads == DOMAIN Archives \cup {None}

\* extract, strip_prefix and the reserved file
Unpacked(sha, strip) ==
  IF Archives[sha].safe /\ strip \in DOMAIN Archives[sha].holds
       /\ Archives[sha].holds[strip] # "reserved"
  THEN Archives[sha].holds[strip] ELSE None

\* Nothing else sees the staging directory, so the download, the extraction, the
\* snapshot and the receipt are one step; each may fail.  What is put into the content
\* store between them nobody asks for.
Stage(f) ==
  /\ job[f].at = "stage"
  /\ \E sha \in Downloads :
       LET good == sha # None /\ IsPinned(sha, job[f].spec)
           tree == IF good THEN Unpacked(sha, job[f].spec.strip) ELSE None
       IN
       IF tree = None THEN Ends(f)
       ELSE Is(f, [job[f] EXCEPT !.at = "aside",
                     !.new = Tree(Receipt(job[f].name, job[f].spec, tree), tree)])
  /\ UNCHANGED <<fetches, vendored, kept, lost, overtaken, updateVars, acts, faults>>

\* publish_tree: the tree that is there is moved aside first, whoever has put it there
\* since Check.
MoveAside(f) ==
  LET dir == job[f].spec.dir IN
  /\ job[f].at = "aside" /\ Is(f, [job[f] EXCEPT !.at = "publish", !.backup = vendored[dir]])
  /\ vendored' = [vendored EXCEPT ![dir] = None]
  /\ UNCHANGED <<fetches, kept, lost, overtaken, updateVars, acts, faults>>

\* Mutant: the receipt is written when the tree is in its place.
MutComplete(f) == Tree(None, job[f].new.tree)

Complete(f) == job[f].new

\* A rename fails when something is there again, or for a reason of the system.
Publish(f) ==
  LET dir == job[f].spec.dir IN
  /\ job[f].at = "publish"
  /\ \/ /\ vendored[dir] = None /\ vendored' = [vendored EXCEPT ![dir] = Complete(f)]
        /\ Is(f, [Idle EXCEPT !.at = "next", !.names = job[f].names, !.force = job[f].force,
                              !.offline = job[f].offline])
        /\ UNCHANGED faults
     \/ /\ Is(f, [job[f] EXCEPT !.at = "restore"]) /\ UNCHANGED vendored
        /\ IF vendored[dir] # None THEN UNCHANGED faults
           ELSE faults < MaxFaults /\ faults' = faults + 1
  /\ UNCHANGED <<fetches, kept, lost, overtaken, updateVars, acts>>

\* Mutant: the tree that was moved aside is forgotten.
MutRestored(f) == vendored

\* The tree that was moved aside goes back where there is nothing.
Restored(f) ==
  LET dir == job[f].spec.dir IN
  IF job[f].backup # None /\ vendored[dir] = None
  THEN [vendored EXCEPT ![dir] = job[f].backup] ELSE vendored

\* What is lost when a fetch ends and does not put its backup back.
Costs(f) ==
  IF job[f].at \in {"publish", "restore"} /\ job[f].backup # None
       /\ vendored[job[f].spec.dir] = None
  THEN {job[f].spec.dir} ELSE {}

\* The rename that restores the old tree may fail as well.  In any case the staging
\* directory goes (Scratch's drop), and what is aside with it.
Restore(f) ==
  /\ job[f].at = "restore" /\ Ends(f)
  /\ \/ vendored' = Restored(f) /\ UNCHANGED <<lost, faults>>
     \/ /\ Costs(f) # {} /\ faults < MaxFaults /\ faults' = faults + 1
        /\ lost' = lost \cup Costs(f) /\ UNCHANGED vendored
  /\ UNCHANGED <<fetches, kept, overtaken, updateVars, acts>>

\* What is in the staging directory stays there, and nobody looks for it.
KillFetch(f) ==
  /\ job[f].at # "idle" /\ faults < MaxFaults /\ faults' = faults + 1
  /\ Ends(f) /\ lost' = lost \cup Costs(f)
  /\ UNCHANGED <<fetches, vendored, kept, overtaken, updateVars, acts>>

\* The user, whether or not fetches run: the declarations, or a tree.
EditFetches ==
  /\ acts < MaxActs /\ acts' = acts + 1 /\ fetches' \in Declarations \ {fetches}
  /\ UNCHANGED <<vendored, job, kept, lost, overtaken, updateVars, faults>>

\* A fetch that has found that it may replace the tree has not yet moved it aside.
MayReplace(dir) ==
  \E f \in Fetchers : job[f].at \in {"stage", "aside"} /\ job[f].spec.dir = dir

EditTree(dir) ==
  /\ acts < MaxActs /\ acts' = acts + 1
  /\ vendored' \in
       {[vendored EXCEPT ![dir] = None], [vendored EXCEPT ![dir] = Tree(None, Own)]}
         \cup (IF vendored[dir] = None THEN {}
               ELSE {[vendored EXCEPT ![dir].tree = Edited],
                     [vendored EXCEPT ![dir].link = TRUE]})
  /\ vendored' # vendored /\ kept' = [kept EXCEPT ![dir] = vendored'[dir]]
  /\ lost' = lost \ {dir}
  /\ overtaken' = IF MayReplace(dir) THEN overtaken \cup {dir} ELSE overtaken \ {dir}
  /\ UNCHANGED <<fetches, job, updateVars, faults>>

-----------------------------------------------------------------------------
(* run_self_update *)

\* installed_by_cargo: cargo replaces its own binaries.
InstalledByCargo == managed

\* The release is looked at once; a newer one may come out meanwhile.
FindRelease ==
  /\ update = None /\ latest.version > installed.version /\ ~latest.draft /\ ~InstalledByCargo
  /\ update' = latest
  /\ UNCHANGED <<fetchVars, latest, installed, managed, acts, faults>>

\* Mutant: the binary is not asked which version it is.
MutVerified(archive, release) == archive = release.sums

\* checksum_for, sha256_file, extract and verify_candidate
Verified(archive, release) ==
  /\ release.sums # None /\ archive = release.sums
  /\ \E r \in Releases : r.archive = archive /\ r.reports = release.version

\* The archive that comes may be any; what is published may not be what was meant.
Install ==
  /\ update # None /\ update' = None
  /\ \/ UNCHANGED installed
     \/ \E r \in Releases :
          /\ Verified(r.archive, update)
          /\ installed' = [version |-> r.reports, archive |-> r.archive]
  /\ UNCHANGED <<fetchVars, latest, managed, acts, faults>>

Announce ==
  /\ acts < MaxActs /\ acts' = acts + 1 /\ latest' \in Releases \ {latest}
  /\ UNCHANGED <<fetchVars, installed, update, managed, faults>>

FetchNext ==
  \/ \E f \in Fetchers :
       StartFetch(f) \/ Check(f) \/ Stage(f) \/ MoveAside(f) \/ Publish(f) \/ Restore(f)
         \/ KillFetch(f)
  \/ EditFetches
  \/ \E dir \in Dirs : EditTree(dir)

UpdateNext == FindRelease \/ Install \/ Announce

-----------------------------------------------------------------------------
(* Properties *)

\* "The offline guarantee" (fetch.rs:4): a tree that a build accepts for a declaration
\* is what the pinned archive holds, or what the user made of it, wherever fetches
\* that race were killed.
AcceptedIsPinned ==
  command = "fetch" =>
  \A name \in DOMAIN fetches :
    LET spec == fetches[name]
        there == vendored[spec.dir]
    IN there # None /\ ~there.link /\ Matches(there.receipt, name, spec) =>
         there.tree \in {Archives[spec.sha].holds[spec.strip], Edited, Own}

\* "Vendor directory was not changed" (fetch.rs:115): when fetches end, each directory
\* that had a tree has one still, unless a fetch was killed, or could not restore it, while
\* the tree was aside (lost); the user's own trees are where they were, unless they came
\* between a fetch's look at the directory and its move (overtaken), which then replaces
\* them although 06_manifest_spec.md:144 says that frost refuses to; and each
\* tree that frost made carries its receipt.
TreesAreKept ==
  command = "fetch" =>
  \A d \in Dirs :
    /\ Quiet /\ d \notin lost /\ kept[d] # None => vendored[d] # None
    /\ d \notin overtaken /\ kept[d] # None /\ kept[d].receipt = None => vendored[d] = kept[d]
    /\ vendored[d] # None /\ vendored[d].receipt = None => vendored[d].tree \in {Own, Edited}

\* Vendored trees are what was pinned, and no fetch costs one but as TreesAreKept says.
VendoredIsPinned == AcceptedIsPinned /\ TreesAreKept

\* "Never downgraded" (30_distribution.md): whatever the network answers and is
\* published meanwhile, the binary is replaced by a newer one that the sums of a
\* release list.
UpdatesGoForward ==
  [][installed' # installed =>
       /\ installed'.version > installed.version
       /\ \E r \in Releases :
            ~r.draft /\ r.version = installed'.version /\ r.sums = installed'.archive]_acqVars
=============================================================================

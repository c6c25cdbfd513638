------------------------------ MODULE Isolation ------------------------------
(* One action that is run where it sees what it may read: in a mount          *)
(* namespace (--sandbox) or in a private tree (--hermetic), and twice if its  *)
(* determinism is checked.  A path is a sequence of names, a directory is     *)
(* there when a file is in it, and a workspace maps paths to contents.  Frost *)
(* may be killed at any point, and then builds again.                         *)
EXTENDS Naturals, SequencesExt, Command

CONSTANTS
  Actions,            \* [inputs, orderOnly, found, includes, outputs, depfile, owned,
                      \*  cleaned, preserve, isolated]
  Programs,           \* [needs, probes, makes, litters, dirties, random, renames]
  Trees,              \* what a workspace may hold
  Modes,              \* "none", "sandbox", "hermetic"
  Supported,          \* sets of strategies that a file system may support
  Materialize,        \* --materialize
  MaxKills

\* A path is a sequence of names.  (No prover takes a literal for a STRING.)
PathNames == STRING \cup {"renamed"}
Paths == Seq(PathNames)

ASSUME IsolationAssumption ==
  /\ None # "ok"
  /\ \A a \in Actions : a.inputs \cup a.includes \cup a.depfile \subseteq Paths
  /\ \A p \in Programs : p.makes \cup p.litters \subseteq Paths
  /\ \A files \in Trees : DOMAIN files \subseteq Paths

Only(files, paths) == [p \in DOMAIN files \cap paths |-> files[p]]
Sans(files, paths) == [p \in DOMAIN files \ paths |-> files[p]]
Onto(files, new) ==
  [p \in DOMAIN files \cup DOMAIN new |-> IF p \in DOMAIN new THEN new[p] ELSE files[p]]
Within(dir, path) == IsPrefix(dir, Front(path))
Under(files, dirs) == {p \in DOMAIN files : \E d \in dirs : Within(d, p)}

\* A manifest that loads: an action has an output, and no dependency report in a directory
\* that is owned.  No path is a file and a directory.
ASSUME ManifestAssumption ==
  \A a \in Actions :
    /\ a.outputs # {}
    /\ \A p \in a.depfile : \A d \in a.owned : ~Within(d, p)
    /\ a.owned \cap (a.outputs \cup a.depfile) = {}

\* How programs are described: what they write to outputs and owned directories is what they
\* make, a report only if it is an output; a file that is renamed has a name of its own.
ASSUME ProgramAssumption ==
  \A a \in Actions, p \in Programs :
    /\ p.makes \cap a.depfile = a.outputs \cap a.depfile
    /\ \A x \in p.litters : x \notin a.outputs /\ \A d \in a.owned : ~Within(d, x)
    /\ \A x \in p.makes : Append(Front(x), "renamed") \notin p.makes \cup a.outputs

VARIABLES
  action, program,
  mode, strategy, check, \* the command line, and what select made of it
  ws,                 \* the workspace
  saved,              \* ghost: the workspace when the build began
  tree,               \* the private tree, [files, links], None if there is none
  stage, attempt,     \* where execute is; the run, 2 is the determinism rerun
  batch,              \* what the run came to: "ok" or "failed"
  todo,               \* outputs and directories to move out of the tree
  first,              \* outputs of the first run
  verdict, kills

isoVars == <<action, program, mode, strategy, check, ws, saved, tree, stage, attempt, batch,
             todo, first, verdict, kills>>
choices == <<action, program, mode, strategy, check>>

-----------------------------------------------------------------------------
(* sandbox.rs: what an action may see *)

\* visible_set
ReadonlyDirs(files) ==
  {Front(p) : p \in action.inputs} \cup {d \in action.includes : Under(files, {d}) # {}}
VisibleFiles == action.inputs \cup action.found \cup action.orderOnly
Writable ==
  {Front(p) : p \in action.outputs \cup action.depfile} \cup action.owned \cup action.cleaned

\* sandbox_command: directories that are written are mounted as they are.
SandboxSees(files) ==
  (DOMAIN files \cap VisibleFiles) \cup Under(files, ReadonlyDirs(files) \cup Writable)

\* prepare_hermetic_tree: a directory is not placed again under one that was, and
\* frost's own state and git's are not walked into.
Skipped == {<<".frost">>, <<".git">>}
Placed(files) ==
  {d \in ReadonlyDirs(files) : \A e \in ReadonlyDirs(files) : ~IsStrictPrefix(e, d)}

\* Mutant: nothing but files that are named is placed.
MutHermeticSees(files) == DOMAIN files \cap VisibleFiles

HermeticSees(files) ==
  (DOMAIN files \cap VisibleFiles)
    \cup {p \in Under(files, Placed(files)) :
            \E d \in Placed(files) :
              /\ Within(d, p)
              /\ \A s \in Skipped : ~(IsPrefix(d, s) /\ Within(s, p))}

-----------------------------------------------------------------------------
(* hermetic.rs, materialize.rs *)

HostOrder == <<"reflink", "hardlink", "copy">>

\* select: one that is asked for has to work; else the first that does.
Selected(request, supported) ==
  IF request # "auto" THEN IF request \in supported THEN request ELSE None
  ELSE SelectSeq(HostOrder, LAMBDA s : s \in supported)[1]

\* What a tool keeps between runs is copied, never linked.
Preserved(files) ==
  IF action.preserve THEN (DOMAIN files \cap action.outputs) \cup Under(files, action.owned)
  ELSE {}

\* Mutant: what earlier runs left is not removed.
MutFreshTree(old, files) ==
  [files |-> Onto(IF old = None THEN <<>> ELSE old.files,
                  Only(files, HermeticSees(files) \cup Preserved(files))),
   links |-> IF strategy = "hardlink" THEN HermeticSees(files) ELSE {}]

\* Tree::create, place_file and place_writable
FreshTree(old, files) ==
  [files |-> Only(files, HermeticSees(files) \cup Preserved(files)),
   links |-> IF strategy = "hardlink" THEN HermeticSees(files) ELSE {}]

Hermetic == mode = "hermetic" /\ action.isolated
Confined == mode = "sandbox" /\ action.isolated

-----------------------------------------------------------------------------
(* The program: what it makes of what it reads, with a nonce if it is random *)

Seen ==
  IF Hermetic THEN DOMAIN tree.files
  ELSE IF Confined THEN SandboxSees(ws) ELSE DOMAIN ws
There == IF Hermetic THEN tree.files ELSE ws
Read == program.needs \cup (program.probes \cap Seen)

Bytes == [of |-> Only(There, Read), nonce |-> IF program.random THEN attempt ELSE 0]
Named(p) ==
  IF \E d \in action.owned : Within(d, p) /\ program.renames /\ attempt = 2
  THEN Append(Front(p), "renamed") ELSE p
Report == [names |-> Read, root |-> IF Hermetic THEN "tree" ELSE "workspace"]
Product ==
  Onto([p \in action.depfile |-> Report], [p \in {Named(p) : p \in program.makes} |-> Bytes])

\* Written by a program that gets this far, where it is not read-only.
CanWrite(p) == Confined => \E d \in Writable : Within(d, p)
Strays == {p \in program.litters : ~Confined \/ CanWrite(p)}
Spoils == {p \in program.dirties : CanWrite(p)}
Spoilt(files, paths) == [p \in DOMAIN files |-> IF p \in paths THEN [of |-> "spoilt"] ELSE files[p]]

Succeeds == program.needs \subseteq Seen /\ program.dirties = Spoils

-----------------------------------------------------------------------------
(* Engine::execute *)

\* Outputs and owned directories are removed first unless the tool keeps them, and
\* clean directories are emptied.
Cleared(files) ==
  Sans(files, Under(files, action.cleaned)
                \cup (IF action.preserve THEN {}
                      ELSE action.outputs \cup Under(files, action.owned)))

BeginBuild ==
  /\ stage = "idle" /\ verdict = None
  /\ ws' = Cleared(ws) /\ saved' = ws /\ attempt' = 1 /\ first' = None
  /\ stage' = IF Hermetic THEN "prepare" ELSE "run"
  /\ UNCHANGED <<choices, tree, batch, todo, verdict, kills>>

Prepare ==
  /\ stage = "prepare" /\ tree' = FreshTree(tree, ws) /\ stage' = "run"
  /\ UNCHANGED <<choices, ws, saved, attempt, batch, todo, first, verdict, kills>>

\* A link shares what is written to it with the workspace.
Run ==
  /\ stage = "run"
  /\ \E done \in IF Succeeds THEN {DOMAIN Product} ELSE {{}, DOMAIN Product} :
       LET after(files) ==
             Onto(Onto(Spoilt(files, Spoils), [p \in Strays |-> [of |-> "stray"]]),
                  Only(Product, done))
       IN IF Hermetic
          THEN /\ tree' = [tree EXCEPT !.files = after(@)]
               /\ ws' = Spoilt(ws, Spoils \cap tree.links)
          ELSE ws' = after(ws) /\ tree' = tree
  /\ batch' = IF Succeeds THEN "ok" ELSE "failed"
  /\ stage' = IF Hermetic THEN "verify" ELSE "collect"
  /\ UNCHANGED <<choices, saved, attempt, todo, first, verdict, kills>>

\* Mutant: links are not looked at.
MutLinksHold == TRUE

\* verify_links: size and time of what is linked are those of before the run.
LinksHold == \A p \in tree.links : p \notin Spoils

Files == action.outputs \cup action.depfile

VerifyLinks ==
  /\ stage = "verify" /\ batch' = IF LinksHold THEN batch ELSE "failed"
  /\ IF batch' = "ok"
     THEN stage' = "publish" /\ todo' = Files \cup action.owned \cup action.cleaned
     ELSE stage' = "drop" /\ todo' = {}
  /\ UNCHANGED <<choices, ws, saved, tree, attempt, first, verdict, kills>>

\* Mutant: the report is moved as it is.
MutRebased(bytes) == bytes

\* rebase_paths
Rebased(bytes) == [bytes EXCEPT !.root = "workspace"]

\* publish_hermetic_outputs, one at a time: files and the report first, then what is
\* in directories, as a whole.  A report that is an output is moved as one.
MoveFile ==
  /\ stage = "publish"
  /\ \E p \in todo \cap Files :
       /\ todo' = todo \ {p}
       /\ ws' = IF p \notin DOMAIN tree.files THEN ws
                ELSE Onto(ws, [q \in {p} |-> IF q \in action.outputs THEN tree.files[q]
                                             ELSE Rebased(tree.files[q])])
       /\ tree' = IF p \in action.outputs THEN [tree EXCEPT !.files = Sans(@, {p})] ELSE tree
  /\ UNCHANGED <<choices, saved, stage, attempt, batch, first, verdict, kills>>

MoveDir ==
  /\ stage = "publish" /\ todo \cap Files = {}
  /\ \E d \in todo :
       LET inside == Under(tree.files, {d}) IN
       IF Under(ws, {d}) # {}
       THEN ws' = Sans(ws, Under(ws, {d})) /\ UNCHANGED <<todo, tree>>
       ELSE /\ ws' = Onto(ws, Only(tree.files, inside)) /\ todo' = todo \ {d}
            /\ tree' = [tree EXCEPT !.files = Sans(@, inside)]
  /\ UNCHANGED <<choices, saved, stage, attempt, batch, first, verdict, kills>>

DropTree ==
  /\ \/ stage = "drop"
     \/ stage = "publish" /\ todo = {}
  /\ tree' = None /\ stage' = "collect"
  /\ UNCHANGED <<choices, ws, saved, attempt, batch, todo, first, verdict, kills>>

\* Mutant: the files of the first run are looked at again.
MutOutputsNow == Only(ws, IF first = None THEN action.outputs \cup Under(ws, action.owned)
                          ELSE DOMAIN first)

\* collect_and_publish_outputs and verify_determinism: owned directories are scanned.
OutputsNow == Only(ws, action.outputs \cup Under(ws, action.owned))

Finishes(with) == verdict' = with /\ stage' = "idle"

Collect ==
  /\ stage = "collect" /\ attempt = 1
  /\ CASE batch = "failed" ->
            /\ Finishes("failed") /\ ws' = Sans(ws, action.outputs \cup Under(ws, action.owned))
            /\ UNCHANGED <<attempt, first>>
       [] batch = "ok" /\ ~(action.outputs \subseteq DOMAIN ws) ->
            Finishes("failed") /\ UNCHANGED <<ws, attempt, first>>
       [] batch = "ok" /\ action.outputs \subseteq DOMAIN ws /\ ~check ->
            Finishes("ok") /\ first' = OutputsNow /\ UNCHANGED <<ws, attempt>>
       [] batch = "ok" /\ action.outputs \subseteq DOMAIN ws /\ check ->
            /\ attempt' = 2 /\ first' = OutputsNow
            /\ ws' = Sans(ws, Under(ws, action.cleaned))
            /\ stage' = IF Hermetic THEN "prepare" ELSE "run"
            /\ UNCHANGED verdict
  /\ UNCHANGED <<choices, saved, tree, batch, todo, kills>>

VerifyDeterminism ==
  /\ stage = "collect" /\ attempt = 2
  /\ Finishes(IF batch = "ok" /\ first = OutputsNow THEN "ok" ELSE "failed")
  /\ UNCHANGED <<choices, ws, saved, tree, attempt, batch, todo, first, kills>>

\* A kill leaves the tree where it is, which nothing reads.
Kill ==
  /\ stage # "idle" /\ kills < MaxKills /\ kills' = kills + 1 /\ stage' = "idle"
  /\ UNCHANGED <<choices, ws, saved, tree, attempt, batch, todo, first, verdict>>

IsoInit ==
  /\ action \in Actions /\ program \in Programs /\ ws \in Trees
  /\ mode \in Modes /\ check \in BOOLEAN
  /\ \E supported \in Supported, request \in Materialize :
       strategy = Selected(request, supported)
  /\ strategy # None
  /\ saved = ws /\ tree = None /\ stage = "idle" /\ attempt = 1 /\ batch = "ok" /\ todo = {}
  /\ first = None /\ verdict = None /\ kills = 0

IsoNext ==
  \/ BeginBuild \/ Prepare \/ Run \/ VerifyLinks \/ MoveFile \/ MoveDir \/ DropTree
  \/ Collect \/ VerifyDeterminism \/ Kill

-----------------------------------------------------------------------------
(* Properties *)

\* "One definition is what makes their verdicts comparable" (sandbox.rs:11): an action
\* sees nothing in its tree that the namespace hides, and the namespace shows more only
\* of what is in directories that it writes to, and of frost's and git's own state.
OneVisibility ==
  command = "isolate" /\ stage = "idle" =>
    LET hidden == SandboxSees(ws) \ HermeticSees(ws) IN
    /\ HermeticSees(ws) \subseteq SandboxSees(ws)
    /\ hidden \subseteq Under(ws, Writable \cup Skipped)

Answerable(files) ==
  action.outputs \cup action.depfile \cup Under(files, action.owned \cup action.cleaned)

\* "Moves what the action is answerable for ... back" (hermetic.rs:8), and nothing else:
\* whatever a program writes in its tree, and wherever it is killed, the rest of the
\* workspace is as it was; and where it can spoil its inputs through a link, the
\* action fails.
NothingElseIsTouched ==
  command = "isolate" /\ Hermetic =>
    LET rest == (DOMAIN ws \cup DOMAIN saved) \ (Answerable(ws) \cup Answerable(saved)) IN
    \/ Only(ws, rest) = Only(saved, rest)
    \/ strategy = "hardlink" /\ verdict # "ok" /\ program.dirties # {}

\* "Anything it resolved to an absolute path inside the tree is the workspace file of the
\* same relative name" (hermetic.rs:129), whatever action writes the report.
ReportsAreRebased ==
  command = "isolate" /\ verdict = "ok" /\ Hermetic =>
    \A p \in action.depfile \cap DOMAIN ws : ws[p].root = "workspace"

\* Reports that no directory that is published later, and no output, has over them.
Reports == {p \in action.depfile \ action.outputs : \A d \in action.cleaned : ~Within(d, p)}

\* A success is of this run and of what the action sees: every output was made from
\* files as they are, whether or not an earlier run was killed, and the report names
\* files of the workspace.
SuccessIsOfThisRun ==
  verdict = "ok" /\ Hermetic /\ ~action.preserve =>
    /\ \A p \in DOMAIN first \cap program.makes :
         first[p].of = Only(saved, DOMAIN first[p].of)
    /\ DOMAIN first \subseteq program.makes
    /\ \A p \in Reports \cap DOMAIN ws : ws[p].root = "workspace"

\* "The only place that claim is tested rather than assumed" (determinism.rs:5): a
\* program that makes other bytes, or files of other names, never passes, wherever
\* earlier runs were killed, unless it is given what those left.
CheckFindsDifferences ==
  check /\ verdict = "ok" /\ ~action.preserve =>
    ~program.random /\ (program.renames => Under(ws, action.owned) = {})

\* An isolated action sees what it may see and changes what it may change.
IsolationHolds == OneVisibility /\ NothingElseIsTouched

\* What an isolated run and the determinism check report is so.
VerdictsAreTrue == SuccessIsOfThisRun /\ CheckFindsDifferences
=============================================================================

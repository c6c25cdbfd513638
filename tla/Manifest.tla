------------------------------ MODULE Manifest ------------------------------
(* What a workspace declares: the root manifest, those of its packages, and   *)
(* what loading makes of them.  Paths and packages are sequences of segments, *)
(* the root package being empty; a label is <<package, name>>.  The order of  *)
(* names in a sorted list is some fixed order.                                *)
EXTENDS Naturals, SequencesExt, TLC

CONSTANTS
  Labels,             \* all labels a workspace may declare, in order
  Platforms,          \* [platform.*] sections
  Tools,              \* tools of the root [toolchain]: name -> path, <<>> if not in the workspace
  PlatformTools,      \* per platform, the tools it adds or replaces
  Kofunc,             \* platforms with a kofunc
  Groups,             \* [visibility.*]: name -> rules
  Fetches,            \* [fetch.*]: name -> vendor_dir
  Materialized,       \* those whose tree is there, made for what is declared
  DefaultTargets,     \* default_targets of the root [workspace], {} if there are none
  Disk,               \* the source files there are
  StampPrefix,        \* stamp keys with the stable prefix
  None

Host == "host"
ASSUME PlatformAssumption == Host \notin Platforms
Config == "${config}"
CcKinds == {"cc_binary", "cc_library", "cc_test"}
LabelSet == ToSet(Labels)

-----------------------------------------------------------------------------
(* One target, as it is written and as it is built.  Only fields that reach   *)
(* paths, edges or admission are kept: flags and argument texts are not, but  *)
(* an argument, or a part of the shell text `cmd`, that refers to something is  *)
(* a record there.                                                            *)

Blank ==
  [kind |-> "cc_library", srcs |-> <<>>, deps |-> <<>>, inputs |-> <<>>, outputs |-> <<>>,
   outputDirs |-> <<>>, cleanDirs |-> <<>>, depfile |-> None, cmd |-> None, tool |-> None,
   steps |-> <<>>, args |-> <<>>, env |-> {}, envRefs |-> <<>>, passEnv |-> <<>>,
   preserve |-> FALSE, shards |-> None, retries |-> None, fetches |-> <<>>,
   visibility |-> None, overlays |-> <<>>, cpu |-> 1, exclusive |-> FALSE]

Var(name) == [var |-> name, of |-> None]
Ref(name, what) == [var |-> name, of |-> what]

\* A dependency as it is written.
Local(name) == [form |-> "local", package |-> <<>>, name |-> name]
Absolute(package, name) == [form |-> "absolute", package |-> package, name |-> name]

\* validate_rel_path: no empty segment, no "..", and something is left without ".".
ValidPath(path) ==
  /\ path # <<>> /\ "" \notin ToSet(path) /\ ".." \notin ToSet(path)
  /\ ToSet(path) # {"."}
Normalized(path) == SelectSeq(path, LAMBDA segment : segment # ".")
NormalizedAll(paths) == [i \in DOMAIN paths |-> Normalized(paths[i])]

AllPathsValid(raw) ==
  \A path \in UNION {ToSet(raw.srcs), ToSet(raw.inputs), ToSet(raw.outputs),
                     ToSet(raw.outputDirs), ToSet(raw.cleanDirs)}
                \cup (IF raw.depfile = None THEN {} ELSE {raw.depfile}) : ValidPath(path)

Configured(path) == Config \in ToSet(path)
Inside(path, dir) == IsStrictPrefix(dir, path)

\* has_command_fields
HasCommandFields(raw) ==
  \/ raw.tool # None \/ raw.args # <<>> \/ raw.env # {} \/ raw.envRefs # <<>>
  \/ raw.passEnv # <<>> \/ raw.steps # <<>> \/ raw.cleanDirs # <<>> \/ raw.preserve
  \/ raw.depfile # None \/ raw.outputDirs # <<>>

NoGenruleFields(raw) == raw.cmd = None /\ raw.inputs = <<>> /\ raw.outputs = <<>>
EnvIsConsistent(raw) ==
  IsInjective(raw.passEnv) /\ ToSet(raw.passEnv) \cap raw.env = {}

\* The directories of one command do not overlap with what else it writes.
OwnsItsDirs(raw) ==
  \A dir \in ToSet(raw.outputDirs) :
    /\ \A other \in ToSet(raw.outputDirs) \cup ToSet(raw.outputs) : ~Inside(other, dir)
    /\ \A clean \in ToSet(raw.cleanDirs) : ~Inside(clean, dir) /\ clean # dir
    /\ raw.depfile # None => ~Inside(raw.depfile, dir)

CcFieldsOK(raw) == raw.srcs # <<>> /\ NoGenruleFields(raw) /\ ~HasCommandFields(raw)
KofunFieldsOK(raw) == Len(raw.srcs) = 1 /\ NoGenruleFields(raw) /\ ~HasCommandFields(raw)
GenruleFieldsOK(raw) ==
  raw.cmd # None /\ raw.outputs # <<>> /\ raw.srcs = <<>> /\ ~HasCommandFields(raw)
TestFieldsOK(raw) ==
  /\ (raw.cmd = None) # (raw.tool = None) /\ raw.outputs = <<>> /\ raw.srcs = <<>>
  /\ raw.cmd # None => ~HasCommandFields(raw)
  /\ raw.cmd = None => /\ raw.steps = <<>> /\ raw.cleanDirs = <<>> /\ ~raw.preserve
                   /\ raw.depfile = None /\ EnvIsConsistent(raw)
CommandFieldsOK(raw) ==
  /\ raw.tool # None /\ (raw.outputs # <<>> \/ raw.outputDirs # <<>>)
  /\ \A path \in UNION {ToSet(raw.outputs), ToSet(raw.outputDirs), ToSet(raw.cleanDirs)} :
       Configured(path)
  /\ raw.depfile # None => Configured(raw.depfile)
  /\ OwnsItsDirs(raw) /\ raw.cmd = None /\ raw.srcs = <<>> /\ EnvIsConsistent(raw)

\* build_target
TargetOK(raw) ==
  /\ raw.cpu # 0
  /\ raw.shards # None => raw.kind \in {"test", "cc_test"} /\ raw.shards # 0
  /\ raw.retries # None => raw.kind \in {"test", "cc_test"} /\ raw.retries <= 9
  /\ AllPathsValid(raw)
  /\ CASE raw.kind \in CcKinds      -> CcFieldsOK(raw)
       [] raw.kind = "kofun_binary" -> KofunFieldsOK(raw)
       [] raw.kind = "genrule"      -> GenruleFieldsOK(raw)
       [] raw.kind = "test"         -> TestFieldsOK(raw)
       [] raw.kind = "command"      -> CommandFieldsOK(raw)

-----------------------------------------------------------------------------
(* Loading *)

PrefixPath(package, path) == package \o path

\* resolve_label, and what `assemble` does to the labels of the root.
ResolveLabel(dep, package) ==
  IF dep.form = "absolute" THEN <<dep.package, dep.name>> ELSE <<package, dep.name>>

\* Labels of a platform section are compared as they are written: a name without
\* a package is the name of a root target, wherever it is written.
Unresolved(dep) == ResolveLabel(dep, <<>>)

InTree(path, tree) == IsPrefix(tree, path)
VendorDirs == {Fetches[name] : name \in DOMAIN Fetches}

\* expand_paths: a "*" stands for the files of its directory, without those of
\* fetched trees; the result is sorted and without duplicates.
HasGlob(path) == Last(path) = "*"
GlobMatches(path) ==
  {file \in Disk : /\ Len(file) = Len(path) /\ Front(file) = Front(path)
                   /\ \A dir \in VendorDirs : ~InTree(file, dir)}
Expansion(package, path) ==
  IF HasGlob(path) THEN GlobMatches(PrefixPath(package, path)) ELSE {PrefixPath(package, path)}
ExpandPaths(package, paths) == SetToSeq(UNION {Expansion(package, p) : p \in ToSet(paths)})
GlobsMatch(package, paths) == \A path \in ToSet(paths) : Expansion(package, path) # {}

\* expand_manifest_paths and the rest of what `assemble` does to a target.  A
\* platform section is taken over as it is: its paths are neither prefixed nor
\* expanded, and its labels not resolved.
Built(raw, package) ==
  LET prefixed(paths) ==
        [i \in DOMAIN paths |-> PrefixPath(package, Normalized(paths[i]))]
  IN
  [raw EXCEPT
     !.srcs = ExpandPaths(package, NormalizedAll(raw.srcs)),
     !.inputs = ExpandPaths(package, NormalizedAll(raw.inputs)),
     !.outputs = prefixed(raw.outputs),
     !.outputDirs = prefixed(raw.outputDirs),
     !.cleanDirs = prefixed(raw.cleanDirs),
     !.depfile = IF @ = None THEN None ELSE PrefixPath(package, Normalized(@)),
     !.deps = [i \in DOMAIN raw.deps |-> ResolveLabel(raw.deps[i], package)],
     !.overlays = [p \in DOMAIN raw.overlays |->
        [raw.overlays[p] EXCEPT
           !.deps = IF @ = None THEN None ELSE [i \in DOMAIN @ |-> Unresolved(@[i])]]],
     !.shards = IF @ = None THEN 1 ELSE @,
     !.retries = IF @ = None THEN 0 ELSE @]

Assembles(raws) ==
  \A t \in DOMAIN raws :
    /\ TargetOK(raws[t])
    /\ GlobsMatch(t[1], NormalizedAll(raws[t].srcs))
    /\ GlobsMatch(t[1], NormalizedAll(raws[t].inputs))
    /\ raws[t].kind = "kofun_binary" => Len(Built(raws[t], t[1]).srcs) = 1

\* for_platform: sources and dependencies of a section replace.
ForPlatform(target, platform) ==
  IF platform \notin DOMAIN target.overlays THEN target
  ELSE LET overlay == target.overlays[platform]
           or(value, default) == IF value = None THEN default ELSE value
       IN [target EXCEPT !.srcs = or(overlay.srcs, @), !.deps = or(overlay.deps, @)]

\* toolchain_for, as far as tools are concerned.
ToolsFor(platform) == IF platform = Host THEN Tools ELSE PlatformTools[platform] @@ Tools

\* The dependencies of a target on any platform.
AllDeps(target) ==
  ToSet(target.deps)
    \cup UNION {ToSet(target.overlays[p].deps) :
                  p \in {p \in DOMAIN target.overlays : target.overlays[p].deps # None}}

ValidDependencies(targets) ==
  \A t \in DOMAIN targets : AllDeps(targets[t]) \subseteq DOMAIN targets \ {t}

\* visibility.rs.  A rule: everywhere, a package with what is below it, one label,
\* or a group of such rules.
RuleAdmits(rule, label) ==
  CASE rule.kind = "everywhere" -> TRUE
    [] rule.kind = "subtree"    -> IsPrefix(rule.what, label[1])
    [] rule.kind = "target"     -> label = rule.what
    [] rule.kind = "group"      -> FALSE
Admits(rule, label) ==
  IF rule.kind = "group"
  THEN \E member \in ToSet(Groups[rule.what]) : RuleAdmits(member, label)
  ELSE RuleAdmits(rule, label)

\* visibility::admits
VisibleTo(targets, dep, label) ==
  \/ targets[dep].visibility = None
  \/ dep[1] = label[1]
  \/ \E rule \in ToSet(targets[dep].visibility) : Admits(rule, label)

ValidVisibility(targets) ==
  /\ \A g \in DOMAIN Groups : \A rule \in ToSet(Groups[g]) : rule.kind # "group"
  /\ \A t \in DOMAIN targets : targets[t].visibility # None =>
       \A rule \in ToSet(targets[t].visibility) :
         rule.kind = "group" => rule.what \in DOMAIN Groups
  /\ \A t \in DOMAIN targets : \A dep \in AllDeps(targets[t]) : VisibleTo(targets, dep, t)

ValidPlatformOverlays(targets) ==
  \A t \in DOMAIN targets : DOMAIN targets[t].overlays \subseteq Platforms \cup {Host}

ValidFetchReferences(targets) ==
  \A t \in DOMAIN targets :
    /\ IsInjective(targets[t].fetches) /\ ToSet(targets[t].fetches) \subseteq DOMAIN Fetches
    /\ \A dir \in VendorDirs :
         \A path \in UNION {ToSet(targets[t].outputs), ToSet(targets[t].outputDirs),
                            ToSet(targets[t].cleanDirs)}
                       \cup (IF targets[t].depfile = None THEN {} ELSE {targets[t].depfile}) :
           ~InTree(path, dir) /\ ~InTree(dir, path)

\* default_targets: what is built when nothing is named.
DefaultsOf(raws) ==
  LET root == {t \in DOMAIN raws : t[1] = <<>>}
      binaries == {t \in root : raws[t].kind \in {"cc_binary", "kofun_binary"}}
  IN IF DefaultTargets # {} THEN DefaultTargets
     ELSE IF binaries # {} THEN binaries ELSE root

\* resolve_fetch_inputs: the trees have to be there; their files, the receipt
\* included, are inputs.
FetchedTreesOK(targets) == \A t \in DOMAIN targets : ToSet(targets[t].fetches) \subseteq Materialized
FetchInputs(target) ==
  SetToSeq({file \in Disk : \E name \in ToSet(target.fetches) : InTree(file, Fetches[name])})

\* load_reporting
Loads(raws) ==
  /\ Assembles(raws)
  /\ LET targets == [t \in DOMAIN raws |-> Built(raws[t], t[1])] IN
     /\ ValidDependencies(targets) /\ DefaultsOf(raws) \subseteq DOMAIN raws
     /\ ValidVisibility(targets) /\ ValidPlatformOverlays(targets)
     /\ ValidFetchReferences(targets) /\ FetchedTreesOK(targets)
Loaded(raws) == [t \in DOMAIN raws |-> Built(raws[t], t[1])]
=============================================================================

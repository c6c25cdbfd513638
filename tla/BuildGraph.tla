----------------------------- MODULE BuildGraph -----------------------------
(* From a loaded workspace to the graph of actions of one configuration: the  *)
(* targets are ordered by their dependencies and elaborated one at a time,    *)
(* then the whole graph is checked.  A workspace is elaborated for one        *)
(* configuration after another; their trees lie on disk side by side.         *)
EXTENDS Manifest

CONSTANTS
  Workspaces,         \* the workspaces: label -> target as written
  Configs,            \* the configurations: platform, profile, coverage
  Profiles,           \* [profile.*] sections
  Fold(_)             \* the lower-case form of a path

ASSUME ConfigAssumption ==
  \A c \in Configs : c.platform \in Platforms \cup {Host} /\ c.coverage \in BOOLEAN

VARIABLES
  workspace, config, phase,
  targets,            \* the loaded manifest
  order,              \* what is left of the elaboration order
  actions,            \* the actions so far; an ActionId is a position
  nodes,              \* per elaborated target, its TargetNode and what it exports
  finished            \* per configuration done, what its actions write and own

graph == <<targets, order, actions, nodes>>
vars == <<workspace, config, phase, graph, finished>>

NoConfig == [platform |-> Host, profile |-> "debug", coverage |-> FALSE]

Init ==
  /\ workspace \in Workspaces
  /\ config = NoConfig /\ phase = "written" /\ finished = <<>>
  /\ targets = <<>> /\ order = <<>> /\ actions = <<>> /\ nodes = <<>>

-----------------------------------------------------------------------------
(* Paths *)

ProfileOf(c) == IF c.coverage THEN c.profile \o "+coverage" ELSE c.profile

\* Mutant: a coverage build shares the tree of the ordinary one.
MutTree(c) == IF c.platform = Host THEN <<c.profile>> ELSE <<c.platform, c.profile>>

\* paths::configured
Tree(c) == IF c.platform = Host THEN <<ProfileOf(c)>> ELSE <<c.platform, ProfileOf(c)>>

\* expand_config_template
Expand(path) ==
  FlattenSeq([i \in DOMAIN path |-> IF path[i] = Config THEN Tree(config) ELSE <<path[i]>>])
ExpandAll(paths) == [i \in DOMAIN paths |-> Expand(paths[i])]

\* path_key: packages and name joined by "_".
PathKey(t) == FoldRight(LAMBDA segment, rest : segment \o "_" \o rest, t[1], t[2])

Suffixed(path, suffix) == [path EXCEPT ![Len(path)] = @ \o suffix]
ObjectOf(t, src) ==
  LET under == <<".frost", "obj">> \o Tree(config) \o <<PathKey(t)>>
  IN IF config.coverage
     THEN Append(under, Last(src) \o "-" \o ToString(<<t, src>>) \o ".o")
     ELSE Suffixed(under \o src, ".o")
NotesOf(t, src) ==
  <<".frost", "obj">> \o Tree(config)
    \o <<PathKey(t), Last(src) \o "-" \o ToString(<<t, src>>) \o ".gcno">>
BinaryPath(t) == <<".frost", "bin">> \o Tree(config) \o <<PathKey(t)>>
LibraryPath(t) == <<".frost", "lib">> \o Tree(config) \o <<"lib" \o PathKey(t) \o ".a">>
TreeStamp(t) == <<".frost", "tree">> \o Tree(config) \o <<PathKey(t), "contents">>
IsTreeStamp(path) == IsPrefix(<<".frost", "tree">>, path)

\* test_shards: a test of one shard has the paths of an unsharded one.
ShardDir(shards, i) ==
  IF shards = 1 THEN <<>> ELSE <<"shard-" \o ToString(i) \o "-of-" \o ToString(shards)>>
TestStamp(t, shards, i) ==
  <<".frost", "test">> \o Tree(config) \o <<PathKey(t)>> \o ShardDir(shards, i) \o <<"passed">>
CounterDir(t, shards, i) ==
  <<".frost", "coverage">> \o Tree(config) \o <<PathKey(t)>> \o ShardDir(shards, i) \o <<"gcda">>
CounterStamp(t, shards, i) ==
  <<".frost", "tree">> \o Tree(config) \o <<"coverage", PathKey(t)>> \o ShardDir(shards, i)
    \o <<"contents">>
Tracefile(t) == <<".frost", "coverage">> \o Tree(config) \o <<PathKey(t) \o ".lcov">>

-----------------------------------------------------------------------------
(* Order *)

\* toposort_targets: depth first over the dependencies written at the top level,
\* platform sections left out, from each target in order.
DependsOn ==
  LET step[n \in Nat, t \in DOMAIN targets] ==
        IF n = 0 THEN {t}
        ELSE {t} \cup UNION {step[n - 1, d] : d \in ToSet(targets[t].deps)}
  IN [t \in DOMAIN targets |-> UNION {step[Len(Labels), d] : d \in ToSet(targets[t].deps)}]
Cyclic == LET below == DependsOn IN \E t \in DOMAIN targets : t \in below[t]

Toposort ==
  LET visit[n \in Nat, t \in DOMAIN targets, done \in Seq(DOMAIN targets)] ==
        IF t \in ToSet(done) \/ n = 0 THEN done
        ELSE Append(FoldLeft(LAMBDA before, d : visit[n - 1, d, before], done, targets[t].deps), t)
  IN FoldLeft(LAMBDA done, t : IF t \in DOMAIN targets THEN visit[Len(Labels), t, done] ELSE done,
              <<>>, Labels)

-----------------------------------------------------------------------------
(* What a target gets from those below it *)

\* Mutant: only the exports of direct dependencies.
MutFlatten(field, own, deps) ==
  own \o FlattenSeq([i \in DOMAIN deps |-> nodes[deps[i]][field]])

\* SharedSet::flatten of the set that joins `own` with the exports of `deps`: own
\* entries first, then parents in preorder, each set visited once.
Flatten(field, own, deps) ==
  LET step(s) ==
        IF s.stack = <<>> THEN s
        ELSE LET t == Head(s.stack) IN
             IF t \in s.visited THEN [s EXCEPT !.stack = Tail(@)]
             ELSE [out |-> s.out \o SelectSeq(nodes[t][field], LAMBDA v : v \notin ToSet(s.out)),
                   visited |-> s.visited \cup {t},
                   stack |-> nodes[t].deps \o Tail(s.stack)]
      walk[n \in Nat] ==
        IF n = 0 THEN [out |-> own, visited |-> {}, stack |-> deps] ELSE step(walk[n - 1])
  IN walk[Len(deps) + Cardinality(DOMAIN nodes) * (1 + Len(Labels))].out

DepOutputs(t) == FlattenSeq([i \in DOMAIN t.deps |-> nodes[t.deps[i]].outputs])

\* dep_output_paths
Nameable(dep) == SelectSeq(nodes[dep].outputs, LAMBDA path : ~IsTreeStamp(path))

\* Mutant: any elaborated target can be referred to.
MutReferable(t, dep) == dep \in DOMAIN nodes /\ Nameable(dep) # <<>>

\* dep_reference
Referable(t, dep) == dep \in ToSet(t.deps) /\ Nameable(dep) # <<>>

\* Whether the reference in an argument resolves (expand_command_args,
\* expand_test_args, expand_genrule_cmd, expand_env_dep_refs), and the paths it
\* puts there.
Resolves(t, arg) ==
  CASE arg.var = "dep"         -> Referable(t, arg.of) /\ Len(Nameable(arg.of)) = 1
    [] arg.var = "deps:"       -> Referable(t, arg.of)
    [] arg.var = "out"         -> t.kind # "test" /\ t.outputs # <<>>
    [] arg.var = "output_dir"  -> t.kind = "command" /\ t.outputDirs # <<>>
    [] arg.var = "clean_dir"   -> t.kind = "command" /\ t.cleanDirs # <<>>
    [] arg.var = "depfile"     -> t.kind = "command" /\ t.depfile # None
    [] arg.var = "stamp"       -> t.kind # "genrule"
    [] arg.var \in {"in", "deps"} -> TRUE
Substituted(t, arg) ==
  CASE arg.var \in {"dep", "deps:"} -> Nameable(arg.of)
    [] arg.var = "in"          -> t.inputs
    [] arg.var = "deps"        -> DepOutputs(t)
    [] OTHER                   -> <<>>
References(t) == IF t.cmd = None THEN t.args ELSE t.cmd
ArgsResolve(t) ==
  /\ \A arg \in ToSet(References(t)) : Resolves(t, arg)
  /\ \A dep \in ToSet(t.envRefs) : Resolves(t, Ref("dep", dep))
Named(t) ==
  FlattenSeq([i \in DOMAIN References(t) |-> Substituted(t, References(t)[i])])
    \o FlattenSeq([i \in DOMAIN t.envRefs |-> Substituted(t, Ref("dep", t.envRefs[i]))])

\* collect_stamps
StampKeys(t) == {arg.of : arg \in {a \in ToSet(References(t)) : a.var = "stamp"}}
StableStamps(t) == StampKeys(t) \cap StampPrefix
VolatileStamps(t) == StampKeys(t) \ StampPrefix

\* A tool is a file of the workspace, or outside it.
ToolInput(tool) == LET path == ToolsFor(config.platform)[tool] IN
  IF path = <<>> THEN <<>> ELSE <<path>>
Configures(tool) == tool \in DOMAIN ToolsFor(config.platform)

-----------------------------------------------------------------------------
(* Actions of the graph *)

Action(kind, t, detail) ==
  [id |-> <<kind, t, detail>>, kind |-> kind, target |-> t, inputs |-> <<>>,
   orderOnly |-> <<>>, outputs |-> <<>>, outputDirs |-> <<>>, cleanDirs |-> <<>>,
   named |-> <<>>, volatile |-> {}, cpu |-> targets[t].cpu, exclusive |-> targets[t].exclusive]
Node(target, outputs, libs, gens) ==
  [deps |-> target.deps, outputs |-> outputs, libs |-> libs, gens |-> gens, notes |-> {}]

Unique(paths) == FoldLeft(LAMBDA out, p : IF p \in ToSet(out) THEN out ELSE Append(out, p),
                          <<>>, paths)
Writes(acts) == FlattenSeq([i \in DOMAIN acts |-> acts[i].outputs])
Mentions(a) == UNION {ToSet(a.inputs), ToSet(a.orderOnly), ToSet(a.outputs)}
Files == UNION {Mentions(actions[i]) : i \in DOMAIN actions}
Generated == ToSet(Writes(actions))
Producer(path) == CHOOSE i \in DOMAIN actions : path \in ToSet(actions[i].outputs)
Producers(i) ==
  {Producer(path) : path \in (ToSet(actions[i].inputs) \cup ToSet(actions[i].orderOnly))
                               \cap Generated}

Refuse == phase' = "refused" /\ UNCHANGED <<workspace, config, graph, finished>>

\* push_action for each action, the files of fetched trees, and the target's node.
\* An action whose output has a producer already is refused.
Emit(t, target, acts, node) ==
  LET fetched == FetchInputs(target)
      full == [i \in DOMAIN acts |-> [acts[i] EXCEPT !.inputs = @ \o
                 SelectSeq(fetched, LAMBDA path : path \notin ToSet(acts[i].inputs))]]
  IN IF IsInjective(Writes(actions \o acts))
     THEN /\ actions' = actions \o full
          /\ nodes' = nodes @@ (t :> node)
          /\ order' = Tail(order)
          /\ UNCHANGED <<workspace, config, phase, targets, finished>>
     ELSE Refuse

-----------------------------------------------------------------------------
(* The steps *)

\* load_reporting
Load ==
  /\ phase = "written"
  /\ IF Loads(workspace)
     THEN /\ targets' = Loaded(workspace) /\ phase' = "loaded"
          /\ UNCHANGED <<workspace, config, order, actions, nodes, finished>>
     ELSE Refuse

\* from_manifest_instrumented: an undeclared profile, once any is declared, and a
\* cycle of dependencies are refused.
Configure ==
  /\ phase = "loaded"
  /\ \E c \in Configs \ DOMAIN finished :
       /\ config' = c
       /\ IF (c.profile \in Profiles \cup {"debug"} \/ Profiles = {}) /\ ~Cyclic
          THEN phase' = "elaborating" /\ order' = Toposort
          ELSE phase' = "refused" /\ UNCHANGED order
  /\ UNCHANGED <<workspace, targets, actions, nodes, finished>>

Current == ForPlatform(targets[Head(order)], config.platform)
Elaborating(kinds) ==
  /\ phase = "elaborating" /\ order # <<>> /\ Current.kind \in kinds
  /\ ToSet(Current.deps) \subseteq DOMAIN nodes

\* `map[dep]`: a platform section may name a target that comes later.
MissDependency ==
  /\ phase = "elaborating" /\ order # <<>>
  /\ ~(ToSet(Current.deps) \subseteq DOMAIN nodes)
  /\ phase' = "panicked" /\ UNCHANGED <<workspace, config, graph, finished>>

ElaborateGenrule ==
  LET t == Head(order)
      target == Current
      act == [Action("genrule", t, <<>>) EXCEPT
                !.inputs = target.inputs \o DepOutputs(target), !.outputs = target.outputs,
                !.named = Named(target)]
  IN
  /\ Elaborating({"genrule"})
  /\ IF ArgsResolve(target)
     THEN Emit(t, target, <<act>>, Node(target, target.outputs, <<>>, target.outputs))
     ELSE Refuse

\* Each shard of a test is an action.
ElaborateTest ==
  LET t == Head(order)
      target == Current
      direct == target.tool # None
      tool == IF direct THEN ToolInput(target.tool) ELSE <<>>
      shard(i) == [Action("test", t, i) EXCEPT
                     !.inputs = Unique(target.inputs \o DepOutputs(target) \o tool),
                     !.outputs = <<TestStamp(t, target.shards, i)>>,
                     !.named = IF direct THEN Named(target) ELSE <<>>]
      acts == [i \in 1 .. target.shards |-> shard(i)]
      clash == target.shards > 1 /\ "TEST_SHARD_INDEX" \in target.env \cup ToSet(target.passEnv)
  IN
  /\ Elaborating({"test"})
  /\ IF (direct => Configures(target.tool) /\ ArgsResolve(target)) /\ ~clash
     THEN Emit(t, target, acts, Node(target, Writes(acts), <<>>, <<>>))
     ELSE Refuse

ElaborateCommand ==
  LET t == Head(order)
      target == Current
      tools == <<target.tool>> \o target.steps
      outputs == ExpandAll(target.outputs)
      stamped == outputs \o (IF target.outputDirs = <<>> THEN <<>> ELSE <<TreeStamp(t)>>)
      act == [Action("command", t, <<>>) EXCEPT
                !.inputs = Unique(target.inputs \o ToolInput(target.tool) \o DepOutputs(target)
                                    \o FlattenSeq([i \in DOMAIN target.steps |->
                                                     ToolInput(target.steps[i])])),
                !.outputs = stamped, !.outputDirs = ExpandAll(target.outputDirs),
                !.cleanDirs = ExpandAll(target.cleanDirs), !.named = Named(target),
                !.volatile = VolatileStamps(target)]
  IN
  /\ Elaborating({"command"})
  /\ IF (\A tool \in ToSet(tools) : Configures(tool)) /\ ArgsResolve(target)
     THEN Emit(t, target, <<act>>, Node(target, stamped, <<>>, outputs))
     ELSE Refuse

ElaborateKofun ==
  LET t == Head(order)
      target == Current
      emitted == <<".frost", "obj">> \o Tree(config) \o <<PathKey(t), "kofun.c">>
      act == [Action("kofun", t, <<>>) EXCEPT
                !.inputs = Unique(target.srcs \o DepOutputs(target)),
                !.outputs = <<BinaryPath(t), emitted>>, !.named = target.srcs]
  IN
  /\ Elaborating({"kofun_binary"})
  /\ IF config.platform \in Kofunc /\ Len(target.srcs) = 1
     THEN Emit(t, target, <<act>>, Node(target, <<BinaryPath(t)>>, <<>>, <<>>))
     ELSE Refuse

\* One compile per source, ordered after all generated files that may be included.
Compiles(t, target) ==
  LET gens == Flatten("gens", <<>>, target.deps) IN
  [i \in DOMAIN target.srcs |->
     [Action("compile", t, target.srcs[i]) EXCEPT
        !.inputs = <<target.srcs[i]>>, !.orderOnly = gens, !.named = <<target.srcs[i]>>,
        !.outputs = <<ObjectOf(t, target.srcs[i])>>
                      \o (IF config.coverage THEN <<NotesOf(t, target.srcs[i])>> ELSE <<>>)]]
Objects(t, target) == [i \in DOMAIN target.srcs |-> ObjectOf(t, target.srcs[i])]

\* The notes of a target and of all below it.
Notes(t, target) ==
  IF ~config.coverage THEN {}
  ELSE {NotesOf(t, src) : src \in ToSet(target.srcs)}
         \cup UNION {nodes[dep].notes : dep \in ToSet(target.deps)}

ElaborateLibrary ==
  LET t == Head(order)
      target == Current
      archive == [Action("archive", t, <<>>) EXCEPT
                    !.inputs = Objects(t, target), !.outputs = <<LibraryPath(t)>>,
                    !.named = Objects(t, target)]
      node == Node(target, <<LibraryPath(t)>>, <<LibraryPath(t)>>, <<>>)
  IN
  /\ Elaborating({"cc_library"})
  /\ Emit(t, target, Append(Compiles(t, target), archive),
          [node EXCEPT !.notes = Notes(t, target)])

Link(t, target) ==
  LET libs == Flatten("libs", <<>>, target.deps) IN
  [Action("link", t, <<>>) EXCEPT
     !.inputs = Objects(t, target) \o libs, !.outputs = <<BinaryPath(t)>>,
     !.named = Objects(t, target) \o libs]

\* Mutant: the link is pushed before the compiles.
MutElaborateBinary ==
  LET t == Head(order)
      target == Current
  IN
  /\ Elaborating({"cc_binary"})
  /\ Emit(t, target, <<Link(t, target)>> \o Compiles(t, target),
          [Node(target, <<BinaryPath(t)>>, <<>>, <<>>) EXCEPT !.notes = Notes(t, target)])

ElaborateBinary ==
  LET t == Head(order)
      target == Current
  IN
  /\ Elaborating({"cc_binary"})
  /\ Emit(t, target, Append(Compiles(t, target), Link(t, target)),
          [Node(target, <<BinaryPath(t)>>, <<>>, <<>>) EXCEPT !.notes = Notes(t, target)])

\* With coverage each shard owns and empties a directory of counters, whose stamp
\* is an output, and one more action merges them with the notes.
CcTestRuns(t, target) ==
  [i \in 1 .. target.shards |->
     [Action("test", t, i) EXCEPT
        !.inputs = <<BinaryPath(t)>>, !.named = <<BinaryPath(t)>>,
        !.outputs = <<TestStamp(t, target.shards, i)>>
                      \o (IF config.coverage THEN <<CounterStamp(t, target.shards, i)>> ELSE <<>>),
        !.outputDirs = IF config.coverage THEN <<CounterDir(t, target.shards, i)>> ELSE <<>>,
        !.cleanDirs = IF config.coverage THEN <<CounterDir(t, target.shards, i)>> ELSE <<>>]]
CoverageMerge(t, target) ==
  LET counters == [i \in 1 .. target.shards |-> CounterStamp(t, target.shards, i)]
      notes == SetToSeq(Notes(t, target))
  IN [Action("coverage", t, <<>>) EXCEPT
        !.inputs = counters \o <<BinaryPath(t)>> \o notes, !.outputs = <<Tracefile(t)>>,
        !.named = notes]

ElaborateCcTest ==
  LET t == Head(order)
      target == Current
      runs == CcTestRuns(t, target)
      merge == IF config.coverage THEN <<CoverageMerge(t, target)>> ELSE <<>>
      stamps == [i \in DOMAIN runs |-> runs[i].outputs[1]] \o Writes(merge)
  IN
  /\ Elaborating({"cc_test"})
  /\ Emit(t, target, Compiles(t, target) \o <<Link(t, target)>> \o runs \o merge,
          [Node(target, stamps, <<>>, <<>>) EXCEPT !.notes = Notes(t, target)])

\* validate_clean_dirs, validate_volatile_stamps, validate_case_portability
CleanDirsOK ==
  \A i \in DOMAIN actions : \A n \in DOMAIN actions[i].cleanDirs :
    LET dir == actions[i].cleanDirs[n] IN
    /\ \A path \in Files : ~InTree(path, dir)
    /\ \A j \in DOMAIN actions : \A m \in DOMAIN actions[j].cleanDirs :
         <<i, n>> = <<j, m>> \/ ~InTree(actions[j].cleanDirs[m], dir)
VolatileStampsOK ==
  \A i \in DOMAIN actions : actions[i].kind = "compile" =>
    \A p \in Producers(i) : actions[p].volatile = {}
CaseOK ==
  \A path \in Generated, other \in Files : Fold(path) = Fold(other) => path = other

\* What a finished graph leaves in the workspace.
Footprint ==
  [files |-> {path \in Generated : actions[Producer(path)].kind # "genrule"},
   dirs |-> UNION {ToSet(actions[i].outputDirs) \cup ToSet(actions[i].cleanDirs)
                     : i \in DOMAIN actions}]

Validate ==
  /\ phase = "elaborating" /\ order = <<>>
  /\ IF CleanDirsOK /\ VolatileStampsOK /\ CaseOK
     THEN /\ phase' = "ready" /\ finished' = finished @@ (config :> Footprint)
          /\ UNCHANGED <<workspace, config, graph>>
     ELSE Refuse

\* Another command line: the graph is made anew for another configuration.
Again ==
  /\ phase = "ready" /\ DOMAIN finished # Configs
  /\ phase' = "loaded" /\ config' = NoConfig
  /\ order' = <<>> /\ actions' = <<>> /\ nodes' = <<>>
  /\ UNCHANGED <<workspace, targets, finished>>

Next ==
  \/ Load \/ Configure \/ MissDependency
  \/ ElaborateGenrule \/ ElaborateTest \/ ElaborateCommand \/ ElaborateKofun
  \/ ElaborateLibrary \/ ElaborateBinary \/ ElaborateCcTest
  \/ Validate \/ Again

Spec == Init /\ [][Next]_vars
=============================================================================

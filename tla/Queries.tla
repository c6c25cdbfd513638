------------------------------ MODULE Queries -------------------------------
(* Questions about a finished graph: what a build of some targets consists of, *)
(* what depends on what, and who reads a file.                                *)
EXTENDS BuildGraph

ActionsOf(t) == {i \in DOMAIN actions : actions[i].target = t}

\* action_closure: the actions of the targets and, transitively, the producers of
\* what they read; an ordered set, in the order of their numbers.
ActionClosure(roots) ==
  LET wave[n \in Nat] ==
        IF n = 0 THEN UNION {ActionsOf(t) : t \in roots}
        ELSE LET before == wave[n - 1] IN before \cup UNION {Producers(i) : i \in before}
  IN wave[Len(actions)]

\* The closure of a target under a relation between targets, itself included.
Reached(root, Next1(_)) ==
  LET wave[n \in Nat] ==
        IF n = 0 THEN {root}
        ELSE LET before == wave[n - 1] IN before \cup UNION {Next1(t) : t \in before}
  IN wave[Cardinality(DOMAIN nodes)]

\* Mutant: reverse dependencies stop at the direct ones.
MutRdepsClosure(root) == {root} \cup {t \in DOMAIN nodes : root \in ToSet(nodes[t].deps)}

DepsClosure(root) == Reached(root, LAMBDA t : ToSet(nodes[t].deps))
RdepsClosure(root) == Reached(root, LAMBDA t : {u \in DOMAIN nodes : t \in ToSet(nodes[u].deps)})

\* somepath: depth first, no target visited twice.
SomePath(from, to) ==
  LET visit[n \in Nat, t \in DOMAIN nodes, seen \in SUBSET DOMAIN nodes] ==
        IF t \in seen THEN [path |-> <<>>, seen |-> seen]
        ELSE IF t = to THEN [path |-> <<t>>, seen |-> seen \cup {t}]
        ELSE FoldLeft(LAMBDA acc, dep :
                        IF acc.path # <<>> \/ n = 0 THEN acc
                        ELSE LET below == visit[n - 1, dep, acc.seen] IN
                             [below EXCEPT !.path = IF @ = <<>> THEN @ ELSE <<t>> \o @],
                      [path |-> <<>>, seen |-> seen \cup {t}], nodes[t].deps)
  IN visit[Cardinality(DOMAIN nodes), from, {}].path

\* allpaths: every simple path, until `limit` of them are found.
AllPaths(from, to, limit) ==
  LET visit[n \in Nat, t \in DOMAIN nodes, acc \in [path : Seq(DOMAIN nodes), found : SUBSET Seq(DOMAIN nodes)]] ==
        LET here == Append(acc.path, t) IN
        IF t \in ToSet(acc.path) \/ n = 0 \/ Cardinality(acc.found) >= limit THEN acc
        ELSE IF t = to THEN [acc EXCEPT !.found = @ \cup {here}]
        ELSE [FoldLeft(LAMBDA a, dep : visit[n - 1, dep, a], [acc EXCEPT !.path = here],
                       nodes[t].deps) EXCEPT !.path = acc.path]
  IN visit[Cardinality(DOMAIN nodes) + 1, from, [path |-> <<>>, found |-> {}]].found

\* Mutant: order-only inputs are not declared inputs.
MutOwners(paths) ==
  {actions[i].target : i \in {i \in DOMAIN actions : ToSet(actions[i].inputs) \cap paths # {}}}

\* owners: the targets with an action that declares one of the paths.
Owners(paths) ==
  {actions[i].target : i \in {i \in DOMAIN actions :
     (ToSet(actions[i].inputs) \cup ToSet(actions[i].orderOnly)) \cap paths # {}}}

\* AttrFilter::matches and --kind: which targets of an answer are shown.
Matches(filter, t) ==
  CASE filter.attr = "kind" -> targets[t].kind \in filter.values
    [] filter.attr = "deps" -> ToSet(nodes[t].deps) \cap filter.values # {}
    [] filter.attr = "srcs" -> \E i \in ActionsOf(t) : ToSet(actions[i].inputs) \cap filter.values # {}
    [] filter.attr = "outputs" ->
         \/ ToSet(nodes[t].outputs) \cap filter.values # {}
         \/ \E i \in ActionsOf(t) : ToSet(actions[i].outputs) \cap filter.values # {}
Kept(filters) == {t \in DOMAIN nodes : \A filter \in filters : Matches(filter, t)}

\* "A filter drops members from each path rather than dropping the path."
Routes(from, to, limit, filters) ==
  {SelectSeq(path, LAMBDA t : t \in Kept(filters)) : path \in AllPaths(from, to, limit)} \ {<<>>}

\* run_query: what is listed.
Listed(query) ==
  LET found ==
        CASE query.function = "deps" -> DepsClosure(query.of)
          [] query.function = "rdeps" -> RdepsClosure(query.of)
          [] query.function = "somepath" -> ToSet(SomePath(query.of, query.to))
          [] query.function = "allpaths" ->
               UNION {ToSet(p) : p \in Routes(query.of, query.to, query.limit, query.filters)}
          [] query.function = "owners" -> Owners(query.paths)
          [] query.function = "targets" -> DOMAIN nodes
  IN found \cap Kept(query.filters)
ExitOf(query) == IF Listed(query) = {} THEN 1 ELSE 0

-----------------------------------------------------------------------------
(* Properties of finished graphs *)

\* A generated file that is read without a dependency on what makes it.
Undeclared ==
  {i \in DOMAIN actions : \E p \in Producers(i) :
     actions[p].target \notin DepsClosure(actions[i].target)}

\* graph.rs, action_closure: "in a valid dependency order".  Unless files are read
\* that no dependency leads to, every action comes after what makes its inputs,
\* whatever the platform sections replace, so that the scheduler can start.
ClosureIsOrdered ==
  phase = "ready" /\ Undeclared = {} =>
    \A i \in DOMAIN actions : \A p \in Producers(i) : p < i

\* What a command line names is there when it runs: paths put in place of a
\* reference to another target are inputs of the action ("Only declared
\* dependencies resolve ... so the build could run before that output existed").
NamedPathsAreInputs ==
  \A i \in DOMAIN actions :
    ToSet(actions[i].named) \cap Generated
      \subseteq ToSet(actions[i].inputs) \cup ToSet(actions[i].orderOnly)

\* Nothing is read before it is made, named or not.
ReadsAreOrdered == ClosureIsOrdered /\ NamedPathsAreInputs

\* Shared sets lose nothing and invent nothing along any chain or diamond: a
\* compile waits for exactly the files generated below its target, a link has
\* exactly the libraries below it, and a coverage merge the notes of every object
\* linked into the test.
ExportsReach ==
  phase = "ready" =>
    \A i \in DOMAIN actions :
      LET t == actions[i].target
          below == DepsClosure(t) \ {t}
          own == {actions[j].outputs[1] : j \in {j \in ActionsOf(t) : actions[j].kind = "compile"}}
          linked == UNION {ActionsOf(u) : u \in below \cup {t}}
      IN
      /\ actions[i].kind = "compile" =>
           ToSet(actions[i].orderOnly) = UNION {ToSet(nodes[u].gens) : u \in below}
      /\ actions[i].kind = "link" =>
           ToSet(actions[i].named) = own \cup UNION {ToSet(nodes[u].libs) : u \in below}
      /\ actions[i].kind = "coverage" =>
           ToSet(actions[i].named) = {actions[j].outputs[2] :
                j \in {j \in linked : actions[j].kind = "compile"}}

\* docs/guide/reference/cli.md: "outputs and caches are isolated per profile" and
\* per platform.  No configuration writes, owns or empties what another one
\* writes or owns, genrule outputs excepted, which have one place for all.  It
\* assumes that no profile has the name of a platform.
ConfigurationsApart ==
  \A c \in DOMAIN finished, d \in DOMAIN finished :
    c # d =>
      /\ finished[c].files \cap finished[d].files = {}
      /\ \A dir \in finished[c].dirs :
           \A path \in finished[d].files \cup finished[d].dirs : ~InTree(path, dir)

\* Queries without options but these.
Asking(function) ==
  [function |-> function, of |-> None, to |-> None, paths |-> {}, limit |-> 100, filters |-> {}]
Where(attr, values) == [attr |-> attr, values |-> values]

\* frost query, the question of a change: the targets that depend on the owners of
\* a file are all whose build reads it; and the listing filtered by an output names
\* the one target that makes it, which those that read it depend on.
AffectedIsComplete ==
  phase = "ready" /\ Undeclared = {} =>
    \A t \in DOMAIN nodes : \A i \in ActionClosure({t}) :
      \A path \in ToSet(actions[i].inputs) \cup ToSet(actions[i].orderOnly) :
        LET made == [Asking("targets") EXCEPT !.filters = {Where("outputs", {path})}] IN
        /\ \E owner \in Listed([Asking("owners") EXCEPT !.paths = {path}]) :
             t \in Listed([Asking("rdeps") EXCEPT !.of = owner])
        /\ path \in Generated =>
             /\ Listed(made) = {actions[Producer(path)].target}
             /\ Listed(made) \subseteq Listed([Asking("deps") EXCEPT !.of = t])

\* The four path queries give one answer, and all paths cover every edge between; a
\* filter takes nothing else from the routes than what it takes from the closures.
QueriesAgree ==
  phase = "ready" =>
    \A from \in DOMAIN nodes, to \in DOMAIN nodes :
      LET reaches == to \in DepsClosure(from)
          path == SomePath(from, to)
          paths == AllPaths(from, to, 100)
          isPath(p) == /\ p[1] = from /\ Last(p) = to /\ IsInjective(p)
                       /\ \A n \in 1 .. Len(p) - 1 : p[n + 1] \in ToSet(nodes[p[n]].deps)
          between(filters) == [Asking("allpaths") EXCEPT !.of = from, !.to = to, !.filters = filters]
      IN
      /\ reaches <=> from \in RdepsClosure(to)
      /\ reaches <=> path # <<>>
      /\ path # <<>> => isPath(path)
      /\ \A p \in paths : isPath(p)
      /\ reaches /\ from # to => \A u \in DepsClosure(from), v \in DOMAIN nodes :
           v \in ToSet(nodes[u].deps) /\ to \in DepsClosure(v) /\ u # to =>
             \E p \in paths : \E n \in 1 .. Len(p) - 1 : p[n] = u /\ p[n + 1] = v
      /\ \A t \in DOMAIN nodes :
           LET filters == {Where("kind", {targets[t].kind}), Where("deps", {to})} IN
           t \in Listed(between(filters)) <=>
             t # to /\ t \in DepsClosure(from) /\ to \in ToSet(nodes[t].deps)
      /\ ExitOf(between({})) = 0 <=> reaches

\* What queries answer is complete and consistent.
QueriesAreRight == AffectedIsComplete /\ QueriesAgree
=============================================================================

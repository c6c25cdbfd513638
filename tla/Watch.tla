-------------------------------- MODULE Watch --------------------------------
(* The developer loop: watch and dev rebuild when the workspace changes and   *)
(* replace the process they keep running; bazel-dev does so around Bazel; run *)
(* and debug build once and launch.  The build is a child of this process and *)
(* writes into the workspace that is watched.                                 *)
EXTENDS Naturals, Command

CONSTANTS
  Loops,              \* of {"watch", "dev", "bazel", "run", "debug"}
  Sources, Compiles(_),
  Manifests,          \* [loads, symbols, artifact, outputs, cleaned, owned]
  Tools,              \* on PATH
  Runners,            \* SUBSET BOOLEAN: is a runner or a debugger named
  MaxEvents           \* of edits, exits of the launched program and Ctrl-C

Loaded == [source : Sources, manifest : Manifests]

ASSUME WatchAssumption == None \notin [of : Loaded, alive : BOOLEAN]

VARIABLES
  front,              \* [loop, runner] the command line
  source, declared,   \* the workspace: its source, its manifest
  made,               \* what the outputs were made of: [source, manifest]
  channel,            \* notify's events that wait: [path, kind], the same one once
  at,                 \* where this process is
  read, code,         \* the child: what it has read, and its exit
  last,               \* what the child that ended last had read
  exclusions,         \* the manifest they are of
  changed,
  dev,                \* the launched program: [of, alive]
  running,            \* number of launched programs that run
  cancelled, events

workspace == <<source, declared>>
loopVars == <<at, read, code, last, exclusions, changed>>
watchVars == <<front, workspace, made, channel, loopVars, dev, running, cancelled, events>>

Once == {"run", "debug"}
Current == [source |-> source, manifest |-> declared]
Ended == {"stopped", "refused"}

WatchInit ==
  /\ front \in [loop : Loops, runner : Runners]
  /\ source \in Sources /\ declared \in Manifests
  /\ made = None /\ channel = {}
  /\ at = "plan" /\ read = None /\ code = None /\ last = None
  /\ exclusions = None /\ changed = {}
  /\ dev = None /\ running = 0 /\ cancelled = FALSE /\ events = 0

-----------------------------------------------------------------------------
(* What is launched *)

\* select_debugger
Debugger == IF front.loop = "debug" THEN "gdb" ELSE None

\* runtime_argv and language_debug_argv: the tool that an artifact needs, if any.
ToolOf(artifact) ==
  CASE artifact = "jar" -> IF front.loop = "debug" THEN "jdb" ELSE "java"
    [] artifact = "js" -> "node"
    [] artifact = "py" -> "python"
    [] OTHER -> Debugger

\* A wheel cannot be run, nor can what needs a tool that is not there.
Launchable(artifact) ==
  \/ front.runner
  \/ artifact # "whl" /\ ToolOf(artifact) \in Tools \cup {None}

\* target_runtime_output, with the graph of the manifest as it now is.
Artifact == declared.loads /\ made # None /\ declared.outputs = made.manifest.outputs

\* run_dev, run_target and run_debug need a graph, and the last one debug symbols.
Refused ==
  \/ front.loop \in Once \cup {"dev"} /\ ~declared.loads
  \/ front.loop = "debug" /\ ~declared.symbols

Plan ==
  /\ at = "plan" /\ at' = IF Refused THEN "refused" ELSE "build"
  /\ UNCHANGED <<front, workspace, made, channel, read, code, last, exclusions, changed,
                 dev,
                 running, cancelled, events>>

-----------------------------------------------------------------------------
(* The child: run_watch_build, bazel_build *)

Change(p) == [path |-> p, kind |-> "change"]
Writes(m) == m.outputs \cup m.cleaned \cup m.owned

ReadManifest ==
  /\ at = "build"
  /\ IF declared.loads THEN read' = Current /\ at' = "make" /\ UNCHANGED <<code, last>>
     ELSE read' = Current /\ code' = 1 /\ last' = Current /\ at' = "exited"
  /\ UNCHANGED <<front, workspace, made, channel, exclusions, changed, dev, running,
                 cancelled, events>>

\* A command runs if what it was made of is not what it would be made of now: outputs
\* are removed and made, and removed again if it fails; it also reads.
Make ==
  LET now == [read EXCEPT !.source = source] IN
  /\ at = "make" /\ at' = "exited" /\ read' = now /\ last' = now
  /\ IF made = now THEN code' = 0 /\ UNCHANGED <<made, channel>>
     ELSE /\ channel' = channel \cup {[path |-> "src", kind |-> "access"]}
                                \cup {Change(p) : p \in Writes(now.manifest)}
          /\ made' = IF Compiles(source) THEN now ELSE None
          /\ code' = IF Compiles(source) THEN 0 ELSE 1
  /\ UNCHANGED <<front, workspace, exclusions, changed, dev, running, cancelled, events>>

\* Mutant: events that came during the build are taken to be the build's.
MutBacklog == {}

Backlog == channel

\* The order differs for the first build.  A failure ends those that build once.
Exited ==
  LET first == exclusions = None IN
  /\ at = "exited"
  /\ at' = IF front.loop \in Once THEN IF code = 0 THEN "launch" ELSE "refused"
           ELSE IF first THEN IF code = 0 THEN "launch" ELSE "exclude"
           ELSE IF code = 0 THEN "exclude" ELSE "wait"
  /\ channel' = Backlog
  /\ UNCHANGED <<front, workspace, made, read, code, last, exclusions, changed, dev,
                 running,
                 cancelled, events>>

\* Mutant: the clean directories of the actions are left out.
MutExcluded == IF exclusions.loads THEN exclusions.outputs ELSE {}

\* watch_exclusions: the declared outputs and the clean directories of the graph, if it
\* loads; what commands leave in the directories they own is not among them.
Excluded == IF exclusions.loads THEN exclusions.outputs \cup exclusions.cleaned ELSE {}

Exclude ==
  /\ at = "exclude" /\ exclusions' = declared
  /\ at' = IF exclusions = None \/ code # 0 THEN "wait" ELSE "launch"
  /\ UNCHANGED <<front, workspace, made, channel, read, code, last, changed, dev, running,
                 cancelled, events>>

Alive == dev # None /\ dev.alive

\* Mutant: the program that runs is forgotten.
MutRunning(program) == running + (IF program = None THEN 0 ELSE 1)

\* stop_dev_process, for another program or for none.
Running(program) ==
  running - (IF Alive THEN 1 ELSE 0) + (IF program = None THEN 0 ELSE 1)

Replace(program) ==
  /\ running' = Running(program)
  /\ dev' = IF program = None THEN None ELSE [of |-> program, alive |-> TRUE]

\* watch and bazel-dev are told what to launch.
Argv ==
  \/ front.loop \in {"watch", "bazel"}
  \/ Artifact /\ Launchable(declared.artifact)

\* watch_run_argv and restart_dev_process.  Nothing is stopped when there is nothing
\* to launch.
Launch ==
  /\ at = "launch"
  /\ at' = IF front.loop \in Once THEN "stopped"
           ELSE IF exclusions = None THEN "exclude" ELSE "wait"
  /\ IF Argv THEN Replace(made) ELSE UNCHANGED <<dev, running>>
  /\ UNCHANGED <<front, workspace, made, channel, read, code, last, exclusions, changed,
                 cancelled, events>>

-----------------------------------------------------------------------------
(* The loop: run_watch, run_dev *)

\* watch_event_changes_files
Changes(event) == event.kind = "change"

\* relevant_watch_path, relevant_bazel_watch_path
Ignored == IF front.loop = "bazel" THEN UNION {Writes(m) : m \in Manifests} ELSE Excluded

Relevant(event) == IF Changes(event) /\ event.path \notin Ignored THEN {event.path} ELSE {}

\* The top of the loop, where a program that ended is noticed and a cancellation is.
First ==
  /\ at = "wait" /\ ~cancelled /\ at' = "gather"
  /\ \E event \in channel : changed' = Relevant(event) /\ channel' = channel \ {event}
  /\ dev' = IF Alive THEN dev ELSE None
  /\ UNCHANGED <<front, workspace, made, read, code, last, exclusions, running,
                 cancelled, events>>

\* An event that comes before the deadline, which a new path moves.
Gather ==
  /\ at = "gather"
  /\ \E event \in channel :
       changed' = changed \cup Relevant(event) /\ channel' = channel \ {event}
  /\ UNCHANGED <<front, workspace, made, at, read, code, last, exclusions, dev, running,
                 cancelled, events>>

Deadline ==
  /\ at = "gather" /\ at' = IF changed = {} THEN "wait" ELSE "build"
  /\ changed' = {}
  /\ UNCHANGED <<front, workspace, made, channel, read, code, last, exclusions, dev,
                 running,
                 cancelled, events>>

Stop ==
  /\ at = "wait" /\ cancelled /\ at' = "stopped" /\ Replace(None)
  /\ UNCHANGED <<front, workspace, made, channel, read, code, last, exclusions, changed,
                 cancelled, events>>

Step ==
  \/ Plan \/ ReadManifest \/ Make \/ Exited \/ Exclude \/ Launch
  \/ First \/ Gather \/ Deadline \/ Stop

-----------------------------------------------------------------------------
Happens == events < MaxEvents /\ events' = events + 1 /\ at \notin Ended

EditSource ==
  /\ Happens /\ source' \in Sources \ {source} /\ channel' = channel \cup {Change("src")}
  /\ UNCHANGED <<front, declared, made, loopVars, dev, running, cancelled>>

EditManifest ==
  /\ Happens /\ declared' \in Manifests \ {declared}
  /\ channel' = channel \cup {Change("manifest")}
  /\ UNCHANGED <<front, source, made, loopVars, dev, running, cancelled>>

ProgramExits ==
  /\ Happens /\ Alive /\ dev' = [dev EXCEPT !.alive = FALSE] /\ running' = running - 1
  /\ UNCHANGED <<front, workspace, made, channel, loopVars, cancelled>>

\* Ctrl-C: the handler of this process; the child gets it as well, and fails.
Cancel ==
  /\ Happens /\ ~cancelled /\ cancelled' = TRUE /\ front.loop \notin Once
  /\ IF at \in {"build", "make"} THEN at' = "exited" /\ code' = 1 ELSE UNCHANGED <<at, code>>
  /\ UNCHANGED <<front, workspace, made, channel, read, last, exclusions, changed, dev,
                 running>>

WatchNext == Step \/ EditSource \/ EditManifest \/ ProgramExits \/ Cancel

-----------------------------------------------------------------------------
(* Properties *)

\* "Restart stops the complete child process tree" (22_developer_loop.md): there is
\* never more than one launched program, and none is left behind a loop that ended.
OneProgram ==
  command = "watch" => running <= 1 /\ (at = "stopped" /\ front.loop \notin Once => running = 0)

\* A workspace that builds, or fails while the watcher knows all that is written.
Tractable ==
  \/ declared.loads /\ Compiles(source)
  \/ exclusions = declared /\ declared.owned = {}

\* "That prevents ... builds ... from retriggering the watch loop themselves"
\* (22_developer_loop.md).  Once nothing is edited any more, the loop comes to rest, on
\* a build that has read the workspace as it is: no edit is missed, though edits come
\* during builds, and no build causes builds without end.  The program, unless it
\* ended by itself or cannot be launched, is what the last good build made.
ComesToRest ==
  command = "watch" /\ <>[](Tractable \/ at \in Ended) =>
    <>[](\/ at \in Ended
         \/ at = "wait" /\ last = Current /\ (code = 0 /\ Alive /\ Argv => dev.of = Current))
=============================================================================

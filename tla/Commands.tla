------------------------------ MODULE Commands ------------------------------
(* The front ends of frost: a command line starts one program, which keeps    *)
(* the terminal, the editor or the action it was started for, and whose state *)
(* the others do not have.                                                    *)
EXTENDS Watch, Lifecycle, LanguageServer, Isolation, Acquisition, Reapi, Progress

CONSTANT Started      \* commands that are started

vars == <<command, watchVars, lspVars, isoVars, acqVars, reapiVars, lifeVars,
          progressVars>>

One(S) == CHOOSE x \in S : TRUE

\* resolve_command_line and run: the state of a program that is not started stays at
\* one of its initial values.
Init ==
  /\ command \in Started
  /\ WatchInit
  /\ command # "watch" =>
       /\ front = One([loop : Loops, runner : Runners])
       /\ source = One(Sources) /\ declared = One(Manifests)
  /\ IsoInit
  /\ command # "isolate" =>
       /\ action = One(Actions) /\ program = One(Programs) /\ ws = One(Trees)
       /\ mode = One(Modes) /\ check = FALSE /\ strategy = "copy"
  /\ LspInit
  /\ command # "lsp" =>
       /\ files = [u \in ManifestUris |-> One(Texts[u])] /\ error = One(Complaint(files))
  /\ AcqInit
  /\ command \notin {"fetch", "self-update"} => fetches = One(Declarations)
  /\ command # "fetch" => vendored = [d \in Dirs |-> None]
  /\ command # "self-update" => latest = One(Releases) /\ managed = FALSE
  /\ ReapiInit
  /\ command # "remote" => offers = One(Servers)
  /\ LifeInit
  /\ command # "daemon" =>
       /\ socket = None
       /\ LET other == One(Commands) IN \A c \in Clients :
            /\ clients[c].wants = other[c].wants /\ clients[c].protocol = other[c].protocol
  /\ ProgressInit
  /\ command # "build" => invocation = One(Invocations) /\ closure = One(Closures)

Runs(name, idle) == command = name /\ UNCHANGED <<command, idle>>

Next ==
  \/ Runs("watch", <<lspVars, isoVars, acqVars, reapiVars, lifeVars, progressVars>>)
     /\ WatchNext
  \/ Runs("lsp", <<watchVars, isoVars, acqVars, reapiVars, lifeVars, progressVars>>)
     /\ LspNext
  \/ Runs("isolate", <<watchVars, lspVars, acqVars, reapiVars, lifeVars, progressVars>>)
     /\ IsoNext
  \/ Runs("fetch", <<watchVars, lspVars, isoVars, reapiVars, lifeVars, progressVars>>)
     /\ FetchNext
  \/ Runs("self-update", <<watchVars, lspVars, isoVars, reapiVars, lifeVars, progressVars>>)
     /\ UpdateNext
  \/ Runs("remote", <<watchVars, lspVars, isoVars, acqVars, lifeVars, progressVars>>)
     /\ ReapiNext
  \/ Runs("daemon", <<watchVars, lspVars, isoVars, acqVars, reapiVars, progressVars>>)
     /\ LifeNext
  \/ Runs("build", <<watchVars, lspVars, isoVars, acqVars, reapiVars, lifeVars>>)
     /\ ProgressNext

\* The threads of a watcher and its child go on; so do clients, daemons and their builds,
\* and the threads of a build, whose commands end.
Fairness ==
  /\ WF_watchVars(command = "watch" /\ Step)
  /\ \A c \in Clients : WF_lifeVars(command = "daemon" /\ ClientStep(c))
  /\ \A d \in Frostds : WF_lifeVars(command = "daemon" /\ FrostdStep(d))
  /\ WF_progressVars(command = "build" /\ RunStep)
  /\ WF_progressVars(command = "build" /\ RendererStep)
  /\ \A w \in Workers : WF_progressVars(command = "build" /\ WorkerStep(w))

\* What is asked for comes to an end.  A command sets itself no time limit: no request waits
\* for a daemon that does not come to it, and no daemon is replaced for ever; a build's
\* renderer sees the channel closed, and no worker waits for an action that nobody decides.
CommandsEnd ==
  <>(/\ command = "daemon" => ClientsDone
     /\ command = "build" => phase = "ended")

Spec == Init /\ [][Next]_vars /\ Fairness
=============================================================================

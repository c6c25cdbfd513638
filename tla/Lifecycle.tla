------------------------------ MODULE Lifecycle ------------------------------
(* The daemon of a workspace as its clients see it: who starts, replaces and  *)
(* stops it, and how a build goes on without it.  What it remembers is in the *)
(* module Daemon.  Clients and daemons are processes on Unix; a client sets   *)
(* no time limit on an answer.                                                *)
EXTENDS Naturals, Sequences, Command

CONSTANTS
  Clients,
  Frostds,            \* processes that may become daemons
  Protocols,          \* of the frost versions that are installed
  Commands,           \* what the clients are: client -> [wants, protocol]
  MaxPolls,           \* of a client that waits for the daemon it has started (50)
  MaxMishaps          \* kills, interrupts, and watchers that cannot be set up

ASSUME LifeAssumption ==
  /\ Frostds # {} /\ None \notin Frostds
  /\ \A asked \in Commands, c \in Clients :
       asked[c].wants \in {"build", "start", "restart", "stop", "status"}

VARIABLES
  socket,             \* the daemon whose listener the file names, None without a file
  frostds,            \* daemon -> [at, protocol, queue, serves]
  clients,            \* client -> [wants, protocol, stage, then, polls, peer, answer]
  raced,              \* ghost: two daemons were starting at the same time
  mishaps

lifeVars == <<socket, frostds, clients, raced, mishaps>>

NoFrostd == [at |-> "none", protocol |-> None, queue |-> <<>>, serves |-> None]
Gone == [NoFrostd EXCEPT !.at = "gone"]

\* From bind on, until the process is gone, connections are taken.
Listens(d) == frostds[d].at \in {"watch", "accept", "build", "cleanup", "exit"}
Starts(d) == frostds[d].at \in {"check", "unlink", "bind"}

\* daemon_command and run_build_via_daemon: the request they begin with.
FirstRequest ==
  [build |-> "run", start |-> "status", restart |-> "shutdown", stop |-> "stop",
   status |-> "look"]

LifeInit ==
  /\ \E asked \in Commands :
       clients = [c \in Clients |->
         [wants |-> asked[c].wants, protocol |-> asked[c].protocol,
          stage |-> FirstRequest[asked[c].wants], then |-> "end", polls |-> 0, peer |-> None,
          answer |-> None]]
  /\ \E was \in {NoFrostd, Gone} \cup
                {[NoFrostd EXCEPT !.at = "accept", !.protocol = p] : p \in Protocols} :
       LET first == CHOOSE d \in Frostds : TRUE IN
         /\ frostds = [d \in Frostds |-> IF d = first THEN was ELSE NoFrostd]
         /\ socket = IF was = NoFrostd THEN None ELSE first
  /\ raced = FALSE /\ mishaps = 0

-----------------------------------------------------------------------------
(* A client *)

Concludes(client, answer) ==
  [client EXCEPT !.stage = "end", !.then = "end", !.polls = 0, !.peer = None, !.answer = answer]

\* What follows daemon_command(Start): the request once more, or a build without it.
AfterStart(client, started) ==
  CASE client.then = "end" -> Concludes(client, IF started THEN "running" ELSE "failed")
    [] client.then # "end" /\ started -> [client EXCEPT !.stage = client.then]
    [] client.then # "end" /\ ~started -> [client EXCEPT !.stage = "local"]

\* replace_daemon_and_retry: the last request.
Retried(client, outcome) ==
  IF outcome = "ok" THEN Concludes(client, outcome) ELSE [client EXCEPT !.stage = "local"]

\* Mutant: the daemon is asked again.
MutReplaces(client) == [client EXCEPT !.stage = "run"]

\* is_protocol_mismatch: the daemon is told to go, and one of this version started.
Replaces(client) == [client EXCEPT !.stage = "shutdown", !.then = "last"]

\* Mutant: what a daemon of another version says is the answer.
MutRan(client, outcome) ==
  IF outcome # "error" THEN Concludes(client, outcome)
  ELSE IF client.stage = "run" THEN [client EXCEPT !.stage = "status", !.then = "again"]
  ELSE [client EXCEPT !.stage = "local"]

\* run_build_via_daemon: a daemon that is not there is started.
Ran(client, outcome) ==
  CASE outcome = "ok" -> Concludes(client, outcome)
    [] outcome = "mismatch" -> Replaces(client)
    [] outcome = "error" /\ client.stage = "run" ->
         [client EXCEPT !.stage = "status", !.then = "again"]
    [] outcome = "error" /\ client.stage = "again" -> [client EXCEPT !.stage = "local"]

\* spawn_daemon: the deadline.
Polls(client) ==
  IF client.polls + 1 < MaxPolls THEN [client EXCEPT !.polls = @ + 1] ELSE AfterStart(client, FALSE)

\* daemon_command: Start, which any answer to a poll satisfies.
Asked(client, outcome) ==
  CASE client.stage = "status" /\ outcome = "error" -> [client EXCEPT !.stage = "spawn"]
    [] client.stage = "status" /\ outcome # "error" -> AfterStart(client, outcome = "ok")
    [] client.stage = "poll" /\ outcome # "error" -> AfterStart(client, TRUE)
    [] client.stage = "poll" /\ outcome = "error" -> Polls(client)

\* What a client does with the outcome of its request.
Proceeds(client, outcome) ==
  LET c == [client EXCEPT !.peer = None] IN
  CASE c.stage \in {"run", "again"}   -> Ran(c, outcome)
    [] c.stage = "last"               -> Retried(c, outcome)
    [] c.stage \in {"status", "poll"} -> Asked(c, outcome)
    [] c.stage = "shutdown"           -> [c EXCEPT !.stage = "status"]
    [] c.stage \in {"stop", "look"}   -> Concludes(c, outcome)

Requesting(c) ==
  clients[c].stage \notin {"end", "left", "local", "spawn"} /\ clients[c].peer = None

\* connect and write_frame
Connect(c) ==
  /\ Requesting(c)
  /\ IF socket # None /\ Listens(socket)
     THEN /\ clients' = [clients EXCEPT ![c].peer = socket]
          /\ frostds' = [frostds EXCEPT ![socket].queue =
                           Append(@, [client |-> c, what |-> clients[c].stage,
                                      protocol |-> clients[c].protocol])]
     ELSE clients' = [clients EXCEPT ![c] = Proceeds(@, "error")] /\ UNCHANGED frostds
  /\ UNCHANGED <<socket, raced, mishaps>>

\* read_frame when the process at the other end is gone.
Disconnected(c) ==
  /\ clients[c].peer # None /\ frostds[clients[c].peer].at = "gone"
  /\ clients' = [clients EXCEPT ![c] = Proceeds(@, "error")]
  /\ UNCHANGED <<socket, frostds, raced, mishaps>>

\* spawn_daemon
SpawnDaemon(c) ==
  /\ clients[c].stage = "spawn"
  /\ \/ LET d == CHOOSE d \in Frostds : frostds[d].at = "none" IN
          /\ \E fresh \in Frostds : frostds[fresh].at = "none"
          /\ frostds' = [frostds EXCEPT ![d] = [NoFrostd EXCEPT !.at = "check",
                                                  !.protocol = clients[c].protocol]]
          /\ clients' = [clients EXCEPT ![c].stage = "poll", ![c].polls = 0]
          /\ raced' = (raced \/ \E other \in Frostds : Starts(other))
     \/ /\ \A d \in Frostds : frostds[d].at # "none"
        /\ clients' = [clients EXCEPT ![c] = AfterStart(@, FALSE)]
        /\ UNCHANGED <<frostds, raced>>
  /\ UNCHANGED <<socket, mishaps>>

BuildLocally(c) ==
  /\ clients[c].stage = "local" /\ clients' = [clients EXCEPT ![c] = Concludes(@, "self")]
  /\ UNCHANGED <<socket, frostds, raced, mishaps>>

ClientStep(c) == Connect(c) \/ Disconnected(c) \/ SpawnDaemon(c) \/ BuildLocally(c)

-----------------------------------------------------------------------------
(* A daemon: serve and handle *)

Goes(d, to) ==
  frostds' = [frostds EXCEPT ![d] = IF to = "gone" THEN Gone ELSE [@ EXCEPT !.at = to]]

\* Mutant: the file is taken to be of a daemon that was killed.
MutTaken == FALSE

Taken == socket # None /\ Listens(socket)

CheckSocket(d) ==
  /\ frostds[d].at = "check" /\ Goes(d, IF Taken THEN "gone" ELSE "unlink")
  /\ UNCHANGED <<socket, clients, raced, mishaps>>

Unlink(d) ==
  /\ frostds[d].at = "unlink" /\ Goes(d, "bind") /\ socket' = None
  /\ UNCHANGED <<clients, raced, mishaps>>

Bind(d) ==
  /\ frostds[d].at = "bind"
  /\ IF socket = None THEN socket' = d /\ Goes(d, "watch")
     ELSE UNCHANGED socket /\ Goes(d, "gone")
  /\ UNCHANGED <<clients, raced, mishaps>>

\* A watcher that cannot be set up ends the process, and leaves its file.
WatchRoot(d) ==
  /\ frostds[d].at = "watch"
  /\ \/ Goes(d, "accept") /\ UNCHANGED mishaps
     \/ Goes(d, "gone") /\ mishaps < MaxMishaps /\ mishaps' = mishaps + 1
  /\ UNCHANGED <<socket, clients, raced>>

\* handle: "Shutdown is honoured at any version".
Obeys(d, request) ==
  request.what \in {"shutdown", "stop"} \/ request.protocol = frostds[d].protocol

\* An answer that nobody reads is dropped.
Replied(d, request, outcome) ==
  IF clients[request.client].peer = d
  THEN [clients EXCEPT ![request.client] = Proceeds(@, outcome)] ELSE clients

Accept(d) ==
  /\ frostds[d].at = "accept" /\ frostds[d].queue # <<>>
  /\ LET request == Head(frostds[d].queue)
         runs == request.what \in {"run", "again", "last"}
         stops == request.what \in {"shutdown", "stop"}
         to == IF ~Obeys(d, request) THEN "accept"
               ELSE IF runs THEN "build" ELSE IF stops THEN "cleanup" ELSE "accept"
     IN /\ frostds' = [frostds EXCEPT ![d].at = to, ![d].queue = Tail(@),
                         ![d].serves = IF to = "build" THEN request ELSE None]
        /\ clients' = IF to = "build" THEN clients
                      ELSE Replied(d, request, IF Obeys(d, request) THEN "ok" ELSE "mismatch")
  /\ UNCHANGED <<socket, raced, mishaps>>

FinishBuild(d) ==
  /\ frostds[d].at = "build"
  /\ frostds' = [frostds EXCEPT ![d].at = "accept", ![d].serves = None]
  /\ clients' = Replied(d, frostds[d].serves, "ok")
  /\ UNCHANGED <<socket, raced, mishaps>>

\* The file that is there is removed, whoever made it; the listener goes last.
RemoveSocket(d) ==
  /\ frostds[d].at = "cleanup" /\ Goes(d, "exit") /\ socket' = None
  /\ UNCHANGED <<clients, raced, mishaps>>

Exit(d) ==
  /\ frostds[d].at = "exit" /\ Goes(d, "gone")
  /\ UNCHANGED <<socket, clients, raced, mishaps>>

FrostdStep(d) ==
  \/ CheckSocket(d) \/ Unlink(d) \/ Bind(d) \/ WatchRoot(d) \/ Accept(d) \/ FinishBuild(d)
  \/ RemoveSocket(d) \/ Exit(d)

-----------------------------------------------------------------------------
Mishap == mishaps < MaxMishaps /\ mishaps' = mishaps + 1

KillFrostd(d) ==
  /\ Mishap /\ (Starts(d) \/ Listens(d))
  /\ Goes(d, "gone") /\ UNCHANGED <<socket, clients, raced>>

Interrupt(c) ==
  /\ Mishap /\ clients[c].peer # None
  /\ clients' = [clients EXCEPT ![c] = [Concludes(@, None) EXCEPT !.stage = "left"]]
  /\ UNCHANGED <<socket, frostds, raced>>

LifeNext ==
  \/ \E c \in Clients : ClientStep(c) \/ Interrupt(c)
  \/ \E d \in Frostds : FrostdStep(d) \/ KillFrostd(d)

-----------------------------------------------------------------------------
(* Properties *)

\* "A lost speedup, not a failed build" (cli/build.rs:414): whatever daemons of other
\* versions, kills and failed starts do, a client that asked for a build is answered
\* with one, and of its own version.
BuildsAreOfTheirVersion ==
  \A c \in Clients :
    clients[c].wants = "build" /\ clients[c].stage = "end" => clients[c].answer \in {"ok", "self"}

\* "One workspace must mean one daemon" (daemon/lib.rs:137): a daemon that runs can be
\* reached, and there is one, unless two were starting at the same time.
DaemonIsReachable ==
  raced \/ \A d \in Frostds : frostds[d].at \in {"watch", "accept", "build", "cleanup"} => socket = d

\* Every client is served, by the one daemon there is or by itself.
ClientsAreServed == BuildsAreOfTheirVersion /\ DaemonIsReachable

\* No command is waiting for anything any more.
ClientsDone == \A c \in Clients : clients[c].stage \in {"end", "left"}
=============================================================================

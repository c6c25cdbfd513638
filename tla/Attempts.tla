------------------------------ MODULE Attempts ------------------------------
(***************************************************************************)
(* Running the commands of an action (frostbuild-exec command.rs,           *)
(* process.rs and the attempt loops of Engine::execute in lib.rs): spawning *)
(* and registering process groups, time limits, retries of flaky tests,     *)
(* repeated runs, and cancellation by Ctrl-C from threads of its own.       *)
(*                                                                          *)
(* Each worker runs one action.  A process group is known by the worker     *)
(* whose current command it is: pids are not reused within a build.         *)
(***************************************************************************)
EXTENDS Integers, FiniteSets

CONSTANTS
  Workers,     \* workers, each with an action
  Cancellers,  \* calls of request_cancellation: signal handler, interactive UI
  Commands,    \* Commands[w]: command lines of the action, at least one
  Tests,       \* workers whose action is a test
  Retries,     \* Retries[w]: flaky_retries
  RunsPerTest, \* the values --runs-per-test may have
  Limited,     \* workers whose action has a time limit
  Stubborn,    \* external: commands that may ignore SIGTERM
  None

ASSUME AttemptsAssumption ==
  /\ IsFiniteSet(Workers) /\ IsFiniteSet(Cancellers)
  /\ Commands \in [Workers -> Nat \ {0}]
  /\ Tests \subseteq Workers /\ Limited \subseteq Workers /\ Stubborn \subseteq Workers
  /\ Retries \in [Workers -> Nat]
  /\ RunsPerTest \subseteq Nat

ASSUME NoneAssumption == None \notin {"executed", "flaky", "failed"}

VARIABLES
  runs_per_test, \* the option, given once per build
  cancelled, \* CANCELLED
  groups,    \* RUNNING_PROCESS_GROUPS
  request,   \* where each call of request_cancellation is
  pc,        \* where each worker is
  command,   \* the command line being run
  process,   \* its process: "none", "running", "passed" or "failed"
  signalled, \* whether it was sent SIGTERM
  killed,    \* whether it was sent SIGKILL
  timedOut,  \* the limit expired
  attempts,  \* attempts made so far
  completed, \* runs made so far
  traces,    \* attempts whose files lie at the outputs
  verdict,   \* outcome of each action
  passes,    \* history: attempts in which every command passed
  failures   \* history: attempts that failed

signals == <<cancelled, groups, request>>
child == <<command, process, signalled, killed, timedOut>>
loops == <<attempts, completed>>
history == <<passes, failures>>
vars == <<runs_per_test, signals, pc, child, loops, traces, verdict, history>>

Zero == [w \in Workers |-> 0]
No == [w \in Workers |-> FALSE]

Init ==
  /\ runs_per_test \in RunsPerTest
  /\ cancelled = FALSE /\ groups = {} /\ request = [c \in Cancellers |-> "ready"]
  /\ pc = [w \in Workers |-> "begin"]
  /\ command = Zero /\ process = [w \in Workers |-> "none"]
  /\ signalled = No /\ killed = No /\ timedOut = No
  /\ attempts = Zero /\ completed = Zero
  /\ traces = [w \in Workers |-> {0}]
  /\ verdict = [w \in Workers |-> None]
  /\ passes = Zero /\ failures = Zero

-----------------------------------------------------------------------------
(* request_cancellation: the flag first, then every registered group.       *)

SetFlag(c) ==
  /\ request[c] = "ready"
  /\ cancelled' = TRUE
  /\ request' = [request EXCEPT ![c] = "flagged"]
  /\ UNCHANGED <<runs_per_test, groups, pc, child, loops, traces, verdict, history>>

\* The mutex is held while all of them are signalled.
TerminateAll(c) ==
  /\ request[c] = "flagged"
  /\ signalled' = [w \in Workers |->
                     signalled[w] \/ (w \in groups /\ process[w] = "running")]
  /\ request' = [request EXCEPT ![c] = "returned"]
  /\ UNCHANGED <<runs_per_test, cancelled, groups, pc, command, process, killed,
                 timedOut, loops, traces, verdict, history>>

-----------------------------------------------------------------------------
(* The process of a command, an external program.                           *)

\* It exits, of its own accord or because of a signal, with either status.
Exit(w) ==
  /\ process[w] = "running"
  /\ \E status \in {"passed", "failed"} : process' = [process EXCEPT ![w] = status]
  /\ UNCHANGED <<runs_per_test, signals, pc, command, signalled, killed, timedOut,
                 loops, traces, verdict, history>>

\* A signal that is not ignored ends it.
Dies(w) ==
  /\ process[w] = "running"
  /\ killed[w] \/ (signalled[w] /\ w \notin Stubborn)
  /\ process' = [process EXCEPT ![w] = "failed"]
  /\ UNCHANGED <<runs_per_test, signals, pc, command, signalled, killed, timedOut,
                 loops, traces, verdict, history>>

-----------------------------------------------------------------------------
(* Engine::execute: before the first attempt, and between attempts.         *)

Runs(w) == IF w \in Tests /\ runs_per_test > 1 THEN runs_per_test ELSE 1
RetriesOf(w) == IF Runs(w) > 1 THEN 0 ELSE Retries[w]

\* Mutant: the worker is left where it was.
MutDecide(w, v) == verdict' = [verdict EXCEPT ![w] = v] /\ UNCHANGED pc

Decide(w, v) ==
  /\ verdict' = [verdict EXCEPT ![w] = v]
  /\ pc' = [pc EXCEPT ![w] = "done"]

\* The outputs are removed before every attempt.
\* Mutant: what the failed attempt left stays.
MutSwept(w) == traces[w]

Swept(w) == {}

\* The first command line of an attempt comes next, unless resetting the clean
\* directories fails.
StartAttempt(w) ==
  /\ traces' = [traces EXCEPT ![w] = Swept(w)]
  /\ \/ /\ pc' = [pc EXCEPT ![w] = "spawn"]
        /\ command' = [command EXCEPT ![w] = 1]
        /\ UNCHANGED verdict
     \/ Decide(w, "failed") /\ UNCHANGED command

Begin(w) ==
  /\ pc[w] = "begin"
  /\ \/ /\ cancelled /\ Decide(w, "failed")
        /\ UNCHANGED <<command, traces, loops>>
     \/ /\ ~cancelled /\ StartAttempt(w)
        /\ attempts' = [attempts EXCEPT ![w] = 1]
        /\ completed' = [completed EXCEPT ![w] = 1]
  /\ UNCHANGED <<runs_per_test, signals, process, signalled, killed, timedOut, history>>

-----------------------------------------------------------------------------
(* run_argvs *)

\* A command that cannot be spawned fails the action; nothing is removed.
Spawn(w) ==
  /\ pc[w] = "spawn"
  /\ \/ /\ process' = [process EXCEPT ![w] = "running"]
        /\ signalled' = [signalled EXCEPT ![w] = FALSE]
        /\ killed' = [killed EXCEPT ![w] = FALSE]
        /\ timedOut' = [timedOut EXCEPT ![w] = FALSE]
        /\ traces' = [traces EXCEPT ![w] = @ \cup {attempts[w] + completed[w]}]
        /\ pc' = [pc EXCEPT ![w] = "register"]
        /\ UNCHANGED verdict
     \/ /\ Decide(w, "failed")
        /\ UNCHANGED <<process, signalled, killed, timedOut, traces>>
  /\ UNCHANGED <<runs_per_test, signals, command, loops, history>>

\* Under the mutex: become visible, then look at the flag.
\* Mutant: the flag is not looked at.
MutMissed(w) == FALSE

Missed(w) == cancelled /\ process[w] = "running"

Register(w) ==
  /\ pc[w] = "register"
  /\ groups' = groups \cup {w}
  /\ signalled' = [signalled EXCEPT ![w] = @ \/ Missed(w)]
  /\ pc' = [pc EXCEPT ![w] = "wait"]
  /\ UNCHANGED <<runs_per_test, cancelled, request, command, process, killed,
                 timedOut, loops, traces, verdict, history>>

\* wait_for_child: the process is reaped.
Reap(w) ==
  /\ pc[w] \in {"wait", "grace", "reap"} /\ process[w] # "running"
  /\ pc' = [pc EXCEPT ![w] = "unregister"]
  /\ UNCHANGED <<runs_per_test, signals, child, loops, traces, verdict, history>>

\* The limit expires before the helper thread reports, though perhaps after the
\* process has exited.
Expire(w) ==
  /\ pc[w] = "wait" /\ w \in Limited
  /\ timedOut' = [timedOut EXCEPT ![w] = TRUE]
  /\ signalled' = [signalled EXCEPT ![w] = @ \/ process[w] = "running"]
  /\ pc' = [pc EXCEPT ![w] = "grace"]
  /\ UNCHANGED <<runs_per_test, signals, command, process, killed, loops, traces, verdict, history>>

\* Five seconds later a process that ignored the polite signal is killed.
\* Mutant: it is only asked again.
MutEscalated(w) == FALSE
\* Mutant: its end is not waited for.
MutAfterKill == "unregister"

Escalated(w) == process[w] = "running"
AfterKill == "reap"

Kill(w) ==
  /\ pc[w] = "grace"
  /\ killed' = [killed EXCEPT ![w] = Escalated(w)]
  /\ pc' = [pc EXCEPT ![w] = AfterKill]
  /\ UNCHANGED <<runs_per_test, signals, command, process, signalled, timedOut,
                 loops, traces, verdict, history>>

Unregister(w) ==
  /\ pc[w] = "unregister"
  /\ groups' = groups \ {w}
  /\ pc' = [pc EXCEPT ![w] = "judge"]
  /\ UNCHANGED <<runs_per_test, cancelled, request, child, loops, traces, verdict,
                 history>>

\* Mutant: a command that exited with success after its limit counts.
MutCommandPassed(w) == process[w] = "passed"

CommandPassed(w) == process[w] = "passed" /\ ~timedOut[w]

NextCommand(w) ==
  /\ pc[w] = "judge" /\ CommandPassed(w) /\ command[w] < Commands[w]
  /\ command' = [command EXCEPT ![w] = @ + 1]
  /\ pc' = [pc EXCEPT ![w] = "spawn"]
  /\ UNCHANGED <<runs_per_test, signals, process, signalled, killed, timedOut, loops,
                 traces, verdict, history>>

\* The attempt is over: every command passed, or one did not.
AttemptOver(w) ==
  /\ pc[w] = "judge"
  /\ \/ /\ CommandPassed(w) /\ command[w] = Commands[w]
        /\ passes' = [passes EXCEPT ![w] = @ + 1]
        /\ pc' = [pc EXCEPT ![w] = "passed"]
        /\ UNCHANGED failures
     \/ /\ ~CommandPassed(w)
        /\ failures' = [failures EXCEPT ![w] = @ + 1]
        /\ pc' = [pc EXCEPT ![w] = "failed"]
        /\ UNCHANGED passes
  /\ UNCHANGED <<runs_per_test, signals, child, loops, traces, verdict>>

-----------------------------------------------------------------------------
(* The two loops of Engine::execute, and what follows them.                 *)

MayRetry(w) == w \in Tests /\ attempts[w] <= RetriesOf(w) /\ ~cancelled

Retry(w) ==
  /\ pc[w] = "failed" /\ MayRetry(w)
  /\ attempts' = [attempts EXCEPT ![w] = @ + 1]
  /\ StartAttempt(w)
  /\ UNCHANGED <<runs_per_test, signals, process, signalled, killed, timedOut,
                 completed, history>>

GiveUp(w) ==
  /\ pc[w] = "failed" /\ ~MayRetry(w)
  /\ traces' = [traces EXCEPT ![w] = {}]
  /\ Decide(w, "failed")
  /\ UNCHANGED <<runs_per_test, signals, child, loops, history>>

\* Mutant: one run too few.
MutMoreRuns(w) == completed[w] + 1 < Runs(w) /\ ~cancelled

MoreRuns(w) == completed[w] < Runs(w) /\ ~cancelled

Repeat(w) ==
  /\ pc[w] = "passed" /\ MoreRuns(w)
  /\ completed' = [completed EXCEPT ![w] = @ + 1]
  /\ StartAttempt(w)
  /\ UNCHANGED <<runs_per_test, signals, process, signalled, killed, timedOut,
                 attempts, history>>

\* A success reached by a retry is reported but never recorded.  The bookkeeping
\* that follows the commands may fail and the action with it.
\* Mutant: it is recorded like any other.
MutFlaky(w) == FALSE

Flaky(w) == attempts[w] > 1

Succeed(w) ==
  /\ pc[w] = "passed" /\ ~MoreRuns(w)
  /\ \/ Decide(w, IF Flaky(w) THEN "flaky" ELSE "executed")
     \/ Decide(w, "failed")
  /\ UNCHANGED <<runs_per_test, signals, child, loops, traces, history>>

WorkerStep(w) ==
  \/ Begin(w) \/ Spawn(w) \/ Register(w) \/ Reap(w) \/ Expire(w) \/ Kill(w)
  \/ Unregister(w) \/ NextCommand(w) \/ AttemptOver(w)
  \/ Retry(w) \/ GiveUp(w) \/ Repeat(w) \/ Succeed(w)

AllDecided == \A w \in Workers : verdict[w] # None
Over == AllDecided /\ UNCHANGED vars

Next ==
  \/ \E c \in Cancellers : SetFlag(c) \/ TerminateAll(c)
  \/ \E w \in Workers : WorkerStep(w) \/ Exit(w) \/ Dies(w)
  \/ Over

Spec == Init /\ [][Next]_vars

\* Workers run, time passes, a cancellation that began is carried out and
\* signals arrive; no command is obliged to end by itself.
FairSpec ==
  /\ Spec
  /\ \A w \in Workers : WF_vars(WorkerStep(w)) /\ WF_vars(Dies(w))
  /\ \A c \in Cancellers : WF_vars(TerminateAll(c))

-----------------------------------------------------------------------------
(* Properties *)

Places == {"begin", "spawn", "register", "wait", "grace", "reap", "unregister", "judge",
           "passed", "failed", "done"}

\* Every variable keeps its type, and a decided action has left the group set.
TypeOK ==
  /\ runs_per_test \in RunsPerTest
  /\ cancelled \in BOOLEAN /\ groups \subseteq Workers
  /\ request \in [Cancellers -> {"ready", "flagged", "returned"}]
  /\ pc \in [Workers -> Places]
  /\ command \in [Workers -> Nat]
  /\ process \in [Workers -> {"none", "running", "passed", "failed"}]
  /\ signalled \in [Workers -> BOOLEAN] /\ killed \in [Workers -> BOOLEAN]
  /\ timedOut \in [Workers -> BOOLEAN]
  /\ attempts \in [Workers -> Nat] /\ completed \in [Workers -> Nat]
  /\ traces \in [Workers -> SUBSET Nat]
  /\ verdict \in [Workers -> {None, "executed", "flaky", "failed"}]
  /\ passes \in [Workers -> Nat] /\ failures \in [Workers -> Nat]
  /\ \A w \in Workers : (pc[w] = "done") = (verdict[w] # None)

\* command.rs, run_argvs: "either that call kills us or this check does".  Once
\* a cancellation has returned, every process a worker waits for was signalled,
\* however spawn and registration interleave with it.
CancellationReachesAll ==
  (\E c \in Cancellers : request[c] = "returned") =>
    \A w \in Workers :
      process[w] = "running" /\ pc[w] # "register" => signalled[w]

\* An action is not decided while its command still runs: not when the limit
\* expires, not when the build is cancelled.
NoOrphans ==
  \A w \in Workers :
    process[w] = "running" => pc[w] \in {"register", "wait", "grace", "reap"}

\* What is recorded for later builds passed every run asked for, at the first
\* attempt, within its limit; unless the build was cancelled between two runs.
RecordedPassed ==
  \A w \in Workers : verdict[w] = "executed" =>
    /\ failures[w] = 0
    /\ process[w] = "passed" /\ ~timedOut[w]
    /\ passes[w] = Runs(w) \/ cancelled

\* No attempt sees what an earlier one left, and what a success leaves is its own.
AttemptsAreFresh ==
  \A w \in Workers :
    /\ pc[w] \in {"register", "wait"} => traces[w] = {attempts[w] + completed[w]}
    /\ verdict[w] \in {"executed", "flaky"} => traces[w] = {attempts[w] + completed[w]}

\* No process escapes: a cancellation reaches it, and its action waits for it.
ProcessesAreHeld == CancellationReachesAll /\ NoOrphans

\* What is recorded is the result of fresh attempts that passed.
ResultsAreEarned == RecordedPassed /\ AttemptsAreFresh

\* An action with a limit is decided even if its commands hang and ignore
\* SIGTERM.
LimitIsHard == \A w \in Limited : pc[w] = "wait" ~> verdict[w] # None

\* A cancelled build ends although no command would end by itself, unless one
\* without a limit ignores the signal.
CancellationEnds == Stubborn \subseteq Limited => (cancelled ~> AllDecided)

\* A time limit and a cancellation both come to an end.
CommandsStop == LimitIsHard /\ CancellationEnds
=============================================================================

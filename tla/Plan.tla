-------------------------------- MODULE Plan --------------------------------
(* frost simulate: the schedule the engine would follow for some targets, and *)
(* a run of it against recorded durations, with the engine's admission rules. *)
(* Local indices are replaced by action numbers, which have the same order.   *)
EXTENDS Queries

CONSTANTS
  Recorded,           \* journal: <<configuration, kind, target>> -> duration
  Requests,           \* the sets of targets asked for
  Budgets,            \* jobs and limits: [jobs, cpu, tests]
  Planned             \* bound: the workspaces that are scheduled, once each

Schedulers == {"critical-path", "fifo"}
Estimators == {"static", "heuristic", "journal", "learned"}

VARIABLES
  plan,               \* the Schedule, None before
  sim                 \* the simulation of it
planVars == <<plan, sim>>

Closure == plan.closure

-----------------------------------------------------------------------------
(* How long an action is expected to take *)

\* default_duration
DefaultDuration(kind) ==
  CASE kind = "link" -> 100 [] kind = "archive" -> 30 [] kind = "compile" -> 20
    [] kind = "genrule" -> 10 [] kind = "test" -> 50 [] kind = "kofun" -> 30
    [] kind = "command" -> 40 [] kind = "coverage" -> 60

\* The median of what the journal has for a kind, in any configuration.
Samples(kind) == {key \in DOMAIN Recorded : key[2] = kind /\ key[3] \in DOMAIN nodes}
Learned(kind) ==
  LET sorted == SetToSortSeq(Samples(kind), LAMBDA a, b : Recorded[a] < Recorded[b]) IN
  IF sorted = <<>> THEN DefaultDuration(kind) ELSE Recorded[sorted[Len(sorted) \div 2 + 1]]

\* Estimates::of
Estimate(estimator, i) ==
  LET kind == actions[i].kind
      key == <<config, kind, actions[i].target>>
  IN
  CASE estimator = "static"    -> 1
    [] estimator = "heuristic" -> DefaultDuration(kind)
    [] estimator = "journal"   -> IF key \in DOMAIN Recorded THEN Recorded[key]
                                  ELSE DefaultDuration(kind)
    [] estimator = "learned"   -> IF key \in DOMAIN Recorded THEN Recorded[key]
                                  ELSE Learned(kind)

-----------------------------------------------------------------------------
(* Schedule::plan *)

InOrder(closure) == SelectSeq([i \in DOMAIN actions |-> i], LAMBDA i : i \in closure)

\* Mutant: the longest chain is found in the order of execution.
MutLongestChains(closure, dependents, duration) ==
  FoldLeft(LAMBDA longest, i : [longest EXCEPT
             ![i] = duration[i] + Max({0} \cup {longest[d] : d \in dependents[i]})],
           [i \in closure |-> 0], InOrder(closure))

\* Longest remaining chains, from the last action to the first.
LongestChains(closure, dependents, duration) ==
  FoldLeft(LAMBDA longest, i : [longest EXCEPT
             ![i] = duration[i] + Max({0} \cup {longest[d] : d \in dependents[i]})],
           [i \in closure |-> 0], Reverse(InOrder(closure)))

\* max_by_key: the last of the largest.
LastMax(candidates, key) ==
  CHOOSE i \in candidates : \A j \in candidates :
    key[j] < key[i] \/ (key[j] = key[i] /\ j <= i)

\* The chain that bounds the build.
CriticalPath(first, dependents, longest) ==
  LET walk[n \in Nat] ==
        IF n = 0 THEN IF first = {} THEN <<>> ELSE <<LastMax(first, longest)>>
        ELSE LET path == walk[n - 1] IN
             IF path = <<>> \/ dependents[Last(path)] = {} THEN path
             ELSE Append(path, LastMax(dependents[Last(path)], longest))
  IN walk[Len(actions)]

Schedule(closure, scheduler, estimator) ==
  LET waits == [i \in closure |-> Producers(i) \cap closure]
      dependents == [i \in closure |-> {d \in closure : i \in waits[d]}]
      duration == [i \in closure |-> Estimate(estimator, i)]
      longest == LongestChains(closure, dependents, duration)
  IN [closure |-> closure, waiting |-> [i \in closure |-> Cardinality(waits[i])],
      dependents |-> dependents, duration |-> duration,
      priority |-> IF scheduler = "fifo" THEN [i \in closure |-> 0] ELSE longest,
      length |-> Max({0} \cup {longest[i] : i \in closure}),
      path |-> CriticalPath({i \in closure : waits[i] = {}}, dependents, longest)]

-----------------------------------------------------------------------------
(* ResourceAdmission.  RAM is admitted as CPU is and left out. *)

Needs(i) == [cpu |-> IF actions[i].cpu < sim.budget.cpu THEN actions[i].cpu ELSE sim.budget.cpu,
             tests |-> IF actions[i].kind = "test" THEN 1 ELSE 0,
             exclusive |-> actions[i].exclusive]
RunningNow == {slot.action : slot \in sim.running}
Used(field) == MapThenSumSet(LAMBDA i : Needs(i)[field], RunningNow)

\* Mutant: a demand is not capped by its budget.
MutFits(i) ==
  /\ ~\E j \in RunningNow : actions[j].exclusive
  /\ Used("cpu") + actions[i].cpu <= sim.budget.cpu
  /\ Used("tests") + Needs(i).tests <= sim.budget.tests

\* fits
Fits(i) ==
  IF actions[i].exclusive THEN sim.running = {}
  ELSE /\ ~\E j \in RunningNow : actions[j].exclusive
       /\ Used("cpu") + Needs(i).cpu <= sim.budget.cpu
       /\ Used("tests") + Needs(i).tests <= sim.budget.tests

-----------------------------------------------------------------------------
(* The steps *)

PlanInit == Init /\ plan = None /\ sim = None

\* Schedule::plan, and the start of simulate_against_with_resources.  Every
\* schedule is simulated against the durations of the journal's estimator.
MakePlan ==
  /\ phase = "ready" /\ plan = None /\ workspace \in Planned /\ DOMAIN finished = {config}
  /\ \E request \in Requests \cup {DefaultsOf(workspace)}, scheduler \in Schedulers, estimator \in Estimators,
        budget \in Budgets :
       /\ request \subseteq DOMAIN nodes
       /\ LET closure == ActionClosure(request)
              schedule == Schedule(closure, scheduler, estimator)
          IN /\ plan' = schedule
             /\ sim' = [budget |-> budget, waiting |-> schedule.waiting,
                        ready |-> {i \in closure : schedule.waiting[i] = 0},
                        running |-> {}, done |-> {}, now |-> 0, busy |-> 0, waits |-> 0,
                        peakCpu |-> 0, peakTests |-> 0, ended |-> FALSE,
                        reference |-> Schedule(closure, "critical-path", "journal")]
  /\ phase' = "scheduled" /\ UNCHANGED <<workspace, config, graph, finished>>

Simulating == plan # None /\ ~sim.ended
Claimable == IF Cardinality(sim.running) < sim.budget.jobs THEN {i \in sim.ready : Fits(i)} ELSE {}

\* The first in the queue that fits starts.
ClaimReady ==
  /\ Simulating /\ Claimable # {}
  /\ LET i == CHOOSE i \in Claimable : \A j \in Claimable :
                plan.priority[j] < plan.priority[i]
                  \/ (plan.priority[j] = plan.priority[i] /\ i <= j)
         took == sim.reference.duration[i]
         more(peak, field) == Max({peak, Used(field) + Needs(i)[field]})
     IN sim' = [sim EXCEPT !.ready = @ \ {i}, !.busy = @ + took,
                  !.running = @ \cup {[at |-> sim.now + took, action |-> i]},
                  !.peakCpu = more(@, "cpu"), !.peakTests = more(@, "tests")]
  /\ UNCHANGED <<vars, plan>>

\* Nothing fits: time passes until the next action ends.
FinishNext ==
  /\ Simulating /\ Claimable = {} /\ sim.running # {}
  /\ LET slot == CHOOSE s \in sim.running : \A other \in sim.running :
                   s.at < other.at \/ (s.at = other.at /\ s.action <= other.action)
         waiting == [i \in Closure |->
                       sim.waiting[i] - (IF i \in plan.dependents[slot.action] THEN 1 ELSE 0)]
     IN sim' = [sim EXCEPT !.running = @ \ {slot}, !.now = slot.at, !.done = @ \cup {slot.action},
                  !.waiting = waiting,
                  !.ready = @ \cup {i \in plan.dependents[slot.action] : waiting[i] = 0},
                  !.waits = @ + (IF /\ Cardinality(sim.running) < sim.budget.jobs
                                    /\ sim.ready # {} THEN 1 ELSE 0)]
  /\ UNCHANGED <<vars, plan>>

\* Nothing runs and nothing is ready: the graph is exhausted.
EndSimulation ==
  /\ Simulating /\ Claimable = {} /\ sim.running = {}
  /\ sim' = [sim EXCEPT !.ended = TRUE]
  /\ UNCHANGED <<vars, plan>>

PlanNext ==
  \/ plan = None /\ Next /\ UNCHANGED planVars
  \/ MakePlan \/ ClaimReady \/ FinishNext \/ EndSimulation

PlanSpec == PlanInit /\ [][PlanNext]_<<vars, planVars>>

-----------------------------------------------------------------------------
(* Properties *)

\* schedule.rs: the critical path is "the makespan no scheduler can beat", work
\* is its worst, and an oversized action "can still run instead of deadlocking
\* forever".  With every estimator, whatever it guesses, a simulation runs every
\* action once, within the budget, in a time between the two.
SimulationSound ==
  plan # None /\ Undeclared = {} /\ sim.ended =>
    /\ sim.done = Closure
    /\ sim.busy = MapThenSumSet(LAMBDA i : sim.reference.duration[i], Closure)
    /\ sim.reference.length <= sim.now /\ sim.now <= sim.busy
    /\ sim.peakCpu <= sim.budget.cpu /\ sim.peakTests <= sim.budget.tests

\* The path a report names is a chain from a source to a sink that takes as long
\* as the critical path.
PathIsCritical ==
  plan # None /\ Undeclared = {} =>
    LET path == sim.reference.path IN
    /\ \A n \in 1 .. Len(path) - 1 : path[n] \in Producers(path[n + 1])
    /\ MapThenSumSet(LAMBDA i : sim.reference.duration[i], ToSet(path)) = sim.reference.length

\* A plan and its simulation are of the work there is.
PlanIsSound == SimulationSound /\ PathIsCritical
=============================================================================

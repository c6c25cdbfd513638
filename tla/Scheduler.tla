----------------------------- MODULE Scheduler -----------------------------
(***************************************************************************)
(* The worker pool of frostbuild-exec: Engine::worker, claim_ready and the  *)
(* upstream check of Engine::process (lib.rs), the plan they start from     *)
(* (prepare_schedule, Schedule::plan) and the admission arithmetic of       *)
(* ResourceAdmission (resources.rs).                                        *)
(*                                                                          *)
(* One step is one critical section of the `shared` mutex, one condition    *)
(* variable call, or the body of one build action.  What a body does to the *)
(* disk is the subject of module ActionBody; here it only has an outcome.   *)
(***************************************************************************)
EXTENDS Integers, FiniteSets

CONSTANTS
  Workers,     \* worker threads: opts.jobs, at least one
  Actions,     \* the closure being built
  Producers,   \* Producers[a]: actions producing an input or order-only input of a
  Precached,   \* actions the preflight certified as cached
  Position,    \* index in the closure, which lists producers first
  Priority,    \* estimated longest remaining chain; all zero under FIFO
  Demand,      \* Demand[a]: the cpu and ram an action declares
  Tests,       \* actions of kind Test
  Exclusive,   \* actions declared exclusive
  Limits,      \* configured cpu and ram budgets
  TestJobs,    \* configured number of concurrent tests
  KeepGoing,   \* opts.keep_going
  DryRun,      \* opts.dry_run
  None         \* no action, no outcome

Pools == {"cpu", "ram"}

ASSUME GraphAssumption ==
  /\ IsFiniteSet(Actions)
  /\ Producers \in [Actions -> SUBSET Actions]
  /\ Precached \subseteq Actions
  /\ Priority \in [Actions -> Nat]

(* BuildGraph rejects cycles and lists the closure in dependency order. *)
ASSUME OrderAssumption ==
  /\ Position \in [Actions -> Nat]
  /\ \A a, b \in Actions : Position[a] = Position[b] => a = b
  /\ \A a \in Actions : \A p \in Producers[a] : Position[p] < Position[a]

ASSUME AdmissionAssumption ==
  /\ Demand \in [Actions -> [Pools -> Nat]]
  /\ Limits \in [Pools -> Nat]
  /\ TestJobs \in Nat
  /\ Tests \subseteq Actions /\ Exclusive \subseteq Actions

ASSUME EngineAssumption ==
  /\ IsFiniteSet(Workers) /\ Workers # {}
  /\ KeepGoing \in BOOLEAN /\ DryRun \in BOOLEAN

VARIABLES
  ready,            \* Shared.ready
  waiting,          \* Shared.waiting: undecided in-closure producers
  outcomes,         \* Shared.outcomes
  pending,          \* Shared.pending
  abort,            \* Shared.abort
  used,             \* ResourceAdmission.cpu and .ram_mb
  tests,            \* ResourceAdmission.tests
  running,          \* ResourceAdmission.running
  exclusive,        \* ResourceAdmission.exclusive
  resourceWaiting,  \* Shared.resource_waiting
  pc,               \* where each worker is
  local,            \* the action a worker holds (its claim or continuation)
  result,           \* the outcome process returned, not yet published
  wakes             \* notify_one calls a worker still has to make

admission == <<used, tests, running, exclusive>>
shared == <<ready, waiting, outcomes, pending, abort, admission, resourceWaiting>>
vars == <<shared, pc, local, result, wakes>>

Scheduled == Actions \ Precached
Dependents(a) == {d \in Scheduled : a \in Producers[d]}

Bad == {"failed", "skipped"}
Dirty == {"would_run", "may_run"}
BodyResults == IF DryRun THEN {"cached", "would_run", "failed"}
               ELSE {"cached", "executed", "failed"}
Outcomes == {"cached", "executed"} \cup Bad \cup Dirty

ASSUME NoneAssumption == None \notin Actions \cup Outcomes

-----------------------------------------------------------------------------
(* ResourceAdmission *)

Smaller(m, n) == IF m <= n THEN m ELSE n

\* new(): every budget is at least one.
Limit(p) == IF Limits[p] = 0 THEN 1 ELSE Limits[p]
TestLimit == IF TestJobs = 0 THEN 1 ELSE TestJobs

\* demand(): oversized work takes the whole pool instead of waiting for ever.
\* Mutant: oversized work keeps its own demand and never fits.
MutClampedRaw(a, p) == Demand[a][p]

Clamped(a, p) == Smaller(Demand[a][p], Limit(p))
TestSlots(a) == IF a \in Tests THEN 1 ELSE 0

\* The counters of one admission state.
Free == [used |-> [p \in Pools |-> 0], tests |-> 0, running |-> 0, exclusive |-> FALSE]
Admission == [used |-> used, tests |-> tests, running |-> running, exclusive |-> exclusive]

\* Mutant: admission looks at the budget before adding the demand.
MutFitsBeforeAdding(r, a) ==
  IF a \in Exclusive
  THEN r.running = 0
  ELSE /\ ~r.exclusive
       /\ a \in Tests => r.tests < TestLimit
       /\ \A p \in Pools : r.used[p] < Limit(p)

\* Mutant: an exclusive action waits for the others, the others not for it.
MutFitsBesideExclusive(r, a) ==
  IF a \in Exclusive
  THEN r.running = 0
  ELSE /\ a \in Tests => r.tests < TestLimit
       /\ \A p \in Pools : r.used[p] + Clamped(a, p) <= Limit(p)

Fits(r, a) ==
  IF a \in Exclusive
  THEN r.running = 0
  ELSE /\ ~r.exclusive
       /\ a \in Tests => r.tests < TestLimit
       /\ \A p \in Pools : r.used[p] + Clamped(a, p) <= Limit(p)

Reserve(r, a) ==
  [used      |-> [p \in Pools |-> r.used[p] + Clamped(a, p)],
   tests     |-> r.tests + TestSlots(a),
   running   |-> r.running + 1,
   exclusive |-> a \in Exclusive]

\* Mutant: release gives back the declared demand, not the clamped one.
MutReleaseDeclared(r, a) ==
  [used      |-> [p \in Pools |-> r.used[p] - Demand[a][p]],
   tests     |-> r.tests - TestSlots(a),
   running   |-> r.running - 1,
   exclusive |-> r.exclusive /\ a \notin Exclusive]

Release(r, a) ==
  [used      |-> [p \in Pools |-> r.used[p] - Clamped(a, p)],
   tests     |-> r.tests - TestSlots(a),
   running   |-> r.running - 1,
   exclusive |-> r.exclusive /\ a \notin Exclusive]

SetAdmission(r) ==
  /\ used' = r.used
  /\ tests' = r.tests
  /\ running' = r.running
  /\ exclusive' = r.exclusive

\* claim_ready pops by (priority, Reverse(index)), sets aside what does not fit,
\* takes the first that does.
Claimable(rdy, r) == {a \in rdy : Fits(r, a)}
Before(a, b) ==
  \/ Priority[a] > Priority[b]
  \/ Priority[a] = Priority[b] /\ Position[a] <= Position[b]
First(S) == {a \in S : \A b \in S : Before(a, b)}

-----------------------------------------------------------------------------
(* prepare_schedule: only what the preflight could not certify is planned. *)
\* Mutant: producers the preflight certified are waited for as well.
MutWaitingForCertified == [a \in Actions |->
  IF a \in Scheduled THEN Cardinality(Producers[a]) ELSE 0]

InitialWaiting == [a \in Actions |->
  IF a \in Scheduled THEN Cardinality(Producers[a] \cap Scheduled) ELSE 0]

Init ==
  /\ waiting = InitialWaiting
  /\ ready = {a \in Scheduled : InitialWaiting[a] = 0}
  /\ outcomes = [a \in Actions |-> IF a \in Precached THEN "cached" ELSE None]
  /\ pending = Cardinality(Scheduled)
  /\ abort = FALSE
  /\ used = Free.used /\ tests = 0 /\ running = 0 /\ exclusive = FALSE
  /\ resourceWaiting = FALSE
  /\ pc = [w \in Workers |-> "lock"]
  /\ local = [w \in Workers |-> None]
  /\ result = [w \in Workers |-> None]
  /\ wakes = [w \in Workers |-> 0]

\* The worker holds the lock, the build was aborted and nothing is queued.
ReturnAborted(w) ==
  /\ pc[w] = "lock"
  /\ abort /\ ready = {}
  /\ pc' = [pc EXCEPT ![w] = "returned"]
  /\ UNCHANGED <<shared, local, result, wakes>>

\* claim_ready finds an action that fits: reserve and leave the lock with it.
ClaimNext(w) ==
  /\ pc[w] = "lock"
  /\ ~(abort /\ ready = {})
  /\ \E a \in First(Claimable(ready, Admission)) :
       /\ ready' = ready \ {a}
       /\ SetAdmission(Reserve(Admission, a))
       /\ local' = [local EXCEPT ![w] = a]
  /\ pc' = [pc EXCEPT ![w] = "claimed"]
  /\ UNCHANGED <<waiting, outcomes, pending, abort, resourceWaiting, result, wakes>>

\* claim_ready finds nothing: return when everything is decided, else cv.wait.
\* Mutant: an empty queue is taken for the end of the build.
MutQueueEmpty == ready = {}

EverythingDecided == pending = 0

ReturnOrWait(w) ==
  /\ pc[w] = "lock"
  /\ ~(abort /\ ready = {})
  /\ Claimable(ready, Admission) = {}
  /\ resourceWaiting' = (resourceWaiting \/ ready # {})
  /\ pc' = [pc EXCEPT ![w] = IF EverythingDecided THEN "returned" ELSE "asleep"]
  /\ UNCHANGED <<ready, waiting, outcomes, pending, abort, admission, local, result, wakes>>

\* process, first critical section: the outcomes of every producer.
\* Mutant: a skipped producer does not skip its dependents.
MutUpstreamFailedDirectly(a) == \E p \in Producers[a] : outcomes[p] = "failed"
\* Mutant: an action that only may run does not make its dependents dirty.
MutUpstreamWouldRun(a) == \E p \in Producers[a] : outcomes[p] = "would_run"

UpstreamFailed(a) == \E p \in Producers[a] : outcomes[p] \in {"failed", "skipped"}
UpstreamDirty(a) == \E p \in Producers[a] : outcomes[p] \in {"would_run", "may_run"}

CheckUpstream(w) ==
  /\ pc[w] = "claimed"
  /\ \/ /\ UpstreamFailed(local[w])
        /\ result' = [result EXCEPT ![w] = "skipped"]
        /\ pc' = [pc EXCEPT ![w] = "publish"]
     \/ /\ ~UpstreamFailed(local[w]) /\ UpstreamDirty(local[w])
        /\ result' = [result EXCEPT ![w] = "may_run"]
        /\ pc' = [pc EXCEPT ![w] = "publish"]
     \/ /\ ~UpstreamFailed(local[w]) /\ ~UpstreamDirty(local[w])
        /\ pc' = [pc EXCEPT ![w] = "body"]
        /\ UNCHANGED result
  /\ UNCHANGED <<shared, local, wakes>>

\* The rest of process: a cache hit, an execution or a failure.
Body(w) ==
  /\ pc[w] = "body"
  /\ \E o \in BodyResults : result' = [result EXCEPT ![w] = o]
  /\ pc' = [pc EXCEPT ![w] = "publish"]
  /\ UNCHANGED <<shared, local, wakes>>

\* How many waiters one completion has to wake when it does not wake them all.
WakesDue(unlocked, claimed) ==
  IF unlocked >= claimed THEN unlocked - claimed ELSE 0

\* Dependents whose last undecided producer is a; none once the build stops.
\* Mutant: a dependent is pushed while it still waits for another producer.
MutUnlockedEarly(a, stop) == IF stop THEN {} ELSE {d \in Dependents(a) : waiting[d] \in 1 .. 2}

Unlocked(a, stop) == IF stop THEN {} ELSE {d \in Dependents(a) : waiting[d] = 1}

\* The ready heap after a completion: an abort clears it first.
\* Mutant: an abort forgets to clear the heap.
MutQueueKept(aborts, unlocked) == ready \cup unlocked

QueueAfter(aborts, unlocked) == (IF aborts THEN {} ELSE ready) \cup unlocked

\* Whether one completion wakes every waiter: to see the end and return, or
\* because some waiter (or this worker) found queued work that did not fit.
\* Mutant: the last completion wakes nobody.
MutNoFinalWake(finished, blocked) == blocked \/ resourceWaiting
\* Mutant: the waiters' flag is ignored.
MutNoResourceWake(finished, blocked) == finished

WakesEverybody(finished, blocked) == finished \/ blocked \/ resourceWaiting

\* Where a worker goes when it has nobody left to wake.
Resume(a) == IF a = None THEN "lock" ELSE "claimed"

(* The critical section after process: release, publish the outcome, abort  *)
(* or unlock dependents, claim a continuation, take the waiters' flag.      *)
Publish(w) ==
  /\ pc[w] = "publish"
  /\ LET a        == local[w]
         freed    == Release(Admission, a)
         aborts   == result[w] = "failed" /\ ~KeepGoing
         stop     == abort \/ aborts
         unlocked == Unlocked(a, stop)
         queue    == QueueAfter(aborts, unlocked)
         finished == pending = 1 \/ stop
         fitting  == IF finished THEN {} ELSE Claimable(queue, freed)
         blocked  == ~finished /\ fitting = {} /\ queue # {}
         due      == WakesDue(Cardinality(unlocked), IF fitting = {} THEN 0 ELSE 1)
     IN \E next \in IF fitting = {} THEN {None} ELSE First(fitting) :
        /\ outcomes' = [outcomes EXCEPT ![a] = result[w]]
        /\ pending' = pending - 1
        /\ abort' = stop
        /\ waiting' = IF stop THEN waiting
                      ELSE [d \in Actions |->
                             IF d \in Dependents(a) THEN waiting[d] - 1 ELSE waiting[d]]
        /\ ready' = queue \ {next}
        /\ SetAdmission(IF next = None THEN freed ELSE Reserve(freed, next))
        /\ resourceWaiting' = FALSE
        /\ local' = [local EXCEPT ![w] = next]
        /\ IF WakesEverybody(finished, blocked)
           THEN /\ pc' = [pc EXCEPT ![w] = "notify_all"]
                /\ UNCHANGED wakes
           ELSE /\ pc' = [pc EXCEPT ![w] = IF due = 0 THEN Resume(next) ELSE "notify_one"]
                /\ wakes' = [wakes EXCEPT ![w] = due]
  /\ result' = [result EXCEPT ![w] = None]

\* cv.notify_all(), outside the lock.
NotifyAll(w) ==
  /\ pc[w] = "notify_all"
  /\ pc' = [v \in Workers |->
              IF v = w THEN Resume(local[w])
              ELSE IF pc[v] = "asleep" THEN "lock" ELSE pc[v]]
  /\ UNCHANGED <<shared, local, result, wakes>>

\* One cv.notify_one(): some waiter, if there is one.
NotifyOne(w) ==
  /\ pc[w] = "notify_one"
  /\ LET after == IF wakes[w] = 1 THEN Resume(local[w]) ELSE "notify_one"
         asleep == {v \in Workers : pc[v] = "asleep"}
     IN \/ /\ asleep = {}
           /\ pc' = [pc EXCEPT ![w] = after]
        \/ \E v \in asleep : pc' = [pc EXCEPT ![w] = after, ![v] = "lock"]
  /\ wakes' = [wakes EXCEPT ![w] = @ - 1]
  /\ UNCHANGED <<shared, local, result>>

\* std::sync::Condvar may wake a waiter nobody notified.
SpuriousWakeup(w) ==
  /\ pc[w] = "asleep"
  /\ pc' = [pc EXCEPT ![w] = "lock"]
  /\ UNCHANGED <<shared, local, result, wakes>>

\* thread::scope joins every worker, and run collects the outcomes.
AllReturned == \A w \in Workers : pc[w] = "returned"
Joined == AllReturned /\ UNCHANGED vars

WorkerStep(w) ==
  \/ ReturnAborted(w) \/ ClaimNext(w) \/ ReturnOrWait(w)
  \/ CheckUpstream(w) \/ Body(w) \/ Publish(w)
  \/ NotifyAll(w) \/ NotifyOne(w)

Next == (\E w \in Workers : WorkerStep(w) \/ SpuriousWakeup(w)) \/ Joined

Spec == Init /\ [][Next]_vars

\* Every thread keeps running: the OS schedules it and a body returns.
FairSpec == Spec /\ \A w \in Workers : WF_vars(WorkerStep(w))
-----------------------------------------------------------------------------
(* Properties *)

Places == {"lock", "asleep", "claimed", "body", "publish",
           "notify_all", "notify_one", "returned"}

\* Every variable keeps its type: the shared state the mutex guards and the
\* place of each worker.
TypeOK ==
  /\ ready \subseteq Scheduled
  /\ waiting \in [Actions -> Int]
  /\ outcomes \in [Actions -> Outcomes \cup {None}]
  /\ pending \in Int
  /\ abort \in BOOLEAN
  /\ used \in [Pools -> Int]
  /\ tests \in Int /\ running \in Int
  /\ exclusive \in BOOLEAN
  /\ resourceWaiting \in BOOLEAN
  /\ pc \in [Workers -> Places]
  /\ local \in [Workers -> Scheduled \cup {None}]
  /\ result \in [Workers -> Outcomes \cup {None}]
  /\ wakes \in [Workers -> Nat]

\* The workers that hold an action, claimed but not yet published.
Holders == {w \in Workers : local[w] # None}
InFlight == {local[w] : w \in Holders}
Undecided == {a \in Scheduled : outcomes[a] = None}

\* f summed over the finite set S, as the number of its units: no recursion.
Total(S, f) == Cardinality(UNION {{x} \X (1 .. f[x]) : x \in S})

Share(p) == [a \in Actions |-> Clamped(a, p)]

\* The admission counters are exactly what the actions in flight reserved: no
\* interleaving of claim, continuation and release leaks or double-frees budget.
ReservationsExact ==
  /\ running = Cardinality(InFlight)
  /\ tests = Cardinality(InFlight \cap Tests)
  /\ \A p \in Pools : used[p] = Total(InFlight, Share(p))

\* The actions in flight never exceed a budget, however claims interleave.
WithinBudget ==
  /\ \A p \in Pools : used[p] <= Limit(p)
  /\ tests <= TestLimit

\* While an exclusive action is in flight nothing else is: not an action that
\* was admitted before it, not one a finishing worker claims as continuation.
ExclusiveAlone ==
  \A v, w \in Holders : local[v] \in Exclusive => v = w

\* The actions in flight fit the budget, and an exclusive action has all of it.
BudgetRespected == WithinBudget /\ ExclusiveAlone

\* No two workers hold the same action, and what a worker holds is neither
\* queued nor decided: an action runs at most once per build.
ClaimedOnce ==
  /\ \A v, w \in Holders : local[v] = local[w] => v = w
  /\ InFlight \cap ready = {}
  /\ InFlight \cup ready \subseteq Undecided

\* Nothing is started, and nothing is decided, while a producer of one of its
\* inputs (order-only ones included) is still undecided.
ProducersFirst ==
  \A a \in Scheduled :
    (a \in InFlight \cup ready \/ outcomes[a] # None)
      => \A p \in Producers[a] : outcomes[p] # None

\* What failed upstream is never built upon: with keep_going the whole
\* downstream cone of a failure is skipped, and in a dry run everything below
\* a would-run action only may run.
NothingBuiltOnFailure ==
  \A a \in Scheduled : \A p \in Producers[a] :
    /\ outcomes[p] \in Bad => outcomes[a] \in {None, "skipped"}
    /\ outcomes[p] \in Dirty => outcomes[a] \in {None, "skipped", "may_run"}

\* `pending` counts the undecided actions and `waiting` the undecided producers
\* of each action, until an abort freezes the latter.
CountersExact ==
  /\ pending = Cardinality(Undecided)
  /\ ~abort => \A a \in Undecided :
       waiting[a] = Cardinality({p \in Producers[a] \cap Scheduled : outcomes[p] = None})

\* An undecided action whose producers are all decided is queued or held: no
\* path through claim, deferral and unlock drops it.
NothingDropped ==
  ~abort => \A a \in Undecided :
    (\A p \in Producers[a] : outcomes[p] # None) => a \in ready \cup InFlight

\* While something is undecided and nothing aborted, some worker is neither
\* asleep nor gone: the pool cannot all be waiting for one another.
NeverAllAsleep ==
  (Undecided # {} /\ ~abort) => \E w \in Workers : pc[w] \notin {"asleep", "returned"}

\* What can be done is queued or held, and somebody is up to do it.
WorkGoesOn == NothingDropped /\ NeverAllAsleep

\* notify_one instead of notify_all loses no wakeup: while an un-notified
\* worker sleeps, every queued action is covered by a worker about to look at
\* the queue, a notification still to be sent, or the resource_waiting flag
\* that makes the next completion wake everybody.
Awake == {w \in Workers : pc[w] = "lock"}

WakesOwed == Total({w \in Workers : pc[w] = "notify_one"}, wakes)

NoLostWakeup ==
  ((\E w \in Workers : pc[w] = "asleep") /\ ready # {})
    => \/ (resourceWaiting /\ InFlight # {})
       \/ \E w \in Workers : pc[w] = "notify_all"
       \/ Cardinality(ready) <= Cardinality(Awake) + WakesOwed

\* The end reaches everyone, and only the end: no worker leaves the pool while
\* work may appear, and once everything is decided or the build aborts nobody
\* sleeps on without somebody in flight or about to wake everyone.
EndReachesAll ==
  LET ended == abort \/ Undecided = {}
  IN /\ (\E w \in Workers : pc[w] = "returned") => ended
     /\ ended /\ (\E w \in Workers : pc[w] = "asleep")
          => \/ InFlight # {}
             \/ \E w \in Workers : pc[w] = "notify_all"

\* The pool's counters agree with what is queued, in flight and undecided, and its
\* wakeups with who sleeps.
PoolAgrees == ReservationsExact /\ CountersExact /\ NoLostWakeup /\ EndReachesAll

\* An outcome, once published, is never replaced: dependents that read it under
\* the lock read what the report will say.
OutcomesFinal ==
  [][\A a \in Actions : outcomes[a] # None => outcomes'[a] = outcomes[a]]_vars

\* Once the build aborts no worker takes new work, not even a continuation:
\* what is in flight finishes and nothing else starts.
AbortStopsClaims ==
  [][abort => \A w \in Workers : local'[w] \in {local[w], None}]_vars

\* Every build ends: all workers return.
BuildEnds == <>AllReturned

\* A ready action is not starved: it is decided unless the build aborts.
ReadyDecided == \A a \in Actions : a \in ready ~> (outcomes[a] # None \/ abort)

\* The build ends, and not by passing over what was ready.
WorkIsDone == BuildEnds /\ ReadyDecided

\* The pool implements the order a build promises: its shared state maps to the
\* actions in flight, the verdicts and the stop flag of BuildOrder.
Order == INSTANCE BuildOrder WITH active <- InFlight, verdict <- outcomes, stopped <- abort
ImplementsBuildOrder == Order!Spec
=============================================================================

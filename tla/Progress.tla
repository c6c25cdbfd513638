------------------------------ MODULE Progress ------------------------------
(* What a build says of itself: run_build and the engine's workers emit events, *)
(* the renderer's thread shows them and writes the build event stream, and the  *)
(* summary and the exit code come from the report. Which action is admitted     *)
(* when, and what an action does, are Scheduler's and ActionBody's.             *)
EXTENDS Command, Integers, Sequences, FiniteSets, SequencesExt

CONSTANTS
  Closures,           \* action -> its producers: the closures that may be asked for
  Workers,            \* the slots of the pool
  Invocations,        \* [keepGoing, live, events]: the command line and its terminal
  May                 \* action -> what may become of it

\* The events that a build may emit.
ActionResults == {"executed", "flaky", "cached", "failed", "skipped"}
Buildable == UNION {DOMAIN c : c \in Closures}
ProgressEvents ==
  [event : {"build_started", "all_cached"}, total : Nat]
    \cup [event : {"action_started", "action_running", "action_output"},
          of : Buildable, slot : Workers]
    \cup [event : {"action_finished"}, of : Buildable, result : ActionResults, completed : Nat,
          slot : Workers]
    \cup [event : {"build_finished"}, success : BOOLEAN]

ASSUME ProgressAssumption ==
  /\ Workers # {} /\ None \notin Buildable /\ None \notin Seq(ProgressEvents)
  /\ None \notin ActionResults \cup {"error", "live", "plain", "checking cache", "running/miss"}
  /\ \A c \in Closures : IsFiniteSet(DOMAIN c)
  /\ Invocations \subseteq [keepGoing : BOOLEAN, live : BOOLEAN, events : BOOLEAN]
  /\ \A a \in Buildable : May[a] \subseteq ActionResults \ {"skipped"}

VARIABLES
  invocation, closure,
  phase,              \* where run_build is
  certified,          \* preflight's actions
  pool,               \* slot -> [at, of, result, completed, next], at is "idle", "claimed",
                      \*   "settled", "running" or "published"
  outcomes,           \* action -> what became of it, of those that are decided
  abort,
  interrupted,        \* was_cancelled
  sent,               \* the channel of progress events
  renderer,           \* "starting", "live", "plain" or "ended"
  display,            \* TuiState and what run_plain has printed
  stream,             \* the lines of the --build-event-json file, None without one
  exitCode            \* "0", "1", "130", "error" for a run that fails without a report

runVars == <<invocation, closure, phase, certified, interrupted, exitCode>>
poolVars == <<pool, outcomes, abort>>
showVars == <<renderer, display, stream>>
progressVars == <<runVars, poolVars, sent, showVars>>

All == DOMAIN closure
Decided == DOMAIN outcomes
Total == Cardinality(All)
Claimed == {pool[w].of : w \in Workers} \cup {pool[w].next : w \in Workers}

\* Shared.ready: aborting clears it, and nothing is added to it afterwards.
Ready == {a \in All \ (Decided \cup Claimed) : ~abort /\ closure[a] \subseteq Decided}

\* BuildReport: an action that nobody decided was not run because of the abort.
ResultOf(a) == IF a \in Decided THEN outcomes[a] ELSE "skipped"
Count(result) == Cardinality({a \in All : ResultOf(a) = result})
Success == \A a \in All : ResultOf(a) \in {"executed", "flaky", "cached"}

ActionFinished(a, result, completed, slot) ==
  [event |-> "action_finished", of |-> a, result |-> result, completed |-> completed,
   slot |-> slot]
Of(event, a, slot) == [event |-> event, of |-> a, slot |-> slot]
BuildStarted == [event |-> "build_started", total |-> Total]
AllCached == [event |-> "all_cached", total |-> Total]
BuildFinished(success) == [event |-> "build_finished", success |-> success]

Emit(event) == sent' = Append(sent, event)

-----------------------------------------------------------------------------
(* The renderer's thread.                                                    *)

\* TuiState: the counters, the rows of the slots, and what run_plain remembers and prints.
Blank ==
  [on |-> None, completed |-> 0, hits |-> 0, failures |-> 0, success |-> None,
   rows |-> [w \in Workers |-> [of |-> None, status |-> None]],
   outputs |-> {}, printed |-> <<>>]

\* EventLog::write and encode: a row that begins to run and what a command printed are not
\* in the stream.
Write(lines, event) ==
  IF lines = None \/ event.event \in {"action_running", "action_output"} THEN lines
  ELSE Append(lines, event)

\* TuiState::apply.
Shown(d, e) ==
  CASE e.event = "all_cached" -> [d EXCEPT !.completed = e.total, !.hits = e.total]
    [] e.event = "action_started" ->
         [d EXCEPT !.rows[e.slot] = [of |-> e.of, status |-> "checking cache"]]
    [] e.event = "action_running" ->
         [d EXCEPT !.rows = [w \in Workers |->
            IF d.rows[w].of = e.of THEN [d.rows[w] EXCEPT !.status = "running/miss"]
            ELSE d.rows[w]]]
    [] e.event = "action_finished" ->
         [d EXCEPT !.completed = e.completed, !.rows[e.slot].status = e.result,
                   !.hits = IF e.result = "cached" THEN @ + 1 ELSE @,
                   !.failures = IF e.result = "failed" THEN @ + 1 ELSE @]
    [] e.event = "build_finished" -> [d EXCEPT !.success = e.success]
    [] OTHER -> d

\* run_plain: a line for what ran and for what failed, with what the command printed.
WithLine(d, e, output) ==
  [d EXCEPT !.outputs = @ \ {e.of},
            !.printed = Append(@, [of |-> e.of, result |-> e.result,
                                   completed |-> e.completed, output |-> output])]
Printed(d, e) ==
  CASE e.event = "action_output" -> [d EXCEPT !.outputs = @ \cup {e.of}]
    [] e.event = "action_finished" /\ e.result \in {"executed", "flaky"} ->
         WithLine(d, e, e.of \in d.outputs)
    [] e.event = "action_finished" /\ e.result = "failed" -> WithLine(d, e, FALSE)
    [] e.event = "action_finished" /\ e.result \in {"cached", "skipped"} ->
         [d EXCEPT !.outputs = @ \ {e.of}]
    [] OTHER -> d

\* run_live falls back to run_plain when the terminal cannot be entered.
Enter ==
  /\ renderer = "starting"
  /\ \/ invocation.live /\ renderer' = "live"
     \/ renderer' = "plain"
  /\ display' = [Blank EXCEPT !.on = renderer']
  /\ UNCHANGED <<runVars, poolVars, sent, stream>>

Receive ==
  /\ renderer \in {"live", "plain"} /\ sent # <<>>
  /\ sent' = Tail(sent)
  /\ display' = IF renderer = "live" THEN Shown(display, Head(sent))
                ELSE Printed(display, Head(sent))
  /\ stream' = Write(stream, Head(sent))
  /\ UNCHANGED <<runVars, poolVars, renderer>>

\* Engine::run takes the engine, and its sender with it.
SendersGone == phase = "drain"

Disconnect ==
  /\ renderer \in {"live", "plain"} /\ sent = <<>> /\ SendersGone
  /\ renderer' = "ended"
  /\ UNCHANGED <<runVars, poolVars, sent, display, stream>>

-----------------------------------------------------------------------------
(* run_build and Engine::run.                                                *)

EndsWith(code) == phase' = "ended" /\ exitCode' = code

\* try_fast_noop and write_fast_noop_events: the certificate answers, and nothing is
\* planned; a filtered, explained or published build does not ask it.
Certificate ==
  /\ phase = "begin" /\ ~invocation.keepGoing
  /\ stream' = IF invocation.events THEN <<BuildStarted, AllCached, BuildFinished(TRUE)>>
               ELSE None
  /\ certified' = All /\ outcomes' = [a \in All |-> "cached"]
  /\ EndsWith("0")
  /\ UNCHANGED <<invocation, closure, interrupted, pool, abort, sent, renderer, display>>

\* EventLog::create and progress::start.
StartRenderer ==
  /\ phase = "begin" /\ phase' = "preflight"
  /\ renderer' = "starting"
  /\ stream' = IF invocation.events THEN <<>> ELSE None
  /\ UNCHANGED <<invocation, closure, certified, interrupted, exitCode, poolVars, sent, display>>

\* prepare_output_dirs and materialize::select may fail: nothing is emitted then.
Unprepared ==
  /\ phase = "preflight" /\ phase' = "drain" /\ exitCode' = "error"
  /\ UNCHANGED <<invocation, closure, certified, interrupted, poolVars, sent, showVars>>

\* Mutant: only the display counts.
MutReadsHits == invocation.live
\* reads_cache_hits.
ReadsHits == invocation.live \/ invocation.events

HitEvents(hits) ==
  LET order == SetToSeq(hits) IN
  [i \in 1..Len(order) |-> ActionFinished(order[i], "cached", i, CHOOSE w \in Workers : TRUE)]

\* preflight certifies actions whose producers it certifies as well, and prepare_schedule
\* leaves the others to the pool.
Preflight ==
  /\ phase = "preflight"
  /\ \E hits \in SUBSET All :
       /\ \A a \in hits : closure[a] \subseteq hits
       /\ certified' = hits
       /\ outcomes' = [a \in hits |-> "cached"]
       /\ phase' = IF hits = All THEN "save" ELSE "work"
       /\ sent' = <<BuildStarted>> \o
            (IF hits = All THEN <<AllCached>>
             ELSE IF ReadsHits THEN HitEvents(hits) ELSE <<>>)
  /\ UNCHANGED <<invocation, closure, interrupted, exitCode, pool, abort, showVars>>

\* The scope of the workers has ended, the caches are saved and the results collected; a
\* journal, store or cache that cannot be written ends the run without its last event.
Save ==
  /\ \/ phase = "save"
     \/ /\ phase = "work" /\ Ready = {} /\ (abort \/ Decided = All)
        /\ \A w \in Workers : pool[w].at = "idle"
  /\ phase' = "drain"
  /\ \/ Emit(BuildFinished(Success)) /\ exitCode' = exitCode
     \/ sent' = sent /\ exitCode' = "error"
  /\ UNCHANGED <<invocation, closure, certified, interrupted, poolVars, showVars>>

\* renderer.finish, the summary and the exit code: the thread is joined before `report?`.
Joined == renderer = "ended"

Summarize ==
  /\ phase = "drain" /\ Joined
  /\ EndsWith(IF exitCode = "error" THEN "error" ELSE IF interrupted THEN "130"
              ELSE IF Success THEN "0" ELSE "1")
  /\ UNCHANGED <<invocation, closure, certified, interrupted, poolVars, sent, showVars>>

\* Ctrl-C, as a signal or as a key of the live display.
CancelBuild ==
  /\ phase = "work" /\ ~interrupted
  /\ interrupted' = TRUE
  /\ UNCHANGED <<invocation, closure, phase, certified, exitCode, poolVars, sent, showVars>>

-----------------------------------------------------------------------------
(* Engine::worker.                                                           *)

IdleSlot == [at |-> "idle", of |-> None, result |-> None, completed |-> 0, next |-> None]
At(w, step) == phase = "work" /\ pool[w].at = step

Claim(w) ==
  /\ At(w, "idle")
  /\ \E a \in Ready : pool' = [pool EXCEPT ![w] = [IdleSlot EXCEPT !.at = "claimed", !.of = a]]
  /\ UNCHANGED <<runVars, outcomes, abort, sent, showVars>>

Upstream(a) == \E p \in closure[a] : outcomes[p] \in {"failed", "skipped"}

\* process: a producer that did not succeed, a cached result, inputs or outputs that cannot
\* be read; execute starts nothing after a cancellation.
Settle(w) ==
  LET a == pool[w].of IN
  /\ At(w, "claimed")
  /\ Emit(Of("action_started", a, w))
  /\ \E r \in IF Upstream(a) THEN {"skipped"}
             ELSE (May[a] \cap {"cached", "failed"}) \cup (IF interrupted THEN {"failed"} ELSE {}) :
       pool' = [pool EXCEPT ![w].at = "settled", ![w].result = r]
  /\ UNCHANGED <<runVars, outcomes, abort, showVars>>

\* execute: the row runs.
StartsRunning(w) ==
  LET a == pool[w].of IN
  /\ At(w, "claimed") /\ ~interrupted /\ ~Upstream(a)
  /\ sent' = sent \o <<Of("action_started", a, w), Of("action_running", a, w)>>
  /\ pool' = [pool EXCEPT ![w].at = "running"]
  /\ UNCHANGED <<runVars, outcomes, abort, showVars>>

\* Under the lock: the outcome, the count, the abort and the next claim.
Decides(w, result) ==
  LET a == pool[w].of
      stops == result = "failed" /\ ~invocation.keepGoing
      decided == Decided \cup {a}
      ready == {b \in All \ (decided \cup Claimed) : closure[b] \subseteq decided}
      claims == IF abort \/ stops \/ ready = {} THEN {None} ELSE ready
  IN
  /\ outcomes' = [b \in decided |-> IF b = a THEN result ELSE outcomes[b]]
  /\ abort' = (abort \/ stops)
  /\ \E b \in claims :
       pool' = [pool EXCEPT ![w].at = "published", ![w].result = result, ![w].next = b,
                            ![w].completed = Cardinality(decided)]
  /\ UNCHANGED <<runVars, showVars>>

Decide(w) ==
  /\ At(w, "settled") /\ Decides(w, pool[w].result)
  /\ sent' = sent

\* What the commands came to, which a cancellation may find finished; what a failed one
\* printed is in its detail.
RunCommands(w) ==
  /\ At(w, "running")
  /\ \E r \in (May[pool[w].of] \ {"cached"}) \cup (IF interrupted THEN {"failed"} ELSE {}) :
       /\ Decides(w, r)
       /\ IF r = "failed" THEN sent' = sent ELSE Emit(Of("action_output", pool[w].of, w))

\* After the lock is dropped.
Finish(w) ==
  LET p == pool[w] IN
  /\ At(w, "published")
  /\ Emit(ActionFinished(p.of, p.result, p.completed, w))
  /\ pool' = [pool EXCEPT ![w] = IF p.next = None THEN IdleSlot
                                 ELSE [IdleSlot EXCEPT !.at = "claimed", !.of = p.next]]
  /\ UNCHANGED <<runVars, outcomes, abort, showVars>>

-----------------------------------------------------------------------------
ProgressInit ==
  /\ invocation \in Invocations /\ closure \in Closures
  /\ phase = "begin" /\ certified = {} /\ interrupted = FALSE /\ exitCode = None
  /\ pool = [w \in Workers |-> IdleSlot] /\ outcomes = <<>> /\ abort = FALSE
  /\ sent = <<>> /\ renderer = "ended" /\ display = Blank /\ stream = None

RunStep == Certificate \/ StartRenderer \/ Unprepared \/ Preflight \/ Save \/ Summarize
WorkerStep(w) ==
  Claim(w) \/ Settle(w) \/ StartsRunning(w) \/ Decide(w) \/ RunCommands(w) \/ Finish(w)
RendererStep == Enter \/ Receive \/ Disconnect

ProgressNext ==
  RunStep \/ CancelBuild \/ RendererStep \/ \E w \in Workers : WorkerStep(w)

-----------------------------------------------------------------------------
Lines(event) == {i \in DOMAIN stream : stream[i].event = event}
LinesOf(event, a) == {i \in Lines(event) : stream[i].of = a}

\* What a dashboard reads is what happened: the stream begins with build_started and ends
\* with a build_finished that says what the exit code says; an action that was certified is
\* finished and never started, one that was decided is finished once, after it was started
\* once, with its result in the report, and one that the abort left undecided is not in it.
StreamAgrees ==
  /\ stream # <<>> /\ Head(stream) = BuildStarted
  /\ Last(stream) = BuildFinished(Success)
  /\ Cardinality(Lines("build_finished")) = 1
  /\ IF certified = All THEN Len(stream) = 3 /\ Lines("all_cached") = {2}
     ELSE \A a \in All :
       LET started == LinesOf("action_started", a)
           finished == LinesOf("action_finished", a)
       IN /\ Cardinality(started) = IF a \in Decided \ certified THEN 1 ELSE 0
          /\ Cardinality(finished) = IF a \in Decided THEN 1 ELSE 0
          /\ \A i \in finished : stream[i].result = outcomes[a]
          /\ \A i \in started, j \in finished : i < j

\* The summary that follows the display agrees with it, and no row is left at work.
DisplayAgrees ==
  /\ display.on = "live" =>
       /\ display.hits = Count("cached") /\ display.failures = Count("failed")
       /\ display.success = Success
       /\ \A w \in Workers : display.rows[w].status \notin {"checking cache", "running/miss"}
  /\ display.on = "plain" =>
       /\ Len(display.printed) = Count("executed") + Count("flaky") + Count("failed")
       /\ \A i \in DOMAIN display.printed :
            LET line == display.printed[i] IN
            /\ line.result = outcomes[line.of]
            /\ line.output = (line.result # "failed")

\* Whoever reads the stream, the terminal or the exit code of a build that was summarized
\* learns the same of it.
EveryoneIsTold ==
  phase = "ended" /\ exitCode # "error" =>
    /\ stream # None => StreamAgrees
    /\ DisplayAgrees
    /\ ~interrupted => (exitCode = "0" <=> Success)
=============================================================================

----------------------------- MODULE BuildOrder -----------------------------
(***************************************************************************)
(* What the worker pool promises, without workers, locks, counters or       *)
(* wakeups: a build starts an action only when every producer of its inputs *)
(* is decided, runs exclusive actions alone, decides each action once by    *)
(* the verdicts of its producers, and starts nothing after it stopped.      *)
(* Module Scheduler implements it.                                          *)
(***************************************************************************)
CONSTANTS Actions, Producers, Precached, Exclusive, KeepGoing, None

VARIABLES active,    \* actions in flight
          verdict,   \* what has been decided
          stopped    \* a failure ended the build

vars == <<active, verdict, stopped>>

Verdicts == {"cached", "executed", "failed", "skipped", "would_run", "may_run"}

Init ==
  /\ active = {}
  /\ verdict = [a \in Actions |-> IF a \in Precached THEN "cached" ELSE None]
  /\ stopped = FALSE

\* a may join the actions S, given verdicts v.
MayStart(a, S, v) ==
  /\ a \in Actions \ Precached
  /\ a \notin S /\ v[a] = None
  /\ \A p \in Producers[a] : v[p] # None
  /\ S # {} => a \notin Exclusive /\ S \cap Exclusive = {}

\* What may become of a: skipped below a failure, may_run below work not done.
Follows(a, o) ==
  /\ o \in Verdicts
  /\ \A p \in Producers[a] :
       /\ verdict[p] \in {"failed", "skipped"} => o = "skipped"
       /\ verdict[p] \in {"would_run", "may_run"} => o \in {"skipped", "may_run"}

Start ==
  /\ ~stopped
  /\ \E a \in Actions : MayStart(a, active, verdict) /\ active' = active \cup {a}
  /\ UNCHANGED <<verdict, stopped>>

\* Decide a, and perhaps go on with b in the same step.
Finish ==
  \E a \in active, o \in Verdicts :
    /\ Follows(a, o)
    /\ verdict' = [verdict EXCEPT ![a] = o]
    /\ stopped' = (stopped \/ (o = "failed" /\ ~KeepGoing))
    /\ \/ active' = active \ {a}
       \/ /\ ~stopped'
          /\ \E b \in Actions : /\ MayStart(b, active \ {a}, verdict')
                                /\ active' = (active \ {a}) \cup {b}

Next == Start \/ Finish

Spec == Init /\ [][Next]_vars
=============================================================================

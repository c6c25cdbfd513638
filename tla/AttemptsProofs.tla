--------------------------- MODULE AttemptsProofs ---------------------------
(* What holds of running commands for any number of workers, cancellations,   *)
(* commands, retries and runs.                                                *)
EXTENDS Attempts, TLAPS

(***************************************************************************)
(* The inductive invariant.  A process a worker waits for is registered, a  *)
(* cancellation that began has set the flag, and the counters of an attempt *)
(* in progress are one behind those of the loops.                           *)
(***************************************************************************)
Attempting == {"spawn", "register", "wait", "grace", "reap", "unregister", "judge"}
Ordinal(w) == attempts[w] + completed[w]

Registered ==
  \A w \in Workers : pc[w] \in {"wait", "grace", "reap"} => w \in groups

FlagFirst == (\E c \in Cancellers : request[c] # "ready") => cancelled

Counted(w) ==
  /\ pc[w] = "begin" => passes[w] = 0 /\ failures[w] = 0
  /\ pc[w] \in Attempting => failures[w] = attempts[w] - 1 /\ passes[w] = completed[w] - 1
  /\ pc[w] = "passed" => failures[w] = attempts[w] - 1 /\ passes[w] = completed[w]
  /\ pc[w] = "failed" => failures[w] = attempts[w] /\ passes[w] = completed[w] - 1
  /\ pc[w] = "passed" => process[w] = "passed" /\ ~timedOut[w]
  /\ pc[w] \notin {"begin", "done"} => attempts[w] >= 1 /\ completed[w] \in 1 .. Runs(w)

Fresh(w) ==
  /\ pc[w] = "spawn" => traces[w] \subseteq {Ordinal(w)}
  /\ pc[w] \in (Attempting \ {"spawn"}) \cup {"passed"} => traces[w] = {Ordinal(w)}

Reached ==
  /\ Registered
  /\ FlagFirst
  /\ NoOrphans
  /\ CancellationReachesAll

SignalInv == TypeOK /\ Reached

LoopInv ==
  /\ \A w \in Workers : Counted(w) /\ Fresh(w)
  /\ RecordedPassed
  /\ AttemptsAreFresh

-----------------------------------------------------------------------------
(* Signals and processes *)

\* Nothing runs at the start.
LEMMA SignalInit == Init => SignalInv
<1> SUFFICES ASSUME Init PROVE SignalInv
  OBVIOUS
<1>1. traces \in [Workers -> SUBSET Nat]
  BY DEF Init
<1>2. /\ pc \in [Workers -> Places]
      /\ \A w \in Workers : (pc[w] = "done") = (verdict[w] # None)
  BY DEF Init, Places
<1>3. TypeOK
  BY <1>1, <1>2 DEF Init, TypeOK, Zero, No
<1>4. Reached
  BY DEF Init, Reached, Registered, FlagFirst, NoOrphans, CancellationReachesAll
<1> QED BY <1>3, <1>4 DEF SignalInv

\* Types are inductive by themselves.
LEMMA TypeStep == TypeOK /\ [Next]_vars => TypeOK'
<1> SUFFICES ASSUME TypeOK, [Next]_vars PROVE TypeOK'
  OBVIOUS
<1>1. ASSUME NEW w \in Workers, Begin(w) PROVE TypeOK'
  BY <1>1, NoneAssumption
     DEF Begin, StartAttempt, Decide, Swept, TypeOK, Places, signals, loops, history
<1>2. ASSUME NEW w \in Workers, Spawn(w) PROVE TypeOK'
  <2> DEFINE n == attempts[w] + completed[w]
  <2>1. n \in Nat
    BY DEF TypeOK
  <2>2. CASE traces' = [traces EXCEPT ![w] = @ \cup {n}] /\ UNCHANGED verdict
             /\ pc' = [pc EXCEPT ![w] = "register"]
    <3>1. traces' \in [Workers -> SUBSET Nat]
      BY <2>1, <2>2 DEF TypeOK
    <3>2. /\ pc' \in [Workers -> Places]
          /\ \A v \in Workers : (pc'[v] = "done") = (verdict'[v] # None)
      BY <1>2, <2>2 DEF TypeOK, Spawn, Places
    <3> QED BY <1>2, <2>2, <3>1, <3>2 DEF Spawn, Decide, TypeOK, signals, loops, history
  <2>3. CASE /\ Decide(w, "failed")
             /\ UNCHANGED <<process, signalled, killed, timedOut, traces>>
    BY <1>2, <2>3, NoneAssumption
       DEF Spawn, Decide, TypeOK, Places, signals, loops, history
  <2> QED BY <1>2, <2>2, <2>3 DEF Spawn
<1>3. ASSUME NEW w \in Workers, Register(w) PROVE TypeOK'
  BY <1>3 DEF Register, Missed, TypeOK, Places, loops, history
<1>4. ASSUME NEW w \in Workers, Reap(w) PROVE TypeOK'
  BY <1>4 DEF Reap, TypeOK, Places, signals, child, loops, history
<1>5. ASSUME NEW w \in Workers, Expire(w) PROVE TypeOK'
  BY <1>5 DEF Expire, TypeOK, Places, signals, loops, history
<1>6. ASSUME NEW w \in Workers, Kill(w) PROVE TypeOK'
  BY <1>6 DEF Kill, Escalated, AfterKill, TypeOK, Places, signals, loops, history
<1>7. ASSUME NEW w \in Workers, Unregister(w) PROVE TypeOK'
  BY <1>7 DEF Unregister, TypeOK, Places, child, loops, history
<1>8. ASSUME NEW w \in Workers, NextCommand(w) PROVE TypeOK'
  BY <1>8 DEF NextCommand, TypeOK, Places, signals, loops, history
<1>9. ASSUME NEW w \in Workers, AttemptOver(w) PROVE TypeOK'
  BY <1>9 DEF AttemptOver, TypeOK, Places, signals, child, loops
<1>10. ASSUME NEW w \in Workers, Retry(w) PROVE TypeOK'
  BY <1>10, NoneAssumption
     DEF Retry, StartAttempt, Decide, Swept, TypeOK, Places, signals, history
<1>11. ASSUME NEW w \in Workers, GiveUp(w) PROVE TypeOK'
  BY <1>11, NoneAssumption
     DEF GiveUp, Decide, TypeOK, Places, signals, child, loops, history
<1>12. ASSUME NEW w \in Workers, Repeat(w) PROVE TypeOK'
  BY <1>12, NoneAssumption
     DEF Repeat, StartAttempt, Decide, Swept, TypeOK, Places, signals, history
<1>13. ASSUME NEW w \in Workers, Succeed(w) PROVE TypeOK'
  BY <1>13, NoneAssumption
     DEF Succeed, Decide, TypeOK, Places, signals, child, loops, history
<1>14. ASSUME NEW c \in Cancellers, SetFlag(c) PROVE TypeOK'
  BY <1>14 DEF SetFlag, TypeOK, Places, child, loops, history
<1>15. ASSUME NEW c \in Cancellers, TerminateAll(c) PROVE TypeOK'
  BY <1>15 DEF TerminateAll, TypeOK, Places, loops, history
<1>16. ASSUME NEW w \in Workers, Exit(w) PROVE TypeOK'
  BY <1>16 DEF Exit, TypeOK, Places, signals, loops, history
<1>17. ASSUME NEW w \in Workers, Dies(w) PROVE TypeOK'
  BY <1>17 DEF Dies, TypeOK, Places, signals, loops, history
<1>18. CASE UNCHANGED vars
  BY <1>18 DEF TypeOK, Places, signals, child, loops, history, vars
<1> QED BY <1>1, <1>2, <1>3, <1>4, <1>5, <1>6, <1>7, <1>8, <1>9, <1>10, <1>11, <1>12,
       <1>13, <1>14, <1>15, <1>16, <1>17, <1>18
   DEF Next, WorkerStep, Over

\* Registration and the flag test share a critical section with nothing between.
LEMMA SignalStep == SignalInv /\ [Next]_vars => SignalInv'
<1> SUFFICES ASSUME SignalInv, [Next]_vars PROVE Reached'
  BY TypeStep DEF SignalInv
<1>1. ASSUME NEW w \in Workers, Begin(w) PROVE Reached'
  BY <1>1
     DEF Begin, StartAttempt, Decide, Swept, SignalInv, TypeOK, Reached, Registered,
         FlagFirst, NoOrphans, CancellationReachesAll, signals
<1>2. ASSUME NEW w \in Workers, Spawn(w) PROVE Reached'
  BY <1>2
     DEF Spawn, Decide, SignalInv, TypeOK, Reached, Registered, FlagFirst, NoOrphans,
         CancellationReachesAll, signals
<1>3. ASSUME NEW w \in Workers, Register(w) PROVE Reached'
  BY <1>3
     DEF Register, Missed, SignalInv, TypeOK, Reached, Registered, FlagFirst, NoOrphans,
         CancellationReachesAll
<1>4. ASSUME NEW w \in Workers, Reap(w) PROVE Reached'
  BY <1>4
     DEF Reap, SignalInv, TypeOK, Reached, Registered, FlagFirst, NoOrphans,
         CancellationReachesAll, signals, child
<1>5. ASSUME NEW w \in Workers, Expire(w) PROVE Reached'
  BY <1>5
     DEF Expire, SignalInv, TypeOK, Reached, Registered, FlagFirst, NoOrphans,
         CancellationReachesAll, signals
<1>6. ASSUME NEW w \in Workers, Kill(w) PROVE Reached'
  BY <1>6
     DEF Kill, Escalated, AfterKill, SignalInv, TypeOK, Reached, Registered, FlagFirst,
         NoOrphans, CancellationReachesAll, signals
<1>7. ASSUME NEW w \in Workers, Unregister(w) PROVE Reached'
  BY <1>7
     DEF Unregister, SignalInv, TypeOK, Reached, Registered, FlagFirst, NoOrphans,
         CancellationReachesAll, child
<1>8. ASSUME NEW w \in Workers, NextCommand(w) PROVE Reached'
  BY <1>8
     DEF NextCommand, SignalInv, TypeOK, Reached, Registered, FlagFirst, NoOrphans,
         CancellationReachesAll, signals
<1>9. ASSUME NEW w \in Workers, AttemptOver(w) PROVE Reached'
  BY <1>9
     DEF AttemptOver, SignalInv, TypeOK, Reached, Registered, FlagFirst, NoOrphans,
         CancellationReachesAll, signals, child
<1>10. ASSUME NEW w \in Workers, Retry(w) PROVE Reached'
  BY <1>10
     DEF Retry, StartAttempt, Decide, Swept, SignalInv, TypeOK, Reached, Registered,
         FlagFirst, NoOrphans, CancellationReachesAll, signals
<1>11. ASSUME NEW w \in Workers, GiveUp(w) PROVE Reached'
  BY <1>11
     DEF GiveUp, Decide, SignalInv, TypeOK, Reached, Registered, FlagFirst, NoOrphans,
         CancellationReachesAll, signals, child
<1>12. ASSUME NEW w \in Workers, Repeat(w) PROVE Reached'
  BY <1>12
     DEF Repeat, StartAttempt, Decide, Swept, SignalInv, TypeOK, Reached, Registered,
         FlagFirst, NoOrphans, CancellationReachesAll, signals
<1>13. ASSUME NEW w \in Workers, Succeed(w) PROVE Reached'
  BY <1>13
     DEF Succeed, Decide, SignalInv, TypeOK, Reached, Registered, FlagFirst, NoOrphans,
         CancellationReachesAll, signals, child
<1>14. ASSUME NEW c \in Cancellers, SetFlag(c) PROVE Reached'
  BY <1>14
     DEF SetFlag, SignalInv, TypeOK, Reached, Registered, FlagFirst, NoOrphans,
         CancellationReachesAll, child
<1>15. ASSUME NEW c \in Cancellers, TerminateAll(c) PROVE Reached'
  BY <1>15
     DEF TerminateAll, SignalInv, TypeOK, Reached, Registered, FlagFirst, NoOrphans,
         CancellationReachesAll
<1>16. ASSUME NEW w \in Workers, Exit(w) PROVE Reached'
  BY <1>16
     DEF Exit, SignalInv, TypeOK, Reached, Registered, FlagFirst, NoOrphans,
         CancellationReachesAll, signals
<1>17. ASSUME NEW w \in Workers, Dies(w) PROVE Reached'
  BY <1>17
     DEF Dies, SignalInv, TypeOK, Reached, Registered, FlagFirst, NoOrphans,
         CancellationReachesAll, signals
<1>18. CASE UNCHANGED vars
  BY <1>18
     DEF SignalInv, TypeOK, Reached, Registered, FlagFirst, NoOrphans,
         CancellationReachesAll, signals, child, vars
<1> QED BY <1>1, <1>2, <1>3, <1>4, <1>5, <1>6, <1>7, <1>8, <1>9, <1>10, <1>11, <1>12,
       <1>13, <1>14, <1>15, <1>16, <1>17, <1>18
   DEF Next, WorkerStep, Over

\* Who is registered, signalled and still running is as it should be.
THEOREM SignalInvariant == Spec => []SignalInv
  BY SignalInit, SignalStep, PTL DEF Spec

-----------------------------------------------------------------------------
(* The loops *)

\* `runs_per_test.max(1)`.
LEMMA RunsPositive == TypeOK => \A w \in Workers : Runs(w) \in Nat /\ Runs(w) >= 1
  BY AttemptsAssumption DEF TypeOK, Runs

\* Nothing has been attempted at the start.
LEMMA LoopInit == Init => LoopInv
BY NoneAssumption
DEF Init, LoopInv, Counted, Fresh, RecordedPassed, AttemptsAreFresh, Zero, No, Attempting

\* Each attempt counts once, for the loop it belongs to.
LEMMA LoopStep == SignalInv /\ LoopInv /\ [Next]_vars => LoopInv'
<1> SUFFICES ASSUME SignalInv, LoopInv, [Next]_vars PROVE LoopInv'
  OBVIOUS
<1>1. ASSUME NEW w \in Workers, Begin(w) PROVE LoopInv'
  BY <1>1, NoneAssumption, RunsPositive
     DEF Begin, StartAttempt, Decide, Swept, SignalInv, LoopInv, TypeOK, Counted, Fresh,
         Ordinal, Attempting, RecordedPassed, AttemptsAreFresh, Runs, signals, loops,
         history
<1>2. ASSUME NEW w \in Workers, Spawn(w) PROVE LoopInv'
  BY <1>2, NoneAssumption
     DEF Spawn, Decide, SignalInv, LoopInv, TypeOK, Counted, Fresh, Ordinal, Attempting,
         RecordedPassed, AttemptsAreFresh, Runs, signals, loops, history
<1>3. ASSUME NEW w \in Workers, Register(w) PROVE LoopInv'
  BY <1>3
     DEF Register, Missed, SignalInv, LoopInv, TypeOK, Counted, Fresh, Ordinal,
         Attempting, RecordedPassed, AttemptsAreFresh, Runs, loops, history
<1>4. ASSUME NEW w \in Workers, Reap(w) PROVE LoopInv'
  BY <1>4
     DEF Reap, SignalInv, LoopInv, TypeOK, Counted, Fresh, Ordinal, Attempting,
         RecordedPassed, AttemptsAreFresh, Runs, signals, child, loops, history
<1>5. ASSUME NEW w \in Workers, Expire(w) PROVE LoopInv'
  BY <1>5, NoneAssumption
     DEF Expire, SignalInv, LoopInv, TypeOK, Counted, Fresh, Ordinal, Attempting,
         RecordedPassed, AttemptsAreFresh, Runs, signals, loops, history
<1>6. ASSUME NEW w \in Workers, Kill(w) PROVE LoopInv'
  <2>1. \A v \in Workers : Counted(v)'
    BY <1>6
       DEF Kill, Escalated, AfterKill, SignalInv, LoopInv, TypeOK, Counted, Attempting,
           Runs, loops, history
  <2>2. \A v \in Workers : Fresh(v)'
    BY <1>6
       DEF Kill, Escalated, AfterKill, SignalInv, LoopInv, TypeOK, Fresh, Ordinal,
           Attempting, loops
  <2>3. RecordedPassed'
    BY <1>6
       DEF Kill, Escalated, AfterKill, SignalInv, LoopInv, TypeOK, Counted, Attempting,
           RecordedPassed, Runs, signals, history
  <2>4. AttemptsAreFresh'
    BY <1>6
       DEF Kill, Escalated, AfterKill, SignalInv, LoopInv, TypeOK, Fresh, Attempting,
           AttemptsAreFresh, loops
  <2> QED BY <2>1, <2>2, <2>3, <2>4 DEF LoopInv
<1>7. ASSUME NEW w \in Workers, Unregister(w) PROVE LoopInv'
  BY <1>7
     DEF Unregister, SignalInv, LoopInv, TypeOK, Counted, Fresh, Ordinal, Attempting,
         RecordedPassed, AttemptsAreFresh, Runs, child, loops, history
<1>8. ASSUME NEW w \in Workers, NextCommand(w) PROVE LoopInv'
  BY <1>8
     DEF NextCommand, SignalInv, LoopInv, TypeOK, Counted, Fresh, Ordinal, Attempting,
         RecordedPassed, AttemptsAreFresh, Runs, signals, loops, history
<1>9. ASSUME NEW w \in Workers, AttemptOver(w) PROVE LoopInv'
  <2>1. \A v \in Workers : Counted(v)'
    BY <1>9
       DEF AttemptOver, CommandPassed, SignalInv, LoopInv, TypeOK, Counted, Attempting,
           Runs, child, loops
  <2>2. \A v \in Workers : Fresh(v)'
    BY <1>9
       DEF AttemptOver, CommandPassed, SignalInv, LoopInv, TypeOK, Fresh, Ordinal,
           Attempting, loops
  <2>3. RecordedPassed'
    BY <1>9
       DEF AttemptOver, CommandPassed, SignalInv, LoopInv, TypeOK, Counted, Attempting,
           RecordedPassed, Runs, signals, child
  <2>4. AttemptsAreFresh'
    BY <1>9
       DEF AttemptOver, CommandPassed, SignalInv, LoopInv, TypeOK, Fresh, Attempting,
           AttemptsAreFresh, loops
  <2> QED BY <2>1, <2>2, <2>3, <2>4 DEF LoopInv
<1>10. ASSUME NEW w \in Workers, Retry(w) PROVE LoopInv'
  <2>1. \A v \in Workers : Counted(v)'
    BY <1>10
       DEF Retry, StartAttempt, Decide, Swept, SignalInv, LoopInv, TypeOK, Counted,
           Attempting, Runs, history
  <2>2. \A v \in Workers : Fresh(v)'
    BY <1>10
       DEF Retry, StartAttempt, Decide, Swept, SignalInv, LoopInv, TypeOK, Fresh,
           Ordinal, Attempting
  <2>3. RecordedPassed'
    BY <1>10
       DEF Retry, StartAttempt, Decide, SignalInv, LoopInv, TypeOK, RecordedPassed,
           Runs, signals, history
  <2>4. AttemptsAreFresh'
    BY <1>10, NoneAssumption
       DEF Retry, StartAttempt, Decide, Swept, SignalInv, LoopInv, TypeOK,
           AttemptsAreFresh
  <2> QED BY <2>1, <2>2, <2>3, <2>4 DEF LoopInv
<1>11. ASSUME NEW w \in Workers, GiveUp(w) PROVE LoopInv'
  BY <1>11
     DEF GiveUp, Decide, SignalInv, LoopInv, TypeOK, Counted, Fresh, Ordinal,
         Attempting, RecordedPassed, AttemptsAreFresh, Runs, signals, child, loops,
         history
<1>12. ASSUME NEW w \in Workers, Repeat(w) PROVE LoopInv'
  <2>1. \A v \in Workers : Counted(v)'
    BY <1>12, RunsPositive
       DEF Repeat, MoreRuns, StartAttempt, Decide, Swept, SignalInv, LoopInv, TypeOK,
           Counted, Attempting, Runs, history
  <2>2. \A v \in Workers : Fresh(v)'
    BY <1>12
       DEF Repeat, MoreRuns, StartAttempt, Decide, Swept, SignalInv, LoopInv, TypeOK,
           Fresh, Ordinal, Attempting
  <2>3. RecordedPassed'
    BY <1>12
       DEF Repeat, MoreRuns, StartAttempt, Decide, Swept, SignalInv, LoopInv, TypeOK,
           Counted, Attempting, RecordedPassed, Runs, history
  <2>4. AttemptsAreFresh'
    BY <1>12, NoneAssumption
       DEF Repeat, MoreRuns, StartAttempt, Decide, Swept, SignalInv, LoopInv, TypeOK,
           Fresh, Attempting, AttemptsAreFresh
  <2> QED BY <2>1, <2>2, <2>3, <2>4 DEF LoopInv
<1>13. ASSUME NEW w \in Workers, Succeed(w) PROVE LoopInv'
  <2>1. \A v \in Workers : Counted(v)'
    BY <1>13
       DEF Succeed, MoreRuns, Flaky, Decide, SignalInv, LoopInv, TypeOK, Counted,
           Attempting, Runs, child, loops, history
  <2>2. \A v \in Workers : Fresh(v)'
    BY <1>13
       DEF Succeed, MoreRuns, Flaky, Decide, SignalInv, LoopInv, TypeOK, Fresh, Ordinal,
           Attempting, loops
  <2>3. RecordedPassed'
    <3>1. ASSUME verdict'[w] = "executed"
          PROVE  failures[w] = 0 /\ process[w] = "passed" /\ ~timedOut[w]
                 /\ (passes[w] = Runs(w) \/ cancelled)
      <4>1. ~Flaky(w) /\ ~MoreRuns(w) /\ pc[w] = "passed"
        BY <1>13, <3>1 DEF Succeed, Decide, SignalInv, TypeOK
      <4>2. attempts[w] \in Nat /\ completed[w] \in Nat /\ cancelled \in BOOLEAN
            /\ Runs(w) \in Nat
        BY RunsPositive DEF SignalInv, TypeOK
      <4>3. /\ failures[w] = attempts[w] - 1 /\ passes[w] = completed[w]
            /\ process[w] = "passed" /\ ~timedOut[w]
            /\ attempts[w] >= 1 /\ completed[w] \in 1 .. Runs(w)
        BY <4>1 DEF LoopInv, Counted
      <4>4. attempts[w] = 1
        BY <4>1, <4>2, <4>3 DEF Flaky
      <4>5. completed[w] = Runs(w) \/ cancelled
        BY <4>1, <4>2, <4>3 DEF MoreRuns
      <4> QED BY <4>3, <4>4, <4>5
    <3>2. \A v \in Workers \ {w} : verdict'[v] = verdict[v]
      BY <1>13 DEF Succeed, Decide, SignalInv, TypeOK
    <3>3. UNCHANGED <<runs_per_test, signals, child, loops, history>>
      BY <1>13 DEF Succeed
    <3> QED BY <3>1, <3>2, <3>3
            DEF LoopInv, RecordedPassed, Runs, signals, child, history
  <2>4. AttemptsAreFresh'
    BY <1>13
       DEF Succeed, MoreRuns, Flaky, Decide, SignalInv, LoopInv, TypeOK, Fresh, Ordinal,
           Attempting, AttemptsAreFresh, loops
  <2> QED BY <2>1, <2>2, <2>3, <2>4 DEF LoopInv
<1>14. ASSUME NEW c \in Cancellers, SetFlag(c) PROVE LoopInv'
  BY <1>14
     DEF SetFlag, SignalInv, LoopInv, TypeOK, Counted, Fresh, Ordinal, Attempting,
         RecordedPassed, AttemptsAreFresh, Runs, child, loops, history
<1>15. ASSUME NEW c \in Cancellers, TerminateAll(c) PROVE LoopInv'
  BY <1>15
     DEF TerminateAll, SignalInv, LoopInv, TypeOK, Counted, Fresh, Ordinal, Attempting,
         RecordedPassed, AttemptsAreFresh, Runs, loops, history
<1>16. ASSUME NEW w \in Workers, Exit(w) PROVE LoopInv'
  BY <1>16
     DEF Exit, SignalInv, LoopInv, TypeOK, Counted, Fresh, Ordinal, Attempting,
         RecordedPassed, AttemptsAreFresh, Runs, signals, loops, history
<1>17. ASSUME NEW w \in Workers, Dies(w) PROVE LoopInv'
  BY <1>17
     DEF Dies, SignalInv, LoopInv, TypeOK, Counted, Fresh, Ordinal, Attempting,
         RecordedPassed, AttemptsAreFresh, Runs, signals, loops, history
<1>18. CASE UNCHANGED vars
  BY <1>18
     DEF SignalInv, LoopInv, TypeOK, Counted, Fresh, Ordinal, Attempting,
         RecordedPassed, AttemptsAreFresh, Runs, signals, child, loops, history, vars
<1> QED BY <1>1, <1>2, <1>3, <1>4, <1>5, <1>6, <1>7, <1>8, <1>9, <1>10, <1>11, <1>12,
       <1>13, <1>14, <1>15, <1>16, <1>17, <1>18
   DEF Next, WorkerStep, Over

\* The counters of the loops of execute agree with what the attempts did.
THEOREM LoopInvariant == Spec => [](SignalInv /\ LoopInv)
  BY SignalInit, SignalStep, LoopInit, LoopStep, PTL DEF Spec

-----------------------------------------------------------------------------
(* The properties *)

\* Every variable keeps its type, and exactly the decided actions are done.
THEOREM TypeCorrect == Spec => []TypeOK
<1>1. SignalInv => TypeOK
  BY DEF SignalInv
<1> QED BY <1>1, SignalInvariant, PTL

\* Whatever spawn, registration, expiry and exit interleave with it, a call of
\* request_cancellation that has returned has signalled every process a worker
\* waits for, its own or through the check at registration.
THEOREM CancellationIsComplete == Spec => []CancellationReachesAll
<1>1. SignalInv => CancellationReachesAll
  BY DEF SignalInv, Reached
<1> QED BY <1>1, SignalInvariant, PTL

\* wait_for_child returns only when the process has exited: no action is retried,
\* repeated or decided while its command runs.
THEOREM NothingOutlivesItsAction == Spec => []NoOrphans
<1>1. SignalInv => NoOrphans
  BY DEF SignalInv, Reached
<1> QED BY <1>1, SignalInvariant, PTL

\* execute records a success only if no attempt failed and the runs asked for,
\* for any number of them, all passed within the limit or the build was cancelled.
THEOREM OnlyPassesAreRecorded == Spec => []RecordedPassed
<1>1. LoopInv => RecordedPassed
  BY DEF LoopInv
<1> QED BY <1>1, LoopInvariant, PTL

\* For any number of retries and runs, an attempt finds no output of an earlier
\* one, and a success leaves its own only.
THEOREM AttemptsStartFresh == Spec => []AttemptsAreFresh
<1>1. LoopInv => AttemptsAreFresh
  BY DEF LoopInv
<1> QED BY <1>1, LoopInvariant, PTL

\* For any number of workers and cancellers, no process escapes a cancellation or
\* its own action.
THEOREM NoProcessEscapes == Spec => []ProcessesAreHeld
<1>1. CancellationReachesAll /\ NoOrphans => ProcessesAreHeld
  BY DEF ProcessesAreHeld
<1> QED BY <1>1, CancellationIsComplete, NothingOutlivesItsAction, PTL

\* For any number of retries and runs, what is recorded is the result of fresh
\* attempts that passed.
THEOREM OnlyEarnedResults == Spec => []ResultsAreEarned
<1>1. RecordedPassed /\ AttemptsAreFresh => ResultsAreEarned
  BY DEF ResultsAreEarned
<1> QED BY <1>1, OnlyPassesAreRecorded, AttemptsStartFresh, PTL
=============================================================================

-------------------------- MODULE SchedulerProofs --------------------------
(* What holds of the worker pool for every graph, number of workers and budget. *)
EXTENDS Scheduler, FiniteSetTheorems, WellFoundedInduction, TLAPS

(***************************************************************************)
(* The inductive invariant: types, where a worker may hold an action, that  *)
(* an action is held at most once, and that waiting counts what it should.  *)
(***************************************************************************)
HoldersPlaced ==
  \A w \in Workers :
    /\ pc[w] \in {"claimed", "body", "publish", "notify_one"} => local[w] # None
    /\ pc[w] \in {"lock", "asleep", "returned"} => local[w] = None
    /\ pc[w] = "publish" => result[w] # None
    /\ pc[w] = "notify_one" => wakes[w] > 0

WaitingExact ==
  ~abort => \A a \in Undecided :
    waiting[a] = Cardinality({p \in Producers[a] \cap Scheduled : outcomes[p] = None})

AbortEmptiesQueue == abort => ready = {}

PrecachedDecided == \A a \in Precached : outcomes[a] # None

OrderInv ==
  /\ TypeOK
  /\ HoldersPlaced
  /\ ClaimedOnce
  /\ WaitingExact
  /\ AbortEmptiesQueue
  /\ PrecachedDecided
  /\ ProducersFirst

-----------------------------------------------------------------------------
(* Lemmas about the operators *)

\* The graph's sets of actions are finite.
LEMMA SubsetsFinite ==
  ASSUME NEW S, S \subseteq Actions
  PROVE  IsFiniteSet(S) /\ Cardinality(S) \in Nat
  BY GraphAssumption, FS_Subset, FS_CardinalityType

\* demand() lies between zero and the budget.
LEMMA ClampedRange ==
  ASSUME NEW a \in Actions, NEW p \in Pools
  PROVE  Clamped(a, p) \in Nat /\ Limit(p) \in Nat /\ Clamped(a, p) <= Limit(p)
  BY AdmissionAssumption DEF Clamped, Smaller, Limit, Pools

LEMMA AdmissionTypes ==
  ASSUME NEW a \in Actions, NEW r,
         r \in [used : [Pools -> Int], tests : Int, running : Int, exclusive : BOOLEAN]
  PROVE  /\ Reserve(r, a) \in [used : [Pools -> Int], tests : Int, running : Int, exclusive : BOOLEAN]
         /\ Release(r, a) \in [used : [Pools -> Int], tests : Int, running : Int, exclusive : BOOLEAN]
  BY ClampedRange DEF Reserve, Release, TestSlots

\* How many wakeups a completion owes is a natural number.
LEMMA WakesDueNat ==
  ASSUME NEW m \in Nat, NEW n \in Nat
  PROVE  WakesDue(m, n) \in Nat
  BY DEF WakesDue

\* Removing a decided producer from the undecided ones.
LEMMA LastProducer ==
  ASSUME NEW S, IsFiniteSet(S), NEW a \in S, Cardinality(S) = 1
  PROVE  S = {a}
  BY FS_Singleton

-----------------------------------------------------------------------------
(* The order invariant is inductive *)

LEMMA OrderInit == Init => OrderInv
<1> SUFFICES ASSUME Init PROVE OrderInv
  OBVIOUS
<1>0. \A a \in Actions : IsFiniteSet(Producers[a] \cap Scheduled)
                         /\ Cardinality(Producers[a] \cap Scheduled) \in Nat
  BY SubsetsFinite, GraphAssumption DEF Scheduled
<1>1. InitialWaiting \in [Actions -> Int]
  <2>1. \A a \in Actions :
          (IF a \in Scheduled THEN Cardinality(Producers[a] \cap Scheduled) ELSE 0) \in Int
    BY <1>0
  <2> QED BY <2>1, Zenon DEF InitialWaiting
<1>2. Cardinality(Scheduled) \in Nat
  BY SubsetsFinite DEF Scheduled
<1>3. InFlight = {} /\ Holders = {}
  BY DEF Init, InFlight, Holders
<1>4. Undecided = Scheduled
  BY DEF Init, Undecided, Scheduled
<1>5. \A a \in Scheduled : {p \in Producers[a] \cap Scheduled : outcomes[p] = None}
                             = Producers[a] \cap Scheduled
  BY GraphAssumption DEF Init, Scheduled
<1>6. TypeOK
  <2>1. used \in [Pools -> Int]
    BY DEF Init, Free
  <2>2. outcomes \in [Actions -> Outcomes \cup {None}]
    BY DEF Init, Outcomes
  <2>3. pc \in [Workers -> Places] /\ local \in [Workers -> Scheduled \cup {None}]
        /\ result \in [Workers -> Outcomes \cup {None}] /\ wakes \in [Workers -> Nat]
    BY DEF Init, Places
  <2>4. pending \in Int /\ waiting \in [Actions -> Int]
    BY <1>1, <1>2 DEF Init
  <2>5. ready \subseteq Scheduled
    BY Zenon DEF Init
  <2>6. abort \in BOOLEAN /\ exclusive \in BOOLEAN /\ resourceWaiting \in BOOLEAN
    BY Zenon DEF Init
  <2>7. tests \in Int /\ running \in Int
    BY DEF Init
  <2> QED BY <2>1, <2>2, <2>3, <2>4, <2>5, <2>6, <2>7 DEF TypeOK
<1>7. HoldersPlaced
  BY DEF Init, HoldersPlaced
<1>8. ClaimedOnce
  BY <1>3, <1>4 DEF Init, ClaimedOnce
<1>9. WaitingExact
  BY <1>4, <1>5 DEF Init, WaitingExact, InitialWaiting, Scheduled
<1>10. PrecachedDecided
  BY GraphAssumption, NoneAssumption DEF Init, PrecachedDecided, Outcomes
<1>11. ASSUME NEW a \in Scheduled, NEW p \in Producers[a], a \in ready
       PROVE  outcomes[p] # None
  <2>1. InitialWaiting[a] = 0 /\ InitialWaiting[a] = Cardinality(Producers[a] \cap Scheduled)
    BY <1>11 DEF Init, InitialWaiting, Scheduled
  <2>2. Producers[a] \cap Scheduled = {}
    BY <2>1, <1>0, FS_EmptySet DEF Scheduled
  <2>3. p \in Precached
    BY <2>2, GraphAssumption DEF Scheduled
  <2> QED BY <2>3, GraphAssumption, NoneAssumption DEF Init, Outcomes
<1>12. ProducersFirst
  BY <1>3, <1>11, GraphAssumption DEF Init, ProducersFirst, Scheduled
<1> QED BY <1>6, <1>7, <1>8, <1>9, <1>10, <1>12 DEF Init, OrderInv, AbortEmptiesQueue

\* A step that leaves the queue, the outcomes and every claim alone keeps the order.
LEMMA QuietStep ==
  ASSUME OrderInv, UNCHANGED <<ready, waiting, outcomes, abort, local>>, TypeOK', HoldersPlaced'
  PROVE  OrderInv'
<1>1. Holders' = Holders /\ InFlight' = InFlight /\ Undecided' = Undecided
  BY DEF Holders, InFlight, Undecided
<1>2. ClaimedOnce'
  BY <1>1 DEF OrderInv, ClaimedOnce
<1>3. WaitingExact'
  BY <1>1 DEF OrderInv, WaitingExact
<1>4. ProducersFirst'
  BY <1>1 DEF OrderInv, ProducersFirst
<1> QED BY <1>2, <1>3, <1>4 DEF OrderInv, AbortEmptiesQueue, PrecachedDecided

LEMMA ReturnAbortedStep ==
  ASSUME OrderInv, NEW w \in Workers, ReturnAborted(w)
  PROVE  OrderInv'
<1>1. TypeOK'
  BY DEF OrderInv, TypeOK, ReturnAborted, shared, admission, Places
<1>2. HoldersPlaced'
  BY DEF OrderInv, TypeOK, HoldersPlaced, ReturnAborted
<1> QED BY <1>1, <1>2, QuietStep DEF ReturnAborted, shared

LEMMA CheckUpstreamStep ==
  ASSUME OrderInv, NEW w \in Workers, CheckUpstream(w)
  PROVE  OrderInv'
<1>1. TypeOK'
  BY DEF OrderInv, TypeOK, CheckUpstream, shared, admission, Places, Outcomes, Bad, Dirty
<1>2. HoldersPlaced'
  BY NoneAssumption DEF OrderInv, TypeOK, HoldersPlaced, CheckUpstream, Outcomes, Bad, Dirty
<1> QED BY <1>1, <1>2, QuietStep DEF CheckUpstream, shared

LEMMA BodyStep ==
  ASSUME OrderInv, NEW w \in Workers, Body(w)
  PROVE  OrderInv'
<1>1. BodyResults \subseteq Outcomes
  BY DEF BodyResults, Outcomes, Bad, Dirty
<1>2. TypeOK'
  BY <1>1 DEF OrderInv, TypeOK, Body, shared, admission, Places
<1>3. HoldersPlaced'
  BY <1>1, NoneAssumption DEF OrderInv, TypeOK, HoldersPlaced, Body
<1> QED BY <1>2, <1>3, QuietStep DEF Body, shared

LEMMA NotifyAllStep ==
  ASSUME OrderInv, NEW w \in Workers, NotifyAll(w)
  PROVE  OrderInv'
<1>1. TypeOK'
  BY DEF OrderInv, TypeOK, NotifyAll, Resume, shared, admission, Places
<1>2. HoldersPlaced'
  BY DEF OrderInv, TypeOK, HoldersPlaced, NotifyAll, Resume
<1> QED BY <1>1, <1>2, QuietStep DEF NotifyAll, shared

LEMMA NotifyOneStep ==
  ASSUME OrderInv, NEW w \in Workers, NotifyOne(w)
  PROVE  OrderInv'
<1>1. wakes[w] > 0 /\ local[w] # None
  BY DEF OrderInv, HoldersPlaced, NotifyOne
<1>2. TypeOK'
  BY <1>1 DEF OrderInv, TypeOK, NotifyOne, Resume, shared, admission, Places
<1>3. HoldersPlaced'
  BY <1>1 DEF OrderInv, TypeOK, HoldersPlaced, NotifyOne, Resume
<1> QED BY <1>2, <1>3, QuietStep DEF NotifyOne, shared

LEMMA SpuriousWakeupStep ==
  ASSUME OrderInv, NEW w \in Workers, SpuriousWakeup(w)
  PROVE  OrderInv'
<1>1. TypeOK'
  BY DEF OrderInv, TypeOK, SpuriousWakeup, shared, admission, Places
<1>2. HoldersPlaced'
  BY DEF OrderInv, TypeOK, HoldersPlaced, SpuriousWakeup
<1> QED BY <1>1, <1>2, QuietStep DEF SpuriousWakeup, shared

LEMMA ReturnOrWaitStep ==
  ASSUME OrderInv, NEW w \in Workers, ReturnOrWait(w)
  PROVE  OrderInv'
<1>1. resourceWaiting' \in BOOLEAN
  BY Zenon DEF ReturnOrWait
<1>2. TypeOK'
  BY <1>1 DEF OrderInv, TypeOK, ReturnOrWait, admission, Places
<1>3. HoldersPlaced'
  BY DEF OrderInv, TypeOK, HoldersPlaced, ReturnOrWait
<1> QED BY <1>2, <1>3, QuietStep DEF ReturnOrWait

LEMMA AdmissionRecord ==
  ASSUME TypeOK
  PROVE  Admission \in [used : [Pools -> Int], tests : Int, running : Int, exclusive : BOOLEAN]
  BY DEF TypeOK, Admission

LEMMA ClaimNextStep ==
  ASSUME OrderInv, NEW w \in Workers, ClaimNext(w)
  PROVE  OrderInv'
<1>1. PICK a \in First(Claimable(ready, Admission)) :
        /\ ready' = ready \ {a}
        /\ SetAdmission(Reserve(Admission, a))
        /\ local' = [local EXCEPT ![w] = a]
  BY DEF ClaimNext
<1>2. a \in ready /\ a \in Undecided /\ a \in Scheduled /\ a \in Actions /\ a # None
  BY NoneAssumption DEF First, Claimable, OrderInv, TypeOK, ClaimedOnce, Undecided, Scheduled
<1>3. local[w] = None
  BY DEF ClaimNext, OrderInv, HoldersPlaced
<1>4. TypeOK'
  <2>1. Reserve(Admission, a) \in
          [used : [Pools -> Int], tests : Int, running : Int, exclusive : BOOLEAN]
    BY <1>2, AdmissionTypes, AdmissionRecord DEF OrderInv
  <2>2. used' \in [Pools -> Int] /\ tests' \in Int /\ running' \in Int /\ exclusive' \in BOOLEAN
    BY <1>1, <2>1 DEF SetAdmission
  <2>3. local' \in [Workers -> Scheduled \cup {None}] /\ ready' \subseteq Scheduled
    BY <1>1, <1>2 DEF OrderInv, TypeOK
  <2>4. pc' \in [Workers -> Places]
    BY DEF ClaimNext, OrderInv, TypeOK, Places
  <2> QED BY <2>2, <2>3, <2>4 DEF ClaimNext, OrderInv, TypeOK
<1>5. HoldersPlaced'
  BY <1>1, <1>2 DEF ClaimNext, OrderInv, TypeOK, HoldersPlaced
<1>6. /\ \A v \in Workers : local'[v] = IF v = w THEN a ELSE local[v]
      /\ Holders' = Holders \cup {w}
      /\ InFlight' = InFlight \cup {a}
  <2>1. \A v \in Workers : local'[v] = IF v = w THEN a ELSE local[v]
    BY <1>1 DEF OrderInv, TypeOK
  <2>2. Holders' = Holders \cup {w}
    BY <2>1, <1>2 DEF Holders
  <2>3. InFlight' = InFlight \cup {a}
    BY <2>1, <2>2, <1>3 DEF InFlight, Holders
  <2> QED BY <2>1, <2>2, <2>3
<1>7. Undecided' = Undecided
  BY DEF ClaimNext, Undecided
<1>8. ClaimedOnce'
  <2>1. ASSUME NEW v \in Holders', NEW u \in Holders', local'[v] = local'[u]
        PROVE  v = u
    BY <1>2, <1>6, <2>1 DEF OrderInv, ClaimedOnce, InFlight, Holders
  <2>2. InFlight' \cap ready' = {} /\ InFlight' \cup ready' \subseteq Undecided'
    BY <1>1, <1>2, <1>6, <1>7 DEF OrderInv, ClaimedOnce
  <2> QED BY <2>1, <2>2 DEF ClaimedOnce
<1>9. WaitingExact'
  BY <1>7 DEF ClaimNext, OrderInv, WaitingExact
<1>10. ProducersFirst'
  BY <1>1, <1>2, <1>6 DEF ClaimNext, OrderInv, ProducersFirst
<1> QED BY <1>1, <1>4, <1>5, <1>8, <1>9, <1>10
        DEF ClaimNext, OrderInv, AbortEmptiesQueue, PrecachedDecided

\* The facts of one completion that the proofs below use: a is the finished
\* action, U the dependents it unlocks, n the continuation.
LEMMA PublishFacts ==
  ASSUME OrderInv, NEW w \in Workers, Publish(w)
  PROVE  \E U, n :
    LET a == local[w]
        stop == abort \/ (result[w] = "failed" /\ ~KeepGoing)
    IN /\ U = Unlocked(a, stop)
       /\ n \in U \cup ready \cup {None}
       /\ stop => n = None
       /\ n # None => Fits(Release(Admission, a), n)
       /\ outcomes' = [outcomes EXCEPT ![a] = result[w]]
       /\ abort' = stop
       /\ waiting' = IF stop THEN waiting
                     ELSE [d \in Actions |->
                            IF d \in Dependents(a) THEN waiting[d] - 1 ELSE waiting[d]]
       /\ ready' = ((IF stop THEN {} ELSE ready) \cup U) \ {n}
       /\ SetAdmission(IF n = None THEN Release(Admission, a)
                       ELSE Reserve(Release(Admission, a), n))
       /\ local' = [local EXCEPT ![w] = n]
       /\ result' = [result EXCEPT ![w] = None]
       /\ \/ pc' = [pc EXCEPT ![w] = "notify_all"] /\ UNCHANGED wakes
          \/ \E due \in Nat :
               /\ pc' = [pc EXCEPT ![w] = IF due = 0 THEN Resume(n) ELSE "notify_one"]
               /\ wakes' = [wakes EXCEPT ![w] = due]
               /\ due > 0 => n # None
<1> DEFINE a        == local[w]
           freed    == Release(Admission, a)
           aborts   == result[w] = "failed" /\ ~KeepGoing
           stop     == abort \/ aborts
           unlocked == Unlocked(a, stop)
           queue    == QueueAfter(aborts, unlocked)
           finished == pending = 1 \/ stop
           fitting  == IF finished THEN {} ELSE Claimable(queue, freed)
           blocked  == ~finished /\ fitting = {} /\ queue # {}
           due      == WakesDue(Cardinality(unlocked), IF fitting = {} THEN 0 ELSE 1)
<1>1. PICK next \in IF fitting = {} THEN {None} ELSE First(fitting) :
        /\ outcomes' = [outcomes EXCEPT ![a] = result[w]]
        /\ abort' = stop
        /\ waiting' = IF stop THEN waiting
                      ELSE [d \in Actions |->
                             IF d \in Dependents(a) THEN waiting[d] - 1 ELSE waiting[d]]
        /\ ready' = queue \ {next}
        /\ SetAdmission(IF next = None THEN freed ELSE Reserve(freed, next))
        /\ local' = [local EXCEPT ![w] = next]
        /\ IF WakesEverybody(finished, blocked)
           THEN /\ pc' = [pc EXCEPT ![w] = "notify_all"]
                /\ UNCHANGED wakes
           ELSE /\ pc' = [pc EXCEPT ![w] = IF due = 0 THEN Resume(next) ELSE "notify_one"]
                /\ wakes' = [wakes EXCEPT ![w] = due]
  BY Zenon DEF Publish
<1>2. result' = [result EXCEPT ![w] = None]
  BY DEF Publish
<1>3. queue = (IF stop THEN {} ELSE ready) \cup unlocked
  BY DEF QueueAfter, OrderInv, AbortEmptiesQueue
<1>4. next \in unlocked \cup ready \cup {None} /\ (stop => next = None)
  BY <1>1, <1>3 DEF First, Claimable
<1>11. next # None => Fits(freed, next)
  BY <1>1 DEF First, Claimable
<1>5. unlocked \subseteq Actions
  BY DEF Unlocked, Dependents, Scheduled
<1>6. Cardinality(unlocked) \in Nat
  BY <1>5, SubsetsFinite
<1>7. due \in Nat
  BY <1>6, WakesDueNat
<1>8. ASSUME ~WakesEverybody(finished, blocked), due > 0
      PROVE  next # None
  <2>1. unlocked # {}
    <3>1. SUFFICES ASSUME unlocked = {} PROVE FALSE
      OBVIOUS
    <3>2. Cardinality(unlocked) = 0
      BY <3>1, FS_EmptySet
    <3> QED BY <3>2, <1>8 DEF WakesDue
  <2>2. ~finished /\ ~blocked
    BY <1>8 DEF WakesEverybody
  <2>3. fitting # {}
    BY <2>1, <2>2, <1>3
  <2>4. next \in unlocked \cup ready
    BY <1>1, <2>3, <1>3 DEF First, Claimable
  <2> QED BY <2>4, <1>5, NoneAssumption DEF OrderInv, TypeOK, Scheduled
<1>9. ready' = ((IF stop THEN {} ELSE ready) \cup unlocked) \ {next}
  BY <1>1, <1>3
<1>10. \/ pc' = [pc EXCEPT ![w] = "notify_all"] /\ UNCHANGED wakes
       \/ \E m \in Nat :
            /\ pc' = [pc EXCEPT ![w] = IF m = 0 THEN Resume(next) ELSE "notify_one"]
            /\ wakes' = [wakes EXCEPT ![w] = m]
            /\ m > 0 => next # None
  <2> HIDE DEF due, finished, blocked
  <2> QED BY <1>1, <1>7, <1>8
<1> HIDE DEF freed, queue, finished, fitting, blocked, due
<1> WITNESS unlocked, next
<1> QED BY <1>1, <1>2, <1>4, <1>9, <1>10, <1>11 DEF freed

LEMMA PublishStep ==
  ASSUME OrderInv, NEW w \in Workers, Publish(w)
  PROVE  OrderInv'
<1> DEFINE a    == local[w]
           stop == abort \/ (result[w] = "failed" /\ ~KeepGoing)
           Left(d) == {p \in Producers[d] \cap Scheduled : outcomes[p] = None}
<1>1. PICK U, n :
       /\ U = Unlocked(a, stop)
       /\ n \in U \cup ready \cup {None}
       /\ stop => n = None
       /\ n # None => Fits(Release(Admission, a), n)
       /\ outcomes' = [outcomes EXCEPT ![a] = result[w]]
       /\ abort' = stop
       /\ waiting' = IF stop THEN waiting
                     ELSE [d \in Actions |->
                            IF d \in Dependents(a) THEN waiting[d] - 1 ELSE waiting[d]]
       /\ ready' = ((IF stop THEN {} ELSE ready) \cup U) \ {n}
       /\ SetAdmission(IF n = None THEN Release(Admission, a)
                       ELSE Reserve(Release(Admission, a), n))
       /\ local' = [local EXCEPT ![w] = n]
       /\ result' = [result EXCEPT ![w] = None]
       /\ \/ pc' = [pc EXCEPT ![w] = "notify_all"] /\ UNCHANGED wakes
          \/ \E due \in Nat :
               /\ pc' = [pc EXCEPT ![w] = IF due = 0 THEN Resume(n) ELSE "notify_one"]
               /\ wakes' = [wakes EXCEPT ![w] = due]
               /\ due > 0 => n # None
  BY PublishFacts, Zenon
<1>2. /\ a # None /\ result[w] # None /\ result[w] \in Outcomes
      /\ a \in InFlight /\ a \in Undecided /\ a \in Scheduled /\ a \in Actions
      /\ outcomes[a] = None /\ a \notin ready /\ w \in Holders
  BY DEF Publish, OrderInv, HoldersPlaced, TypeOK, ClaimedOnce, InFlight, Holders,
         Undecided, Scheduled
<1>3. ASSUME NEW d \in U
      PROVE  /\ d \in Scheduled /\ d \in Actions /\ d # a /\ d # None
             /\ a \in Producers[d] /\ waiting[d] = 1 /\ ~stop
             /\ outcomes[d] = None /\ d \notin InFlight /\ d \notin ready
  <2>1. d \in Scheduled /\ d \in Actions /\ a \in Producers[d] /\ waiting[d] = 1 /\ ~stop
    BY <1>1 DEF Unlocked, Dependents, Scheduled
  <2>2. d # a
    BY <2>1, OrderAssumption
  <2>3. outcomes[d] = None /\ d \notin InFlight /\ d \notin ready
    BY <2>1, <1>2 DEF OrderInv, ProducersFirst
  <2> QED BY <2>1, <2>2, <2>3, NoneAssumption
<1>4. n \in Scheduled \cup {None}
  BY <1>1, <1>3 DEF OrderInv, TypeOK
<1>5. /\ \A b \in Actions : outcomes'[b] = IF b = a THEN result[w] ELSE outcomes[b]
      /\ Undecided' = Undecided \ {a}
  BY <1>1, <1>2 DEF OrderInv, TypeOK, Undecided, Scheduled
<1>6. /\ \A v \in Workers : local'[v] = IF v = w THEN n ELSE local[v]
      /\ InFlight' \subseteq (InFlight \ {a}) \cup ({n} \ {None})
  <2>1. \A v \in Workers : local'[v] = IF v = w THEN n ELSE local[v]
    BY <1>1 DEF OrderInv, TypeOK
  <2>2. ASSUME NEW v \in Workers, v # w, local[v] # None
        PROVE  local[v] \in InFlight /\ local[v] # a
    BY <2>2, <1>2 DEF OrderInv, ClaimedOnce, InFlight, Holders
  <2>3. ASSUME NEW b \in InFlight' PROVE b \in (InFlight \ {a}) \cup ({n} \ {None})
    <3>1. PICK v \in Workers : local'[v] # None /\ b = local'[v]
      BY <2>3 DEF InFlight, Holders
    <3> QED BY <3>1, <2>1, <2>2
  <2> QED BY <2>1, <2>3
<1>7. TypeOK'
  <2>1. Release(Admission, a) \in
          [used : [Pools -> Int], tests : Int, running : Int, exclusive : BOOLEAN]
    BY <1>2, AdmissionTypes, AdmissionRecord DEF OrderInv
  <2>2. n # None => Reserve(Release(Admission, a), n) \in
          [used : [Pools -> Int], tests : Int, running : Int, exclusive : BOOLEAN]
    BY <2>1, <1>4, AdmissionTypes DEF Scheduled
  <2>3. used' \in [Pools -> Int] /\ tests' \in Int /\ running' \in Int /\ exclusive' \in BOOLEAN
    BY <1>1, <2>1, <2>2 DEF SetAdmission
  <2>4. local' \in [Workers -> Scheduled \cup {None}]
        /\ result' \in [Workers -> Outcomes \cup {None}]
        /\ outcomes' \in [Actions -> Outcomes \cup {None}]
    BY <1>1, <1>2, <1>4 DEF OrderInv, TypeOK
  <2>5. ready' \subseteq Scheduled
    BY <1>1, <1>3 DEF OrderInv, TypeOK
  <2>6. waiting' \in [Actions -> Int]
    BY <1>1 DEF OrderInv, TypeOK
  <2>7. pc' \in [Workers -> Places] /\ wakes' \in [Workers -> Nat]
    BY <1>1 DEF OrderInv, TypeOK, Places, Resume
  <2>8. pending' \in Int
    BY DEF Publish, OrderInv, TypeOK
  <2>9. abort' \in BOOLEAN
    BY <1>1, Zenon DEF OrderInv, TypeOK
  <2>10. resourceWaiting' \in BOOLEAN
    BY Zenon DEF Publish
  <2> QED BY <2>3, <2>4, <2>5, <2>6, <2>7, <2>8, <2>9, <2>10 DEF TypeOK
<1>8. HoldersPlaced'
  BY <1>1 DEF Publish, OrderInv, TypeOK, HoldersPlaced, Resume
<1>9. ClaimedOnce'
  <2>1. ASSUME NEW b \in (InFlight \ {a}) \cup ({n} \ {None})
        PROVE  b \in Undecided' /\ b \notin ready'
    <3>1. CASE b = n
      BY <3>1, <2>1, <1>1, <1>2, <1>3, <1>5 DEF OrderInv, ClaimedOnce, TypeOK, Undecided
    <3>2. CASE b \in InFlight \ {a}
      BY <3>2, <1>1, <1>3, <1>5 DEF OrderInv, ClaimedOnce
    <3> QED BY <3>1, <3>2, <2>1
  <2>2. ready' \subseteq Undecided'
    BY <1>1, <1>2, <1>3, <1>5 DEF OrderInv, ClaimedOnce, Undecided
  <2>3. ASSUME NEW v \in Holders', NEW u \in Holders', local'[v] = local'[u]
        PROVE  v = u
    <3>1. ASSUME NEW x \in Workers, x # w, local[x] # None
          PROVE  local[x] # n /\ x \in Holders
      BY <3>1, <1>1, <1>3 DEF OrderInv, ClaimedOnce, InFlight, Holders
    <3> QED BY <2>3, <3>1, <1>6 DEF OrderInv, ClaimedOnce, Holders
  <2> QED BY <2>1, <2>2, <2>3, <1>6 DEF ClaimedOnce
<1>10. WaitingExact'
  <2>1. SUFFICES ASSUME ~stop, NEW d \in Undecided'
                 PROVE  waiting'[d] =
                   Cardinality({p \in Producers[d] \cap Scheduled : outcomes'[p] = None})
    BY <1>1 DEF WaitingExact
  <2>2. d \in Undecided /\ d \in Scheduled /\ d \in Actions /\ Producers[d] \subseteq Actions
    BY <2>1, <1>5, GraphAssumption DEF Undecided, Scheduled
  <2>3. waiting[d] = Cardinality(Left(d))
    BY <2>1, <2>2 DEF OrderInv, WaitingExact
  <2>4. IsFiniteSet(Left(d)) /\ Cardinality(Left(d)) \in Nat
    BY <2>2, SubsetsFinite
  <2>5. {p \in Producers[d] \cap Scheduled : outcomes'[p] = None} = Left(d) \ {a}
    BY <2>2, <1>2, <1>5
  <2>6. d \in Dependents(a) <=> a \in Left(d)
    BY <2>2, <1>2 DEF Dependents
  <2>7. Cardinality(Left(d) \ {a}) =
          IF a \in Left(d) THEN Cardinality(Left(d)) - 1 ELSE Cardinality(Left(d))
    BY <2>4, FS_RemoveElement
  <2>8. waiting'[d] = IF d \in Dependents(a) THEN waiting[d] - 1 ELSE waiting[d]
    BY <2>1, <2>2, <1>1
  <2> HIDE DEF Left
  <2> QED BY <2>3, <2>5, <2>6, <2>7, <2>8
<1>11. AbortEmptiesQueue'
  BY <1>1, <1>3 DEF AbortEmptiesQueue
<1>12. PrecachedDecided'
  BY <1>2, <1>5, GraphAssumption DEF OrderInv, PrecachedDecided
<1>13. ProducersFirst'
  <2>1. SUFFICES ASSUME NEW b \in Scheduled, b \in InFlight' \cup ready' \/ outcomes'[b] # None,
                        NEW p \in Producers[b]
                 PROVE  outcomes'[p] # None
    BY DEF ProducersFirst
  <2>2. b \in Actions /\ p \in Actions
    BY GraphAssumption DEF Scheduled
  <2>3. CASE b \in InFlight \cup ready \/ outcomes[b] # None
    BY <2>3, <2>2, <1>2, <1>5 DEF OrderInv, ProducersFirst
  <2>4. CASE b \in U
    <3>1. Cardinality(Left(b)) = 1 /\ a \in Left(b)
      BY <2>4, <1>2, <1>3 DEF OrderInv, WaitingExact, Undecided
    <3>2. IsFiniteSet(Left(b))
      BY <2>2, SubsetsFinite, GraphAssumption
    <3>3. Left(b) = {a}
      BY <3>1, <3>2, LastProducer
    <3>4. CASE p = a
      BY <3>4, <2>2, <1>2, <1>5
    <3>5. CASE p # a
      BY <3>5, <3>3, <2>2, <1>5 DEF OrderInv, PrecachedDecided, Scheduled
    <3> QED BY <3>4, <3>5
  <2>5. b \in InFlight \cup ready \cup U \/ outcomes[b] # None
    BY <2>1, <2>2, <1>1, <1>2, <1>5, <1>6
  <2> QED BY <2>3, <2>4, <2>5
<1> QED BY <1>7, <1>8, <1>9, <1>10, <1>11, <1>12, <1>13 DEF OrderInv

LEMMA OrderStep == OrderInv /\ [Next]_vars => OrderInv'
<1> SUFFICES ASSUME OrderInv, [Next]_vars PROVE OrderInv'
  OBVIOUS
<1>1. CASE UNCHANGED vars
  <2>1. TypeOK' /\ HoldersPlaced'
    BY <1>1 DEF OrderInv, TypeOK, HoldersPlaced, vars, shared, admission
  <2> QED BY <1>1, <2>1, QuietStep DEF vars, shared
<1>2. ASSUME NEW w \in Workers, WorkerStep(w) PROVE OrderInv'
  BY <1>2, ReturnAbortedStep, ClaimNextStep, ReturnOrWaitStep, CheckUpstreamStep,
     BodyStep, PublishStep, NotifyAllStep, NotifyOneStep DEF WorkerStep
<1>3. ASSUME NEW w \in Workers, SpuriousWakeup(w) PROVE OrderInv'
  BY <1>3, SpuriousWakeupStep
<1>4. CASE Joined
  BY <1>1, <1>4 DEF Joined
<1> QED BY <1>1, <1>2, <1>3, <1>4 DEF Next

\* The order invariant holds in every reachable state.
THEOREM OrderInvariant == Spec => []OrderInv
  BY OrderInit, OrderStep, PTL DEF Spec

\* Every variable keeps its type, for every graph and every number of workers.
THEOREM TypeCorrect == Spec => []TypeOK
<1>1. OrderInv => TypeOK
  BY DEF OrderInv
<1> QED BY <1>1, OrderInvariant, PTL

\* No action is held by two workers, queued twice or run again once decided.
THEOREM RunsAtMostOnce == Spec => []ClaimedOnce
<1>1. OrderInv => ClaimedOnce
  BY DEF OrderInv
<1> QED BY <1>1, OrderInvariant, PTL

\* Nothing starts before every producer of its inputs is decided.
THEOREM ProducersDecidedFirst == Spec => []ProducersFirst
<1>1. OrderInv => ProducersFirst
  BY DEF OrderInv
<1> QED BY <1>1, OrderInvariant, PTL

\* Only Publish writes an outcome, and only where there was none.
LEMMA OutcomeStep ==
  ASSUME OrderInv, [Next]_vars, NEW a \in Actions, outcomes[a] # None
  PROVE  outcomes'[a] = outcomes[a]
<1>1. ASSUME NEW w \in Workers, Publish(w) PROVE outcomes'[a] = outcomes[a]
  <2>1. outcomes' = [outcomes EXCEPT ![local[w]] = result[w]]
    BY <1>1, Zenon DEF Publish
  <2>2. outcomes[local[w]] = None
    BY <1>1 DEF Publish, OrderInv, HoldersPlaced, ClaimedOnce, InFlight, Holders, Undecided
  <2> QED BY <2>1, <2>2 DEF OrderInv, TypeOK
<1>2. ASSUME NEW w \in Workers, WorkerStep(w) \/ SpuriousWakeup(w), ~Publish(w)
      PROVE  outcomes' = outcomes
  BY <1>2 DEF WorkerStep, ReturnAborted, ClaimNext, ReturnOrWait, CheckUpstream, Body,
              NotifyAll, NotifyOne, SpuriousWakeup, shared
<1> QED BY <1>1, <1>2 DEF Next, Joined, WorkerStep, vars, shared

\* A published outcome is never replaced.
THEOREM OutcomesNeverChange == Spec => OutcomesFinal
<1>1. OrderInv /\ [Next]_vars =>
        [\A a \in Actions : outcomes[a] # None => outcomes'[a] = outcomes[a]]_vars
  BY OutcomeStep
<1> QED BY <1>1, OrderInvariant, PTL DEF Spec, OutcomesFinal

\* After an abort workers only let go of what they hold.
THEOREM NothingStartsAfterAbort == Spec => AbortStopsClaims
<1> DEFINE Stopped == abort => \A w \in Workers : local'[w] \in {local[w], None}
<1>1. OrderInv /\ [Next]_vars => [Stopped]_vars
  <2> SUFFICES ASSUME OrderInv, Next, abort, NEW v \in Workers
               PROVE  local'[v] \in {local[v], None}
    BY DEF Next
  <2>1. ASSUME NEW w \in Workers, Publish(w) PROVE local'[v] \in {local[v], None}
    <3>1. PICK n : (abort => n = None) /\ local' = [local EXCEPT ![w] = n]
      BY <2>1, PublishFacts
    <3> QED BY <3>1 DEF OrderInv, TypeOK
  <2>2. ASSUME NEW w \in Workers PROVE ~ClaimNext(w)
    BY DEF ClaimNext, OrderInv, AbortEmptiesQueue
  <2>3. ASSUME NEW w \in Workers, WorkerStep(w) \/ SpuriousWakeup(w), ~Publish(w)
        PROVE  local' = local
    BY <2>2, <2>3 DEF WorkerStep, ReturnAborted, ReturnOrWait, CheckUpstream, Body,
                      NotifyAll, NotifyOne, SpuriousWakeup
  <2> QED BY <2>1, <2>3 DEF Next, Joined, WorkerStep, vars
<1> QED BY <1>1, OrderInvariant, PTL DEF Spec, AbortStopsClaims

\* What a claim and a completion do to the set of actions in flight.
LEMMA ClaimEffect ==
  ASSUME OrderInv, NEW w \in Workers, ClaimNext(w)
  PROVE  \E a \in Scheduled :
           /\ a \notin InFlight
           /\ Fits(Admission, a)
           /\ InFlight' = InFlight \cup {a}
           /\ Admission' = Reserve(Admission, a)
<1>1. PICK a \in First(Claimable(ready, Admission)) :
        /\ ready' = ready \ {a}
        /\ SetAdmission(Reserve(Admission, a))
        /\ local' = [local EXCEPT ![w] = a]
  BY DEF ClaimNext
<1>2. a \in ready /\ a \in Scheduled /\ a # None /\ a \notin InFlight /\ Fits(Admission, a)
  BY <1>1, NoneAssumption
     DEF First, Claimable, OrderInv, TypeOK, ClaimedOnce, Undecided, Scheduled
<1>3. local[w] = None
  BY DEF ClaimNext, OrderInv, HoldersPlaced
<1>4. InFlight' = InFlight \cup {a}
  <2>1. \A v \in Workers : local'[v] = IF v = w THEN a ELSE local[v]
    BY <1>1 DEF OrderInv, TypeOK
  <2>2. Holders' = Holders \cup {w}
    BY <2>1, <1>2 DEF Holders
  <2> QED BY <2>1, <2>2, <1>3 DEF InFlight, Holders
<1>5. Admission' = Reserve(Admission, a)
  BY <1>1 DEF SetAdmission, Reserve, Admission
<1> QED BY <1>2, <1>4, <1>5

LEMMA PublishEffect ==
  ASSUME OrderInv, NEW w \in Workers, Publish(w)
  PROVE  \E n \in Scheduled \cup {None} :
           /\ local[w] \in InFlight /\ local[w] \in Undecided /\ n \notin InFlight
           /\ outcomes' = [outcomes EXCEPT ![local[w]] = result[w]]
           /\ Undecided' = Undecided \ {local[w]}
           /\ n # None => Fits(Release(Admission, local[w]), n)
           /\ InFlight' = (InFlight \ {local[w]}) \cup ({n} \ {None})
           /\ Admission' = IF n = None THEN Release(Admission, local[w])
                           ELSE Reserve(Release(Admission, local[w]), n)
           /\ ~abort' => /\ ~abort
                         /\ ready \cup Unlocked(local[w], FALSE) \subseteq ready' \cup {n}
<1>1. PICK U, n :
       /\ U = Unlocked(local[w], abort \/ (result[w] = "failed" /\ ~KeepGoing))
       /\ n \in U \cup ready \cup {None}
       /\ n # None => Fits(Release(Admission, local[w]), n)
       /\ outcomes' = [outcomes EXCEPT ![local[w]] = result[w]]
       /\ abort' = (abort \/ (result[w] = "failed" /\ ~KeepGoing))
       /\ ready' = ((IF abort \/ (result[w] = "failed" /\ ~KeepGoing) THEN {} ELSE ready)
                     \cup U) \ {n}
       /\ SetAdmission(IF n = None THEN Release(Admission, local[w])
                       ELSE Reserve(Release(Admission, local[w]), n))
       /\ local' = [local EXCEPT ![w] = n]
  BY PublishFacts
<1>2. /\ local[w] # None /\ result[w] # None /\ local[w] \in InFlight
      /\ local[w] \in Undecided /\ local[w] \in Actions /\ w \in Holders
  BY DEF Publish, OrderInv, HoldersPlaced, ClaimedOnce, InFlight, Holders, Undecided, Scheduled
<1>3. ASSUME NEW d \in U
      PROVE  d \in Scheduled /\ d \notin InFlight
  <2>1. d \in Scheduled /\ local[w] \in Producers[d]
    BY <1>1 DEF Unlocked, Dependents
  <2> QED BY <2>1, <1>2 DEF OrderInv, ProducersFirst, Undecided
<1>4. n \in Scheduled \cup {None} /\ n \notin InFlight
  BY <1>1, <1>3 DEF OrderInv, TypeOK, ClaimedOnce, InFlight, Holders
<1>5. Undecided' = Undecided \ {local[w]}
  BY <1>1, <1>2 DEF OrderInv, TypeOK, Undecided, Scheduled
<1>6. InFlight' = (InFlight \ {local[w]}) \cup ({n} \ {None})
  <2>1. \A v \in Workers : local'[v] = IF v = w THEN n ELSE local[v]
    BY <1>1 DEF OrderInv, TypeOK
  <2>2. ASSUME NEW v \in Workers, v # w, local[v] # None
        PROVE  local[v] \in InFlight /\ local[v] # local[w]
    BY <2>2, <1>2 DEF OrderInv, ClaimedOnce, InFlight, Holders
  <2>3. ASSUME NEW b \in InFlight' PROVE b \in (InFlight \ {local[w]}) \cup ({n} \ {None})
    <3>1. PICK v \in Workers : local'[v] # None /\ b = local'[v]
      BY <2>3 DEF InFlight, Holders
    <3> QED BY <3>1, <2>1, <2>2
  <2>4. ASSUME NEW b \in (InFlight \ {local[w]}) \cup ({n} \ {None}) PROVE b \in InFlight'
    <3>1. CASE b \in InFlight \ {local[w]}
      <4>1. PICK v \in Workers : local[v] # None /\ b = local[v] /\ v # w
        BY <3>1 DEF InFlight, Holders
      <4> QED BY <4>1, <2>1 DEF InFlight, Holders
    <3>2. CASE b = n /\ n # None
      BY <3>2, <2>1 DEF InFlight, Holders
    <3> QED BY <3>1, <3>2, <2>4
  <2> QED BY <2>3, <2>4
<1>7. Admission' = IF n = None THEN Release(Admission, local[w])
                   ELSE Reserve(Release(Admission, local[w]), n)
  BY <1>1 DEF SetAdmission, Reserve, Release, Admission
<1>8. ~abort' => /\ ~abort
                 /\ ready \cup Unlocked(local[w], FALSE) \subseteq ready' \cup {n}
  BY <1>1 DEF Unlocked
<1> QED BY <1>1, <1>2, <1>4, <1>5, <1>6, <1>7, <1>8

-----------------------------------------------------------------------------
(* Failures propagate: what a worker found upstream still holds when it publishes. *)

\* Outcome o is one the upstream check allows for action a.
Allowed(a, o) ==
  \A p \in Producers[a] :
    /\ outcomes[p] \in Bad => o = "skipped"
    /\ outcomes[p] \in Dirty => o \in {"skipped", "may_run"}

FailureInv ==
  /\ OrderInv
  /\ NothingBuiltOnFailure
  /\ \A w \in Workers :
       /\ pc[w] = "body" => \A o \in Outcomes : Allowed(local[w], o)
       /\ pc[w] = "publish" => Allowed(local[w], result[w])

LEMMA FailureInit == Init => FailureInv
<1> SUFFICES ASSUME Init PROVE FailureInv
  OBVIOUS
<1>1. \A a \in Scheduled : outcomes[a] = None
  BY DEF Init, Scheduled
<1>2. NothingBuiltOnFailure
  BY <1>1 DEF NothingBuiltOnFailure
<1> QED BY <1>2, OrderInit DEF Init, FailureInv

\* The producers of an action in flight are decided, so no step changes what
\* the upstream check saw.
LEMMA UpstreamStable ==
  ASSUME OrderInv, [Next]_vars, NEW w \in Workers, local[w] # None
  PROVE  \A p \in Producers[local[w]] : outcomes'[p] = outcomes[p] /\ outcomes[p] # None
<1>1. local[w] \in InFlight /\ local[w] \in Scheduled
  BY DEF OrderInv, TypeOK, InFlight, Holders
<1>2. \A p \in Producers[local[w]] : outcomes[p] # None /\ p \in Actions
  BY <1>1, GraphAssumption DEF OrderInv, ProducersFirst, Scheduled
<1> QED BY <1>2, OutcomeStep

\* A worker that neither checks, runs nor publishes carries its verdict along.
LEMMA VerdictKept ==
  ASSUME FailureInv, [Next]_vars, NEW v \in Workers,
         pc'[v] \in {"body", "publish"}, pc'[v] = pc[v],
         local'[v] = local[v], result'[v] = result[v]
  PROVE  /\ pc'[v] = "body" => \A o \in Outcomes : Allowed(local[v], o)'
         /\ pc'[v] = "publish" => Allowed(local[v], result[v])'
<1>1. local[v] # None
  BY DEF FailureInv, OrderInv, HoldersPlaced
<1>2. \A p \in Producers[local[v]] : outcomes'[p] = outcomes[p]
  BY <1>1, UpstreamStable DEF FailureInv
<1> QED BY <1>2 DEF FailureInv, Allowed

\* The verdict of the worker that takes the step.
LEMMA VerdictMade ==
  ASSUME FailureInv, NEW w \in Workers, CheckUpstream(w) \/ Body(w)
  PROVE  /\ pc'[w] = "body" => \A o \in Outcomes : Allowed(local[w], o)'
         /\ pc'[w] = "publish" => Allowed(local[w], result[w])'
<1>1. outcomes' = outcomes /\ local' = local
  BY DEF CheckUpstream, Body, shared
<1>2. CASE CheckUpstream(w)
  <2>1. CASE UpstreamFailed(local[w])
    <3>1. result'[w] = "skipped" /\ pc'[w] = "publish"
      BY <1>2, <2>1 DEF CheckUpstream, FailureInv, OrderInv, TypeOK
    <3> QED BY <3>1, <1>1 DEF Allowed
  <2>2. CASE ~UpstreamFailed(local[w]) /\ UpstreamDirty(local[w])
    <3>1. result'[w] = "may_run" /\ pc'[w] = "publish"
      BY <1>2, <2>2 DEF CheckUpstream, FailureInv, OrderInv, TypeOK
    <3> QED BY <3>1, <1>1, <2>2 DEF Allowed, UpstreamFailed, Bad
  <2>3. CASE ~UpstreamFailed(local[w]) /\ ~UpstreamDirty(local[w])
    <3>1. pc'[w] = "body"
      BY <1>2, <2>3 DEF CheckUpstream, FailureInv, OrderInv, TypeOK
    <3> QED BY <3>1, <1>1, <2>3 DEF Allowed, UpstreamFailed, UpstreamDirty, Bad, Dirty
  <2> QED BY <2>1, <2>2, <2>3
<1>3. CASE Body(w)
  <2>1. pc'[w] = "publish" /\ result'[w] \in Outcomes
    BY <1>3 DEF Body, FailureInv, OrderInv, TypeOK, BodyResults, Outcomes, Bad, Dirty
  <2>2. \A o \in Outcomes : Allowed(local[w], o)
    BY <1>3 DEF Body, FailureInv
  <2> QED BY <2>1, <2>2, <1>1 DEF Allowed
<1> QED BY <1>2, <1>3

LEMMA FailureStep == FailureInv /\ [Next]_vars => FailureInv'
<1> SUFFICES ASSUME FailureInv, [Next]_vars PROVE FailureInv'
  OBVIOUS
<1>1. OrderInv /\ OrderInv'
  BY OrderStep DEF FailureInv
<1>2. NothingBuiltOnFailure'
  <2>1. SUFFICES ASSUME NEW a \in Scheduled, NEW p \in Producers[a]
        PROVE /\ outcomes'[p] \in Bad => outcomes'[a] \in {None, "skipped"}
              /\ outcomes'[p] \in Dirty => outcomes'[a] \in {None, "skipped", "may_run"}
    BY DEF NothingBuiltOnFailure
  <2>2. a \in Actions /\ p \in Actions
    BY GraphAssumption DEF Scheduled
  <2>3. CASE outcomes'[a] = outcomes[a]
    <3>1. CASE outcomes[a] = None
      BY <2>3, <3>1
    <3>2. CASE outcomes[a] # None
      <4>1. outcomes[p] # None
        BY <3>2, <1>1 DEF OrderInv, ProducersFirst
      <4>2. outcomes'[p] = outcomes[p]
        BY <4>1, <2>2, <1>1, OutcomeStep
      <4> QED BY <4>2, <2>3 DEF FailureInv, NothingBuiltOnFailure
    <3> QED BY <3>1, <3>2
  <2>4. CASE outcomes'[a] # outcomes[a]
    <3>1. PICK w \in Workers : Publish(w)
      BY <2>4 DEF Next, WorkerStep, ReturnAborted, ClaimNext, ReturnOrWait, CheckUpstream,
                  Body, NotifyAll, NotifyOne, SpuriousWakeup, Joined, vars, shared
    <3>2. outcomes' = [outcomes EXCEPT ![local[w]] = result[w]]
      BY <3>1, Zenon DEF Publish
    <3>3. local[w] = a /\ outcomes'[a] = result[w]
      BY <3>2, <2>2, <2>4, <1>1 DEF OrderInv, TypeOK
    <3>4. pc[w] = "publish" /\ local[w] # None
      BY <3>1, <1>1 DEF Publish, OrderInv, HoldersPlaced
    <3>5. Allowed(a, result[w])
      BY <3>3, <3>4 DEF FailureInv
    <3>6. outcomes'[p] = outcomes[p]
      BY <3>3, <3>4, <1>1, UpstreamStable
    <3> QED BY <3>3, <3>5, <3>6 DEF Allowed
  <2> QED BY <2>3, <2>4
<1>3. ASSUME NEW v \in Workers
      PROVE  /\ pc'[v] = "body" => \A o \in Outcomes : Allowed(local[v], o)'
             /\ pc'[v] = "publish" => Allowed(local[v], result[v])'
  <2>1. CASE CheckUpstream(v) \/ Body(v)
    BY <2>1, VerdictMade
  <2>2. CASE ~(CheckUpstream(v) \/ Body(v)) /\ pc'[v] \in {"body", "publish"}
    <3>1. ASSUME NEW w \in Workers, Publish(w)
          PROVE  pc'[v] = pc[v] /\ local'[v] = local[v] /\ result'[v] = result[v]
      <4>1. PICK n, q : /\ local' = [local EXCEPT ![w] = n]
                        /\ result' = [result EXCEPT ![w] = None]
                        /\ pc' = [pc EXCEPT ![w] = q]
                        /\ q \in {"notify_all", "notify_one", "lock", "claimed"}
        BY <3>1, <1>1, PublishFacts DEF Resume
      <4> QED BY <4>1, <2>2, <1>1 DEF OrderInv, TypeOK
    <3>2. ASSUME NEW w \in Workers, ReturnAborted(w) \/ ClaimNext(w) \/ ReturnOrWait(w)
          PROVE  pc'[v] = pc[v] /\ local'[v] = local[v] /\ result'[v] = result[v]
      BY <3>2, <2>2, <1>1 DEF ReturnAborted, ClaimNext, ReturnOrWait, OrderInv, TypeOK
    <3>3. ASSUME NEW w \in Workers, w # v, CheckUpstream(w) \/ Body(w)
          PROVE  pc'[v] = pc[v] /\ local'[v] = local[v] /\ result'[v] = result[v]
      BY <3>3, <2>2, <1>1 DEF CheckUpstream, Body, OrderInv, TypeOK
    <3>4. ASSUME NEW w \in Workers, NotifyAll(w) \/ NotifyOne(w) \/ SpuriousWakeup(w)
          PROVE  pc'[v] = pc[v] /\ local'[v] = local[v] /\ result'[v] = result[v]
      BY <3>4, <2>2, <1>1 DEF NotifyAll, NotifyOne, SpuriousWakeup, Resume, OrderInv, TypeOK
    <3>5. pc'[v] = pc[v] /\ local'[v] = local[v] /\ result'[v] = result[v]
      BY <3>1, <3>2, <3>3, <3>4, <2>2 DEF Next, WorkerStep, Joined, vars
    <3> QED BY <3>5, <2>2, VerdictKept
  <2> QED BY <2>1, <2>2
<1> QED BY <1>1, <1>2, <1>3 DEF FailureInv

\* Nothing is ever built on a failed, skipped or stale producer.
THEOREM FailuresPropagate == Spec => []NothingBuiltOnFailure
<1>1. FailureInv => NothingBuiltOnFailure
  BY DEF FailureInv
<1> QED BY <1>1, FailureInit, FailureStep, PTL DEF Spec

-----------------------------------------------------------------------------
(***************************************************************************)
(* The admission counters are the totals of the actions in flight, hence    *)
(* the budgets hold, an exclusive action runs alone, and the pool is never  *)
(* all asleep with work left: when nothing runs, everything fits.           *)
(***************************************************************************)

AdmissionType ==
  [used : [Pools -> Int], tests : Int, running : Int, exclusive : BOOLEAN]

\* Admission state r accounts for exactly the actions in S.
Accounts(r, S) ==
  /\ r \in AdmissionType
  /\ \A p \in Pools : r.used[p] = Total(S, Share(p)) /\ r.used[p] <= Limit(p)
  /\ r.tests = Cardinality(S \cap Tests) /\ r.tests <= TestLimit
  /\ r.running = Cardinality(S)
  /\ r.exclusive <=> S \cap Exclusive # {}
  /\ \A a, b \in S : a \in Exclusive => a = b

BudgetInv == OrderInv /\ Accounts(Admission, InFlight)

-----------------------------------------------------------------------------
(* Sums over a finite set *)

\* Nothing adds up to zero.
LEMMA TotalOfNone == \A f : Total({}, f) = 0
<1> SUFFICES ASSUME NEW f PROVE Total({}, f) = 0
  OBVIOUS
<1>1. UNION {{x} \X (1 .. f[x]) : x \in {}} = {}
  OBVIOUS
<1> QED BY <1>1, FS_EmptySet DEF Total

\* The sum looks at f on S only.
LEMMA TotalCongruent ==
  ASSUME NEW S, NEW f, NEW g, \A x \in S : f[x] = g[x]
  PROVE  Total(S, f) = Total(S, g)
<1>1. {{x} \X (1 .. f[x]) : x \in S} = {{x} \X (1 .. g[x]) : x \in S}
  OBVIOUS
<1> QED BY <1>1 DEF Total

\* One element stands for as many units as its share.
LEMMA UnitsOfOne ==
  ASSUME NEW x, NEW n \in Nat
  PROVE  IsFiniteSet({x} \X (1 .. n)) /\ Cardinality({x} \X (1 .. n)) = n
<1>1. IsFiniteSet({x}) /\ Cardinality({x}) = 1
  BY FS_Singleton
<1>2. IsFiniteSet(1 .. n) /\ Cardinality(1 .. n) = n
  BY FS_Interval
<1> DEFINE A == {x}
           B == 1 .. n
<1> HIDE DEF A, B
<1>3. IsFiniteSet(A \X B) /\ Cardinality(A \X B) = Cardinality(A) * Cardinality(B)
  <2>1. IsFiniteSet(A) /\ IsFiniteSet(B)
    BY <1>1, <1>2 DEF A, B
  <2> QED BY <2>1, FS_Product
<1>4. Cardinality(A) = 1 /\ Cardinality(B) = n
  BY <1>1, <1>2 DEF A, B
<1>5. Cardinality(A \X B) = n
  BY <1>3, <1>4
<1> QED BY <1>3, <1>5 DEF A, B

\* A finite sum of naturals is a natural.
LEMMA TotalFinite ==
  ASSUME NEW S, IsFiniteSet(S), NEW f, \A x \in S : f[x] \in Nat
  PROVE  /\ IsFiniteSet(UNION {{x} \X (1 .. f[x]) : x \in S})
         /\ Total(S, f) \in Nat
<1> DEFINE T == {{x} \X (1 .. f[x]) : x \in S}
           h == [x \in S |-> {x} \X (1 .. f[x])]
<1>1. h \in Surjection(S, T)
  BY DEF Surjection
<1>2. IsFiniteSet(T)
  BY <1>1, FS_Surjection
<1>3. ASSUME NEW U \in T PROVE IsFiniteSet(U)
  <2>1. PICK x \in S : U = {x} \X (1 .. f[x])
    OBVIOUS
  <2> QED BY <2>1, UnitsOfOne, Zenon
<1>4. IsFiniteSet(UNION T)
  <2> HIDE DEF T
  <2> QED BY <1>2, <1>3, FS_UNION
<1> QED BY <1>4, FS_CardinalityType DEF Total

\* A new element adds its share.
LEMMA TotalAdd ==
  ASSUME NEW S, IsFiniteSet(S), NEW a, a \notin S,
         NEW f, \A x \in S \cup {a} : f[x] \in Nat
  PROVE  Total(S \cup {a}, f) = Total(S, f) + f[a]
<1> DEFINE U == UNION {{x} \X (1 .. f[x]) : x \in S}
           A == {a} \X (1 .. f[a])
<1>1. UNION {{x} \X (1 .. f[x]) : x \in S \cup {a}} = U \cup A
  <2>1. {{x} \X (1 .. f[x]) : x \in S \cup {a}} = {{x} \X (1 .. f[x]) : x \in S} \cup {A}
    OBVIOUS
  <2>2. ASSUME NEW V PROVE UNION (V \cup {A}) = (UNION V) \cup A
    OBVIOUS
  <2> HIDE DEF A
  <2> QED BY <2>1, <2>2
<1>2. U \cap A = {}
  OBVIOUS
<1>3. IsFiniteSet(U) /\ Cardinality(U) = Total(S, f) /\ Total(S, f) \in Nat
  BY TotalFinite DEF Total
<1>4. IsFiniteSet(A) /\ Cardinality(A) = f[a]
  BY UnitsOfOne
<1> HIDE DEF U, A
<1>5. Cardinality(U \cup A) = Cardinality(U) + Cardinality(A) - Cardinality(U \cap A)
  BY <1>3, <1>4, FS_Union
<1>6. Cardinality(U \cap A) = 0
  BY <1>2, FS_EmptySet
<1>7. Total(S \cup {a}, f) = Cardinality(U \cup A)
  BY <1>1 DEF Total
<1> QED BY <1>3, <1>4, <1>5, <1>6, <1>7

\* An element that leaves takes its share along.
LEMMA TotalRemove ==
  ASSUME NEW S, IsFiniteSet(S), NEW a \in S, NEW f, \A x \in S : f[x] \in Nat
  PROVE  Total(S \ {a}, f) = Total(S, f) - f[a]
<1>1. IsFiniteSet(S \ {a}) /\ (S \ {a}) \cup {a} = S
  BY FS_RemoveElement
<1>2. Total(S \ {a}, f) \in Nat
  BY <1>1, TotalFinite
<1>3. Total((S \ {a}) \cup {a}, f) = Total(S \ {a}, f) + f[a]
  BY <1>1, TotalAdd
<1>4. f[a] \in Nat /\ Total(S, f) = Total(S \ {a}, f) + f[a]
  BY <1>1, <1>3
<1> QED BY <1>2, <1>4

-----------------------------------------------------------------------------
(* What admission accounts for *)

LEMMA LimitTypes ==
  /\ \A p \in Pools : \A a \in Actions : Share(p)[a] = Clamped(a, p) /\ Share(p)[a] \in Nat
  /\ TestLimit \in Nat \ {0}
  /\ \A p \in Pools : Limit(p) \in Nat
<1>1. \A p \in Pools : \A a \in Actions : Share(p)[a] = Clamped(a, p) /\ Share(p)[a] \in Nat
  BY ClampedRange DEF Share
<1>2. TestLimit \in Nat \ {0}
  BY AdmissionAssumption DEF TestLimit
<1>3. \A p \in Pools : Limit(p) \in Nat
  BY AdmissionAssumption DEF Limit
<1> QED BY <1>1, <1>2, <1>3

\* With nothing in flight every counter is zero.
LEMMA IdleCounters ==
  ASSUME NEW r, Accounts(r, {})
  PROVE  /\ \A p \in Pools : r.used[p] = 0
         /\ r.tests = 0 /\ r.running = 0 /\ ~r.exclusive
<1>1. {} \cap Tests = {} /\ {} \cap Exclusive = {}
  OBVIOUS
<1> QED BY <1>1, TotalOfNone, FS_EmptySet DEF Accounts, AdmissionType

\* An admission state with nothing in flight is all zero and admits anything.
LEMMA IdleFits ==
  ASSUME NEW r, Accounts(r, {}), NEW a \in Actions
  PROVE  Fits(r, a)
  BY IdleCounters, ClampedRange, LimitTypes DEF Fits

LEMMA ReserveAccounts ==
  ASSUME NEW r, NEW S \in SUBSET Actions, Accounts(r, S), NEW a \in Actions, a \notin S,
         Fits(r, a)
  PROVE  Accounts(Reserve(r, a), S \cup {a})
<1> DEFINE q == Reserve(r, a)
           T == S \cup {a}
<1>1. q \in AdmissionType
  BY AdmissionTypes DEF Accounts, AdmissionType
<1>2. IsFiniteSet(S) /\ Cardinality(S) \in Nat
  BY SubsetsFinite
<1>3. a \in Exclusive => S = {}
  BY <1>2, FS_EmptySet DEF Fits, Accounts
<1>4. S = {} => r.tests = 0 /\ \A p \in Pools : r.used[p] = 0
  BY IdleCounters
<1>5. ASSUME NEW p \in Pools
      PROVE  q.used[p] = Total(T, Share(p)) /\ q.used[p] <= Limit(p)
  <2>1. r.used[p] \in Int /\ r.used[p] = Total(S, Share(p))
    BY DEF Accounts, AdmissionType
  <2>2. \A x \in S \cup {a} : Share(p)[x] \in Nat
    BY LimitTypes
  <2>3. Total(T, Share(p)) = Total(S, Share(p)) + Share(p)[a]
    BY <1>2, <2>2, TotalAdd
  <2>4. q.used[p] = r.used[p] + Clamped(a, p)
    BY DEF Reserve
  <2>5. q.used[p] <= Limit(p)
    <3>1. CASE a \in Exclusive
      BY <3>1, <1>3, <1>4, <2>4, ClampedRange
    <3>2. CASE a \notin Exclusive
      BY <3>2, <2>4 DEF Fits
    <3> QED BY <3>1, <3>2
  <2> QED BY <2>1, <2>3, <2>4, <2>5, LimitTypes
<1>6. q.tests = Cardinality(T \cap Tests) /\ q.tests <= TestLimit
  <2>1. r.tests \in Int /\ r.tests = Cardinality(S \cap Tests) /\ r.tests <= TestLimit
    BY DEF Accounts, AdmissionType
  <2>2. IsFiniteSet(S \cap Tests) /\ a \notin S \cap Tests
    BY <1>2, FS_Intersection
  <2>3. Cardinality(T \cap Tests) = Cardinality(S \cap Tests) + TestSlots(a)
    <3>1. CASE a \in Tests
      <4>1. T \cap Tests = (S \cap Tests) \cup {a}
        BY <3>1
      <4> QED BY <4>1, <3>1, <2>2, FS_AddElement DEF TestSlots
    <3>2. CASE a \notin Tests
      <4>1. T \cap Tests = S \cap Tests
        BY <3>2
      <4> QED BY <4>1, <3>2, <2>1 DEF TestSlots
    <3> QED BY <3>1, <3>2
  <2>4. q.tests = r.tests + TestSlots(a)
    BY DEF Reserve
  <2>5. q.tests <= TestLimit
    <3>1. CASE a \in Exclusive
      BY <3>1, <1>3, <1>4, <2>4, LimitTypes DEF TestSlots
    <3>2. CASE a \notin Exclusive
      BY <3>2, <2>1, <2>4, LimitTypes DEF Fits, TestSlots
    <3> QED BY <3>1, <3>2
  <2> QED BY <2>1, <2>3, <2>4, <2>5
<1>7. q.running = Cardinality(T)
  <2>1. Cardinality(T) = Cardinality(S) + 1
    BY <1>2, FS_AddElement
  <2> QED BY <2>1 DEF Reserve, Accounts
<1>8. q.exclusive <=> T \cap Exclusive # {}
  <2>1. a \notin Exclusive => S \cap Exclusive = {}
    BY DEF Fits, Accounts
  <2> QED BY <2>1 DEF Reserve
<1>9. \A b, c \in T : b \in Exclusive => b = c
  <2>1. a \notin Exclusive => S \cap Exclusive = {}
    BY DEF Fits, Accounts
  <2> QED BY <2>1, <1>3
<1> HIDE DEF q, T
<1> QED BY <1>1, <1>5, <1>6, <1>7, <1>8, <1>9 DEF Accounts, q, T

LEMMA ReleaseAccounts ==
  ASSUME NEW r, NEW S \in SUBSET Actions, Accounts(r, S), NEW a \in S
  PROVE  Accounts(Release(r, a), S \ {a})
<1> DEFINE q == Release(r, a)
           T == S \ {a}
<1>1. q \in AdmissionType
  BY AdmissionTypes DEF Accounts, AdmissionType
<1>2. IsFiniteSet(S) /\ Cardinality(S) \in Nat
  BY SubsetsFinite
<1>3. ASSUME NEW p \in Pools
      PROVE  q.used[p] = Total(T, Share(p)) /\ q.used[p] <= Limit(p)
  <2>1. r.used[p] \in Int /\ r.used[p] = Total(S, Share(p)) /\ r.used[p] <= Limit(p)
    BY DEF Accounts, AdmissionType
  <2>2. \A x \in S : Share(p)[x] \in Nat
    BY LimitTypes
  <2>3. Total(T, Share(p)) = Total(S, Share(p)) - Share(p)[a]
    BY <1>2, <2>2, TotalRemove
  <2>4. q.used[p] = r.used[p] - Clamped(a, p) /\ Share(p)[a] = Clamped(a, p)
    BY LimitTypes DEF Release
  <2> QED BY <2>1, <2>3, <2>4, ClampedRange
<1>4. q.tests = Cardinality(T \cap Tests) /\ q.tests <= TestLimit
  <2>1. r.tests \in Int /\ r.tests = Cardinality(S \cap Tests) /\ r.tests <= TestLimit
    BY DEF Accounts, AdmissionType
  <2>2. IsFiniteSet(S \cap Tests)
    BY <1>2, FS_Intersection
  <2>3. Cardinality(T \cap Tests) = Cardinality(S \cap Tests) - TestSlots(a)
    <3>1. T \cap Tests = (S \cap Tests) \ {a}
      OBVIOUS
    <3> QED BY <3>1, <2>1, <2>2, FS_RemoveElement DEF TestSlots
  <2>4. q.tests = r.tests - TestSlots(a)
    BY DEF Release
  <2> QED BY <2>1, <2>3, <2>4, LimitTypes DEF TestSlots
<1>5. q.running = Cardinality(T)
  <2>1. Cardinality(T) = Cardinality(S) - 1
    BY <1>2, FS_RemoveElement
  <2> QED BY <2>1 DEF Release, Accounts
<1>6. q.exclusive <=> T \cap Exclusive # {}
  <2>1. /\ r.exclusive \in BOOLEAN
        /\ r.exclusive <=> S \cap Exclusive # {}
        /\ \A b, c \in S : b \in Exclusive => b = c
    BY DEF Accounts, AdmissionType
  <2>2. q.exclusive <=> r.exclusive /\ a \notin Exclusive
    BY DEF Release
  <2> HIDE DEF q
  <2> QED BY <2>1, <2>2
<1>7. \A b, c \in T : b \in Exclusive => b = c
  BY DEF Accounts
<1> HIDE DEF q, T
<1> QED BY <1>1, <1>3, <1>4, <1>5, <1>6, <1>7 DEF Accounts, q, T
-----------------------------------------------------------------------------
LEMMA BudgetInit == Init => BudgetInv
<1> SUFFICES ASSUME Init PROVE BudgetInv
  OBVIOUS
<1>1. InFlight = {}
  BY DEF Init, InFlight, Holders
<1>2. Admission = Free
  BY DEF Init, Admission, Free
<1>3. Accounts(Free, {})
  <2>1. {} \cap Tests = {}
    OBVIOUS
  <2> QED BY <2>1, TotalOfNone, LimitTypes, FS_EmptySet DEF Accounts, AdmissionType, Free
<1> QED BY <1>1, <1>2, <1>3, OrderInit DEF BudgetInv

LEMMA InFlightActions == OrderInv => InFlight \in SUBSET Actions
  BY DEF OrderInv, TypeOK, InFlight, Holders, Scheduled

\* Only a claim and a completion touch the counters or the actions in flight.
LEMMA AdmissionQuiet ==
  ASSUME OrderInv, [Next]_vars,
         ~ \E w \in Workers : ClaimNext(w) \/ Publish(w)
  PROVE  Admission' = Admission /\ InFlight' = InFlight
<1>1. UNCHANGED <<admission, local>>
  BY DEF Next, WorkerStep, ReturnAborted, ReturnOrWait, CheckUpstream, Body, NotifyAll,
         NotifyOne, SpuriousWakeup, Joined, vars, shared
<1> QED BY <1>1 DEF Admission, InFlight, Holders, admission

LEMMA BudgetStep == BudgetInv /\ [Next]_vars => BudgetInv'
<1> SUFFICES ASSUME BudgetInv, [Next]_vars PROVE BudgetInv'
  OBVIOUS
<1>1. OrderInv /\ OrderInv' /\ InFlight \in SUBSET Actions
  BY OrderStep, InFlightActions DEF BudgetInv
<1>2. ASSUME NEW w \in Workers, ClaimNext(w) PROVE Accounts(Admission, InFlight)'
  <2>1. PICK a \in Scheduled :
           /\ a \notin InFlight
           /\ Fits(Admission, a)
           /\ InFlight' = InFlight \cup {a}
           /\ Admission' = Reserve(Admission, a)
    BY <1>1, <1>2, ClaimEffect
  <2>2. Accounts(Reserve(Admission, a), InFlight \cup {a})
    BY <2>1, <1>1, ReserveAccounts DEF BudgetInv, Scheduled
  <2> QED BY <2>1, <2>2 DEF Accounts
<1>3. ASSUME NEW w \in Workers, Publish(w) PROVE Accounts(Admission, InFlight)'
  <2> DEFINE a == local[w]
             freed == Release(Admission, a)
  <2>1. PICK n \in Scheduled \cup {None} :
           /\ a \in InFlight /\ n \notin InFlight
           /\ n # None => Fits(freed, n)
           /\ InFlight' = (InFlight \ {a}) \cup ({n} \ {None})
           /\ Admission' = IF n = None THEN freed ELSE Reserve(freed, n)
    BY <1>1, <1>3, PublishEffect
  <2>2. Accounts(freed, InFlight \ {a})
    BY <2>1, <1>1, ReleaseAccounts DEF BudgetInv
  <2> HIDE DEF a, freed
  <2>3. CASE n = None
    BY <2>1, <2>2, <2>3 DEF Accounts
  <2>4. CASE n # None
    <3>1. Accounts(Reserve(freed, n), (InFlight \ {a}) \cup {n})
      BY <2>1, <2>2, <2>4, <1>1, ReserveAccounts DEF Scheduled
    <3> QED BY <3>1, <2>1, <2>4 DEF Accounts
  <2> QED BY <2>3, <2>4
<1>4. CASE ~ \E w \in Workers : ClaimNext(w) \/ Publish(w)
  BY <1>1, <1>4, AdmissionQuiet DEF BudgetInv, Accounts
<1> QED BY <1>1, <1>2, <1>3, <1>4 DEF BudgetInv

\* The counters are the totals of the actions in flight in every reachable state.
THEOREM BudgetInvariant == Spec => []BudgetInv
  BY BudgetInit, BudgetStep, PTL DEF Spec

\* No interleaving of claims and continuations exceeds a budget.
THEOREM BudgetsHold == Spec => []WithinBudget
<1>1. BudgetInv => WithinBudget
  BY DEF BudgetInv, Accounts, Admission, WithinBudget
<1> QED BY <1>1, BudgetInvariant, PTL

\* An exclusive action is the only one in flight.
THEOREM ExclusiveRunsAlone == Spec => []ExclusiveAlone
<1>1. BudgetInv => ExclusiveAlone
  <2> SUFFICES ASSUME BudgetInv, NEW v \in Holders, NEW w \in Holders, local[v] \in Exclusive
               PROVE  v = w
    BY DEF ExclusiveAlone
  <2>1. local[v] \in InFlight /\ local[w] \in InFlight
    BY DEF InFlight
  <2>2. local[v] = local[w]
    BY <2>1 DEF BudgetInv, Accounts
  <2> QED BY <2>2 DEF BudgetInv, OrderInv, ClaimedOnce
<1> QED BY <1>1, BudgetInvariant, PTL

-----------------------------------------------------------------------------
(* The pool never falls asleep with work left. *)

\* Any non-empty set of actions has one that comes first in the closure.
LEMMA FirstInClosure ==
  ASSUME NEW T \in SUBSET Actions, T # {}
  PROVE  \E m \in T : \A a \in T : Position[m] <= Position[a]
<1> DEFINE R == OpToRel(<, Nat)
           P == {Position[a] : a \in T}
<1>1. P \subseteq Nat /\ P # {}
  BY OrderAssumption
<1>2. IsWellFoundedOn(R, Nat)
  BY NatLessThanWellFounded
<1>3. \E x \in P : \A y \in P : ~(<<y, x>> \in R)
  <2> HIDE DEF R, P
  <2> QED BY <1>1, <1>2, WFMin
<1>4. PICK m \in T : \A a \in T : ~(<<Position[a], Position[m]>> \in R)
  BY <1>3
<1>5. \A a \in T : ~(Position[a] < Position[m])
  BY <1>4, OrderAssumption DEF OpToRel
<1> QED BY <1>5, OrderAssumption

AwakeInv == BudgetInv /\ NothingDropped /\ NeverAllAsleep

LEMMA DroppedInit == Init => NothingDropped
<1> SUFFICES ASSUME Init, NEW a \in Undecided, \A p \in Producers[a] : outcomes[p] # None
             PROVE  a \in ready
  BY DEF NothingDropped
<1>1. a \in Scheduled /\ a \in Actions /\ Producers[a] \subseteq Actions
  BY GraphAssumption DEF Undecided, Scheduled
<1>2. Producers[a] \cap Scheduled = {}
  BY <1>1 DEF Init, Scheduled
<1>3. InitialWaiting[a] = Cardinality(Producers[a] \cap Scheduled)
  BY <1>1 DEF InitialWaiting
<1>4. InitialWaiting[a] = 0
  BY <1>2, <1>3, FS_EmptySet
<1> QED BY <1>1, <1>4 DEF Init

\* A completion queues, or takes along, every dependent it was the last to wait for.
LEMMA DroppedPublish ==
  ASSUME OrderInv, NothingDropped, NEW w \in Workers, Publish(w)
  PROVE  NothingDropped'
<1> DEFINE a == local[w]
           Left(d) == {p \in Producers[d] \cap Scheduled : outcomes[p] = None}
<1>1. PICK n \in Scheduled \cup {None} :
        /\ a \in InFlight /\ a \in Undecided /\ n \notin InFlight
        /\ outcomes' = [outcomes EXCEPT ![a] = result[w]]
        /\ Undecided' = Undecided \ {a}
        /\ InFlight' = (InFlight \ {a}) \cup ({n} \ {None})
        /\ ~abort' => /\ ~abort
                      /\ ready \cup Unlocked(a, FALSE) \subseteq ready' \cup {n}
  BY PublishEffect
<1>2. SUFFICES ASSUME ~abort', NEW b \in Undecided',
                      \A p \in Producers[b] : outcomes'[p] # None
               PROVE  b \in ready' \cup InFlight'
  BY DEF NothingDropped
<1>3. /\ b \in Undecided /\ b # a /\ b \in Scheduled /\ b \in Actions /\ b # None
      /\ Producers[b] \subseteq Actions /\ a \in Scheduled
  BY <1>1, <1>2, GraphAssumption, NoneAssumption DEF Undecided, Scheduled
<1>4. \A p \in Actions : p # a => outcomes'[p] = outcomes[p]
  BY <1>1 DEF OrderInv, TypeOK
<1>5. CASE a \in Producers[b]
  <2>1. Left(b) = {a}
    BY <1>2, <1>3, <1>4, <1>5, <1>1 DEF Undecided
  <2>2. waiting[b] = 1
    BY <2>1, <1>1, <1>2, <1>3, FS_Singleton DEF OrderInv, WaitingExact
  <2>3. b \in Unlocked(a, FALSE)
    BY <2>2, <1>3, <1>5 DEF Unlocked, Dependents
  <2>4. b \in ready' \cup {n}
    BY <2>3, <1>1, <1>2
  <2> QED BY <2>4, <1>1, <1>3
<1>6. CASE a \notin Producers[b]
  <2>1. \A p \in Producers[b] : outcomes[p] # None
    BY <1>2, <1>3, <1>4, <1>6
  <2>2. b \in ready \cup InFlight
    BY <2>1, <1>1, <1>2, <1>3 DEF NothingDropped
  <2> QED BY <2>2, <1>1, <1>2, <1>3
<1> QED BY <1>5, <1>6

LEMMA DroppedStep ==
  ASSUME OrderInv, NothingDropped, [Next]_vars
  PROVE  NothingDropped'
<1>1. ASSUME NEW w \in Workers, ClaimNext(w) PROVE NothingDropped'
  <2>1. PICK a : InFlight' = InFlight \cup {a} /\ ready' = ready \ {a}
    <3>1. PICK a \in First(Claimable(ready, Admission)) :
            /\ ready' = ready \ {a}
            /\ local' = [local EXCEPT ![w] = a]
      BY <1>1 DEF ClaimNext
    <3>2. a # None /\ local[w] = None
      BY <3>1, <1>1, NoneAssumption
         DEF First, Claimable, ClaimNext, OrderInv, TypeOK, HoldersPlaced, Scheduled
    <3>3. \A v \in Workers : local'[v] = IF v = w THEN a ELSE local[v]
      BY <3>1 DEF OrderInv, TypeOK
    <3>4. Holders' = Holders \cup {w}
      BY <3>2, <3>3 DEF Holders
    <3>5. InFlight' = InFlight \cup {a}
      BY <3>2, <3>3, <3>4 DEF InFlight, Holders
    <3> QED BY <3>1, <3>5
  <2>2. Undecided' = Undecided
    BY <1>1 DEF ClaimNext, Undecided
  <2> QED BY <2>1, <2>2, <1>1 DEF ClaimNext, NothingDropped
<1>2. ASSUME NEW w \in Workers, Publish(w) PROVE NothingDropped'
  BY <1>2, DroppedPublish
<1>3. CASE ~ \E w \in Workers : ClaimNext(w) \/ Publish(w)
  <2>1. UNCHANGED <<ready, outcomes, abort>>
    BY <1>3 DEF Next, WorkerStep, ReturnAborted, ReturnOrWait, CheckUpstream, Body, NotifyAll,
                NotifyOne, SpuriousWakeup, Joined, vars, shared
  <2>2. InFlight' = InFlight
    BY <1>3, AdmissionQuiet
  <2>3. Undecided' = Undecided
    BY <2>1 DEF Undecided
  <2> QED BY <2>1, <2>2, <2>3 DEF NothingDropped
<1> QED BY <1>1, <1>2, <1>3

\* A worker may go to sleep, or leave, only while another one holds an action:
\* if none did, the first undecided action would be queued and would fit.
LEMMA SomebodyHolds ==
  ASSUME BudgetInv, NothingDropped, ~abort, Undecided # {}, Claimable(ready, Admission) = {}
  PROVE  InFlight # {}
<1> SUFFICES ASSUME InFlight = {} PROVE FALSE
  OBVIOUS
<1>1. Undecided \in SUBSET Actions
  BY DEF Undecided, Scheduled
<1>2. PICK m \in Undecided : \A a \in Undecided : Position[m] <= Position[a]
  BY <1>1, FirstInClosure
<1>3. ASSUME NEW p \in Producers[m] PROVE outcomes[p] # None
  <2>1. m \in Actions /\ p \in Actions /\ Position[p] < Position[m]
    BY <1>1, OrderAssumption, GraphAssumption
  <2>2. p \notin Undecided
    BY <2>1, <1>2, OrderAssumption
  <2> QED BY <2>1, <2>2 DEF BudgetInv, OrderInv, PrecachedDecided, Undecided, Scheduled
<1>4. m \in ready
  BY <1>2, <1>3 DEF NothingDropped
<1>5. Fits(Admission, m)
  BY <1>1, IdleFits DEF BudgetInv
<1> QED BY <1>4, <1>5 DEF Claimable

LEMMA AwakeStep == AwakeInv /\ [Next]_vars => AwakeInv'
<1> SUFFICES ASSUME AwakeInv, [Next]_vars PROVE AwakeInv'
  OBVIOUS
<1>1. BudgetInv /\ BudgetInv' /\ OrderInv /\ NothingDropped /\ NothingDropped'
  BY BudgetStep, DroppedStep DEF AwakeInv, BudgetInv
<1>2. SUFFICES ASSUME Undecided' # {}, ~abort'
               PROVE  \E v \in Workers : pc'[v] \notin {"asleep", "returned"}
  BY <1>1 DEF AwakeInv, NeverAllAsleep
<1>3. ASSUME NEW w \in Workers, ReturnOrWait(w)
      PROVE  \E v \in Workers : pc'[v] \notin {"asleep", "returned"}
  <2>1. ~abort /\ Undecided # {} /\ Claimable(ready, Admission) = {}
    BY <1>2, <1>3 DEF ReturnOrWait, Undecided
  <2>2. PICK v \in Workers : local[v] # None
    BY <2>1, <1>1, SomebodyHolds DEF InFlight, Holders
  <2>3. v # w /\ pc[v] \notin {"asleep", "returned"}
    BY <2>2, <1>1, <1>3 DEF ReturnOrWait, OrderInv, HoldersPlaced
  <2> QED BY <2>3, <1>1, <1>3 DEF ReturnOrWait, OrderInv, TypeOK
<1>4. ASSUME NEW w \in Workers, ReturnAborted(w) PROVE FALSE
  BY <1>2, <1>4 DEF ReturnAborted, shared
<1>5. ASSUME NEW w \in Workers, Publish(w) PROVE pc'[w] \notin {"asleep", "returned"}
  BY <1>5, <1>1, PublishFacts DEF OrderInv, TypeOK, Resume
<1>6. ASSUME NEW w \in Workers, ClaimNext(w) \/ CheckUpstream(w) \/ Body(w)
      PROVE  pc'[w] \notin {"asleep", "returned"}
  BY <1>6, <1>1 DEF ClaimNext, CheckUpstream, Body, OrderInv, TypeOK
<1>7. ASSUME NEW w \in Workers, NotifyAll(w) \/ NotifyOne(w) \/ SpuriousWakeup(w)
      PROVE  pc'[w] \notin {"asleep", "returned"}
  BY <1>7, <1>1 DEF NotifyAll, NotifyOne, SpuriousWakeup, Resume, OrderInv, TypeOK
<1>8. CASE UNCHANGED vars
  BY <1>8, <1>2 DEF AwakeInv, NeverAllAsleep, Undecided, vars, shared
<1> QED BY <1>3, <1>4, <1>5, <1>6, <1>7, <1>8 DEF Next, WorkerStep, Joined

LEMMA AwakeInit == Init => AwakeInv
<1> SUFFICES ASSUME Init PROVE AwakeInv
  OBVIOUS
<1>1. NeverAllAsleep
  BY EngineAssumption DEF Init, NeverAllAsleep
<1> QED BY <1>1, BudgetInit, DroppedInit DEF AwakeInv

\* While something is undecided and nothing aborted, some worker is at work or
\* about to be: the pool cannot deadlock on its own condition variable.
THEOREM PoolStaysAwake == Spec => []NeverAllAsleep
<1>1. AwakeInv => NeverAllAsleep
  BY DEF AwakeInv
<1> QED BY <1>1, AwakeInit, AwakeStep, PTL DEF Spec

\* An undecided action whose producers are decided is queued or held.
THEOREM NoActionDropped == Spec => []NothingDropped
<1>1. AwakeInv => NothingDropped
  BY DEF AwakeInv
<1> QED BY <1>1, AwakeInit, AwakeStep, PTL DEF Spec

\* For any machine, any demands and any number of workers, no interleaving of claims
\* and continuations exceeds a budget or runs anything beside an exclusive action.
THEOREM AdmissionIsSafe == Spec => []BudgetRespected
<1>1. WithinBudget /\ ExclusiveAlone => BudgetRespected
  BY DEF BudgetRespected
<1> QED BY <1>1, BudgetsHold, ExclusiveRunsAlone, PTL

\* For any graph and any number of workers, whatever can be done is queued or held
\* and a worker is up to do it: neither a deferral nor a wait strands an action.
THEOREM WorkAlwaysGoesOn == Spec => []WorkGoesOn
<1>1. NothingDropped /\ NeverAllAsleep => WorkGoesOn
  BY DEF WorkGoesOn
<1> QED BY <1>1, NoActionDropped, PoolStaysAwake, PTL
-----------------------------------------------------------------------------
(* The counters, the wakeups and the end of the build *)

PoolInv ==
  /\ BudgetInv
  /\ pending = Cardinality(Undecided)
  /\ NoLostWakeup
  /\ EndReachesAll

\* The workers that still have waiters to wake, one by one.
Wakers == {w \in Workers : pc[w] = "notify_one"}

CountFacts ==
  /\ IsFiniteSet(Wakers) /\ IsFiniteSet(Awake) /\ IsFiniteSet(ready)
  /\ \A w \in Workers : wakes[w] \in Nat
  /\ WakesOwed = Total(Wakers, wakes) /\ WakesOwed \in Nat
  /\ Cardinality(Awake) \in Nat /\ Cardinality(ready) \in Nat

LEMMA Counts == OrderInv => CountFacts
<1> SUFFICES ASSUME OrderInv PROVE CountFacts
  OBVIOUS
<1>1. Wakers \in SUBSET Workers /\ Awake \in SUBSET Workers
  BY DEF Wakers, Awake
<1>2. IsFiniteSet(Wakers) /\ IsFiniteSet(Awake)
  BY <1>1, EngineAssumption, FS_Subset
<1>3. \A w \in Workers : wakes[w] \in Nat
  BY DEF OrderInv, TypeOK
<1>4. WakesOwed = Total(Wakers, wakes)
  BY DEF WakesOwed, Wakers
<1>5. Total(Wakers, wakes) \in Nat
  BY <1>1, <1>2, <1>3, TotalFinite
<1>6. IsFiniteSet(ready) /\ Cardinality(ready) \in Nat
  BY SubsetsFinite DEF OrderInv, TypeOK, Scheduled
<1> QED BY <1>2, <1>3, <1>4, <1>5, <1>6, FS_CardinalityType DEF CountFacts

LEMMA UndecidedFinite == IsFiniteSet(Undecided) /\ Cardinality(Undecided) \in Nat
  BY SubsetsFinite DEF Undecided, Scheduled

\* A completion that does not wake everybody is not the last, nobody waits for
\* budget, and it owes a wakeup for every action it leaves queued beyond those
\* that were queued before.
LEMMA PublishWakes ==
  ASSUME OrderInv, NEW w \in Workers, Publish(w)
  PROVE  \/ pc' = [pc EXCEPT ![w] = "notify_all"] /\ UNCHANGED wakes
         \/ /\ ~abort' /\ pending # 1 /\ ~resourceWaiting
            /\ \E due \in Nat : \E n :
                 /\ pc' = [pc EXCEPT ![w] = IF due = 0 THEN Resume(n) ELSE "notify_one"]
                 /\ wakes' = [wakes EXCEPT ![w] = due]
                 /\ ready' = {} \/ Cardinality(ready') <= Cardinality(ready) + due
<1> DEFINE a        == local[w]
           freed    == Release(Admission, a)
           aborts   == result[w] = "failed" /\ ~KeepGoing
           stop     == abort \/ aborts
           unlocked == Unlocked(a, stop)
           queue    == QueueAfter(aborts, unlocked)
           finished == pending = 1 \/ stop
           fitting  == IF finished THEN {} ELSE Claimable(queue, freed)
           blocked  == ~finished /\ fitting = {} /\ queue # {}
           due      == WakesDue(Cardinality(unlocked), IF fitting = {} THEN 0 ELSE 1)
<1>1. PICK next \in IF fitting = {} THEN {None} ELSE First(fitting) :
        /\ abort' = stop
        /\ ready' = queue \ {next}
        /\ IF WakesEverybody(finished, blocked)
           THEN /\ pc' = [pc EXCEPT ![w] = "notify_all"]
                /\ UNCHANGED wakes
           ELSE /\ pc' = [pc EXCEPT ![w] = IF due = 0 THEN Resume(next) ELSE "notify_one"]
                /\ wakes' = [wakes EXCEPT ![w] = due]
  BY Zenon DEF Publish
<1>2. unlocked \subseteq Actions /\ IsFiniteSet(unlocked) /\ Cardinality(unlocked) \in Nat
  BY SubsetsFinite DEF Unlocked, Dependents, Scheduled
<1>3. due \in Nat
  BY <1>2, WakesDueNat
<1>4. IsFiniteSet(ready) /\ Cardinality(ready) \in Nat
  BY Counts DEF CountFacts
<1>5. ASSUME ~WakesEverybody(finished, blocked)
      PROVE  ready' = {} \/ Cardinality(ready') <= Cardinality(ready) + due
  <2>1. ~finished /\ ~blocked
    BY <1>5 DEF WakesEverybody
  <2>2. queue = ready \cup unlocked
    BY <2>1 DEF QueueAfter
  <2>3. CASE fitting = {}
    BY <2>1, <2>3, <1>1
  <2>4. CASE fitting # {}
    <3>1. next \in queue
      BY <2>1, <2>4, <1>1 DEF First, Claimable
    <3>2. IsFiniteSet(ready \cup unlocked) /\ IsFiniteSet(ready \cap unlocked)
          /\ Cardinality(ready \cup unlocked)
               = Cardinality(ready) + Cardinality(unlocked) - Cardinality(ready \cap unlocked)
      BY <1>2, <1>4, FS_Union, FS_Intersection
    <3>3. Cardinality(ready \cap unlocked) \in Nat
      BY <3>2, FS_CardinalityType
    <3>4. Cardinality(ready') = Cardinality(ready \cup unlocked) - 1
      <4> HIDE DEF queue, unlocked
      <4>1. ready' = (ready \cup unlocked) \ {next} /\ next \in ready \cup unlocked
        BY <1>1, <2>2, <3>1
      <4> QED BY <4>1, <3>2, FS_RemoveElement
    <3>5. due >= Cardinality(unlocked) - 1
      BY <2>4, <1>2 DEF WakesDue
    <3> HIDE DEF unlocked, due
    <3> QED BY <3>2, <3>3, <3>4, <3>5, <1>2, <1>3, <1>4
  <2> QED BY <2>3, <2>4
<1>6. CASE WakesEverybody(finished, blocked)
  BY <1>1, <1>6
<1>7. CASE ~WakesEverybody(finished, blocked)
  <2>1. ~stop /\ pending # 1 /\ ~resourceWaiting
    BY <1>7 DEF WakesEverybody
  <2> HIDE DEF due, finished, blocked, stop
  <2> QED BY <1>1, <1>3, <1>5, <1>7, <2>1
<1> QED BY <1>6, <1>7

\* The workers asleep, awake and about to wake others after a completion.
LEMMA PublishOwes ==
  ASSUME OrderInv, OrderInv', NEW w \in Workers, Publish(w)
  PROVE  \/ pc'[w] = "notify_all"
         \/ /\ ~abort' /\ pending # 1 /\ ~resourceWaiting
            /\ \/ ready' = {}
               \/ Cardinality(ready') + Cardinality(Awake) + WakesOwed
                    <= Cardinality(ready) + Cardinality(Awake') + WakesOwed'
<1>1. CASE pc' = [pc EXCEPT ![w] = "notify_all"]
  BY <1>1 DEF OrderInv, TypeOK
<1>2. ASSUME ~abort', pending # 1, ~resourceWaiting, NEW due \in Nat, NEW n,
             pc' = [pc EXCEPT ![w] = IF due = 0 THEN Resume(n) ELSE "notify_one"],
             wakes' = [wakes EXCEPT ![w] = due],
             Cardinality(ready') <= Cardinality(ready) + due
      PROVE  Cardinality(ready') + Cardinality(Awake) + WakesOwed
               <= Cardinality(ready) + Cardinality(Awake') + WakesOwed'
  <2>1. /\ pc[w] = "publish" /\ \A v \in Workers : v # w => pc'[v] = pc[v] /\ wakes'[v] = wakes[v]
        /\ wakes'[w] = due
        /\ pc'[w] = IF due = 0 THEN Resume(n) ELSE "notify_one"
    BY <1>2 DEF Publish, OrderInv, TypeOK
  <2>2. Awake \subseteq Awake'
    BY <2>1 DEF Awake
  <2>3. /\ IsFiniteSet(Wakers) /\ IsFiniteSet(Awake') /\ \A v \in Workers : wakes'[v] \in Nat
        /\ WakesOwed = Total(Wakers, wakes) /\ WakesOwed \in Nat
        /\ WakesOwed' = Total(Wakers', wakes')
        /\ Cardinality(Awake) \in Nat /\ Cardinality(Awake') \in Nat
    <3>1. CountFacts /\ CountFacts'
      BY Counts, PTL
    <3> QED BY <3>1 DEF CountFacts
  <2>4. Cardinality(Awake) <= Cardinality(Awake')
    BY <2>2, <2>3, FS_Subset
  <2>5. w \notin Wakers /\ Wakers \subseteq Workers
    BY <2>1 DEF Wakers
  <2>6. Total(Wakers, wakes') = Total(Wakers, wakes)
    BY <2>1, <2>5, TotalCongruent
  <2>7. WakesOwed' = WakesOwed + due
    <3>1. CASE due = 0
      <4>1. Wakers' = Wakers
        BY <3>1, <2>1 DEF Wakers, Resume
      <4> QED BY <4>1, <3>1, <2>3, <2>6
    <3>2. CASE due # 0
      <4>1. Wakers' = Wakers \cup {w}
        BY <3>2, <2>1 DEF Wakers
      <4>2. \A v \in Wakers \cup {w} : wakes'[v] \in Nat
        BY <2>3, <2>5
      <4>3. Total(Wakers \cup {w}, wakes') = Total(Wakers, wakes') + wakes'[w]
        BY <4>2, <2>3, <2>5, TotalAdd
      <4> QED BY <4>1, <4>3, <2>1, <2>3, <2>6
    <3> QED BY <3>1, <3>2
  <2>8. Cardinality(ready) \in Nat /\ Cardinality(ready') \in Nat
    <3>1. CountFacts /\ CountFacts'
      BY Counts, PTL
    <3> QED BY <3>1 DEF CountFacts
  <2> QED BY <1>2, <2>3, <2>4, <2>7, <2>8
<1> QED BY <1>1, <1>2, PublishWakes

\* A notification moves one worker from the waiters to those about to look.
LEMMA NotifyOneOwes ==
  ASSUME OrderInv, OrderInv', NEW w \in Workers, NotifyOne(w)
  PROVE  \/ \A v \in Workers : pc'[v] # "asleep"
         \/ Cardinality(Awake') + WakesOwed' = Cardinality(Awake) + WakesOwed
<1> DEFINE after == IF wakes[w] = 1 THEN Resume(local[w]) ELSE "notify_one"
<1>1. /\ pc[w] = "notify_one" /\ local[w] # None /\ wakes[w] \in Nat \ {0}
      /\ wakes' = [wakes EXCEPT ![w] = wakes[w] - 1]
  BY DEF NotifyOne, OrderInv, TypeOK, HoldersPlaced
<1>2. CASE {v \in Workers : pc[v] = "asleep"} = {}
  <2>1. pc' = [pc EXCEPT ![w] = after]
    BY <1>2 DEF NotifyOne
  <2> QED BY <2>1, <1>2 DEF OrderInv, TypeOK, Resume
<1>3. CASE {v \in Workers : pc[v] = "asleep"} # {}
  <2>1. PICK v \in Workers : pc[v] = "asleep" /\ pc' = [pc EXCEPT ![w] = after, ![v] = "lock"]
    BY <1>3 DEF NotifyOne
  <2>2. /\ v # w /\ pc'[v] = "lock" /\ pc'[w] = after
        /\ \A u \in Workers \ {v, w} : pc'[u] = pc[u]
        /\ \A u \in Workers \ {w} : wakes'[u] = wakes[u]
        /\ wakes'[w] = wakes[w] - 1
    BY <1>1, <2>1 DEF OrderInv, TypeOK
  <2>3. after \notin {"lock", "asleep"} /\ (wakes[w] # 1 => after = "notify_one")
        /\ (wakes[w] = 1 => after # "notify_one")
    BY <1>1 DEF Resume
  <2>4. /\ IsFiniteSet(Wakers) /\ IsFiniteSet(Awake) /\ \A u \in Workers : wakes[u] \in Nat
        /\ \A u \in Workers : wakes'[u] \in Nat
        /\ WakesOwed = Total(Wakers, wakes) /\ WakesOwed \in Nat
        /\ WakesOwed' = Total(Wakers', wakes')
        /\ Cardinality(Awake) \in Nat
    <3>1. CountFacts /\ CountFacts'
      BY Counts, PTL
    <3> QED BY <3>1 DEF CountFacts
  <2> HIDE DEF after
  <2>5. Awake' = Awake \cup {v} /\ v \notin Awake
    BY <1>1, <2>1, <2>2, <2>3 DEF Awake
  <2>6. Cardinality(Awake') = Cardinality(Awake) + 1
    BY <2>4, <2>5, FS_AddElement
  <2>7. w \in Wakers /\ v \notin Wakers /\ Wakers \subseteq Workers /\ v \notin Wakers'
    BY <1>1, <2>1, <2>2 DEF Wakers
  <2>8. Total(Wakers \ {w}, wakes) = Total(Wakers, wakes) - wakes[w]
    BY <2>4, <2>7, TotalRemove
  <2>9. Total(Wakers \ {w}, wakes') = Total(Wakers \ {w}, wakes)
    BY <2>2, <2>7, TotalCongruent
  <2>10. WakesOwed' = WakesOwed - 1
    <3>1. CASE wakes[w] = 1
      <4>1. Wakers' = Wakers \ {w}
        BY <3>1, <2>1, <2>2, <2>3 DEF Wakers
      <4> QED BY <4>1, <3>1, <2>4, <2>8, <2>9
    <3>2. CASE wakes[w] # 1
      <4>1. Wakers' = Wakers
        BY <3>2, <2>1, <2>2, <2>3, <1>1 DEF Wakers
      <4>2. Total(Wakers \ {w}, wakes') = Total(Wakers, wakes') - wakes'[w]
        BY <2>4, <2>7, TotalRemove
      <4>3. Total(Wakers, wakes') \in Nat
        BY <2>4, <2>7, TotalFinite
      <4> QED BY <4>1, <4>2, <4>3, <2>2, <2>4, <2>8, <2>9, <1>1
    <3> QED BY <3>1, <3>2
  <2> QED BY <2>4, <2>6, <2>10
<1> QED BY <1>2, <1>3

\* A worker that stops waiting joins those about to look at the queue.
LEMMA SpuriousOwes ==
  ASSUME OrderInv, OrderInv', NEW w \in Workers, SpuriousWakeup(w)
  PROVE  WakesOwed' = WakesOwed /\ Cardinality(Awake) <= Cardinality(Awake')
<1>1. pc[w] = "asleep" /\ pc' = [pc EXCEPT ![w] = "lock"] /\ wakes' = wakes
  BY DEF SpuriousWakeup
<1>2. Wakers' = Wakers /\ Awake \subseteq Awake'
  BY <1>1 DEF Wakers, Awake, OrderInv, TypeOK
<1>3. /\ WakesOwed = Total(Wakers, wakes) /\ WakesOwed' = Total(Wakers', wakes')
      /\ IsFiniteSet(Awake')
  <2>1. CountFacts /\ CountFacts'
    BY Counts, PTL
  <2> QED BY <2>1 DEF CountFacts
<1> QED BY <1>1, <1>2, <1>3, FS_Subset

\* A claim takes one action off the queue and one worker from those about to look.
LEMMA ClaimOwes ==
  ASSUME OrderInv, NEW w \in Workers, ClaimNext(w)
  PROVE  /\ WakesOwed' = WakesOwed
         /\ Cardinality(Awake') = Cardinality(Awake) - 1
         /\ Cardinality(ready') = Cardinality(ready) - 1
<1>1. pc[w] = "lock" /\ pc' = [pc EXCEPT ![w] = "claimed"] /\ wakes' = wakes
  BY DEF ClaimNext
<1>2. Wakers' = Wakers /\ Awake' = Awake \ {w} /\ w \in Awake
  BY <1>1 DEF Wakers, Awake, OrderInv, TypeOK
<1>3. PICK a \in ready : ready' = ready \ {a}
  BY DEF ClaimNext, First, Claimable
<1>4. WakesOwed' = WakesOwed
  BY <1>1, <1>2 DEF WakesOwed, Wakers
<1> QED BY <1>2, <1>3, <1>4, Counts, FS_RemoveElement DEF CountFacts

LEMMA PoolInit == Init => PoolInv
<1> SUFFICES ASSUME Init PROVE PoolInv
  OBVIOUS
<1>1. Undecided = Scheduled
  BY DEF Init, Undecided, Scheduled
<1>2. \A w \in Workers : pc[w] = "lock"
  BY DEF Init
<1> QED BY <1>1, <1>2, BudgetInit DEF Init, PoolInv, NoLostWakeup, EndReachesAll

\* `pending` goes down with every published outcome, and with nothing else.
LEMMA PendingStep ==
  ASSUME PoolInv, [Next]_vars
  PROVE  pending' = Cardinality(Undecided')
<1>1. OrderInv /\ pending = Cardinality(Undecided)
  BY DEF PoolInv, BudgetInv
<1>2. ASSUME NEW w \in Workers, Publish(w) PROVE pending' = Cardinality(Undecided')
  <2>1. local[w] \in Undecided /\ Undecided' = Undecided \ {local[w]}
    BY <1>1, <1>2, PublishEffect
  <2>2. pending' = pending - 1
    BY <1>2, Zenon DEF Publish
  <2> QED BY <1>1, <2>1, <2>2, UndecidedFinite, FS_RemoveElement
<1>3. CASE ~ \E w \in Workers : Publish(w)
  <2>1. UNCHANGED <<outcomes, pending>>
    BY <1>3 DEF Next, WorkerStep, ReturnAborted, ClaimNext, ReturnOrWait, CheckUpstream, Body,
                NotifyAll, NotifyOne, SpuriousWakeup, Joined, vars, shared
  <2> QED BY <2>1, <1>1 DEF Undecided
<1> QED BY <1>2, <1>3

\* A worker finds nothing that fits only while another holds an action, or nothing
\* is queued.
LEMMA QueuedFits ==
  ASSUME BudgetInv, Claimable(ready, Admission) = {}, ready # {}
  PROVE  InFlight # {}
<1> SUFFICES ASSUME InFlight = {} PROVE FALSE
  OBVIOUS
<1>1. PICK a \in ready : TRUE
  OBVIOUS
<1>2. a \in Actions
  BY DEF BudgetInv, OrderInv, TypeOK, Scheduled
<1>3. Fits(Admission, a)
  BY <1>2, IdleFits DEF BudgetInv
<1> QED BY <1>3 DEF Claimable

LEMMA WakeupStep ==
  ASSUME PoolInv, [Next]_vars
  PROVE  NoLostWakeup'
<1>1. OrderInv /\ OrderInv' /\ BudgetInv /\ NoLostWakeup
  BY OrderStep DEF PoolInv, BudgetInv
<1>2. /\ Cardinality(ready) \in Nat /\ Cardinality(ready') \in Nat
      /\ Cardinality(Awake) \in Nat /\ Cardinality(Awake') \in Nat
      /\ WakesOwed \in Nat /\ WakesOwed' \in Nat
  <2>1. CountFacts /\ CountFacts'
    BY <1>1, Counts, PTL
  <2> QED BY <2>1 DEF CountFacts
<1>3. SUFFICES ASSUME \E v \in Workers : pc'[v] = "asleep", ready' # {},
                      \A v \in Workers : pc'[v] # "notify_all",
                      ~(resourceWaiting' /\ InFlight' # {})
               PROVE  Cardinality(ready') <= Cardinality(Awake') + WakesOwed'
  BY DEF NoLostWakeup
<1>4. ASSUME NEW w \in Workers, ClaimNext(w)
      PROVE  Cardinality(ready') <= Cardinality(Awake') + WakesOwed'
  <2>1. /\ \E v \in Workers : pc[v] = "asleep"
        /\ \A v \in Workers : pc[v] # "notify_all"
        /\ ready # {} /\ resourceWaiting' = resourceWaiting
    BY <1>3, <1>4, <1>1 DEF ClaimNext, OrderInv, TypeOK
  <2>2. InFlight \subseteq InFlight'
    BY <1>1, <1>4, ClaimEffect
  <2>3. Cardinality(ready) <= Cardinality(Awake) + WakesOwed
    BY <2>1, <2>2, <1>1, <1>3 DEF NoLostWakeup
  <2> QED BY <2>3, <1>1, <1>2, <1>4, ClaimOwes
<1>5. ASSUME NEW w \in Workers, ReturnOrWait(w)
      PROVE  FALSE
  <2>1. ready' = ready /\ resourceWaiting' /\ Claimable(ready, Admission) = {}
    BY <1>3, <1>5 DEF ReturnOrWait
  <2>2. InFlight' = InFlight
    BY <1>5 DEF ReturnOrWait, InFlight, Holders
  <2> QED BY <2>1, <2>2, <1>1, <1>3, QueuedFits
<1>6. ASSUME NEW w \in Workers, Publish(w)
      PROVE  Cardinality(ready') <= Cardinality(Awake') + WakesOwed'
  <2>1. PICK q : pc' = [pc EXCEPT ![w] = q] /\ q \in {"notify_all", "notify_one", "lock", "claimed"}
    BY <1>1, <1>6, PublishFacts DEF Resume
  <2>2. /\ pc[w] = "publish" /\ \A v \in Workers \ {w} : pc'[v] = pc[v]
        /\ pc'[w] \notin {"asleep", "notify_all"}
    BY <2>1, <1>1, <1>3, <1>6 DEF Publish, OrderInv, TypeOK
  <2>3. /\ \E v \in Workers : pc[v] = "asleep"
        /\ \A v \in Workers : pc[v] # "notify_all"
    BY <2>2, <1>3
  <2>4. /\ ~resourceWaiting
        /\ Cardinality(ready') + Cardinality(Awake) + WakesOwed
             <= Cardinality(ready) + Cardinality(Awake') + WakesOwed'
    BY <2>2, <1>1, <1>3, <1>6, PublishOwes
  <2>5. CASE ready = {}
    <3>1. Cardinality(ready) = 0
      BY <2>5, FS_EmptySet
    <3> QED BY <3>1, <2>4, <1>2
  <2>6. CASE ready # {}
    <3>1. Cardinality(ready) <= Cardinality(Awake) + WakesOwed
      BY <2>3, <2>4, <2>6, <1>1 DEF NoLostWakeup
    <3> QED BY <3>1, <2>4, <1>2
  <2> QED BY <2>5, <2>6
<1>7. ASSUME NEW w \in Workers, NotifyAll(w)
      PROVE  FALSE
  BY <1>1, <1>3, <1>7 DEF NotifyAll, OrderInv, TypeOK, Resume
<1>8. ASSUME NEW w \in Workers, NotifyOne(w) \/ SpuriousWakeup(w)
      PROVE  Cardinality(ready') <= Cardinality(Awake') + WakesOwed'
  <2>1. UNCHANGED <<ready, resourceWaiting, local>>
    BY <1>8 DEF NotifyOne, SpuriousWakeup, shared
  <2>2. InFlight' = InFlight
    BY <2>1 DEF InFlight, Holders
  <2>3. /\ \E v \in Workers : pc[v] = "asleep"
        /\ \A v \in Workers : pc[v] # "notify_all"
    BY <1>1, <1>3, <1>8 DEF NotifyOne, SpuriousWakeup, OrderInv, TypeOK, Resume
  <2>4. Cardinality(ready) <= Cardinality(Awake) + WakesOwed
    BY <2>1, <2>2, <2>3, <1>1, <1>3 DEF NoLostWakeup
  <2>5. Cardinality(Awake) + WakesOwed <= Cardinality(Awake') + WakesOwed'
    BY <1>1, <1>2, <1>3, <1>8, NotifyOneOwes, SpuriousOwes
  <2> QED BY <2>1, <2>4, <2>5, <1>2
<1>9. ASSUME NEW w \in Workers, CheckUpstream(w) \/ Body(w) \/ ReturnAborted(w)
      PROVE  Cardinality(ready') <= Cardinality(Awake') + WakesOwed'
  <2>1. UNCHANGED <<ready, resourceWaiting, local, wakes>>
    BY <1>9 DEF CheckUpstream, Body, ReturnAborted, shared
  <2>2. InFlight' = InFlight
    BY <2>1 DEF InFlight, Holders
  <2>3. CASE ReturnAborted(w)
    BY <2>1, <2>3, <1>3 DEF ReturnAborted
  <2>4. CASE CheckUpstream(w) \/ Body(w)
    <3>1. PICK q : /\ pc' = [pc EXCEPT ![w] = q] /\ q \in {"publish", "body"}
                   /\ pc[w] \in {"claimed", "body"}
      BY <2>4 DEF CheckUpstream, Body
    <3>2. pc'[w] = q /\ \A v \in Workers \ {w} : pc'[v] = pc[v]
      BY <3>1, <1>1 DEF OrderInv, TypeOK
    <3>3. /\ \E v \in Workers : pc[v] = "asleep"
          /\ \A v \in Workers : pc[v] # "notify_all"
      BY <3>1, <3>2, <1>3
    <3>4. Awake' = Awake /\ Wakers' = Wakers
      BY <3>1, <3>2 DEF Awake, Wakers
    <3>5. WakesOwed' = WakesOwed
      BY <3>4, <2>1 DEF WakesOwed, Wakers
    <3> QED BY <3>3, <3>4, <3>5, <2>1, <2>2, <1>1, <1>3 DEF NoLostWakeup
  <2> QED BY <2>3, <2>4, <1>9
<1>10. CASE UNCHANGED vars
  BY <1>10, <1>1, <1>3
     DEF vars, shared, NoLostWakeup, InFlight, Holders, Awake, WakesOwed
<1> QED BY <1>4, <1>5, <1>6, <1>7, <1>8, <1>9, <1>10 DEF Next, WorkerStep, Joined

LEMMA EndStep ==
  ASSUME PoolInv, [Next]_vars
  PROVE  EndReachesAll'
<1>1. OrderInv /\ OrderInv' /\ BudgetInv /\ EndReachesAll /\ pending = Cardinality(Undecided)
  BY OrderStep DEF PoolInv, BudgetInv
<1>2. pending = 0 <=> Undecided = {}
  BY <1>1, UndecidedFinite, FS_EmptySet
<1>3. ASSUME NEW w \in Workers, Publish(w)
      PROVE  EndReachesAll'
  <2>1. /\ local[w] \in Undecided /\ Undecided' = Undecided \ {local[w]}
        /\ ~abort' => ~abort
    BY <1>1, <1>3, PublishEffect
  <2>2. PICK q : pc' = [pc EXCEPT ![w] = q] /\ q \in {"notify_all", "notify_one", "lock", "claimed"}
    BY <1>1, <1>3, PublishFacts DEF Resume
  <2>3. pc'[w] = q /\ \A v \in Workers \ {w} : pc'[v] = pc[v]
    BY <2>2, <1>1 DEF OrderInv, TypeOK
  <2>4. ASSUME NEW v \in Workers, pc'[v] = "returned"
        PROVE  abort'
    BY <2>1, <2>2, <2>3, <2>4, <1>1 DEF EndReachesAll
  <2>5. CASE pc'[w] = "notify_all"
    BY <2>4, <2>5 DEF EndReachesAll
  <2>6. CASE ~abort' /\ pending # 1
    <3>1. Cardinality(Undecided') = Cardinality(Undecided) - 1
      BY <2>1, UndecidedFinite, FS_RemoveElement
    <3>2. Undecided' # {}
      BY <3>1, <2>6, <1>1, UndecidedFinite, FS_EmptySet
    <3> QED BY <3>2, <2>4, <2>6 DEF EndReachesAll
  <2> QED BY <2>5, <2>6, <1>1, <1>3, PublishOwes
<1>4. ASSUME NEW w \in Workers, ClaimNext(w)
      PROVE  EndReachesAll'
  <2>1. InFlight' # {}
    BY <1>1, <1>4, ClaimEffect
  <2>2. abort' = abort /\ Undecided' = Undecided
    BY <1>4 DEF ClaimNext, Undecided
  <2>3. \A v \in Workers : pc'[v] = "returned" => pc[v] = "returned"
    BY <1>1, <1>4 DEF ClaimNext, OrderInv, TypeOK
  <2> QED BY <2>1, <2>2, <2>3, <1>1 DEF EndReachesAll
<1>5. CASE ~ \E w \in Workers : ClaimNext(w) \/ Publish(w)
  <2>1. UNCHANGED <<outcomes, abort, ready, pending, local>>
    BY <1>5 DEF Next, WorkerStep, ReturnAborted, ReturnOrWait, CheckUpstream, Body,
                NotifyAll, NotifyOne, SpuriousWakeup, Joined, vars, shared
  <2>2. InFlight' = InFlight /\ Undecided' = Undecided
    BY <2>1 DEF InFlight, Holders, Undecided
  <2>3. ASSUME NEW w \in Workers, ReturnOrWait(w)
        PROVE  EndReachesAll'
    <3>1. PICK q : /\ pc' = [pc EXCEPT ![w] = q] /\ pc[w] = "lock"
                   /\ q = IF pending = 0 THEN "returned" ELSE "asleep"
      BY <2>3 DEF ReturnOrWait, EverythingDecided
    <3>2. pc'[w] = q /\ \A v \in Workers \ {w} : pc'[v] = pc[v]
      BY <3>1, <1>1 DEF OrderInv, TypeOK
    <3>3. ~abort
      BY <2>3, <1>1 DEF ReturnOrWait, OrderInv, AbortEmptiesQueue
    <3>4. CASE pending = 0
      BY <3>1, <3>2, <3>4, <2>1, <2>2, <1>1, <1>2 DEF EndReachesAll
    <3>5. CASE pending # 0
      BY <3>1, <3>2, <3>3, <3>5, <2>1, <2>2, <1>1, <1>2 DEF EndReachesAll
    <3> QED BY <3>4, <3>5
  <2>4. ASSUME NEW w \in Workers, ReturnAborted(w)
        PROVE  EndReachesAll'
    <3>1. abort /\ pc[w] = "lock" /\ pc'[w] = "returned" /\ \A v \in Workers \ {w} : pc'[v] = pc[v]
      BY <2>4, <1>1 DEF ReturnAborted, OrderInv, TypeOK
    <3> QED BY <3>1, <2>1, <2>2, <1>1 DEF EndReachesAll
  <2>5. ASSUME NEW w \in Workers, NotifyAll(w)
        PROVE  EndReachesAll'
    <3>1. \A v \in Workers : pc'[v] # "asleep" /\ (pc'[v] = "returned" => pc[v] = "returned")
      BY <2>5, <1>1 DEF NotifyAll, Resume, OrderInv, TypeOK
    <3> QED BY <3>1, <2>1, <2>2, <1>1 DEF EndReachesAll
  <2>6. ASSUME NEW w \in Workers,
               NotifyOne(w) \/ SpuriousWakeup(w) \/ CheckUpstream(w) \/ Body(w)
        PROVE  EndReachesAll'
    <3>1. \A v \in Workers : /\ pc'[v] = "asleep" => pc[v] = "asleep"
                             /\ pc'[v] = "returned" => pc[v] = "returned"
                             /\ pc[v] = "notify_all" => pc'[v] = "notify_all"
      BY <2>6, <1>1 DEF NotifyOne, SpuriousWakeup, CheckUpstream, Body, Resume, OrderInv, TypeOK
    <3> QED BY <3>1, <2>1, <2>2, <1>1 DEF EndReachesAll
  <2>7. CASE UNCHANGED vars
    BY <2>1, <2>2, <2>7, <1>1 DEF vars, EndReachesAll
  <2> QED BY <2>3, <2>4, <2>5, <2>6, <2>7, <1>5 DEF Next, WorkerStep, Joined
<1> QED BY <1>3, <1>4, <1>5

\* For any graph, demands and workers: the counters say exactly what is in flight
\* and undecided, no queued action waits for a wakeup nobody owes, and the end of a
\* build reaches every worker.
THEOREM PoolAlwaysAgrees == Spec => []PoolAgrees
<1>1. PoolInv /\ [Next]_vars => PoolInv'
  <2>1. PoolInv /\ [Next]_vars => BudgetInv'
    BY BudgetStep DEF PoolInv
  <2> QED BY <2>1, PendingStep, WakeupStep, EndStep DEF PoolInv
<1>2. PoolInv => PoolAgrees
  <2> SUFFICES ASSUME PoolInv PROVE PoolAgrees
    OBVIOUS
  <2>1. ReservationsExact
    BY DEF PoolInv, BudgetInv, Accounts, Admission, ReservationsExact
  <2>2. CountersExact
    BY DEF PoolInv, BudgetInv, OrderInv, WaitingExact, CountersExact
  <2> QED BY <2>1, <2>2 DEF PoolInv, PoolAgrees
<1> QED BY <1>1, <1>2, PoolInit, PTL DEF Spec

-----------------------------------------------------------------------------
(***************************************************************************)
(* Every step of the worker pool is a step of BuildOrder or a stutter: a    *)
(* claim starts an action, a completion finishes one and perhaps starts its *)
(* continuation, and all else is invisible.                                 *)
(***************************************************************************)

RefineInv == BudgetInv /\ FailureInv

LEMMA RefineInvariant == Spec => []RefineInv
  BY BudgetInit, BudgetStep, FailureInit, FailureStep, PTL DEF Spec, RefineInv

\* What admission lets in beside the actions S may start beside them.
LEMMA FittingMayStart ==
  ASSUME NEW r, NEW S \in SUBSET Actions, Accounts(r, S), NEW a \in Actions, Fits(r, a)
  PROVE  S # {} => a \notin Exclusive /\ S \cap Exclusive = {}
<1>1. S # {} => r.running # 0
  BY SubsetsFinite, FS_EmptySet DEF Accounts
<1> QED BY <1>1 DEF Fits, Accounts

LEMMA RefineInit == Init => Order!Init
<1> SUFFICES ASSUME Init PROVE Order!Init
  OBVIOUS
<1>1. InFlight = {}
  BY DEF Init, InFlight, Holders
<1> QED BY <1>1 DEF Init, Order!Init

LEMMA ClaimStarts ==
  ASSUME RefineInv, OrderInv', NEW w \in Workers, ClaimNext(w)
  PROVE  Order!Start
<1>1. OrderInv /\ InFlight \in SUBSET Actions
  BY InFlightActions DEF RefineInv, BudgetInv
<1>2. PICK a \in Scheduled :
        /\ a \notin InFlight
        /\ Fits(Admission, a)
        /\ InFlight' = InFlight \cup {a}
  BY <1>1, ClaimEffect
<1>3. UNCHANGED <<outcomes, abort>> /\ ~abort
  BY <1>1 DEF ClaimNext, OrderInv, AbortEmptiesQueue
<1>4. outcomes'[a] = None /\ \A p \in Producers[a] : outcomes'[p] # None
  BY <1>2 DEF OrderInv, ClaimedOnce, ProducersFirst, Undecided
<1>5. InFlight # {} => a \notin Exclusive /\ InFlight \cap Exclusive = {}
  BY <1>1, <1>2, FittingMayStart DEF RefineInv, BudgetInv, Scheduled
<1>6. Order!MayStart(a, InFlight, outcomes)
  BY <1>2, <1>3, <1>4, <1>5 DEF Order!MayStart, Scheduled
<1> QED BY <1>2, <1>3, <1>6 DEF Order!Start, Scheduled

LEMMA PublishFinishes ==
  ASSUME RefineInv, OrderInv', NEW w \in Workers, Publish(w)
  PROVE  Order!Finish
<1> DEFINE a == local[w]
           o == result[w]
           rest == InFlight \ {a}
<1>1. OrderInv /\ FailureInv /\ InFlight \in SUBSET Actions /\ Accounts(Admission, InFlight)
  BY InFlightActions DEF RefineInv, BudgetInv
<1>2. PICK n \in Scheduled \cup {None} :
        /\ a \in InFlight /\ n \notin InFlight
        /\ outcomes' = [outcomes EXCEPT ![a] = o]
        /\ n # None => Fits(Release(Admission, a), n)
        /\ InFlight' = rest \cup ({n} \ {None})
  BY <1>1, PublishEffect
<1>3. o \in Order!Verdicts /\ Order!Follows(a, o)
  <2>1. o \in Outcomes /\ Allowed(a, o)
    BY <1>1 DEF Publish, FailureInv, OrderInv, TypeOK, HoldersPlaced
  <2>2. o \in Order!Verdicts
    BY <2>1 DEF Outcomes, Bad, Dirty, Order!Verdicts
  <2> QED BY <2>1, <2>2 DEF Allowed, Bad, Dirty, Order!Follows
<1>4. abort' = (abort \/ (o = "failed" /\ ~KeepGoing))
  BY <1>1, PublishFacts
<1>5. ASSUME n # None
      PROVE  ~abort' /\ n \in Actions /\ Order!MayStart(n, rest, outcomes')
  <2>1. n \in InFlight' /\ n \in Scheduled /\ n \in Actions /\ n \notin rest
    BY <1>2, <1>5 DEF Scheduled
  <2>2. outcomes'[n] = None /\ \A p \in Producers[n] : outcomes'[p] # None
    BY <2>1 DEF OrderInv, ClaimedOnce, ProducersFirst, Undecided
  <2>3. ~abort'
    <3>1. PICK m : (abort' => m = None) /\ local' = [local EXCEPT ![w] = m]
      BY <1>1, PublishFacts
    <3>2. PICK v \in Workers : local'[v] = n
      BY <2>1 DEF InFlight, Holders
    <3>3. v = w
      BY <3>1, <3>2, <1>1, <1>2, <1>5 DEF OrderInv, TypeOK, InFlight, Holders
    <3> QED BY <3>1, <3>2, <3>3, <1>1, <1>5 DEF OrderInv, TypeOK
  <2>4. Accounts(Release(Admission, a), rest) /\ rest \in SUBSET Actions
    BY <1>1, <1>2, ReleaseAccounts
  <2>5. rest # {} => n \notin Exclusive /\ rest \cap Exclusive = {}
    <3> HIDE DEF rest, a
    <3> QED BY <2>1, <2>4, <1>2, <1>5, FittingMayStart
  <2> QED BY <2>1, <2>2, <2>3, <2>5 DEF Order!MayStart, Scheduled
<1>6. \/ InFlight' = rest
      \/ /\ ~abort'
         /\ \E b \in Actions : Order!MayStart(b, rest, outcomes') /\ InFlight' = rest \cup {b}
  <2>1. CASE n = None
    BY <1>2, <2>1
  <2>2. CASE n # None
    BY <1>2, <1>5, <2>2
  <2> QED BY <2>1, <2>2
<1> QED BY <1>2, <1>3, <1>4, <1>6 DEF Order!Finish

\* The worker pool implements the order a build promises.
THEOREM PoolImplementsBuildOrder == Spec => ImplementsBuildOrder
<1>1. RefineInv /\ RefineInv' /\ [Next]_vars => [Order!Next]_(Order!vars)
  <2> SUFFICES ASSUME RefineInv, RefineInv', [Next]_vars
               PROVE  Order!Next \/ UNCHANGED <<InFlight, outcomes, abort>>
    BY DEF Order!vars
  <2>1. OrderInv'
    BY DEF RefineInv, BudgetInv
  <2>2. ASSUME NEW w \in Workers, ClaimNext(w) PROVE Order!Next
    BY <2>1, <2>2, ClaimStarts DEF Order!Next
  <2>3. ASSUME NEW w \in Workers, Publish(w) PROVE Order!Next
    BY <2>1, <2>3, PublishFinishes DEF Order!Next
  <2>4. CASE ~ \E w \in Workers : ClaimNext(w) \/ Publish(w)
    <3>1. UNCHANGED <<outcomes, abort>>
      BY <2>4 DEF Next, WorkerStep, ReturnAborted, ReturnOrWait, CheckUpstream, Body,
                  NotifyAll, NotifyOne, SpuriousWakeup, Joined, vars, shared
    <3> QED BY <3>1, <2>4, AdmissionQuiet DEF RefineInv, BudgetInv
  <2> QED BY <2>2, <2>3, <2>4
<1> QED BY <1>1, RefineInit, RefineInvariant, PTL DEF Spec, ImplementsBuildOrder, Order!Spec
=============================================================================

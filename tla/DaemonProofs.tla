---------------------------- MODULE DaemonProofs ----------------------------
(***************************************************************************)
(* What frostd answers and remembers, proved for every set of files, graph  *)
(* sources, closures, identities and environments: HitsAreTrue and          *)
(* RejectionIsOfWhatWasRead.  DaemonInv is the inductive invariant; its     *)
(* parts speak of one mechanism each: the numbering of the markers, the     *)
(* remembered no-op, the request being served, the proof between its two    *)
(* checks, the graph's sources, the validation between its two barriers,    *)
(* and the rejection.                                                       *)
(***************************************************************************)
EXTENDS Daemon, TLAPS

\* The place the request will be at when it has what it waits for.
Stage == IF pc \in {"barrier", "write_marker", "await"} THEN back ELSE pc

Proving == {"check_proof", "check_proof_toolchain", "remember"}
Checked == {"scan", "accepted", "install"}
Validating == {"check_graph", "check_toolchain"} \cup Checked

\* The queue holds the marker last written at most once, and not after it was seen.
MarkersInv ==
  /\ barrierSeen <= nextBarrier /\ baseline <= epoch
  /\ \A i \in 1 .. Len(events) : events[i].kind = "barrier" =>
       /\ events[i].id <= nextBarrier
       /\ events[i].id = nextBarrier =>
            /\ events[i] = Marker(nextBarrier) /\ barrierSeen < nextBarrier
            /\ pc # "write_marker"
            /\ \A j \in 1 .. Len(events) : events[j] = events[i] => i = j
  /\ pc = "write_marker" => barrierSeen < nextBarrier

MemoryInv ==
  /\ MemoryTracksWorkspace
  /\ cachedNoop # None => Watchable(cachedNoop)

\* Places before the first barrier of a validation.
Early == {"idle", "try_cached", "remember", "check_proof", "check_proof_toolchain", "read_stamp",
          "known_stale"}

\* Whoever proves or validates does so for a claim about the client's environment,
\* and only the proof waits for a barrier before the validation begins.
BasisInv ==
  /\ Stage \in Proving \cup Validating => basis # None /\ basis.env = request
  /\ pc \in Early => back = "remember"

\* While a request is served its answer is open, and an instant at which the claim
\* holds does not go unnoticed.
RequestInv ==
  /\ pc # "idle" => answer = "none"
  /\ pc # "idle" => (True(basis) => wasCurrent) /\ Holding(basis) \subseteq held
  /\ Stage \in Proving /\ cachedNoop # None => cachedNoop = basis
  /\ HitWasCurrent /\ HitForThisClient

\* A change that will be delivered before the barrier is passed.
Unsettled ==
  \E i \in 1 .. Len(events) :
    /\ events[i].kind = "change"
    /\ pc = "await" => \E j \in i + 1 .. Len(events) : events[j] = Marker(nextBarrier)

ProofInv ==
  Stage = "remember" =>
    \/ wasCurrent \/ missed \/ cachedNoop = None
    \/ pc # "remember" /\ Unsettled

\* The sources compared with the claim so far.
Compared == IF Stage = "check_graph" THEN Sources \ unchecked ELSE Sources

\* Each was as claimed at some instant; one in the watcher's sight still is, or its
\* change is on its way, or the epoch has moved.
GraphInv ==
  Stage \in Validating =>
    /\ Stage = "check_toolchain" => unchecked = {}
    /\ Compared \subseteq held
    /\ ~missed => \A m \in Compared \ Unwatched :
                    SourceHolds(m) \/ Pending(m) \/ epoch # baseline

Mismatch(f) == disk[f] # basis.files[f]

\* A stat behind a change in the workspace is not the last word: the change is on its
\* way, or the epoch has moved, and whoever installs the claim looks at both.
Covered ==
  /\ unchecked \subseteq DOMAIN basis.files
  /\ Stage # "scan" => unchecked = {}
  /\ \A f \in DOMAIN basis.files \ unchecked : Mismatch(f) => Pending(f) \/ epoch # baseline
  /\ \/ wasCurrent
     \/ epoch # baseline
     \/ pc # "install" /\ Unsettled
     \/ pc = "install" /\ ~stable
     \/ \E f \in unchecked : Mismatch(f)

ValidInv == Stage \in Checked /\ Watchable(basis) /\ ~missed => Covered

RejectionInv ==
  /\ cert # None => cert.stamp <= changes
  /\ stamp # None => stamp <= changes
  /\ pc \in {"check_graph", "check_toolchain", "scan", "rejected"} /\ stamp # None /\ StampNow = stamp
       /\ cert.claim.env = request => basis = cert.claim

DaemonInv ==
  /\ TypeOK /\ MarkersInv /\ MemoryInv /\ BasisInv /\ RequestInv
  /\ ProofInv /\ GraphInv /\ ValidInv /\ RejectionInv

-----------------------------------------------------------------------------
(* The event queue.                                                         *)

\* The three kinds of event the queue is given are events.
LEMMA EventTypes ==
  ASSUME NEW n \in Nat, NEW p \in Paths
  PROVE  /\ Change(p) \in Events /\ Marker(n) \in Events
         /\ Failure \in Events /\ Rescan \in Events
BY DEF Change, Marker, Failure, Rescan, Events

\* An event joins the queue at its end and moves none of the others.
LEMMA QueueGrows ==
  ASSUME NEW q \in Seq(Events), NEW e \in Events
  PROVE  /\ Append(q, e) \in Seq(Events)
         /\ Len(q) \in Nat /\ Len(Append(q, e)) = Len(q) + 1
         /\ \A i \in 1 .. Len(q) : Append(q, e)[i] = q[i]
         /\ Append(q, e)[Len(q) + 1] = e
OBVIOUS

\* Taking the first event moves every other one place forward.
LEMMA QueueShrinks ==
  ASSUME NEW q \in Seq(Events), q # <<>>
  PROVE  /\ Tail(q) \in Seq(Events) /\ Head(q) \in Events /\ Head(q) = q[1]
         /\ Len(q) \in Nat \ {0} /\ Len(Tail(q)) = Len(q) - 1
         /\ \A i \in 1 .. Len(q) - 1 : Tail(q)[i] = q[i + 1]
OBVIOUS

\* A certificate's claim covers every source and known files, with an identity for each.
LEMMA ClaimTypes ==
  ASSUME NEW c \in Claims
  PROVE  /\ c # None /\ c.env \in Envs /\ c.toolchain \in Identities
         /\ DOMAIN c.files \subseteq Files
         /\ \A f \in DOMAIN c.files : c.files[f] \in Identities
         /\ c.graph \in [Sources -> Identities]
<1>1. /\ c.files \in Evidence /\ c.env \in Envs /\ c.toolchain \in Identities
      /\ c.graph \in [Sources -> Identities]
  BY DEF Claims
<1>2. PICK S \in Closures : c.files \in [S -> Identities]
  BY <1>1 DEF Evidence
<1>3. S \subseteq Files
  BY DaemonAssumption
<1>. QED
  BY <1>1, <1>2, <1>3, DaemonNoneAssumption

-----------------------------------------------------------------------------
(* Types.  The flags apart: the provers handle them differently.            *)

FlagTypes ==
  /\ trusted \in BOOLEAN /\ ready \in BOOLEAN /\ stable \in BOOLEAN
  /\ wasCurrent \in BOOLEAN /\ missed \in BOOLEAN

DataTypes ==
  /\ disk \in [Files \cup Sources -> Identities] /\ toolchain \in Identities
  /\ cert \in [claim : Claims, stamp : Nat] \cup {None}
  /\ events \in Seq(Events) /\ changes \in Nat
  /\ dirty \subseteq Paths \cup {None} /\ epoch \in Nat
  /\ nextBarrier \in Nat /\ barrierSeen \in Nat
  /\ cachedNoop \in Claims \cup {None}
  /\ stale \in [env : Envs, stamp : Nat] \cup {None}
  /\ pc \in Places /\ request \in Envs /\ served \in Nat
  /\ basis \in Claims \cup {None} /\ stamp \in Nat \cup {None}
  /\ unchecked \subseteq Files \cup Sources /\ held \subseteq Sources
  /\ back \in {"remember", "baseline", "install", "settle"}
  /\ baseline \in Nat /\ answer \in Answers

\* Together they are the type invariant.
LEMMA TypesSplit == TypeOK <=> DataTypes /\ FlagTypes
BY DEF TypeOK, DataTypes, FlagTypes

\* The certificate a build writes is a claim about the files of its closure.
LEMMA NewClaim ==
  ASSUME DataTypes, NEW e \in Envs, NEW S \in Closures
  PROVE  [env |-> e, graph |-> [m \in Sources |-> disk[m]], files |-> [f \in S |-> disk[f]],
          toolchain |-> toolchain] \in Claims
<1>1. S \subseteq Files
  BY DaemonAssumption
<1>2. [f \in S |-> disk[f]] \in [S -> Identities]
  BY <1>1 DEF DataTypes
<1>3. [f \in S |-> disk[f]] \in Evidence
  BY <1>2 DEF Evidence
<1>4. [m \in Sources |-> disk[m]] \in [Sources -> Identities]
  BY DEF DataTypes
<1>. QED
  BY <1>3, <1>4 DEF DataTypes, Claims

\* The daemon starts well typed.
LEMMA TypeInit == Init => TypeOK
<1>1. Init => DataTypes
  BY DEF Init, DataTypes, Places, Answers
<1>2. Init => FlagTypes
  BY DEF Init, FlagTypes
<1>. QED
  BY <1>1, <1>2, TypesSplit

\* Every step keeps the types of the data.
LEMMA DataStep == DataTypes /\ BasisInv /\ [Next]_vars => DataTypes'
<1>. SUFFICES ASSUME DataTypes, BasisInv, [Next]_vars
              PROVE  DataTypes'
  OBVIOUS
<1>. USE DEF vars, workspace, barriers, memory, daemon, scratch, locals, history
<1>1. ASSUME NEW f \in Files \cup Sources, Edit(f)
      PROVE  DataTypes'
  <2>1. Change(f) \in Events /\ Rescan \in Events
    BY EventTypes DEF Paths
  <2>2. events' \in Seq(Events)
    <3>1. events \in Seq(Events)
      BY DEF DataTypes
    <3>. QED
      BY <1>1, <2>1, <3>1, QueueGrows DEF Edit, Enqueue
  <2>3. disk' \in [Files \cup Sources -> Identities] /\ changes' \in Nat
    BY <1>1, DaemonAssumption DEF Edit, DataTypes
  <2>4. held' \subseteq Sources
    BY <1>1 DEF Edit, Witnessed, Holding, DataTypes
  <2>. QED
    BY <1>1, <2>2, <2>3, <2>4 DEF Edit, DataTypes
<1>2. CASE SwitchToolchain
  <2>1. held' \subseteq Sources
    BY <1>2 DEF SwitchToolchain, Witnessed, Holding, DataTypes
  <2>. QED
    BY <1>2, <2>1 DEF SwitchToolchain, DataTypes
<1>3. ASSUME NEW e \in Envs, WriteCertificate(e)
      PROVE  DataTypes'
  <2>1. events' \in Seq(Events)
    BY <1>3, EventTypes, QueueGrows DEF WriteCertificate, Enqueue, DataTypes, Paths
  <2>2. changes' \in Nat
    BY <1>3 DEF WriteCertificate, DataTypes
  <2>3. cert' \in [claim : Claims, stamp : Nat]
    BY <1>3, <2>2, NewClaim DEF WriteCertificate
  <2>. QED
    BY <1>3, <2>1, <2>2, <2>3 DEF WriteCertificate, DataTypes
<1>4. CASE WatchFails
  <2>1. events \in Seq(Events) /\ Failure \in Events
    BY EventTypes DEF DataTypes, Paths
  <2>2. events' \in Seq(Events)
    BY <1>4, <2>1, QueueGrows DEF WatchFails, Enqueue
  <2>. QED
    BY <1>4, <2>2 DEF WatchFails, DataTypes
<1>5. CASE Deliver
  <2>1. events' \in Seq(Events) /\ Head(events) \in Events
    BY <1>5, QueueShrinks DEF Deliver, DataTypes
  <2>2. Head(events).path \in Paths \cup {None} /\ Head(events).id \in Nat
    BY <2>1 DEF Events
  <2>. QED
    BY <1>5, <2>1, <2>2
    DEF Deliver, AfterChange, AfterMarker, AfterFailure, AfterRescan, DataTypes
<1>6. CASE Receive
  BY <1>6 DEF Receive, DataTypes, Places, Answers
<1>7. CASE Serve
  <2>. USE DEF Answered
  <2>1. CASE TryCached \/ CheckProof
    BY <2>1 DEF TryCached, CheckProof, DropProof, Holding, DataTypes, Places
  <2>2. CASE CheckProofToolchain \/ Remember
    BY <2>2 DEF CheckProofToolchain, DropProof, Unreadable, Remember, DataTypes, Places, Answers
  <2>3. CASE ReadStamp \/ KnownStale \/ TakeBaseline
    BY <2>3 DEF ReadStamp, StampNow, KnownStale, TakeBaseline, DataTypes, Places
  <2>4. CASE ReadCertificate \/ CheckGraph
    BY <2>4 DEF ReadCertificate, CheckGraph, Holding, DataTypes, Places
  <2>5. CASE CheckToolchain
    <3>1. DOMAIN basis.files \subseteq Files
      BY <2>5, ClaimTypes DEF CheckToolchain, BasisInv, Stage, Validating, Checked, DataTypes
    <3>. QED
      BY <2>5, <3>1 DEF CheckToolchain, Unreadable, DataTypes, Places, Answers
  <2>6. CASE Scan \/ Reject \/ Accept
    BY <2>6 DEF Scan, Reject, SameCertificate, Accept, DataTypes, Places
  <2>7. CASE Install
    BY <2>7 DEF Install, ProofFor, DataTypes, Places, Answers
  <2>8. CASE Child \/ Settle
    BY <2>8 DEF Child, Settle, DataTypes, Places, Answers
  <2>9. CASE StartBarrier
    <3>1. pc' \in {"read_stamp", back, "write_marker"}
      BY <2>9 DEF StartBarrier, Return
    <3>2. pc' \in Places
      BY <3>1 DEF DataTypes, Places
    <3>4. nextBarrier' = nextBarrier \/ nextBarrier' = nextBarrier + 1
      BY <2>9 DEF StartBarrier
    <3>5. nextBarrier' \in Nat
      BY <3>4 DEF DataTypes
    <3>3. UNCHANGED <<workspace, events, dirty, epoch, barrierSeen, memory, request, served,
                      basis, stamp, unchecked, back, baseline, answer, held>>
      BY <2>9 DEF StartBarrier
    <3>. QED
      BY <3>2, <3>3, <3>5 DEF DataTypes
  <2>10. CASE BarrierPasses \/ BarrierGivesUp
    BY <2>10 DEF BarrierPasses, BarrierGivesUp, Return, Distrust, DataTypes, Places
  <2>11. CASE WriteMarker
    <3>1. events \in Seq(Events) /\ Marker(nextBarrier) \in Events
      BY EventTypes DEF DataTypes, Paths
    <3>2. events' \in Seq(Events)
      BY <2>11, <3>1, QueueGrows DEF WriteMarker, Enqueue
    <3>3. pc' \in Places
      BY <2>11 DEF WriteMarker, Return, DataTypes, Places
    <3>4. cachedNoop' \in Claims \cup {None}
      BY <2>11 DEF WriteMarker, Distrust, DataTypes
    <3>. QED
      BY <2>11, <3>2, <3>3, <3>4 DEF WriteMarker, DataTypes
  <2>. QED
    BY <1>7, <2>1, <2>2, <2>3, <2>4, <2>5, <2>6, <2>7, <2>8, <2>9, <2>10,
       <2>11 DEF Serve
<1>8. CASE UNCHANGED vars
  BY <1>8 DEF DataTypes
<1>. QED
  BY <1>1, <1>2, <1>3, <1>4, <1>5, <1>6, <1>7, <1>8 DEF Next

\* Every step keeps the flags.
LEMMA FlagStep == FlagTypes /\ [Next]_vars => FlagTypes'
<1>. SUFFICES ASSUME FlagTypes, [Next]_vars
              PROVE  FlagTypes'
  OBVIOUS
<1>. USE DEF vars, workspace, barriers, memory, daemon, scratch, locals, history, Answered, Witnessed, True
<1>1. ASSUME NEW f \in Files \cup Sources, Edit(f)
      PROVE  FlagTypes'
  BY <1>1 DEF Edit, FlagTypes
<1>2. CASE SwitchToolchain
  BY <1>2 DEF SwitchToolchain, FlagTypes
<1>3. ASSUME NEW e \in Envs, WriteCertificate(e)
      PROVE  FlagTypes'
  BY <1>3 DEF WriteCertificate, FlagTypes
<1>4. CASE WatchFails \/ Receive
  BY <1>4 DEF WatchFails, Receive, FlagTypes
<1>5. CASE Deliver
  BY <1>5 DEF Deliver, AfterChange, AfterMarker, AfterFailure, AfterRescan, FlagTypes
<1>6. CASE Serve
  <2>1. CASE TryCached \/ CheckProof \/ CheckProofToolchain \/ Remember
    BY <2>1 DEF TryCached, CheckProof, DropProof, CheckProofToolchain, Unreadable, Remember,
                FlagTypes
  <2>2. CASE ReadStamp \/ KnownStale \/ TakeBaseline \/ ReadCertificate \/ CheckGraph
           \/ CheckToolchain
    BY <2>2 DEF ReadStamp, KnownStale, TakeBaseline, ReadCertificate, CheckGraph, CheckToolchain, Unreadable,
                FlagTypes
  <2>3. CASE Scan \/ Reject \/ Accept \/ Install \/ Child \/ Settle
    BY <2>3 DEF Scan, Reject, Accept, Install, Child, Settle, FlagTypes
  <2>4. CASE StartBarrier \/ WriteMarker \/ BarrierPasses \/ BarrierGivesUp
    BY <2>4 DEF StartBarrier, WriteMarker, BarrierPasses, BarrierGivesUp, Return, Distrust,
                FlagTypes
  <2>. QED
    BY <1>6, <2>1, <2>2, <2>3, <2>4 DEF Serve
<1>7. CASE UNCHANGED vars
  BY <1>7 DEF FlagTypes
<1>. QED
  BY <1>1, <1>2, <1>3, <1>4, <1>5, <1>6, <1>7 DEF Next

\* Every step keeps the types.
LEMMA TypeStep == TypeOK /\ BasisInv /\ [Next]_vars => TypeOK'
BY TypesSplit, DataStep, FlagStep, PTL

-----------------------------------------------------------------------------
(* The claim the request rests on.                                          *)

\* It stays the claim of this client while it is being proved or validated.
LEMMA BasisStep == DataTypes /\ BasisInv /\ [Next]_vars => BasisInv'
<1>. SUFFICES ASSUME DataTypes, BasisInv, [Next]_vars
              PROVE  BasisInv'
  OBVIOUS
<1>. USE DEF vars, workspace, barriers, memory, daemon, scratch, locals, history, Answered, Stage, Proving,
             Validating, Checked, Early, BasisInv
<1>1. ASSUME NEW f \in Files \cup Sources, Edit(f)
      PROVE  BasisInv'
  BY <1>1 DEF Edit
<1>2. CASE SwitchToolchain
  BY <1>2 DEF SwitchToolchain
<1>3. ASSUME NEW e \in Envs, WriteCertificate(e)
      PROVE  BasisInv'
  BY <1>3 DEF WriteCertificate
<1>4. CASE WatchFails \/ Receive
  BY <1>4 DEF WatchFails, Receive
<1>5. CASE Deliver
  BY <1>5 DEF Deliver
<1>6. CASE Serve
  <2>1. CASE TryCached \/ CheckProof
    BY <2>1 DEF TryCached, Matches, CheckProof, DropProof
  <2>2. CASE CheckProofToolchain \/ Remember
    BY <2>2 DEF CheckProofToolchain, DropProof, Unreadable, Remember
  <2>3. CASE ReadStamp \/ KnownStale \/ TakeBaseline
    BY <2>3 DEF ReadStamp, KnownStale, TakeBaseline
  <2>4. CASE ReadCertificate \/ CheckGraph
    BY <2>4, ClaimTypes DEF ReadCertificate, CheckGraph, DataTypes
  <2>5. CASE CheckToolchain \/ Scan \/ Reject \/ Accept
    BY <2>5 DEF CheckToolchain, Unreadable, Scan, Reject, Accept
  <2>6. CASE Install \/ Child \/ Settle
    BY <2>6 DEF Install, Child, Settle
  <2>7. CASE StartBarrier \/ WriteMarker \/ BarrierPasses \/ BarrierGivesUp
    <3>1. back \in {"remember", "baseline", "install", "settle"}
      BY DEF DataTypes
    <3>. QED
      BY <2>7, <3>1 DEF StartBarrier, WriteMarker, BarrierPasses, BarrierGivesUp, Return
  <2>. QED
    BY <1>6, <2>1, <2>2, <2>3, <2>4, <2>5, <2>6, <2>7 DEF Serve
<1>7. CASE UNCHANGED vars
  BY <1>7
<1>. QED
  BY <1>1, <1>2, <1>3, <1>4, <1>5, <1>6, <1>7 DEF Next

-----------------------------------------------------------------------------
(* The numbering of the markers.                                            *)

\* What the queue needs to keep for MarkersInv: itself, the counters and the place.
LEMMA MarkersKept ==
  ASSUME MarkersInv, UNCHANGED <<events, nextBarrier, barrierSeen>>,
         pc' = "write_marker" => pc = "write_marker", baseline' <= epoch'
  PROVE  MarkersInv'
BY DEF MarkersInv, Marker

\* An event that is no marker may join the queue.
LEMMA MarkersGrow ==
  ASSUME DataTypes, MarkersInv, NEW e \in Events, e.kind # "barrier",
         events' = Append(events, e), UNCHANGED <<nextBarrier, barrierSeen, pc, baseline, epoch>>
  PROVE  MarkersInv'
<1>1. /\ Len(events) \in Nat /\ Len(events') = Len(events) + 1
      /\ \A i \in 1 .. Len(events) : events'[i] = events[i]
      /\ events'[Len(events) + 1] = e
  BY QueueGrows DEF DataTypes
<1>2. \A i \in 1 .. Len(events') : events'[i].kind = "barrier" =>
        i \in 1 .. Len(events) /\ events'[i] = events[i]
  BY <1>1
<1>. QED
  BY <1>1, <1>2 DEF MarkersInv, Marker

\* No step writes a second marker of the current number, or one not yet handed out.
LEMMA MarkersStep == DataTypes /\ MarkersInv /\ [Next]_vars => MarkersInv'
<1>. SUFFICES ASSUME DataTypes, MarkersInv, [Next]_vars
              PROVE  MarkersInv'
  OBVIOUS
<1>. USE DEF vars, workspace, barriers, memory, daemon, scratch, locals, history
<1>0. baseline <= epoch /\ baseline \in Nat /\ epoch \in Nat /\ nextBarrier \in Nat
  BY DEF MarkersInv, DataTypes
<1>. DEFINE Numbered == \A i \in 1 .. Len(events) : events[i].id \in Nat
<1>9. Numbered
  <2>1. events \in Seq(Events)
    BY DEF DataTypes
  <2>2. \A i \in 1 .. Len(events) : events[i] \in Events
    BY <2>1
  <2>. QED
    BY <2>2 DEF Events
<1>1. ASSUME NEW f \in Files \cup Sources, Edit(f)
      PROVE  MarkersInv'
  <2>1. CASE UNCHANGED events
    BY <1>0, <1>1, <2>1, MarkersKept DEF Edit
  <2>2. CASE Enqueue(Change(f))
    BY <1>1, <2>2, MarkersGrow, EventTypes DEF Edit, Enqueue, Change, Paths
  <2>3. CASE Enqueue(Rescan)
    BY <1>1, <2>3, MarkersGrow, EventTypes DEF Edit, Enqueue, Rescan, Paths
  <2>. QED
    BY <1>1, <2>1, <2>2, <2>3 DEF Edit
<1>2. CASE SwitchToolchain
  BY <1>0, <1>2, MarkersKept DEF SwitchToolchain
<1>3. ASSUME NEW e \in Envs, WriteCertificate(e)
      PROVE  MarkersInv'
  BY <1>3, MarkersGrow, EventTypes DEF WriteCertificate, Enqueue, Change, Paths
<1>4. CASE WatchFails
  BY <1>4, MarkersGrow, EventTypes DEF WatchFails, Enqueue, Failure, Paths
<1>5. CASE Deliver
  <2>1. /\ Head(events) = events[1]
        /\ Len(events) \in Nat \ {0} /\ Len(events') = Len(events) - 1
        /\ \A i \in 1 .. Len(events') : events'[i] = events[i + 1]
    BY <1>5, QueueShrinks DEF Deliver, DataTypes
  <2>2. \A i \in 1 .. Len(events') : i + 1 \in 1 .. Len(events) /\ i + 1 # 1
    BY <2>1
  <2>3. 1 \in 1 .. Len(events)
    BY <2>1
  <2>4. baseline' <= epoch'
    BY <1>0, <1>5 DEF Deliver, AfterChange, AfterMarker, AfterFailure, AfterRescan
  <2>5. CASE Head(events).kind # "barrier"
    <3>1. UNCHANGED <<nextBarrier, barrierSeen, pc>>
      BY <1>5, <2>5 DEF Deliver, AfterChange, AfterFailure, AfterRescan
    <3>2. \A i, j \in 1 .. Len(events') : events'[j] = events'[i] /\ i # j =>
             i + 1 # j + 1 /\ events[j + 1] = events[i + 1]
      BY <2>1
    <3>. QED
      BY <2>1, <2>2, <2>4, <3>1, <3>2 DEF MarkersInv, Marker
  <2>6. CASE Head(events).kind = "barrier"
    <3>1. UNCHANGED <<nextBarrier, pc>>
      BY <1>5 DEF Deliver
    <3>2. barrierSeen' = IF events[1].id > barrierSeen THEN events[1].id ELSE barrierSeen
      BY <1>5, <2>1, <2>6 DEF Deliver, AfterMarker
    <3>3. events[1].id <= nextBarrier /\ events[1].id \in Nat
      BY <1>9, <2>1, <2>3, <2>6 DEF MarkersInv
    <3>4. \A i \in 1 .. Len(events') : events'[i].kind = "barrier" /\ events'[i].id = nextBarrier
             => events[1].id < nextBarrier
      <4>. SUFFICES ASSUME NEW i \in 1 .. Len(events'), events'[i].kind = "barrier",
                           events'[i].id = nextBarrier, events[1].id = nextBarrier
                    PROVE  FALSE
        BY <3>3, <1>0
      <4>1. events[1] = Marker(nextBarrier) /\ events[i + 1] = Marker(nextBarrier)
        BY <2>1, <2>2, <2>3, <2>6 DEF MarkersInv
      <4>. QED
        BY <4>1, <2>1, <2>2, <2>3, <2>6 DEF MarkersInv
    <3>5. barrierSeen' <= nextBarrier
      BY <3>2, <3>3 DEF MarkersInv
    <3>6. pc = "write_marker" => barrierSeen' < nextBarrier
      BY <2>1, <2>3, <2>6, <3>2, <3>3, <1>0 DEF MarkersInv, DataTypes
    <3>7. \A i, j \in 1 .. Len(events') : events'[j] = events'[i] /\ i # j =>
             i + 1 # j + 1 /\ events[j + 1] = events[i + 1]
      BY <2>1
    <3>8. ASSUME NEW i \in 1 .. Len(events'), events'[i].kind = "barrier"
          PROVE  /\ events'[i].id <= nextBarrier
                 /\ events'[i].id = nextBarrier =>
                     /\ events'[i] = Marker(nextBarrier) /\ barrierSeen' < nextBarrier
                     /\ pc # "write_marker"
                     /\ \A j \in 1 .. Len(events') : events'[j] = events'[i] => i = j
      BY <2>1, <2>2, <3>2, <3>4, <3>7, <3>8 DEF MarkersInv
    <3>. QED
      BY <2>4, <3>1, <3>5, <3>6, <3>8 DEF MarkersInv, Marker
  <2>. QED
    BY <2>5, <2>6
<1>6. CASE Receive
  BY <1>0, <1>6, MarkersKept DEF Receive
<1>7. CASE Serve
  <2>1. CASE TryCached \/ CheckProof \/ CheckProofToolchain \/ Remember
    BY <1>0, <2>1, MarkersKept
    DEF TryCached, CheckProof, DropProof, CheckProofToolchain, Unreadable, Remember, Answered
  <2>2. CASE ReadStamp \/ KnownStale \/ TakeBaseline \/ ReadCertificate \/ CheckGraph
           \/ CheckToolchain
    BY <1>0, <2>2, MarkersKept
    DEF ReadStamp, KnownStale, TakeBaseline, ReadCertificate, CheckGraph, CheckToolchain, Unreadable, Answered
  <2>3. CASE Scan \/ Reject \/ Accept \/ Install \/ Child \/ Settle
    BY <1>0, <2>3, MarkersKept DEF Scan, Reject, Accept, Install, Child, Settle, Answered
  <2>4. CASE StartBarrier
    <3>1. CASE UNCHANGED nextBarrier /\ Return(FALSE)
      BY <1>0, <2>4, <3>1, MarkersKept DEF StartBarrier, Return, DataTypes
    <3>2. CASE nextBarrier' = nextBarrier + 1 /\ pc' = "write_marker"
      <4>1. UNCHANGED <<events, barrierSeen, baseline, epoch>>
        BY <2>4 DEF StartBarrier
      <4>2. barrierSeen < nextBarrier' /\ barrierSeen \in Nat
        BY <1>0, <3>2 DEF MarkersInv, DataTypes
      <4>3. \A i \in 1 .. Len(events) : events[i].kind = "barrier" =>
              events[i].id <= nextBarrier' /\ events[i].id # nextBarrier'
        BY <1>0, <1>9, <3>2 DEF MarkersInv
      <4>4. barrierSeen <= nextBarrier'
        BY <1>0, <4>2, <3>2
      <4>. QED
        BY <1>0, <4>1, <4>2, <4>3, <4>4 DEF MarkersInv
    <3>. QED
      BY <2>4, <3>1, <3>2 DEF StartBarrier
  <2>5. CASE WriteMarker
    <3>1. CASE Return(FALSE)
      BY <1>0, <2>5, <3>1, MarkersKept DEF WriteMarker, Return, DataTypes
    <3>2. CASE Enqueue(Marker(nextBarrier)) /\ pc' = "await"
      <4>1. Marker(nextBarrier) \in Events /\ events \in Seq(Events)
        BY <1>0, EventTypes DEF DataTypes, Paths
      <4>2. /\ Len(events) \in Nat /\ Len(events') = Len(events) + 1
            /\ \A i \in 1 .. Len(events) : events'[i] = events[i]
            /\ events'[Len(events) + 1] = Marker(nextBarrier)
        BY <3>2, <4>1, QueueGrows DEF Enqueue
      <4>3. UNCHANGED <<nextBarrier, barrierSeen, baseline, epoch>>
        BY <2>5 DEF WriteMarker
      <4>4. \A i \in 1 .. Len(events) : events[i].kind = "barrier" =>
              events[i].id <= nextBarrier /\ events[i].id # nextBarrier
        BY <2>5 DEF WriteMarker, MarkersInv
      <4>5. barrierSeen < nextBarrier
        BY <2>5 DEF WriteMarker, MarkersInv
      <4>6. \A i \in 1 .. Len(events') : events'[i].kind = "barrier" =>
              /\ events'[i].id <= nextBarrier
              /\ events'[i].id = nextBarrier => i = Len(events) + 1
        BY <4>2, <4>4, <1>0 DEF Marker
      <4>. QED
        BY <1>0, <3>2, <4>2, <4>3, <4>5, <4>6 DEF MarkersInv, Marker
    <3>. QED
      BY <2>5, <3>1, <3>2 DEF WriteMarker
  <2>6. CASE BarrierPasses \/ BarrierGivesUp
    BY <1>0, <2>6, MarkersKept DEF BarrierPasses, BarrierGivesUp, Return, DataTypes
  <2>. QED
    BY <1>7, <2>1, <2>2, <2>3, <2>4, <2>5, <2>6 DEF Serve
<1>8. CASE UNCHANGED vars
  BY <1>0, <1>8, MarkersKept
<1>. QED
  BY <1>1, <1>2, <1>3, <1>4, <1>5, <1>6, <1>7, <1>8 DEF Next

-----------------------------------------------------------------------------
(* Changes still on their way.                                              *)

\* An event that joins the queue hides no other.
LEMMA PendingGrows ==
  ASSUME DataTypes, NEW e \in Events, events' = Append(events, e)
  PROVE  /\ \A p : Pending(p) => Pending(p)'
         /\ e.kind = "change" => Pending(e.path)'
<1>1. /\ Len(events) \in Nat /\ Len(events') = Len(events) + 1
      /\ \A i \in 1 .. Len(events) : events'[i] = events[i]
      /\ events'[Len(events) + 1] = e
  BY QueueGrows DEF DataTypes
<1>2. \A i \in 1 .. Len(events) : i \in 1 .. Len(events')
  BY <1>1
<1>3. Len(events) + 1 \in 1 .. Len(events')
  BY <1>1
<1>. QED
  BY <1>1, <1>2, <1>3 DEF Pending

\* Only the delivery of a change itself takes it off the queue.
LEMMA PendingShrinks ==
  ASSUME DataTypes, events # <<>>, events' = Tail(events), NEW p, Pending(p)
  PROVE  Pending(p)' \/ (Head(events).kind = "change" /\ Head(events).path = p)
<1>1. /\ Head(events) = events[1]
      /\ Len(events) \in Nat \ {0} /\ Len(events') = Len(events) - 1
      /\ \A i \in 1 .. Len(events') : events'[i] = events[i + 1]
  BY QueueShrinks DEF DataTypes
<1>2. PICK i \in 1 .. Len(events) : events[i].kind = "change" /\ events[i].path = p
  BY DEF Pending
<1>3. CASE i = 1
  BY <1>1, <1>2, <1>3
<1>4. CASE i # 1
  <2>1. i - 1 \in 1 .. Len(events') /\ (i - 1) + 1 = i
    BY <1>1, <1>4
  <2>2. events'[i - 1] = events[i]
    BY <1>1, <2>1
  <2>. QED
    BY <1>2, <2>1, <2>2 DEF Pending
<1>. QED
  BY <1>3, <1>4

\* A change that precedes the marker waited for does so whatever joins the queue.
LEMMA UnsettledGrows ==
  ASSUME DataTypes, NEW e \in Events, events' = Append(events, e),
         UNCHANGED nextBarrier, pc' = "await" => pc = "await"
  PROVE  /\ Unsettled => Unsettled'
         /\ e.kind = "change" /\ pc' # "await" => Unsettled'
<1>1. /\ Len(events) \in Nat /\ Len(events') = Len(events) + 1
      /\ \A i \in 1 .. Len(events) : events'[i] = events[i]
      /\ events'[Len(events) + 1] = e
  BY QueueGrows DEF DataTypes
<1>2. ASSUME Unsettled
      PROVE  Unsettled'
  <2>1. PICK i \in 1 .. Len(events) :
          /\ events[i].kind = "change"
          /\ pc = "await" => \E j \in i + 1 .. Len(events) : events[j] = Marker(nextBarrier)
    BY <1>2 DEF Unsettled
  <2>2. i \in 1 .. Len(events') /\ events'[i].kind = "change"
    BY <1>1, <2>1
  <2>3. \A j \in i + 1 .. Len(events) : j \in i + 1 .. Len(events') /\ events'[j] = events[j]
    BY <1>1
  <2>. QED
    BY <2>1, <2>2, <2>3 DEF Unsettled, Marker
<1>3. ASSUME e.kind = "change", pc' # "await"
      PROVE  Unsettled'
  <2>1. Len(events) + 1 \in 1 .. Len(events')
    BY <1>1
  <2>. QED
    BY <1>1, <1>3, <2>1 DEF Unsettled
<1>. QED
  BY <1>2, <1>3

\* An event that is no change, once delivered, lets no change slip past the marker.
LEMMA UnsettledShrinks ==
  ASSUME DataTypes, Unsettled, events # <<>>, events' = Tail(events),
         Head(events).kind # "change", UNCHANGED <<nextBarrier, pc>>
  PROVE  Unsettled'
<1>1. /\ Head(events) = events[1]
      /\ Len(events) \in Nat \ {0} /\ Len(events') = Len(events) - 1
      /\ \A i \in 1 .. Len(events') : events'[i] = events[i + 1]
  BY QueueShrinks DEF DataTypes
<1>2. PICK i \in 1 .. Len(events) :
        /\ events[i].kind = "change"
        /\ pc = "await" => \E j \in i + 1 .. Len(events) : events[j] = Marker(nextBarrier)
  BY DEF Unsettled
<1>3. i - 1 \in 1 .. Len(events') /\ (i - 1) + 1 = i
  BY <1>1, <1>2
<1>4. events'[i - 1].kind = "change"
  BY <1>1, <1>2, <1>3
<1>5. \A j \in i + 1 .. Len(events) : j - 1 \in (i - 1) + 1 .. Len(events')
                                       /\ events'[j - 1] = events[j]
  <2>1. ASSUME NEW j \in i + 1 .. Len(events)
        PROVE  j - 1 \in (i - 1) + 1 .. Len(events') /\ j - 1 \in 1 .. Len(events')
               /\ (j - 1) + 1 = j
    BY <1>1
  <2>. QED
    BY <1>1, <2>1
<1>. QED
  BY <1>2, <1>3, <1>4, <1>5 DEF Unsettled, Marker

\* While nobody touches the queue, a change stays ahead of the marker unless the
\* wait for it is just beginning.
LEMMA UnsettledKept ==
  ASSUME Unsettled, UNCHANGED events, pc' # "await"
  PROVE  Unsettled'
BY DEF Unsettled

\* Writing the marker puts it behind every change on its way.
LEMMA UnsettledMarked ==
  ASSUME DataTypes, Unsettled, events' = Append(events, Marker(nextBarrier)), UNCHANGED nextBarrier,
         pc # "await"
  PROVE  Unsettled'
<1>1. events \in Seq(Events) /\ Marker(nextBarrier) \in Events
  BY EventTypes DEF DataTypes, Paths
<1>2. /\ Len(events) \in Nat /\ Len(events') = Len(events) + 1
      /\ \A i \in 1 .. Len(events) : events'[i] = events[i]
      /\ events'[Len(events) + 1] = Marker(nextBarrier)
  BY <1>1, QueueGrows
<1>3. PICK i \in 1 .. Len(events) : events[i].kind = "change"
  BY DEF Unsettled
<1>4. /\ i \in 1 .. Len(events') /\ events'[i].kind = "change"
      /\ Len(events) + 1 \in i + 1 .. Len(events')
  BY <1>2, <1>3
<1>. QED
  BY <1>2, <1>4 DEF Unsettled, Marker

\* When the marker was seen, every change ahead of it was.
LEMMA MarkerSettles ==
  ASSUME DataTypes, MarkersInv, pc = "await", Observed
  PROVE  ~Unsettled
<1>. SUFFICES ASSUME Unsettled
              PROVE  FALSE
  OBVIOUS
<1>1. PICK i \in 1 .. Len(events) :
        \E j \in i + 1 .. Len(events) : events[j] = Marker(nextBarrier)
  BY DEF Unsettled
<1>2. PICK j \in i + 1 .. Len(events) : events[j] = Marker(nextBarrier)
  BY <1>1
<1>3. j \in 1 .. Len(events) /\ events[j].kind = "barrier" /\ events[j].id = nextBarrier
  BY <1>2 DEF Marker
<1>4. barrierSeen < nextBarrier /\ barrierSeen \in Nat /\ nextBarrier \in Nat
  BY <1>3 DEF MarkersInv, DataTypes
<1>. QED
  BY <1>4 DEF Observed

-----------------------------------------------------------------------------
(* The remembered no-op.                                                    *)

\* A step that changes no file, loses no change on its way and at most forgets
\* keeps the memory true.
LEMMA MemoryKept ==
  ASSUME MemoryInv, cachedNoop' = cachedNoop \/ cachedNoop' = None,
         cachedNoop' # None => UNCHANGED trusted /\ (dirty' = dirty \/ dirty' = {}),
         UNCHANGED <<disk, missed>>, cachedNoop' # None => \A p : Pending(p) => Pending(p)'
  PROVE  MemoryInv'
BY DEF MemoryInv, MemoryTracksWorkspace, Watchable

\* The queue as it was still holds what it held.
LEMMA PendingKept == UNCHANGED events => \A p : Pending(p) => Pending(p)'
BY DEF Pending

\* Every step keeps the memory true.
LEMMA MemoryStep ==
  DataTypes /\ FlagTypes /\ MemoryInv /\ GraphInv /\ ValidInv /\ [Next]_vars => MemoryInv'
<1>. SUFFICES ASSUME DataTypes, FlagTypes, MemoryInv, GraphInv, ValidInv, [Next]_vars
              PROVE  MemoryInv'
  OBVIOUS
<1>. USE DEF vars, workspace, barriers, memory, daemon, scratch, locals, history
<1>1. ASSUME NEW f \in Files \cup Sources, Edit(f)
      PROVE  MemoryInv'
  <2>1. UNCHANGED <<cachedNoop, trusted, dirty>>
    BY <1>1 DEF Edit
  <2>2. \A p \in (Files \cup Sources) \ {f} : disk'[p] = disk[p]
    BY <1>1 DEF Edit, DataTypes
  <2>3. cachedNoop # None => DOMAIN cachedNoop.files \subseteq Files
    BY ClaimTypes DEF DataTypes
  <2>4. CASE f \in Unwatched /\ UNCHANGED <<events, missed>>
    <3>1. cachedNoop # None => f \notin DOMAIN cachedNoop.files
      BY <2>4 DEF MemoryInv, Watchable
    <3>. QED
      BY <2>1, <2>2, <2>3, <2>4, <3>1, PendingKept DEF MemoryInv, MemoryTracksWorkspace, Watchable
  <2>5. CASE Enqueue(Change(f)) /\ UNCHANGED missed
    <3>1. Change(f) \in Events /\ Change(f).kind = "change" /\ Change(f).path = f
      BY EventTypes DEF Paths, Change
    <3>2. Pending(f)' /\ \A p : Pending(p) => Pending(p)'
      BY <2>5, <3>1, PendingGrows DEF Enqueue
    <3>. QED
      BY <2>1, <2>2, <2>3, <2>5, <3>2 DEF MemoryInv, MemoryTracksWorkspace, Watchable
  <2>6. CASE missed' = TRUE
    BY <2>1, <2>6 DEF MemoryInv, MemoryTracksWorkspace, Watchable
  <2>. QED
    BY <1>1, <2>4, <2>5, <2>6 DEF Edit
<1>2. CASE SwitchToolchain
  BY <1>2, MemoryKept, PendingKept DEF SwitchToolchain
<1>3. ASSUME NEW e \in Envs, WriteCertificate(e)
      PROVE  MemoryInv'
  <2>1. \A p : Pending(p) => Pending(p)'
    BY <1>3, EventTypes, PendingGrows DEF WriteCertificate, Enqueue, Paths
  <2>. QED
    BY <1>3, <2>1, MemoryKept DEF WriteCertificate
<1>4. CASE WatchFails
  <2>1. \A p : Pending(p) => Pending(p)'
    BY <1>4, EventTypes, PendingGrows DEF WatchFails, Enqueue, Paths
  <2>. QED
    BY <1>4, <2>1, MemoryKept DEF WatchFails
<1>5. CASE Deliver
  <2>1. CASE cachedNoop' = None
    BY <2>1 DEF MemoryInv, MemoryTracksWorkspace
  <2>2. CASE Head(events).kind # "change" /\ UNCHANGED <<cachedNoop, trusted, dirty>>
    <3>1. \A p : Pending(p) => Pending(p)'
      BY <1>5, <2>2, PendingShrinks DEF Deliver
    <3>. QED
      BY <1>5, <2>2, <3>1, MemoryKept DEF Deliver
  <2>. QED
    BY <1>5, <2>1, <2>2 DEF Deliver, AfterChange, AfterMarker, AfterFailure, AfterRescan
<1>6. CASE Receive
  BY <1>6, MemoryKept, PendingKept DEF Receive
<1>7. CASE Serve
  <2>1. CASE TryCached \/ CheckProof \/ CheckProofToolchain \/ Remember
    BY <2>1, MemoryKept, PendingKept
    DEF TryCached, CheckProof, DropProof, CheckProofToolchain, Unreadable, Remember, Answered
  <2>2. CASE ReadStamp \/ KnownStale \/ TakeBaseline \/ ReadCertificate \/ CheckGraph
           \/ CheckToolchain
    BY <2>2, MemoryKept, PendingKept
    DEF ReadStamp, KnownStale, TakeBaseline, ReadCertificate, CheckGraph, CheckToolchain, Unreadable, Answered
  <2>3. CASE Scan \/ Reject \/ Accept \/ Child \/ Settle
    BY <2>3, MemoryKept, PendingKept DEF Scan, Reject, Accept, Child, Settle, Answered
  <2>4. CASE Install
    <3>1. CASE cachedNoop' = None
      BY <3>1 DEF MemoryInv, MemoryTracksWorkspace
    <3>2. CASE cachedNoop' # None
      <4>1. Quiet /\ Watchable(basis) /\ cachedNoop' = basis /\ dirty' = {}
        BY <2>4, <3>2 DEF Install, ProofFor
      <4>2. trusted /\ trusted' = trusted /\ epoch = baseline /\ pc = "install"
            /\ UNCHANGED <<disk, missed, events>>
        BY <2>4, <4>1 DEF Install, Quiet
      <4>3. ~missed => \A f \in DOMAIN basis.files : disk[f] # basis.files[f] => Pending(f)
        BY <4>1, <4>2 DEF ValidInv, Covered, Checked, Stage, Mismatch
      <4>4. ~missed => \A m \in Sources \ Unwatched : disk[m] # basis.graph[m] => Pending(m)
        BY <4>1, <4>2 DEF GraphInv, Compared, SourceHolds, Validating, Checked, Stage
      <4>. QED
        BY <4>1, <4>2, <4>3, <4>4, PendingKept DEF MemoryInv, MemoryTracksWorkspace, Watchable
    <3>. QED
      BY <3>1, <3>2
  <2>5. CASE StartBarrier \/ BarrierPasses \/ BarrierGivesUp
    BY <2>5, MemoryKept, PendingKept DEF StartBarrier, BarrierPasses, BarrierGivesUp, Distrust
  <2>6. CASE WriteMarker
    <3>1. CASE cachedNoop' = None
      BY <3>1 DEF MemoryInv, MemoryTracksWorkspace
    <3>2. CASE Enqueue(Marker(nextBarrier)) /\ UNCHANGED <<trusted, cachedNoop>>
      <4>1. Marker(nextBarrier) \in Events
        BY EventTypes DEF DataTypes, Paths
      <4>2. \A p : Pending(p) => Pending(p)'
        BY <3>2, <4>1, PendingGrows DEF Enqueue
      <4>. QED
        BY <2>6, <3>2, <4>2, MemoryKept DEF WriteMarker
    <3>. QED
      BY <2>6, <3>1, <3>2 DEF WriteMarker, Distrust
  <2>. QED
    BY <1>7, <2>1, <2>2, <2>3, <2>4, <2>5, <2>6 DEF Serve
<1>8. CASE UNCHANGED vars
  BY <1>8, MemoryKept, PendingKept
<1>. QED
  BY <1>1, <1>2, <1>3, <1>4, <1>5, <1>6, <1>7, <1>8 DEF Next

-----------------------------------------------------------------------------
(* The request being served.                                                *)

\* A step that leaves the workspace, the claim and the answer alone.
LEMMA RequestKept ==
  ASSUME RequestInv, UNCHANGED <<disk, toolchain, basis, request, answer, history, missed>>,
         pc' # "idle" => pc # "idle",
         Stage' \in Proving /\ cachedNoop' # None => Stage \in Proving /\ cachedNoop' = cachedNoop
  PROVE  RequestInv'
BY DEF RequestInv, True, Holding, HitWasCurrent, HitForThisClient, Watchable, history

\* A change of the workspace that is watched for the instant the claim holds.
LEMMA RequestWitnesses ==
  ASSUME RequestInv, Witnessed, UNCHANGED <<pc, back, basis, request, answer, cachedNoop>>,
         missed => missed'
  PROVE  RequestInv'
BY DEF RequestInv, Witnessed, HitWasCurrent, HitForThisClient, Watchable, Stage

\* Every step keeps what is known of the request being served.
LEMMA RequestStep ==
  DataTypes /\ FlagTypes /\ BasisInv /\ RequestInv /\ ProofInv /\ GraphInv /\ ValidInv
     /\ [Next]_vars => RequestInv'
<1>. SUFFICES ASSUME DataTypes, FlagTypes, BasisInv, RequestInv, ProofInv, GraphInv, ValidInv,
                     [Next]_vars
              PROVE  RequestInv'
  OBVIOUS
<1>. USE DEF vars, workspace, barriers, memory, daemon, scratch, locals, history
<1>1. ASSUME NEW f \in Files \cup Sources, Edit(f)
      PROVE  RequestInv'
  BY <1>1, RequestWitnesses DEF Edit
<1>2. CASE SwitchToolchain
  BY <1>2, RequestWitnesses DEF SwitchToolchain
<1>3. ASSUME NEW e \in Envs, WriteCertificate(e)
      PROVE  RequestInv'
  BY <1>3, RequestKept DEF WriteCertificate, Stage
<1>4. CASE WatchFails
  BY <1>4, RequestKept DEF WatchFails, Stage
<1>5. CASE Deliver
  BY <1>5, RequestKept
  DEF Deliver, AfterChange, AfterMarker, AfterFailure, AfterRescan, Stage
<1>6. CASE Receive
  BY <1>6
  DEF Receive, RequestInv, True, Holding, HitWasCurrent, HitForThisClient, Stage, Proving
<1>7. CASE Serve
  <2>1. CASE TryCached
    <3>1. CASE pc' = "read_stamp" /\ UNCHANGED <<basis, history>>
      BY <2>1, <3>1, RequestKept DEF TryCached, Stage, Proving
    <3>2. CASE /\ basis' = cachedNoop
               /\ wasCurrent' = True(cachedNoop) /\ held' = Holding(cachedNoop)
      BY <2>1, <3>2 DEF TryCached, RequestInv, True, Holding, HitWasCurrent, HitForThisClient
    <3>. QED
      BY <2>1, <3>1, <3>2 DEF TryCached
  <2>2. CASE CheckProof
    BY <2>2, RequestKept DEF CheckProof, DropProof, Stage, Proving
  <2>3. CASE CheckProofToolchain
    <3>1. CASE Answered("failed")
      BY <2>3, <3>1
      DEF CheckProofToolchain, Answered, RequestInv, HitWasCurrent, HitForThisClient, Stage, Proving
    <3>2. CASE UNCHANGED answer /\ pc' # "idle"
      BY <2>3, <3>2, RequestKept DEF CheckProofToolchain, DropProof, Unreadable, Answered, Stage,
         Proving
    <3>. QED
      BY <2>3, <3>1, <3>2 DEF CheckProofToolchain, DropProof, Unreadable
  <2>4. CASE Remember
    <3>1. CASE Answered("remembered") /\ cachedNoop # None
      <4>1. wasCurrent \/ missed
        BY <2>4, <3>1 DEF Remember, ProofInv, Stage
      <4>2. basis.env = request
        BY <2>4 DEF Remember, BasisInv, Stage, Proving
      <4>. QED
        BY <2>4, <3>1, <4>1, <4>2
        DEF Remember, Answered, RequestInv, HitWasCurrent, HitForThisClient, Stage, Proving
    <3>2. CASE pc' = "read_stamp" /\ UNCHANGED answer
      BY <2>4, <3>2, RequestKept DEF Remember, Stage, Proving
    <3>. QED
      BY <2>4, <3>1, <3>2 DEF Remember
  <2>5. CASE ReadStamp \/ KnownStale \/ TakeBaseline
    BY <2>5, RequestKept DEF ReadStamp, KnownStale, TakeBaseline, Stage, Proving
  <2>6. CASE ReadCertificate
    <3>1. CASE pc' = "rejected" /\ UNCHANGED <<basis, history>>
      BY <2>6, <3>1, RequestKept DEF ReadCertificate, Stage, Proving
    <3>2. CASE /\ pc' = "check_graph" /\ basis' = cert.claim
               /\ wasCurrent' = True(cert.claim) /\ held' = Holding(cert.claim)
      BY <2>6, <3>2
      DEF ReadCertificate, RequestInv, True, Holding, HitWasCurrent, HitForThisClient, Stage, Proving
    <3>. QED
      BY <2>6, <3>1, <3>2 DEF ReadCertificate
  <2>7. CASE CheckToolchain
    <3>1. CASE Answered("failed")
      BY <2>7, <3>1
      DEF CheckToolchain, Answered, RequestInv, HitWasCurrent, HitForThisClient, Stage, Proving
    <3>2. CASE UNCHANGED answer /\ pc' \in {"scan", "rejected"}
      BY <2>7, <3>2, RequestKept DEF CheckToolchain, Unreadable, Answered, Stage, Proving
    <3>. QED
      BY <2>7, <3>1, <3>2 DEF CheckToolchain, Unreadable
  <2>8. CASE Scan \/ Reject \/ Accept
    BY <2>8, RequestKept DEF Scan, Reject, Accept, Stage, Proving
  <2>9. CASE Install
    <3>1. basis.env = request /\ basis # None /\ held = Sources
      BY <2>9 DEF Install, BasisInv, GraphInv, Compared, DataTypes, Stage, Validating, Checked
    <3>2. CASE Answered("unguarded")
      BY <2>9, <3>1, <3>2
      DEF Install, Answered, RequestInv, HitWasCurrent, HitForThisClient, Stage, Proving
    <3>3. CASE Quiet /\ Answered("validated")
      <4>1. Watchable(basis) => wasCurrent \/ missed
        BY <2>9, <3>3 DEF Install, Quiet, ValidInv, Covered, Checked, Stage
      <4>. QED
        BY <2>9, <3>1, <3>3, <4>1
        DEF Install, Answered, RequestInv, HitWasCurrent, HitForThisClient, Watchable, Stage, Proving
    <3>4. CASE pc' = "child" /\ UNCHANGED <<scratch, answer>>
      BY <2>9, <3>4, RequestKept DEF Install, Stage, Proving
    <3>. QED
      BY <2>9, <3>2, <3>3, <3>4 DEF Install
  <2>10. CASE Child
    <3>1. CASE Answered("failed")
      BY <2>10, <3>1
      DEF Child, Answered, RequestInv, HitWasCurrent, HitForThisClient, Stage, Proving
    <3>2. CASE UNCHANGED answer /\ pc' = "barrier" /\ back' = "settle"
      BY <2>10, <3>2, RequestKept DEF Child, Stage, Proving
    <3>. QED
      BY <2>10, <3>1, <3>2 DEF Child
  <2>11. CASE Settle
    BY <2>11 DEF Settle, Answered, RequestInv, HitWasCurrent, HitForThisClient, Stage, Proving
  <2>12. CASE StartBarrier \/ WriteMarker \/ BarrierPasses \/ BarrierGivesUp
    BY <2>12, RequestKept
    DEF StartBarrier, WriteMarker, BarrierPasses, BarrierGivesUp, Distrust, Return, Stage, Proving,
        DataTypes
  <2>13. CASE CheckGraph
    BY <2>13, RequestKept DEF CheckGraph, Stage, Proving
  <2>. QED
    BY <1>7, <2>1, <2>2, <2>3, <2>4, <2>5, <2>6, <2>7, <2>8, <2>9, <2>10, <2>11, <2>12,
       <2>13 DEF Serve
<1>8. CASE UNCHANGED vars
  BY <1>8, RequestKept DEF Stage
<1>. QED
  BY <1>1, <1>2, <1>3, <1>4, <1>5, <1>6, <1>7, <1>8 DEF Next

-----------------------------------------------------------------------------
(* The proof, between its check of the toolchain and its barrier.           *)

\* A step that leaves the proof's place, its witness and the changes ahead of the marker.
LEMMA ProofKept ==
  ASSUME ProofInv, Stage' = "remember" => Stage = "remember", wasCurrent => wasCurrent',
         missed => missed', cachedNoop' = cachedNoop \/ cachedNoop' = None,
         pc # "remember" /\ Unsettled => pc' # "remember" /\ (cachedNoop' = None \/ Unsettled')
  PROVE  ProofInv'
BY DEF ProofInv

\* A change that no check saw is delivered before the proof's barrier is passed.
LEMMA ProofStep ==
  DataTypes /\ FlagTypes /\ MarkersInv /\ MemoryInv /\ BasisInv /\ RequestInv /\ ProofInv
     /\ [Next]_vars => ProofInv'
<1>. SUFFICES ASSUME DataTypes, FlagTypes, MarkersInv, MemoryInv, BasisInv, RequestInv, ProofInv,
                     [Next]_vars
              PROVE  ProofInv'
  OBVIOUS
<1>. USE DEF vars, workspace, barriers, memory, daemon, scratch, locals, history
<1>0. back \in {"remember", "baseline", "install", "settle"}
  BY DEF DataTypes
<1>1. ASSUME NEW f \in Files \cup Sources, Edit(f)
      PROVE  ProofInv'
  <2>1. Unsettled => Unsettled'
    <3>1. Change(f) \in Events /\ Rescan \in Events
      BY EventTypes DEF Paths
    <3>2. UNCHANGED <<pc, nextBarrier>> /\ (UNCHANGED events \/ Enqueue(Change(f)) \/ Enqueue(Rescan))
      BY <1>1 DEF Edit
    <3>3. CASE UNCHANGED events
      BY <3>2, <3>3 DEF Unsettled, Marker
    <3>. QED
      BY <3>1, <3>2, <3>3, UnsettledGrows DEF Enqueue
  <2>2. wasCurrent => wasCurrent'
    BY <1>1 DEF Edit, Witnessed
  <2>3. missed => missed'
    BY <1>1 DEF Edit
  <2>4. UNCHANGED <<pc, back, cachedNoop>>
    BY <1>1 DEF Edit
  <2>. QED
    BY <2>1, <2>2, <2>3, <2>4, ProofKept DEF Stage
<1>2. CASE SwitchToolchain
  <2>1. Unsettled => Unsettled'
    BY <1>2 DEF SwitchToolchain, Unsettled, Marker
  <2>. QED
    BY <1>2, <2>1, ProofKept DEF SwitchToolchain, Witnessed, Stage
<1>3. ASSUME NEW e \in Envs, WriteCertificate(e)
      PROVE  ProofInv'
  <2>1. Unsettled => Unsettled'
    BY <1>3, UnsettledGrows, EventTypes DEF WriteCertificate, Enqueue, Paths
  <2>. QED
    BY <1>3, <2>1, ProofKept DEF WriteCertificate, Stage
<1>4. CASE WatchFails
  <2>1. Unsettled => Unsettled'
    BY <1>4, UnsettledGrows, EventTypes DEF WatchFails, Enqueue, Paths
  <2>. QED
    BY <1>4, <2>1, ProofKept DEF WatchFails, Stage
<1>5. CASE Deliver
  <2>1. UNCHANGED <<pc, back, wasCurrent, missed, nextBarrier>>
        /\ events # <<>> /\ events' = Tail(events)
    BY <1>5 DEF Deliver
  <2>2. CASE cachedNoop' = None
    BY <2>2 DEF ProofInv
  <2>3. CASE Head(events).kind # "change" /\ UNCHANGED cachedNoop
    <3>1. Unsettled => Unsettled'
      BY <2>1, <2>3, UnsettledShrinks
    <3>. QED
      BY <2>1, <2>3, <3>1, ProofKept DEF Stage
  <2>. QED
    BY <1>5, <2>2, <2>3 DEF Deliver, AfterChange, AfterMarker, AfterFailure, AfterRescan
<1>6. CASE Receive
  BY <1>6 DEF Receive, ProofInv, Stage
<1>7. CASE Serve
  <2>1. CASE TryCached \/ CheckProof
    BY <2>1 DEF TryCached, CheckProof, DropProof, ProofInv, Stage
  <2>2. CASE CheckProofToolchain
    <3>1. CASE pc' \in {"idle", "read_stamp"}
      BY <3>1 DEF ProofInv, Stage
    <3>2. CASE ToolchainHolds /\ pc' = "barrier" /\ UNCHANGED <<cachedNoop, back>>
      <4>1. UNCHANGED <<events, wasCurrent, missed, basis>>
        BY <2>2 DEF CheckProofToolchain
      <4>2. Stage = "check_proof_toolchain" /\ pc # "idle" /\ basis # None
        BY <2>2 DEF CheckProofToolchain, Stage, BasisInv, Proving
      <4>3. CASE cachedNoop # None /\ ~missed /\ ~wasCurrent
        <5>1. cachedNoop = basis
          BY <4>2, <4>3 DEF RequestInv, Proving
        <5>2. ~True(basis)
          BY <4>2, <4>3 DEF RequestInv
        <5>3. \/ \E f \in DOMAIN basis.files : disk[f] # basis.files[f]
              \/ \E m \in Sources \ Unwatched : disk[m] # basis.graph[m]
          BY <3>2, <4>2, <5>2 DEF True, ToolchainHolds
        <5>4. \E f : Pending(f)
          BY <4>3, <5>1, <5>3 DEF MemoryInv, MemoryTracksWorkspace
        <5>5. Unsettled'
          BY <3>2, <4>1, <5>4 DEF Pending, Unsettled
        <5>. QED
          BY <3>2, <5>5 DEF ProofInv
      <4>. QED
        BY <3>2, <4>1, <4>3 DEF ProofInv
    <3>. QED
      BY <2>2, <3>1, <3>2 DEF CheckProofToolchain, DropProof, Unreadable, Answered
  <2>3. CASE Remember
    BY <2>3 DEF Remember, Answered, ProofInv, Stage
  <2>4. CASE ReadStamp \/ KnownStale \/ TakeBaseline \/ ReadCertificate \/ CheckGraph
           \/ CheckToolchain
    BY <2>4
    DEF ReadStamp, KnownStale, TakeBaseline, ReadCertificate, CheckGraph, CheckToolchain, Unreadable, Answered,
        ProofInv, Stage
  <2>5. CASE Scan \/ Reject \/ Accept \/ Install \/ Child \/ Settle
    BY <2>5 DEF Scan, Reject, Accept, Install, Child, Settle, Answered, ProofInv, Stage
  <2>6. CASE StartBarrier
    <3>1. CASE Return(FALSE)
      BY <1>0, <2>6, <3>1 DEF StartBarrier, Return, ProofInv, Stage
    <3>2. CASE pc' = "write_marker"
      <4>1. UNCHANGED <<back, events, wasCurrent, missed, cachedNoop>> /\ pc = "barrier"
        BY <2>6 DEF StartBarrier
      <4>2. Unsettled => Unsettled'
        BY <3>2, <4>1, UnsettledKept
      <4>. QED
        BY <3>2, <4>1, <4>2, ProofKept DEF Stage
    <3>. QED
      BY <2>6, <3>1, <3>2 DEF StartBarrier
  <2>7. CASE WriteMarker
    <3>1. CASE Return(FALSE)
      BY <1>0, <2>7, <3>1 DEF WriteMarker, Return, ProofInv, Stage
    <3>2. CASE Enqueue(Marker(nextBarrier)) /\ pc' = "await" /\ UNCHANGED cachedNoop
      <4>1. UNCHANGED <<back, wasCurrent, missed, nextBarrier>> /\ pc = "write_marker"
        BY <2>7 DEF WriteMarker
      <4>2. Unsettled => Unsettled'
        BY <3>2, <4>1, UnsettledMarked DEF Enqueue
      <4>. QED
        BY <3>2, <4>1, <4>2, ProofKept DEF Stage
    <3>. QED
      BY <2>7, <3>1, <3>2 DEF WriteMarker
  <2>8. CASE BarrierPasses
    <3>1. ~Unsettled
      BY <2>8, MarkerSettles DEF BarrierPasses
    <3>2. UNCHANGED <<back, wasCurrent, missed, cachedNoop>> /\ pc = "await" /\ pc' = back
      BY <2>8 DEF BarrierPasses, Return
    <3>. QED
      BY <1>0, <3>1, <3>2 DEF ProofInv, Stage
  <2>9. CASE BarrierGivesUp
    BY <1>0, <2>9 DEF BarrierGivesUp, Distrust, Return, ProofInv, Stage
  <2>. QED
    BY <1>7, <2>1, <2>2, <2>3, <2>4, <2>5, <2>6, <2>7, <2>8, <2>9 DEF Serve
<1>8. CASE UNCHANGED vars
  <2>1. Unsettled => Unsettled'
    BY <1>8 DEF Unsettled, Marker
  <2>. QED
    BY <1>8, <2>1, ProofKept DEF Stage
<1>. QED
  BY <1>1, <1>2, <1>3, <1>4, <1>5, <1>6, <1>7, <1>8 DEF Next

-----------------------------------------------------------------------------
(* The sources of the graph, from their comparison to the second barrier.   *)

\* A step that leaves the claim, the workspace and the sources compared so far alone.
GraphUndisturbed ==
  /\ Stage' \in Validating => Stage \in Validating
  /\ Stage' \in Validating => Compared' \subseteq Compared
  /\ Stage' = "check_toolchain" => Stage = "check_toolchain" /\ UNCHANGED unchecked
  /\ UNCHANGED <<basis, disk>>
  /\ held \subseteq held'
  /\ missed => missed'
  /\ epoch # baseline => epoch' # baseline'
  /\ epoch' # baseline' \/ \A p : Pending(p) => Pending(p)'

\* Such a step keeps what the comparison found.
LEMMA GraphKept == GraphInv /\ GraphUndisturbed => GraphInv'
BY DEF GraphInv, GraphUndisturbed, SourceHolds

\* A source found as claimed changes again only under the watcher's eyes, or out of its
\* sight.
LEMMA GraphStep ==
  DataTypes /\ FlagTypes /\ MarkersInv /\ BasisInv /\ RequestInv /\ GraphInv /\ [Next]_vars
     => GraphInv'
<1>. SUFFICES ASSUME DataTypes, FlagTypes, MarkersInv, BasisInv, RequestInv, GraphInv,
                     [Next]_vars
              PROVE  GraphInv'
  OBVIOUS
<1>. USE DEF vars, workspace, barriers, memory, daemon, scratch, locals, history
<1>0. back \in {"remember", "baseline", "install", "settle"}
  BY DEF DataTypes
<1>1. ASSUME NEW f \in Files \cup Sources, Edit(f)
      PROVE  GraphInv'
  <2>1. UNCHANGED <<pc, back, basis, unchecked, epoch, baseline>> /\ held \subseteq held'
    BY <1>1 DEF Edit, Witnessed
  <2>2. \A p \in (Files \cup Sources) \ {f} : disk'[p] = disk[p]
    BY <1>1 DEF Edit, DataTypes
  <2>3. Compared' = Compared /\ Compared \subseteq Sources /\ Stage' = Stage
    BY <2>1 DEF Compared, Stage
  <2>4. CASE f \in Unwatched /\ UNCHANGED <<events, missed>>
    BY <2>1, <2>2, <2>3, <2>4, PendingKept DEF GraphInv, SourceHolds
  <2>5. CASE Enqueue(Change(f)) /\ UNCHANGED missed
    <3>1. Change(f) \in Events /\ Change(f).kind = "change" /\ Change(f).path = f
      BY EventTypes DEF Paths, Change
    <3>2. Pending(f)' /\ \A p : Pending(p) => Pending(p)'
      BY <2>5, <3>1, PendingGrows DEF Enqueue
    <3>. QED
      BY <2>1, <2>2, <2>3, <2>5, <3>2 DEF GraphInv, SourceHolds
  <2>6. CASE missed' = TRUE
    BY <2>1, <2>3, <2>6 DEF GraphInv
  <2>. QED
    BY <1>1, <2>4, <2>5, <2>6 DEF Edit
<1>2. CASE SwitchToolchain
  <2>1. GraphUndisturbed
    BY <1>2, PendingKept DEF SwitchToolchain, Witnessed, GraphUndisturbed, Stage, Compared
  <2>. QED
    BY <2>1, GraphKept
<1>3. ASSUME NEW e \in Envs, WriteCertificate(e)
      PROVE  GraphInv'
  <2>1. \A p : Pending(p) => Pending(p)'
    BY <1>3, EventTypes, PendingGrows DEF WriteCertificate, Enqueue, Paths
  <2>2. GraphUndisturbed
    BY <1>3, <2>1 DEF WriteCertificate, GraphUndisturbed, Stage, Compared
  <2>. QED
    BY <2>2, GraphKept
<1>4. CASE WatchFails
  <2>1. \A p : Pending(p) => Pending(p)'
    BY <1>4, EventTypes, PendingGrows DEF WatchFails, Enqueue, Paths
  <2>2. GraphUndisturbed
    BY <1>4, <2>1 DEF WatchFails, GraphUndisturbed, Stage, Compared
  <2>. QED
    BY <2>2, GraphKept
<1>5. CASE Deliver
  <2>1. /\ UNCHANGED <<pc, back, basis, unchecked, baseline, disk, held, missed>>
        /\ events # <<>> /\ events' = Tail(events)
    BY <1>5 DEF Deliver
  <2>2. epoch \in Nat /\ baseline \in Nat /\ baseline <= epoch
    BY DEF DataTypes, MarkersInv
  <2>3. CASE epoch' = epoch + 1
    <3>1. epoch' # baseline'
      BY <2>1, <2>2, <2>3
    <3>2. GraphUndisturbed
      BY <2>1, <3>1 DEF GraphUndisturbed, Stage, Compared
    <3>. QED
      BY <3>2, GraphKept
  <2>4. CASE Head(events).kind # "change" /\ UNCHANGED epoch
    <3>1. \A p : Pending(p) => Pending(p)'
      BY <2>1, <2>4, PendingShrinks
    <3>2. GraphUndisturbed
      BY <2>1, <2>4, <3>1 DEF GraphUndisturbed, Stage, Compared
    <3>. QED
      BY <3>2, GraphKept
  <2>. QED
    BY <1>5, <2>3, <2>4 DEF Deliver, AfterChange, AfterMarker, AfterFailure, AfterRescan
<1>6. CASE Receive
  BY <1>6 DEF Receive, GraphInv, Validating, Checked, Stage
<1>7. CASE Serve
  <2>1. CASE TryCached \/ CheckProof \/ Remember
    BY <2>1
    DEF TryCached, CheckProof, DropProof, Remember, Answered, GraphInv, Validating, Checked, Stage
  <2>2. CASE CheckProofToolchain
    BY <2>2
    DEF CheckProofToolchain, DropProof, Unreadable, Answered, BasisInv, Early, GraphInv,
        Validating, Checked, Stage
  <2>3. CASE ReadStamp \/ KnownStale \/ TakeBaseline
    BY <2>3 DEF ReadStamp, KnownStale, TakeBaseline, GraphInv, Validating, Checked, Stage
  <2>4. CASE ReadCertificate
    BY <2>4 DEF ReadCertificate, GraphInv, Compared, Validating, Checked, Stage
  <2>5. CASE CheckGraph
    <3>0. /\ UNCHANGED <<basis, disk, held, missed, epoch, baseline, events>>
          /\ pc = "check_graph" /\ basis # None
      BY <2>5 DEF CheckGraph, BasisInv, Stage, Validating
    <3>1. \A p : Pending(p) => Pending(p)'
      BY <3>0, PendingKept
    <3>2. CASE unchecked = {} /\ pc' = "check_toolchain" /\ UNCHANGED unchecked
      BY <3>0, <3>1, <3>2 DEF GraphInv, Compared, SourceHolds, Validating, Checked, Stage
    <3>3. ASSUME NEW m \in unchecked, SourceHolds(m), unchecked' = unchecked \ {m},
                 UNCHANGED pc
          PROVE  GraphInv'
      <4>1. Compared' \subseteq Compared \cup {m}
        BY <3>0, <3>3 DEF Compared, Stage
      <4>2. m \in Sources => m \in held
        BY <3>0, <3>3 DEF RequestInv, Holding, SourceHolds
      <4>3. Compared' \subseteq Sources /\ Stage = "check_graph" /\ Stage' = "check_graph"
        BY <3>0, <3>3 DEF Compared, Stage
      <4>. QED
        BY <3>0, <3>1, <3>3, <4>1, <4>2, <4>3 DEF GraphInv, SourceHolds, Validating
    <3>4. CASE pc' = "rejected"
      BY <3>4 DEF GraphInv, Validating, Checked, Stage
    <3>. QED
      BY <2>5, <3>2, <3>3, <3>4 DEF CheckGraph
  <2>6. CASE CheckToolchain
    <3>1. CASE pc' \in {"idle", "rejected"}
      BY <3>1 DEF GraphInv, Validating, Checked, Stage
    <3>2. CASE pc' = "scan"
      <4>1. /\ UNCHANGED <<basis, disk, held, missed, epoch, baseline, events>>
            /\ pc = "check_toolchain"
        BY <2>6, <3>2 DEF CheckToolchain, Unreadable, Answered
      <4>. QED
        BY <3>2, <4>1, PendingKept DEF GraphInv, Compared, SourceHolds, Validating, Checked, Stage
    <3>. QED
      BY <2>6, <3>1, <3>2 DEF CheckToolchain, Unreadable, Answered
  <2>7. CASE Scan
    <3>1. CASE pc' = "rejected"
      BY <3>1 DEF GraphInv, Validating, Checked, Stage
    <3>2. CASE pc' \in {"scan", "accepted"}
      <4>1. /\ UNCHANGED <<basis, disk, held, missed, epoch, baseline, events>> /\ pc = "scan"
        BY <2>7 DEF Scan
      <4>. QED
        BY <3>2, <4>1, PendingKept DEF GraphInv, Compared, SourceHolds, Validating, Checked, Stage
    <3>. QED
      BY <2>7, <3>1, <3>2 DEF Scan
  <2>8. CASE Accept
    <3>1. /\ UNCHANGED <<basis, disk, held, missed, epoch, baseline, events>>
          /\ pc = "accepted" /\ Stage' = "install"
      BY <2>8 DEF Accept, Stage
    <3>. QED
      BY <3>1, PendingKept DEF GraphInv, Compared, SourceHolds, Validating, Checked, Stage
  <2>9. CASE Reject \/ Install \/ Child \/ Settle
    BY <2>9 DEF Reject, Install, Child, Settle, Answered, GraphInv, Validating, Checked, Stage
  <2>10. CASE StartBarrier \/ WriteMarker \/ BarrierPasses \/ BarrierGivesUp
    <3>0. UNCHANGED <<basis, disk, unchecked, held, missed, epoch, baseline, back>>
          /\ pc \in {"barrier", "write_marker", "await"}
      BY <2>10 DEF StartBarrier, WriteMarker, BarrierPasses, BarrierGivesUp
    <3>1. Stage' \in Validating => Stage' = Stage
      BY <1>0, <2>10, <3>0
      DEF StartBarrier, WriteMarker, BarrierPasses, BarrierGivesUp, Return, Stage, Validating,
          Checked
    <3>2. \A p : Pending(p) => Pending(p)'
      <4>1. Marker(nextBarrier) \in Events
        BY EventTypes DEF DataTypes, Paths
      <4>2. UNCHANGED events \/ Enqueue(Marker(nextBarrier))
        BY <2>10 DEF StartBarrier, WriteMarker, BarrierPasses, BarrierGivesUp
      <4>. QED
        BY <4>1, <4>2, PendingKept, PendingGrows DEF Enqueue
    <3>. QED
      BY <3>0, <3>1, <3>2 DEF GraphInv, Compared, SourceHolds
  <2>. QED
    BY <1>7, <2>1, <2>2, <2>3, <2>4, <2>5, <2>6, <2>7, <2>8, <2>9, <2>10 DEF Serve
<1>8. CASE UNCHANGED vars
  <2>1. GraphUndisturbed
    BY <1>8, PendingKept DEF GraphUndisturbed, Stage, Compared
  <2>. QED
    BY <2>1, GraphKept
<1>. QED
  BY <1>1, <1>2, <1>3, <1>4, <1>5, <1>6, <1>7, <1>8 DEF Next

-----------------------------------------------------------------------------
(* The validation, between its toolchain check and its second barrier.      *)

\* A step that leaves the claim, the files and the scan alone and lets no change
\* slip past the marker or the epoch.
Undisturbed ==
  /\ Stage' \in Checked => Stage \in Checked /\ (Stage' = "scan" <=> Stage = "scan")
  /\ UNCHANGED <<basis, unchecked, disk>>
  /\ wasCurrent => wasCurrent'
  /\ missed => missed'
  /\ epoch # baseline => epoch' # baseline'
  /\ epoch' # baseline' \/ \A p : Pending(p) => Pending(p)'
  /\ pc # "install" /\ Unsettled =>
       \/ epoch' # baseline'
       \/ pc' # "install" /\ Unsettled'
       \/ pc' = "install" /\ ~stable'
  /\ pc = "install" /\ ~stable => pc' = "install" /\ ~stable'

\* Such a step keeps the validation sound.
LEMMA ValidKept == ValidInv /\ Undisturbed => ValidInv'
BY DEF ValidInv, Covered, Mismatch, Watchable, Checked, Undisturbed

\* A change that no stat saw is delivered before the second barrier is passed, and
\* counted in the epoch.
LEMMA ValidStep ==
  DataTypes /\ FlagTypes /\ MarkersInv /\ BasisInv /\ RequestInv /\ GraphInv /\ ValidInv
     /\ [Next]_vars => ValidInv'
<1>. SUFFICES ASSUME DataTypes, FlagTypes, MarkersInv, BasisInv, RequestInv, GraphInv, ValidInv,
                     [Next]_vars
              PROVE  ValidInv'
  OBVIOUS
<1>. USE DEF vars, workspace, barriers, memory, daemon, scratch, locals, history
<1>0. back \in {"remember", "baseline", "install", "settle"}
  BY DEF DataTypes
<1>1. ASSUME NEW f \in Files \cup Sources, Edit(f)
      PROVE  ValidInv'
  <2>0. UNCHANGED <<pc, back, basis, unchecked, stable, epoch, baseline, nextBarrier>>
    BY <1>1 DEF Edit
  <2>1. wasCurrent => wasCurrent'
    BY <1>1 DEF Edit, Witnessed
  <2>2. \A p \in (Files \cup Sources) \ {f} : disk'[p] = disk[p]
    BY <1>1 DEF Edit, DataTypes
  <2>3. Stage \in Checked => DOMAIN basis.files \subseteq Files
    BY ClaimTypes DEF DataTypes, BasisInv, Validating, Checked
  <2>4. CASE f \in Unwatched /\ UNCHANGED <<events, missed>>
    <3>1. Watchable(basis) => f \notin DOMAIN basis.files
      BY <2>4 DEF Watchable
    <3>2. \A p : Pending(p) => Pending(p)'
      BY <2>4, PendingKept
    <3>3. Unsettled => Unsettled'
      BY <2>0, <2>4 DEF Unsettled, Marker
    <3>. QED
      BY <2>0, <2>1, <2>2, <2>3, <2>4, <3>1, <3>2, <3>3
      DEF ValidInv, Covered, Mismatch, Watchable, Stage, Checked
  <2>5. CASE Enqueue(Change(f)) /\ UNCHANGED missed
    <3>1. Change(f) \in Events /\ Change(f).kind = "change" /\ Change(f).path = f
      BY EventTypes DEF Paths, Change
    <3>2. Pending(f)' /\ \A p : Pending(p) => Pending(p)'
      BY <2>5, <3>1, PendingGrows DEF Enqueue
    <3>3. (Unsettled => Unsettled') /\ (pc # "await" => Unsettled')
      BY <2>0, <2>5, <3>1, UnsettledGrows DEF Enqueue
    <3>4. CASE Stage \in Checked /\ Watchable(basis) /\ ~missed
      <4>1. Covered
        BY <3>4 DEF ValidInv
      <4>2. \A p \in DOMAIN basis.files \ unchecked : Mismatch(p)' => Pending(p)' \/ epoch # baseline
        BY <2>0, <2>2, <2>3, <3>2, <3>4, <4>1 DEF Covered, Mismatch
      <4>3. CASE Stage = "scan"
        <5>1. Unsettled' /\ pc' # "install"
          BY <1>0, <2>0, <3>3, <4>3 DEF Stage
        <5>. QED
          BY <2>0, <4>1, <4>2, <4>3, <5>1 DEF ValidInv, Covered, Stage
      <4>4. CASE Stage # "scan"
        <5>1. unchecked = {} /\ (wasCurrent \/ epoch # baseline \/ (pc # "install" /\ Unsettled)
                                  \/ (pc = "install" /\ ~stable))
          BY <4>1, <4>4 DEF Covered
        <5>. QED
          BY <2>0, <2>1, <3>3, <4>2, <4>4, <5>1 DEF ValidInv, Covered, Stage
      <4>. QED
        BY <4>3, <4>4
    <3>5. CASE ~(Stage \in Checked /\ Watchable(basis) /\ ~missed)
      BY <2>0, <2>5, <3>5 DEF ValidInv, Stage, Watchable
    <3>. QED
      BY <3>4, <3>5
  <2>6. CASE missed' = TRUE
    BY <2>6 DEF ValidInv
  <2>. QED
    BY <1>1, <2>4, <2>5, <2>6 DEF Edit
<1>2. CASE SwitchToolchain
  <2>1. (Unsettled => Unsettled') /\ \A p : Pending(p) => Pending(p)'
    BY <1>2, PendingKept DEF SwitchToolchain, Unsettled, Marker
  <2>2. wasCurrent => wasCurrent'
    BY <1>2 DEF SwitchToolchain, Witnessed
  <2>3. UNCHANGED <<pc, back, basis, unchecked, stable, epoch, baseline, disk, missed>>
    BY <1>2 DEF SwitchToolchain
  <2>4. Stage' = Stage
    BY <2>3 DEF Stage
  <2>. QED
    <3>1. Undisturbed
      BY <2>1, <2>2, <2>3, <2>4 DEF Undisturbed
    <3>. QED
      BY <3>1, ValidKept
<1>3. ASSUME NEW e \in Envs, WriteCertificate(e)
      PROVE  ValidInv'
  <2>1. (Unsettled => Unsettled') /\ \A p : Pending(p) => Pending(p)'
    BY <1>3, UnsettledGrows, PendingGrows, EventTypes DEF WriteCertificate, Enqueue, Paths
  <2>2. UNCHANGED <<pc, back, basis, unchecked, stable, epoch, baseline, disk, missed, wasCurrent>>
    BY <1>3 DEF WriteCertificate
  <2>. QED
    <3>1. Undisturbed
      BY <2>1, <2>2 DEF Undisturbed, Stage
    <3>. QED
      BY <3>1, ValidKept
<1>4. CASE WatchFails
  <2>1. (Unsettled => Unsettled') /\ \A p : Pending(p) => Pending(p)'
    BY <1>4, UnsettledGrows, PendingGrows, EventTypes DEF WatchFails, Enqueue, Paths
  <2>2. UNCHANGED <<pc, back, basis, unchecked, stable, epoch, baseline, disk, missed, wasCurrent>>
    BY <1>4 DEF WatchFails
  <2>. QED
    <3>1. Undisturbed
      BY <2>1, <2>2 DEF Undisturbed, Stage
    <3>. QED
      BY <3>1, ValidKept
<1>5. CASE Deliver
  <2>1. UNCHANGED <<pc, back, basis, unchecked, stable, baseline, disk, wasCurrent, missed,
                    nextBarrier>>
        /\ events # <<>> /\ events' = Tail(events)
    BY <1>5 DEF Deliver
  <2>2. epoch \in Nat /\ baseline \in Nat /\ baseline <= epoch
    BY DEF DataTypes, MarkersInv
  <2>3. CASE epoch' = epoch + 1
    <3>1. epoch' # baseline'
      BY <2>1, <2>2, <2>3
    <3>. QED
      BY <2>1, <3>1 DEF ValidInv, Covered, Mismatch, Watchable, Stage
  <2>4. CASE Head(events).kind # "change" /\ UNCHANGED epoch
    <3>1. (Unsettled => Unsettled') /\ \A p : Pending(p) => Pending(p)'
      BY <2>1, <2>4, UnsettledShrinks, PendingShrinks
    <3>. QED
      <4>1. Undisturbed
        BY <2>1, <2>4, <3>1 DEF Undisturbed, Stage
      <4>. QED
        BY <4>1, ValidKept
  <2>. QED
    BY <1>5, <2>3, <2>4 DEF Deliver, AfterChange, AfterMarker, AfterFailure, AfterRescan
<1>6. CASE Receive
  BY <1>6 DEF Receive, ValidInv, Checked, Stage
<1>7. CASE Serve
  <2>1. CASE TryCached \/ CheckProof
    BY <2>1 DEF TryCached, CheckProof, DropProof, ValidInv, Checked, Stage
  <2>2. CASE CheckProofToolchain
    BY <2>2
    DEF CheckProofToolchain, DropProof, Unreadable, Answered, BasisInv, Early, ValidInv, Checked, Stage
  <2>3. CASE Remember
    BY <2>3 DEF Remember, Answered, ValidInv, Checked, Stage
  <2>4. CASE ReadStamp \/ KnownStale \/ TakeBaseline \/ ReadCertificate \/ CheckGraph
    BY <2>4 DEF ReadStamp, KnownStale, TakeBaseline, ReadCertificate, CheckGraph, ValidInv,
                Checked, Stage
  <2>5. CASE CheckToolchain
    <3>1. CASE pc' \in {"idle", "rejected"}
      BY <3>1 DEF ValidInv, Checked, Stage
    <3>2. CASE ToolchainHolds /\ pc' = "scan" /\ unchecked' = DOMAIN basis.files
      <4>1. UNCHANGED <<basis, disk, wasCurrent>> /\ pc = "check_toolchain" /\ basis # None
        BY <2>5 DEF CheckToolchain, BasisInv, Stage, Validating
      <4>2. \/ wasCurrent
            \/ \E f \in DOMAIN basis.files : Mismatch(f)
            \/ \E m \in Sources \ Unwatched : ~SourceHolds(m)
        BY <3>2, <4>1 DEF RequestInv, True, ToolchainHolds, Mismatch, SourceHolds
      <4>3. (\E p : Pending(p)) => Unsettled'
        BY <2>5, <3>2 DEF CheckToolchain, Pending, Unsettled
      <4>4. ~missed => \A m \in Sources \ Unwatched :
                         SourceHolds(m) \/ Unsettled' \/ epoch # baseline
        BY <4>1, <4>3 DEF GraphInv, Compared, Stage, Validating
      <4>5. UNCHANGED <<epoch, baseline, missed>>
        BY <2>5, <3>2 DEF CheckToolchain, Unreadable, Answered
      <4>. QED
        BY <3>2, <4>1, <4>2, <4>4, <4>5 DEF ValidInv, Covered, Stage, Mismatch, Watchable
    <3>. QED
      BY <2>5, <3>1, <3>2 DEF CheckToolchain, Unreadable, Answered
  <2>6. CASE Scan
    <3>0. UNCHANGED <<basis, disk, wasCurrent, missed, epoch, baseline, events, nextBarrier, stable>>
          /\ pc = "scan"
      BY <2>6 DEF Scan
    <3>1. \A p : Pending(p) => Pending(p)'
      BY <3>0, PendingKept
    <3>2. CASE unchecked = {} /\ pc' = "accepted" /\ UNCHANGED unchecked
      <4>1. Unsettled => Unsettled'
        BY <3>0, <3>2, UnsettledKept
      <4>2. Covered => Covered'
        BY <3>0, <3>1, <3>2, <4>1 DEF Covered, Mismatch, Stage
      <4>. QED
        BY <3>0, <4>2 DEF ValidInv, Watchable, Stage, Checked
    <3>3. ASSUME NEW f \in unchecked, disk[f] = basis.files[f], unchecked' = unchecked \ {f},
                 UNCHANGED pc
          PROVE  ValidInv'
      <4>1. Unsettled => Unsettled'
        BY <3>0, <3>3, UnsettledKept
      <4>. QED
        BY <3>0, <3>1, <3>3, <4>1 DEF ValidInv, Covered, Mismatch, Watchable, Stage
    <3>4. CASE pc' = "rejected"
      BY <3>4 DEF ValidInv, Checked, Stage
    <3>. QED
      BY <2>6, <3>2, <3>3, <3>4 DEF Scan
  <2>7. CASE Reject \/ Install \/ Child \/ Settle
    BY <2>7 DEF Reject, Install, Child, Settle, Answered, ValidInv, Checked, Stage
  <2>8. CASE Accept
    <3>0. UNCHANGED <<basis, disk, unchecked, wasCurrent, missed, epoch, baseline, events>>
          /\ pc = "accepted"
      BY <2>8 DEF Accept
    <3>1. \A p : Pending(p) => Pending(p)'
      BY <3>0, PendingKept
    <3>2. Stage' = "install" /\ pc' \in {"barrier", "install"} /\ (pc' = "install" => ~stable')
      BY <2>8 DEF Accept, Stage
    <3>3. Unsettled => Unsettled'
      BY <3>0, <3>2, UnsettledKept
    <3>. QED
      <4>1. Undisturbed
        BY <3>0, <3>1, <3>2, <3>3 DEF Undisturbed, Stage, Checked
      <4>. QED
        BY <4>1, ValidKept
  <2>9. CASE StartBarrier \/ WriteMarker \/ BarrierPasses \/ BarrierGivesUp
    <3>0. UNCHANGED <<basis, disk, unchecked, wasCurrent, missed, epoch, baseline, back>>
          /\ pc \in {"barrier", "write_marker", "await"}
      BY <2>9 DEF StartBarrier, WriteMarker, BarrierPasses, BarrierGivesUp
    <3>1. CASE Return(FALSE) /\ UNCHANGED events
      <4>1. back = "install" => pc' = "install" /\ ~stable'
        BY <3>1 DEF Return
      <4>2. back # "install" => Stage' \notin Checked
        BY <1>0, <3>0, <3>1 DEF Return, Stage, Checked
      <4>3. \A p : Pending(p) => Pending(p)'
        BY <3>1, PendingKept
      <4>4. CASE back = "install"
        <5>1. Undisturbed
          BY <3>0, <4>1, <4>3, <4>4 DEF Undisturbed, Stage, Checked
        <5>. QED
          BY <5>1, ValidKept
      <4>. QED
        BY <4>2, <4>4 DEF ValidInv
    <3>2. CASE StartBarrier /\ pc' = "write_marker"
      <4>1. UNCHANGED events
        BY <3>2 DEF StartBarrier
      <4>2. (Unsettled => Unsettled') /\ \A p : Pending(p) => Pending(p)'
        BY <3>2, <4>1, UnsettledKept, PendingKept
      <4>. QED
        <5>1. Undisturbed
          BY <3>0, <3>2, <4>2 DEF Undisturbed, Stage, Checked
        <5>. QED
          BY <5>1, ValidKept
    <3>3. CASE WriteMarker /\ Enqueue(Marker(nextBarrier)) /\ pc' = "await"
      <4>1. UNCHANGED nextBarrier /\ pc = "write_marker" /\ Marker(nextBarrier) \in Events
        BY <3>3, EventTypes DEF WriteMarker, DataTypes, Paths
      <4>2. (Unsettled => Unsettled') /\ \A p : Pending(p) => Pending(p)'
        BY <3>3, <4>1, UnsettledMarked, PendingGrows DEF Enqueue
      <4>. QED
        <5>1. Undisturbed
          BY <3>0, <3>3, <4>2 DEF Undisturbed, Stage, Checked
        <5>. QED
          BY <5>1, ValidKept
    <3>4. CASE BarrierPasses
      <4>1. ~Unsettled /\ UNCHANGED events /\ pc = "await" /\ pc' = back
        BY <3>4, MarkerSettles DEF BarrierPasses, Return
      <4>2. \A p : Pending(p) => Pending(p)'
        BY <4>1, PendingKept
      <4>. QED
        <5>1. Undisturbed
          BY <1>0, <3>0, <4>1, <4>2 DEF Undisturbed, Stage, Checked
        <5>. QED
          BY <5>1, ValidKept
    <3>. QED
      BY <2>9, <3>1, <3>2, <3>3, <3>4
      DEF StartBarrier, WriteMarker, BarrierGivesUp
  <2>. QED
    BY <1>7, <2>1, <2>2, <2>3, <2>4, <2>5, <2>6, <2>7, <2>8, <2>9 DEF Serve
<1>8. CASE UNCHANGED vars
  <2>1. (Unsettled => Unsettled') /\ \A p : Pending(p) => Pending(p)'
    BY <1>8, PendingKept DEF Unsettled, Marker
  <2>. QED
    <3>1. Undisturbed
      BY <1>8, <2>1 DEF Undisturbed, Stage
    <3>. QED
      BY <3>1, ValidKept
<1>. QED
  BY <1>1, <1>2, <1>3, <1>4, <1>5, <1>6, <1>7, <1>8 DEF Next

-----------------------------------------------------------------------------
(* The rejected certificate.                                                *)

\* Stamps only grow, so that a stamp read again is the certificate read before.
LEMMA RejectionStep == DataTypes /\ RejectionInv /\ [Next]_vars => RejectionInv'
<1>. SUFFICES ASSUME DataTypes, RejectionInv, [Next]_vars
              PROVE  RejectionInv'
  OBVIOUS
<1>. USE DEF vars, workspace, barriers, memory, daemon, scratch, locals, history
<1>0. changes \in Nat /\ MaxChanges \in Nat
  BY DaemonAssumption DEF DataTypes
<1>1. ASSUME NEW f \in Files \cup Sources, Edit(f)
      PROVE  RejectionInv'
  <2>1. changes' >= changes /\ changes' \in Nat
    BY <1>0, <1>1 DEF Edit
  <2>2. UNCHANGED <<cert, stamp, pc, request, basis>>
    BY <1>1 DEF Edit
  <2>. QED
    BY <1>0, <2>1, <2>2 DEF RejectionInv, StampNow, DataTypes
<1>2. CASE SwitchToolchain \/ WatchFails
  <2>1. changes' >= changes /\ changes' \in Nat /\ UNCHANGED <<cert, stamp, pc, request, basis>>
    BY <1>0, <1>2 DEF SwitchToolchain, WatchFails
  <2>. QED
    BY <1>0, <2>1 DEF RejectionInv, StampNow, DataTypes
<1>3. ASSUME NEW e \in Envs, WriteCertificate(e)
      PROVE  RejectionInv'
  <2>1. changes' = changes + 1 /\ cert'.stamp = changes' /\ UNCHANGED <<stamp, pc, request, basis>>
    BY <1>3 DEF WriteCertificate
  <2>2. stamp # None => stamp \in Nat /\ stamp <= changes
    BY DEF RejectionInv, DataTypes
  <2>3. stamp # None => StampNow' # stamp'
    BY <1>0, <2>1, <2>2 DEF StampNow
  <2>. QED
    BY <1>0, <2>1, <2>2, <2>3 DEF RejectionInv
<1>4. CASE Deliver \/ Receive
  BY <1>4 DEF Deliver, Receive, RejectionInv, StampNow
<1>5. CASE Serve
  <2>1. CASE TryCached \/ CheckProof \/ CheckProofToolchain \/ Remember
    BY <2>1
    DEF TryCached, CheckProof, DropProof, CheckProofToolchain, Unreadable, Remember, Answered,
        RejectionInv, StampNow
  <2>2. CASE ReadStamp \/ KnownStale \/ TakeBaseline
    BY <2>2 DEF ReadStamp, KnownStale, TakeBaseline, RejectionInv, StampNow
  <2>3. CASE ReadCertificate \/ CheckGraph
    BY <2>3 DEF ReadCertificate, CheckGraph, RejectionInv, StampNow
  <2>4. CASE CheckToolchain \/ Scan \/ Reject \/ Accept
    BY <2>4 DEF CheckToolchain, Unreadable, Answered, Scan, Reject, Accept, RejectionInv, StampNow
  <2>5. CASE Install \/ Child \/ Settle
    BY <2>5 DEF Install, Child, Settle, Answered, RejectionInv, StampNow
  <2>6. CASE StartBarrier \/ WriteMarker \/ BarrierPasses \/ BarrierGivesUp
    <3>1. back \in {"remember", "baseline", "install", "settle"}
      BY DEF DataTypes
    <3>2. pc' \in {"read_stamp", back, "write_marker", "await"}
      BY <2>6 DEF StartBarrier, WriteMarker, BarrierPasses, BarrierGivesUp, Return
    <3>3. UNCHANGED <<cert, changes, stamp>>
      BY <2>6 DEF StartBarrier, WriteMarker, BarrierPasses, BarrierGivesUp
    <3>. QED
      BY <3>1, <3>2, <3>3 DEF RejectionInv, StampNow
  <2>. QED
    BY <1>5, <2>1, <2>2, <2>3, <2>4, <2>5, <2>6 DEF Serve
<1>6. CASE UNCHANGED vars
  BY <1>6 DEF RejectionInv, StampNow
<1>. QED
  BY <1>1, <1>2, <1>3, <1>4, <1>5, <1>6 DEF Next

-----------------------------------------------------------------------------
(* The theorems.                                                            *)

\* The daemon starts with nothing remembered and nobody served.
LEMMA DaemonInit == Init => DaemonInv
<1>. SUFFICES ASSUME Init
              PROVE  DaemonInv
  OBVIOUS
<1>1. TypeOK
  BY TypeInit
<1>2. MarkersInv
  BY DEF Init, MarkersInv
<1>3. MemoryInv /\ BasisInv
  BY DEF Init, MemoryInv, MemoryTracksWorkspace, BasisInv, Stage, Proving, Validating, Checked
<1>4. RequestInv
  BY DEF Init, RequestInv, True, Holding, HitWasCurrent, HitForThisClient, Stage, Proving
<1>5. ProofInv /\ GraphInv /\ ValidInv /\ RejectionInv
  BY DEF Init, ProofInv, GraphInv, Validating, ValidInv, Checked, Stage, RejectionInv
<1>. QED
  BY <1>1, <1>2, <1>3, <1>4, <1>5 DEF DaemonInv

\* Every step of the daemon, its watcher and its workspace keeps the invariant.
LEMMA DaemonStep == DaemonInv /\ [Next]_vars => DaemonInv'
<1>1. DaemonInv /\ [Next]_vars => TypeOK'
  BY TypeStep DEF DaemonInv
<1>2. DaemonInv => DataTypes /\ FlagTypes
  BY TypesSplit DEF DaemonInv
<1>3. DaemonInv /\ [Next]_vars => MarkersInv' /\ MemoryInv' /\ BasisInv'
  BY <1>2, MarkersStep, MemoryStep, BasisStep DEF DaemonInv
<1>4. /\ DaemonInv /\ [Next]_vars => RequestInv' /\ ProofInv' /\ GraphInv'
      /\ DaemonInv /\ [Next]_vars => ValidInv' /\ RejectionInv'
  BY <1>2, RequestStep, ProofStep, GraphStep, ValidStep, RejectionStep DEF DaemonInv
<1>. QED
  BY <1>1, <1>3, <1>4 DEF DaemonInv

\* The invariant holds for ever.
LEMMA DaemonAlways == Spec => []DaemonInv
BY DaemonInit, DaemonStep, PTL DEF Spec

\* What frostd answers and remembers of files, of the toolchain and of the graph sources
\* its watcher sees is true of the workspace and the client's own, however edits, compiler
\* switches, new certificates, late events and a dying watcher fall between the checks of
\* handle(), try_cached_noop and try_full_noop; whoever validates has compared the other
\* sources while serving, too.
THEOREM HitsAreAlwaysTrue == Spec => []HitsAreTrue
<1>1. DaemonInv => HitsAreTrue
  BY DEF DaemonInv, MemoryInv, RequestInv, HitsAreTrue
<1>. QED
  BY <1>1, DaemonAlways, PTL

\* A certificate whose rejection try_full_noop remembers is the one on disk and, if it
\* is this client's, the very one validation read.
THEOREM RejectionsAreOfWhatWasRead == Spec => RejectionIsOfWhatWasRead
<1> DEFINE Condemned ==
  stale' # stale /\ stale' # None =>
    /\ cert # None /\ cert.stamp = stale'.stamp
    /\ cert.claim.env = request => basis = cert.claim
<1>1. DaemonInv /\ [Next]_vars => [Condemned]_vars
  <2>. SUFFICES ASSUME DaemonInv, [Next]_vars, stale' # stale, stale' # None
                PROVE  Condemned
    OBVIOUS
  <2>. USE DEF vars, workspace, barriers, memory, daemon, scratch, locals, history
  <2>1. ~(\E f \in Files \cup Sources : Edit(f)) /\ ~SwitchToolchain /\ ~(\E e \in Envs : WriteCertificate(e))
    BY DEF Edit, SwitchToolchain, WriteCertificate
  <2>2. ~WatchFails /\ ~Deliver /\ ~Receive
    BY DEF WatchFails, Deliver, Receive
  <2>3. ~TryCached /\ ~CheckProof /\ ~CheckProofToolchain /\ ~Remember
    BY DEF TryCached, CheckProof, CheckProofToolchain, Remember
  <2>4. ~ReadStamp /\ ~KnownStale /\ ~TakeBaseline /\ ~ReadCertificate /\ ~CheckGraph
        /\ ~CheckToolchain
    BY DEF ReadStamp, KnownStale, TakeBaseline, ReadCertificate, CheckGraph, CheckToolchain
  <2>5. ~Scan /\ ~Accept /\ ~Install /\ ~Child /\ ~Settle
    BY DEF Scan, Accept, Install, Child, Settle
  <2>6. ~StartBarrier /\ ~WriteMarker /\ ~BarrierPasses /\ ~BarrierGivesUp
    BY DEF StartBarrier, WriteMarker, BarrierPasses, BarrierGivesUp
  <2>7. Reject
    BY <2>1, <2>2, <2>3, <2>4, <2>5, <2>6 DEF Next, Serve
  <2>8. pc = "rejected" /\ SameCertificate /\ stale'.stamp = stamp
    BY <2>7 DEF Reject
  <2>9. cert # None /\ cert.stamp = stamp /\ stamp # None /\ StampNow = stamp
    BY <2>8 DEF SameCertificate, StampNow
  <2>. QED
    BY <2>8, <2>9 DEF DaemonInv, RejectionInv
<1>. QED
  BY <1>1, DaemonAlways, PTL DEF Spec, RejectionIsOfWhatWasRead

=============================================================================

------------------------------- MODULE Daemon -------------------------------
(***************************************************************************)
(* frostd answering "is everything up to date?" (frostbuild-daemon): the    *)
(* watcher callback, the watcher barrier, the remembered no-op, the full    *)
(* certificate validation, the remembered rejection and the child build.    *)
(*                                                                          *)
(* One step is one critical section of the daemon's mutex, one read of the  *)
(* disk, or one change somebody makes to the workspace.  Requests are       *)
(* served one at a time.  A certificate stands for what it claims: the      *)
(* graph sources, the file identities, the toolchain and the environment of *)
(* a build that found everything cached; its digest is its claim, its stamp *)
(* also its identity.                                                       *)
(***************************************************************************)
EXTENDS Integers, Sequences

CONSTANTS
  Files,        \* inputs and outputs
  Closures,     \* the sets of them a certificate may record
  Sources,      \* what the graph is made from: manifests, ignore files, listings
  Unwatched,    \* files and sources outside the workspace, symlinked or missing
  Identities,   \* of one file or source; also toolchain fingerprints
  Envs,         \* key environments of the clients
  Overflows,    \* whether the OS event queue may overflow
  MaxChanges,   \* bound: changes to the workspace
  MaxRequests,  \* bound: requests
  CertFile,     \* the path of the certificate, itself watched
  None

ASSUME DaemonAssumption ==
  /\ Unwatched \subseteq Files \cup Sources /\ Closures \subseteq SUBSET Files
  /\ CertFile \notin Files \cup Sources
  /\ Overflows \in BOOLEAN
  /\ MaxChanges \in Nat /\ MaxRequests \in Nat

Evidence == UNION {[S -> Identities] : S \in Closures}
Claims == [env : Envs, graph : [Sources -> Identities], files : Evidence,
           toolchain : Identities]

ASSUME DaemonNoneAssumption == None \notin Claims /\ None \notin Nat

VARIABLES
  disk,          \* the identity of every file and source
  toolchain,     \* the compiler installed on the machine
  cert,          \* the certificate on disk, with its stamp
  events,        \* events the OS queued for the watcher, oldest first
  changes,       \* changes made so far
  dirty,         \* DaemonState.dirty
  trusted,       \* DaemonState.watcher_trusted
  epoch,         \* DaemonState.event_epoch
  nextBarrier,   \* DaemonState.next_barrier
  barrierSeen,   \* DaemonState.barrier_seen
  cachedNoop,    \* DaemonState.cached_noop
  stale,         \* DaemonState.stale_certificate
  pc,            \* where the request being served is
  request,       \* its key environment
  served,        \* requests taken so far
  basis,         \* the proof or certificate the answer would rest on
  stamp,         \* the stamp read before validation
  unchecked,     \* sources, then files, validation has still to compare
  back,          \* who waits for the barrier
  ready,         \* barrier_ready
  stable,        \* the second barrier came through
  baseline,      \* baseline_epoch
  answer,        \* the answer last given, and how
  wasCurrent,    \* history: basis was True at one instant so far
  held,          \* history: the sources each as basis claims at some instant so far
  missed         \* history: the OS queue overflowed and an edit went unreported

workspace == <<disk, toolchain, cert, changes, missed>>
barriers == <<nextBarrier, barrierSeen>>
memory == <<cachedNoop, stale>>
daemon == <<dirty, trusted, epoch, barriers, memory>>
scratch == <<stamp, unchecked, back, ready, stable, baseline>>
locals == <<request, served, basis, scratch, answer>>
history == <<wasCurrent, held>>
vars == <<workspace, events, daemon, pc, locals, history>>

Paths == Files \cup Sources \cup {CertFile}

\* What the watcher callback receives.
Change(p) == [kind |-> "change", path |-> p, id |-> 0]
Marker(n) == [kind |-> "barrier", path |-> None, id |-> n]
Failure == [kind |-> "error", path |-> None, id |-> 0]
Rescan == [kind |-> "rescan", path |-> None, id |-> 0]

\* Every recorded file lies where the watcher sees it; of the sources nothing is asked.
Watchable(c) == DOMAIN c.files \cap Unwatched = {}

\* What c claims of the toolchain, of its files and of the sources in the watcher's
\* sight is true of the workspace, at one instant.
True(c) ==
  /\ c # None /\ c.toolchain = toolchain
  /\ \A f \in DOMAIN c.files : c.files[f] = disk[f]
  /\ \A m \in Sources \ Unwatched : c.graph[m] = disk[m]

\* The sources that are now as c claims.
Holding(c) == {m \in Sources : c # None /\ c.graph[m] = disk[m]}

\* Identities of different files are never compared, so that one start stands for all.
Init ==
  /\ \E i \in Identities : disk = [f \in Files \cup Sources |-> i] /\ toolchain = i
  /\ cert = None /\ events = <<>> /\ changes = 0
  /\ dirty = {} /\ trusted = TRUE /\ epoch = 0
  /\ nextBarrier = 0 /\ barrierSeen = 0
  /\ cachedNoop = None /\ stale = None
  /\ pc = "idle" /\ request \in Envs /\ served = 0
  /\ basis = None /\ stamp = None /\ unchecked = {} /\ back = "remember"
  /\ ready = FALSE /\ stable = FALSE /\ baseline = 0
  /\ answer = "none" /\ wasCurrent = FALSE /\ held = {} /\ missed = FALSE

-----------------------------------------------------------------------------
(* The workspace: editors, other builds and the child build.               *)

Enqueue(e) == events' = Append(events, e)

\* History: the change may bring the instant at which the claim, or a part of it, holds.
Witnessed ==
  /\ wasCurrent' = (wasCurrent \/ (pc # "idle" /\ True(basis)'))
  /\ held' = IF pc = "idle" THEN held ELSE held \cup Holding(basis)'

\* Somebody writes file or source f.  A full OS queue drops the event for a rescan mark; what
\* follows such a loss is bounded to no further change.
Edit(f) ==
  /\ changes < MaxChanges
  /\ \E i \in Identities \ {disk[f]} : disk' = [disk EXCEPT ![f] = i]
  /\ \/ f \in Unwatched /\ changes' = changes + 1 /\ UNCHANGED <<events, missed>>
     \/ f \notin Unwatched /\ changes' = changes + 1 /\ Enqueue(Change(f)) /\ UNCHANGED missed
     \/ /\ f \notin Unwatched /\ Overflows /\ changes' = MaxChanges
        /\ Enqueue(Rescan) /\ missed' = TRUE
  /\ UNCHANGED <<toolchain, cert, daemon, pc, locals>>
  /\ Witnessed

\* Somebody installs another compiler, outside the watched workspace.
SwitchToolchain ==
  /\ changes < MaxChanges /\ changes' = changes + 1
  /\ \E i \in Identities \ {toolchain} : toolchain' = i
  /\ UNCHANGED <<disk, cert, missed, events, daemon, pc, locals>>
  /\ Witnessed

\* A build, the daemon's child or another, found everything cached under
\* environment e: it renames a new certificate over the old one.
WriteCertificate(e) ==
  /\ changes < MaxChanges /\ changes' = changes + 1
  /\ \E S \in Closures :
       cert' = [claim |-> [env |-> e, graph |-> [m \in Sources |-> disk[m]],
                           files |-> [f \in S |-> disk[f]], toolchain |-> toolchain],
                stamp |-> changes']
  /\ Enqueue(Change(CertFile))
  /\ UNCHANGED <<disk, toolchain, missed, daemon, pc, locals, history>>

\* The watch backend breaks and says so.
WatchFails ==
  /\ changes < MaxChanges /\ changes' = changes + 1
  /\ Enqueue(Failure)
  /\ UNCHANGED <<disk, toolchain, cert, missed, daemon, pc, locals, history>>

-----------------------------------------------------------------------------
(* The watcher thread: one event through the callback of serve().          *)
\* Mutant: an event marks the path dirty but keeps the remembered no-op.
MutAfterChange(p) ==
  /\ dirty' = dirty \cup {p}
  /\ epoch' = epoch + 1
  /\ UNCHANGED <<trusted, barrierSeen, cachedNoop>>

\* Mutant: a change is not counted in the epoch.
MutUncounted(p) ==
  /\ dirty' = dirty \cup {p}
  /\ cachedNoop' = None
  /\ UNCHANGED <<trusted, barrierSeen, epoch>>

AfterChange(p) ==
  /\ dirty' = dirty \cup {p}
  /\ cachedNoop' = None
  /\ epoch' = epoch + 1
  /\ UNCHANGED <<trusted, barrierSeen>>

AfterMarker(n) ==
  /\ barrierSeen' = IF n > barrierSeen THEN n ELSE barrierSeen
  /\ UNCHANGED <<dirty, cachedNoop, epoch, trusted>>

\* Mutant: an error stops the watcher but leaves the remembered no-op.
MutAfterFailure ==
  /\ trusted' = FALSE
  /\ epoch' = epoch + 1
  /\ UNCHANGED <<dirty, barrierSeen, cachedNoop>>

AfterFailure ==
  /\ trusted' = FALSE
  /\ cachedNoop' = None
  /\ epoch' = epoch + 1
  /\ UNCHANGED <<dirty, barrierSeen>>

\* notify reports lost events as kind Other, which the callback filters out.
AfterRescan == UNCHANGED <<dirty, cachedNoop, epoch, trusted, barrierSeen>>

Deliver ==
  /\ events # <<>>
  /\ events' = Tail(events)
  /\ LET e == Head(events)
     IN \/ e.kind = "change" /\ AfterChange(e.path)
        \/ e.kind = "barrier" /\ AfterMarker(e.id)
        \/ e.kind = "error" /\ AfterFailure
        \/ e.kind = "rescan" /\ AfterRescan
  /\ UNCHANGED <<workspace, nextBarrier, stale, pc, locals, history>>

-----------------------------------------------------------------------------
(* Serving: handle(), one request after another.                           *)

Receive ==
  /\ pc = "idle" /\ served < MaxRequests
  /\ served' = served + 1
  /\ request' \in Envs
  /\ pc' \in {"try_cached", "child"}
  /\ basis' = None /\ answer' = "none" /\ wasCurrent' = FALSE /\ held' = {}
  /\ UNCHANGED <<workspace, events, daemon, scratch>>

\* The answer a leaves, and with it the locals of the functions that found it.
Answered(a) ==
  /\ pc' = "idle" /\ answer' = a
  /\ stamp' = None /\ unchecked' = {} /\ back' = "remember"
  /\ ready' = FALSE /\ stable' = FALSE /\ baseline' = 0

\* Mutant: a remembered no-op answers for any environment.
MutMatches(c, e) == TRUE

Matches(c, e) == c.env = e

\* try_cached_noop, first critical section.
TryCached ==
  /\ pc = "try_cached"
  /\ IF trusted /\ dirty = {} /\ cachedNoop # None /\ Matches(cachedNoop, request)
     THEN /\ basis' = cachedNoop
          /\ wasCurrent' = True(cachedNoop) /\ held' = Holding(cachedNoop)
          /\ pc' = "check_proof"
     ELSE /\ pc' = "read_stamp"
          /\ UNCHANGED <<basis, history>>
  /\ UNCHANGED <<workspace, events, daemon, request, served, stamp, unchecked, back, ready,
                 stable, baseline, answer>>

\* A failed check_watch_proof forgets the no-op.
DropProof ==
  /\ cachedNoop' = None
  /\ pc' = "read_stamp"

\* check_watch_proof: the certificate on disk still has the proof's digest.
CheckProof ==
  /\ pc = "check_proof"
  /\ IF cert # None /\ cert.claim = basis
     THEN pc' = "check_proof_toolchain" /\ UNCHANGED cachedNoop
     ELSE DropProof
  /\ UNCHANGED <<workspace, events, dirty, trusted, epoch, barriers, stale, locals, history>>

\* check_watch_proof: the toolchain, which no event would announce.
\* Mutant: only the certificate is compared.
MutToolchainHolds == TRUE

ToolchainHolds == toolchain = basis.toolchain

\* The toolchain cannot be fingerprinted: the request fails, nothing is forgotten.
Unreadable == Answered("failed") /\ UNCHANGED cachedNoop

CheckProofToolchain ==
  /\ pc = "check_proof_toolchain"
  /\ \/ ToolchainHolds /\ pc' = "barrier" /\ UNCHANGED <<cachedNoop, scratch, answer>>
     \/ ~ToolchainHolds /\ DropProof /\ UNCHANGED <<scratch, answer>>
     \/ Unreadable
  /\ UNCHANGED <<workspace, events, dirty, trusted, epoch, barriers, stale, request, served,
                 basis, history>>

\* try_cached_noop, after its barrier.
Remember ==
  /\ pc = "remember"
  /\ IF trusted /\ dirty = {} /\ cachedNoop # None
     THEN Answered("remembered")
     ELSE pc' = "read_stamp" /\ UNCHANGED <<scratch, answer>>
  /\ UNCHANGED <<workspace, events, daemon, request, served, basis, history>>

StampNow == IF cert = None THEN None ELSE cert.stamp

\* try_full_noop starts by stamping the certificate.
ReadStamp ==
  /\ pc = "read_stamp"
  /\ stamp' = StampNow
  /\ pc' = "known_stale"
  /\ UNCHANGED <<workspace, events, daemon, request, served, basis, unchecked, back, ready,
                 stable, baseline, answer, history>>

\* A certificate rejected before, and not rewritten since, goes to a child build.
KnownStale ==
  /\ pc = "known_stale"
  /\ IF stamp # None /\ stale = [env |-> request, stamp |-> stamp]
     THEN pc' = "child" /\ UNCHANGED back
     ELSE pc' = "barrier" /\ back' = "baseline"
  /\ UNCHANGED <<workspace, events, daemon, request, served, basis, stamp, unchecked, ready,
                 stable, baseline, answer, history>>

\* The epoch the whole validation must leave untouched.
TakeBaseline ==
  /\ pc = "baseline"
  /\ dirty' = IF ready /\ trusted THEN {} ELSE dirty
  /\ baseline' = epoch
  /\ pc' = "read_certificate"
  /\ UNCHANGED <<workspace, events, trusted, epoch, barriers, memory, request, served, basis,
                 stamp, unchecked, back, ready, stable, answer, history>>

\* try_fast_noop_for_daemon: environment, then the graph, the toolchain, every file.
ReadCertificate ==
  /\ pc = "read_certificate"
  /\ IF cert # None /\ cert.claim.env = request
     THEN /\ basis' = cert.claim
          /\ wasCurrent' = True(cert.claim) /\ held' = Holding(cert.claim)
          /\ pc' = "check_graph" /\ unchecked' = Sources
     ELSE pc' = "rejected" /\ UNCHANGED <<basis, unchecked, history>>
  /\ UNCHANGED <<workspace, events, daemon, request, served, stamp, back, ready, stable,
                 baseline, answer>>

\* Mutant: the sources of the graph are not compared.
MutSourceHolds(m) == TRUE

SourceHolds(m) == basis.graph[m] = disk[m]

\* cached_fingerprint reads the sources again, through symbolic links, and compares them
\* with the graph store's stamp; the identity of a source is what it adds to the
\* fingerprint, so that no store, or one stamped before a change of no account, rejects too.
CheckGraph ==
  /\ pc = "check_graph"
  /\ \/ unchecked = {} /\ pc' = "check_toolchain" /\ UNCHANGED unchecked
     \/ \E m \in unchecked :
          SourceHolds(m) /\ unchecked' = unchecked \ {m} /\ UNCHANGED pc
     \/ pc' = "rejected" /\ unchecked' = {}
  /\ UNCHANGED <<workspace, events, daemon, request, served, basis, stamp, back, ready,
                 stable, baseline, answer, history>>

CheckToolchain ==
  /\ pc = "check_toolchain"
  /\ \/ /\ ToolchainHolds /\ pc' = "scan" /\ unchecked' = DOMAIN basis.files
        /\ UNCHANGED <<cachedNoop, stamp, back, ready, stable, baseline, answer>>
     \/ ~ToolchainHolds /\ pc' = "rejected" /\ UNCHANGED <<cachedNoop, scratch, answer>>
     \/ Unreadable
  /\ UNCHANGED <<workspace, events, dirty, trusted, epoch, barriers, stale, request, served,
                 basis, history>>

\* rayon stats the files in any order; one mismatch rejects.
Scan ==
  /\ pc = "scan"
  /\ \/ /\ unchecked = {}
        /\ pc' = "accepted" /\ UNCHANGED unchecked
     \/ \E f \in unchecked :
          IF disk[f] = basis.files[f]
          THEN unchecked' = unchecked \ {f} /\ UNCHANGED pc
          ELSE pc' = "rejected" /\ UNCHANGED unchecked
  /\ UNCHANGED <<workspace, events, daemon, request, served, basis, stamp, back, ready,
                 stable, baseline, answer, history>>

\* The rejection is remembered if the certificate was not replaced meanwhile.
\* Mutant: the certificate on disk is not stamped again.
MutSameCertificate == stamp # None

SameCertificate == stamp # None /\ StampNow = stamp

Reject ==
  /\ pc = "rejected"
  /\ stale' = IF SameCertificate THEN [env |-> request, stamp |-> stamp] ELSE None
  /\ pc' = "child"
  /\ UNCHANGED <<workspace, events, dirty, trusted, epoch, barriers, cachedNoop, locals,
                 history>>

\* A valid certificate; without a first barrier the second is not asked for.
Accept ==
  /\ pc = "accepted"
  /\ stale' = None
  /\ IF ready THEN pc' = "barrier" /\ back' = "install" /\ UNCHANGED stable
     ELSE pc' = "install" /\ stable' = FALSE /\ UNCHANGED back
  /\ UNCHANGED <<workspace, events, dirty, trusted, epoch, barriers, cachedNoop, request,
                 served, basis, stamp, unchecked, ready, baseline, answer, history>>

\* Mutant: events that arrived during validation are not looked for.
MutQuiet == stable /\ trusted

Quiet == stable /\ trusted /\ epoch = baseline

\* Mutant: a claim about files nobody watches is remembered as well.
MutProofFor(c) == c

\* Only what the watcher covers completely may be remembered.
ProofFor(c) == IF Watchable(c) THEN c ELSE None

Install ==
  /\ pc = "install"
  /\ dirty' = IF Quiet THEN {} ELSE dirty
  /\ cachedNoop' = IF Quiet THEN ProofFor(basis) ELSE None
  /\ \/ ~ready /\ Answered("unguarded")
     \/ ready /\ Quiet /\ Answered("validated")
     \/ ready /\ ~Quiet /\ pc' = "child" /\ UNCHANGED <<scratch, answer>>
  /\ UNCHANGED <<workspace, events, trusted, epoch, barriers, stale, request, served, basis,
                 history>>

\* The child build fails or cannot be spawned, or succeeds and is drained.
Child ==
  /\ pc = "child"
  /\ \/ Answered("failed")
     \/ /\ pc' = "barrier" /\ back' = "settle"
        /\ UNCHANGED <<stamp, unchecked, ready, stable, baseline, answer>>
  /\ UNCHANGED <<workspace, events, daemon, request, served, basis, history>>

Settle ==
  /\ pc = "settle"
  /\ dirty' = {} /\ cachedNoop' = None
  /\ Answered("built")
  /\ UNCHANGED <<workspace, events, trusted, epoch, barriers, stale, request, served, basis,
                 history>>

-----------------------------------------------------------------------------
(* watcher_barrier: write a marker file and wait until its event arrives.   *)

\* Return to whoever called with verdict ok.
Return(ok) ==
  /\ pc' = IF back = "remember" /\ ~ok THEN "read_stamp" ELSE back
  /\ ready' = IF back = "baseline" THEN ok ELSE ready
  /\ stable' = IF back = "install" THEN ok ELSE stable

Distrust == trusted' = FALSE /\ cachedNoop' = None

\* The next marker's number, unless the watcher is not trusted any more.
StartBarrier ==
  /\ pc = "barrier"
  /\ \/ ~trusted /\ Return(FALSE) /\ UNCHANGED nextBarrier
     \/ trusted /\ nextBarrier' = nextBarrier + 1 /\ pc' = "write_marker"
        /\ UNCHANGED <<ready, stable>>
  /\ UNCHANGED <<workspace, events, dirty, trusted, epoch, barrierSeen, memory, request,
                 served, basis, stamp, unchecked, back, baseline, answer, history>>

WriteMarker ==
  /\ pc = "write_marker"
  /\ \/ /\ Enqueue(Marker(nextBarrier))
        /\ pc' = "await"
        /\ UNCHANGED <<trusted, cachedNoop, ready, stable>>
     \/ /\ Distrust /\ Return(FALSE)
        /\ UNCHANGED events
  /\ UNCHANGED <<workspace, dirty, epoch, barriers, stale, request, served, basis, stamp,
                 unchecked, back, baseline, answer, history>>

\* Mutant: any marker will do.
MutObserved == trusted /\ barrierSeen > 0

Observed == trusted /\ barrierSeen >= nextBarrier

\* The marker arrived.
BarrierPasses ==
  /\ pc = "await" /\ Observed
  /\ Return(TRUE)
  /\ UNCHANGED <<workspace, events, daemon, request, served, basis, stamp, unchecked, back,
                 baseline, answer, history>>

\* 500 ms passed, or the watcher failed: no event is believed any more.
\* Mutant: there is no deadline.
MutDeadline == ~trusted

Deadline == TRUE

BarrierGivesUp ==
  /\ pc = "await" /\ ~Observed /\ Deadline
  /\ Distrust /\ Return(FALSE)
  /\ UNCHANGED <<workspace, events, dirty, epoch, barriers, stale, request, served, basis,
                 stamp, unchecked, back, baseline, answer, history>>

Serve ==
  \/ TryCached \/ CheckProof \/ CheckProofToolchain \/ Remember
  \/ ReadStamp \/ KnownStale \/ TakeBaseline \/ ReadCertificate \/ CheckGraph
  \/ CheckToolchain \/ Scan \/ Reject \/ Accept \/ Install \/ Child \/ Settle
  \/ StartBarrier \/ WriteMarker \/ BarrierPasses \/ BarrierGivesUp

Next ==
  \/ \E f \in Files \cup Sources : Edit(f)
  \/ SwitchToolchain
  \/ \E e \in Envs : WriteCertificate(e)
  \/ WatchFails
  \/ Deliver
  \/ Receive
  \/ Serve

Spec == Init /\ [][Next]_vars
-----------------------------------------------------------------------------
(* Properties *)

Places == {"idle", "try_cached", "check_proof", "check_proof_toolchain", "remember",
           "read_stamp", "known_stale", "baseline", "read_certificate", "check_graph",
           "check_toolchain", "scan", "rejected", "accepted", "install", "child", "settle",
           "barrier", "write_marker", "await"}
Answers == {"none", "remembered", "validated", "unguarded", "failed", "built"}
Events == [kind : {"change", "barrier", "error", "rescan"}, path : Paths \cup {None}, id : Nat]

\* Every variable keeps its type.
TypeOK ==
  /\ disk \in [Files \cup Sources -> Identities] /\ toolchain \in Identities
  /\ cert \in [claim : Claims, stamp : Nat] \cup {None}
  /\ events \in Seq(Events) /\ changes \in Nat
  /\ dirty \subseteq Paths \cup {None} /\ trusted \in BOOLEAN /\ epoch \in Nat
  /\ nextBarrier \in Nat /\ barrierSeen \in Nat
  /\ cachedNoop \in Claims \cup {None}
  /\ stale \in [env : Envs, stamp : Nat] \cup {None}
  /\ pc \in Places /\ request \in Envs /\ served \in Nat
  /\ basis \in Claims \cup {None} /\ stamp \in Nat \cup {None}
  /\ unchecked \subseteq Files \cup Sources
  /\ back \in {"remember", "baseline", "install", "settle"}
  /\ ready \in BOOLEAN /\ stable \in BOOLEAN /\ baseline \in Nat
  /\ answer \in Answers
  /\ wasCurrent \in BOOLEAN /\ held \subseteq Sources /\ missed \in BOOLEAN

Pending(p) == \E i \in 1 .. Len(events) : events[i].kind = "change" /\ events[i].path = p

\* What the daemon remembers of files, and of the graph sources in the watcher's sight,
\* is true of the workspace, except for those whose change is still on its way (or was
\* dropped with an overflow): an edit is never both delivered and forgotten, and
\* nothing is remembered beside a dirty path or a watcher that is not trusted.
MemoryTracksWorkspace ==
  cachedNoop # None =>
    /\ trusted /\ dirty = {}
    /\ ~missed =>
         /\ \A f \in DOMAIN cachedNoop.files : disk[f] # cachedNoop.files[f] => Pending(f)
         /\ \A m \in Sources \ Unwatched : disk[m] # cachedNoop.graph[m] => Pending(m)

\* "Up to date" is only answered from memory, or from a validation between two
\* barriers, if everything the certificate claims that is in the watcher's sight held
\* at one instant while the request was being served, however edits, compiler
\* switches, new certificates and delayed events fall between the checks.  An overflow
\* of the OS queue, which the callback ignores, voids this.  Whoever validated has
\* besides seen every graph source, watched or not, as claimed while serving; whoever
\* answers from memory has not, and an unwatched source may have changed since.
HitWasCurrent ==
  /\ answer = "remembered" \/ (answer = "validated" /\ Watchable(basis))
       => wasCurrent \/ missed
  /\ answer \in {"validated", "unguarded"} => held = Sources

\* A hit rests on a claim about the environment of the client that asked.
HitForThisClient ==
  answer \in {"remembered", "validated", "unguarded"} => basis.env = request

\* What the daemon answers and remembers is true, and is the client's own: the
\* state is well typed and the three properties above hold.
HitsAreTrue == TypeOK /\ MemoryTracksWorkspace /\ HitWasCurrent /\ HitForThisClient

\* The certificate whose rejection is remembered is the one on disk and, if it was
\* issued to this client, the very one validation read: one renamed into place
\* meanwhile is not condemned for its predecessor.
RejectionIsOfWhatWasRead ==
  [][stale' # stale /\ stale' # None =>
       /\ cert # None /\ cert.stamp = stale'.stamp
       /\ cert.claim.env = request => basis = cert.claim]_vars

\* A request never hangs on the watcher: markers may be lost or late for ever, the
\* backend may die, and the thread that serves it still has a step to take.
RequestGoesOn == pc # "idle" => ENABLED Serve
=============================================================================

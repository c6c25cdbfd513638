---------------------------- MODULE RemoteProofs ----------------------------
(***************************************************************************)
(* The remote cache changes nothing but how often an action runs: every     *)
(* entry of the server is a trace, and what a build is done with is what    *)
(* running the action gives, whatever the server and other workspaces do.   *)
(***************************************************************************)
EXTENDS Remote, TLAPS

\* What a build of w reads of its tree, as far as it has settled.
Inputs(w) == [f \in Reads(settled[w]["src"]) |-> settled[w][f]]
AllSettled(w) == \A f \in Reads(settled[w]["src"]) : settled[w][f] # None

\* e is what running p on the settled inputs gives.
IsTrace(p, e) ==
  /\ "discovered" \in DOMAIN e
  /\ DOMAIN e.discovered = Reads(settled[p[1]]["src"]) \ {"src"}
  /\ \A f \in DOMAIN e.discovered : e.discovered[f] = settled[p[1]][f]
  /\ e.outputs = Made(p[2], Inputs(p[1]))

\* The journal knows a run on the settled inputs.
KnownHere(p) == p \in DOMAIN journal /\ journal[p].inputs = Inputs(p[1])

\* What a worker has in hand at each step.
WorkerInv(p) ==
  /\ pc[p] \notin {"idle", "decide"} => settled[p[1]]["src"] # None
  /\ pc[p] \in {"stage", "write", "verify", "put", "publish"} =>
       AllSettled(p[1]) /\ IsTrace(p, got[p])
  /\ pc[p] = "restore" => AllSettled(p[1]) /\ KnownHere(p) /\ got[p] = journal[p]
  /\ pc[p] = "record" =>
       AllSettled(p[1]) /\ (IsTrace(p, got[p]) \/ (KnownHere(p) /\ got[p] = journal[p]))
  /\ pc[p] \in {"publish", "record"} => outs[p] = got[p].outputs
  /\ pc[p] = "built" => AllSettled(p[1]) /\ KnownHere(p) /\ outs[p] = journal[p].outputs

\* A recorded result is that of running the action on the recorded inputs.
RecordInv(p) ==
  p \in DOMAIN journal =>
    /\ DOMAIN journal[p] = {"inputs", "outputs"}
    /\ journal[p].inputs \in [Reads(journal[p].inputs["src"]) -> Contents]
    /\ journal[p].outputs = Made(p[2], journal[p].inputs)

\* So is an entry of the server; this is EntriesAreTraces with its parts apart.
EntryInv ==
  \A key \in DOMAIN entries : entries[key] # Malformed =>
    /\ "discovered" \in DOMAIN entries[key]
    /\ DOMAIN entries[key].discovered = Reads(key[2]) \ {"src"}
    /\ entries[key].outputs = Made(key[1], TraceOf(key, entries[key]))

\* Until every command of a build has read its files, what is settled is what
\* the tree holds: an edit waits for them.
Early == {"decide", "lookup", "stage", "write", "verify", "put", "restore", "run"}
TreeInv ==
  \A w \in Workspaces : (\E p \in WorkersOf(w) : pc[p] \in Early) =>
    \A f \in FilesOfTree : settled[w][f] \in {None, tree[w][f]}

Shapes ==
  /\ tree \in [Workspaces -> [FilesOfTree -> Contents]]
  /\ settled \in [Workspaces -> [FilesOfTree -> Contents \cup {None}]]
  /\ DOMAIN pc = Workers /\ DOMAIN got = Workers /\ DOMAIN outs = Workers

RemoteInv ==
  /\ Shapes /\ EntryInv /\ TreeInv
  /\ \A p \in Workers : WorkerInv(p) /\ RecordInv(p)

-----------------------------------------------------------------------------
(* Digests                                                                  *)

LEMMA WorkerPlace ==
  ASSUME NEW p \in Workers
  PROVE  p[1] \in Workspaces /\ p \in WorkersOf(p[1])
BY DEF Workers, WorkersOf

LEMMA ReadsWhat ==
  ASSUME NEW c
  PROVE  "src" \in Reads(c) /\ Reads(c) \subseteq FilesOfTree
BY DEF Reads, FilesOfTree

\* A digest is that of some content.
LEMMA DigestType ==
  ASSUME Shapes, NEW w \in Workspaces, NEW f \in FilesOfTree
  PROVE  DigestOf(w, f) \in Contents /\ DigestOf(w, f) # None
BY ContentAssumption DEF Shapes, DigestOf

\* What is settled stays so for the build.
Growth ==
  /\ settled' \in [Workspaces -> [FilesOfTree -> Contents \cup {None}]]
  /\ \A w \in Workspaces : \A f \in FilesOfTree :
       settled'[w][f] = settled[w][f] \/ (settled[w][f] = None /\ settled'[w][f] = tree[w][f])

LEMMA SettleGrows ==
  ASSUME Shapes, NEW w \in Workspaces, NEW files, files \subseteq FilesOfTree, Settle(w, files)
  PROVE  /\ Growth
         /\ \A f \in files : settled'[w][f] = DigestOf(w, f) /\ settled'[w][f] # None
         /\ \A f \in FilesOfTree : settled[w][f] # None => DigestOf(w, f) = settled[w][f]
<1>1. settled \in [Workspaces -> [FilesOfTree -> Contents \cup {None}]]
  BY DEF Shapes
<1>2. \A f \in FilesOfTree : DigestOf(w, f) \in Contents /\ DigestOf(w, f) # None
  BY DigestType
<1>. DEFINE new == [f \in FilesOfTree |-> IF f \in files THEN DigestOf(w, f) ELSE settled[w][f]]
<1>3. settled' = [settled EXCEPT ![w] = new]
  BY DEF Settle
<1>4. new \in [FilesOfTree -> Contents \cup {None}]
  BY <1>1, <1>2
<1>5. \A f \in FilesOfTree : new[f] = IF f \in files THEN DigestOf(w, f) ELSE settled[w][f]
  OBVIOUS
<1>. HIDE DEF new
<1>6. settled' \in [Workspaces -> [FilesOfTree -> Contents \cup {None}]]
  BY <1>1, <1>3, <1>4
<1>7. settled'[w] = new /\ \A v \in Workspaces : v # w => settled'[v] = settled[v]
  BY <1>1, <1>3
<1>8. \A f \in FilesOfTree : DigestOf(w, f) = IF settled[w][f] # None THEN settled[w][f] ELSE tree[w][f]
  BY DEF DigestOf
<1>9. ASSUME NEW v \in Workspaces, NEW f \in FilesOfTree
      PROVE  settled'[v][f] = settled[v][f] \/ (settled[v][f] = None /\ settled'[v][f] = tree[v][f])
  BY <1>5, <1>7, <1>8, <1>9
<1>10. \A f \in files : settled'[w][f] = DigestOf(w, f) /\ settled'[w][f] # None
  BY <1>2, <1>5, <1>7
<1>. QED
  BY <1>6, <1>8, <1>9, <1>10 DEF Growth

LEMMA NothingSettled ==
  ASSUME Shapes, settled' = settled
  PROVE  Growth
BY DEF Growth, Shapes

\* What all inputs being settled means for a later moment of the build.
LEMMA InputsStay ==
  ASSUME Shapes, Growth, NEW w \in Workspaces, settled[w]["src"] # None
  PROVE  /\ settled'[w]["src"] = settled[w]["src"]
         /\ AllSettled(w) => AllSettled(w)' /\ Inputs(w)' = Inputs(w)
                             /\ \A f \in Reads(settled[w]["src"]) : settled'[w][f] = settled[w][f]
<1>1. settled'[w]["src"] = settled[w]["src"]
  BY DEF Growth, FilesOfTree
<1>2. ASSUME AllSettled(w)
      PROVE  \A f \in Reads(settled[w]["src"]) : settled'[w][f] = settled[w][f]
  BY <1>2, ReadsWhat DEF Growth, AllSettled
<1>3. ASSUME AllSettled(w)
      PROVE  AllSettled(w)' /\ Inputs(w)' = Inputs(w)
  BY <1>1, <1>2, <1>3 DEF AllSettled, Inputs
<1>. QED
  BY <1>1, <1>2, <1>3

\* A worker that does nothing keeps what it has.
RecordKept(p) ==
  /\ p \in DOMAIN journal => journal'[p] = journal[p]
  /\ p \in DOMAIN journal' <=> p \in DOMAIN journal
Idles(p) ==
  /\ pc'[p] = pc[p] /\ got'[p] = got[p] /\ outs'[p] = outs[p]
  /\ RecordKept(p)

LEMMA OthersKeep ==
  ASSUME Shapes, Growth, NEW p \in Workers, WorkerInv(p), Idles(p)
  PROVE  WorkerInv(p)'
<1>. DEFINE w == p[1]
<1>1. w \in Workspaces
  BY WorkerPlace
<1>2. CASE pc[p] \in {"idle", "decide"}
  BY <1>2 DEF Idles, RecordKept, WorkerInv
<1>3. CASE pc[p] \notin {"idle", "decide"}
  <2>1. settled[w]["src"] # None
    BY <1>3 DEF WorkerInv
  <2>2. settled'[w]["src"] = settled[w]["src"]
    BY <1>1, <2>1, InputsStay
  <2>3. CASE ~AllSettled(w)
    BY <1>3, <2>1, <2>2, <2>3 DEF WorkerInv, Idles, RecordKept
  <2>4. CASE AllSettled(w)
    <3>1. /\ AllSettled(w)' /\ Inputs(w)' = Inputs(w)
          /\ \A f \in Reads(settled[w]["src"]) : settled'[w][f] = settled[w][f]
      BY <1>1, <2>1, <2>4, InputsStay
    <3>2. IsTrace(p, got[p]) => IsTrace(p, got[p])'
      BY <2>2, <3>1 DEF IsTrace, Idles, RecordKept
    <3>3. KnownHere(p) => KnownHere(p)'
      BY <3>1 DEF KnownHere, Idles, RecordKept
    <3>4. KnownHere(p) => journal'[p] = journal[p]
      BY DEF KnownHere, Idles, RecordKept
    <3>5. pc'[p] = pc[p] /\ got'[p] = got[p] /\ outs'[p] = outs[p]
      BY DEF Idles
    <3>. QED
      BY <2>1, <2>2, <2>4, <3>1, <3>2, <3>3, <3>4, <3>5 DEF WorkerInv
  <2>. QED
    BY <2>3, <2>4
<1>. QED
  BY <1>2, <1>3

\* A step of one worker.
LEMMA WorkerStep ==
  ASSUME RemoteInv, NEW p \in Workers, Growth, tree' = tree, EntryInv',
         DOMAIN pc' = Workers, DOMAIN got' = Workers, DOMAIN outs' = Workers,
         \A q \in Workers : q # p => Idles(q),
         pc'[p] \in Early => pc[p] \in Early,
         WorkerInv(p)', RecordInv(p)'
  PROVE  RemoteInv'
<1>1. Shapes /\ TreeInv /\ \A q \in Workers : WorkerInv(q) /\ RecordInv(q)
  BY DEF RemoteInv
<1>2. Shapes'
  BY <1>1 DEF Shapes, Growth
<1>3. TreeInv'
  <2>1. ASSUME NEW w \in Workspaces, NEW q \in WorkersOf(w), pc'[q] \in Early, NEW f \in FilesOfTree
        PROVE  settled'[w][f] \in {None, tree'[w][f]}
    <3>1. q \in Workers /\ pc[q] \in Early
      BY <2>1 DEF WorkersOf, Idles, RecordKept
    <3>2. settled[w][f] \in {None, tree[w][f]}
      BY <1>1, <2>1, <3>1 DEF TreeInv
    <3>. QED
      BY <3>2 DEF Growth
  <2>2. \A w \in Workspaces : WorkersOf(w)' = WorkersOf(w)
    BY DEF WorkersOf
  <2>. QED
    BY <2>1, <2>2 DEF TreeInv
<1>4. ASSUME NEW q \in Workers
      PROVE  WorkerInv(q)' /\ RecordInv(q)'
  <2>1. CASE q = p
    BY <2>1
  <2>2. CASE q # p
    <3>1. Idles(q)
      BY <2>2
    <3>2. WorkerInv(q)'
      BY <1>1, <3>1, OthersKeep
    <3>3. RecordInv(q)'
      BY <1>1, <3>1 DEF RecordInv, Idles, RecordKept
    <3>. QED
      BY <3>2, <3>3
  <2>. QED
    BY <2>1, <2>2
<1>. QED
  BY <1>2, <1>3, <1>4 DEF RemoteInv

\* What only p changes.
LEMMA PointStep ==
  ASSUME NEW f, NEW p \in Workers, NEW v, DOMAIN f = Workers
  PROVE  /\ DOMAIN [f EXCEPT ![p] = v] = Workers /\ [f EXCEPT ![p] = v][p] = v
         /\ \A q \in Workers : q # p => [f EXCEPT ![p] = v][q] = f[q]
OBVIOUS

\* A step of p that touches neither what it has in hand nor the journal.
LEMMA PcStep ==
  ASSUME RemoteInv, NEW p \in Workers, NEW s, Go(p, s), Growth, tree' = tree, entries' = entries,
         got' = got, journal' = journal, outs' = outs,
         s \in Early => pc[p] \in Early, WorkerInv(p)'
  PROVE  RemoteInv'
<1>1. Shapes /\ EntryInv /\ RecordInv(p)
  BY DEF RemoteInv
<1>2. pc' = [pc EXCEPT ![p] = s]
  BY DEF Go
<1>3. DOMAIN pc' = Workers /\ pc'[p] = s /\ \A q \in Workers : q # p => pc'[q] = pc[q]
  BY <1>1, <1>2, PointStep DEF Shapes
<1>4. \A q \in Workers : q # p => Idles(q)
  BY <1>3 DEF Idles, RecordKept
<1>5. EntryInv' /\ RecordInv(p)'
  BY <1>1 DEF EntryInv, RecordInv
<1>6. DOMAIN got' = Workers  /\ DOMAIN outs' = Workers
  BY <1>1 DEF Shapes
<1>. QED
  BY <1>3, <1>4, <1>5, <1>6, WorkerStep

\* A step into "run", which nothing is asked of but that src was digested.
LEMMA ToRun ==
  ASSUME RemoteInv, NEW p \in Workers, Go(p, "run"), Growth, tree' = tree, entries' = entries,
         got' = got, journal' = journal, outs' = outs,
         pc[p] \in Early \ {"decide"}
  PROVE  RemoteInv'
<1>1. Shapes /\ WorkerInv(p)
  BY DEF RemoteInv
<1>2. pc'[p] = "run"
  BY <1>1 DEF Go, Shapes
<1>3. settled[p[1]]["src"] # None
  BY <1>1 DEF WorkerInv, Early
<1>4. settled'[p[1]]["src"] # None
  BY <1>1, <1>3, WorkerPlace, InputsStay
<1>5. WorkerInv(p)'
  BY <1>2, <1>4 DEF WorkerInv
<1>. QED
  BY <1>5, PcStep

\* A step among those that fetch the blobs of the entry in hand.
Fetching == {"stage", "write", "verify", "put"}

LEMMA ToFetch ==
  ASSUME RemoteInv, NEW p \in Workers, NEW s \in Fetching, Go(p, s), pc[p] \in Fetching,
         settled' = settled, tree' = tree, entries' = entries, got' = got, journal' = journal, outs' = outs
  PROVE  RemoteInv'
<1>1. Shapes /\ WorkerInv(p)
  BY DEF RemoteInv
<1>2. pc'[p] = s
  BY <1>1 DEF Go, Shapes
<1>3. settled[p[1]]["src"] # None /\ AllSettled(p[1]) /\ IsTrace(p, got[p])
  BY <1>1 DEF WorkerInv, Fetching
<1>4. AllSettled(p[1])' /\ IsTrace(p, got[p])'
  BY <1>3 DEF AllSettled, IsTrace, Inputs
<1>5. WorkerInv(p)'
  BY <1>2, <1>3, <1>4 DEF WorkerInv, Fetching
<1>6. Growth
  BY <1>1, NothingSettled
<1>. QED
  BY <1>5, <1>6, PcStep DEF Early, Fetching

\* A step that touches no worker and nothing it goes by.
LEMMA NoWorkerStep ==
  ASSUME RemoteInv, UNCHANGED <<settled, pc, got, journal, outs>>,
         tree' \in [Workspaces -> [FilesOfTree -> Contents]], EntryInv', TreeInv'
  PROVE  RemoteInv'
<1>1. Shapes /\ \A p \in Workers : WorkerInv(p) /\ RecordInv(p)
  BY DEF RemoteInv
<1>2. Growth /\ Shapes'
  BY <1>1, NothingSettled DEF Shapes
<1>3. ASSUME NEW p \in Workers
      PROVE  WorkerInv(p)' /\ RecordInv(p)'
  <2>1. Idles(p)
    BY DEF Idles, RecordKept
  <2>2. WorkerInv(p)'
    BY <1>1, <1>2, <2>1, OthersKeep
  <2>3. RecordInv(p)'
    BY <1>1 DEF RecordInv
  <2>. QED
    BY <2>2, <2>3
<1>. QED
  BY <1>2, <1>3 DEF RemoteInv

-----------------------------------------------------------------------------
(* Workers                                                                  *)

LEMMA DecideKeeps ==
  ASSUME RemoteInv, NEW p \in Workers, Decide(p)
  PROVE  RemoteInv'
<1>. DEFINE w == p[1]
            known == journal[p]
            read == {"src"} \cup (IF p \in DOMAIN journal THEN DOMAIN known.inputs ELSE {})
<1>1. Shapes /\ EntryInv /\ WorkerInv(p) /\ RecordInv(p) /\ w \in Workspaces
  BY WorkerPlace DEF RemoteInv
<1>2. /\ pc[p] = "decide" /\ Settle(w, read)
      /\ UNCHANGED <<tree, entries, journal, outs>>
  BY DEF Decide, server
<1>3. read \subseteq FilesOfTree
  BY <1>1, ReadsWhat DEF RecordInv, FilesOfTree
<1>4. /\ Growth /\ \A f \in read : settled'[w][f] = DigestOf(w, f) /\ settled'[w][f] # None
  <2>. HIDE DEF read
  <2>. QED
    BY <1>1, <1>2, <1>3, SettleGrows
<1>5. settled'[w]["src"] # None
  BY <1>4
<1>6. ASSUME p \in DOMAIN journal, \A f \in read : DigestOf(w, f) = known.inputs[f]
      PROVE  AllSettled(w)' /\ KnownHere(p)'
  <2>1. /\ known.inputs \in [Reads(known.inputs["src"]) -> Contents]
        /\ DOMAIN known.inputs = Reads(known.inputs["src"])
    BY <1>1, <1>6 DEF RecordInv
  <2>2. \A f \in DOMAIN known.inputs : settled'[w][f] = known.inputs[f] /\ settled'[w][f] # None
    BY <1>4, <1>6
  <2>3. settled'[w]["src"] = known.inputs["src"]
    BY <2>1, <2>2, ReadsWhat
  <2>4. AllSettled(w)'
    BY <2>1, <2>2, <2>3 DEF AllSettled
  <2>5. known.inputs = Inputs(w)'
    BY <2>1, <2>2, <2>3 DEF Inputs
  <2>. QED
    BY <1>2, <1>6, <2>4, <2>5 DEF KnownHere
<1>7. CASE /\ p \in DOMAIN journal /\ \A f \in read : DigestOf(w, f) = known.inputs[f]
           /\ outs[p] = known.outputs /\ Go(p, "built") /\ got' = got
  <2>1. pc'[p] = "built"
    BY <1>1, <1>7 DEF Go, Shapes
  <2>2. WorkerInv(p)'
    BY <1>2, <1>5, <1>6, <1>7, <2>1 DEF WorkerInv
  <2>. QED
    BY <1>2, <1>4, <1>7, <2>2, PcStep DEF Early
<1>8. CASE /\ p \in DOMAIN journal /\ \A f \in read : DigestOf(w, f) = known.inputs[f]
           /\ Go(p, "restore") /\ got' = [got EXCEPT ![p] = known]
  <2>1. /\ DOMAIN pc' = Workers /\ pc'[p] = "restore" /\ DOMAIN got' = Workers /\ got'[p] = known
        /\ \A q \in Workers : q # p => pc'[q] = pc[q] /\ got'[q] = got[q]
    BY <1>1, <1>8, PointStep DEF Go, Shapes
  <2>2. WorkerInv(p)'
    BY <1>2, <1>5, <1>6, <1>8, <2>1 DEF WorkerInv
  <2>3. \A q \in Workers : q # p => Idles(q)
    BY <1>2, <2>1 DEF Idles, RecordKept
  <2>4. EntryInv' /\ RecordInv(p)'  /\ DOMAIN outs' = Workers
    BY <1>1, <1>2 DEF EntryInv, RecordInv, Shapes
  <2>5. pc[p] \in Early
    BY <1>2 DEF Early
  <2>. QED
    BY <1>2, <1>4, <2>1, <2>2, <2>3, <2>4, <2>5, WorkerStep
<1>9. CASE Go(p, "lookup") /\ got' = got
  <2>1. pc'[p] = "lookup"
    BY <1>1, <1>9 DEF Go, Shapes
  <2>2. WorkerInv(p)'
    BY <1>5, <2>1 DEF WorkerInv
  <2>. QED
    BY <1>2, <1>4, <1>9, <2>2, PcStep DEF Early
<1>. QED
  BY <1>7, <1>8, <1>9 DEF Decide

LEMMA LookupKeeps ==
  ASSUME RemoteInv, NEW p \in Workers, Lookup(p)
  PROVE  RemoteInv'
<1>. DEFINE w == p[1]
            key == TraceKey(p)
            entry == entries[TraceKey(p)]
<1>1. Shapes /\ EntryInv /\ WorkerInv(p) /\ RecordInv(p) /\ w \in Workspaces
  BY WorkerPlace DEF RemoteInv
<1>2. pc[p] = "lookup" /\ UNCHANGED <<tree, entries, journal, outs>>
  BY DEF Lookup, server
<1>3. settled[w]["src"] # None /\ key = <<p[2], settled[w]["src"]>>
  BY <1>1, <1>2 DEF WorkerInv, TraceKey, DigestOf
<1>4. ASSUME Go(p, Otherwise), got' = got, Growth
      PROVE  RemoteInv'
  BY <1>2, <1>4, ToRun DEF Otherwise, Early
<1>5. CASE key \in DOMAIN entries /\ entry # Malformed /\ Settle(w, DOMAIN entry.discovered)
           /\ Applies(p, entry) /\ got' = [got EXCEPT ![p] = entry] /\ Go(p, "stage")
  <2>1. /\ "discovered" \in DOMAIN entry /\ DOMAIN entry.discovered = Reads(settled[w]["src"]) \ {"src"}
        /\ entry.outputs = Made(p[2], TraceOf(key, entry))
    BY <1>1, <1>3, <1>5 DEF EntryInv
  <2>2. DOMAIN entry.discovered \subseteq FilesOfTree
    BY <2>1, ReadsWhat
  <2>3. /\ Growth
        /\ \A f \in DOMAIN entry.discovered : settled'[w][f] = DigestOf(w, f) /\ settled'[w][f] # None
    <3>. HIDE DEF entry, key
    <3>. QED
      BY <1>1, <1>5, <2>2, SettleGrows
  <2>4. settled'[w]["src"] = settled[w]["src"]
    BY <1>1, <1>3, <2>3, InputsStay
  <2>5. \A f \in DOMAIN entry.discovered : entry.discovered[f] = settled'[w][f]
    BY <1>5, <2>3 DEF Applies
  <2>6. AllSettled(w)'
    BY <1>3, <2>1, <2>3, <2>4 DEF AllSettled
  <2>7. TraceOf(key, entry) = Inputs(w)'
    <3>1. key[2] = settled[w]["src"]
      BY <1>3
    <3>2. TraceOf(key, entry) = [f \in {"src"} \cup DOMAIN entry.discovered |->
                                  IF f = "src" THEN settled[w]["src"] ELSE entry.discovered[f]]
      BY <3>1 DEF TraceOf, With
    <3>3. {"src"} \cup DOMAIN entry.discovered = Reads(settled[w]["src"])
      BY <2>1, ReadsWhat
    <3>4. Inputs(w)' = [f \in Reads(settled[w]["src"]) |-> settled'[w][f]]
      BY <2>4 DEF Inputs
    <3>. HIDE DEF entry, key
    <3>. QED
      BY <2>4, <2>5, <3>2, <3>3, <3>4
  <2>8. /\ DOMAIN pc' = Workers /\ pc'[p] = "stage" /\ DOMAIN got' = Workers /\ got'[p] = entry
        /\ \A q \in Workers : q # p => pc'[q] = pc[q] /\ got'[q] = got[q]
    BY <1>1, <1>5, PointStep DEF Go, Shapes
  <2>9. IsTrace(p, got[p])'
    <3>1. entry.outputs = Made(p[2], Inputs(w)')
      BY <2>1, <2>7
    <3>. HIDE DEF entry, key
    <3>. QED
      BY <2>1, <2>4, <2>5, <2>8, <3>1 DEF IsTrace
  <2>10. WorkerInv(p)'
    BY <1>3, <2>4, <2>6, <2>8, <2>9 DEF WorkerInv
  <2>11. \A q \in Workers : q # p => Idles(q)
    BY <1>2, <2>8 DEF Idles, RecordKept
  <2>12. EntryInv' /\ RecordInv(p)'  /\ DOMAIN outs' = Workers
    BY <1>1, <1>2 DEF EntryInv, RecordInv, Shapes
  <2>13. pc[p] \in Early
    BY <1>2 DEF Early
  <2>. QED
    BY <1>2, <2>3, <2>8, <2>10, <2>11, <2>12, <2>13, WorkerStep
<1>6. CASE key \in DOMAIN entries /\ entry # Malformed /\ Settle(w, DOMAIN entry.discovered)
           /\ got' = got /\ Go(p, Otherwise)
  <2>1. DOMAIN entry.discovered \subseteq FilesOfTree
    BY <1>1, <1>3, <1>6, ReadsWhat DEF EntryInv
  <2>2. Growth
    <3>. HIDE DEF entry, key
    <3>. QED
      BY <1>1, <1>6, <2>1, SettleGrows
  <2>. QED
    BY <1>4, <1>6, <2>2
<1>7. CASE Go(p, Otherwise) /\ got' = got /\ settled' = settled
  BY <1>1, <1>4, <1>7, NothingSettled
<1>. QED
  BY <1>5, <1>6, <1>7 DEF Lookup

LEMMA StageBlobKeeps ==
  ASSUME RemoteInv, NEW p \in Workers, StageBlob(p)
  PROVE  RemoteInv'
<1>1. Shapes /\ EntryInv /\ TreeInv
  BY DEF RemoteInv
<1>2. pc[p] = "stage" /\ UNCHANGED <<settled, tree, entries, got, journal, outs>>
  BY DEF StageBlob, server
<1>3. Growth
  BY <1>1, <1>2, NothingSettled
<1>4. CASE pc' = pc
  <2>1. EntryInv'
    BY <1>1, <1>2 DEF EntryInv
  <2>2. tree' \in [Workspaces -> [FilesOfTree -> Contents]]
    BY <1>1, <1>2 DEF Shapes
  <2>3. TreeInv'
    BY <1>1, <1>2, <1>4 DEF TreeInv, WorkersOf
  <2>. QED
    BY <1>2, <1>4, <2>1, <2>2, <2>3, NoWorkerStep
<1>5. CASE Go(p, "write")
  BY <1>2, <1>5, ToFetch DEF Fetching
<1>6. CASE Go(p, "run")
  BY <1>2, <1>3, <1>6, ToRun DEF Early
<1>7. pc' = pc \/ Go(p, "write") \/ Go(p, "run")
  BY DEF StageBlob, Otherwise
<1>. QED
  BY <1>4, <1>5, <1>6, <1>7

LEMMA FetchKeeps ==
  ASSUME RemoteInv, NEW p \in Workers, WriteStaged(p) \/ VerifyStaged(p) \/ PutStaged(p)
  PROVE  RemoteInv'
<1>1. pc[p] \in Fetching /\ UNCHANGED <<settled, tree, entries, got, journal, outs>>
  BY DEF WriteStaged, VerifyStaged, PutStaged, server, Fetching
<1>2. Growth
  BY <1>1, NothingSettled DEF RemoteInv
<1>3. Go(p, "verify") \/ Go(p, "put") \/ Go(p, "stage") \/ Go(p, "run")
  BY DEF WriteStaged, VerifyStaged, PutStaged, Otherwise
<1>4. CASE Go(p, "run")
  BY <1>1, <1>2, <1>4, ToRun DEF Early, Fetching
<1>5. "verify" \in Fetching /\ "put" \in Fetching /\ "stage" \in Fetching
  BY DEF Fetching
<1>. QED
  BY <1>1, <1>3, <1>4, <1>5, ToFetch

LEMMA RestoreKeeps ==
  ASSUME RemoteInv, NEW p \in Workers, Restore(p)
  PROVE  RemoteInv'
<1>. DEFINE w == p[1]
            there == {o \in Outputs[p[2]] :
                        /\ got[p].outputs[o] \in DOMAIN store[w]
                        /\ Verified(store[w][got[p].outputs[o]], got[p].outputs[o])}
<1>1. Shapes /\ EntryInv /\ WorkerInv(p) /\ RecordInv(p) /\ w \in Workspaces
  BY WorkerPlace DEF RemoteInv
<1>2. pc[p] \in {"restore", "stage"} /\ UNCHANGED <<settled, tree, entries, got, journal>>
  BY DEF Restore, server
<1>3. Growth
  BY <1>1, <1>2, NothingSettled
<1>4. PICK done \in IF there = Outputs[p[2]] THEN {there} ELSE SUBSET there :
        outs' = [outs EXCEPT ![p] = [o \in Outputs[p[2]] |->
                   IF o \in done THEN store[w][got[p].outputs[o]] ELSE @[o]]]
  BY DEF Restore
<1>5. DOMAIN outs' = Workers /\ \A q \in Workers : q # p => outs'[q] = outs[q]
  BY <1>1, <1>4 DEF Shapes
<1>6. pc' = [pc EXCEPT ![p] = IF there = Outputs[p[2]] THEN "record" ELSE "run"]
  BY DEF Restore, Go
<1>7. /\ DOMAIN pc' = Workers /\ pc'[p] = IF there = Outputs[p[2]] THEN "record" ELSE "run"
      /\ \A q \in Workers : q # p => pc'[q] = pc[q]
  <2>. HIDE DEF there
  <2>. QED
    BY <1>1, <1>6 DEF Shapes
<1>8. settled[w]["src"] # None /\ settled'[w]["src"] # None
  BY <1>1, <1>2 DEF WorkerInv
<1>9. ASSUME there = Outputs[p[2]]
      PROVE  /\ AllSettled(w)' /\ (IsTrace(p, got[p])' \/ (KnownHere(p)' /\ got'[p] = journal'[p]))
             /\ outs'[p] = got'[p].outputs
  <2>1. AllSettled(w) /\ (IsTrace(p, got[p]) \/ (KnownHere(p) /\ got[p] = journal[p]))
    BY <1>1, <1>2 DEF WorkerInv
  <2>2. AllSettled(w)' /\ (IsTrace(p, got[p])' \/ (KnownHere(p)' /\ got'[p] = journal'[p]))
    BY <1>2, <2>1 DEF AllSettled, IsTrace, KnownHere, Inputs
  <2>3. \A o \in Outputs[p[2]] : store[w][got[p].outputs[o]] = got[p].outputs[o]
    BY <1>9 DEF Verified
  <2>4. \A o \in Outputs[p[2]] : o \in done
    BY <1>4, <1>9
  <2>5. outs'[p] = [o \in Outputs[p[2]] |-> IF o \in done THEN store[w][got[p].outputs[o]] ELSE outs[p][o]]
    <3>. HIDE DEF there
    <3>. QED
      BY <1>1, <1>4 DEF Shapes
  <2>6. outs'[p] = [o \in Outputs[p[2]] |-> got[p].outputs[o]]
    <3>. HIDE DEF there
    <3>. QED
      BY <2>3, <2>4, <2>5
  <2>7. got[p].outputs = [o \in Outputs[p[2]] |-> got[p].outputs[o]]
    <3>1. ASSUME NEW m, got[p].outputs = Made(p[2], m)
          PROVE  got[p].outputs = [o \in Outputs[p[2]] |-> got[p].outputs[o]]
      BY <3>1 DEF Made
    <3>2. got[p].outputs = Made(p[2], Inputs(w)) \/ got[p].outputs = Made(p[2], journal[p].inputs)
      BY <1>1, <2>1 DEF IsTrace, KnownHere, RecordInv
    <3>. QED
      BY <3>1, <3>2
  <2>. QED
    BY <1>2, <2>2, <2>6, <2>7
<1>10. WorkerInv(p)'
  <2>1. CASE there = Outputs[p[2]]
    BY <1>7, <1>8, <1>9, <2>1 DEF WorkerInv
  <2>2. CASE there # Outputs[p[2]]
    BY <1>7, <1>8, <2>2 DEF WorkerInv
  <2>. QED
    BY <2>1, <2>2
<1>11. \A q \in Workers : q # p => Idles(q)
  BY <1>2, <1>5, <1>7 DEF Idles, RecordKept
<1>12. EntryInv' /\ RecordInv(p)'  /\ DOMAIN got' = Workers
  BY <1>1, <1>2 DEF EntryInv, RecordInv, Shapes
<1>13. pc[p] \in Early
  BY <1>2 DEF Early
<1>. QED
  BY <1>2, <1>3, <1>5, <1>7, <1>10, <1>11, <1>12, <1>13, WorkerStep

\* The trace that an entry in hand is.
LEMMA TraceIsInputs ==
  ASSUME NEW p \in Workers, NEW e, IsTrace(p, e)
  PROVE  TraceOf(<<p[2], settled[p[1]]["src"]>>, e) = Inputs(p[1])
<1>. DEFINE w == p[1]
            key == <<p[2], settled[w]["src"]>>
<1>1. TraceOf(key, e) = [f \in DOMAIN e.discovered \cup {"src"} |->
                           IF f = "src" THEN settled[w]["src"] ELSE e.discovered[f]]
  BY DEF TraceOf, With
<1>2. DOMAIN e.discovered \cup {"src"} = Reads(settled[w]["src"])
  BY ReadsWhat DEF IsTrace
<1>3. \A f \in DOMAIN e.discovered : e.discovered[f] = settled[w][f]
  BY DEF IsTrace
<1>4. \A f \in Reads(settled[w]["src"]) :
        (IF f = "src" THEN settled[w]["src"] ELSE e.discovered[f]) = settled[w][f]
  BY <1>2, <1>3
<1>5. TraceOf(key, e) = Inputs(w)
  <2>. HIDE DEF key
  <2>. QED
    BY <1>1, <1>2, <1>4 DEF Inputs
<1>. QED
  BY <1>5

\* The command reads the tree, and until it has, what is settled is the tree.
LEMMA RunKeeps ==
  ASSUME RemoteInv, NEW p \in Workers, Run(p)
  PROVE  RemoteInv'
<1>. DEFINE w == p[1]
            read == Reads(tree[w]["src"])
            bytes == Made(p[2], [f \in read |-> tree[w][f]])
            made == [outputs |-> bytes, remote |-> <<>>,
                     discovered |-> [f \in read \ {"src"} |-> DigestOf(w, f)]]
<1>1. Shapes /\ EntryInv /\ TreeInv /\ RecordInv(p) /\ w \in Workspaces /\ p \in WorkersOf(w)
  BY WorkerPlace DEF RemoteInv
<1>2. /\ pc[p] = "run" /\ Settle(w, read) /\ UNCHANGED <<tree, entries, journal>>
      /\ outs' = [outs EXCEPT ![p] = bytes] /\ got' = [got EXCEPT ![p] = made]
  BY DEF Run, server
<1>3. PICK s \in {"publish", "record"} : Go(p, s)
  BY DEF Run
<1>4. "src" \in read /\ read \subseteq FilesOfTree
  BY ReadsWhat
<1>5. \A f \in FilesOfTree : DigestOf(w, f) = tree[w][f]
  <2>1. \A f \in FilesOfTree : settled[w][f] \in {None, tree[w][f]}
    BY <1>1, <1>2 DEF TreeInv, Early
  <2>. QED
    BY <2>1 DEF DigestOf
<1>6. Growth /\ \A f \in read : settled'[w][f] = DigestOf(w, f) /\ settled'[w][f] # None
  <2>. HIDE DEF read
  <2>. QED
    BY <1>1, <1>2, <1>4, SettleGrows
<1>7. \A f \in read : settled'[w][f] = tree[w][f]
  <2>. HIDE DEF read
  <2>. QED
    BY <1>4, <1>5, <1>6
<1>8. Reads(settled'[w]["src"]) = read
  BY <1>4, <1>7
<1>9. AllSettled(w)' /\ Inputs(w)' = [f \in read |-> tree[w][f]]
  <2>. HIDE DEF read
  <2>. QED
    BY <1>6, <1>7, <1>8 DEF AllSettled, Inputs
<1>10. /\ DOMAIN pc' = Workers /\ pc'[p] = s
       /\ DOMAIN got' = Workers /\ got'[p] = made
       /\ DOMAIN outs' = Workers /\ outs'[p] = bytes
       /\ \A q \in Workers : q # p => pc'[q] = pc[q] /\ got'[q] = got[q] /\ outs'[q] = outs[q]
  <2>. HIDE DEF made, bytes
  <2>. QED
    BY <1>1, <1>2, <1>3, PointStep DEF Go, Shapes
<1>11. /\ made.outputs = bytes /\ "discovered" \in DOMAIN made
       /\ DOMAIN made.discovered = read \ {"src"}
       /\ \A f \in read \ {"src"} : made.discovered[f] = DigestOf(w, f)
  <2>. HIDE DEF bytes, read
  <2>. QED
    OBVIOUS
<1>12. IsTrace(p, got[p])'
  <2>1. bytes = Made(p[2], Inputs(w)')
    BY <1>9
  <2>. HIDE DEF made, bytes, read
  <2>. QED
    BY <1>6, <1>8, <1>10, <1>11, <2>1 DEF IsTrace
<1>13. WorkerInv(p)'
  <2>1. settled'[w]["src"] # None
    BY <1>4, <1>6
  <2>2. outs'[p] = got'[p].outputs
    BY <1>10, <1>11
  <2>. HIDE DEF made, bytes, read
  <2>. QED
    BY <1>3, <1>9, <1>10, <1>12, <2>1, <2>2 DEF WorkerInv
<1>14. \A q \in Workers : q # p => Idles(q)
  BY <1>2, <1>10 DEF Idles, RecordKept
<1>15. EntryInv' /\ RecordInv(p)'
  BY <1>1, <1>2 DEF EntryInv, RecordInv
<1>. HIDE DEF made, bytes, read
<1>. QED
  BY <1>2, <1>3, <1>6, <1>10, <1>13, <1>14, <1>15, WorkerStep DEF Early

\* A blob is published, or not; the entry in hand gets at most another name for it.
LEMMA PublishBlobKeeps ==
  ASSUME RemoteInv, NEW p \in Workers, PublishBlob(p)
  PROVE  RemoteInv'
<1>1. Shapes /\ EntryInv /\ WorkerInv(p) /\ RecordInv(p)
  BY DEF RemoteInv
<1>2. pc[p] = "publish" /\ UNCHANGED <<settled, tree, entries, pc, journal, outs>>
  BY DEF PublishBlob, local
<1>3. got' = got \/ \E names : got' = [got EXCEPT ![p].remote = names]
  BY DEF PublishBlob
<1>4. /\ DOMAIN got' = Workers /\ \A q \in Workers : q # p => got'[q] = got[q]
      /\ DOMAIN got'[p] = DOMAIN got[p]
      /\ "discovered" \in DOMAIN got[p] => got'[p].discovered = got[p].discovered
      /\ got'[p].outputs = got[p].outputs
  <2>1. CASE got' = got
    BY <1>1, <2>1 DEF Shapes
  <2>2. ASSUME NEW names, got' = [got EXCEPT ![p].remote = names]
        PROVE  /\ DOMAIN got' = Workers /\ \A q \in Workers : q # p => got'[q] = got[q]
               /\ DOMAIN got'[p] = DOMAIN got[p]
               /\ "discovered" \in DOMAIN got[p] => got'[p].discovered = got[p].discovered
               /\ got'[p].outputs = got[p].outputs
    BY <1>1, <2>2 DEF Shapes
  <2>. QED
    BY <1>3, <2>1, <2>2
<1>5. settled[p[1]]["src"] # None /\ AllSettled(p[1]) /\ IsTrace(p, got[p]) /\ outs[p] = got[p].outputs
  BY <1>1, <1>2 DEF WorkerInv
<1>6. AllSettled(p[1])' /\ IsTrace(p, got[p])'
  BY <1>2, <1>4, <1>5 DEF AllSettled, IsTrace, Inputs
<1>7. WorkerInv(p)'
  BY <1>2, <1>4, <1>5, <1>6 DEF WorkerInv
<1>8. \A q \in Workers : q # p => Idles(q)
  BY <1>2, <1>4 DEF Idles, RecordKept
<1>9. EntryInv' /\ RecordInv(p)' /\ Growth
  BY <1>1, <1>2, NothingSettled DEF EntryInv, RecordInv
<1>10. DOMAIN pc' = Workers /\ DOMAIN outs' = Workers
  BY <1>1, <1>2 DEF Shapes
<1>. QED
  BY <1>2, <1>4, <1>7, <1>8, <1>9, <1>10, WorkerStep DEF Early

\* What is published under the key is a trace of it.
LEMMA PublishEntryKeeps ==
  ASSUME RemoteInv, NEW p \in Workers, PublishEntry(p)
  PROVE  RemoteInv'
<1>. DEFINE key == TraceKey(p)
<1>1. Shapes /\ EntryInv /\ WorkerInv(p) /\ RecordInv(p)
  BY DEF RemoteInv
<1>2. pc[p] = "publish" /\ Go(p, "record") /\ UNCHANGED <<settled, tree, got, journal, outs>>
  BY DEF PublishEntry, local
<1>3. settled[p[1]]["src"] # None /\ AllSettled(p[1]) /\ IsTrace(p, got[p]) /\ outs[p] = got[p].outputs
  BY <1>1, <1>2 DEF WorkerInv
<1>4. key = <<p[2], settled[p[1]]["src"]>>
  BY <1>3 DEF TraceKey, DigestOf
<1>5. /\ "discovered" \in DOMAIN got[p] /\ DOMAIN got[p].discovered = Reads(key[2]) \ {"src"}
      /\ got[p].outputs = Made(key[1], TraceOf(key, got[p]))
  BY <1>3, <1>4, TraceIsInputs DEF IsTrace
<1>6. EntryInv'
  <2>. HIDE DEF key
  <2>1. CASE entries' = entries
    BY <1>1, <2>1 DEF EntryInv
  <2>2. CASE entries' = With(entries, key, got[p])
    <3>1. /\ DOMAIN entries' = DOMAIN entries \cup {key} /\ entries'[key] = got[p]
          /\ \A k \in DOMAIN entries : k # key => entries'[k] = entries[k]
      BY <2>2 DEF With
    <3>2. ASSUME NEW k \in DOMAIN entries', entries'[k] # Malformed
          PROVE  /\ "discovered" \in DOMAIN entries'[k]
                 /\ DOMAIN entries'[k].discovered = Reads(k[2]) \ {"src"}
                 /\ entries'[k].outputs = Made(k[1], TraceOf(k, entries'[k]))
      <4>1. CASE k = key
        BY <1>5, <3>1, <4>1
      <4>2. CASE k # key
        BY <1>1, <3>1, <3>2, <4>2 DEF EntryInv
      <4>. QED
        BY <4>1, <4>2
    <3>. QED
      BY <3>2 DEF EntryInv
  <2>3. entries' = entries \/ entries' = With(entries, key, got[p])
    BY DEF PublishEntry, key
  <2>. QED
    BY <2>1, <2>2, <2>3
<1>7. /\ DOMAIN pc' = Workers /\ pc'[p] = "record" /\ \A q \in Workers : q # p => pc'[q] = pc[q]
  BY <1>1, <1>2, PointStep DEF Go, Shapes
<1>8. AllSettled(p[1])' /\ IsTrace(p, got[p])'
  BY <1>2, <1>3 DEF AllSettled, IsTrace, Inputs
<1>9. WorkerInv(p)'
  BY <1>2, <1>3, <1>7, <1>8 DEF WorkerInv
<1>10. \A q \in Workers : q # p => Idles(q)
  BY <1>2, <1>7 DEF Idles, RecordKept
<1>11. RecordInv(p)' /\ Growth /\ DOMAIN got' = Workers /\ DOMAIN outs' = Workers
  BY <1>1, <1>2, NothingSettled DEF RecordInv, Shapes
<1>. QED
  BY <1>2, <1>6, <1>7, <1>9, <1>10, <1>11, WorkerStep DEF Early

LEMMA RecordKeeps ==
  ASSUME RemoteInv, NEW p \in Workers, Record(p)
  PROVE  RemoteInv'
<1>. DEFINE w == p[1]
<1>1. Shapes /\ EntryInv /\ WorkerInv(p) /\ RecordInv(p) /\ w \in Workspaces
  BY WorkerPlace DEF RemoteInv
<1>2. /\ pc[p] = "record" /\ Go(p, "built") /\ UNCHANGED <<settled, tree, entries, outs>>
      /\ got' = [got EXCEPT ![p] = None]
  BY DEF Record, server
<1>3. /\ settled[w]["src"] # None /\ AllSettled(w) /\ outs[p] = got[p].outputs
      /\ IsTrace(p, got[p]) \/ (KnownHere(p) /\ got[p] = journal[p])
  BY <1>1, <1>2 DEF WorkerInv
<1>4. /\ DOMAIN pc' = Workers /\ pc'[p] = "built" /\ DOMAIN got' = Workers
      /\ \A q \in Workers : q # p => pc'[q] = pc[q] /\ got'[q] = got[q]
  BY <1>1, <1>2, PointStep DEF Go, Shapes
<1>5. AllSettled(w)' /\ Inputs(w)' = Inputs(w)
  BY <1>2, <1>3 DEF AllSettled, Inputs
<1>6. /\ KnownHere(p)' /\ outs'[p] = journal'[p].outputs /\ RecordInv(p)'
      /\ \A q \in Workers : q # p => RecordKept(q)
  <2>1. CASE p \in DOMAIN journal /\ got[p] = journal[p]
    <3>1. journal' = journal /\ \A q : RecordKept(q)
      BY <2>1 DEF Record, RecordKept
    <3>2. KnownHere(p)
      BY <1>1, <1>3, <2>1 DEF IsTrace, RecordInv
    <3>. QED
      BY <1>1, <1>2, <1>3, <1>5, <2>1, <3>1, <3>2 DEF KnownHere, RecordInv
  <2>2. CASE ~(p \in DOMAIN journal /\ got[p] = journal[p])
    <3>1. journal' = With(journal, p, Recorded(p))
      BY <2>2 DEF Record
    <3>2. /\ DOMAIN journal' = DOMAIN journal \cup {p} /\ journal'[p] = Recorded(p)
          /\ \A q \in Workers : q # p => RecordKept(q)
      BY <3>1 DEF With, RecordKept
    <3>3. IsTrace(p, got[p])
      BY <1>3, <2>2 DEF KnownHere
    <3>4. {"src"} \cup DOMAIN got[p].discovered = Reads(settled[w]["src"])
      BY <3>3, ReadsWhat DEF IsTrace
    <3>5. \A f \in Reads(settled[w]["src"]) : DigestOf(w, f) = settled[w][f] /\ DigestOf(w, f) \in Contents
      <4>1. ASSUME NEW f \in Reads(settled[w]["src"])
            PROVE  DigestOf(w, f) = settled[w][f] /\ DigestOf(w, f) \in Contents
        <5>1. f \in FilesOfTree /\ settled[w][f] # None
          BY <1>3, ReadsWhat DEF AllSettled
        <5>. QED
          BY <1>1, <5>1, DigestType DEF DigestOf
      <4>. QED
        BY <4>1
    <3>6. /\ DOMAIN Recorded(p) = {"inputs", "outputs"} /\ Recorded(p).outputs = got[p].outputs
          /\ Recorded(p).inputs = [f \in {"src"} \cup DOMAIN got[p].discovered |-> DigestOf(w, f)]
      BY DEF Recorded
    <3>7. Recorded(p).inputs = Inputs(w)
      BY <3>4, <3>5, <3>6 DEF Inputs
    <3>8. Inputs(w) \in [Reads(settled[w]["src"]) -> Contents] /\ Inputs(w)["src"] = settled[w]["src"]
      BY <3>5, ReadsWhat DEF Inputs
    <3>9. KnownHere(p)'
      BY <1>5, <3>2, <3>7 DEF KnownHere
    <3>10. RecordInv(p)'
      <4>1. journal'[p].inputs = Inputs(w) /\ journal'[p].outputs = Made(p[2], Inputs(w))
        BY <3>2, <3>3, <3>6, <3>7 DEF IsTrace
      <4>2. DOMAIN journal'[p] = {"inputs", "outputs"}
        BY <3>2, <3>6
      <4>. QED
        BY <3>8, <4>1, <4>2 DEF RecordInv
    <3>. QED
      BY <1>2, <1>3, <3>2, <3>6, <3>9, <3>10
  <2>. QED
    BY <2>1, <2>2
<1>7. WorkerInv(p)'
  BY <1>2, <1>3, <1>4, <1>5, <1>6 DEF WorkerInv
<1>8. \A q \in Workers : q # p => Idles(q)
  BY <1>2, <1>4, <1>6 DEF Idles, RecordKept
<1>9. EntryInv' /\ Growth /\ DOMAIN outs' = Workers
  BY <1>1, <1>2, NothingSettled DEF EntryInv, Shapes
<1>. QED
  BY <1>2, <1>4, <1>6, <1>7, <1>8, <1>9, WorkerStep DEF Early
-----------------------------------------------------------------------------
(* Builds                                                                   *)

\* A build of w begins or ends: its workers have nothing in hand, and the workers
\* of other workspaces notice nothing.
LEMMA BuildStep ==
  ASSUME RemoteInv, NEW w \in Workspaces, NEW s \in {"idle", "decide"},
         pc' = [p \in Workers |-> IF p[1] = w THEN s ELSE pc[p]],
         \A p \in Workers : p[1] # w => got'[p] = got[p],
         DOMAIN got' = Workers, UNCHANGED <<tree, entries, journal, outs>>,
         settled' \in [Workspaces -> [FilesOfTree -> Contents \cup {None}]],
         \A v \in Workspaces \ {w} : settled'[v] = settled[v],
         s = "decide" => \A f \in FilesOfTree : settled'[w][f] = None
  PROVE  RemoteInv'
<1>1. Shapes /\ EntryInv /\ TreeInv /\ \A p \in Workers : WorkerInv(p) /\ RecordInv(p)
  BY DEF RemoteInv
<1>2. Shapes' /\ EntryInv'
  BY <1>1 DEF Shapes, EntryInv
<1>3. TreeInv'
  <2>1. ASSUME NEW v \in Workspaces, NEW q \in WorkersOf(v), pc'[q] \in Early, NEW f \in FilesOfTree
        PROVE  settled'[v][f] \in {None, tree'[v][f]}
    <3>1. q \in Workers /\ q[1] = v
      BY DEF WorkersOf
    <3>2. CASE v = w
      BY <2>1, <3>1, <3>2 DEF Early
    <3>3. CASE v # w
      <4>1. pc[q] \in Early
        BY <2>1, <3>1, <3>3
      <4>2. settled[v][f] \in {None, tree[v][f]}
        BY <1>1, <4>1 DEF TreeInv
      <4>. QED
        BY <3>3, <4>2
    <3>. QED
      BY <3>2, <3>3
  <2>2. \A v \in Workspaces : WorkersOf(v)' = WorkersOf(v)
    BY DEF WorkersOf
  <2>. QED
    BY <2>1, <2>2 DEF TreeInv
<1>4. ASSUME NEW p \in Workers
      PROVE  WorkerInv(p)' /\ RecordInv(p)'
  <2>1. RecordInv(p)'
    BY <1>1 DEF RecordInv
  <2>2. CASE p[1] = w
    <3>1. pc'[p] \in {"idle", "decide"}
      BY <2>2
    <3>. QED
      BY <2>1, <3>1 DEF WorkerInv
  <2>3. CASE p[1] # w
    <3>1. WorkerInv(p) /\ settled'[p[1]] = settled[p[1]]
      BY <1>1, <2>3, WorkerPlace
    <3>2. pc'[p] = pc[p] /\ got'[p] = got[p]
      BY <2>3
    <3>3. /\ Inputs(p[1])' = Inputs(p[1]) /\ (AllSettled(p[1])' <=> AllSettled(p[1]))
          /\ (KnownHere(p)' <=> KnownHere(p)) /\ (IsTrace(p, got[p])' <=> IsTrace(p, got[p]))
      BY <3>1, <3>2 DEF Inputs, AllSettled, KnownHere, IsTrace
    <3>4. WorkerInv(p)'
      BY <3>1, <3>2, <3>3 DEF WorkerInv
    <3>. QED
      BY <2>1, <3>4
  <2>. QED
    BY <2>2, <2>3
<1>. QED
  BY <1>2, <1>3, <1>4 DEF RemoteInv

LEMMA StartBuildKeeps ==
  ASSUME RemoteInv, NEW w \in Workspaces, StartBuild(w)
  PROVE  RemoteInv'
<1>1. Shapes
  BY DEF RemoteInv
<1>2. /\ pc' = [p \in Workers |-> IF p[1] = w THEN "decide" ELSE pc[p]]
      /\ settled' = [settled EXCEPT ![w] = [f \in FilesOfTree |-> None]]
      /\ UNCHANGED <<tree, entries, journal, outs, got>>
  BY DEF StartBuild, server
<1>3. /\ settled' \in [Workspaces -> [FilesOfTree -> Contents \cup {None}]]
      /\ \A v \in Workspaces \ {w} : settled'[v] = settled[v]
      /\ \A f \in FilesOfTree : settled'[w][f] = None
  BY <1>1, <1>2 DEF Shapes
<1>4. DOMAIN got' = Workers
  BY <1>1, <1>2 DEF Shapes
<1>. QED
  BY <1>2, <1>3, <1>4, BuildStep

LEMMA ResetKeeps ==
  ASSUME RemoteInv, NEW w \in Workspaces, Reset(w),
         UNCHANGED <<tree, entries, settled, journal, outs>>
  PROVE  RemoteInv'
<1>1. Shapes
  BY DEF RemoteInv
<1>2. /\ pc' = [p \in Workers |-> IF p[1] = w THEN "idle" ELSE pc[p]]
      /\ got' = [p \in Workers |-> IF p[1] = w THEN None ELSE got[p]]
  BY DEF Reset
<1>3. DOMAIN got' = Workers /\ \A p \in Workers : p[1] # w => got'[p] = got[p]
  BY <1>2
<1>4. settled' \in [Workspaces -> [FilesOfTree -> Contents \cup {None}]]
  BY <1>1 DEF Shapes
<1>. QED
  BY <1>2, <1>3, <1>4, BuildStep

-----------------------------------------------------------------------------
(* What happens around                                                      *)

\* No command of the workspace has still to read a file that is edited.
LEMMA EditKeeps ==
  ASSUME RemoteInv, NEW w \in Workspaces, Edit(w)
  PROVE  RemoteInv'
<1>1. Shapes /\ EntryInv /\ TreeInv
  BY DEF RemoteInv
<1>2. /\ \A p \in WorkersOf(w) : pc[p] \in {"idle", "publish", "record", "built"}
      /\ UNCHANGED <<entries, settled, pc, got, journal, outs>>
  BY DEF Edit, server, step
<1>3. PICK f \in FilesOfTree, c \in Contents : tree' = [tree EXCEPT ![w][f] = c]
  BY DEF Edit
<1>4. /\ tree' \in [Workspaces -> [FilesOfTree -> Contents]]
      /\ \A v \in Workspaces : v # w => tree'[v] = tree[v]
  BY <1>1, <1>3 DEF Shapes
<1>5. TreeInv'
  <2>1. ASSUME NEW v \in Workspaces, NEW q \in WorkersOf(v), pc'[q] \in Early, NEW g \in FilesOfTree
        PROVE  settled'[v][g] \in {None, tree'[v][g]}
    <3>1. v # w
      BY <1>2, <2>1 DEF Early
    <3>2. settled[v][g] \in {None, tree[v][g]}
      BY <1>1, <1>2, <2>1 DEF TreeInv
    <3>. QED
      BY <1>2, <1>4, <3>1, <3>2
  <2>2. \A v \in Workspaces : WorkersOf(v)' = WorkersOf(v)
    BY DEF WorkersOf
  <2>. QED
    BY <2>1, <2>2 DEF TreeInv
<1>6. EntryInv'
  BY <1>1, <1>2 DEF EntryInv
<1>. QED
  BY <1>2, <1>4, <1>5, <1>6, NoWorkerStep

\* The server may forget an entry or damage it beyond reading, and nothing else.
LEMMA FaultKeeps ==
  ASSUME RemoteInv, Fault
  PROVE  RemoteInv'
<1>1. Shapes /\ EntryInv /\ TreeInv
  BY DEF RemoteInv
<1>2. UNCHANGED <<tree, settled, pc, got, journal, outs>>
  BY DEF Fault, step
<1>3. EntryInv'
  <2>1. CASE entries' = entries
    BY <1>1, <2>1 DEF EntryInv
  <2>2. ASSUME NEW key \in DOMAIN entries, entries' = Without(entries, key)
        PROVE  EntryInv'
    <3>1. \A k \in DOMAIN entries' : k \in DOMAIN entries /\ entries'[k] = entries[k]
      BY <2>2 DEF Without, Restrict
    <3>. QED
      BY <1>1, <3>1 DEF EntryInv
  <2>3. ASSUME NEW key \in DOMAIN entries, entries' = With(entries, key, Malformed)
        PROVE  EntryInv'
    <3>1. \A k \in DOMAIN entries' : entries'[k] # Malformed =>
            k \in DOMAIN entries /\ entries'[k] = entries[k]
      BY <2>3 DEF With
    <3>. QED
      BY <1>1, <3>1 DEF EntryInv
  <2>. QED
    BY <2>1, <2>2, <2>3 DEF Fault
<1>4. TreeInv'
  BY <1>1, <1>2 DEF TreeInv, WorkersOf
<1>5. tree' \in [Workspaces -> [FilesOfTree -> Contents]]
  BY <1>1, <1>2 DEF Shapes
<1>. QED
  BY <1>2, <1>3, <1>4, <1>5, NoWorkerStep

-----------------------------------------------------------------------------
(* The invariant and the theorems                                           *)

\* The entries of an earlier uploader are those of its tree.
LEMMA InitHolds ==
  ASSUME Init
  PROVE  RemoteInv
<1>1. Shapes
  BY ContentAssumption DEF Init, Shapes
<1>2. EntryInv
  <2>1. CASE entries = <<>>
    BY <2>1 DEF EntryInv
  <2>2. ASSUME NEW files \in Earlier[backend], NEW done,
               entries = [k \in {<<a, files["src"]>> : a \in done} |-> TraceIn(k[1], files)]
        PROVE  EntryInv
    <3>1. ASSUME NEW key \in DOMAIN entries
          PROVE  /\ "discovered" \in DOMAIN entries[key]
                 /\ DOMAIN entries[key].discovered = Reads(key[2]) \ {"src"}
                 /\ entries[key].outputs = Made(key[1], TraceOf(key, entries[key]))
      <4>. DEFINE read == Reads(files["src"])
                  found == [f \in read \ {"src"} |-> files[f]]
      <4>1. key[2] = files["src"] /\ entries[key] = TraceIn(key[1], files)
        BY <2>2, <3>1
      <4>2. /\ "discovered" \in DOMAIN entries[key] /\ entries[key].discovered = found
            /\ entries[key].outputs = Made(key[1], [f \in read |-> files[f]])
        BY <4>1 DEF TraceIn
      <4>3. With(found, "src", files["src"]) = [f \in read |-> files[f]]
        BY ReadsWhat DEF With
      <4>. QED
        BY <4>1, <4>2, <4>3 DEF TraceOf
    <3>. QED
      BY <3>1 DEF EntryInv
  <2>. QED
    BY <2>1, <2>2 DEF Init
<1>3. TreeInv
  BY DEF Init, TreeInv, WorkersOf, Early
<1>4. \A p \in Workers : WorkerInv(p) /\ RecordInv(p)
  BY DEF Init, WorkerInv, RecordInv
<1>. QED
  BY <1>1, <1>2, <1>3, <1>4 DEF RemoteInv

LEMMA EveryStepKeeps ==
  ASSUME RemoteInv, [Next]_vars
  PROVE  RemoteInv'
<1>1. ASSUME NEW w \in Workspaces, StartBuild(w) PROVE RemoteInv'
  BY <1>1, StartBuildKeeps
<1>2. ASSUME NEW w \in Workspaces, EndBuild(w) PROVE RemoteInv'
  BY <1>2, ResetKeeps DEF EndBuild, server
<1>3. ASSUME NEW w \in Workspaces, Crash(w) PROVE RemoteInv'
  BY <1>3, ResetKeeps DEF Crash, server
<1>4. ASSUME NEW w \in Workspaces, Edit(w) PROVE RemoteInv'
  BY <1>4, EditKeeps
<1>5. CASE Fault
  BY <1>5, FaultKeeps
<1>6. ASSUME NEW p \in Workers, Work(p) PROVE RemoteInv'
  BY <1>6, DecideKeeps, LookupKeeps, StageBlobKeeps, FetchKeeps, RestoreKeeps, RunKeeps,
     PublishBlobKeeps, PublishEntryKeeps, RecordKeeps DEF Work
<1>7. CASE UNCHANGED vars
  <2>1. Shapes /\ EntryInv /\ TreeInv
    BY DEF RemoteInv
  <2>2. UNCHANGED <<tree, entries, settled, pc, got, journal, outs>>
    BY <1>7 DEF vars, server, local, step
  <2>3. EntryInv' /\ TreeInv' /\ tree' \in [Workspaces -> [FilesOfTree -> Contents]]
    BY <2>1, <2>2 DEF Shapes, EntryInv, TreeInv, WorkersOf
  <2>. QED
    BY <2>2, <2>3, NoWorkerStep
<1>. QED
  BY <1>1, <1>2, <1>3, <1>4, <1>5, <1>6, <1>7 DEF Next

\* The invariant holds in every state, whatever the server loses, damages or refuses.
THEOREM RemoteInvHolds == Spec => []RemoteInv
<1>1. Init => RemoteInv
  BY InitHolds
<1>2. RemoteInv /\ [Next]_vars => RemoteInv'
  BY EveryStepKeeps
<1>. QED
  BY <1>1, <1>2, PTL DEF Spec

\* put_action and remote_hit: what the server says of an action is what running it
\* makes of the inputs it lists, for any workspaces, actions, contents and servers.
THEOREM EntriesAreAlwaysTraces == Spec => []EntriesAreTraces
<1>1. RemoteInv => EntriesAreTraces
  <2>. SUFFICES ASSUME RemoteInv, NEW key \in DOMAIN entries, entries[key] # Malformed
                PROVE  /\ DOMAIN TraceOf(key, entries[key]) = Reads(key[2])
                       /\ entries[key].outputs =
                            [o \in Outputs[key[1]] |-> Makes(key[1], o, TraceOf(key, entries[key]))]
    BY DEF EntriesAreTraces
  <2>1. /\ DOMAIN entries[key].discovered = Reads(key[2]) \ {"src"}
        /\ entries[key].outputs = Made(key[1], TraceOf(key, entries[key]))
    BY DEF RemoteInv, EntryInv
  <2>2. DOMAIN TraceOf(key, entries[key]) = Reads(key[2])
    BY <2>1, ReadsWhat DEF TraceOf, With
  <2>. QED
    BY <2>1, <2>2 DEF Made
<1>. QED
  BY <1>1, RemoteInvHolds, PTL

\* An action that a build is done with has the outputs and the record that running it
\* on the inputs of the build gives, whatever the server answered.
THEOREM RemoteIsAlwaysTransparent == Spec => []RemoteIsTransparent
<1>1. RemoteInv => RemoteIsTransparent
  <2>. SUFFICES ASSUME RemoteInv, NEW p \in Workers, pc[p] = "built"
                PROVE  /\ outs[p] = Made(p[2], Inputs(p[1])) /\ p \in DOMAIN journal
                       /\ journal[p].inputs = Inputs(p[1]) /\ journal[p].outputs = outs[p]
    BY DEF RemoteIsTransparent, Inputs
  <2>1. WorkerInv(p) /\ RecordInv(p)
    BY DEF RemoteInv
  <2>2. KnownHere(p) /\ outs[p] = journal[p].outputs
    BY <2>1 DEF WorkerInv
  <2>. QED
    BY <2>1, <2>2 DEF KnownHere, RecordInv
<1>. QED
  BY <1>1, RemoteInvHolds, PTL
=============================================================================

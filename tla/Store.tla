------------------------------- MODULE Store -------------------------------
(* The content store of a workspace: whole objects, and for large ones a     *)
(* chunk manifest, chunks and patches as a second way to get them back.      *)
(* Several threads and processes use it at the same time; the collector      *)
(* removes files under them, and files rot.  A client restores a blob and,   *)
(* on a miss, runs the action that makes it and puts the result.             *)
EXTENDS Naturals, Sequences, FiniteSets

CONSTANTS
  Clients,            \* threads of builds
  Blobs,              \* digests; all are versions of the same output
  Layout,             \* per blob, the chunks FastCDC cuts it into
  Big,                \* blobs above CHUNKING_THRESHOLD
  MaxFaults,          \* bound: files that rot, and outputs that change under put
  MaxCollections,     \* bound: runs of the collector
  MaxVictims,         \* bound: files one run removes
  NoBlob

ChunkIds == UNION {{Layout[b][i] : i \in DOMAIN Layout[b]} : b \in Blobs}

ASSUME StoreAssumption ==
  /\ IsFiniteSet(Clients) /\ IsFiniteSet(Blobs) /\ Big \subseteq Blobs
  /\ \A b \in Blobs : Len(Layout[b]) > 0
  /\ {MaxFaults, MaxCollections, MaxVictims} \subseteq Nat
  /\ NoBlob \notin Blobs \cup ChunkIds

VARIABLES
  objects,            \* the file of each blob: "none", "good" or "bad"
  chunks,             \* the file of each chunk
  deltas,             \* the patch file of each pair <<chunk, base>>
  manifests,          \* per blob, what its chunk manifest says
  head,               \* the artifact head of the output: the blob last chunked
  step, blob,         \* per client: where it is and for which blob
  outcome,            \* how its last call ended; a restore, with what it published
  temp,               \* the staging file of a put
  todo, ready, refs, earlier,    \* locals of the loops over chunks
  listed,             \* what the collector found, then what it removes
  faults, collections

store == <<objects, chunks, deltas, manifests, head>>
locals == <<todo, ready, refs, earlier>>
bounds == <<faults, collections>>
storeVars == <<store, step, blob, outcome, temp, locals, listed, bounds>>

File == {"none", "good", "bad"}
Pairs == ChunkIds \X ChunkIds
\* "wrong": the chunks of an object that had already rotted when it was cut.
Manifest(kind, pairs) == [kind |-> kind, deltas |-> pairs]
Absent == Manifest("none", {})
ChunksOf(b) == {Layout[b][i] : i \in DOMAIN Layout[b]}

StoreInit ==
  /\ objects = [b \in Blobs |-> "none"] /\ chunks = [c \in ChunkIds |-> "none"]
  /\ deltas = [d \in Pairs |-> "none"] /\ manifests = [b \in Blobs |-> Absent]
  /\ head = NoBlob
  /\ step = [p \in Clients |-> "idle"] /\ blob = [p \in Clients |-> NoBlob]
  /\ outcome = [p \in Clients |-> "none"] /\ temp = [p \in Clients |-> "none"]
  /\ todo = [p \in Clients |-> {}] /\ ready = [p \in Clients |-> TRUE]
  /\ refs = [p \in Clients |-> {}] /\ earlier = [p \in Clients |-> NoBlob]
  /\ listed = [p \in Clients |-> {}]
  /\ faults = 0 /\ collections = 0

Goto(p, place) == step' = [step EXCEPT ![p] = place] /\ UNCHANGED <<blob, outcome>>
Done(p, result) ==
  /\ step' = [step EXCEPT ![p] = IF result = "missed" THEN "missed" ELSE "idle"]
  /\ blob' = [blob EXCEPT ![p] = IF result = "missed" THEN @ ELSE NoBlob]
  /\ outcome' = [outcome EXCEPT ![p] = result]

-----------------------------------------------------------------------------
(* materialize *)

Restore(p) ==
  /\ step[p] = "idle"
  /\ \E b \in Blobs :
       /\ blob' = [blob EXCEPT ![p] = b]
       /\ step' = [step EXCEPT ![p] = IF objects[b] # "none" THEN "copy" ELSE "manifest"]
  /\ outcome' = [outcome EXCEPT ![p] = "none"]
  /\ UNCHANGED <<store, temp, locals, listed, bounds>>

\* Mutant: what was copied is published without looking at it.
MutVerified(content) == content # "none"

Verified(content) == content = "good"

\* copy_and_verify.  A copy that fails because the object went away is an error
\* of materialize; restore_outputs' callers take it for a miss.
CopyObject(p) ==
  LET content == objects[blob[p]] IN
  /\ step[p] = "copy"
  /\ \/ content = "none" /\ Done(p, "missed")
     \/ Verified(content) /\ Done(p, content)
     \/ content # "none" /\ ~Verified(content) /\ Goto(p, "discard")
  /\ UNCHANGED <<store, temp, locals, listed, bounds>>

\* Mutant: the rotten object stays.
MutAfterDiscard(file) == file

AfterDiscard(file) == "none"

\* Between the check and the removal another client may have replaced it.
DiscardObject(p) ==
  /\ step[p] = "discard" /\ Goto(p, "manifest")
  /\ objects' = [objects EXCEPT ![blob[p]] = AfterDiscard(@)]
  /\ UNCHANGED <<chunks, deltas, manifests, head, temp, locals, listed, bounds>>

\* An unreadable manifest is removed.  One cut from a rotten object is well
\* formed: its chunks are spliced, and the blob does not verify.
ReadManifest(p) ==
  LET m == manifests[blob[p]] IN
  /\ step[p] = "manifest"
  /\ \/ /\ m.kind = "right" /\ Goto(p, "splice")
        /\ todo' = [todo EXCEPT ![p] = ChunksOf(blob[p])]
        /\ refs' = [refs EXCEPT ![p] = m.deltas]
        /\ UNCHANGED manifests
     \/ /\ m.kind # "right" /\ Done(p, "missed")
        /\ manifests' = [manifests EXCEPT ![blob[p]] = IF m.kind = "bad" THEN Absent ELSE m]
        /\ UNCHANGED <<todo, refs>>
  /\ UNCHANGED <<objects, chunks, deltas, head, temp, ready, earlier, listed, bounds>>

\* materialize_chunk_at: a rotten chunk is removed, and not rebuilt this time.
UseChunk(p, c) ==
  /\ chunks[c] # "none"
  /\ chunks' = [chunks EXCEPT ![c] = IF @ = "bad" THEN "none" ELSE @]
  /\ ready' = [ready EXCEPT ![p] = @ /\ chunks[c] = "good"]
  /\ UNCHANGED deltas

\* reconstruct_delta: a rotten base or patch is removed, but a patch of another
\* length stays.
RebuildChunk(p, c) ==
  LET patches == {d \in refs[p] : d[1] = c} IN
  /\ chunks[c] = "none"
  /\ \/ /\ patches = {}
        /\ ready' = [ready EXCEPT ![p] = FALSE] /\ UNCHANGED <<chunks, deltas>>
     \/ \E d \in patches :
          /\ chunks[d[2]] = "good" /\ deltas[d] = "good"
          /\ chunks' = [chunks EXCEPT ![c] = "good"] /\ UNCHANGED <<deltas, ready>>
     \/ \E d \in patches :
          /\ ~(chunks[d[2]] = "good" /\ deltas[d] = "good")
          /\ chunks' = [chunks EXCEPT ![d[2]] = IF @ = "bad" THEN "none" ELSE @]
          /\ \/ UNCHANGED deltas
             \/ /\ chunks[d[2]] = "good" /\ deltas[d] = "bad"
                /\ deltas' = [deltas EXCEPT ![d] = "none"]
          /\ ready' = [ready EXCEPT ![p] = FALSE]

SpliceChunk(p) ==
  /\ step[p] = "splice"
  /\ \E c \in todo[p] :
       /\ UseChunk(p, c) \/ RebuildChunk(p, c)
       /\ todo' = [todo EXCEPT ![p] = @ \ {c}]
  /\ UNCHANGED <<objects, manifests, head, step, blob, outcome, temp, refs, earlier, listed,
                 bounds>>

Spliced(p) ==
  /\ step[p] = "splice" /\ todo[p] = {}
  /\ Done(p, IF ready[p] THEN "good" ELSE "missed")
  /\ refs' = [refs EXCEPT ![p] = {}] /\ ready' = [ready EXCEPT ![p] = TRUE]
  /\ UNCHANGED <<store, temp, todo, earlier, listed, bounds>>

-----------------------------------------------------------------------------
(* put, by the client whose restore missed and whose action has run *)

\* An object that is there is not looked at.  Else the output is copied beside
\* it; it may change while it is.
PutObject(p) ==
  /\ step[p] = "missed"
  /\ \/ /\ objects[blob[p]] # "none" /\ Goto(p, "stat") /\ UNCHANGED <<temp, faults>>
     \/ /\ objects[blob[p]] = "none" /\ Goto(p, "publish")
        /\ \/ temp' = [temp EXCEPT ![p] = "good"] /\ UNCHANGED faults
           \/ /\ faults < MaxFaults /\ faults' = faults + 1
              /\ temp' = [temp EXCEPT ![p] = "bad"]
  /\ UNCHANGED <<store, locals, listed, collections>>

\* verify_staged_blob, publish_verified_blob: the rename replaces; without a
\* staging file it fails, which is no harm if another writer was there first.
Publish(p) ==
  LET b == blob[p]
      beaten == temp[p] = "none" /\ objects[b] # "none"
  IN
  /\ step[p] = "publish"
  /\ \/ /\ Verified(temp[p]) /\ objects' = [objects EXCEPT ![b] = temp[p]]
        /\ Goto(p, "stat")
     \/ beaten /\ Goto(p, "stat") /\ UNCHANGED objects
     \/ ~Verified(temp[p]) /\ ~beaten /\ Done(p, "failed") /\ UNCHANGED objects
  /\ temp' = [temp EXCEPT ![p] = "none"]
  /\ UNCHANGED <<chunks, deltas, manifests, head, locals, listed, bounds>>

\* `metadata(&object)?` and the open of put_chunks fail if the object has gone
\* meanwhile.  put_chunks maps whatever the object holds; `previous` is the
\* manifest of the blob this output was last.
OpenObject(p) ==
  LET b == blob[p]
      usable == head # NoBlob /\ manifests[head].kind = "right"
      chunking == b \in Big /\ manifests[b].kind = "none"
  IN
  /\ step[p] = "stat"
  /\ \/ objects[b] = "none" /\ Done(p, "failed") /\ UNCHANGED <<todo, earlier>>
     \/ objects[b] # "none" /\ ~chunking /\ Done(p, "stored") /\ UNCHANGED <<todo, earlier>>
     \/ /\ objects[b] = "bad" /\ chunking /\ Goto(p, "describeWrong")
        /\ UNCHANGED <<todo, earlier>>
     \/ /\ objects[b] = "good" /\ chunking /\ Goto(p, "cut")
        /\ todo' = [todo EXCEPT ![p] = ChunksOf(b)]
        /\ earlier' = [earlier EXCEPT ![p] = IF usable THEN head ELSE NoBlob]
  /\ UNCHANGED <<store, temp, ready, refs, listed, bounds>>

\* positional_base: the chunk of the previous version at the same place.
PositionalBase(p, c) ==
  IF earlier[p] = NoBlob THEN NoBlob
  ELSE LET old == Layout[earlier[p]]
           at == CHOOSE i \in DOMAIN Layout[blob[p]] : Layout[blob[p]][i] = c
       IN IF at \in DOMAIN old THEN old[at] ELSE NoBlob

\* build_positional_delta: a rotten base is removed.
Patchable(base) == base # NoBlob /\ chunks[base] = "good"
WithoutRotten(base) ==
  [d \in ChunkIds |-> IF d = base /\ chunks[d] = "bad" THEN "none" ELSE chunks[d]]

\* publish_delta does not look at a patch that is there.
Patched(d) == [deltas EXCEPT ![d] = IF @ = "none" THEN "good" ELSE @]

\* prepare_chunk: a chunk that is there is not looked at; a new one may also get
\* a patch against its base, when that is smaller.
CutChunk(p) ==
  /\ step[p] = "cut"
  /\ \E c \in todo[p] :
       LET base == PositionalBase(p, c) IN
       /\ todo' = [todo EXCEPT ![p] = @ \ {c}]
       /\ \/ chunks[c] # "none" /\ UNCHANGED <<chunks, deltas, refs>>
          \/ /\ chunks[c] = "none"
             /\ chunks' = [WithoutRotten(base) EXCEPT ![c] = "good"]
             /\ UNCHANGED <<deltas, refs>>
          \/ /\ chunks[c] = "none" /\ Patchable(base)
             /\ chunks' = [chunks EXCEPT ![c] = "good"]
             /\ deltas' = Patched(<<c, base>>)
             /\ refs' = [refs EXCEPT ![p] = @ \cup {<<c, base>>}]
  /\ UNCHANGED <<objects, manifests, head, step, blob, outcome, temp, ready, earlier, listed,
                 bounds>>

\* publish_manifest does not replace one that appeared meanwhile.
Describe(p) ==
  LET own == Manifest(IF step[p] = "cut" THEN "right" ELSE "wrong", refs[p]) IN
  /\ step[p] = "describeWrong" \/ (step[p] = "cut" /\ todo[p] = {})
  /\ manifests' = [manifests EXCEPT ![blob[p]] = IF @.kind = "none" THEN own ELSE @]
  /\ Goto(p, "head")
  /\ refs' = [refs EXCEPT ![p] = {}] /\ earlier' = [earlier EXCEPT ![p] = NoBlob]
  /\ UNCHANGED <<objects, chunks, deltas, head, temp, todo, ready, listed, bounds>>

PublishHead(p) ==
  /\ step[p] = "head" /\ head' = blob[p] /\ Done(p, "stored")
  /\ UNCHANGED <<objects, chunks, deltas, manifests, temp, locals, listed, bounds>>

-----------------------------------------------------------------------------
(* gc.  Staging files of other clients lie in the same directories.  The order *)
(* of modification times and the cap are abstracted: any files the scan found  *)
(* may be the oldest ones.                                                     *)

Files ==
  {<<"object", b>> : b \in {b \in Blobs : objects[b] # "none"}}
    \cup {<<"chunk", c>> : c \in {c \in ChunkIds : chunks[c] # "none"}}
    \cup {<<"delta", d>> : d \in {d \in Pairs : deltas[d] # "none"}}
    \cup {<<"manifest", b>> : b \in {b \in Blobs : manifests[b].kind # "none"}}
    \cup {<<"temp", p>> : p \in {p \in Clients : temp[p] # "none"}}

Collect(p) ==
  /\ step[p] = "idle" /\ collections < MaxCollections /\ Goto(p, "scan")
  /\ collections' = collections + 1
  /\ listed' = [listed EXCEPT ![p] = Files]
  /\ UNCHANGED <<store, temp, locals, faults>>

\* `entry.metadata()?`: a file that went away while the store is read fails it.
Scan(p) ==
  /\ step[p] = "scan"
  /\ \/ /\ listed[p] \subseteq Files /\ Goto(p, "sweep")
        /\ \E victims \in SUBSET listed[p] :
             /\ Cardinality(victims) <= MaxVictims
             /\ listed' = [listed EXCEPT ![p] = victims]
     \/ /\ ~(listed[p] \subseteq Files) /\ Done(p, "failed")
        /\ listed' = [listed EXCEPT ![p] = {}]
  /\ UNCHANGED <<store, temp, locals, bounds>>

Sweep(p) ==
  /\ step[p] = "sweep"
  /\ \E f \in listed[p] :
       LET gone(kind, x) == f = <<kind, x>> IN
       /\ objects' = [b \in Blobs |-> IF gone("object", b) THEN "none" ELSE objects[b]]
       /\ chunks' = [c \in ChunkIds |-> IF gone("chunk", c) THEN "none" ELSE chunks[c]]
       /\ deltas' = [d \in Pairs |-> IF gone("delta", d) THEN "none" ELSE deltas[d]]
       /\ manifests' = [b \in Blobs |-> IF gone("manifest", b) THEN Absent ELSE manifests[b]]
       /\ temp' = [q \in Clients |-> IF gone("temp", q) THEN "none" ELSE temp[q]]
       /\ listed' = [listed EXCEPT ![p] = @ \ {f}]
  /\ UNCHANGED <<head, step, blob, outcome, locals, bounds>>

EndCollection(p) ==
  /\ step[p] = "sweep" /\ listed[p] = {} /\ Done(p, "stored")
  /\ UNCHANGED <<store, temp, locals, listed, bounds>>

-----------------------------------------------------------------------------
\* A file rots or is written to by somebody else.
Rot ==
  /\ faults < MaxFaults /\ faults' = faults + 1
  /\ \/ \E b \in Blobs : /\ objects[b] = "good"
                         /\ objects' = [objects EXCEPT ![b] = "bad"]
                         /\ UNCHANGED <<chunks, deltas, manifests>>
     \/ \E c \in ChunkIds : /\ chunks[c] = "good"
                            /\ chunks' = [chunks EXCEPT ![c] = "bad"]
                            /\ UNCHANGED <<objects, deltas, manifests>>
     \/ \E d \in Pairs : /\ deltas[d] = "good"
                         /\ deltas' = [deltas EXCEPT ![d] = "bad"]
                         /\ UNCHANGED <<objects, chunks, manifests>>
     \/ \E b \in Blobs : /\ manifests[b].kind = "right"
                         /\ manifests' = [manifests EXCEPT ![b] = Manifest("bad", {})]
                         /\ UNCHANGED <<objects, chunks, deltas>>
  /\ UNCHANGED <<head, step, blob, outcome, temp, locals, listed, collections>>

Step(p) ==
  \/ Restore(p) \/ CopyObject(p) \/ DiscardObject(p) \/ ReadManifest(p)
  \/ SpliceChunk(p) \/ Spliced(p)
  \/ PutObject(p) \/ Publish(p) \/ OpenObject(p) \/ CutChunk(p)
  \/ Describe(p) \/ PublishHead(p)
  \/ Scan(p) \/ Sweep(p) \/ EndCollection(p)

StoreNext == (\E p \in Clients : Step(p) \/ Collect(p)) \/ Rot

StoreSpec == StoreInit /\ [][StoreNext]_storeVars
FairStoreSpec == StoreSpec /\ \A p \in Clients : WF_storeVars(Step(p))

-----------------------------------------------------------------------------
(* Properties *)

\* Files, manifests and what each client holds are of their types.
StoreTypeOK ==
  /\ objects \in [Blobs -> File] /\ chunks \in [ChunkIds -> File]
  /\ deltas \in [Pairs -> File]
  /\ manifests \in [Blobs -> [kind : {"none", "right", "wrong", "bad"}, deltas : SUBSET Pairs]]
  /\ head \in Blobs \cup {NoBlob}
  /\ \A p \in Clients : todo[p] \subseteq ChunkIds /\ refs[p] \subseteq Pairs
  /\ faults \in 0 .. MaxFaults /\ collections \in 0 .. MaxCollections

\* cas.rs, materialize: "restoring it would hand back an artifact that never
\* existed".  Whatever rots, and whatever is collected or replaced between the
\* steps of a restore, what it publishes is the blob that was asked for.
RestoredIsAsked == StoreTypeOK /\ \A p \in Clients : outcome[p] # "bad"

\* A put never looks at an object or a chunk that is there, and never replaces a
\* manifest; still damage and collection cost a bounded number of actions: once
\* they stop, every restore hits.
Heals == <>[](\A p \in Clients : outcome[p] \notin {"missed", "failed"})
=============================================================================

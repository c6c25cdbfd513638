--------------------------- MODULE WarmPathProofs ---------------------------
(***************************************************************************)
(* What a build finds under .frost never makes it end well with an output   *)
(* that its inputs do not make.  An identity is given to a file once, so a  *)
(* digest kept with the identity it was read after is that of the file for  *)
(* as long as the file has that identity; and a certificate is a recorded   *)
(* result that was verified after the identities it lists were read.        *)
(***************************************************************************)
EXTENDS WarmPath, TLAPS

\* s was the identity of f when f held b, and is if f has it now.
Identifies(f, s, b) ==
  /\ s = None => b = None
  /\ s # None => s \in Nat /\ s <= clock
  /\ StatOf(f) = s => BytesOf(f) = b

Places == {"idle", "hit", "end", "graph", "compile", "load", "preflight", "verify",
           "inputs", "check", "run", "made", "save", "append", "replace"}
Looking == {"preflight", "verify", "inputs", "check", "made"}
OfBuild == {"hit", "preflight", "verify", "run", "made"}

Shapes ==
  /\ clock \in Nat /\ values \in {0, 1} /\ DOMAIN disk = Files
  /\ \A f \in Files : Identifies(f, StatOf(f), BytesOf(f))
  /\ StatOf("src") # None
  /\ pc \in [Programs -> Places] /\ moved \in [Programs -> BOOLEAN]
  /\ DOMAIN call = Programs /\ DOMAIN graph = Programs /\ DOMAIN cache = Programs
  /\ DOMAIN seen = Programs /\ DOMAIN peek = Programs /\ DOMAIN captured = Programs
  /\ todo \in [Programs -> SUBSET Files]
  /\ \A p \in Programs :
       cache[p] = [snapshot |-> cache[p].snapshot, updates |-> cache[p].updates,
                   loaded |-> cache[p].loaded, settled |-> cache[p].settled]

\* What a program looks at, at each step.
TodoInv ==
  /\ \A p \in Programs : pc[p] \notin Looking => todo[p] = {}
  /\ \A p \in Programs : peek[p] # None =>
       peek[p].file \in todo[p] /\ peek[p].stat \in Nat /\ peek[p].stat <= clock
  /\ pc["dry"] \notin OfBuild
  /\ pc["build"] = "inputs" => todo["build"] \subseteq {"src"}
  /\ pc["build"] \in {"check", "made"} => todo["build"] \subseteq {"out"}
  /\ pc["build"] \in {"preflight", "check"} =>
       {"out"} \subseteq todo["build"] \cup DOMAIN seen["build"]
  /\ pc["build"] = "preflight" => {"src"} \subseteq todo["build"] \cup DOMAIN seen["build"]

\* Every entry of the hash cache identifies, wherever it is.
AllTrue(entries) ==
  \A f \in DOMAIN entries : f \in Files /\
    (entries[f] # None => entries[f].stat \in Nat /\ Identifies(f, entries[f].stat, entries[f].bytes))
FileInv(h) ==
  /\ "frames" \in DOMAIN h /\ h.frames \in Seq({h.frames[i] : i \in 1 .. Len(h.frames)})
  /\ \A i \in DOMAIN h.frames : AllTrue(h.frames[i])
CacheInv ==
  /\ hashcache # None => FileInv(hashcache)
  /\ \A p \in Programs : pc[p] = "append" => FileInv(hashcache)
  /\ \A p \in Programs : AllTrue(cache[p].snapshot) /\ AllTrue(cache[p].updates)

\* A stored graph is that of the sources it names, and a graph just parsed, as well as
\* the build's own, is that of the manifest.
Held == Places \ {"idle", "hit", "end", "graph"}
GraphInv ==
  /\ store # None =>
       /\ {"fingerprint", "sources", "graph"} \subseteq DOMAIN store
       /\ store.graph = store.sources.rule /\ store.fingerprint = store.sources.rule
  /\ \A p \in Programs : pc[p] = "compile" => graph[p] = manifest.rule
  /\ pc["build"] \in Held => graph["build"] = manifest.rule

-----------------------------------------------------------------------------
(* What the build knows                                                     *)

Settled == cache["build"].settled
Called == call["build"]
Found(f) == seen["build"][f]
FoundIt(f) == f \in DOMAIN seen["build"]
MadeHere(src) == Made(graph["build"], Called.env, Called.values, src)

\* A recorded result is what the command makes of what the key lists.
RecordTrue ==
  /\ journal.key.src = journal.src
  /\ journal.out = Makes(journal.key.rule, journal.key.env, journal.key.values, journal.key.src)
RecordInv ==
  /\ journal # None => RecordTrue
  /\ pc["build"] = "check" => RecordTrue /\ journal.key = Key("build", Found("src"))
  /\ pc["build"] = "verify" => RecordTrue /\ journal.key = Key("build", journal.src)
  /\ pc["build"] \in Held \cup {"graph"} => Called = [env |-> Called.env, values |-> Called.values]
  /\ pc["build"] \in Held \ {"compile", "load"} => Called.values \in {0, 1}

\* From its digest to the command the source is as it was digested; so is the output
\* of the command until it is recorded.
SourceInv ==
  /\ pc["build"] \in {"graph", "compile", "load", "preflight", "verify"} => DOMAIN Settled = {}
  /\ pc["build"] \in {"graph", "compile", "load"} => DOMAIN seen["build"] = {}
  /\ pc["build"] \in {"inputs", "check", "run"} =>
       ("src" \in DOMAIN Settled => Settled["src"] = BytesOf("src"))
  /\ pc["build"] \in {"inputs", "check", "run"} /\ "src" \notin todo["build"] =>
       "src" \in DOMAIN Settled /\ FoundIt("src") /\ Found("src") = BytesOf("src")
  /\ pc["build"] = "made" =>
       /\ FoundIt("src") /\ BytesOf("out") = MadeHere(Found("src"))
       /\ "out" \in DOMAIN Settled => Settled["out"] = BytesOf("out")
       /\ "out" \notin todo["build"] => Found("out") = BytesOf("out")

\* The identities to be certified were read before the digests that verify them.
Caught(f) == captured["build"].files[f]
VerifyInv ==
  pc["build"] = "verify" =>
    /\ captured["build"].fingerprint = graph["build"] /\ graph["build"] # None
    /\ captured["build"].env = Called.env
    /\ \A f \in Files :
         /\ Caught(f) = None => StatOf(f) = None
         /\ Caught(f) # None => Caught(f) \in Nat /\ Caught(f) <= clock
         /\ f \notin todo["build"] => FoundIt(f) /\ Identifies(f, Caught(f), Found(f))

CertInv ==
  certificate # None =>
    /\ certificate.fingerprint # None
    /\ \E src, out : \E v \in {0, 1} :
         /\ Identifies("src", certificate.files["src"], src)
         /\ Identifies("out", certificate.files["out"], out)
         /\ out = Made(certificate.fingerprint, certificate.env, v, src)

\* As long as nothing was touched, what the build goes by is true.
Good == {"verify", "save", "append", "replace", "end"}
TruthInv ==
  ~moved["build"] =>
    /\ pc["build"] \in Held \cup {"graph"} => Called.env = env
    /\ pc["build"] \in Held \ {"compile", "load"} => Called.values = values
    /\ pc["build"] \in {"preflight", "verify", "inputs", "check", "run"} =>
         /\ \A f \in DOMAIN Settled : Settled[f] = BytesOf(f)
         /\ \A f \in DOMAIN seen["build"] : Found(f) = BytesOf(f)
    /\ pc["build"] = "made" => Found("src") = BytesOf("src")
    /\ pc["build"] \in Good => BytesOf("out") = MadeOf(values)
    /\ pc["build"] = "hit" => \E v \in {0, 1} : BytesOf("out") = MadeOf(v)

BuildInv == RecordInv /\ SourceInv /\ VerifyInv /\ CertInv /\ TruthInv
WarmInv == Shapes /\ TodoInv /\ CacheInv /\ GraphInv /\ BuildInv
-----------------------------------------------------------------------------
(* Identities                                                               *)

\* A file that changes gets an identity that none has had, or none at all.
Later ==
  /\ clock' \in Nat /\ clock <= clock' /\ DOMAIN disk' = Files
  /\ \A f \in Files :
       \/ disk'[f] = disk[f]
       \/ disk'[f] = Missing
       \/ disk'[f].stat \in Nat /\ clock < disk'[f].stat /\ disk'[f].stat <= clock'

LEMMA QuietLater ==
  ASSUME Shapes, UNCHANGED <<disk, clock>>
  PROVE  Later
BY DEF Shapes, Later

LEMMA WriteLater ==
  ASSUME Shapes, NEW f \in Files, NEW b, clock' = clock + 1,
         disk' = [disk EXCEPT ![f] = [stat |-> clock + 1, bytes |-> b]]
  PROVE  Later /\ disk'[f] = [stat |-> clock + 1, bytes |-> b] /\ \A g \in Files \ {f} : disk'[g] = disk[g]
BY DEF Shapes, Later

LEMMA MissLater ==
  ASSUME Shapes, NEW f \in Files, clock' = clock + 1, disk' = [disk EXCEPT ![f] = Missing]
  PROVE  Later /\ disk'[f] = Missing /\ \A g \in Files \ {f} : disk'[g] = disk[g]
BY DEF Shapes, Later

\* So what identified once does so for ever.
LEMMA IdentityStays ==
  ASSUME Shapes, Later, NEW f \in Files, NEW s, NEW b, Identifies(f, s, b)
  PROVE  /\ s = None => b = None
         /\ s # None => s \in Nat /\ s <= clock'
         /\ disk'[f].stat = s => disk'[f].bytes = b
<1>1. /\ s = None => b = None
      /\ s # None => s \in Nat /\ s <= clock
      /\ disk[f].stat = s => disk[f].bytes = b
  BY DEF Identifies, StatOf, BytesOf
<1>2. s # None => s <= clock'
  BY <1>1 DEF Later, Shapes
<1>3. CASE disk'[f] = disk[f]
  BY <1>1, <1>2, <1>3
<1>4. CASE disk'[f] = Missing
  BY <1>1, <1>2, <1>4 DEF Missing
<1>5. CASE disk'[f].stat \in Nat /\ clock < disk'[f].stat
  BY <1>1, <1>2, <1>5, ContentAssumption DEF Shapes
<1>. QED
  BY <1>3, <1>4, <1>5 DEF Later

LEMMA FilesIdentified ==
  ASSUME Shapes, Later
  PROVE  \A f \in Files : Identifies(f, StatOf(f), BytesOf(f))'
<1>1. SUFFICES ASSUME NEW f \in Files
               PROVE  /\ disk'[f].stat = None => disk'[f].bytes = None
                      /\ disk'[f].stat # None => disk'[f].stat \in Nat /\ disk'[f].stat <= clock'
  BY DEF Identifies, StatOf, BytesOf
<1>2. CASE disk'[f] = disk[f]
  <2>1. Identifies(f, StatOf(f), BytesOf(f))
    BY DEF Shapes
  <2>. QED
    BY <1>2, <2>1 DEF Identifies, StatOf, BytesOf, Later, Shapes
<1>3. CASE disk'[f] = Missing
  BY <1>3 DEF Missing
<1>4. CASE disk'[f].stat \in Nat /\ disk'[f].stat <= clock'
  BY <1>4, ContentAssumption
<1>. QED
  BY <1>2, <1>3, <1>4 DEF Later

-----------------------------------------------------------------------------
(* The hash cache                                                           *)

LEMMA TrueStays ==
  ASSUME Shapes, Later, NEW e, AllTrue(e)
  PROVE  \A f \in DOMAIN e : f \in Files /\
           (e[f] # None => e[f].stat \in Nat /\ Identifies(f, e[f].stat, e[f].bytes)')
<1>1. SUFFICES ASSUME NEW f \in DOMAIN e, e[f] # None
               PROVE  f \in Files /\ e[f].stat \in Nat /\ Identifies(f, e[f].stat, e[f].bytes)'
  BY DEF AllTrue
<1>2. f \in Files /\ e[f].stat \in Nat /\ Identifies(f, e[f].stat, e[f].bytes)
  BY <1>1 DEF AllTrue
<1>. QED
  BY <1>2, IdentityStays DEF Identifies, StatOf, BytesOf

LEMMA FileStays ==
  ASSUME Shapes, Later, hashcache' = hashcache, FileInv(hashcache)
  PROVE  FileInv(hashcache)'
<1>1. \A i \in DOMAIN hashcache.frames : AllTrue(hashcache.frames[i])'
  BY TrueStays DEF FileInv, AllTrue
<1>. QED
  BY <1>1 DEF FileInv

\* Entries that are new are true.
LEMMA CacheStays ==
  ASSUME Shapes, CacheInv, Later, hashcache' = hashcache,
         \A p \in Programs : pc'[p] = "append" => pc[p] = "append" \/ hashcache # None,
         \A p \in Programs :
           /\ cache'[p].snapshot = cache[p].snapshot \/ AllTrue(cache[p].snapshot)'
           /\ cache'[p].updates = cache[p].updates \/ AllTrue(cache[p].updates)'
  PROVE  CacheInv'
<1>1. FileInv(hashcache) => FileInv(hashcache)'
  BY FileStays
<1>2. ASSUME NEW p \in Programs
      PROVE  AllTrue(cache[p].snapshot)' /\ AllTrue(cache[p].updates)'
  <2>1. AllTrue(cache[p].snapshot) /\ AllTrue(cache[p].updates)
    BY DEF CacheInv
  <2>2. cache'[p].snapshot = cache[p].snapshot => AllTrue(cache[p].snapshot)'
    BY <2>1, TrueStays DEF AllTrue
  <2>3. cache'[p].updates = cache[p].updates => AllTrue(cache[p].updates)'
    BY <2>1, TrueStays DEF AllTrue
  <2>. QED
    BY <2>2, <2>3
<1>. QED
  BY <1>1, <1>2 DEF CacheInv

\* The entry that decode keeps is one of those in the file.
LEMMA DecodedIsTrue ==
  ASSUME FileInv(hashcache)
  PROVE  AllTrue(Decode(hashcache.frames))
<1>. DEFINE frames == hashcache.frames
            all == [f \in {g \in Files : \E i \in DOMAIN frames : Counts(frames, g, i)} |->
                      frames[CHOOSE i \in DOMAIN frames : Counts(frames, f, i)][f]]
<1>1. ASSUME NEW f \in DOMAIN all
      PROVE  \E i \in DOMAIN frames : f \in DOMAIN frames[i] /\ all[f] = frames[i][f]
  <2>. DEFINE i == CHOOSE i \in DOMAIN frames : Counts(frames, f, i)
  <2>1. i \in DOMAIN frames /\ Counts(frames, f, i)
    BY <1>1
  <2>2. all[f] = frames[i][f]
    BY <1>1
  <2>. QED
    BY <2>1, <2>2 DEF Counts
<1>2. AllTrue(all)
  <2>1. ASSUME NEW f \in DOMAIN all
        PROVE  f \in Files /\ (all[f] # None => all[f].stat \in Nat /\ Identifies(f, all[f].stat, all[f].bytes))
    BY <1>1, <2>1 DEF FileInv, AllTrue
  <2>. QED
    BY <2>1 DEF AllTrue
<1>3. Decode(frames) = Live(all)
  BY DEF Decode
<1>4. \A f \in DOMAIN Live(all) : f \in DOMAIN all /\ Live(all)[f] = all[f]
  BY DEF Live, Restrict
<1>. HIDE DEF all
<1>. QED
  BY <1>2, <1>3, <1>4 DEF AllTrue

LEMMA OverIsTrue ==
  ASSUME NEW e, NEW g, AllTrue(e), AllTrue(g)
  PROVE  AllTrue(Live(Over(e, g)))
<1>1. \A f \in DOMAIN Over(e, g) :
        (f \in DOMAIN e /\ Over(e, g)[f] = e[f]) \/ (f \in DOMAIN g /\ Over(e, g)[f] = g[f])
  BY DEF Over
<1>2. AllTrue(Over(e, g))
  BY <1>1 DEF AllTrue
<1>3. \A f \in DOMAIN Live(Over(e, g)) : f \in DOMAIN Over(e, g) /\ Live(Over(e, g))[f] = Over(e, g)[f]
  BY DEF Live, Restrict
<1>. QED
  BY <1>2, <1>3 DEF AllTrue

LEMMA WithIsTrue ==
  ASSUME NEW e, NEW f \in Files, NEW v, AllTrue(e),
         v # None => v.stat \in Nat /\ Identifies(f, v.stat, v.bytes)
  PROVE  AllTrue(With(e, f, v))
BY DEF With, AllTrue

LEMMA ForgetIsTrue ==
  ASSUME NEW e, NEW f \in Files, AllTrue(e)
  PROVE  AllTrue(With(e, f, None))
BY DEF With, AllTrue

\* What the hash cache says of a file that it takes for fresh.
LEMMA FreshIsTrue ==
  ASSUME CacheInv, NEW p \in Programs, NEW f \in Files, Fresh(p, f)
  PROVE  Lookup(p, f).bytes = BytesOf(f)
<1>1. Lookup(p, f) # None /\ Lookup(p, f).stat = StatOf(f)
  BY DEF Fresh
<1>2. \/ f \in DOMAIN cache[p].updates /\ Lookup(p, f) = cache[p].updates[f]
      \/ f \in DOMAIN cache[p].snapshot /\ Lookup(p, f) = cache[p].snapshot[f]
  BY <1>1 DEF Lookup, Get
<1>. QED
  BY <1>1, <1>2 DEF CacheInv, AllTrue, Identifies

-----------------------------------------------------------------------------
(* Steps of others                                                          *)

BuildRests ==
  /\ pc'["build"] = pc["build"] /\ call'["build"] = call["build"]
  /\ graph'["build"] = graph["build"] /\ cache'["build"] = cache["build"]
  /\ todo'["build"] = todo["build"] /\ seen'["build"] = seen["build"]
  /\ captured'["build"] = captured["build"] /\ journal' = journal /\ certificate' = certificate

LEMMA CertStays ==
  ASSUME Shapes, Later, CertInv, certificate' = certificate
  PROVE  CertInv'
<1>1. SUFFICES ASSUME certificate # None
               PROVE  CertInv'
  BY DEF CertInv
<1>2. PICK src, out : \E v \in {0, 1} :
         /\ Identifies("src", certificate.files["src"], src)
         /\ Identifies("out", certificate.files["out"], out)
         /\ out = Made(certificate.fingerprint, certificate.env, v, src)
  BY <1>1 DEF CertInv
<1>3. /\ Identifies("src", certificate.files["src"], src)'
      /\ Identifies("out", certificate.files["out"], out)'
  BY <1>2, IdentityStays DEF Identifies, StatOf, BytesOf, Files
<1>. QED
  BY <1>1, <1>2, <1>3 DEF CertInv

\* A dry run and whoever edits leave the build what it has, and what they touch is
\* touched for the build as well.
LEMMA OutsideKeeps ==
  ASSUME WarmInv, BuildRests, Later,
         ~moved'["build"] /\ pc["build"] # "idle" =>
           ~moved["build"] /\ UNCHANGED <<disk, env, values, manifest>>,
         pc["build"] \in {"inputs", "check", "run"} /\ "src" \in DOMAIN Settled =>
           disk'["src"] = disk["src"],
         pc["build"] = "made" => disk'["out"] = disk["out"],
         pc["build"] = "verify" => \A f \in Files : disk[f].stat = None => disk'[f].stat = None
  PROVE  BuildInv'
<1>1. Shapes /\ RecordInv /\ SourceInv /\ VerifyInv /\ CertInv /\ TruthInv
  BY DEF WarmInv, BuildInv
<1>2. \A src : Key("build", src)' = Key("build", src) /\ MadeHere(src)' = MadeHere(src)
  BY DEF BuildRests, Key, MadeHere, Called
<1>3. /\ Settled' = Settled /\ Called' = Called
      /\ \A f \in Files : Found(f)' = Found(f) /\ (FoundIt(f)' <=> FoundIt(f)) /\ Caught(f)' = Caught(f)
  BY DEF BuildRests, Settled, Called, Found, FoundIt, Caught
<1>4. RecordInv'
  <2>1. RecordTrue' <=> RecordTrue
    BY DEF BuildRests, RecordTrue
  <2>2. Key("build", Found("src"))' = Key("build", Found("src")) /\ Key("build", journal.src)' = Key("build", journal.src)
    BY <1>3 DEF BuildRests, Key, Called, Files
  <2>. QED
    BY <1>1, <1>3, <2>1, <2>2 DEF RecordInv, BuildRests
<1>5. SourceInv'
  <2>1. pc["build"] \in {"inputs", "check", "run"} /\ "src" \in DOMAIN Settled => BytesOf("src")' = BytesOf("src")
    BY DEF BytesOf
  <2>2. pc["build"] = "made" => BytesOf("out")' = BytesOf("out")
    BY DEF BytesOf
  <2>3. MadeHere(Found("src"))' = MadeHere(Found("src"))
    BY <1>3 DEF BuildRests, MadeHere, Called, Files
  <2>. QED
    BY <1>1, <1>3, <2>1, <2>2, <2>3 DEF SourceInv, BuildRests, Files
<1>6. VerifyInv'
  <2>1. SUFFICES ASSUME pc["build"] = "verify"
                 PROVE  VerifyInv'
    BY DEF VerifyInv, BuildRests
  <2>2. /\ captured'["build"].fingerprint = graph'["build"] /\ graph'["build"] # None
        /\ captured'["build"].env = Called'.env
    BY <1>1, <1>3, <2>1 DEF VerifyInv, BuildRests
  <2>3. ASSUME NEW f \in Files
        PROVE  /\ Caught(f)' = None => StatOf(f)' = None
               /\ Caught(f)' # None => Caught(f)' \in Nat /\ Caught(f)' <= clock'
               /\ f \notin todo'["build"] => FoundIt(f)' /\ Identifies(f, Caught(f), Found(f))'
    <3>1. /\ Caught(f) = None => StatOf(f) = None
          /\ Caught(f) # None => Caught(f) \in Nat /\ Caught(f) <= clock
          /\ f \notin todo["build"] => FoundIt(f) /\ Identifies(f, Caught(f), Found(f))
      BY <1>1, <2>1 DEF VerifyInv
    <3>2. Caught(f) = None => disk'[f].stat = None
      BY <2>1, <3>1 DEF StatOf
    <3>3. Caught(f) # None => Caught(f) <= clock'
      BY <1>1, <3>1 DEF Later, Shapes
    <3>4. f \notin todo["build"] => Identifies(f, Caught(f), Found(f))'
      BY <1>1, <1>3, <3>1, IdentityStays DEF Identifies, StatOf, BytesOf
    <3>. QED
      BY <1>3, <3>1, <3>2, <3>3, <3>4 DEF StatOf, BuildRests
  <2>. QED
    BY <2>2, <2>3 DEF VerifyInv
<1>7. CertInv'
  BY <1>1, CertStays DEF BuildRests
<1>8. TruthInv'
  <2>1. CASE moved'["build"]
    BY <2>1 DEF TruthInv
  <2>2. CASE pc["build"] = "idle"
    BY <2>2 DEF TruthInv, BuildRests, Held, Looking, Good
  <2>3. CASE ~moved["build"] /\ UNCHANGED <<disk, env, values, manifest>>
    <3>1. /\ \A v : MadeOf(v)' = MadeOf(v)
          /\ \A f \in Files : BytesOf(f)' = BytesOf(f)
      BY <2>3 DEF MadeOf, BytesOf
    <3>2. MadeOf(values)' = MadeOf(values)
      BY <2>3 DEF MadeOf, BytesOf
    <3>3. \A f : BytesOf(f)' = BytesOf(f) /\ Found(f)' = Found(f)
      BY <2>3 DEF BytesOf, Found, BuildRests
    <3>. QED
      BY <1>1, <1>3, <2>3, <3>1, <3>2, <3>3 DEF TruthInv, BuildRests
  <2>. QED
    BY <2>1, <2>2, <2>3 DEF Shapes
<1>. QED
  BY <1>4, <1>5, <1>6, <1>7, <1>8 DEF BuildInv

-----------------------------------------------------------------------------
(* Steps that leave the files alone                                         *)

LEMMA Moved ==
  ASSUME Shapes, NEW p \in Programs, NEW s \in Places, Go(p, s)
  PROVE  /\ pc' \in [Programs -> Places] /\ pc'[p] = s
         /\ \A q \in Programs : q # p => pc'[q] = pc[q]
BY DEF Shapes, Go

\* What one program changes of a variable that both have.
LEMMA PointChange ==
  ASSUME NEW f, NEW p \in Programs, NEW v, DOMAIN f = Programs
  PROVE  /\ DOMAIN [f EXCEPT ![p] = v] = Programs /\ [f EXCEPT ![p] = v][p] = v
         /\ \A q \in Programs : q # p => [f EXCEPT ![p] = v][q] = f[q]
OBVIOUS

\* A program goes on to a step at which it looks at nothing.
LEMMA MoveOn ==
  ASSUME WarmInv, NEW p \in Programs, NEW s \in Places \ Looking, Go(p, s), todo[p] = {},
         p = "dry" => s \notin OfBuild,
         UNCHANGED <<disk, clock, values, moved, cache, peek, seen, todo>>,
         DOMAIN graph' = Programs, DOMAIN call' = Programs, DOMAIN captured' = Programs
  PROVE  Shapes' /\ TodoInv' /\ Later
<1>1. Shapes /\ TodoInv
  BY DEF WarmInv
<1>2. /\ pc' \in [Programs -> Places] /\ pc'[p] = s
      /\ \A q \in Programs : q # p => pc'[q] = pc[q]
  BY <1>1, Moved
<1>3. Later
  BY <1>1, QuietLater
<1>4. Shapes'
  BY <1>1, <1>2, <1>3, FilesIdentified DEF Shapes, StatOf
<1>5. TodoInv'
  BY <1>1, <1>2 DEF TodoInv, Looking, Programs
<1>. QED
  BY <1>3, <1>4, <1>5

LEMMA LoadGraphKeeps ==
  ASSUME WarmInv, NEW p \in Programs, LoadGraph(p)
  PROVE  WarmInv'
<1>1. Shapes /\ TodoInv /\ CacheInv /\ GraphInv /\ BuildInv
  BY DEF WarmInv
<1>2. /\ pc[p] = "graph"
      /\ UNCHANGED <<disk, clock, values, manifest, env, moved, cache, peek, seen, todo, call, captured>>
      /\ UNCHANGED <<journal, hashcache, store, certificate>>
  BY DEF LoadGraph, world, persistent, counts
<1>3. /\ graph' = [graph EXCEPT ![p] = manifest.rule]
      /\ Go(p, "load") \/ Go(p, "compile")
  BY <1>1 DEF LoadGraph, GraphInv, SourcesCurrent
<1>4. todo[p] = {}
  BY <1>1, <1>2 DEF TodoInv, Looking
<1>5. PICK s \in {"load", "compile"} : Go(p, s)
  BY <1>3
<1>6. Shapes' /\ TodoInv' /\ Later
  <2>1. DOMAIN graph' = Programs /\ DOMAIN call' = Programs /\ DOMAIN captured' = Programs
    BY <1>1, <1>2, <1>3 DEF Shapes
  <2>. QED
    BY <1>2, <1>4, <1>5, <2>1, MoveOn DEF Places, Looking, OfBuild
<1>7. /\ pc'[p] = s /\ graph'[p] = manifest.rule
      /\ \A q \in Programs : q # p => pc'[q] = pc[q] /\ graph'[q] = graph[q]
  BY <1>1, <1>3, <1>5, Moved, PointChange DEF Places, Shapes
<1>8. CacheInv'
  BY <1>1, <1>2, <1>6, <1>7, CacheStays
<1>9. GraphInv'
  BY <1>1, <1>2, <1>7 DEF GraphInv, Programs
<1>10. BuildInv'
  <2>1. CASE p = "dry"
    <3>1. BuildRests
      BY <1>2, <1>7, <2>1 DEF BuildRests, Programs
    <3>. QED
      BY <1>2, <1>6, <3>1, OutsideKeeps
  <2>2. CASE p = "build"
    <3>1. pc["build"] = "graph" /\ pc'["build"] = s
      BY <1>2, <1>7, <2>2
    <3>2. RecordInv' /\ VerifyInv'
      BY <1>1, <1>2, <3>1 DEF BuildInv, RecordInv, RecordTrue, VerifyInv, Held, Places, Called
    <3>3. SourceInv'
      BY <1>1, <1>2, <3>1 DEF BuildInv, SourceInv, Settled
    <3>4. CertInv'
      BY <1>1, <1>2, <1>6, CertStays DEF BuildInv
    <3>5. TruthInv'
      BY <1>1, <1>2, <3>1 DEF BuildInv, TruthInv, Held, Places, Looking, Good, Called
    <3>. QED
      BY <3>2, <3>3, <3>4, <3>5 DEF BuildInv
  <2>. QED
    BY <2>1, <2>2 DEF Programs
<1>. QED
  BY <1>6, <1>8, <1>9, <1>10 DEF WarmInv

LEMMA CompileKeeps ==
  ASSUME WarmInv, NEW p \in Programs, Compile(p)
  PROVE  WarmInv'
<1>1. Shapes /\ TodoInv /\ CacheInv /\ GraphInv /\ BuildInv
  BY DEF WarmInv
<1>2. /\ pc[p] = "compile" /\ Go(p, "load")
      /\ UNCHANGED <<disk, clock, values, manifest, env, moved, cache, peek, seen, todo, call, captured>>
      /\ UNCHANGED <<journal, hashcache, certificate, graph>>
  BY DEF Compile, world, counts
<1>3. store' = store \/ Saved(manifest.rule)
  BY <1>1, <1>2 DEF Compile, GraphInv, Restamped
<1>4. todo[p] = {}
  BY <1>1, <1>2 DEF TodoInv, Looking
<1>6. Shapes' /\ TodoInv' /\ Later
  <2>1. DOMAIN graph' = Programs /\ DOMAIN call' = Programs /\ DOMAIN captured' = Programs
    BY <1>1, <1>2 DEF Shapes
  <2>. QED
    BY <1>2, <1>4, <2>1, MoveOn DEF Places, Looking, OfBuild
<1>7. pc'[p] = "load" /\ \A q \in Programs : q # p => pc'[q] = pc[q]
  BY <1>1, <1>2, Moved DEF Places
<1>8. CacheInv'
  BY <1>1, <1>2, <1>6, <1>7, CacheStays
<1>9. GraphInv'
  <2>1. store' # None => /\ {"fingerprint", "sources", "graph"} \subseteq DOMAIN store'
                         /\ store'.graph = store'.sources.rule /\ store'.fingerprint = store'.sources.rule
    BY <1>1, <1>3 DEF GraphInv, Saved
  <2>2. pc'["build"] \in Held => pc["build"] \in Held
    BY <1>2, <1>7 DEF Held, Places, Programs
  <2>. QED
    BY <1>1, <1>2, <1>7, <2>1, <2>2 DEF GraphInv
<1>10. BuildInv'
  <2>1. CASE p = "dry"
    <3>1. BuildRests
      BY <1>2, <1>7, <2>1 DEF BuildRests, Programs
    <3>. QED
      BY <1>2, <1>6, <3>1, OutsideKeeps
  <2>2. CASE p = "build"
    <3>1. pc["build"] = "compile" /\ pc'["build"] = "load"
      BY <1>2, <1>7, <2>2
    <3>2. RecordInv' /\ VerifyInv'
      BY <1>1, <1>2, <3>1 DEF BuildInv, RecordInv, RecordTrue, VerifyInv, Held, Places, Called
    <3>3. SourceInv'
      BY <1>1, <1>2, <3>1 DEF BuildInv, SourceInv, Settled
    <3>4. CertInv'
      BY <1>1, <1>2, <1>6, CertStays DEF BuildInv
    <3>5. TruthInv'
      BY <1>1, <1>2, <3>1 DEF BuildInv, TruthInv, Held, Places, Looking, Good, Called
    <3>. QED
      BY <3>2, <3>3, <3>4, <3>5 DEF BuildInv
  <2>. QED
    BY <2>1, <2>2 DEF Programs
<1>. QED
  BY <1>6, <1>8, <1>9, <1>10 DEF WarmInv

\* The hash cache as it is on disk, and the stamp values, are read.
LEMMA LoadHashCacheKeeps ==
  ASSUME WarmInv, NEW p \in Programs, LoadHashCache(p)
  PROVE  WarmInv'
<1>. DEFINE s == IF p = "build" THEN "preflight" ELSE "inputs"
<1>1. Shapes /\ TodoInv /\ CacheInv /\ GraphInv /\ BuildInv
  BY DEF WarmInv
<1>2. /\ pc[p] = "load" /\ Go(p, s)
      /\ call' = [call EXCEPT ![p].values = values]
      /\ todo' = [todo EXCEPT ![p] = IF p = "build" THEN Files ELSE {"src"}]
      /\ UNCHANGED <<disk, clock, values, manifest, env, moved, peek, seen, captured>>
      /\ UNCHANGED <<journal, hashcache, store, certificate, graph>>
  BY DEF LoadHashCache, world, persistent, counts
<1>3. todo[p] = {} /\ peek[p] = None
  BY <1>1, <1>2 DEF TodoInv, Looking
<1>4. pc' \in [Programs -> Places] /\ pc'[p] = s /\ \A q \in Programs : q # p => pc'[q] = pc[q]
  BY <1>1, <1>2, Moved DEF Places
<1>5. /\ \A q \in Programs : q # p => cache'[q] = cache[q]
      /\ cache'[p].updates = cache[p].updates /\ cache'[p].settled = cache[p].settled
      /\ cache'[p].snapshot = cache[p].snapshot \/
           (hashcache # None /\ cache'[p].snapshot = Decode(hashcache.frames))
      /\ cache'[p] = [snapshot |-> cache'[p].snapshot, updates |-> cache'[p].updates,
                      loaded |-> cache'[p].loaded, settled |-> cache'[p].settled]
      /\ DOMAIN cache' = Programs
  <2>1. DOMAIN cache = Programs /\
        cache[p] = [snapshot |-> cache[p].snapshot, updates |-> cache[p].updates,
                    loaded |-> cache[p].loaded, settled |-> cache[p].settled]
    BY <1>1 DEF Shapes
  <2>2. CASE hashcache = None
    BY <2>1, <2>2 DEF LoadHashCache
  <2>3. ASSUME NEW v, NEW l,
               cache' = [cache EXCEPT ![p].snapshot = v, ![p].loaded = l]
        PROVE  /\ \A q \in Programs : q # p => cache'[q] = cache[q]
               /\ cache'[p].updates = cache[p].updates /\ cache'[p].settled = cache[p].settled
               /\ cache'[p].snapshot = v
               /\ cache'[p] = [snapshot |-> cache'[p].snapshot, updates |-> cache'[p].updates,
                               loaded |-> cache'[p].loaded, settled |-> cache'[p].settled]
               /\ DOMAIN cache' = Programs
    <3>1. cache'[p] = [snapshot |-> v, updates |-> cache[p].updates,
                       loaded |-> l, settled |-> cache[p].settled]
      BY <2>1, <2>3
    <3>2. DOMAIN cache' = Programs /\ \A q \in Programs : q # p => cache'[q] = cache[q]
      BY <2>1, <2>3
    <3>. QED
      BY <3>1, <3>2
  <2>. QED
    BY <2>2, <2>3 DEF LoadHashCache
<1>6. Later
  BY <1>1, <1>2, QuietLater
<1>7. /\ todo' \in [Programs -> SUBSET Files] /\ todo'[p] = (IF p = "build" THEN Files ELSE {"src"})
      /\ \A q \in Programs : q # p => todo'[q] = todo[q]
      /\ DOMAIN call' = Programs /\ \A q \in Programs : q # p => call'[q] = call[q]
  BY <1>1, <1>2 DEF Shapes, Files
<1>8. Shapes'
  <2>1. \A q \in Programs :
          cache'[q] = [snapshot |-> cache'[q].snapshot, updates |-> cache'[q].updates,
                       loaded |-> cache'[q].loaded, settled |-> cache'[q].settled]
    BY <1>1, <1>5 DEF Shapes
  <2>. QED
    BY <1>1, <1>2, <1>4, <1>5, <1>6, <1>7, <2>1, FilesIdentified DEF Shapes, StatOf
<1>9. TodoInv'
  BY <1>1, <1>2, <1>3, <1>4, <1>7 DEF TodoInv, Looking, OfBuild, Programs, Files
<1>10. CacheInv'
  <2>1. hashcache # None => AllTrue(Decode(hashcache.frames))
    BY <1>1, DecodedIsTrue DEF CacheInv
  <2>2. hashcache # None => AllTrue(Decode(hashcache.frames))'
    BY <1>2, <2>1 DEF AllTrue, Identifies, StatOf, BytesOf
  <2>3. \A q \in Programs : cache'[q].updates = cache[q].updates
    BY <1>5
  <2>4. \A q \in Programs : cache'[q].snapshot = cache[q].snapshot \/ AllTrue(cache[q].snapshot)'
    BY <1>2, <1>5, <2>2
  <2>. QED
    BY <1>1, <1>2, <1>4, <1>6, <2>3, <2>4, CacheStays
<1>11. GraphInv'
  BY <1>1, <1>2, <1>4 DEF GraphInv, Held, Places, Programs
<1>12. BuildInv'
  <2>1. CASE p = "dry"
    <3>1. BuildRests
      BY <1>2, <1>4, <1>5, <1>7, <2>1 DEF BuildRests, Programs
    <3>. QED
      BY <1>2, <1>6, <3>1, OutsideKeeps
  <2>2. CASE p = "build"
    <3>1. pc["build"] = "load" /\ pc'["build"] = "preflight" /\ Settled' = Settled
      BY <1>2, <1>4, <1>5, <2>2 DEF Settled
    <3>2. call'["build"] = [env |-> Called.env, values |-> values]
      <4>1. Called = [env |-> Called.env, values |-> Called.values]
        BY <1>1, <3>1 DEF BuildInv, RecordInv, Held, Places
      <4>2. call'["build"] = [Called EXCEPT !.values = values]
        BY <1>1, <1>2, <2>2 DEF Shapes, Called, Programs
      <4>. QED
        BY <4>1, <4>2
    <3>3. todo'["build"] = Files /\ DOMAIN Settled = {} /\ DOMAIN seen["build"] = {}
      BY <1>1, <1>7, <2>2, <3>1 DEF BuildInv, SourceInv
    <3>4. RecordInv' /\ VerifyInv'
      BY <1>1, <1>2, <3>1, <3>2 DEF BuildInv, RecordInv, RecordTrue, VerifyInv, Called, Shapes
    <3>5. SourceInv'
      BY <1>2, <3>1, <3>3 DEF SourceInv
    <3>6. CertInv'
      BY <1>1, <1>2, <1>6, CertStays DEF BuildInv
    <3>7. TruthInv'
      BY <1>1, <1>2, <3>1, <3>2, <3>3 DEF BuildInv, TruthInv, Held, Places, Looking, Good, Called
    <3>. QED
      BY <3>4, <3>5, <3>6, <3>7 DEF BuildInv
  <2>. QED
    BY <2>1, <2>2 DEF Programs
<1>. QED
  BY <1>8, <1>9, <1>10, <1>11, <1>12 DEF WarmInv

-----------------------------------------------------------------------------
(* The hash cache is saved                                                  *)

LEMMA SavingGoesOn ==
  ASSUME WarmInv, NEW p \in Programs, NEW s \in {"append", "replace", "end"},
         pc[p] \in {"save", "append", "replace"}, Go(p, s), CacheInv',
         UNCHANGED <<world, journal, store, certificate, call, graph, cache, todo, peek,
                     seen, captured, counts>>
  PROVE  WarmInv'
<1>1. Shapes /\ TodoInv /\ CacheInv /\ GraphInv /\ BuildInv
  BY DEF WarmInv
<1>2. UNCHANGED <<disk, clock, values, manifest, env, moved>>
  BY DEF world, counts
<1>3. todo[p] = {}
  BY <1>1 DEF TodoInv, Looking
<1>4. Shapes' /\ TodoInv' /\ Later
  <2>1. DOMAIN graph' = Programs /\ DOMAIN call' = Programs /\ DOMAIN captured' = Programs
    BY <1>1 DEF Shapes
  <2>. QED
    BY <1>2, <1>3, <2>1, MoveOn DEF Places, Looking, OfBuild
<1>5. pc'[p] = s /\ \A q \in Programs : q # p => pc'[q] = pc[q]
  BY <1>1, Moved DEF Places
<1>6. GraphInv'
  <2>1. pc'["build"] \in Held => pc["build"] \in Held
    BY <1>5 DEF Held, Places, Programs
  <2>. QED
    BY <1>1, <1>2, <1>5, <2>1 DEF GraphInv
<1>7. BuildInv'
  <2>1. CASE p = "dry"
    <3>1. BuildRests
      BY <1>5, <2>1 DEF BuildRests, Programs
    <3>. QED
      BY <1>2, <1>4, <3>1, OutsideKeeps
  <2>2. CASE p = "build"
    <3>1. pc["build"] \in {"save", "append", "replace"} /\ pc'["build"] = s
      BY <1>5, <2>2
    <3>2. RecordInv' /\ VerifyInv'
      BY <1>1, <1>2, <3>1 DEF BuildInv, RecordInv, RecordTrue, VerifyInv, Held, Places, Called
    <3>3. SourceInv'
      BY <3>1 DEF SourceInv
    <3>4. CertInv'
      BY <1>1, <1>4, CertStays DEF BuildInv
    <3>5. TruthInv'
      <4>1. MadeOf(values)' = MadeOf(values) /\ BytesOf("out")' = BytesOf("out")
        BY <1>2 DEF MadeOf, BytesOf
      <4>. QED
        BY <1>1, <1>2, <3>1, <4>1 DEF BuildInv, TruthInv, Held, Places, Looking, Good, Called
    <3>. QED
      BY <3>2, <3>3, <3>4, <3>5 DEF BuildInv
  <2>. QED
    BY <2>1, <2>2 DEF Programs
<1>. QED
  BY <1>4, <1>6, <1>7 DEF WarmInv

LEMMA SaveKeeps ==
  ASSUME WarmInv, NEW p \in Programs, Save(p)
  PROVE  WarmInv'
<1>1. Shapes /\ CacheInv
  BY DEF WarmInv
<1>2. /\ pc[p] = "save"
      /\ UNCHANGED <<world, persistent, call, graph, cache, todo, peek, seen, captured, counts>>
  BY DEF Save
<1>3. PICK s \in {"append", "replace", "end"} : Go(p, s) /\ (s = "append" => hashcache # None)
  BY DEF Save
<1>4. pc'[p] = s /\ \A q \in Programs : q # p => pc'[q] = pc[q]
  BY <1>1, <1>3, Moved DEF Places
<1>5. CacheInv'
  BY <1>1, <1>2, <1>3, <1>4, QuietLater, CacheStays DEF world, persistent
<1>. QED
  BY <1>2, <1>3, <1>5, SavingGoesOn DEF persistent

\* A frame of true entries at the end of whatever file there is.
LEMMA AppendFrameKeeps ==
  ASSUME WarmInv, NEW p \in Programs, AppendFrame(p)
  PROVE  WarmInv'
<1>1. Shapes /\ CacheInv
  BY DEF WarmInv
<1>. DEFINE h == hashcache
            u == cache[p].updates
<1>2. /\ pc[p] = "append" /\ Go(p, "end")
      /\ hashcache' = [h EXCEPT !.frames = IF h.torn THEN h.frames ELSE Append(h.frames, u)]
      /\ UNCHANGED <<world, journal, store, certificate, call, graph, cache, todo, peek, seen, captured, counts>>
  BY DEF AppendFrame
<1>3. FileInv(h) /\ AllTrue(u)
  BY <1>1, <1>2 DEF CacheInv
<1>4. FileInv(hashcache)'
  <2>1. CASE h.torn
    <3>1. "frames" \in DOMAIN hashcache' /\ hashcache'.frames = h.frames
      BY <1>2, <1>3, <2>1 DEF FileInv
    <3>. QED
      BY <1>2, <1>3, <3>1 DEF FileInv, AllTrue, Identifies, StatOf, BytesOf, world
  <2>2. CASE ~h.torn
    <3>. DEFINE S == {h.frames[i] : i \in 1 .. Len(h.frames)}
                t == Append(h.frames, u)
    <3>1. "frames" \in DOMAIN hashcache' /\ hashcache'.frames = t
      BY <1>2, <1>3, <2>2 DEF FileInv
    <3>2. h.frames \in Seq(S)
      BY <1>3 DEF FileInv
    <3>. HIDE DEF S
    <3>3. /\ DOMAIN h.frames = 1 .. Len(h.frames) /\ Len(h.frames) \in Nat
          /\ Len(t) = Len(h.frames) + 1 /\ DOMAIN t = 1 .. Len(t) /\ t[Len(h.frames) + 1] = u
          /\ \A i \in 1 .. Len(h.frames) : t[i] = h.frames[i]
      BY <3>2
    <3>4. t \in Seq(S \cup {u})
      <4>1. h.frames \in Seq(S \cup {u})
        BY <3>2
      <4>. QED
        BY <4>1
    <3>5. t \in Seq({t[i] : i \in 1 .. Len(t)})
      BY <3>3, <3>4
    <3>6. ASSUME NEW i \in DOMAIN t
          PROVE  AllTrue(t[i])
      <4>1. CASE i \in 1 .. Len(h.frames)
        BY <1>3, <3>3, <4>1 DEF FileInv
      <4>2. CASE i = Len(h.frames) + 1
        BY <1>3, <3>3, <4>2
      <4>. QED
        BY <3>3, <4>1, <4>2
    <3>. HIDE DEF t
    <3>7. \A i \in DOMAIN hashcache'.frames : AllTrue(hashcache.frames[i])'
      BY <1>2, <3>1, <3>6 DEF AllTrue, Identifies, StatOf, BytesOf, world
    <3>8. hashcache'.frames \in Seq({hashcache'.frames[i] : i \in 1 .. Len(hashcache'.frames)})
      BY <3>1, <3>5
    <3>. QED
      BY <3>1, <3>7, <3>8 DEF FileInv
  <2>. QED
    BY <2>1, <2>2
<1>5. CacheInv'
  BY <1>1, <1>2, <1>4 DEF CacheInv, AllTrue, Identifies, StatOf, BytesOf, world
<1>. QED
  BY <1>2, <1>5, SavingGoesOn

LEMMA ReplaceCacheKeeps ==
  ASSUME WarmInv, NEW p \in Programs, ReplaceCache(p)
  PROVE  WarmInv'
<1>1. Shapes /\ CacheInv
  BY DEF WarmInv
<1>. DEFINE e == Live(Over(cache[p].updates, cache[p].snapshot))
<1>2. /\ pc[p] = "replace" /\ Go(p, "end")
      /\ "frames" \in DOMAIN hashcache' /\ hashcache'.frames = <<e>>
      /\ UNCHANGED <<world, journal, store, certificate, call, graph, cache, todo, peek, seen, captured, counts>>
  BY DEF ReplaceCache
<1>3. AllTrue(e)
  BY <1>1, OverIsTrue DEF CacheInv
<1>. HIDE DEF e
<1>4. FileInv(hashcache)'
  <2>1. <<e>> \in Seq({<<e>>[i] : i \in 1 .. Len(<<e>>)}) /\ DOMAIN <<e>> = {1} /\ <<e>>[1] = e
    OBVIOUS
  <2>. QED
    BY <1>2, <1>3, <2>1 DEF FileInv, AllTrue, Identifies, StatOf, BytesOf, world
<1>5. CacheInv'
  BY <1>1, <1>2, <1>4 DEF CacheInv, AllTrue, Identifies, StatOf, BytesOf, world
<1>. QED
  BY <1>2, <1>5, SavingGoesOn

-----------------------------------------------------------------------------
(* Preflight, the certificate and the decision                              *)

\* A recorded result is what the command of this build makes of its source.
LEMMA RecordMakes ==
  ASSUME RecordTrue, NEW src, journal.key = Key("build", src)
  PROVE  journal.src = src /\ journal.out = MadeHere(src)
BY DEF RecordTrue, Key, MadeHere, Made, Called

LEMMA HereIsNow ==
  ASSUME GraphInv, TruthInv, ~moved["build"], pc["build"] \in Held \ {"compile", "load"}
  PROVE  MadeHere(BytesOf("src")) = MadeOf(values)
BY DEF GraphInv, TruthInv, MadeHere, MadeOf, Held

\* A step to s, at which a program may look at files.
LEMMA MoveShapes ==
  ASSUME Shapes, NEW p \in Programs, NEW s \in Places, Go(p, s),
         UNCHANGED <<disk, clock, values, moved, cache, peek>>,
         DOMAIN graph' = Programs, DOMAIN call' = Programs, DOMAIN captured' = Programs,
         DOMAIN seen' = Programs, todo' \in [Programs -> SUBSET Files]
  PROVE  /\ Shapes' /\ Later /\ pc'[p] = s
         /\ \A q \in Programs : q # p => pc'[q] = pc[q]
<1>1. /\ pc' \in [Programs -> Places] /\ pc'[p] = s
      /\ \A q \in Programs : q # p => pc'[q] = pc[q]
  BY Moved
<1>2. Later
  BY QuietLater
<1>. QED
  BY <1>1, <1>2, FilesIdentified DEF Shapes, StatOf

LEMMA CertifyKeeps ==
  ASSUME WarmInv, NEW p \in Programs, Certify(p)
  PROVE  WarmInv'
<1>1. Shapes /\ TodoInv /\ CacheInv /\ GraphInv /\ BuildInv
  BY DEF WarmInv
<1>2. /\ pc[p] = "preflight" /\ todo[p] = {}
      /\ UNCHANGED <<disk, clock, values, manifest, env, moved, cache, peek, seen, call, graph>>
      /\ UNCHANGED <<journal, hashcache, store, certificate>>
  BY DEF Certify, world, persistent, counts
<1>3. p = "build" /\ pc["build"] = "preflight" /\ todo["build"] = {} /\ peek["build"] = None
  BY <1>1, <1>2 DEF TodoInv, OfBuild, Programs
<1>. DEFINE certified == journal # None /\ journal.key = Key("build", journal.src) /\ AsRecorded("build")
            caught == [fingerprint |-> Fingerprint, env |-> Called.env, files |-> [f \in Files |-> StatOf(f)]]
<1>4. \/ certified /\ Go("build", "save") /\ UNCHANGED <<captured, todo>>
      \/ /\ certified /\ Fingerprint # None /\ Go("build", "verify")
         /\ captured' = [captured EXCEPT !["build"] = caught]
         /\ todo' = [todo EXCEPT !["build"] = Files]
      \/ Go("build", "inputs") /\ todo' = [todo EXCEPT !["build"] = {"src"}] /\ UNCHANGED captured
  BY <1>2, <1>3 DEF Certify, Called
<1>5. CacheInv' /\ Later
  <2>1. Later
    BY <1>1, <1>2, QuietLater
  <2>2. \A q \in Programs : pc'[q] = "append" => pc[q] = "append"
    BY <1>1, <1>3, <1>4 DEF Go, Shapes, Programs
  <2>. QED
    BY <1>1, <1>2, <2>1, <2>2, CacheStays
<1>6. certified =>
        /\ RecordTrue
        /\ ~moved["build"] => BytesOf("out") = MadeOf(values)
  <2>1. SUFFICES ASSUME certified
                 PROVE  RecordTrue /\ (~moved["build"] => BytesOf("out") = MadeOf(values))
    OBVIOUS
  <2>2. RecordTrue /\ journal.out = MadeHere(journal.src)
    BY <1>1, <2>1, RecordMakes DEF BuildInv, RecordInv
  <2>3. Found("src") = journal.src /\ Found("out") = journal.out
    BY <2>1 DEF AsRecorded, Found
  <2>4. ASSUME ~moved["build"]
        PROVE  BytesOf("out") = MadeOf(values)
    <3>1. Found("src") = BytesOf("src") /\ Found("out") = BytesOf("out")
      BY <1>1, <1>3, <2>4 DEF TodoInv, BuildInv, TruthInv
    <3>2. MadeHere(BytesOf("src")) = MadeOf(values)
      BY <1>1, <1>3, <2>4, HereIsNow DEF BuildInv, Held, Places
    <3>. QED
      BY <2>2, <2>3, <3>1, <3>2
  <2>. QED
    BY <2>2, <2>4
<1>7. /\ MadeOf(values)' = MadeOf(values) /\ \A f : BytesOf(f)' = BytesOf(f) /\ StatOf(f)' = StatOf(f)
      /\ \A f : Found(f)' = Found(f) /\ (FoundIt(f)' <=> FoundIt(f))
      /\ Settled' = Settled /\ Called' = Called
      /\ Key("build", journal.src)' = Key("build", journal.src) /\ (RecordTrue' <=> RecordTrue)
  BY <1>2 DEF MadeOf, BytesOf, StatOf, Found, FoundIt, Settled, Called, Key, RecordTrue
<1>8. CertInv'
  BY <1>1, <1>2, <1>5, CertStays DEF BuildInv
<1>9. graph["build"] = manifest.rule /\ (Fingerprint # None => Fingerprint = manifest.rule)
  BY <1>1, <1>3 DEF GraphInv, Held, Places, Fingerprint, SourcesCurrent
<1>10. DOMAIN graph' = Programs /\ DOMAIN call' = Programs /\ DOMAIN seen' = Programs
  BY <1>1, <1>2 DEF Shapes
<1>11. \A s \in Places : pc'["build"] = s /\ pc'["dry"] = pc["dry"] => GraphInv'
  BY <1>1, <1>2, <1>9 DEF GraphInv, Programs
<1>12. CASE certified /\ Go("build", "save") /\ UNCHANGED <<captured, todo>>
  <2>1. Shapes' /\ pc'["build"] = "save" /\ pc'["dry"] = pc["dry"]
    BY <1>1, <1>2, <1>10, <1>12, MoveShapes DEF Places, Shapes, Programs
  <2>2. TodoInv'
    BY <1>1, <1>2, <1>3, <1>12, <2>1 DEF TodoInv, OfBuild, Looking, Programs
  <2>3. RecordInv' /\ VerifyInv' /\ SourceInv'
    BY <1>1, <1>2, <1>3, <1>7, <2>1 DEF BuildInv, RecordInv, VerifyInv, SourceInv, Held, Places
  <2>4. TruthInv'
    BY <1>1, <1>2, <1>3, <1>6, <1>7, <1>12, <2>1 DEF BuildInv, TruthInv, Held, Places, Looking, Good
  <2>. QED
    BY <1>5, <1>8, <1>11, <2>1, <2>2, <2>3, <2>4 DEF WarmInv, BuildInv, Places
<1>13. CASE /\ certified /\ Fingerprint # None /\ Go("build", "verify")
            /\ captured' = [captured EXCEPT !["build"] = caught]
            /\ todo' = [todo EXCEPT !["build"] = Files]
  <2>1. /\ DOMAIN captured' = Programs /\ captured'["build"] = caught
        /\ todo' \in [Programs -> SUBSET Files] /\ todo'["build"] = Files /\ todo'["dry"] = todo["dry"]
    BY <1>1, <1>13 DEF Shapes, Programs
  <2>2. Shapes' /\ pc'["build"] = "verify" /\ pc'["dry"] = pc["dry"]
    BY <1>1, <1>2, <1>10, <1>13, <2>1, MoveShapes DEF Places, Programs
  <2>3. TodoInv'
    BY <1>1, <1>2, <1>3, <2>1, <2>2 DEF TodoInv, OfBuild, Looking, Programs
  <2>4. RecordInv' /\ SourceInv'
    BY <1>1, <1>2, <1>3, <1>6, <1>7, <1>13, <2>2 DEF BuildInv, RecordInv, SourceInv, Held, Places
  <2>5. VerifyInv'
    <3>1. /\ captured'["build"].fingerprint = graph'["build"] /\ graph'["build"] # None
          /\ captured'["build"].env = Called'.env
      BY <1>2, <1>7, <1>9, <1>13, <2>1
    <3>2. ASSUME NEW f \in Files
          PROVE  /\ Caught(f)' = StatOf(f)
                 /\ StatOf(f) # None => StatOf(f) \in Nat /\ StatOf(f) <= clock
      BY <1>1, <2>1 DEF Caught, Shapes, Identifies
    <3>. QED
      BY <1>2, <1>7, <2>1, <2>2, <3>1, <3>2 DEF VerifyInv
  <2>6. TruthInv'
    BY <1>1, <1>2, <1>3, <1>6, <1>7, <1>13, <2>2 DEF BuildInv, TruthInv, Held, Places, Looking, Good
  <2>. QED
    BY <1>5, <1>8, <1>11, <2>2, <2>3, <2>4, <2>5, <2>6 DEF WarmInv, BuildInv, Places
<1>14. CASE Go("build", "inputs") /\ todo' = [todo EXCEPT !["build"] = {"src"}] /\ UNCHANGED captured
  <2>1. /\ DOMAIN captured' = Programs
        /\ todo' \in [Programs -> SUBSET Files] /\ todo'["build"] = {"src"} /\ todo'["dry"] = todo["dry"]
    BY <1>1, <1>14 DEF Shapes, Programs, Files
  <2>2. Shapes' /\ pc'["build"] = "inputs" /\ pc'["dry"] = pc["dry"]
    BY <1>1, <1>2, <1>10, <1>14, <2>1, MoveShapes DEF Places, Programs
  <2>3. TodoInv'
    BY <1>1, <1>2, <1>3, <2>1, <2>2 DEF TodoInv, OfBuild, Looking, Programs
  <2>4. RecordInv' /\ SourceInv' /\ VerifyInv'
    BY <1>1, <1>2, <1>3, <1>7, <2>1, <2>2 DEF BuildInv, RecordInv, SourceInv, VerifyInv, Held, Places
  <2>5. TruthInv'
    BY <1>1, <1>2, <1>3, <1>7, <2>2 DEF BuildInv, TruthInv, Held, Places, Looking, Good
  <2>. QED
    BY <1>5, <1>8, <1>11, <2>2, <2>3, <2>4, <2>5 DEF WarmInv, BuildInv, Places
<1>. QED
  BY <1>4, <1>12, <1>13, <1>14

\* The certificate is what was captured, if the digests found since are the recorded ones.
LEMMA WriteCertificateKeeps ==
  ASSUME WarmInv, NEW p \in Programs, WriteCertificate(p)
  PROVE  WarmInv'
<1>1. Shapes /\ TodoInv /\ CacheInv /\ GraphInv /\ BuildInv
  BY DEF WarmInv
<1>2. /\ pc[p] = "verify" /\ todo[p] = {} /\ Go(p, "save")
      /\ UNCHANGED <<disk, clock, values, manifest, env, moved, cache, peek, seen, call, graph, todo, captured>>
      /\ UNCHANGED <<journal, hashcache, store>>
  BY DEF WriteCertificate, world, counts
<1>3. p = "build" /\ pc["build"] = "verify" /\ todo["build"] = {}
  BY <1>1, <1>2 DEF TodoInv, OfBuild, Programs
<1>4. Shapes' /\ TodoInv' /\ Later
  <2>1. DOMAIN graph' = Programs /\ DOMAIN call' = Programs /\ DOMAIN captured' = Programs
    BY <1>1, <1>2 DEF Shapes
  <2>. QED
    BY <1>2, <1>3, <2>1, MoveOn DEF Places, Looking, OfBuild
<1>5. pc'["build"] = "save" /\ pc'["dry"] = pc["dry"]
  BY <1>1, <1>2, <1>3, Moved DEF Places, Programs
<1>6. CacheInv'
  BY <1>1, <1>2, <1>4, <1>5, CacheStays DEF Programs
<1>7. GraphInv'
  BY <1>1, <1>2, <1>3, <1>5 DEF GraphInv, Held, Places, Programs
<1>8. /\ MadeOf(values)' = MadeOf(values) /\ \A f : BytesOf(f)' = BytesOf(f)
      /\ Called' = Called /\ (RecordTrue' <=> RecordTrue)
  BY <1>2 DEF MadeOf, BytesOf, Called, RecordTrue
<1>9. RecordInv' /\ SourceInv' /\ VerifyInv'
  BY <1>1, <1>2, <1>3, <1>5, <1>8 DEF BuildInv, RecordInv, SourceInv, VerifyInv, Held, Places
<1>10. TruthInv'
  BY <1>1, <1>2, <1>3, <1>5, <1>8 DEF BuildInv, TruthInv, Held, Places, Looking, Good
<1>11. CertInv'
  <2>1. CASE certificate' = certificate
    BY <1>1, <1>4, <2>1, CertStays DEF BuildInv
  <2>2. CASE AsRecorded("build") /\ certificate' = captured["build"]
    <3>1. RecordTrue /\ journal.key = Key("build", journal.src) /\ Called.values \in {0, 1}
      BY <1>1, <1>3 DEF BuildInv, RecordInv, Held, Places
    <3>2. journal.out = MadeHere(journal.src)
      BY <3>1, RecordMakes
    <3>3. Found("src") = journal.src /\ Found("out") = journal.out
      BY <2>2 DEF AsRecorded, Found
    <3>4. /\ certificate'.fingerprint = graph["build"] /\ graph["build"] # None
          /\ certificate'.env = Called.env
          /\ Identifies("src", certificate'.files["src"], Found("src"))
          /\ Identifies("out", certificate'.files["out"], Found("out"))
      BY <1>1, <1>3, <2>2 DEF BuildInv, VerifyInv, Caught, Files
    <3>5. Found("out") = Made(certificate'.fingerprint, certificate'.env, Called.values, Found("src"))
      BY <3>2, <3>3, <3>4 DEF MadeHere
    <3>6. /\ Identifies("src", certificate.files["src"], Found("src"))'
          /\ Identifies("out", certificate.files["out"], Found("out"))'
      BY <1>2, <3>4 DEF Identifies, StatOf, BytesOf, Found
    <3>7. Found("src")' = Found("src") /\ Found("out")' = Found("out")
      BY <1>2 DEF Found
    <3>. QED
      BY <3>1, <3>4, <3>5, <3>6, <3>7 DEF CertInv
  <2>. QED
    BY <1>2, <1>3, <2>1, <2>2 DEF WriteCertificate, Verified
<1>. QED
  BY <1>4, <1>6, <1>7, <1>9, <1>10, <1>11 DEF WarmInv, BuildInv

LEMMA DecideKeeps ==
  ASSUME WarmInv, NEW p \in Programs, Decide(p)
  PROVE  WarmInv'
<1>1. Shapes /\ TodoInv /\ CacheInv /\ GraphInv /\ BuildInv
  BY DEF WarmInv
<1>2. /\ pc[p] = "inputs" /\ todo[p] = {}
      /\ UNCHANGED <<disk, clock, values, manifest, env, moved, cache, peek, seen, call, graph, captured>>
      /\ UNCHANGED <<journal, hashcache, store, certificate>>
  BY DEF Decide, world, persistent, counts
<1>3. \/ /\ journal # None /\ journal.key = Key(p, seen[p]["src"])
         /\ Go(p, "check") /\ todo' = [todo EXCEPT ![p] = {"out"}]
      \/ UNCHANGED todo /\ Go(p, IF p = "build" THEN "run" ELSE "save")
  BY <1>2 DEF Decide
<1>4. PICK s \in {"check", "run", "save"} :
        /\ Go(p, s) /\ (s = "save" <=> s # "check" /\ p = "dry")
        /\ s = "check" => /\ journal # None /\ journal.key = Key(p, seen[p]["src"])
                          /\ todo' = [todo EXCEPT ![p] = {"out"}]
        /\ s # "check" => todo' = todo
  BY <1>3 DEF Programs
<1>5. /\ todo' \in [Programs -> SUBSET Files] /\ \A q \in Programs : q # p => todo'[q] = todo[q]
      /\ s = "check" => todo'[p] = {"out"}
      /\ s # "check" => todo'[p] = {}
      /\ peek[p] = None
  BY <1>1, <1>2, <1>4 DEF Shapes, Files, TodoInv
<1>6. Shapes' /\ Later /\ pc'[p] = s /\ \A q \in Programs : q # p => pc'[q] = pc[q]
  <2>1. DOMAIN graph' = Programs /\ DOMAIN call' = Programs /\ DOMAIN captured' = Programs /\ DOMAIN seen' = Programs
    BY <1>1, <1>2 DEF Shapes
  <2>. QED
    BY <1>1, <1>2, <1>4, <1>5, <2>1, MoveShapes DEF Places
<1>7. TodoInv'
  BY <1>1, <1>2, <1>4, <1>5, <1>6 DEF TodoInv, Looking, OfBuild, Programs
<1>8. CacheInv'
  BY <1>1, <1>2, <1>4, <1>6, CacheStays
<1>9. GraphInv'
  BY <1>1, <1>2, <1>4, <1>6 DEF GraphInv, Held, Places, Programs
<1>10. BuildInv'
  <2>1. CASE p = "dry"
    <3>1. BuildRests
      BY <1>2, <1>5, <1>6, <2>1 DEF BuildRests, Programs
    <3>. QED
      BY <1>2, <1>6, <3>1, OutsideKeeps
  <2>2. CASE p = "build"
    <3>1. pc["build"] = "inputs" /\ pc'["build"] = s /\ s \in {"check", "run"} /\ todo["build"] = {}
      BY <1>2, <1>4, <1>6, <2>2
    <3>2. /\ MadeOf(values)' = MadeOf(values) /\ \A f : BytesOf(f)' = BytesOf(f)
          /\ \A f : Found(f)' = Found(f) /\ (FoundIt(f)' <=> FoundIt(f))
          /\ Settled' = Settled /\ Called' = Called /\ (RecordTrue' <=> RecordTrue)
          /\ Key("build", Found("src"))' = Key("build", Found("src"))
      BY <1>2 DEF MadeOf, BytesOf, Found, FoundIt, Settled, Called, Key, RecordTrue
    <3>3. s = "check" => RecordTrue /\ journal.key = Key("build", Found("src"))
      BY <1>1, <1>4, <2>2 DEF BuildInv, RecordInv, Found
    <3>4. RecordInv' /\ VerifyInv'
      BY <1>1, <1>2, <3>1, <3>2, <3>3 DEF BuildInv, RecordInv, VerifyInv, Held, Places
    <3>5. SourceInv'
      BY <1>1, <1>2, <3>1, <3>2 DEF BuildInv, SourceInv
    <3>6. CertInv'
      BY <1>1, <1>2, <1>6, CertStays DEF BuildInv
    <3>7. TruthInv'
      BY <1>1, <1>2, <3>1, <3>2 DEF BuildInv, TruthInv, Held, Places, Looking, Good
    <3>. QED
      BY <3>4, <3>5, <3>6, <3>7 DEF BuildInv
  <2>. QED
    BY <2>1, <2>2 DEF Programs
<1>. QED
  BY <1>6, <1>7, <1>8, <1>9, <1>10 DEF WarmInv

\* What is recorded is what the command made of the source it was given.
LEMMA RecordKeeps ==
  ASSUME WarmInv, NEW p \in Programs, Record(p)
  PROVE  WarmInv'
<1>1. Shapes /\ TodoInv /\ CacheInv /\ GraphInv /\ BuildInv
  BY DEF WarmInv
<1>2. /\ pc[p] = "made" /\ todo[p] = {} /\ Go(p, "save")
      /\ journal' = [key |-> Key(p, seen[p]["src"]), src |-> seen[p]["src"], out |-> seen[p]["out"]]
      /\ UNCHANGED <<disk, clock, values, manifest, env, moved, cache, peek, seen, call, graph, todo, captured>>
      /\ UNCHANGED <<certificate, hashcache, store>>
  BY DEF Record, world, counts
<1>3. p = "build" /\ pc["build"] = "made" /\ todo["build"] = {}
  BY <1>1, <1>2 DEF TodoInv, OfBuild, Programs
<1>4. Shapes' /\ TodoInv' /\ Later
  <2>1. DOMAIN graph' = Programs /\ DOMAIN call' = Programs /\ DOMAIN captured' = Programs
    BY <1>1, <1>2 DEF Shapes
  <2>. QED
    BY <1>2, <1>3, <2>1, MoveOn DEF Places, Looking, OfBuild
<1>5. pc'["build"] = "save" /\ pc'["dry"] = pc["dry"]
  BY <1>1, <1>2, <1>3, Moved DEF Places, Programs
<1>6. CacheInv'
  BY <1>1, <1>2, <1>4, <1>5, CacheStays DEF Programs
<1>7. GraphInv'
  BY <1>1, <1>2, <1>3, <1>5 DEF GraphInv, Held, Places, Programs
<1>8. MadeOf(values)' = MadeOf(values) /\ BytesOf("out")' = BytesOf("out") /\ Called' = Called
  BY <1>2 DEF MadeOf, BytesOf, Called
<1>9. BytesOf("out") = MadeHere(Found("src")) /\ Found("out") = BytesOf("out")
  BY <1>1, <1>3 DEF BuildInv, SourceInv
<1>10. RecordTrue'
  <2>1. /\ journal'.key = Key("build", Found("src")) /\ journal'.src = Found("src")
        /\ journal'.out = MadeHere(Found("src"))
    BY <1>2, <1>3, <1>9 DEF Found
  <2>2. /\ Key("build", Found("src")).src = Found("src") /\ Key("build", Found("src")).rule = graph["build"]
        /\ Key("build", Found("src")).env = Called.env
        /\ Key("build", Found("src")).values = IF graph["build"] \in Stamped THEN Called.values ELSE None
    BY DEF Key, Called
  <2>. QED
    BY <2>1, <2>2 DEF RecordTrue, MadeHere, Made
<1>11. RecordInv' /\ SourceInv' /\ VerifyInv'
  BY <1>1, <1>2, <1>3, <1>5, <1>8, <1>10 DEF BuildInv, RecordInv, SourceInv, VerifyInv, Held, Places
<1>12. TruthInv'
  <2>1. ~moved["build"] => BytesOf("out") = MadeOf(values)
    <3>1. SUFFICES ASSUME ~moved["build"]
                   PROVE  BytesOf("out") = MadeOf(values)
      OBVIOUS
    <3>2. Found("src") = BytesOf("src")
      BY <1>1, <1>3, <3>1 DEF BuildInv, TruthInv
    <3>3. MadeHere(BytesOf("src")) = MadeOf(values)
      BY <1>1, <1>3, <3>1, HereIsNow DEF BuildInv, Held, Places
    <3>. QED
      BY <1>9, <3>2, <3>3
  <2>. QED
    BY <1>1, <1>2, <1>3, <1>5, <1>8, <2>1 DEF BuildInv, TruthInv, Held, Places, Looking, Good
<1>13. CertInv'
  BY <1>1, <1>2, <1>4, CertStays DEF BuildInv
<1>. QED
  BY <1>4, <1>6, <1>7, <1>11, <1>12, <1>13 DEF WarmInv, BuildInv

-----------------------------------------------------------------------------
(* Digests                                                                  *)

\* A digest v of f is found; up and st are what the cache keeps from then on.
LEMMA FindStep ==
  ASSUME WarmInv, NEW p \in Programs, NEW f \in todo[p], NEW v, NEW up, NEW st,
         todo' = [todo EXCEPT ![p] = @ \ {f}], seen' = [seen EXCEPT ![p] = With(@, f, v)],
         DOMAIN peek' = Programs, peek'[p] = None, \A q \in Programs : q # p => peek'[q] = peek[q],
         DOMAIN cache' = Programs, \A q \in Programs : q # p => cache'[q] = cache[q],
         cache'[p] = [snapshot |-> cache[p].snapshot, updates |-> up,
                      loaded |-> cache[p].loaded, settled |-> st],
         AllTrue(up),
         UNCHANGED <<world, persistent, pc, call, graph, captured, counts>>,
         p = "build" =>
           /\ \A g : g # f => (g \in DOMAIN st <=> g \in DOMAIN Settled)
           /\ \A g \in DOMAIN st : g # f => st[g] = Settled[g]
           /\ pc["build"] \in {"preflight", "verify"} => st = Settled
           /\ f \in DOMAIN st => st[f] = v
           /\ pc["build"] = "inputs" => f \in DOMAIN st
           /\ \/ v = BytesOf(f)
              \/ /\ f \in DOMAIN Settled /\ v = Settled[f]
                 /\ pc["build"] \in {"inputs", "check", "made"}
  PROVE  WarmInv'
<1>1. Shapes /\ TodoInv /\ CacheInv /\ GraphInv /\ BuildInv
  BY DEF WarmInv
<1>2. /\ UNCHANGED <<disk, clock, values, manifest, env, moved, journal, hashcache, store, certificate>>
      /\ UNCHANGED <<pc, call, graph, captured>>
  BY DEF world, persistent, counts
<1>3. /\ todo' \in [Programs -> SUBSET Files] /\ todo'[p] = todo[p] \ {f} /\ f \in Files
      /\ \A q \in Programs : q # p => todo'[q] = todo[q]
      /\ DOMAIN seen' = Programs /\ seen'[p] = With(seen[p], f, v)
      /\ \A q \in Programs : q # p => seen'[q] = seen[q]
  BY <1>1 DEF Shapes
<1>4. /\ DOMAIN With(seen[p], f, v) = DOMAIN seen[p] \cup {f}
      /\ With(seen[p], f, v)[f] = v
      /\ \A g \in DOMAIN seen[p] : g # f => With(seen[p], f, v)[g] = seen[p][g]
  BY DEF With
<1>5. Later
  BY <1>1, <1>2, QuietLater
<1>6. Shapes'
  <2>1. \A q \in Programs :
          cache'[q] = [snapshot |-> cache'[q].snapshot, updates |-> cache'[q].updates,
                       loaded |-> cache'[q].loaded, settled |-> cache'[q].settled]
    BY <1>1 DEF Shapes
  <2>. QED
    BY <1>1, <1>2, <1>3, <1>5, <2>1, FilesIdentified DEF Shapes, StatOf
<1>7. TodoInv'
  <2>1. \A q \in Programs : pc'[q] \notin Looking => todo'[q] = {}
    BY <1>1, <1>2, <1>3 DEF TodoInv
  <2>2. \A q \in Programs : peek'[q] # None =>
          peek'[q].file \in todo'[q] /\ peek'[q].stat \in Nat /\ peek'[q].stat <= clock'
    BY <1>1, <1>2, <1>3 DEF TodoInv
  <2>3. /\ pc'["dry"] \notin OfBuild
        /\ pc'["build"] = "inputs" => todo'["build"] \subseteq {"src"}
        /\ pc'["build"] \in {"check", "made"} => todo'["build"] \subseteq {"out"}
    BY <1>1, <1>2, <1>3 DEF TodoInv, Programs
  <2>4. \A g : g \in todo["build"] \cup DOMAIN seen["build"] => g \in todo'["build"] \cup DOMAIN seen'["build"]
    BY <1>3, <1>4 DEF Programs
  <2>. QED
    BY <1>1, <1>2, <2>1, <2>2, <2>3, <2>4 DEF TodoInv
<1>8. CacheInv'
  <2>1. AllTrue(up)'
    BY <1>2 DEF AllTrue, Identifies, StatOf, BytesOf
  <2>2. \A q \in Programs : /\ cache'[q].snapshot = cache[q].snapshot
                            /\ cache'[q].updates = cache[q].updates \/ AllTrue(cache[q].updates)'
    <3>1. AllTrue(cache[p].updates)'
      BY <2>1 DEF AllTrue
    <3>. QED
      BY <3>1
  <2>. QED
    BY <1>1, <1>2, <1>5, <2>2, CacheStays
<1>9. GraphInv'
  BY <1>1, <1>2 DEF GraphInv
<1>10. BuildInv'
  <2>1. CASE p = "dry"
    <3>1. BuildRests
      BY <1>2, <1>3, <2>1 DEF BuildRests, Programs
    <3>. QED
      BY <1>2, <1>5, <3>1, OutsideKeeps
  <2>2. CASE p = "build"
    <3>1. /\ \A g : g # f => (g \in DOMAIN st <=> g \in DOMAIN Settled)
          /\ \A g \in DOMAIN st : g # f => st[g] = Settled[g]
          /\ pc["build"] \in {"preflight", "verify"} => st = Settled
          /\ f \in DOMAIN st => st[f] = v
          /\ pc["build"] = "inputs" => f \in DOMAIN st
      BY <2>2
    <3>2. /\ MadeOf(values)' = MadeOf(values)
          /\ \A g : BytesOf(g)' = BytesOf(g) /\ StatOf(g)' = StatOf(g) /\ Caught(g)' = Caught(g)
          /\ Called' = Called /\ (RecordTrue' <=> RecordTrue) /\ Settled' = st
      BY <1>2, <2>2 DEF MadeOf, BytesOf, StatOf, Called, RecordTrue, Settled, Caught
    <3>3. /\ Found(f)' = v /\ FoundIt(f)'
          /\ \A g : FoundIt(g) => FoundIt(g)'
          /\ \A g : FoundIt(g)' => g = f \/ FoundIt(g)
          /\ \A g : g # f /\ FoundIt(g) => Found(g)' = Found(g)
      BY <1>3, <1>4, <2>2 DEF Found, FoundIt
    <3>4. pc["build"] \in Looking /\ f \in todo["build"]
      BY <1>1, <2>2 DEF TodoInv, Programs
    <3>5. /\ pc["build"] = "inputs" => f = "src"
          /\ pc["build"] \in {"check", "made"} => f = "out"
      BY <1>1, <3>4 DEF TodoInv
    <3>6. pc["build"] # "check" => v = BytesOf(f)
      BY <1>1, <2>2, <3>5 DEF BuildInv, SourceInv, Looking
    <3>7. ~moved["build"] => v = BytesOf(f)
      BY <1>1, <2>2, <3>4, <3>6 DEF BuildInv, TruthInv
    <3>8. RecordInv'
      <4>1. pc["build"] = "check" => FoundIt("src")
        BY <1>1, <3>4, <3>5 DEF BuildInv, SourceInv, TodoInv
      <4>2. pc["build"] = "check" => Key("build", Found("src"))' = Key("build", Found("src"))
        BY <1>2, <3>3, <3>5, <4>1 DEF Key
      <4>3. Key("build", journal.src)' = Key("build", journal.src)
        BY <1>2 DEF Key
      <4>. QED
        BY <1>1, <1>2, <3>2, <4>2, <4>3 DEF BuildInv, RecordInv
    <3>9. SourceInv'
      <4>1. CASE pc["build"] \in {"preflight", "verify"}
        BY <1>1, <1>2, <3>1, <3>2, <4>1 DEF BuildInv, SourceInv
      <4>2. CASE pc["build"] = "inputs"
        BY <1>2, <3>1, <3>2, <3>3, <3>5, <3>6, <4>2 DEF SourceInv
      <4>3. CASE pc["build"] = "check"
        <5>1. "src" \notin todo["build"]
          BY <1>1, <4>3 DEF TodoInv
        <5>. QED
          BY <1>1, <1>2, <3>1, <3>2, <3>3, <3>5, <4>3, <5>1 DEF BuildInv, SourceInv
      <4>4. CASE pc["build"] = "made"
        <5>1. FoundIt("src") /\ BytesOf("out") = MadeHere(Found("src"))
          BY <1>1, <4>4 DEF BuildInv, SourceInv
        <5>2. Found("src")' = Found("src") /\ FoundIt("src")'
          BY <3>3, <3>5, <4>4, <5>1
        <5>3. MadeHere(Found("src"))' = MadeHere(Found("src"))
          BY <1>2, <3>2, <5>2 DEF MadeHere
        <5>. QED
          BY <1>2, <3>1, <3>2, <3>3, <3>5, <3>6, <4>4, <5>1, <5>2, <5>3 DEF SourceInv
      <4>. QED
        BY <3>4, <4>1, <4>2, <4>3, <4>4 DEF Looking
    <3>10. VerifyInv'
      <4>1. SUFFICES ASSUME pc["build"] = "verify"
                     PROVE  VerifyInv'
        BY <1>2 DEF VerifyInv
      <4>2. ASSUME NEW g \in Files
            PROVE  g \notin todo'["build"] => FoundIt(g)' /\ Identifies(g, Caught(g), Found(g))'
        <5>1. CASE g = f
          <6>1. /\ Caught(f) = None => StatOf(f) = None
                /\ Caught(f) # None => Caught(f) \in Nat /\ Caught(f) <= clock
            BY <1>1, <1>3, <4>1 DEF BuildInv, VerifyInv
          <6>2. StatOf(f) = None => BytesOf(f) = None
            BY <1>1, <1>3 DEF Shapes, Identifies
          <6>. QED
            BY <1>2, <3>2, <3>3, <3>6, <4>1, <5>1, <6>1, <6>2 DEF Identifies
        <5>2. CASE g # f
          <6>1. g \notin todo'["build"] => FoundIt(g) /\ Identifies(g, Caught(g), Found(g))
            BY <1>1, <1>3, <2>2, <4>1, <5>2 DEF BuildInv, VerifyInv
          <6>. QED
            BY <1>2, <3>2, <3>3, <5>2, <6>1 DEF Identifies
        <5>. QED
          BY <5>1, <5>2
      <4>. QED
        BY <1>1, <1>2, <3>2, <4>1, <4>2 DEF BuildInv, VerifyInv
    <3>11. CertInv'
      BY <1>1, <1>2, <1>5, CertStays DEF BuildInv
    <3>12. TruthInv'
      <4>1. SUFFICES ASSUME ~moved["build"]
                     PROVE  TruthInv'
        BY <1>2 DEF TruthInv
      <4>2. pc["build"] # "made" => \A g \in DOMAIN st : st[g] = BytesOf(g)
        BY <1>1, <3>1, <3>4, <3>7, <4>1 DEF BuildInv, TruthInv, Looking
      <4>3. pc["build"] # "made" => \A g : FoundIt(g)' => Found(g)' = BytesOf(g)
        <5>1. pc["build"] # "made" => \A g : FoundIt(g) => Found(g) = BytesOf(g)
          BY <1>1, <3>4, <4>1 DEF BuildInv, TruthInv, Looking, FoundIt
        <5>. QED
          BY <3>3, <3>7, <4>1, <5>1
      <4>4. pc["build"] = "made" => Found("src")' = BytesOf("src")
        BY <1>1, <3>3, <3>5, <4>1 DEF BuildInv, TruthInv, SourceInv
      <4>5. /\ pc'["build"] \in {"preflight", "verify", "inputs", "check", "run"} =>
                 /\ \A g \in DOMAIN Settled' : Settled'[g] = BytesOf(g)'
                 /\ \A g \in DOMAIN seen'["build"] : Found(g)' = BytesOf(g)'
            /\ pc'["build"] = "made" => Found("src")' = BytesOf("src")'
        BY <1>2, <3>2, <4>2, <4>3, <4>4 DEF FoundIt
      <4>6. /\ pc'["build"] \in Held \cup {"graph"} => Called'.env = env'
            /\ pc'["build"] \in Held \ {"compile", "load"} => Called'.values = values'
            /\ pc'["build"] \in Good => BytesOf("out")' = MadeOf(values)'
            /\ pc'["build"] # "hit"
        BY <1>1, <1>2, <3>2, <3>4, <4>1 DEF BuildInv, TruthInv, Looking
      <4>. QED
        BY <4>5, <4>6 DEF TruthInv
    <3>. QED
      BY <3>8, <3>9, <3>10, <3>11, <3>12 DEF BuildInv
  <2>. QED
    BY <2>1, <2>2 DEF Programs
<1>. QED
  BY <1>6, <1>7, <1>8, <1>9, <1>10 DEF WarmInv

LEMMA ForgetWhat ==
  ASSUME NEW c, NEW f,
         c = [snapshot |-> c.snapshot, updates |-> c.updates, loaded |-> c.loaded, settled |-> c.settled]
  PROVE  Forget(c, f) = [snapshot |-> c.snapshot, updates |-> With(c.updates, f, None),
                         loaded |-> c.loaded, settled |-> Without(c.settled, f)]
<1>1. Forget(c, f) = [[snapshot |-> c.snapshot, updates |-> c.updates, loaded |-> c.loaded,
                       settled |-> c.settled] EXCEPT !.updates = With(c.updates, f, None),
                                                     !.settled = Without(c.settled, f)]
  BY DEF Forget
<1>. QED
  BY <1>1

LEMMA LookAtKeeps ==
  ASSUME WarmInv, NEW p \in Programs, NEW f \in Files, LookAt(p, f)
  PROVE  WarmInv'
<1>1. Shapes /\ TodoInv /\ CacheInv /\ GraphInv /\ BuildInv
  BY DEF WarmInv
<1>. DEFINE c == cache[p]
            up == c.updates
            st == c.settled
<1>2. /\ f \in todo[p] /\ peek[p] = None
      /\ UNCHANGED <<world, persistent, pc, call, graph, captured, counts>>
  BY DEF LookAt
<1>3. /\ DOMAIN peek = Programs /\ DOMAIN cache = Programs /\ AllTrue(up)
      /\ c = [snapshot |-> c.snapshot, updates |-> up, loaded |-> c.loaded, settled |-> st]
  BY <1>1 DEF Shapes, CacheInv
<1>4. p = "build" => st = Settled
  BY DEF Settled
<1>5. CASE Known(p, f) /\ Find(p, f, st[f]) /\ UNCHANGED <<cache, peek>>
  <2>1. /\ todo' = [todo EXCEPT ![p] = @ \ {f}] /\ seen' = [seen EXCEPT ![p] = With(@, f, st[f])]
        /\ f \in DOMAIN st /\ pc[p] \in {"inputs", "check", "made"}
    BY <1>5 DEF Find, Known, Settles
  <2>. QED
    BY <1>2, <1>3, <1>4, <1>5, <2>1, FindStep
<1>6. CASE /\ ~Known(p, f) /\ StatOf(f) = None /\ Find(p, f, None) /\ UNCHANGED peek
           /\ cache' = IF Settles(p) /\ Lookup(p, f) # None
                       THEN [cache EXCEPT ![p] = Forget(@, f)] ELSE cache
  <2>1. todo' = [todo EXCEPT ![p] = @ \ {f}] /\ seen' = [seen EXCEPT ![p] = With(@, f, None)]
    BY <1>6 DEF Find
  <2>2. BytesOf(f) = None
    BY <1>1, <1>6 DEF Shapes, Identifies
  <2>3. pc["build"] = "inputs" => p # "build"
    BY <1>1, <1>2, <1>6 DEF Shapes, TodoInv
  <2>4. CASE Settles(p) /\ Lookup(p, f) # None
    <3>. DEFINE up2 == With(up, f, None)
                st2 == Without(st, f)
    <3>1. cache' = [cache EXCEPT ![p] = Forget(c, f)]
      BY <1>6, <2>4
    <3>2. Forget(c, f) = [snapshot |-> c.snapshot, updates |-> up2, loaded |-> c.loaded, settled |-> st2]
      BY <1>3, ForgetWhat
    <3>3. AllTrue(up2)
      BY <1>3, ForgetIsTrue
    <3>4. /\ DOMAIN st2 = DOMAIN st \ {f} /\ \A g \in DOMAIN st2 : st2[g] = st[g]
      BY DEF Without, Restrict
    <3>5. pc[p] \in {"inputs", "check", "made"}
      BY <2>4 DEF Settles
    <3>. HIDE DEF up2, st2
    <3>6. cache'[p] = [snapshot |-> c.snapshot, updates |-> up2, loaded |-> c.loaded, settled |-> st2]
          /\ DOMAIN cache' = Programs /\ \A q \in Programs : q # p => cache'[q] = cache[q]
      BY <1>3, <3>1, <3>2
    <3>. HIDE DEF c, up, st
    <3>7. p = "build" =>
            /\ \A g : g # f => (g \in DOMAIN st2 <=> g \in DOMAIN Settled)
            /\ \A g \in DOMAIN st2 : g # f => st2[g] = Settled[g]
            /\ pc["build"] \in {"preflight", "verify"} => st2 = Settled
            /\ f \in DOMAIN st2 => st2[f] = None
            /\ pc["build"] = "inputs" => f \in DOMAIN st2
            /\ None = BytesOf(f)
      BY <1>4, <2>2, <2>3, <3>4, <3>5
    <3>. QED
      BY <1>2, <1>3, <1>6, <2>1, <3>3, <3>6, <3>7, FindStep DEF c
  <2>5. CASE ~(Settles(p) /\ Lookup(p, f) # None)
    <3>1. cache' = cache
      BY <1>6, <2>5
    <3>2. p = "build" =>
            /\ f \in DOMAIN st => st[f] = None
            /\ pc["build"] # "inputs"
            /\ None = BytesOf(f)
      <4>1. SUFFICES ASSUME p = "build", f \in DOMAIN st
                     PROVE  st[f] = None
        BY <2>2, <2>3
      <4>2. f \in DOMAIN Settled /\ pc["build"] \in {"inputs", "check", "made", "preflight", "verify"}
        BY <1>1, <1>2, <4>1 DEF TodoInv, Looking, Settled
      <4>3. pc["build"] \in {"preflight", "verify"} => DOMAIN Settled = {}
        BY <1>1 DEF BuildInv, SourceInv
      <4>. QED
        BY <1>4, <1>6, <4>1, <4>2, <4>3 DEF Known, Settles
    <3>. QED
      BY <1>2, <1>3, <1>4, <1>6, <2>1, <3>1, <3>2, FindStep
  <2>. QED
    BY <2>4, <2>5
<1>7. CASE /\ Fresh(p, f) /\ Find(p, f, Lookup(p, f).bytes) /\ UNCHANGED peek /\ ~Known(p, f)
           /\ cache' = IF Settles(p)
                       THEN [cache EXCEPT ![p].settled = With(@, f, Lookup(p, f).bytes)] ELSE cache
  <2>. DEFINE v == Lookup(p, f).bytes
  <2>1. todo' = [todo EXCEPT ![p] = @ \ {f}] /\ seen' = [seen EXCEPT ![p] = With(@, f, v)]
    BY <1>7 DEF Find
  <2>2. v = BytesOf(f)
    BY <1>1, <1>7, FreshIsTrue
  <2>. HIDE DEF v
  <2>3. PICK st3 : /\ DOMAIN cache' = Programs /\ \A q \in Programs : q # p => cache'[q] = cache[q]
                   /\ cache'[p] = [snapshot |-> c.snapshot, updates |-> up, loaded |-> c.loaded, settled |-> st3]
                   /\ st3 = IF Settles(p) THEN With(st, f, v) ELSE st
    <3>1. CASE Settles(p)
      <4>1. cache' = [cache EXCEPT ![p].settled = With(@, f, v)]
        BY <1>7, <3>1 DEF v
      <4>2. cache'[p] = [c EXCEPT !.settled = With(st, f, v)] /\ DOMAIN cache' = Programs
            /\ \A q \in Programs : q # p => cache'[q] = cache[q]
        BY <1>3, <4>1
      <4>. QED
        BY <1>3, <3>1, <4>2
    <3>2. CASE ~Settles(p)
      BY <1>3, <1>7, <3>2
    <3>. QED
      BY <3>1, <3>2
  <2>4. p = "build" => pc["build"] \in Looking /\ (Settles(p) <=> pc["build"] \in {"inputs", "check", "made"})
    BY <1>1, <1>2 DEF TodoInv, Settles
  <2>5. DOMAIN With(st, f, v) = DOMAIN st \cup {f} /\ With(st, f, v)[f] = v
        /\ \A g \in DOMAIN st : g # f => With(st, f, v)[g] = st[g]
    BY DEF With
  <2>6. p = "build" /\ pc["build"] \in {"preflight", "verify"} => DOMAIN st = {}
    BY <1>1 DEF BuildInv, SourceInv, Settled
  <2>7. p = "build" =>
          /\ \A g : g # f => (g \in DOMAIN st3 <=> g \in DOMAIN Settled)
          /\ \A g \in DOMAIN st3 : g # f => st3[g] = Settled[g]
          /\ pc["build"] \in {"preflight", "verify"} => st3 = Settled
          /\ f \in DOMAIN st3 => st3[f] = v
          /\ pc["build"] = "inputs" => f \in DOMAIN st3
          /\ \/ v = BytesOf(f)
             \/ /\ f \in DOMAIN Settled /\ v = Settled[f]
                /\ pc["build"] \in {"inputs", "check", "made"}
    <3>1. CASE Settles(p)
      BY <1>4, <2>2, <2>3, <2>4, <2>5, <3>1
    <3>2. CASE ~Settles(p)
      BY <1>4, <2>2, <2>3, <2>4, <2>6, <3>2 DEF Looking
    <3>. QED
      BY <3>1, <3>2
  <2>8. DOMAIN peek' = Programs /\ peek'[p] = None /\ \A q \in Programs : q # p => peek'[q] = peek[q]
    BY <1>2, <1>3, <1>7
  <2>9. DOMAIN cache' = Programs /\ (\A q \in Programs : q # p => cache'[q] = cache[q])
        /\ cache'[p] = [snapshot |-> cache[p].snapshot, updates |-> up,
                        loaded |-> cache[p].loaded, settled |-> st3]
        /\ f \in todo[p] /\ AllTrue(up)
    BY <1>2, <1>3, <2>3
  <2>. HIDE DEF c, up, st
  <2>. QED
    BY <1>2, <2>1, <2>7, <2>8, <2>9, FindStep
<1>8. CASE /\ StatOf(f) # None
           /\ peek' = [peek EXCEPT ![p] = [file |-> f, stat |-> StatOf(f), held |-> BytesOf(f)]]
           /\ UNCHANGED <<cache, seen, todo>>
  <2>1. /\ UNCHANGED <<disk, clock, values, manifest, env, moved, journal, hashcache, store, certificate>>
        /\ UNCHANGED <<pc, call, graph, captured>>
    BY <1>2 DEF world, persistent, counts
  <2>2. Later
    BY <1>1, <2>1, QuietLater
  <2>3. Shapes'
    BY <1>1, <1>3, <1>8, <2>1, <2>2, FilesIdentified DEF Shapes, StatOf
  <2>4. TodoInv'
    <3>1. StatOf(f) \in Nat /\ StatOf(f) <= clock
      BY <1>1, <1>8 DEF Shapes, Identifies
    <3>2. peek'[p].file = f /\ peek'[p].stat = StatOf(f) /\ \A q \in Programs : q # p => peek'[q] = peek[q]
      BY <1>3, <1>8
    <3>. QED
      BY <1>1, <1>2, <1>8, <2>1, <3>1, <3>2 DEF TodoInv
  <2>5. CacheInv' /\ GraphInv'
    BY <1>1, <1>8, <2>1, <2>2, CacheStays DEF GraphInv
  <2>6. BuildInv'
    BY <1>8, <2>1, <2>2, OutsideKeeps DEF BuildRests
  <2>. QED
    BY <2>3, <2>4, <2>5, <2>6 DEF WarmInv
<1>. QED
  BY <1>5, <1>6, <1>7, <1>8 DEF LookAt

LEMMA HashFileKeeps ==
  ASSUME WarmInv, NEW p \in Programs, HashFile(p)
  PROVE  WarmInv'
<1>1. Shapes /\ TodoInv /\ CacheInv /\ GraphInv /\ BuildInv
  BY DEF WarmInv
<1>. DEFINE f == peek[p].file
            v == BytesOf(f)
            c == cache[p]
            up2 == With(c.updates, f, EntryOf(p))
            st2 == IF Settles(p) THEN With(c.settled, f, v) ELSE c.settled
<1>2. /\ peek[p] # None /\ peek' = [peek EXCEPT ![p] = None]
      /\ todo' = [todo EXCEPT ![p] = @ \ {f}] /\ seen' = [seen EXCEPT ![p] = With(@, f, v)]
      /\ cache' = [cache EXCEPT ![p].updates = With(@, f, EntryOf(p)),
                     ![p].settled = IF Settles(p) THEN With(@, f, BytesOf(f)) ELSE @]
      /\ UNCHANGED <<world, persistent, pc, call, graph, captured, counts>>
  BY DEF HashFile, Find
<1>3. f \in todo[p] /\ f \in Files /\ peek[p].stat \in Nat /\ peek[p].stat <= clock
  BY <1>1, <1>2 DEF TodoInv, Shapes
<1>4. /\ DOMAIN peek = Programs /\ DOMAIN cache = Programs /\ AllTrue(c.updates)
      /\ c = [snapshot |-> c.snapshot, updates |-> c.updates, loaded |-> c.loaded, settled |-> c.settled]
  BY <1>1 DEF Shapes, CacheInv
<1>5. AllTrue(up2)
  <2>1. EntryOf(p).stat = peek[p].stat /\ EntryOf(p).bytes = BytesOf(f)
    BY DEF EntryOf
  <2>2. EntryOf(p).stat \in Nat /\ Identifies(f, EntryOf(p).stat, EntryOf(p).bytes)
    BY <1>3, <2>1, ContentAssumption DEF Identifies
  <2>. QED
    BY <1>3, <1>4, <2>2, WithIsTrue
<1>6. /\ cache'[p] = [snapshot |-> c.snapshot, updates |-> up2, loaded |-> c.loaded, settled |-> st2]
      /\ DOMAIN cache' = Programs /\ \A q \in Programs : q # p => cache'[q] = cache[q]
  BY <1>2, <1>4
<1>7. DOMAIN peek' = Programs /\ peek'[p] = None /\ \A q \in Programs : q # p => peek'[q] = peek[q]
  BY <1>2, <1>4
<1>8. p = "build" =>
        /\ \A g : g # f => (g \in DOMAIN st2 <=> g \in DOMAIN Settled)
        /\ \A g \in DOMAIN st2 : g # f => st2[g] = Settled[g]
        /\ pc["build"] \in {"preflight", "verify"} => st2 = Settled
        /\ f \in DOMAIN st2 => st2[f] = v
        /\ pc["build"] = "inputs" => f \in DOMAIN st2
        /\ \/ v = BytesOf(f)
           \/ /\ f \in DOMAIN Settled /\ v = Settled[f]
              /\ pc["build"] \in {"inputs", "check", "made"}
  <2>1. SUFFICES ASSUME p = "build"
                 PROVE  /\ \A g : g # f => (g \in DOMAIN st2 <=> g \in DOMAIN Settled)
                        /\ \A g \in DOMAIN st2 : g # f => st2[g] = Settled[g]
                        /\ pc["build"] \in {"preflight", "verify"} => st2 = Settled
                        /\ f \in DOMAIN st2 => st2[f] = v
                        /\ pc["build"] = "inputs" => f \in DOMAIN st2
    OBVIOUS
  <2>2. c.settled = Settled /\ pc["build"] \in Looking
        /\ (Settles(p) <=> pc["build"] \in {"inputs", "check", "made"})
    BY <1>1, <1>3, <2>1 DEF Settled, TodoInv, Settles
  <2>3. pc["build"] \in {"preflight", "verify"} => DOMAIN Settled = {}
    BY <1>1 DEF BuildInv, SourceInv
  <2>4. DOMAIN With(Settled, f, v) = DOMAIN Settled \cup {f} /\ With(Settled, f, v)[f] = v
        /\ \A g \in DOMAIN Settled : g # f => With(Settled, f, v)[g] = Settled[g]
    BY DEF With
  <2>5. st2 = IF Settles(p) THEN With(Settled, f, v) ELSE Settled
    BY <2>2
  <2>. HIDE DEF st2, v, f, c
  <2>. QED
    BY <2>2, <2>3, <2>4, <2>5 DEF Looking
<1>9. /\ todo' = [todo EXCEPT ![p] = @ \ {f}] /\ seen' = [seen EXCEPT ![p] = With(@, f, v)]
      /\ UNCHANGED <<world, persistent, pc, call, graph, captured, counts>>
  BY <1>2
<1>10. cache'[p] = [snapshot |-> cache[p].snapshot, updates |-> up2,
                    loaded |-> cache[p].loaded, settled |-> st2]
       /\ DOMAIN cache' = Programs /\ \A q \in Programs : q # p => cache'[q] = cache[q]
  BY <1>6
<1>11. f \in todo[p]
  BY <1>3
<1>. HIDE DEF st2, up2, v, f, c
<1>. QED
  BY <1>5, <1>7, <1>8, <1>9, <1>10, <1>11, FindStep

-----------------------------------------------------------------------------
(* The output is checked, or made                                           *)

\* A program writes b as the output, and drops what it kept of it.
LEMMA WriteWhat ==
  ASSUME Shapes, CacheInv, NEW p \in Programs, NEW b, Write(p, b)
  PROVE  /\ Later /\ UNCHANGED <<manifest, env, values>>
         /\ BytesOf("out")' = b /\ disk'["src"] = disk["src"] /\ disk'["out"].stat # None
         /\ DOMAIN cache' = Programs /\ \A q \in Programs : q # p => cache'[q] = cache[q]
         /\ cache'[p] = [snapshot |-> cache'[p].snapshot, updates |-> cache'[p].updates,
                         loaded |-> cache'[p].loaded, settled |-> cache'[p].settled]
         /\ cache'[p].snapshot = cache[p].snapshot /\ AllTrue(cache[p].updates)'
         /\ DOMAIN cache'[p].settled = DOMAIN cache[p].settled \ {"out"}
         /\ \A f \in DOMAIN cache'[p].settled : cache'[p].settled[f] = cache[p].settled[f]
<1>1. /\ clock' = clock + 1
      /\ disk' = [disk EXCEPT !["out"] = [stat |-> clock + 1, bytes |-> b]]
      /\ cache' = [cache EXCEPT ![p] = Forget(cache[p], "out")]
      /\ UNCHANGED <<manifest, env, values>>
  BY DEF Write
<1>2. /\ Later /\ disk'["out"] = [stat |-> clock + 1, bytes |-> b] /\ disk'["src"] = disk["src"]
  BY <1>1, WriteLater DEF Files
<1>3. BytesOf("out")' = b /\ disk'["out"].stat # None
  BY <1>2, ContentAssumption DEF BytesOf, Shapes
<1>. DEFINE up == With(cache[p].updates, "out", None)
            st == Without(cache[p].settled, "out")
<1>4. Forget(cache[p], "out") = [snapshot |-> cache[p].snapshot, updates |-> up,
                                 loaded |-> cache[p].loaded, settled |-> st]
  BY ForgetWhat DEF Shapes
<1>5. DOMAIN st = DOMAIN cache[p].settled \ {"out"} /\ \A f \in DOMAIN st : st[f] = cache[p].settled[f]
  BY DEF Without, Restrict
<1>6. AllTrue(up)
  BY ForgetIsTrue DEF CacheInv, Files
<1>. HIDE DEF up, st
<1>7. /\ DOMAIN cache' = Programs /\ \A q \in Programs : q # p => cache'[q] = cache[q]
      /\ cache'[p] = [snapshot |-> cache[p].snapshot, updates |-> up,
                      loaded |-> cache[p].loaded, settled |-> st]
  BY <1>1, <1>4 DEF Shapes
<1>8. AllTrue(cache[p].updates)'
  <2>1. cache'[p].updates = up
    BY <1>7
  <2>. QED
    BY <1>2, <1>6, <2>1, TrueStays DEF AllTrue
<1>. QED
  BY <1>1, <1>2, <1>3, <1>5, <1>7, <1>8

\* The program that writes goes on to s.
LEMMA WriteShapes ==
  ASSUME WarmInv, NEW p \in Programs, NEW s \in {"save", "made"}, NEW b, Write(p, b), Go(p, s),
         todo[p] = {}, s = "made" => p = "build" /\ todo' = [todo EXCEPT ![p] = {"out"}],
         s = "save" => todo' = todo, moved' \in [Programs -> BOOLEAN],
         UNCHANGED <<call, graph, peek, seen, captured, hashcache, store>>,
         pc[p] \in {"check", "run"}
  PROVE  Shapes' /\ TodoInv' /\ CacheInv' /\ GraphInv'
<1>1. Shapes /\ TodoInv /\ CacheInv /\ GraphInv
  BY DEF WarmInv
<1>2. /\ Later /\ UNCHANGED <<manifest, env, values>>
      /\ disk'["src"] = disk["src"]
      /\ DOMAIN cache' = Programs /\ \A q \in Programs : q # p => cache'[q] = cache[q]
      /\ cache'[p] = [snapshot |-> cache'[p].snapshot, updates |-> cache'[p].updates,
                      loaded |-> cache'[p].loaded, settled |-> cache'[p].settled]
      /\ cache'[p].snapshot = cache[p].snapshot /\ AllTrue(cache[p].updates)'
  BY <1>1, WriteWhat
<1>3. pc' \in [Programs -> Places] /\ pc'[p] = s /\ \A q \in Programs : q # p => pc'[q] = pc[q]
  BY <1>1, Moved DEF Places
<1>4. /\ todo' \in [Programs -> SUBSET Files] /\ \A q \in Programs : q # p => todo'[q] = todo[q]
      /\ s = "made" => todo'[p] = {"out"}
      /\ s = "save" => todo'[p] = {}
      /\ peek[p] = None
  BY <1>1 DEF Shapes, Files, TodoInv
<1>5. Shapes'
  <2>1. \A q \in Programs :
          cache'[q] = [snapshot |-> cache'[q].snapshot, updates |-> cache'[q].updates,
                       loaded |-> cache'[q].loaded, settled |-> cache'[q].settled]
    BY <1>1, <1>2 DEF Shapes
  <2>2. clock' \in Nat /\ DOMAIN disk' = Files /\ StatOf("src")' # None
    BY <1>1, <1>2 DEF Later, StatOf, Shapes
  <2>3. \A f \in Files : Identifies(f, StatOf(f), BytesOf(f))'
    BY <1>1, <1>2, FilesIdentified
  <2>. QED
    BY <1>1, <1>2, <1>3, <1>4, <2>1, <2>2, <2>3 DEF Shapes
<1>6. TodoInv'
  <2>1. \A q \in Programs : pc'[q] \notin Looking => todo'[q] = {}
    BY <1>1, <1>3, <1>4 DEF TodoInv, Looking
  <2>2. \A q \in Programs : peek'[q] # None =>
          peek'[q].file \in todo'[q] /\ peek'[q].stat \in Nat /\ peek'[q].stat <= clock'
    <3>1. clock \in Nat /\ clock' \in Nat /\ clock <= clock'
      BY <1>1, <1>2 DEF Shapes, Later
    <3>. QED
      BY <1>1, <1>4, <3>1 DEF TodoInv
  <2>3. /\ pc'["dry"] \notin OfBuild
        /\ pc'["build"] = "inputs" => todo'["build"] \subseteq {"src"}
        /\ pc'["build"] \in {"check", "made"} => todo'["build"] \subseteq {"out"}
        /\ pc'["build"] \in {"preflight", "check"} => {"out"} \subseteq todo'["build"] \cup DOMAIN seen'["build"]
        /\ pc'["build"] = "preflight" => {"src"} \subseteq todo'["build"] \cup DOMAIN seen'["build"]
    BY <1>1, <1>3, <1>4 DEF TodoInv, OfBuild, Programs
  <2>. QED
    BY <2>1, <2>2, <2>3 DEF TodoInv
<1>7. CacheInv'
  <2>1. \A q \in Programs : /\ cache'[q].snapshot = cache[q].snapshot
                            /\ cache'[q].updates = cache[q].updates \/ AllTrue(cache[q].updates)'
    <3>1. ASSUME NEW q \in Programs
          PROVE  /\ cache'[q].snapshot = cache[q].snapshot
                 /\ cache'[q].updates = cache[q].updates \/ AllTrue(cache[q].updates)'
      <4>1. CASE q = p
        BY <1>2, <4>1 DEF AllTrue
      <4>2. CASE q # p
        BY <1>2, <4>2
      <4>. QED
        BY <4>1, <4>2
    <3>. QED
      BY <3>1
  <2>2. \A q \in Programs : pc'[q] = "append" => pc[q] = "append"
    BY <1>3
  <2>. QED
    BY <1>1, <1>2, <2>1, <2>2, CacheStays
<1>8. GraphInv'
  BY <1>1, <1>2, <1>3 DEF GraphInv, Held, Places, Programs
<1>. QED
  BY <1>5, <1>6, <1>7, <1>8

\* The output is as recorded, is restored, or has to be made.
LEMMA CheckOutputKeeps ==
  ASSUME WarmInv, NEW p \in Programs, CheckOutput(p)
  PROVE  WarmInv'
<1>1. Shapes /\ TodoInv /\ CacheInv /\ GraphInv /\ BuildInv
  BY DEF WarmInv
<1>2. /\ pc[p] = "check" /\ todo[p] = {}
      /\ UNCHANGED <<peek, seen, call, graph, todo, captured>>
      /\ UNCHANGED <<journal, hashcache, store, certificate>>
  BY DEF CheckOutput, persistent
<1>3. p = "build" =>
        /\ RecordTrue /\ journal.out = MadeHere(Found("src"))
        /\ Found("src") = BytesOf("src") /\ FoundIt("out")
        /\ ~moved["build"] => Found("out") = BytesOf("out") /\ MadeHere(BytesOf("src")) = MadeOf(values)
  <2>1. SUFFICES ASSUME p = "build"
                 PROVE  /\ RecordTrue /\ journal.out = MadeHere(Found("src"))
                        /\ Found("src") = BytesOf("src") /\ FoundIt("out")
                        /\ ~moved["build"] => /\ Found("out") = BytesOf("out")
                                              /\ MadeHere(BytesOf("src")) = MadeOf(values)
    OBVIOUS
  <2>2. RecordTrue /\ journal.key = Key("build", Found("src"))
    BY <1>1, <1>2, <2>1 DEF BuildInv, RecordInv
  <2>3. journal.out = MadeHere(Found("src"))
    BY <2>2, RecordMakes
  <2>4. Found("src") = BytesOf("src") /\ FoundIt("out")
    BY <1>1, <1>2, <2>1 DEF BuildInv, SourceInv, TodoInv, FoundIt
  <2>5. ~moved["build"] => Found("out") = BytesOf("out") /\ MadeHere(BytesOf("src")) = MadeOf(values)
    BY <1>1, <1>2, <2>1, <2>4, HereIsNow DEF BuildInv, TruthInv, FoundIt, Held, Places
  <2>. QED
    BY <2>2, <2>3, <2>4, <2>5
<1>4. \/ seen[p]["out"] = journal.out /\ Go(p, "save") /\ UNCHANGED <<world, cache, moved>>
      \/ /\ p = "dry" => pc["build"] \in Stopped
         /\ Write(p, journal.out) /\ Go(p, "save")
         /\ moved' = [q \in Programs |-> moved[q] \/ q # p]
      \/ Go(p, IF p = "build" THEN "run" ELSE "save") /\ UNCHANGED <<world, cache, moved>>
         /\ (p # "build" \/ seen[p]["out"] # journal.out)
  BY <1>2 DEF CheckOutput
<1>5. ASSUME NEW s \in {"run", "save"}, Go(p, s), UNCHANGED <<world, cache, moved>>,
             s = "run" => p = "build",
             p = "build" /\ s = "save" => Found("out") = journal.out
      PROVE  WarmInv'
  <2>1. UNCHANGED <<disk, clock, values, manifest, env, moved>>
    BY <1>5 DEF world
  <2>2. Shapes' /\ TodoInv' /\ Later
    <3>1. DOMAIN graph' = Programs /\ DOMAIN call' = Programs /\ DOMAIN captured' = Programs
      BY <1>1, <1>2 DEF Shapes
    <3>. QED
      BY <1>2, <1>5, <2>1, <3>1, MoveOn DEF Places, Looking, OfBuild
  <2>3. pc'[p] = s /\ \A q \in Programs : q # p => pc'[q] = pc[q]
    BY <1>1, <1>5, Moved DEF Places
  <2>4. CacheInv'
    BY <1>1, <1>2, <1>5, <2>2, <2>3, CacheStays
  <2>5. GraphInv'
    BY <1>1, <1>2, <2>1, <2>3 DEF GraphInv, Held, Places, Programs
  <2>6. BuildInv'
    <3>1. CASE p = "dry"
      <4>1. BuildRests
        BY <1>2, <1>5, <2>3, <3>1 DEF BuildRests, Programs
      <4>. QED
        BY <2>1, <2>2, <4>1, OutsideKeeps
    <3>2. CASE p = "build"
      <4>1. pc["build"] = "check" /\ pc'["build"] = s
        BY <1>2, <2>3, <3>2
      <4>2. /\ MadeOf(values)' = MadeOf(values) /\ \A f : BytesOf(f)' = BytesOf(f)
            /\ \A f : Found(f)' = Found(f) /\ (FoundIt(f)' <=> FoundIt(f))
            /\ Settled' = Settled /\ Called' = Called /\ (RecordTrue' <=> RecordTrue)
        BY <1>2, <1>5, <2>1 DEF MadeOf, BytesOf, Found, FoundIt, Settled, Called, RecordTrue
      <4>3. RecordInv' /\ VerifyInv'
        BY <1>1, <1>2, <1>3, <4>1, <4>2 DEF BuildInv, RecordInv, VerifyInv, Held, Places
      <4>4. SourceInv'
        BY <1>1, <1>2, <4>1, <4>2 DEF BuildInv, SourceInv
      <4>5. CertInv'
        BY <1>1, <1>2, <2>2, CertStays DEF BuildInv
      <4>6. s = "save" /\ ~moved["build"] => BytesOf("out") = MadeOf(values)
        BY <1>3, <1>5, <3>2
      <4>7. TruthInv'
        BY <1>1, <1>2, <2>1, <4>1, <4>2, <4>6 DEF BuildInv, TruthInv, Held, Places, Looking, Good
      <4>. QED
        BY <4>3, <4>4, <4>5, <4>7 DEF BuildInv
    <3>. QED
      BY <3>1, <3>2 DEF Programs
  <2>. QED
    BY <2>2, <2>4, <2>5, <2>6 DEF WarmInv
<1>6. ASSUME p = "dry" => pc["build"] \in Stopped, Write(p, journal.out), Go(p, "save"),
             moved' = [q \in Programs |-> moved[q] \/ q # p]
      PROVE  WarmInv'
  <2>1. moved' \in [Programs -> BOOLEAN] /\ moved'[p] = moved[p]
        /\ \A q \in Programs : q # p => moved'[q]
    BY <1>1, <1>6 DEF Shapes
  <2>2. Shapes' /\ TodoInv' /\ CacheInv' /\ GraphInv'
    BY <1>2, <1>6, <2>1, WriteShapes
  <2>3. /\ Later /\ UNCHANGED <<manifest, env, values>>
        /\ BytesOf("out")' = journal.out /\ disk'["src"] = disk["src"]
        /\ \A q \in Programs : q # p => cache'[q] = cache[q]
    BY <1>1, <1>6, WriteWhat
  <2>4. pc'[p] = "save" /\ \A q \in Programs : q # p => pc'[q] = pc[q]
    BY <1>1, <1>6, Moved DEF Places
  <2>5. BuildInv'
    <3>1. CASE p = "dry"
      <4>1. BuildRests
        BY <1>2, <2>3, <2>4, <3>1 DEF BuildRests, Programs
      <4>. QED
        BY <1>6, <2>1, <2>3, <3>1, <4>1, OutsideKeeps DEF Stopped, Programs
    <3>2. CASE p = "build"
      <4>1. pc["build"] = "check" /\ pc'["build"] = "save"
        BY <1>2, <2>4, <3>2
      <4>2. MadeOf(values)' = MadeOf(values) /\ Called' = Called /\ (RecordTrue' <=> RecordTrue)
        BY <1>2, <2>3 DEF MadeOf, BytesOf, Called, RecordTrue
      <4>3. RecordInv' /\ VerifyInv' /\ SourceInv'
        BY <1>1, <1>2, <1>3, <3>2, <4>1, <4>2 DEF BuildInv, RecordInv, VerifyInv, SourceInv, Held, Places
      <4>4. CertInv'
        BY <1>1, <1>2, <2>3, CertStays DEF BuildInv
      <4>5. ~moved["build"] => journal.out = MadeOf(values)
        BY <1>3, <3>2
      <4>6. TruthInv'
        BY <1>1, <2>1, <2>3, <3>2, <4>1, <4>2, <4>5 DEF BuildInv, TruthInv, Held, Places, Looking, Good
      <4>. QED
        BY <4>3, <4>4, <4>6 DEF BuildInv
    <3>. QED
      BY <3>1, <3>2 DEF Programs
  <2>. QED
    BY <2>2, <2>5 DEF WarmInv
<1>. QED
  BY <1>4, <1>5, <1>6 DEF Found, Programs

\* The command makes the output of the source that was digested.
LEMMA RunKeeps ==
  ASSUME WarmInv, NEW p \in Programs, Run(p)
  PROVE  WarmInv'
<1>. DEFINE b == Made(graph["build"], Called.env, Called.values, BytesOf("src"))
<1>1. Shapes /\ TodoInv /\ CacheInv /\ GraphInv /\ BuildInv
  BY DEF WarmInv
<1>2. p = "build" /\ pc["build"] = "run" /\ todo["build"] = {}
  BY <1>1 DEF Run, TodoInv, OfBuild, Looking, Programs
<1>3. /\ Go("build", "made") /\ todo' = [todo EXCEPT !["build"] = {"out"}] /\ Write("build", b)
      /\ UNCHANGED <<peek, seen, call, graph, captured, moved>>
      /\ UNCHANGED <<journal, hashcache, store, certificate>>
  BY <1>2 DEF Run, persistent, counts, Called
<1>4. Shapes' /\ TodoInv' /\ CacheInv' /\ GraphInv'
  <2>1. moved' \in [Programs -> BOOLEAN] /\ "build" \in Programs
    BY <1>1, <1>3 DEF Shapes, Programs
  <2>. QED
    BY <1>2, <1>3, <2>1, WriteShapes
<1>5. /\ Later /\ UNCHANGED <<manifest, env, values>>
      /\ BytesOf("out")' = b /\ disk'["src"] = disk["src"]
      /\ DOMAIN Settled' = DOMAIN Settled \ {"out"}
  BY <1>1, <1>3, WriteWhat DEF Programs, Settled
<1>6. pc'["build"] = "made"
  BY <1>1, <1>3, Moved DEF Places, Programs
<1>7. FoundIt("src") /\ Found("src") = BytesOf("src")
  BY <1>1, <1>2 DEF BuildInv, SourceInv
<1>8. /\ BytesOf("src")' = BytesOf("src") /\ Called' = Called /\ (RecordTrue' <=> RecordTrue)
      /\ Found("src")' = Found("src") /\ (FoundIt("src")' <=> FoundIt("src"))
      /\ todo'["build"] = {"out"}
  BY <1>1, <1>3, <1>5 DEF BytesOf, Called, RecordTrue, Found, FoundIt, Shapes, Programs
<1>9. MadeHere(Found("src"))' = b
  BY <1>3, <1>7, <1>8 DEF MadeHere
<1>. HIDE DEF b
<1>10. RecordInv' /\ VerifyInv'
  BY <1>1, <1>2, <1>3, <1>6, <1>8 DEF BuildInv, RecordInv, VerifyInv, Held, Places
<1>11. SourceInv'
  BY <1>5, <1>6, <1>7, <1>8, <1>9 DEF SourceInv
<1>12. CertInv'
  BY <1>1, <1>3, <1>5, CertStays DEF BuildInv
<1>13. TruthInv'
  BY <1>1, <1>2, <1>3, <1>5, <1>6, <1>7, <1>8 DEF BuildInv, TruthInv, Held, Places, Looking, Good
<1>. QED
  BY <1>4, <1>10, <1>11, <1>12, <1>13 DEF WarmInv, BuildInv

-----------------------------------------------------------------------------
(* A program starts, or dies                                                *)

\* What either leaves of a program: nothing.
Cleared(p) ==
  /\ cache' = [cache EXCEPT ![p] = NoCache] /\ seen' = [seen EXCEPT ![p] = <<>>]
  /\ captured' = [captured EXCEPT ![p] = None] /\ graph' = [graph EXCEPT ![p] = None]

LEMMA ClearedShapes ==
  ASSUME Shapes, CacheInv, NEW p \in Programs, NEW s \in {"idle", "hit", "graph"}, Go(p, s), Cleared(p),
         UNCHANGED world, moved' \in [Programs -> BOOLEAN], DOMAIN call' = Programs,
         DOMAIN peek' = Programs, todo' \in [Programs -> SUBSET Files]
  PROVE  /\ Shapes' /\ Later /\ pc'[p] = s /\ \A q \in Programs : q # p => pc'[q] = pc[q]
         /\ \A q \in Programs : q # p =>
              cache'[q] = cache[q] /\ seen'[q] = seen[q] /\ captured'[q] = captured[q] /\ graph'[q] = graph[q]
         /\ cache'[p] = NoCache /\ seen'[p] = <<>>
         /\ \A q \in Programs : AllTrue(cache[q].snapshot)' /\ AllTrue(cache[q].updates)'
<1>1. UNCHANGED <<disk, clock, values>>
  BY DEF world
<1>2. pc' \in [Programs -> Places] /\ pc'[p] = s /\ \A q \in Programs : q # p => pc'[q] = pc[q]
  BY Moved DEF Places
<1>3. Later
  BY <1>1, QuietLater
<1>4. /\ \A q \in Programs : q # p =>
           cache'[q] = cache[q] /\ seen'[q] = seen[q] /\ captured'[q] = captured[q] /\ graph'[q] = graph[q]
      /\ cache'[p] = NoCache /\ seen'[p] = <<>>
      /\ DOMAIN cache' = Programs /\ DOMAIN seen' = Programs
      /\ DOMAIN captured' = Programs /\ DOMAIN graph' = Programs
  BY DEF Cleared, Shapes
<1>5. Shapes'
  <2>1. \A q \in Programs :
          cache'[q] = [snapshot |-> cache'[q].snapshot, updates |-> cache'[q].updates,
                       loaded |-> cache'[q].loaded, settled |-> cache'[q].settled]
    BY <1>4 DEF Shapes, NoCache
  <2>. QED
    BY <1>1, <1>2, <1>3, <1>4, <2>1, FilesIdentified DEF Shapes, StatOf
<1>6. ASSUME NEW q \in Programs
      PROVE  AllTrue(cache[q].snapshot)' /\ AllTrue(cache[q].updates)'
  <2>1. CASE q = p
    <3>1. cache'[q].snapshot = <<>> /\ cache'[q].updates = <<>>
      BY <1>4, <2>1 DEF NoCache
    <3>. QED
      BY <3>1 DEF AllTrue
  <2>2. CASE q # p
    <3>1. cache'[q] = cache[q] /\ AllTrue(cache[q].snapshot) /\ AllTrue(cache[q].updates)
      BY <1>4, <2>2 DEF CacheInv
    <3>. QED
      BY <1>3, <3>1, TrueStays DEF AllTrue
  <2>. QED
    BY <2>1, <2>2
<1>. QED
  BY <1>2, <1>3, <1>4, <1>5, <1>6

\* A build is answered by the certificate, or goes by the graph.
LEMMA StartKeeps ==
  ASSUME WarmInv, NEW p \in Programs, Start(p)
  PROVE  WarmInv'
<1>1. Shapes /\ TodoInv /\ CacheInv /\ GraphInv /\ BuildInv
  BY DEF WarmInv
<1>2. /\ pc[p] \in Stopped /\ Cleared(p) /\ moved' = [moved EXCEPT ![p] = FALSE]
      /\ call' = [call EXCEPT ![p] = [env |-> env, values |-> None]]
      /\ UNCHANGED <<world, todo, peek>>
      /\ UNCHANGED <<disk, clock, values, manifest, env>>
      /\ UNCHANGED <<journal, hashcache, store, certificate>>
  BY DEF Start, Cleared, world, persistent
<1>3. PICK s \in {"hit", "graph"} : Go(p, s) /\ (s = "hit" => p = "build" /\ CertificateHolds)
  BY DEF Start, Programs
<1>4. /\ moved' \in [Programs -> BOOLEAN] /\ DOMAIN call' = Programs /\ DOMAIN peek' = Programs
      /\ todo' \in [Programs -> SUBSET Files]
      /\ \A q \in Programs : q # p => moved'[q] = moved[q] /\ call'[q] = call[q]
      /\ call'[p] = [env |-> env, values |-> None]
  BY <1>1, <1>2 DEF Shapes
<1>5. /\ Shapes' /\ Later /\ pc'[p] = s /\ \A q \in Programs : q # p => pc'[q] = pc[q]
      /\ \A q \in Programs : q # p =>
           cache'[q] = cache[q] /\ seen'[q] = seen[q] /\ captured'[q] = captured[q] /\ graph'[q] = graph[q]
      /\ cache'[p] = NoCache /\ seen'[p] = <<>>
      /\ \A q \in Programs : AllTrue(cache[q].snapshot)' /\ AllTrue(cache[q].updates)'
  BY <1>1, <1>2, <1>3, <1>4, ClearedShapes DEF Shapes
<1>6. todo[p] = {} /\ peek[p] = None
  BY <1>1, <1>2 DEF TodoInv, Stopped, Looking
<1>7. TodoInv'
  BY <1>1, <1>2, <1>3, <1>5, <1>6 DEF TodoInv, Looking, OfBuild, Programs
<1>8. CacheInv'
  BY <1>1, <1>2, <1>5, CacheStays
<1>9. GraphInv'
  BY <1>1, <1>2, <1>5 DEF GraphInv, Held, Places, Programs
<1>10. BuildInv'
  <2>1. CASE p = "dry"
    <3>1. BuildRests /\ moved'["build"] = moved["build"]
      BY <1>2, <1>4, <1>5, <2>1 DEF BuildRests, Programs
    <3>. QED
      BY <1>2, <1>5, <3>1, OutsideKeeps
  <2>2. CASE p = "build"
    <3>1. /\ pc'["build"] = s /\ Called' = [env |-> env, values |-> None]
          /\ Settled' = <<>> /\ seen'["build"] = <<>>
      BY <1>4, <1>5, <2>2 DEF Called, Settled, NoCache
    <3>2. RecordTrue' <=> RecordTrue
      BY <1>2 DEF RecordTrue
    <3>3. RecordInv' /\ VerifyInv' /\ SourceInv'
      BY <1>1, <1>2, <3>1, <3>2 DEF BuildInv, RecordInv, VerifyInv, SourceInv, Held, Places
    <3>4. CertInv'
      BY <1>1, <1>2, <1>5, CertStays DEF BuildInv
    <3>5. s = "hit" => \E v \in {0, 1} : BytesOf("out") = MadeOf(v)
      <4>1. SUFFICES ASSUME CertificateHolds
                     PROVE  \E v \in {0, 1} : BytesOf("out") = MadeOf(v)
        BY <1>3
      <4>2. /\ certificate # None /\ certificate.env = env /\ Fingerprint = certificate.fingerprint
            /\ StatOf("src") = certificate.files["src"] /\ StatOf("out") = certificate.files["out"]
        BY <4>1 DEF CertificateHolds, Files
      <4>3. PICK src, out : \E v \in {0, 1} :
              /\ Identifies("src", certificate.files["src"], src)
              /\ Identifies("out", certificate.files["out"], out)
              /\ out = Made(certificate.fingerprint, certificate.env, v, src)
        BY <1>1, <4>2 DEF BuildInv, CertInv
      <4>4. BytesOf("src") = src /\ BytesOf("out") = out
        BY <4>2, <4>3 DEF Identifies
      <4>5. certificate.fingerprint = manifest.rule
        BY <1>1, <4>2 DEF BuildInv, CertInv, Fingerprint, SourcesCurrent, GraphInv
      <4>. QED
        BY <4>2, <4>3, <4>4, <4>5 DEF MadeOf
    <3>6. BytesOf("out")' = BytesOf("out") /\ \A v : MadeOf(v)' = MadeOf(v)
      BY <1>2 DEF BytesOf, MadeOf
    <3>7. TruthInv'
      BY <1>2, <3>1, <3>5, <3>6 DEF TruthInv, Held, Places, Looking, Good
    <3>. QED
      BY <3>3, <3>4, <3>7 DEF BuildInv
  <2>. QED
    BY <2>1, <2>2 DEF Programs
<1>. QED
  BY <1>5, <1>7, <1>8, <1>9, <1>10 DEF WarmInv

\* A torn frame leaves those before it.
LEMMA CrashKeeps ==
  ASSUME WarmInv, NEW p \in Programs, Crash(p)
  PROVE  WarmInv'
<1>1. Shapes /\ TodoInv /\ CacheInv /\ GraphInv /\ BuildInv
  BY DEF WarmInv
<1>2. /\ Cleared(p) /\ Go(p, "idle") /\ call' = [call EXCEPT ![p] = None]
      /\ todo' = [todo EXCEPT ![p] = {}] /\ peek' = [peek EXCEPT ![p] = None]
      /\ hashcache' = IF pc[p] = "append" THEN [hashcache EXCEPT !.torn = TRUE] ELSE hashcache
      /\ UNCHANGED <<world, moved>>
      /\ UNCHANGED <<disk, clock, values, manifest, env>>
      /\ UNCHANGED <<journal, store, certificate>>
  BY DEF Crash, Cleared, world
<1>3. /\ moved' \in [Programs -> BOOLEAN] /\ DOMAIN call' = Programs /\ DOMAIN peek' = Programs
      /\ todo' \in [Programs -> SUBSET Files] /\ todo'[p] = {} /\ peek'[p] = None
      /\ \A q \in Programs : q # p => call'[q] = call[q] /\ todo'[q] = todo[q] /\ peek'[q] = peek[q]
  BY <1>1, <1>2 DEF Shapes
<1>4. /\ Shapes' /\ Later /\ pc'[p] = "idle" /\ \A q \in Programs : q # p => pc'[q] = pc[q]
      /\ \A q \in Programs : q # p =>
           cache'[q] = cache[q] /\ seen'[q] = seen[q] /\ captured'[q] = captured[q] /\ graph'[q] = graph[q]
      /\ \A q \in Programs : AllTrue(cache[q].snapshot)' /\ AllTrue(cache[q].updates)'
  BY <1>1, <1>2, <1>3, ClearedShapes DEF Shapes
<1>5. TodoInv'
  BY <1>1, <1>2, <1>3, <1>4 DEF TodoInv, Looking, OfBuild, Programs
<1>6. CacheInv'
  <2>1. FileInv(hashcache) => FileInv(hashcache)'
    <3>1. SUFFICES ASSUME FileInv(hashcache)
                   PROVE  FileInv(hashcache)'
      OBVIOUS
    <3>2. "frames" \in DOMAIN hashcache' /\ hashcache'.frames = hashcache.frames
      BY <1>2, <3>1 DEF FileInv
    <3>. QED
      BY <1>2, <3>1, <3>2 DEF FileInv, AllTrue, Identifies, StatOf, BytesOf
  <2>2. pc[p] = "append" => FileInv(hashcache)
    BY <1>1 DEF CacheInv
  <2>3. hashcache' # None => FileInv(hashcache)'
    BY <1>1, <1>2, <2>1, <2>2 DEF CacheInv
  <2>4. \A q \in Programs : pc'[q] = "append" => FileInv(hashcache)'
    BY <1>1, <1>4, <2>1 DEF CacheInv
  <2>. QED
    BY <1>4, <2>3, <2>4 DEF CacheInv
<1>7. GraphInv'
  BY <1>1, <1>2, <1>4 DEF GraphInv, Held, Places, Programs
<1>8. BuildInv'
  <2>1. CASE p = "dry"
    <3>1. BuildRests
      BY <1>2, <1>3, <1>4, <2>1 DEF BuildRests, Programs
    <3>. QED
      BY <1>2, <1>4, <3>1, OutsideKeeps
  <2>2. CASE p = "build"
    <3>1. pc'["build"] = "idle"
      BY <1>4, <2>2
    <3>2. RecordTrue' <=> RecordTrue
      BY <1>2 DEF RecordTrue
    <3>3. RecordInv' /\ VerifyInv' /\ SourceInv' /\ TruthInv'
      BY <1>1, <1>2, <3>1, <3>2
      DEF BuildInv, RecordInv, VerifyInv, SourceInv, TruthInv, Held, Places, Looking, Good
    <3>4. CertInv'
      BY <1>1, <1>2, <1>4, CertStays DEF BuildInv
    <3>. QED
      BY <3>3, <3>4 DEF BuildInv
  <2>. QED
    BY <2>1, <2>2 DEF Programs
<1>. QED
  BY <1>4, <1>5, <1>6, <1>7, <1>8 DEF WarmInv

-----------------------------------------------------------------------------
(* What happens outside                                                     *)

LEMMA EditedKeeps ==
  ASSUME WarmInv, Edited, Later, values' \in {0, 1}, disk'["src"].stat # None, GraphInv',
         UNCHANGED <<journal, hashcache, certificate>>,
         pc["build"] \in {"inputs", "check", "run"} /\ "src" \in DOMAIN Settled =>
           disk'["src"] = disk["src"],
         pc["build"] = "made" => disk'["out"] = disk["out"],
         pc["build"] = "verify" => \A f \in Files : disk[f].stat = None => disk'[f].stat = None
  PROVE  WarmInv'
<1>1. Shapes /\ TodoInv /\ CacheInv /\ BuildInv
  BY DEF WarmInv
<1>2. /\ UNCHANGED <<pc, call, graph, cache, todo, peek, seen, captured>>
      /\ moved' = [p \in Programs |-> moved[p] \/ pc[p] # "idle"]
  BY DEF Edited, running
<1>3. moved' \in [Programs -> BOOLEAN] /\ (pc["build"] # "idle" => moved'["build"])
  BY <1>1, <1>2 DEF Shapes, Programs
<1>4. Shapes'
  <2>1. clock' \in Nat /\ DOMAIN disk' = Files /\ StatOf("src")' # None
    BY DEF Later, StatOf
  <2>2. \A f \in Files : Identifies(f, StatOf(f), BytesOf(f))'
    BY <1>1, FilesIdentified
  <2>. QED
    BY <1>1, <1>2, <1>3, <2>1, <2>2 DEF Shapes
<1>5. TodoInv'
  <2>1. clock \in Nat /\ clock' \in Nat /\ clock <= clock'
    BY <1>1 DEF Shapes, Later
  <2>. QED
    BY <1>1, <1>2, <2>1 DEF TodoInv
<1>6. CacheInv'
  BY <1>1, <1>2, CacheStays
<1>7. BuildInv'
  <2>1. BuildRests
    BY <1>2 DEF BuildRests
  <2>. QED
    BY <1>3, <2>1, OutsideKeeps
<1>. QED
  BY <1>4, <1>5, <1>6, <1>7 DEF WarmInv

LEMMA EditsKeep ==
  ASSUME WarmInv, EditSource \/ DamageOutput \/ EditManifest \/ ChangeEnvironment \/ Commit \/ FlipBit
  PROVE  WarmInv'
<1>1. Shapes /\ GraphInv /\ Files = {"src", "out"}
  BY DEF WarmInv, Files
<1>2. disk["src"].stat # None
  BY <1>1 DEF Shapes, StatOf
<1>3. ASSUME Edited, UNCHANGED <<disk, clock>>
      PROVE  Later /\ UNCHANGED <<pc, graph>>
  BY <1>1, <1>3, QuietLater DEF Edited, running
<1>4. ASSUME NEW f \in Files, NEW b, Edited, Changed(f, b)
      PROVE  /\ Later /\ \A g \in Files \ {f} : disk'[g] = disk[g]
             /\ b # None => disk'[f].stat # None
             /\ GraphInv' /\ values' \in {0, 1}
             /\ UNCHANGED <<journal, hashcache, certificate>>
  <2>1. /\ clock' = clock + 1 /\ UNCHANGED <<manifest, values, persistent, pc, graph>>
        /\ disk' = [disk EXCEPT ![f] = IF b = None THEN Missing ELSE [stat |-> clock + 1, bytes |-> b]]
    BY <1>4 DEF Changed, Edited, running
  <2>2. UNCHANGED <<store, journal, hashcache, certificate>>
    BY <2>1 DEF persistent
  <2>3. GraphInv' /\ values' \in {0, 1}
    BY <1>1, <2>1, <2>2 DEF GraphInv, Shapes
  <2>4. CASE b = None
    <3>1. disk' = [disk EXCEPT ![f] = Missing]
      BY <2>1, <2>4
    <3>. QED
      BY <1>1, <2>1, <2>2, <2>3, <2>4, <3>1, MissLater
  <2>5. CASE b # None
    <3>1. disk' = [disk EXCEPT ![f] = [stat |-> clock + 1, bytes |-> b]]
      BY <2>1, <2>5
    <3>2. clock + 1 \in Nat
      BY <1>1 DEF Shapes
    <3>3. Later /\ disk'[f] = [stat |-> clock + 1, bytes |-> b] /\ \A g \in Files \ {f} : disk'[g] = disk[g]
      BY <1>1, <2>1, <3>1, WriteLater
    <3>4. disk'[f].stat # None
      BY <3>2, <3>3, ContentAssumption
    <3>. QED
      BY <2>2, <2>3, <3>3, <3>4
  <2>. QED
    BY <2>4, <2>5
<1>5. CASE EditSource
  <2>1. PICK c \in Contents : Changed("src", c)
    BY <1>5 DEF EditSource
  <2>2. Edited /\ c # None /\ ("src" \notin DOMAIN Settled \/ pc["build"] \notin {"inputs", "check", "run"})
    BY <1>5, ContentAssumption DEF EditSource, Settled
  <2>. QED
    BY <1>1, <1>2, <1>4, <2>1, <2>2, EditedKeeps
<1>6. CASE DamageOutput
  <2>1. PICK b \in {None, Damaged} : Changed("out", b)
    BY <1>6 DEF DamageOutput
  <2>2. Edited /\ pc["build"] # "made" /\ disk["out"].stat # None
    BY <1>6 DEF DamageOutput, StatOf
  <2>. QED
    BY <1>1, <1>2, <1>4, <2>1, <2>2, EditedKeeps
<1>7. CASE EditManifest
  <2>1. /\ Edited /\ UNCHANGED <<disk, clock, values, persistent>>
        /\ pc["build"] \in Stopped /\ pc["dry"] # "compile"
    BY <1>7 DEF EditManifest
  <2>2. UNCHANGED <<store, journal, hashcache, certificate>>
    BY <2>1 DEF persistent
  <2>3. Later /\ UNCHANGED <<pc, graph>>
    BY <1>3, <2>1
  <2>4. GraphInv'
    BY <1>1, <2>1, <2>2, <2>3 DEF GraphInv, Held, Places, Stopped, Programs
  <2>5. values' \in {0, 1}
    BY <1>1, <2>1 DEF Shapes
  <2>. QED
    BY <1>2, <2>1, <2>2, <2>3, <2>4, <2>5, EditedKeeps
<1>8. CASE ChangeEnvironment \/ Commit
  <2>1. /\ Edited /\ UNCHANGED <<disk, clock, manifest, persistent>>
        /\ values' = values \/ values' = 1 - values
    BY <1>8 DEF ChangeEnvironment, Commit
  <2>2. UNCHANGED <<store, journal, hashcache, certificate>>
    BY <2>1 DEF persistent
  <2>3. Later /\ UNCHANGED <<pc, graph>>
    BY <1>3, <2>1
  <2>4. GraphInv' /\ values' \in {0, 1}
    BY <1>1, <2>1, <2>2, <2>3 DEF GraphInv, Shapes
  <2>. QED
    BY <1>2, <2>1, <2>2, <2>3, <2>4, EditedKeeps
<1>9. CASE FlipBit
  <2>1. /\ Edited /\ store # None /\ store' = [store EXCEPT !.intact = FALSE]
        /\ UNCHANGED <<disk, clock, manifest, values, journal, hashcache, certificate>>
    BY <1>9 DEF FlipBit, world
  <2>2. Later /\ UNCHANGED <<pc, graph>>
    BY <1>3, <2>1
  <2>3. GraphInv' /\ values' \in {0, 1}
    BY <1>1, <2>1, <2>2 DEF GraphInv, Shapes
  <2>. QED
    BY <1>2, <2>1, <2>2, <2>3, EditedKeeps
<1>. QED
  BY <1>5, <1>6, <1>7, <1>8, <1>9

-----------------------------------------------------------------------------
LEMMA InitHolds ==
  ASSUME Init
  PROVE  WarmInv
<1>1. /\ clock = 1 /\ values = 0 /\ DOMAIN disk = Files /\ StatOf("src") = 1
      /\ StatOf("out") = None /\ BytesOf("out") = None
  BY DEF Init, Files, StatOf, BytesOf, Missing
<1>2. /\ \A p \in Programs : pc[p] = "idle" /\ todo[p] = {} /\ cache[p] = NoCache /\ peek[p] = None
      /\ journal = None /\ hashcache = None /\ store = None /\ certificate = None
  BY DEF Init
<1>3. Shapes
  <2>1. \A f \in Files : Identifies(f, StatOf(f), BytesOf(f))
    BY <1>1, ContentAssumption DEF Identifies, Files
  <2>2. /\ pc \in [Programs -> Places] /\ moved \in [Programs -> BOOLEAN]
        /\ DOMAIN call = Programs /\ DOMAIN graph = Programs /\ DOMAIN cache = Programs
        /\ DOMAIN seen = Programs /\ DOMAIN peek = Programs /\ DOMAIN captured = Programs
        /\ todo \in [Programs -> SUBSET Files]
    BY DEF Init, Places
  <2>3. \A p \in Programs :
          cache[p] = [snapshot |-> cache[p].snapshot, updates |-> cache[p].updates,
                      loaded |-> cache[p].loaded, settled |-> cache[p].settled]
    BY <1>2 DEF NoCache
  <2>. QED
    BY <1>1, <2>1, <2>2, <2>3, ContentAssumption DEF Shapes
<1>4. TodoInv /\ GraphInv
  BY <1>2 DEF TodoInv, GraphInv, Looking, OfBuild, Held, Places, Programs
<1>5. CacheInv
  <2>1. \A p \in Programs : cache[p].snapshot = <<>> /\ cache[p].updates = <<>>
    BY <1>2 DEF NoCache
  <2>. QED
    BY <1>2, <2>1 DEF CacheInv, AllTrue
<1>6. BuildInv
  <2>1. pc["build"] = "idle"
    BY <1>2 DEF Programs
  <2>. QED
    BY <1>2, <2>1 DEF BuildInv, RecordInv, SourceInv, VerifyInv, CertInv, TruthInv, Held, Places, Looking, Good
<1>. QED
  BY <1>3, <1>4, <1>5, <1>6 DEF WarmInv

LEMMA StutterKeeps ==
  ASSUME WarmInv, UNCHANGED vars
  PROVE  WarmInv'
<1>1. Shapes /\ TodoInv /\ CacheInv /\ GraphInv /\ BuildInv
  BY DEF WarmInv
<1>2. /\ UNCHANGED <<manifest, disk, clock, env, values, journal, hashcache, store, certificate>>
      /\ UNCHANGED <<pc, call, graph, cache, todo, peek, seen, captured, moved>>
  BY DEF vars, world, persistent, running, counts
<1>3. Later
  BY <1>1, <1>2, QuietLater
<1>4. Shapes'
  BY <1>1, <1>2, <1>3, FilesIdentified DEF Shapes, StatOf
<1>5. TodoInv' /\ GraphInv'
  BY <1>1, <1>2 DEF TodoInv, GraphInv
<1>6. CacheInv'
  BY <1>1, <1>2, <1>3, CacheStays
<1>7. BuildInv'
  BY <1>2, <1>3, OutsideKeeps DEF BuildRests
<1>. QED
  BY <1>4, <1>5, <1>6, <1>7 DEF WarmInv

LEMMA EveryStepKeeps ==
  ASSUME WarmInv, [Next]_vars
  PROVE  WarmInv'
<1>1. ASSUME NEW p \in Programs, Work(p)
      PROVE  WarmInv'
  BY <1>1, LoadGraphKeeps, CompileKeeps, LoadHashCacheKeeps, HashFileKeeps, LookAtKeeps, SaveKeeps,
     AppendFrameKeeps, ReplaceCacheKeeps, CertifyKeeps, WriteCertificateKeeps, DecideKeeps,
     CheckOutputKeeps, RunKeeps, RecordKeeps DEF Work
<1>. QED
  BY <1>1, StartKeeps, CrashKeeps, EditsKeep, StutterKeeps DEF Next

-----------------------------------------------------------------------------
\* The invariant of the warm path: identities are given once, the hash cache and the
\* graph store say what the files and the manifest say, and a certificate is of a
\* recorded result that was verified after the identities it lists were read.
THEOREM WarmInvHolds == Spec => []WarmInv
<1>1. Init => WarmInv
  BY InitHolds
<1>2. WarmInv /\ [Next]_vars => WarmInv'
  BY EveryStepKeeps
<1>. QED
  BY <1>1, <1>2, PTL DEF Spec

\* Whatever is edited, torn or raced for, a digest that the hash cache gives for a file
\* as it is, on disk or in a program, is that of its bytes, and a graph that would be
\* served without a manifest is the manifest's (HashCache, GraphStore).
THEOREM CachesAlwaysTellTruth == Spec => []CachesTellTruth
<1>1. ASSUME WarmInv
      PROVE  CachesTellTruth
  <2>1. CacheInv /\ GraphInv
    BY <1>1 DEF WarmInv
  <2>2. hashcache # None => AllTrue(Decode(hashcache.frames))
    BY <2>1, DecodedIsTrue DEF CacheInv
  <2>3. \A p \in Programs : AllTrue(cache[p].snapshot) /\ AllTrue(cache[p].updates)
    BY <2>1 DEF CacheInv
  <2>4. CacheTellsTruth
    BY <2>2, <2>3 DEF CacheTellsTruth, AllTrue, Identifies
  <2>5. WarmGraphIsCurrent
    BY <2>1 DEF WarmGraphIsCurrent, SourcesCurrent, GraphInv
  <2>. QED
    BY <2>4, <2>5 DEF CachesTellTruth
<1>. QED
  BY <1>1, WarmInvHolds, PTL

\* A build that ends well, by the engine or by the certificate, leaves the output that
\* the manifest, the environment, stamp values and the source make, if nothing was
\* touched since it started ("the certificate never makes a changed build look current").
THEOREM UpToDateIsAlwaysTrue == Spec => []UpToDateIsTrue
<1>1. ASSUME WarmInv
      PROVE  UpToDateIsTrue
  <2>1. TruthInv
    BY <1>1 DEF WarmInv, BuildInv
  <2>. QED
    BY <2>1 DEF TruthInv, UpToDateIsTrue, Good
<1>. QED
  BY <1>1, WarmInvHolds, PTL
=============================================================================

-------------------------- MODULE ActionBodyProofs --------------------------
(***************************************************************************)
(* What builds leave in the workspace, proved for every action graph, every *)
(* command and every history of edits, crashes and losses: RecordsAreTrue   *)
(* and CleanBuildHolds.  BodyInv is the inductive invariant.                *)
(***************************************************************************)
EXTENDS ActionBody, FiniteSetTheorems, WellFoundedInduction, NaturalsInduction, TLAPS

\* Where an action gathers digests, runs its command or reports on it.
Working == {"hashing", "running", "report", "record"}
Started == {"running", "report", "record"}
Good == {"cached", "executed"}

IsMap(m) == m = [f \in DOMAIN m |-> m[f]]

\* Digest v was the content of f, and is still unless the source was edited since.
Agrees(f, v) ==
  \/ v = disk[f]
  \/ racing /\ ~quiet /\ f \in Sources /\ v \in Versions /\ v <= disk[f]

\* The maps, action by action and file by file.
ShapeInv ==
  /\ DOMAIN disk = Files /\ DOMAIN settled = Files /\ DOMAIN seen = Files
  /\ Recorded \subseteq Actions /\ DOMAIN inputs = Actions /\ DOMAIN view = Actions
  /\ DOMAIN phase = Actions /\ DOMAIN verdict = Actions
  /\ pc \in {"off", "preflight", "build"}
  /\ \A a \in Actions :
       /\ phase[a] \in {"waiting", "hashing", "running", "report", "record", "done"}
       /\ verdict[a] \in {None, "cached", "executed", "failed", "skipped"}
       /\ phase[a] = "done" <=> verdict[a] # None
       /\ IsMap(inputs[a]) /\ IsMap(view[a])
       /\ phase[a] \notin Working => inputs[a] = Empty
       /\ phase[a] \notin Started => view[a] = Empty
  /\ pc # "build" => phase = Idle /\ settled = Unseen
  /\ pc # "preflight" => seen = Unseen
  /\ clean \in BOOLEAN /\ quiet \in BOOLEAN /\ racing \in BOOLEAN

\* Only a racing history edits sources under a build.
QuietInv == pc # "off" /\ (clean \/ ~racing) => quiet

\* What is on disk, digested or expected of each file.
DigestInv ==
  /\ \A f \in Sources : disk[f] \in Versions \/ (~racing /\ disk[f] = Missing)
  /\ \A f \in Files : settled[f] # Missing
  /\ \A f \in Files : settled[f] # None => Agrees(f, settled[f])
  /\ pc = "preflight" => \A f \in Files : seen[f] # None => Agrees(f, seen[f])
  /\ \A a \in Actions : \A f \in DOMAIN inputs[a] : Agrees(f, inputs[a][f])
  /\ \A a \in Actions : \A f \in DOMAIN view[a] : Agrees(f, view[a][f])

\* The scheduler's order, and what it lets an action rely on.
OrderInv ==
  \A a \in Actions : \A b \in ProducersOf(a) :
    /\ phase[a] # "waiting" => phase[b] = "done"
    /\ phase[a] \in Working => verdict[b] \in Good

\* What an action has gathered so far.
GatherInv ==
  \A a \in Actions :
    /\ phase[a] = "hashing" => DOMAIN inputs[a] \subseteq Wanted(a)
    /\ phase[a] = "running" => DOMAIN inputs[a] = Wanted(a)
    /\ phase[a] = "report" => /\ Declared[a] \subseteq DOMAIN inputs[a]
                              /\ DOMAIN inputs[a] \subseteq DOMAIN view[a]
    /\ phase[a] = "record" => DOMAIN inputs[a] = DOMAIN view[a]
    /\ DOMAIN view[a] \subseteq WaitsFor(a) \cup Sources

\* The command: what it reads, against what was gathered, and what it writes.
CommandInv ==
  \A a \in Actions :
    /\ \A f \in DOMAIN view[a] : view[a][f] \notin {Missing, Garbage}
    /\ \A f \in DOMAIN view[a] \cap Sources : view[a][f] \in Versions
    /\ phase[a] = "running" => \A f \in Outputs[a] : settled[f] = None
    /\ phase[a] \in {"report", "record"} =>
         /\ Reads(a, view[a]) = DOMAIN view[a]
         /\ \A f \in Outputs[a] : disk[f] = Makes(a, f, view[a])

\* In a racing history a file read may be younger than its digest, never older.
RaceInv ==
  racing => \A a \in Actions : \A f \in DOMAIN view[a] \cap Sources :
    /\ f \in DOMAIN inputs[a] => inputs[a][f] \in Versions /\ inputs[a][f] <= view[a][f]
    /\ phase[a] \in {"running", "report"} =>
         IF settled[f] = None THEN view[a][f] = disk[f]
         ELSE settled[f] \in Versions /\ settled[f] <= view[a][f]

\* The record of a is of the workspace as it is.
Fresh(a) ==
  /\ a \in Recorded
  /\ \A f \in Declared[a] \cup Entry(a).discovered : Entry(a).inputs[f] = disk[f]
  /\ \A f \in Outputs[a] : Entry(a).outputs[f] = disk[f]

\* A record is of one run of the command: of what it read, w, which is what the record
\* claims unless a source was edited meanwhile.
TrueOf(a, w) ==
  /\ DOMAIN w = DOMAIN Entry(a).inputs /\ Reads(a, w) = DOMAIN w /\ IsMap(w)
  /\ \A f \in Outputs[a] : Entry(a).outputs[f] = Makes(a, f, w)
  /\ \A f \in DOMAIN w :
       /\ w[f] # Missing
       /\ \/ Entry(a).inputs[f] = w[f]
          \/ /\ racing /\ f \in Sources /\ {Entry(a).inputs[f], w[f]} \subseteq Versions
             /\ Entry(a).inputs[f] <= w[f] /\ w[f] <= disk[f]

\* Every record has the shape Wanted and Matches expect.
EntryInv ==
  /\ \A a \in Recorded :
       /\ DOMAIN Entry(a).inputs = Declared[a] \cup Entry(a).discovered
       /\ IsMap(Entry(a).inputs) /\ Entry(a).discovered \subseteq WaitsFor(a) \cup Sources
       /\ \A f \in Outputs[a] : Entry(a).outputs[f] # Garbage
  /\ Garbage \notin cas

TruthInv == \A a \in Recorded : \E w : TrueOf(a, w)

\* What a finished action leaves, and a build nobody disturbed.
VerdictInv ==
  /\ \A a \in Actions : verdict[a] \in Good =>
       /\ \A f \in Outputs[a] : disk[f] # Garbage
       /\ quiet => Fresh(a)
  /\ clean => \A a \in Actions : Fresh(a) /\ phase[a] \notin Started

BodyInv ==
  /\ ShapeInv /\ QuietInv /\ DigestInv /\ OrderInv /\ GatherInv /\ CommandInv /\ RaceInv
  /\ EntryInv /\ TruthInv /\ VerdictInv

-----------------------------------------------------------------------------
(* Files and who writes them.                                               *)

\* A command writes contents, never the mark of a half-written file.
CommandsWriteContents == \A a, f, m : Makes(a, f, m) # Garbage

\* An output has one producer and is no source.
LEMMA Ownership ==
  /\ \A a \in Actions : Outputs[a] \subseteq Files /\ Outputs[a] \cap Sources = {}
  /\ \A a \in Actions : Declared[a] \subseteq WaitsFor(a) /\ WaitsFor(a) \subseteq Files
  /\ \A a, b \in Actions : a # b => Outputs[a] \cap Outputs[b] = {}
  /\ Sources \subseteq Files
BY GraphAssumption DEF WaitsFor, Files, Generated

\* Nobody past "waiting" waits for an output of an action that is not done.
LEMMA WrittenIsUnread ==
  ASSUME OrderInv, NEW a \in Actions, phase[a] # "done", NEW b \in Actions, phase[b] # "waiting"
  PROVE  Outputs[a] \cap WaitsFor(b) = {}
BY DEF OrderInv, ProducersOf

\* What an action gathers and reads it waited for, or is a source.
LEMMA GatheredIsReadable ==
  ASSUME ShapeInv, GatherInv, EntryInv, NEW a \in Actions
  PROVE  /\ DOMAIN inputs[a] \subseteq WaitsFor(a) \cup Sources
         /\ DOMAIN view[a] \subseteq WaitsFor(a) \cup Sources
         /\ phase[a] = "hashing" => Wanted(a) \subseteq WaitsFor(a) \cup Sources
<1>1. Wanted(a) \subseteq WaitsFor(a) \cup Sources
  BY Ownership DEF EntryInv, Recorded, Wanted
<1>2. DOMAIN view[a] \subseteq WaitsFor(a) \cup Sources
  BY DEF GatherInv
<1>3. phase[a] \notin Working => DOMAIN inputs[a] = {}
  BY DEF ShapeInv, Empty
<1>4. phase[a] \in Working => DOMAIN inputs[a] \subseteq WaitsFor(a) \cup Sources
  BY <1>1, <1>2 DEF GatherInv, Working
<1>. QED
  BY <1>1, <1>2, <1>3, <1>4

\* Hence neither is written while the writer is at work.
LEMMA WrittenIsUngathered ==
  ASSUME ShapeInv, OrderInv, GatherInv, EntryInv, NEW a \in Actions, phase[a] # "done",
         NEW b \in Actions
  PROVE  Outputs[a] \cap DOMAIN inputs[b] = {} /\ Outputs[a] \cap DOMAIN view[b] = {}
<1>1. CASE phase[b] = "waiting"
  BY <1>1 DEF ShapeInv, Working, Started, Empty
<1>2. CASE phase[b] # "waiting"
  BY <1>2, WrittenIsUnread, GatheredIsReadable, Ownership
<1>. QED
  BY <1>1, <1>2

\* A digest is of a file there is, and is the content settled for it or on disk.
LEMMA DigestAgrees ==
  ASSUME DigestInv, NEW f \in Files
  PROVE  Agrees(f, Digest(f))
BY DEF DigestInv, Digest, Agrees

-----------------------------------------------------------------------------
(* The maps keep their shape.                                               *)

\* A map with one more entry.
LEMMA WithIsMap ==
  ASSUME NEW m, NEW f, NEW v
  PROVE  /\ IsMap(With(m, f, v)) /\ DOMAIN With(m, f, v) = DOMAIN m \cup {f}
         /\ With(m, f, v)[f] = v /\ \A g \in DOMAIN m \ {f} : With(m, f, v)[g] = m[g]
BY DEF With, IsMap

\* Writing reaches the files written and no other.
LEMMA EmptyIsMap == IsMap(Empty) /\ DOMAIN Empty = {}
BY DEF Empty, IsMap

\* The steps of one action keep the maps' shape.
LEMMA ShapeActionStep ==
  ASSUME ShapeInv, NEW a \in Actions, ActionStep(a)
  PROVE  ShapeInv'
<1>. USE DEF store, process, history, Working, Started, Recorded
<1>1. CASE Enter(a)
  <2>1. phase[a] = "waiting" /\ UNCHANGED <<disk, journal, pc, seen, settled, inputs, view, clean,
                                            quiet, racing>> /\ pc = "build"
    BY <1>1 DEF Enter
  <2>2. \/ phase' = [phase EXCEPT ![a] = "done"] /\ verdict' = [verdict EXCEPT ![a] = "skipped"]
        \/ phase' = [phase EXCEPT ![a] = "hashing"] /\ verdict' = verdict
    BY <1>1 DEF Enter
  <2>. QED
    BY <2>1, <2>2, ContentAssumption DEF ShapeInv
<1>2. ASSUME NEW f \in Files, HashInput(a, f)
      PROVE  ShapeInv'
  <2>1. \A b \in Actions : IsMap(inputs'[b]) /\ (b # a => inputs'[b] = inputs[b])
    BY <1>2, WithIsMap DEF HashInput, ShapeInv
  <2>2. DOMAIN inputs' = Actions /\ DOMAIN settled' = Files
    BY <1>2 DEF HashInput, Settle, ShapeInv
  <2>3. UNCHANGED <<disk, journal, pc, seen, phase, verdict, view, clean, quiet, racing>>
        /\ phase[a] = "hashing" /\ pc = "build"
    BY <1>2 DEF HashInput, ShapeInv, Idle
  <2>. QED
    BY <2>1, <2>2, <2>3 DEF ShapeInv
<1>3. CASE Hit(a) \/ Restore(a) \/ Refuse(a) \/ CommandFails(a) \/ RecordEntry(a)
            \/ BookkeepingFails(a)
  <2>1. phase[a] \in Working /\ pc = "build"
    BY <1>3
    DEF Hit, Restore, Refuse, CommandFails, RecordEntry, BookkeepingFails, Decided, ShapeInv, Idle
  <2>2. PICK v \in {"cached", "executed", "failed"} : Done(a, v)
    BY <1>3 DEF Hit, Restore, Refuse, CommandFails, RecordEntry, BookkeepingFails
  <2>3. UNCHANGED <<pc, seen, clean, quiet, racing>>
    BY <1>3 DEF Hit, Restore, Refuse, CommandFails, RecordEntry, BookkeepingFails
  <2>4. DOMAIN disk' = Files /\ DOMAIN settled' = Files /\ DOMAIN journal' \subseteq Actions
    BY <1>3
    DEF Hit, Restore, Refuse, CommandFails, RecordEntry, BookkeepingFails, Writing, Looked,
        Invalidated, With, ShapeInv
  <2>5. /\ phase' = [phase EXCEPT ![a] = "done"]
        /\ verdict' = [verdict EXCEPT ![a] = v] /\ v # None
        /\ inputs' = [inputs EXCEPT ![a] = Empty]
        /\ view' = [view EXCEPT ![a] = Empty]
    BY <2>2, ContentAssumption DEF Done
  <2>6. \A b \in Actions : IsMap(inputs'[b]) /\ IsMap(view'[b])
    BY <2>5, EmptyIsMap DEF ShapeInv
  <2>7. \A b \in Actions \ {a} : /\ phase'[b] = phase[b] /\ verdict'[b] = verdict[b]
                                 /\ inputs'[b] = inputs[b] /\ view'[b] = view[b]
    BY <2>5 DEF ShapeInv
  <2>8. phase'[a] = "done" /\ verdict'[a] = v /\ inputs'[a] = Empty /\ view'[a] = Empty
        /\ DOMAIN phase' = Actions /\ DOMAIN verdict' = Actions /\ DOMAIN inputs' = Actions
        /\ DOMAIN view' = Actions
    BY <2>5 DEF ShapeInv
  <2>. QED
    BY <2>1, <2>3, <2>4, <2>5, <2>6, <2>7, <2>8 DEF ShapeInv
<1>4. CASE Spawn(a) \/ CommandSucceeds(a) \/ Publish(a)
  <2>1. phase[a] \in Working /\ pc = "build"
    BY <1>4 DEF Spawn, CommandSucceeds, Publish, Decided, ShapeInv, Idle
  <2>2. UNCHANGED <<journal, pc, seen, verdict, view, clean, quiet, racing>>
    BY <1>4 DEF Spawn, CommandSucceeds, Publish
  <2>3. DOMAIN disk' = Files /\ DOMAIN settled' = Files
    BY <1>4 DEF Spawn, CommandSucceeds, Publish, Writing, Invalidated, ShapeInv
  <2>4. \E v \in Started : phase' = [phase EXCEPT ![a] = v]
    BY <1>4 DEF Spawn, CommandSucceeds, Publish
  <2>5. inputs' = inputs \/ inputs' = [inputs EXCEPT ![a] = KeptInputs(a)]
    BY <1>4 DEF Spawn, CommandSucceeds, Publish
  <2>6. IsMap(KeptInputs(a))
    BY DEF IsMap, KeptInputs
  <2>. QED
    BY <2>1, <2>2, <2>3, <2>4, <2>5, <2>6 DEF ShapeInv
<1>5. ASSUME NEW f \in Files, ReadFile(a, f)
      PROVE  ShapeInv'
  <2>1. \A b \in Actions : IsMap(view'[b]) /\ (b # a => view'[b] = view[b])
    BY <1>5, WithIsMap DEF ReadFile, ShapeInv
  <2>2. UNCHANGED <<disk, journal, pc, seen, settled, phase, verdict, inputs, clean, quiet, racing>>
        /\ phase[a] = "running" /\ DOMAIN view' = Actions
    BY <1>5 DEF ReadFile, ShapeInv
  <2>. QED
    BY <2>1, <2>2 DEF ShapeInv
<1>6. ASSUME NEW f \in Files, HashReported(a, f)
      PROVE  ShapeInv'
  <2>1. \A b \in Actions : IsMap(inputs'[b]) /\ (b # a => inputs'[b] = inputs[b])
    BY <1>6, WithIsMap DEF HashReported, ShapeInv
  <2>2. DOMAIN inputs' = Actions /\ DOMAIN settled' = Files
    BY <1>6 DEF HashReported, Settle, ShapeInv
  <2>3. UNCHANGED <<disk, journal, pc, seen, phase, verdict, view, clean, quiet, racing>>
        /\ phase[a] = "report" /\ pc = "build"
    BY <1>6 DEF HashReported, ShapeInv, Idle
  <2>. QED
    BY <2>1, <2>2, <2>3 DEF ShapeInv
<1>. QED
  BY <1>1, <1>2, <1>3, <1>4, <1>5, <1>6 DEF ActionStep

\* Nothing is gathered and nobody has a verdict when no build runs.
LEMMA ForgetShapes ==
  ASSUME ShapeInv, Forget, DOMAIN disk' = Files, UNCHANGED <<journal, racing>>,
         clean' \in BOOLEAN, quiet' \in BOOLEAN
  PROVE  ShapeInv'
BY EmptyIsMap
DEF Forget, Idle, NoMaps, NoVerdicts, Unseen, Working, Started, Recorded, ShapeInv

\* So does every other step.
LEMMA ShapeStep == ShapeInv /\ [Next]_vars => ShapeInv'
<1>. SUFFICES ASSUME ShapeInv, [Next]_vars
              PROVE  ShapeInv'
  OBVIOUS
<1>. USE DEF store, process, history, Working, Started, Recorded
<1>1. CASE Start
  BY <1>1 DEF Start, ShapeInv
<1>2. CASE Sample
  BY <1>2 DEF Sample, ShapeInv
<1>3. CASE Certify
  <2>1. phase = Idle /\ \A b \in Actions : phase[b] = "waiting"
    BY <1>3 DEF Certify, ShapeInv, Idle
  <2>2. DOMAIN seen' = Files /\ seen' = Unseen
    BY <1>3 DEF Certify, Unseen
  <2>3. \A b \in Actions :
          \/ phase'[b] = "done" /\ verdict'[b] = "cached"
          \/ phase'[b] = "waiting" /\ verdict'[b] = None
    BY <1>3 DEF Certify
  <2>4. DOMAIN phase' = Actions /\ DOMAIN verdict' = Actions /\ pc' = "build"
        /\ UNCHANGED <<disk, journal, settled, inputs, view, clean, quiet, racing>>
    BY <1>3 DEF Certify
  <2>. QED
    BY <2>1, <2>2, <2>3, <2>4, ContentAssumption DEF ShapeInv
<1>4. CASE PreflightFails
  BY <1>4 DEF PreflightFails, ShapeInv, Unseen
<1>5. CASE \E a \in Actions : ActionStep(a)
  BY <1>5, ShapeActionStep
<1>6. CASE Finish
  <2>1. clean' \in BOOLEAN /\ quiet' \in BOOLEAN /\ Forget /\ UNCHANGED <<disk, journal, racing>>
    BY <1>6 DEF Finish, ShapeInv
  <2>. QED
    BY <2>1, ForgetShapes DEF ShapeInv
<1>7. CASE Crash
  <2>1. clean' \in BOOLEAN /\ quiet' \in BOOLEAN /\ Forget /\ UNCHANGED <<journal, racing>>
        /\ DOMAIN disk' = Files
    BY <1>7 DEF Crash, Writing, ShapeInv
  <2>. QED
    BY <2>1, ForgetShapes
<1>8. ASSUME NEW f \in Sources, Edit(f)
      PROVE  ShapeInv'
  BY <1>8 DEF Edit, ShapeInv
<1>9. CASE Lose
  BY <1>9 DEF Lose, ShapeInv
<1>10. CASE UNCHANGED vars
  BY <1>10 DEF vars, ShapeInv
<1>. QED
  BY <1>1, <1>2, <1>3, <1>4, <1>5, <1>6, <1>7, <1>8, <1>9, <1>10 DEF Next

-----------------------------------------------------------------------------
(* What one action's steps touch.                                           *)

\* An action moves itself and writes its own outputs, during a build.
LEMMA ActionLocal ==
  ASSUME ShapeInv, NEW a \in Actions, ActionStep(a)
  PROVE  /\ pc = "build" /\ UNCHANGED <<pc, seen, clean, quiet, racing>>
         /\ phase[a] # "done" /\ phase'[a] # "waiting"
         /\ \A b \in Actions \ {a} :
              /\ phase'[b] = phase[b] /\ verdict'[b] = verdict[b]
              /\ (b \in Recorded)' <=> b \in Recorded
              /\ b \in Recorded => Entry(b)' = Entry(b)
              /\ inputs'[b] = inputs[b] /\ view'[b] = view[b]
         /\ \A f \in Files \ Outputs[a] : disk'[f] = disk[f]
<1>. USE DEF store, process, history, Recorded, Entry
<1>1. CASE Enter(a)
  BY <1>1 DEF Enter, ShapeInv
<1>2. CASE \E f \in Files : HashInput(a, f) \/ ReadFile(a, f) \/ HashReported(a, f)
  BY <1>2 DEF HashInput, ReadFile, HashReported, ShapeInv, Idle
<1>3. CASE Hit(a) \/ Restore(a) \/ Refuse(a)
  BY <1>3 DEF Hit, Restore, Refuse, Decided, Done, Writing, ShapeInv, Idle
<1>4. CASE Spawn(a) \/ CommandSucceeds(a) \/ CommandFails(a)
  BY <1>4 DEF Spawn, CommandSucceeds, CommandFails, Decided, Done, Writing, ShapeInv, Idle
<1>5. CASE Publish(a) \/ RecordEntry(a) \/ BookkeepingFails(a)
  BY <1>5 DEF Publish, RecordEntry, BookkeepingFails, Done, With, ShapeInv, Idle
<1>. QED
  BY <1>1, <1>2, <1>3, <1>4, <1>5 DEF ActionStep

\* In particular no source.
LEMMA ActionKeepsSources ==
  ASSUME ShapeInv, NEW a \in Actions, ActionStep(a)
  PROVE  \A f \in Sources : disk'[f] = disk[f]
BY ActionLocal, Ownership

\* A digest is settled as what was on disk, and forgotten only before it is written.
LEMMA ActionSettles ==
  ASSUME ShapeInv, DigestInv, NEW a \in Actions, ActionStep(a), NEW f \in Files
  PROVE  \/ settled'[f] = settled[f] /\ (f \in Outputs[a] =>
                disk'[f] = disk[f] \/ phase[a] = "running")
         \/ settled'[f] = None /\ f \in Outputs[a]
         \/ settled'[f] = Digest(f) /\ Digest(f) # Missing /\ disk'[f] = disk[f]
<1>. USE DEF store, process, history
<1>1. CASE Enter(a)
  BY <1>1 DEF Enter
<1>2. ASSUME NEW g \in Files, HashInput(a, g) \/ HashReported(a, g)
      PROVE  \/ settled'[f] = settled[f] /\ disk'[f] = disk[f]
             \/ settled'[f] = Digest(f) /\ Digest(f) # Missing /\ disk'[f] = disk[f]
  <2>1. settled' = [settled EXCEPT ![g] = IF Digest(g) = Missing THEN None ELSE Digest(g)]
        /\ disk' = disk
    BY <1>2 DEF HashInput, HashReported, Settle
  <2>2. Digest(g) = Missing => settled[g] = None
    BY DEF Digest, DigestInv
  <2>. QED
    BY <2>1, <2>2 DEF ShapeInv
<1>3. CASE \E g \in Files : ReadFile(a, g)
  BY <1>3 DEF ReadFile
<1>4. CASE Hit(a)
  BY <1>4 DEF Hit, Looked
<1>5. CASE Restore(a) \/ Spawn(a)
  BY <1>5 DEF Restore, Spawn, Looked, Invalidated, Writing
<1>6. CASE CommandSucceeds(a) \/ CommandFails(a)
  BY <1>6 DEF CommandSucceeds, CommandFails, Writing
<1>7. CASE Refuse(a) \/ RecordEntry(a) \/ BookkeepingFails(a)
  BY <1>7 DEF Refuse, RecordEntry, BookkeepingFails
<1>8. CASE Publish(a)
  BY <1>8 DEF Publish
<1>. QED
  BY <1>1, <1>2, <1>3, <1>4, <1>5, <1>6, <1>7, <1>8 DEF ActionStep

-----------------------------------------------------------------------------
(* The order of the actions.                                                *)

\* Whoever is certified waits for certified actions only.
LEMMA CertifiedTogether ==
  /\ \A a \in Certified : a \in Actions /\ Matches(a)
  /\ \A a \in Certified : ProducersOf(a) \subseteq Certified
<1>1. ASSUME NEW a \in Certified
      PROVE  a \in Actions /\ Matches(a) /\ ProducersOf(a) \subseteq Certified
  <2>1. PICK S \in SUBSET {b \in Actions : Matches(b)} :
          a \in S /\ \A b \in S : ProducersOf(b) \subseteq S
    BY DEF Certified
  <2>2. S \subseteq Certified
    BY <2>1 DEF Certified
  <2>. QED
    BY <2>1, <2>2
<1>. QED
  BY <1>1

\* An action starts when its producers are done, and works only on good ones.
LEMMA OrderStep == ShapeInv /\ OrderInv /\ [Next]_vars => OrderInv'
<1>. SUFFICES ASSUME ShapeInv, OrderInv, [Next]_vars
              PROVE  OrderInv'
  OBVIOUS
<1>. USE DEF store, process, history
<1>0. \A a \in Actions : ProducersOf(a) \subseteq Actions
  BY DEF ProducersOf
<1>1. CASE UNCHANGED <<phase, verdict>>
  BY <1>1 DEF OrderInv
<1>2. CASE Certify
  <2>1. \A b \in Actions : phase'[b] = IF b \in Certified THEN "done" ELSE "waiting"
    BY <1>2 DEF Certify
  <2>. QED
    BY <1>0, <2>1, CertifiedTogether DEF OrderInv, Working
<1>3. CASE Forget
  BY <1>3 DEF Forget, Idle, OrderInv, Working
<1>4. ASSUME NEW a \in Actions, ActionStep(a)
      PROVE  OrderInv'
  <2>1. phase[a] # "done" /\ \A b \in Actions \ {a} : phase'[b] = phase[b] /\ verdict'[b] = verdict[b]
    BY <1>4, ActionLocal
  <2>2. ASSUME NEW b \in Actions \ {a}, NEW p \in ProducersOf(b)
        PROVE  /\ phase'[b] # "waiting" => phase'[p] = "done"
               /\ phase'[b] \in Working => verdict'[p] \in Good
    BY <1>0, <2>1, <2>2 DEF OrderInv, Working
  <2>3. CASE Enter(a)
    <3>1. \A p \in ProducersOf(a) : p # a /\ phase[p] = "done"
      BY <2>3 DEF Enter
    <3>2. phase'[a] \in Working => \A p \in ProducersOf(a) : verdict[p] \notin {"failed", "skipped"}
      BY <2>3 DEF Enter, ShapeInv, Working
    <3>3. \A p \in ProducersOf(a) : verdict[p] \in {"cached", "executed", "failed", "skipped"}
      BY <1>0, <3>1 DEF ShapeInv
    <3>. QED
      BY <1>0, <2>1, <2>2, <3>1, <3>2, <3>3 DEF OrderInv, Good
  <2>4. CASE ~Enter(a)
    <3>1. phase[a] \in Working
      BY <1>4, <2>4
      DEF ActionStep, HashInput, ReadFile, HashReported, Hit, Restore, Refuse, Spawn, Decided,
          CommandSucceeds, CommandFails, Publish, RecordEntry, BookkeepingFails, Working
    <3>2. \A p \in ProducersOf(a) : p # a /\ phase[p] = "done" /\ verdict[p] \in Good
      BY <2>1, <3>1 DEF OrderInv, Working
    <3>. QED
      BY <1>0, <2>1, <2>2, <3>2 DEF OrderInv
  <2>. QED
    BY <2>3, <2>4
<1>. QED
  BY <1>1, <1>2, <1>3, <1>4 DEF Next, Start, Sample, PreflightFails, Finish, Crash, Edit, Lose, vars

-----------------------------------------------------------------------------
(* Digests and what they are digests of.                                    *)

\* Nobody edits under a quiet build.
LEMMA QuietStep == ShapeInv /\ QuietInv /\ [Next]_vars => QuietInv'
<1>. SUFFICES ASSUME ShapeInv, QuietInv, [Next]_vars
              PROVE  QuietInv'
  OBVIOUS
<1>. USE DEF store, process, history
<1>1. ASSUME NEW a \in Actions, ActionStep(a)
      PROVE  QuietInv'
  BY <1>1, ActionLocal DEF QuietInv, ActionStep, Enter, HashInput, ReadFile, HashReported, Hit,
     Restore, Refuse, Spawn, CommandSucceeds, CommandFails, Publish, RecordEntry, BookkeepingFails
<1>2. CASE Start \/ Finish \/ Crash
  BY <1>2 DEF Start, Finish, Crash, Forget, QuietInv
<1>3. CASE Sample \/ Certify \/ PreflightFails
  BY <1>3 DEF Sample, Certify, PreflightFails, QuietInv
<1>4. ASSUME NEW f \in Sources, Edit(f)
      PROVE  QuietInv'
  BY <1>4 DEF Edit, MayEdit, QuietInv
<1>5. CASE Lose \/ UNCHANGED vars
  BY <1>5 DEF Lose, vars, QuietInv
<1>. QED
  BY <1>1, <1>2, <1>3, <1>4, <1>5 DEF Next

\* The next version of a source is a number, and no mark.
LEMMA VersionsAreNumbers ==
  ASSUME NEW v \in Versions
  PROVE  /\ v \in Nat /\ v <= v /\ v # Missing /\ v # Garbage /\ v # None
         /\ v + 1 # Missing
<1>1. v \in Nat /\ v + 1 \in Nat
  BY ContentAssumption
<1>. QED
  BY <1>1, ContentAssumption

\* Agreement after a step, with a digest given by its value.
AgreesNext(f, v) ==
  \/ v = disk'[f]
  \/ racing' /\ ~quiet' /\ f \in Sources /\ v \in Versions /\ v <= disk'[f]

\* A digest that agreed does so after a step that left its file alone.
LEMMA AgreesStill ==
  ASSUME NEW f, NEW v, Agrees(f, v), disk'[f] = disk[f], racing' <=> racing, quiet' => quiet
  PROVE  AgreesNext(f, v)
BY DEF Agrees, AgreesNext

\* Editing a source under a build leaves its digests older, not wrong.
LEMMA AgreesAfterEdit ==
  ASSUME ShapeInv, DigestInv, NEW g \in Sources, Edit(g), pc # "off", NEW f \in Files, NEW v,
         Agrees(f, v)
  PROVE  AgreesNext(f, v)
<1>1. racing /\ racing' /\ ~quiet'
  BY DEF Edit, MayEdit, history
<1>2. disk[g] \in Versions /\ disk'[g] \in Versions /\ disk'[g] = disk[g] + 1
  <2>1. disk[g] \in Versions
    BY <1>1 DEF DigestInv
  <2>2. PICK w \in NewContents(g) : disk' = [disk EXCEPT ![g] = w]
    BY DEF Edit
  <2>3. w \in Versions \cup {Missing} /\ w = disk[g] + 1
    BY <1>1, <2>2 DEF NewContents
  <2>4. w # Missing
    BY <2>1, <2>3, VersionsAreNumbers
  <2>. QED
    BY <2>1, <2>2, <2>3, <2>4, Ownership DEF ShapeInv
<1>3. CASE f = g
  <2>1. disk[g] \in Nat /\ disk[g] <= disk[g]
    BY <1>2, VersionsAreNumbers
  <2>2. v \in Versions /\ v <= disk[g]
    BY <1>2, <1>3, <2>1 DEF Agrees
  <2>3. v \in Nat
    BY <2>2, VersionsAreNumbers
  <2>4. v <= disk'[g]
    BY <1>2, <2>1, <2>2, <2>3
  <2>. QED
    BY <1>1, <1>3, <2>2, <2>4 DEF AgreesNext
<1>4. CASE f # g
  <2>1. disk'[f] = disk[f]
    BY <1>4 DEF Edit, ShapeInv
  <2>. QED
    BY <1>1, <2>1, AgreesStill
<1>. QED
  BY <1>3, <1>4

\* What every file holds and what is known of it, after a step of one action.
LEMMA DigestActionStep ==
  ASSUME ShapeInv, DigestInv, OrderInv, GatherInv, CommandInv, EntryInv,
         NEW a \in Actions, ActionStep(a)
  PROVE  DigestInv'
<1>0. /\ pc' = "build" /\ (racing' <=> racing) /\ (quiet' => quiet) /\ phase[a] # "done"
      /\ \A b \in Actions \ {a} : inputs'[b] = inputs[b] /\ view'[b] = view[b]
      /\ \A f \in Files \ Outputs[a] : disk'[f] = disk[f]
  BY ActionLocal
<1>1. \A f \in Sources : disk'[f] \in Versions \/ (~racing' /\ disk'[f] = Missing)
  <2>1. \A f \in Sources : disk'[f] = disk[f]
    BY ActionKeepsSources
  <2>. QED
    BY <1>0, <2>1 DEF DigestInv
<1>2. ASSUME NEW f \in Files
      PROVE  settled'[f] # Missing /\ (settled'[f] # None => AgreesNext(f, settled'[f]))
  <2>1. CASE settled'[f] = None
    BY <2>1, ContentAssumption
  <2>2. CASE settled'[f] = settled[f] /\ settled[f] # None
    <3>1. settled[f] # Missing /\ Agrees(f, settled[f])
      BY <2>2 DEF DigestInv
    <3>2. f \in Outputs[a] => phase[a] # "running"
      BY <2>2 DEF CommandInv
    <3>3. disk'[f] = disk[f]
      <4>1. CASE f \in Outputs[a]
        BY <2>2, <3>1, <3>2, <4>1, ActionSettles
      <4>2. CASE f \notin Outputs[a]
        BY <1>0, <4>2
      <4>. QED
        BY <4>1, <4>2
    <3>. QED
      BY <1>0, <2>2, <3>1, <3>3, AgreesStill
  <2>3. CASE settled'[f] = Digest(f) /\ Digest(f) # Missing /\ disk'[f] = disk[f]
    BY <1>0, <2>3, DigestAgrees, AgreesStill
  <2>. QED
    BY <2>1, <2>2, <2>3, ActionSettles
<1>3. \A b \in Actions : \A f \in DOMAIN inputs[b] \cup DOMAIN view[b] :
        f \in Files /\ disk'[f] = disk[f]
  <2>1. \A b \in Actions : DOMAIN inputs[b] \cup DOMAIN view[b] \subseteq Files \ Outputs[a]
    BY <1>0, GatheredIsReadable, WrittenIsUngathered, Ownership
  <2>. QED
    BY <1>0, <2>1
<1>4. \A b \in Actions : /\ \A f \in DOMAIN inputs[b] : AgreesNext(f, inputs[b][f])
                         /\ \A f \in DOMAIN view[b] : AgreesNext(f, view[b][f])
  <2>1. \A b \in Actions : /\ \A f \in DOMAIN inputs[b] : Agrees(f, inputs[b][f])
                           /\ \A f \in DOMAIN view[b] : Agrees(f, view[b][f])
    BY DEF DigestInv
  <2>. QED
    BY <1>0, <1>3, <2>1, AgreesStill
<1>5. \A f \in DOMAIN inputs'[a] : AgreesNext(f, inputs'[a][f])
  <2>1. CASE inputs'[a] = inputs[a]
    BY <1>4, <2>1
  <2>2. ASSUME NEW g \in Files, HashInput(a, g) \/ HashReported(a, g)
        PROVE  \A f \in DOMAIN inputs'[a] : AgreesNext(f, inputs'[a][f])
    <3>1. /\ DOMAIN inputs'[a] = DOMAIN inputs[a] \cup {g} /\ inputs'[a][g] = Digest(g)
          /\ \A f \in DOMAIN inputs[a] \ {g} : inputs'[a][f] = inputs[a][f]
          /\ disk' = disk
      BY <2>2 DEF HashInput, HashReported, With, ShapeInv
    <3>2. AgreesNext(g, Digest(g))
      BY <1>0, <3>1, DigestAgrees, AgreesStill
    <3>3. ASSUME NEW f \in DOMAIN inputs'[a]
          PROVE  AgreesNext(f, inputs'[a][f])
      <4>1. CASE f = g
        BY <3>1, <3>2, <4>1
      <4>2. CASE f # g
        <5>1. f \in DOMAIN inputs[a] /\ inputs'[a][f] = inputs[a][f]
          BY <3>1, <3>3, <4>2
        <5>. QED
          BY <1>4, <5>1
      <4>. QED
        BY <4>1, <4>2
    <3>. QED
      BY <3>3
  <2>3. CASE CommandSucceeds(a)
    <3>1. inputs'[a] = KeptInputs(a) /\ phase[a] = "running"
      BY <2>3 DEF CommandSucceeds, ShapeInv
    <3>2. Declared[a] \subseteq DOMAIN inputs[a]
      BY <3>1 DEF GatherInv, Wanted
    <3>. QED
      BY <1>4, <3>1, <3>2 DEF KeptInputs
  <2>4. CASE inputs'[a] = Empty
    BY <2>4, EmptyIsMap
  <2>. QED
    BY <2>1, <2>2, <2>3, <2>4
    DEF ActionStep, Enter, ReadFile, Hit, Restore, Refuse, Spawn, CommandFails, Publish, RecordEntry,
        BookkeepingFails, Done, ShapeInv, store, process, history
<1>6. \A f \in DOMAIN view'[a] : AgreesNext(f, view'[a][f])
  <2>1. CASE view'[a] = view[a]
    BY <1>4, <2>1
  <2>2. ASSUME NEW g \in Files, ReadFile(a, g)
        PROVE  \A f \in DOMAIN view'[a] : AgreesNext(f, view'[a][f])
    <3>1. /\ DOMAIN view'[a] = DOMAIN view[a] \cup {g} /\ view'[a][g] = disk[g]
          /\ \A f \in DOMAIN view[a] \ {g} : view'[a][f] = view[a][f]
          /\ disk' = disk
      BY <2>2 DEF ReadFile, With, ShapeInv
    <3>2. AgreesNext(g, disk[g])
      BY <3>1 DEF AgreesNext
    <3>3. ASSUME NEW f \in DOMAIN view'[a]
          PROVE  AgreesNext(f, view'[a][f])
      <4>1. CASE f = g
        BY <3>1, <3>2, <4>1
      <4>2. CASE f # g
        <5>1. f \in DOMAIN view[a] /\ view'[a][f] = view[a][f]
          BY <3>1, <3>3, <4>2
        <5>. QED
          BY <1>4, <5>1
      <4>. QED
        BY <4>1, <4>2
    <3>. QED
      BY <3>3
  <2>3. CASE view'[a] = Empty
    BY <2>3, EmptyIsMap
  <2>. QED
    BY <2>1, <2>2, <2>3
    DEF ActionStep, Enter, HashInput, HashReported, Hit, Restore, Refuse, Spawn, CommandSucceeds,
        CommandFails, Publish, RecordEntry, BookkeepingFails, Done, ShapeInv, store, process, history
<1>7. \A b \in Actions : /\ \A f \in DOMAIN inputs'[b] : AgreesNext(f, inputs'[b][f])
                         /\ \A f \in DOMAIN view'[b] : AgreesNext(f, view'[b][f])
  BY <1>0, <1>4, <1>5, <1>6
<1>. QED
  BY <1>0, <1>1, <1>2, <1>7 DEF DigestInv, Agrees, AgreesNext

\* A process that has digested nothing yet can be wrong about nothing.
LEMMA NothingDigested ==
  ASSUME ShapeInv', pc' # "build", seen' = Unseen,
         \A f \in Sources : disk'[f] \in Versions \/ (~racing' /\ disk'[f] = Missing)
  PROVE  DigestInv'
<1>1. \A a \in Actions : DOMAIN inputs'[a] = {} /\ DOMAIN view'[a] = {}
  BY EmptyIsMap DEF ShapeInv, Idle, Working, Started
<1>2. \A f \in Files : settled'[f] = None /\ seen'[f] = None
  BY DEF ShapeInv, Unseen
<1>. QED
  BY <1>1, <1>2, ContentAssumption DEF DigestInv

\* Digests follow their files.
LEMMA DigestStep ==
  ASSUME ShapeInv, ShapeInv', DigestInv, OrderInv, GatherInv, CommandInv, EntryInv, [Next]_vars
  PROVE  DigestInv'
<1>. USE DEF store, process, history
<1>0. \A f \in Sources : disk[f] \in Versions \/ (~racing /\ disk[f] = Missing)
  BY DEF DigestInv
<1>1. CASE Start
  <2>1. pc' # "build" /\ seen' = Unseen /\ disk' = disk /\ (racing' <=> racing)
    BY <1>1 DEF Start, ShapeInv
  <2>. QED
    BY <1>0, <2>1, NothingDigested
<1>2. CASE Sample
  <2>1. pc = "preflight" /\ UNCHANGED <<disk, pc, settled, inputs, view>>
        /\ (racing' <=> racing) /\ (quiet' <=> quiet)
    BY <1>2 DEF Sample
  <2>2. PICK some \in SUBSET Expected :
          seen' = [f \in Files |-> IF f \in some THEN disk[f] ELSE seen[f]]
    BY <1>2 DEF Sample
  <2>3. ASSUME NEW f \in Files, seen'[f] # None
        PROVE  AgreesNext(f, seen'[f])
    <3>1. CASE seen'[f] = disk[f]
      BY <2>1, <3>1 DEF AgreesNext
    <3>2. CASE seen'[f] = seen[f]
      <4>1. Agrees(f, seen[f])
        BY <2>1, <2>3, <3>2 DEF DigestInv
      <4>. QED
        BY <2>1, <3>2, <4>1, AgreesStill
    <3>. QED
      BY <2>2, <3>1, <3>2
  <2>. QED
    BY <2>1, <2>3 DEF DigestInv, Agrees, AgreesNext
<1>3. CASE Certify \/ PreflightFails
  <2>1. /\ UNCHANGED <<disk, settled, inputs, view>> /\ pc' = "build"
        /\ (racing' <=> racing) /\ (quiet' <=> quiet)
    BY <1>3 DEF Certify, PreflightFails
  <2>. QED
    BY <2>1 DEF DigestInv, Agrees
<1>4. CASE \E a \in Actions : ActionStep(a)
  BY <1>4, DigestActionStep
<1>5. CASE Finish \/ Crash
  <2>1. /\ pc' # "build" /\ seen' = Unseen /\ (racing' <=> racing)
    BY <1>5 DEF Finish, Crash, Forget
  <2>2. disk' = disk \/ \E cut \in SUBSET Generated, partial \in SUBSET Generated :
                          disk' = Writing(partial, LAMBDA f : Garbage)
    BY <1>5 DEF Finish, Crash, Generated
  <2>3. \A f \in Sources : disk'[f] = disk[f]
    BY <2>2, GraphAssumption DEF Writing, Files
  <2>. QED
    BY <1>0, <2>1, <2>3, NothingDigested
<1>6. ASSUME NEW g \in Sources, Edit(g)
      PROVE  DigestInv'
  <2>1. /\ UNCHANGED <<pc, seen, settled, inputs, view>> /\ (racing' <=> racing)
    BY <1>6 DEF Edit
  <2>2. PICK w \in NewContents(g) : disk' = [disk EXCEPT ![g] = w]
    BY <1>6 DEF Edit
  <2>3. w \in Versions \/ (~racing /\ w = Missing)
    <3>1. w \in Versions \cup {Missing} /\ (racing => w = disk[g] + 1)
      BY <2>2 DEF NewContents
    <3>2. racing => disk[g] + 1 # Missing
      BY <1>0, VersionsAreNumbers
    <3>. QED
      BY <3>1, <3>2
  <2>4. \A f \in Sources : disk'[f] \in Versions \/ (~racing' /\ disk'[f] = Missing)
    BY <1>0, <2>1, <2>2, <2>3, Ownership DEF ShapeInv
  <2>5. CASE pc = "off"
    BY <2>1, <2>4, <2>5, NothingDigested DEF ShapeInv
  <2>6. CASE pc # "off"
    <3>1. \A f \in Files : settled[f] # None => AgreesNext(f, settled[f])
      BY <1>6, <2>6, AgreesAfterEdit DEF DigestInv
    <3>2. pc = "preflight" => \A f \in Files : seen[f] # None => AgreesNext(f, seen[f])
      BY <1>6, <2>6, AgreesAfterEdit DEF DigestInv
    <3>3. \A a \in Actions : DOMAIN inputs[a] \subseteq Files /\ DOMAIN view[a] \subseteq Files
      BY GatheredIsReadable, Ownership
    <3>4. \A a \in Actions : \A f \in DOMAIN inputs[a] : AgreesNext(f, inputs[a][f])
      BY <1>6, <2>6, <3>3, AgreesAfterEdit DEF DigestInv
    <3>5. \A a \in Actions : \A f \in DOMAIN view[a] : AgreesNext(f, view[a][f])
      BY <1>6, <2>6, <3>3, AgreesAfterEdit DEF DigestInv
    <3>6. \A f \in Files : settled'[f] # Missing
      BY <2>1 DEF DigestInv
    <3>. QED
      BY <2>1, <2>4, <3>1, <3>2, <3>4, <3>5, <3>6 DEF DigestInv, Agrees, AgreesNext
  <2>. QED
    BY <2>5, <2>6
<1>7. CASE Lose
  <2>1. pc' # "build" /\ seen' = Unseen /\ (racing' <=> racing)
    BY <1>7 DEF Lose, ShapeInv
  <2>2. disk' = disk \/ \E f \in Generated, v \in {Missing, Garbage} : disk' = [disk EXCEPT ![f] = v]
    BY <1>7 DEF Lose
  <2>3. \A f \in Sources : disk'[f] = disk[f]
    BY <2>2, GraphAssumption, Ownership DEF ShapeInv
  <2>. QED
    BY <1>0, <2>1, <2>3, NothingDigested
<1>8. CASE UNCHANGED vars
  <2>1. /\ UNCHANGED <<disk, pc, seen, settled, inputs, view>>
        /\ (racing' <=> racing) /\ (quiet' <=> quiet)
    BY <1>8 DEF vars
  <2>. QED
    BY <2>1 DEF DigestInv, Agrees
<1>. QED
  BY <1>1, <1>2, <1>3, <1>4, <1>5, <1>6, <1>7, <1>8 DEF Next

-----------------------------------------------------------------------------
(* What actions gather and what their commands read.                        *)

\* A command reads what its action waited for, and sources.
LEMMA ReadsAreReadable ==
  ASSUME CommandInv, NEW a \in Actions
  PROVE  Declared[a] \subseteq Reads(a, view[a]) /\ Reads(a, view[a]) \subseteq WaitsFor(a) \cup Sources
BY IncludeAssumption, Ownership DEF CommandInv, Reads

\* No build, nothing gathered or read.
LEMMA NothingGathered ==
  ASSUME ShapeInv', NEW a \in Actions, phase'[a] \in {"waiting", "done"}
  PROVE  DOMAIN inputs'[a] = {} /\ DOMAIN view'[a] = {}
BY EmptyIsMap DEF ShapeInv, Working, Started

\* What a step of one action adds to what it gathered.
LEMMA GatherActionStep ==
  ASSUME ShapeInv, ShapeInv', GatherInv, CommandInv, EntryInv, NEW a \in Actions, ActionStep(a)
  PROVE  GatherInv'
<1>. USE DEF store, process, history
<1>1. ASSUME NEW b \in Actions \ {a}
      PROVE  /\ phase'[b] = phase[b] /\ inputs'[b] = inputs[b] /\ view'[b] = view[b]
             /\ Wanted(b)' = Wanted(b)
  BY ActionLocal DEF Wanted
<1>2. SUFFICES /\ phase'[a] = "hashing" => DOMAIN inputs'[a] \subseteq Wanted(a)'
               /\ phase'[a] = "running" => DOMAIN inputs'[a] = Wanted(a)'
               /\ phase'[a] = "report" => /\ Declared[a] \subseteq DOMAIN inputs'[a]
                                          /\ DOMAIN inputs'[a] \subseteq DOMAIN view'[a]
               /\ phase'[a] = "record" => DOMAIN inputs'[a] = DOMAIN view'[a]
               /\ DOMAIN view'[a] \subseteq WaitsFor(a) \cup Sources
  BY <1>1 DEF GatherInv
<1>3. CASE Enter(a)
  <2>1. phase'[a] \in {"hashing", "done"} /\ phase[a] = "waiting" /\ UNCHANGED <<inputs, view>>
    BY <1>3 DEF Enter, ShapeInv
  <2>2. DOMAIN inputs[a] = {} /\ DOMAIN view[a] = {}
    BY <2>1, EmptyIsMap DEF ShapeInv, Working, Started
  <2>. QED
    BY <2>1, <2>2
<1>4. ASSUME NEW f \in Files, HashInput(a, f)
      PROVE  /\ phase'[a] = "hashing" /\ DOMAIN inputs'[a] \subseteq Wanted(a)'
             /\ DOMAIN view'[a] \subseteq WaitsFor(a) \cup Sources
  <2>1. /\ phase[a] = "hashing" /\ f \in Wanted(a) /\ UNCHANGED <<phase, view, journal>>
        /\ DOMAIN inputs'[a] = DOMAIN inputs[a] \cup {f}
    BY <1>4 DEF HashInput, With, ShapeInv
  <2>. QED
    BY <2>1 DEF GatherInv, Wanted, Recorded, Entry
<1>5. CASE Hit(a) \/ Restore(a) \/ Refuse(a) \/ CommandFails(a) \/ RecordEntry(a)
            \/ BookkeepingFails(a)
  <2>1. phase'[a] = "done"
    BY <1>5 DEF Hit, Restore, Refuse, CommandFails, RecordEntry, BookkeepingFails, Done, ShapeInv
  <2>. QED
    BY <2>1, NothingGathered
<1>6. CASE Spawn(a)
  BY <1>6 DEF Spawn, Decided, Wanted, Recorded, Entry, GatherInv, ShapeInv
<1>7. ASSUME NEW f \in Files, ReadFile(a, f)
      PROVE  /\ phase'[a] = "running" /\ DOMAIN inputs'[a] = Wanted(a)'
             /\ DOMAIN view'[a] \subseteq WaitsFor(a) \cup Sources
  <2>1. /\ phase[a] = "running" /\ f \in Reads(a, view[a]) /\ UNCHANGED <<phase, inputs, journal>>
        /\ DOMAIN view'[a] = DOMAIN view[a] \cup {f}
    BY <1>7 DEF ReadFile, With, ShapeInv
  <2>. QED
    BY <2>1, ReadsAreReadable DEF GatherInv, Wanted, Recorded, Entry
<1>8. CASE CommandSucceeds(a)
  <2>1. /\ phase'[a] = "report" /\ view'[a] = view[a] /\ DOMAIN inputs'[a] = Declared[a]
        /\ Reads(a, view[a]) = DOMAIN view[a]
    BY <1>8 DEF CommandSucceeds, KeptInputs, ShapeInv
  <2>. QED
    BY <2>1, ReadsAreReadable
<1>9. ASSUME NEW f \in Files, HashReported(a, f)
      PROVE  /\ phase'[a] = "report" /\ Declared[a] \subseteq DOMAIN inputs'[a]
             /\ DOMAIN inputs'[a] \subseteq DOMAIN view'[a]
             /\ DOMAIN view'[a] \subseteq WaitsFor(a) \cup Sources
  <2>1. /\ phase[a] = "report" /\ f \in DOMAIN view[a] /\ UNCHANGED <<phase, view>>
        /\ DOMAIN inputs'[a] = DOMAIN inputs[a] \cup {f}
    BY <1>9 DEF HashReported, Discovered, With, ShapeInv
  <2>. QED
    BY <2>1 DEF GatherInv
<1>10. CASE Publish(a)
  <2>1. /\ phase[a] = "report" /\ phase'[a] = "record" /\ UNCHANGED <<inputs, view>>
        /\ DOMAIN view[a] \ Declared[a] \subseteq DOMAIN inputs[a]
    BY <1>10 DEF Publish, Discovered, ShapeInv
  <2>. QED
    BY <2>1 DEF GatherInv
<1>. QED
  BY <1>3, <1>4, <1>5, <1>6, <1>7, <1>8, <1>9, <1>10 DEF ActionStep

\* What an action has gathered is what its phase says.
LEMMA GatherStep ==
  ASSUME ShapeInv, ShapeInv', GatherInv, CommandInv, EntryInv, [Next]_vars
  PROVE  GatherInv'
<1>1. CASE \E a \in Actions : ActionStep(a)
  BY <1>1, GatherActionStep
<1>2. CASE UNCHANGED <<phase, inputs, view, journal>>
  BY <1>2 DEF GatherInv, Wanted, Recorded, Entry
<1>3. CASE \A a \in Actions : phase'[a] \in {"waiting", "done"}
  BY <1>3, NothingGathered DEF GatherInv
<1>4. CASE Certify \/ Finish \/ Crash
  BY <1>3, <1>4 DEF Certify, Finish, Crash, Forget, Idle
<1>. QED
  BY <1>1, <1>2, <1>4
  DEF Next, Start, Sample, PreflightFails, Edit, Lose, vars, store, process

\* Only what an action writes, gathers or turned out to read gets a new digest.
LEMMA SettlesWhatItUses ==
  ASSUME ShapeInv, GatherInv, EntryInv, NEW a \in Actions, ActionStep(a), NEW f \in Files,
         settled'[f] # settled[f]
  PROVE  /\ phase[a] # "waiting"
         /\ f \in Outputs[a] \cup WaitsFor(a) \cup Sources
<1>. USE DEF store, process, history
<1>1. CASE Enter(a) \/ Refuse(a) \/ CommandSucceeds(a) \/ CommandFails(a) \/ RecordEntry(a)
            \/ BookkeepingFails(a) \/ \E g \in Files : ReadFile(a, g)
  BY <1>1 DEF Enter, Refuse, CommandSucceeds, CommandFails, RecordEntry, BookkeepingFails, ReadFile
<1>2. ASSUME NEW g \in Files, HashInput(a, g)
      PROVE  phase[a] # "waiting" /\ f \in WaitsFor(a) \cup Sources
  <2>1. phase[a] = "hashing" /\ g \in Wanted(a) /\ f = g
    BY <1>2 DEF HashInput, Settle, ShapeInv
  <2>. QED
    BY <2>1, GatheredIsReadable
<1>3. ASSUME NEW g \in Files, HashReported(a, g)
      PROVE  phase[a] # "waiting" /\ f \in WaitsFor(a) \cup Sources
  <2>1. phase[a] = "report" /\ g \in DOMAIN view[a] /\ f = g
    BY <1>3 DEF HashReported, Settle, Discovered, ShapeInv
  <2>. QED
    BY <2>1, GatheredIsReadable
<1>4. CASE Hit(a) \/ Restore(a) \/ Spawn(a) \/ Publish(a)
  BY <1>4, Ownership DEF Hit, Restore, Spawn, Publish, Decided, Looked, Invalidated
<1>. QED
  BY <1>1, <1>2, <1>3, <1>4 DEF ActionStep

\* What a working action waited for comes from good actions.
LEMMA AwaitedIsWhole ==
  ASSUME ShapeInv, OrderInv, VerdictInv, NEW a \in Actions, phase[a] \in Working,
         NEW f \in WaitsFor(a) \ Sources
  PROVE  disk[f] # Garbage
<1>1. f \in Generated
  BY Ownership DEF Files
<1>2. PICK p \in Actions : f \in Outputs[p]
  BY <1>1 DEF Generated
<1>3. verdict[p] \in Good
  BY <1>2 DEF OrderInv, ProducersOf
<1>. QED
  BY <1>2, <1>3 DEF VerdictInv

\* What a command has read and written, after a step of one action.
LEMMA CommandActionStep ==
  ASSUME ShapeInv, ShapeInv', DigestInv, OrderInv, GatherInv, CommandInv, EntryInv, VerdictInv,
         NEW a \in Actions, ActionStep(a)
  PROVE  CommandInv'
<1>. USE DEF store, process, history
<1>1. ASSUME NEW b \in Actions \ {a}
      PROVE  /\ phase'[b] = phase[b] /\ view'[b] = view[b]
             /\ phase[b] # "done" => \A f \in Outputs[b] : settled'[f] = settled[f]
             /\ \A f \in Outputs[b] : disk'[f] = disk[f]
  <2>1. phase'[b] = phase[b] /\ view'[b] = view[b]
    BY ActionLocal
  <2>2. \A f \in Outputs[b] : f \in Files /\ f \notin Outputs[a] /\ f \notin Sources
    BY Ownership
  <2>3. ASSUME phase[b] # "done", NEW f \in Outputs[b], settled'[f] # settled[f]
        PROVE  FALSE
    <3>1. phase[a] # "waiting" /\ f \in WaitsFor(a)
      BY <2>2, <2>3, SettlesWhatItUses
    <3>. QED
      BY <2>3, <3>1, WrittenIsUnread
  <2>. QED
    BY <2>1, <2>2, <2>3, ActionLocal
<1>2. SUFFICES /\ \A f \in DOMAIN view'[a] : view'[a][f] \notin {Missing, Garbage}
               /\ \A f \in DOMAIN view'[a] \cap Sources : view'[a][f] \in Versions
               /\ phase'[a] = "running" => \A f \in Outputs[a] : settled'[f] = None
               /\ phase'[a] \in {"report", "record"} =>
                    /\ Reads(a, view'[a]) = DOMAIN view'[a]
                    /\ \A f \in Outputs[a] : disk'[f] = Makes(a, f, view'[a])
  <2>1. ASSUME NEW b \in Actions \ {a}
        PROVE  /\ \A f \in DOMAIN view'[b] : view'[b][f] \notin {Missing, Garbage}
               /\ \A f \in DOMAIN view'[b] \cap Sources : view'[b][f] \in Versions
               /\ phase'[b] = "running" => \A f \in Outputs[b] : settled'[f] = None
               /\ phase'[b] \in {"report", "record"} =>
                    /\ Reads(b, view'[b]) = DOMAIN view'[b]
                    /\ \A f \in Outputs[b] : disk'[f] = Makes(b, f, view'[b])
    BY <1>1, <2>1 DEF CommandInv
  <2>. QED
    BY <1>2, <2>1 DEF CommandInv, Reads
<1>3. CASE Enter(a) \/ Hit(a) \/ Restore(a) \/ Refuse(a) \/ CommandFails(a) \/ RecordEntry(a)
            \/ BookkeepingFails(a) \/ \E f \in Files : HashInput(a, f)
  <2>1. phase'[a] \in {"done", "hashing"}
    BY <1>3
    DEF Enter, HashInput, Hit, Restore, Refuse, CommandFails, RecordEntry, BookkeepingFails, Done,
        ShapeInv
  <2>2. DOMAIN view'[a] = {}
    BY <2>1, EmptyIsMap DEF ShapeInv, Started
  <2>. QED
    BY <2>1, <2>2
<1>4. CASE Spawn(a)
  <2>1. phase'[a] = "running" /\ \A f \in Outputs[a] : settled'[f] = None
    BY <1>4, Ownership DEF Spawn, Invalidated, ShapeInv
  <2>2. view'[a] = view[a]
    BY <1>4 DEF Spawn
  <2>. QED
    BY <2>1, <2>2 DEF CommandInv
<1>5. ASSUME NEW f \in Files, ReadFile(a, f)
      PROVE  /\ \A g \in DOMAIN view'[a] : view'[a][g] \notin {Missing, Garbage}
             /\ \A g \in DOMAIN view'[a] \cap Sources : view'[a][g] \in Versions
             /\ phase'[a] = "running" /\ \A g \in Outputs[a] : settled'[g] = None
  <2>1. /\ phase[a] = "running" /\ f \in Reads(a, view[a]) /\ UNCHANGED <<phase, settled>>
        /\ DOMAIN view'[a] = DOMAIN view[a] \cup {f} /\ view'[a][f] = disk[f]
        /\ \A g \in DOMAIN view[a] \ {f} : view'[a][g] = view[a][g]
        /\ disk[f] # Missing
    BY <1>5 DEF ReadFile, With, ShapeInv
  <2>2. f \in Sources => disk[f] \in Versions
    BY <2>1 DEF DigestInv
  <2>3. disk[f] # Garbage
    <3>1. CASE f \in Sources
      BY <2>2, <3>1, VersionsAreNumbers
    <3>2. CASE f \notin Sources
      <4>1. f \in WaitsFor(a)
        BY <2>1, <3>2, ReadsAreReadable
      <4>. QED
        BY <2>1, <3>2, <4>1, AwaitedIsWhole DEF Working
    <3>. QED
      BY <3>1, <3>2
  <2>. QED
    BY <2>1, <2>2, <2>3 DEF CommandInv
<1>6. CASE CommandSucceeds(a)
  <2>1. /\ phase'[a] = "report" /\ view'[a] = view[a] /\ Reads(a, view[a]) = DOMAIN view[a]
        /\ disk' = Writing(Outputs[a], LAMBDA f : Makes(a, f, view[a]))
    BY <1>6 DEF CommandSucceeds, ShapeInv
  <2>2. \A f \in Outputs[a] : disk'[f] = Makes(a, f, view[a])
    BY <2>1, Ownership DEF Writing
  <2>. QED
    BY <2>1, <2>2 DEF CommandInv
<1>7. CASE Publish(a) \/ \E f \in Files : HashReported(a, f)
  <2>1. /\ phase[a] = "report" /\ phase'[a] \in {"report", "record"} /\ UNCHANGED <<disk, view>>
    BY <1>7 DEF Publish, HashReported, ShapeInv
  <2>. QED
    BY <2>1 DEF CommandInv
<1>. QED
  BY <1>3, <1>4, <1>5, <1>6, <1>7 DEF ActionStep

\* Commands read whole files and write what they make of them.
LEMMA CommandStep ==
  ASSUME ShapeInv, ShapeInv', DigestInv, OrderInv, GatherInv, CommandInv, EntryInv, VerdictInv,
         [Next]_vars
  PROVE  CommandInv'
<1>1. CASE \E a \in Actions : ActionStep(a)
  BY <1>1, CommandActionStep
<1>2. CASE UNCHANGED <<phase, view, settled>> /\ \A f \in Generated : disk'[f] = disk[f]
  <2>1. \A a \in Actions : Outputs[a] \subseteq Generated
    BY DEF Generated
  <2>. QED
    BY <1>2, <2>1 DEF CommandInv, Reads
<1>3. CASE \A a \in Actions : phase'[a] \in {"waiting", "done"}
  BY <1>3, NothingGathered DEF CommandInv
<1>4. CASE Certify \/ Finish \/ Crash
  BY <1>3, <1>4 DEF Certify, Finish, Crash, Forget, Idle
<1>5. CASE Lose
  BY <1>3, <1>5 DEF Lose, process, ShapeInv, Idle
<1>6. ASSUME NEW f \in Sources, Edit(f)
      PROVE  CommandInv'
  <2>1. \A g \in Generated : disk'[g] = disk[g]
    BY <1>6, GraphAssumption DEF Edit, ShapeInv, Files
  <2>. QED
    BY <1>2, <1>6, <2>1 DEF Edit, process
<1>. QED
  BY <1>1, <1>2, <1>4, <1>5, <1>6
  DEF Next, Start, Sample, PreflightFails, vars, store, process

-----------------------------------------------------------------------------
(* A racing history: what was read is as old as its digest, or younger.      *)

\* The digest of a source only goes from unknown to what is on disk.
LEMMA SourcesSettle ==
  ASSUME ShapeInv, DigestInv, NEW a \in Actions, ActionStep(a), NEW f \in Sources
  PROVE  /\ disk'[f] = disk[f]
         /\ settled'[f] = settled[f] \/ (settled[f] = None /\ settled'[f] = disk[f])
<1>1. f \in Files /\ f \notin Outputs[a]
  BY Ownership
<1>2. \/ settled'[f] = settled[f]
      \/ settled'[f] = Digest(f)
  BY <1>1, ActionSettles
<1>. QED
  BY <1>1, <1>2, ActionKeepsSources DEF Digest

\* In a racing history sources are there, and digests of them are of what they were.
LEMMA RacingDigests ==
  ASSUME DigestInv, racing, NEW f \in Sources
  PROVE  /\ disk[f] \in Versions /\ disk[f] <= disk[f]
         /\ \A v : Agrees(f, v) => v \in Versions /\ v <= disk[f]
<1>1. disk[f] \in Versions
  BY DEF DigestInv
<1>. QED
  BY <1>1, VersionsAreNumbers DEF Agrees

\* What each action has read of the sources, after a step of one of them.
LEMMA RaceActionStep ==
  ASSUME ShapeInv, ShapeInv', DigestInv, GatherInv, RaceInv, NEW a \in Actions, ActionStep(a)
  PROVE  RaceInv'
<1>. USE DEF store, process, history
<1>. SUFFICES ASSUME racing', NEW b \in Actions, NEW f \in DOMAIN view'[b] \cap Sources
              PROVE  /\ f \in DOMAIN inputs'[b] =>
                          inputs'[b][f] \in Versions /\ inputs'[b][f] <= view'[b][f]
                     /\ phase'[b] \in {"running", "report"} =>
                          IF settled'[f] = None THEN view'[b][f] = disk'[f]
                          ELSE settled'[f] \in Versions /\ settled'[f] <= view'[b][f]
  BY DEF RaceInv
<1>1. racing /\ f \in Files
  BY ActionLocal, Ownership
<1>2. disk[f] \in Versions /\ disk[f] <= disk[f] /\ disk'[f] = disk[f]
  BY <1>1, RacingDigests, SourcesSettle
<1>3. ASSUME f \in DOMAIN view[b], view'[b][f] = view[b][f], phase[b] \in {"running", "report"}
      PROVE  IF settled'[f] = None THEN view'[b][f] = disk'[f]
             ELSE settled'[f] \in Versions /\ settled'[f] <= view'[b][f]
  <2>1. IF settled[f] = None THEN view[b][f] = disk[f]
        ELSE settled[f] \in Versions /\ settled[f] <= view[b][f]
    BY <1>1, <1>3 DEF RaceInv
  <2>. QED
    BY <1>2, <1>3, <2>1, SourcesSettle
<1>4. ASSUME f \in DOMAIN view[b], view'[b][f] = view[b][f],
             f \in DOMAIN inputs[b], inputs'[b][f] = inputs[b][f]
      PROVE  inputs'[b][f] \in Versions /\ inputs'[b][f] <= view'[b][f]
  BY <1>1, <1>4 DEF RaceInv
<1>5. CASE b # a
  <2>1. phase'[b] = phase[b] /\ inputs'[b] = inputs[b] /\ view'[b] = view[b]
    BY <1>5, ActionLocal
  <2>. QED
    BY <1>3, <1>4, <2>1
<1>6. CASE b = a
  <2>1. CASE Enter(a) \/ Hit(a) \/ Restore(a) \/ Refuse(a) \/ Spawn(a) \/ CommandFails(a)
             \/ RecordEntry(a) \/ BookkeepingFails(a) \/ \E g \in Files : HashInput(a, g)
    <3>1. view'[a] = Empty \/ (view'[a] = view[a] /\ phase[a] \notin Started)
      BY <2>1
      DEF Enter, HashInput, Hit, Restore, Refuse, Spawn, CommandFails, RecordEntry,
          BookkeepingFails, Decided, Done, Started, ShapeInv
    <3>2. DOMAIN view'[a] = {}
      BY <3>1, EmptyIsMap DEF ShapeInv
    <3>. QED
      BY <1>6, <3>2
  <2>2. ASSUME NEW g \in Files, ReadFile(a, g)
        PROVE  /\ f \in DOMAIN inputs'[b] =>
                    inputs'[b][f] \in Versions /\ inputs'[b][f] <= view'[b][f]
               /\ IF settled'[f] = None THEN view'[b][f] = disk'[f]
                  ELSE settled'[f] \in Versions /\ settled'[f] <= view'[b][f]
    <3>1. /\ phase[a] = "running" /\ UNCHANGED <<inputs, settled>>
          /\ DOMAIN view'[a] = DOMAIN view[a] \cup {g} /\ view'[a][g] = disk[g]
          /\ \A x \in DOMAIN view[a] \ {g} : view'[a][x] = view[a][x]
      BY <2>2 DEF ReadFile, With, ShapeInv
    <3>2. CASE f = g
      <4>1. f \in DOMAIN inputs[a] => inputs[a][f] \in Versions /\ inputs[a][f] <= disk[f]
        BY <1>1, RacingDigests DEF DigestInv
      <4>2. settled[f] # None => settled[f] \in Versions /\ settled[f] <= disk[f]
        BY <1>1, RacingDigests DEF DigestInv
      <4>. QED
        BY <1>2, <1>6, <3>1, <3>2, <4>1, <4>2
    <3>3. CASE f # g
      BY <1>3, <1>4, <1>6, <3>1, <3>3
    <3>. QED
      BY <3>2, <3>3
  <2>3. CASE CommandSucceeds(a)
    <3>1. /\ phase[a] = "running" /\ view'[a] = view[a]
          /\ DOMAIN inputs'[a] = Declared[a]
          /\ \A x \in Declared[a] : inputs'[a][x] = inputs[a][x]
      BY <2>3 DEF CommandSucceeds, KeptInputs, ShapeInv
    <3>2. Declared[a] \subseteq DOMAIN inputs[a]
      BY <3>1 DEF GatherInv, Wanted
    <3>. QED
      BY <1>3, <1>4, <1>6, <3>1, <3>2
  <2>4. ASSUME NEW g \in Files, HashReported(a, g)
        PROVE  /\ f \in DOMAIN inputs'[b] =>
                    inputs'[b][f] \in Versions /\ inputs'[b][f] <= view'[b][f]
               /\ IF settled'[f] = None THEN view'[b][f] = disk'[f]
                  ELSE settled'[f] \in Versions /\ settled'[f] <= view'[b][f]
    <3>1. /\ phase[a] = "report" /\ view' = view
          /\ DOMAIN inputs'[a] = DOMAIN inputs[a] \cup {g} /\ inputs'[a][g] = Digest(g)
          /\ \A x \in DOMAIN inputs[a] \ {g} : inputs'[a][x] = inputs[a][x]
      BY <2>4 DEF HashReported, With, ShapeInv
    <3>2. IF settled[f] = None THEN view[a][f] = disk[f]
          ELSE settled[f] \in Versions /\ settled[f] <= view[a][f]
      BY <1>1, <1>6, <3>1 DEF RaceInv
    <3>3. Digest(f) \in Versions /\ Digest(f) <= view[a][f]
      BY <1>2, <3>2 DEF Digest
    <3>. QED
      BY <1>3, <1>4, <1>6, <3>1, <3>3
  <2>5. CASE Publish(a)
    <3>1. phase[a] = "report" /\ UNCHANGED <<inputs, view>>
      BY <2>5 DEF Publish
    <3>. QED
      BY <1>3, <1>4, <1>6, <3>1
  <2>. QED
    BY <2>1, <2>2, <2>3, <2>4, <2>5 DEF ActionStep
<1>. QED
  BY <1>5, <1>6

\* Nobody edits a source under a command that reads it before its digest is settled.
LEMMA RaceStep ==
  ASSUME ShapeInv, ShapeInv', DigestInv, GatherInv, RaceInv, [Next]_vars
  PROVE  RaceInv'
<1>1. CASE \E a \in Actions : ActionStep(a)
  BY <1>1, RaceActionStep
<1>2. CASE UNCHANGED <<disk, settled, phase, inputs, view>> /\ (racing' <=> racing)
  BY <1>2 DEF RaceInv
<1>3. CASE \A a \in Actions : phase'[a] \in {"waiting", "done"}
  BY <1>3, NothingGathered DEF RaceInv
<1>4. CASE Certify \/ Finish \/ Crash
  BY <1>3, <1>4 DEF Certify, Finish, Crash, Forget, Idle
<1>5. CASE Lose
  BY <1>3, <1>5 DEF Lose, process, ShapeInv, Idle
<1>6. ASSUME NEW g \in Sources, Edit(g)
      PROVE  RaceInv'
  <2>1. /\ UNCHANGED <<settled, phase, inputs, view>> /\ (racing' <=> racing)
        /\ \A f \in Sources \ {g} : disk'[f] = disk[f]
    BY <1>6, Ownership DEF Edit, process, ShapeInv
  <2>2. CASE pc = "off"
    BY <1>3, <2>1, <2>2 DEF ShapeInv, Idle
  <2>3. CASE settled[g] # None \/ \A a \in Actions : phase[a] \notin {"running", "report"}
    BY <2>1, <2>3 DEF RaceInv
  <2>. QED
    BY <1>6, <2>2, <2>3 DEF Edit, MayEdit, Active
<1>. QED
  BY <1>1, <1>2, <1>4, <1>5, <1>6
  DEF Next, Start, Sample, PreflightFails, vars, store, process, history

-----------------------------------------------------------------------------
(* Records.                                                                 *)

\* Nobody edits an output, so what is known of one is what it is.
LEMMA OutputDigest ==
  ASSUME DigestInv, NEW a \in Actions, NEW f \in Outputs[a]
  PROVE  f \in Files /\ f \notin Sources /\ Digest(f) = disk[f]
<1>1. f \in Files /\ f \notin Sources
  BY Ownership
<1>. QED
  BY <1>1, DigestAgrees DEF Agrees

\* The entry a step adds, if it adds one.
LEMMA RecordAdded ==
  ASSUME NEW a \in Actions, RecordEntry(a)
  PROVE  /\ phase[a] = "record" /\ Recorded' = Recorded \cup {a}
         /\ Entry(a)'.inputs = inputs[a] /\ Entry(a)'.discovered = DOMAIN view[a] \ Declared[a]
         /\ \A f \in Outputs[a] : Entry(a)'.outputs[f] = Digest(f)
         /\ \A b \in Recorded \ {a} : Entry(b)' = Entry(b)
         /\ disk' = disk /\ cas' = cas
BY DEF RecordEntry, With, Recorded, Entry, Discovered

\* Only recording changes the journal.
LEMMA RecordsKept ==
  ASSUME NEW a \in Actions, ActionStep(a), ~RecordEntry(a)
  PROVE  journal' = journal
BY DEF ActionStep, Enter, HashInput, ReadFile, HashReported, Hit, Restore, Refuse, Spawn,
   CommandSucceeds, CommandFails, Publish, BookkeepingFails, store

\* What an action records, it read and wrote.
LEMMA RecordIsOfRun ==
  ASSUME ShapeInv, DigestInv, GatherInv, CommandInv, NEW a \in Actions, phase[a] = "record"
  PROVE  /\ DOMAIN inputs[a] = DOMAIN view[a] /\ Reads(a, view[a]) = DOMAIN view[a]
         /\ Declared[a] \subseteq DOMAIN view[a]
         /\ DOMAIN view[a] \ Declared[a] \subseteq WaitsFor(a) \cup Sources
         /\ \A f \in Outputs[a] : Digest(f) = Makes(a, f, view[a])
<1>1. DOMAIN inputs[a] = DOMAIN view[a] /\ Reads(a, view[a]) = DOMAIN view[a]
  BY DEF GatherInv, CommandInv
<1>2. \A f \in Outputs[a] : Digest(f) = Makes(a, f, view[a])
  BY OutputDigest DEF CommandInv
<1>. QED
  BY <1>1, <1>2, ReadsAreReadable

\* Records have the shape they are read in, and nothing damaged is kept.
LEMMA EntryStep ==
  ASSUME CommandsWriteContents, ShapeInv, DigestInv, GatherInv, CommandInv, EntryInv, [Next]_vars
  PROVE  EntryInv'
<1>. USE DEF store, process, history
<1>1. CASE UNCHANGED journal /\ cas' \subseteq cas
  BY <1>1 DEF EntryInv, Recorded, Entry
<1>2. ASSUME NEW a \in Actions, RecordEntry(a)
      PROVE  EntryInv'
  <2>1. \A f \in Outputs[a] : Digest(f) # Garbage
    BY <1>2, RecordIsOfRun DEF RecordEntry, CommandsWriteContents
  <2>2. /\ DOMAIN Entry(a)'.inputs = Declared[a] \cup Entry(a)'.discovered
        /\ IsMap(Entry(a)'.inputs) /\ Entry(a)'.discovered \subseteq WaitsFor(a) \cup Sources
        /\ \A f \in Outputs[a] : Entry(a)'.outputs[f] # Garbage
    BY <1>2, <2>1, RecordAdded, RecordIsOfRun DEF ShapeInv
  <2>3. ASSUME NEW b \in Recorded \ {a}
        PROVE  /\ DOMAIN Entry(b)'.inputs = Declared[b] \cup Entry(b)'.discovered
               /\ IsMap(Entry(b)'.inputs) /\ Entry(b)'.discovered \subseteq WaitsFor(b) \cup Sources
               /\ \A f \in Outputs[b] : Entry(b)'.outputs[f] # Garbage
    <3>1. Entry(b)' = Entry(b)
      BY <1>2, RecordAdded
    <3>. QED
      BY <3>1 DEF EntryInv
  <2>4. Recorded' = Recorded \cup {a} /\ Garbage \notin cas'
    BY <1>2, RecordAdded DEF EntryInv
  <2>. QED
    BY <2>2, <2>3, <2>4 DEF EntryInv, IsMap
<1>3. ASSUME NEW a \in Actions, Publish(a)
      PROVE  EntryInv'
  <2>1. cas' = cas \cup {disk[f] : f \in Outputs[a]} /\ journal' = journal /\ phase[a] = "report"
    BY <1>3 DEF Publish
  <2>2. \A f \in Outputs[a] : disk[f] # Garbage
    BY <2>1 DEF CommandInv, CommandsWriteContents
  <2>. QED
    BY <2>1, <2>2 DEF EntryInv, Recorded, Entry
<1>4. CASE \E a \in Actions : ActionStep(a) /\ ~RecordEntry(a) /\ ~Publish(a)
  <2>1. journal' = journal /\ cas' = cas
    BY <1>4
    DEF ActionStep, Enter, HashInput, ReadFile, HashReported, Hit, Restore, Refuse, Spawn,
        CommandSucceeds, CommandFails, BookkeepingFails
  <2>. QED
    BY <1>1, <2>1
<1>5. CASE Start \/ Sample \/ Certify \/ PreflightFails \/ Finish \/ Crash \/ UNCHANGED vars
  BY <1>1, <1>5 DEF Start, Sample, Certify, PreflightFails, Finish, Crash, vars
<1>6. CASE Lose \/ \E f \in Sources : Edit(f)
  BY <1>1, <1>6 DEF Lose, Edit
<1>. QED
  BY <1>2, <1>3, <1>4, <1>5, <1>6 DEF Next

\* In a racing history a source's contents only get younger.
SourcesGrow ==
  /\ racing' <=> racing
  /\ racing => \A f \in Sources : /\ disk[f] \in Nat /\ disk'[f] \in Nat /\ disk[f] <= disk'[f]

LEMMA SourcesOnlyGrow ==
  ASSUME ShapeInv, DigestInv, [Next]_vars
  PROVE  SourcesGrow
<1>. USE DEF store, process, history
<1>1. racing' <=> racing
  BY ActionLocal
  DEF Next, Start, Sample, Certify, PreflightFails, Finish, Crash, Lose, Edit, vars
<1>2. ASSUME racing, \A f \in Sources : disk'[f] = disk[f]
      PROVE  \A f \in Sources : disk[f] \in Nat /\ disk'[f] \in Nat /\ disk[f] <= disk'[f]
  BY <1>2, RacingDigests, VersionsAreNumbers
<1>3. ASSUME NEW a \in Actions, ActionStep(a)
      PROVE  \A f \in Sources : disk'[f] = disk[f]
  BY <1>3, ActionKeepsSources
<1>4. ASSUME Crash
      PROVE  \A f \in Sources : disk'[f] = disk[f]
  BY <1>4, GraphAssumption DEF Crash, Writing, Files, Generated
<1>5. ASSUME Start \/ Sample \/ Certify \/ PreflightFails \/ Finish \/ UNCHANGED vars
      PROVE  disk' = disk
  BY <1>5 DEF Start, Sample, Certify, PreflightFails, Finish, vars
<1>6. ASSUME NEW g \in Sources, Edit(g), racing
      PROVE  \A f \in Sources : disk[f] \in Nat /\ disk'[f] \in Nat /\ disk[f] <= disk'[f]
  <2>1. PICK v \in NewContents(g) : disk' = [disk EXCEPT ![g] = v]
    BY <1>6 DEF Edit
  <2>2. v = disk[g] + 1
    BY <1>6, <2>1 DEF NewContents
  <2>3. \A f \in Sources : disk[f] \in Nat
    BY <1>6, RacingDigests, VersionsAreNumbers
  <2>4. \A f \in Sources : disk'[f] = IF f = g THEN disk[g] + 1 ELSE disk[f]
    BY <2>1, <2>2, Ownership DEF ShapeInv
  <2>. QED
    BY <2>3, <2>4
<1>7. CASE Crash \/ Start \/ Sample \/ Certify \/ PreflightFails \/ Finish \/ UNCHANGED vars
           \/ \E a \in Actions : ActionStep(a)
  BY <1>1, <1>2, <1>3, <1>4, <1>5, <1>7 DEF SourcesGrow
<1>8. CASE Lose \/ \E g \in Sources : Edit(g)
  <2>1. racing => \E g \in Sources : Edit(g)
    BY <1>8 DEF Lose
  <2>. QED
    BY <1>1, <1>6, <2>1 DEF SourcesGrow
<1>. QED
  BY <1>7, <1>8 DEF Next

\* A true record stays true.
LEMMA StaysTrue ==
  ASSUME SourcesGrow, NEW a, NEW w, TrueOf(a, w), Entry(a)' = Entry(a)
  PROVE  TrueOf(a, w)'
<1>1. ASSUME NEW f \in DOMAIN w
      PROVE  /\ w[f] # Missing
             /\ \/ Entry(a)'.inputs[f] = w[f]
                \/ /\ racing' /\ f \in Sources /\ {Entry(a)'.inputs[f], w[f]} \subseteq Versions
                   /\ Entry(a)'.inputs[f] <= w[f] /\ w[f] <= disk'[f]
  <2>1. CASE Entry(a).inputs[f] = w[f]
    BY <2>1 DEF TrueOf
  <2>2. CASE Entry(a).inputs[f] # w[f]
    <3>1. /\ racing /\ f \in Sources /\ {Entry(a).inputs[f], w[f]} \subseteq Versions
          /\ Entry(a).inputs[f] <= w[f] /\ w[f] <= disk[f] /\ w[f] # Missing
      BY <2>2 DEF TrueOf
    <3>2. w[f] \in Nat /\ disk[f] \in Nat /\ disk'[f] \in Nat /\ disk[f] <= disk'[f] /\ racing'
      BY <3>1, VersionsAreNumbers DEF SourcesGrow
    <3>3. w[f] <= disk'[f]
      BY <3>1, <3>2
    <3>. QED
      BY <3>1, <3>2, <3>3
  <2>. QED
    BY <2>1, <2>2
<1>. QED
  BY <1>1 DEF TrueOf, Reads, IsMap

\* Every record is of a run of the command.
LEMMA TruthStep ==
  ASSUME ShapeInv, DigestInv, GatherInv, CommandInv, RaceInv, TruthInv, [Next]_vars
  PROVE  TruthInv'
<1>. USE DEF store, process, history
<1>1. SourcesGrow
  BY SourcesOnlyGrow
<1>2. CASE UNCHANGED journal
  <2>1. Recorded' = Recorded /\ \A a \in Recorded : Entry(a)' = Entry(a)
    BY <1>2 DEF Recorded, Entry
  <2>. QED
    BY <1>1, <2>1, StaysTrue DEF TruthInv
<1>3. ASSUME NEW a \in Actions, RecordEntry(a)
      PROVE  TruthInv'
  <2>1. ASSUME NEW f \in DOMAIN view[a]
        PROVE  /\ view[a][f] # Missing
               /\ \/ inputs[a][f] = view[a][f]
                  \/ /\ racing /\ f \in Sources /\ {inputs[a][f], view[a][f]} \subseteq Versions
                     /\ inputs[a][f] <= view[a][f] /\ view[a][f] <= disk[f]
    <3>1. Agrees(f, view[a][f]) /\ Agrees(f, inputs[a][f]) /\ view[a][f] # Missing
      BY <1>3, RecordAdded, RecordIsOfRun DEF DigestInv, CommandInv
    <3>2. CASE racing /\ f \in Sources
      <4>1. view[a][f] \in Versions /\ view[a][f] <= disk[f]
        BY <3>1, <3>2, RacingDigests
      <4>2. inputs[a][f] \in Versions /\ inputs[a][f] <= view[a][f]
        BY <1>3, <3>2, RecordAdded, RecordIsOfRun DEF RaceInv
      <4>. QED
        BY <3>1, <3>2, <4>1, <4>2
    <3>3. CASE ~(racing /\ f \in Sources)
      BY <3>1, <3>3 DEF Agrees
    <3>. QED
      BY <3>2, <3>3
  <2>2. ASSUME NEW w, w = view[a]
        PROVE  TrueOf(a, w)'
    <3>1. /\ disk' = disk /\ (racing' <=> racing) /\ Entry(a)'.inputs = inputs[a]
          /\ DOMAIN view[a] = DOMAIN inputs[a] /\ Reads(a, view[a]) = DOMAIN view[a]
          /\ IsMap(view[a])
          /\ \A f \in Outputs[a] : Entry(a)'.outputs[f] = Makes(a, f, view[a])
      BY <1>1, <1>3, RecordAdded, RecordIsOfRun DEF SourcesGrow, ShapeInv
    <3>2. /\ DOMAIN w = DOMAIN Entry(a)'.inputs /\ Reads(a, w) = DOMAIN w /\ IsMap(w)
          /\ \A f \in Outputs[a] : Entry(a)'.outputs[f] = Makes(a, f, w)
      BY <2>2, <3>1
    <3>3. \A f \in DOMAIN w :
            /\ w[f] # Missing
            /\ \/ Entry(a)'.inputs[f] = w[f]
               \/ /\ racing' /\ f \in Sources /\ {Entry(a)'.inputs[f], w[f]} \subseteq Versions
                  /\ Entry(a)'.inputs[f] <= w[f] /\ w[f] <= disk'[f]
      BY <2>1, <2>2, <3>1
    <3>. QED
      BY <3>2, <3>3 DEF TrueOf, Reads, IsMap
  <2>3. \A b \in Recorded \ {a} : \E w : TrueOf(b, w)'
    BY <1>1, <1>3, RecordAdded, StaysTrue DEF TruthInv
  <2>4. \E w : TrueOf(a, w)'
    BY <2>2
  <2>. QED
    BY <1>3, <2>3, <2>4, RecordAdded DEF TruthInv
<1>4. CASE \E a \in Actions : ActionStep(a) /\ ~RecordEntry(a)
  BY <1>2, <1>4, RecordsKept
<1>5. CASE Start \/ Sample \/ Certify \/ PreflightFails \/ Finish \/ Crash \/ UNCHANGED vars
  BY <1>2, <1>5 DEF Start, Sample, Certify, PreflightFails, Finish, Crash, vars
<1>6. CASE Lose \/ \E f \in Sources : Edit(f)
  BY <1>2, <1>6 DEF Lose, Edit
<1>. QED
  BY <1>3, <1>4, <1>5, <1>6 DEF Next

-----------------------------------------------------------------------------
(* Verdicts.                                                                *)

\* A fresh record is still fresh when nothing it tells of was touched.
LEMMA FreshStill ==
  ASSUME NEW a \in Actions, Fresh(a), a \in Recorded', Entry(a)' = Entry(a),
         \A f \in Declared[a] \cup Entry(a).discovered \cup Outputs[a] : disk'[f] = disk[f]
  PROVE  Fresh(a)'
BY DEF Fresh

\* Somebody else's step touches nothing a finished action told of.
LEMMA DoneIsLeftAlone ==
  ASSUME ShapeInv, OrderInv, EntryInv, NEW a \in Actions, ActionStep(a),
         NEW b \in Actions \ {a}, phase[b] = "done"
  PROVE  /\ \A f \in Outputs[b] : disk'[f] = disk[f]
         /\ Fresh(b) => Fresh(b)'
<1>1. /\ phase[a] # "done" /\ (b \in Recorded => b \in Recorded' /\ Entry(b)' = Entry(b))
      /\ \A f \in Files \ Outputs[a] : disk'[f] = disk[f]
  BY ActionLocal
<1>2. Outputs[a] \cap WaitsFor(b) = {} /\ Outputs[a] \cap Outputs[b] = {}
  BY <1>1, WrittenIsUnread, Ownership
<1>3. \A f \in WaitsFor(b) \cup Outputs[b] \cup Sources : disk'[f] = disk[f]
  BY <1>1, <1>2, Ownership
<1>4. b \in Recorded => Entry(b).discovered \subseteq WaitsFor(b) \cup Sources
  BY DEF EntryInv
<1>5. ASSUME Fresh(b)
      PROVE  Fresh(b)'
  <2>1. b \in Recorded' /\ Entry(b)' = Entry(b)
    BY <1>1, <1>5 DEF Fresh
  <2>2. \A f \in Declared[b] \cup Entry(b).discovered \cup Outputs[b] : disk'[f] = disk[f]
    BY <1>3, <1>4, <1>5, Ownership DEF Fresh
  <2>. QED
    BY <1>5, <2>1, <2>2, FreshStill
<1>. QED
  BY <1>3, <1>5

\* Under a quiet build digests are what is on disk.
LEMMA QuietDigests ==
  ASSUME ShapeInv, DigestInv, GatherInv, EntryInv, quiet, NEW a \in Actions
  PROVE  \A f \in DOMAIN inputs[a] : inputs[a][f] = disk[f]
BY DEF DigestInv, Agrees

\* A restored or matching action is as its record says.
LEMMA CachedIsFresh ==
  ASSUME ShapeInv, DigestInv, OrderInv, GatherInv, EntryInv, NEW a \in Actions,
         Hit(a) \/ Restore(a)
  PROVE  /\ \A f \in Outputs[a] : disk'[f] # Garbage
         /\ quiet => Fresh(a)'
<1>. USE DEF store, process, history
<1>1. /\ a \in Recorded /\ Entry(a).inputs = inputs[a] /\ phase[a] = "hashing"
      /\ DOMAIN inputs[a] = Declared[a] \cup Entry(a).discovered
      /\ journal' = journal
  BY DEF Hit, Restore, Decided, KeyMatches, Wanted
<1>2. \A f \in Outputs[a] : disk'[f] = Entry(a).outputs[f]
  <2>1. CASE Hit(a)
    BY <2>1, OutputDigest DEF Hit, Intact
  <2>2. CASE Restore(a)
    BY <2>2, Ownership DEF Restore, Writing
  <2>. QED
    BY <2>1, <2>2
<1>3. \A f \in DOMAIN inputs[a] : disk'[f] = disk[f]
  <2>1. \A f \in Files \ Outputs[a] : disk'[f] = disk[f]
    BY DEF Hit, Restore, Writing
  <2>2. DOMAIN inputs[a] \subseteq Files \ Outputs[a]
    BY <1>1, GatheredIsReadable, WrittenIsUngathered, Ownership
  <2>. QED
    BY <2>1, <2>2
<1>4. \A f \in Outputs[a] : Entry(a).outputs[f] # Garbage
  BY <1>1 DEF EntryInv
<1>5. ASSUME quiet
      PROVE  Fresh(a)'
  <2>1. \A f \in DOMAIN inputs[a] : inputs[a][f] = disk'[f]
    BY <1>3, <1>5, QuietDigests
  <2>2. a \in Recorded' /\ Entry(a)' = Entry(a)
    BY <1>1 DEF Recorded, Entry
  <2>. QED
    BY <1>1, <1>2, <2>1, <2>2 DEF Fresh
<1>. QED
  BY <1>2, <1>4, <1>5

\* So is one that was just recorded.
LEMMA ExecutedIsFresh ==
  ASSUME CommandsWriteContents, ShapeInv, DigestInv, GatherInv, CommandInv, EntryInv,
         NEW a \in Actions, RecordEntry(a)
  PROVE  /\ \A f \in Outputs[a] : disk'[f] # Garbage
         /\ quiet => Fresh(a)'
<1>1. /\ phase[a] = "record" /\ a \in Recorded' /\ Entry(a)'.inputs = inputs[a]
      /\ Entry(a)'.discovered = DOMAIN view[a] \ Declared[a]
      /\ \A f \in Outputs[a] : Entry(a)'.outputs[f] = Digest(f)
      /\ disk' = disk
  BY RecordAdded
<1>2. \A f \in Outputs[a] : disk[f] = Makes(a, f, view[a]) /\ Digest(f) = disk[f]
  BY <1>1, OutputDigest DEF CommandInv
<1>3. Declared[a] \cup (DOMAIN view[a] \ Declared[a]) = DOMAIN inputs[a]
  BY <1>1, RecordIsOfRun
<1>4. ASSUME quiet
      PROVE  Fresh(a)'
  <2>1. \A f \in DOMAIN inputs[a] : inputs[a][f] = disk[f]
    BY <1>4, QuietDigests
  <2>. QED
    BY <1>1, <1>2, <1>3, <2>1 DEF Fresh
<1>. QED
  BY <1>1, <1>2, <1>4 DEF CommandsWriteContents

\* Where every record is fresh, no action finds its key or its outputs changed.
LEMMA CleanFindsNothing ==
  ASSUME ShapeInv, DigestInv, GatherInv, EntryInv, quiet, NEW a \in Actions, Fresh(a), Decided(a)
  PROVE  KeyMatches(a) /\ Intact(a)
<1>1. a \in Recorded /\ DOMAIN inputs[a] = Declared[a] \cup Entry(a).discovered
  BY DEF Fresh, Decided, Wanted
<1>2. \A f \in DOMAIN inputs[a] : inputs[a][f] = Entry(a).inputs[f]
  BY <1>1, QuietDigests DEF Fresh
<1>3. DOMAIN Entry(a).inputs = DOMAIN inputs[a] /\ IsMap(Entry(a).inputs) /\ IsMap(inputs[a])
  BY <1>1 DEF EntryInv, ShapeInv
<1>4. Entry(a).inputs = inputs[a]
  BY <1>2, <1>3 DEF IsMap
<1>5. \A f \in Outputs[a] : Digest(f) = Entry(a).outputs[f]
  BY OutputDigest DEF Fresh
<1>. QED
  BY <1>1, <1>4, <1>5 DEF KeyMatches, Intact

\* After a step of one action.
LEMMA VerdictActionStep ==
  ASSUME CommandsWriteContents, ShapeInv, QuietInv, DigestInv, OrderInv, GatherInv, CommandInv,
         EntryInv, VerdictInv, NEW a \in Actions, ActionStep(a)
  PROVE  VerdictInv'
<1>. USE DEF store, process, history
<1>1. /\ pc = "build" /\ (quiet' <=> quiet) /\ (clean' <=> clean) /\ phase[a] # "done"
      /\ \A b \in Actions \ {a} : phase'[b] = phase[b] /\ verdict'[b] = verdict[b]
  BY ActionLocal
<1>2. ASSUME NEW b \in Actions, verdict'[b] \in Good
      PROVE  /\ \A f \in Outputs[b] : disk'[f] # Garbage
             /\ quiet => Fresh(b)'
  <2>1. CASE b # a
    <3>1. verdict[b] \in Good /\ phase[b] = "done"
      BY <1>1, <1>2, <2>1, ContentAssumption DEF ShapeInv, Good
    <3>2. /\ \A f \in Outputs[b] : disk[f] # Garbage
          /\ quiet => Fresh(b)
      BY <3>1 DEF VerdictInv
    <3>. QED
      BY <2>1, <3>1, <3>2, DoneIsLeftAlone
  <2>2. CASE b = a
    <3>1. verdict[a] = None
      BY <1>1 DEF ShapeInv
    <3>2. Hit(a) \/ Restore(a) \/ RecordEntry(a)
      BY <1>2, <2>2, <3>1, ContentAssumption
      DEF ActionStep, Enter, HashInput, ReadFile, HashReported, Refuse, Spawn, CommandSucceeds,
          CommandFails, Publish, BookkeepingFails, Done, Good, ShapeInv
    <3>. QED
      BY <2>2, <3>2, CachedIsFresh, ExecutedIsFresh
  <2>. QED
    BY <2>1, <2>2
<1>3. ASSUME clean, NEW b \in Actions
      PROVE  Fresh(b)' /\ phase'[b] \notin Started
  <2>1. quiet /\ \A c \in Actions : Fresh(c) /\ phase[c] \notin Started
    BY <1>1, <1>3 DEF QuietInv, VerdictInv
  <2>2. ~Restore(a) /\ ~Spawn(a)
    BY <2>1, CleanFindsNothing DEF Restore, Spawn
  <2>3. Enter(a) \/ Hit(a) \/ Refuse(a) \/ \E f \in Files : HashInput(a, f)
    BY <2>1, <2>2
    DEF ActionStep, ReadFile, HashReported, CommandSucceeds, CommandFails, Publish, RecordEntry,
        BookkeepingFails, Started
  <2>4. UNCHANGED <<disk, journal>> /\ phase'[a] \in {"hashing", "done"}
    BY <2>3 DEF Enter, Hit, Refuse, HashInput, Done, ShapeInv
  <2>5. Fresh(b)'
    BY <2>1, <2>4, FreshStill DEF Recorded, Entry, Fresh
  <2>. QED
    BY <1>1, <2>1, <2>4, <2>5 DEF Started
<1>. QED
  BY <1>1, <1>2, <1>3 DEF VerdictInv

\* A certified action is as its record says.
LEMMA CertifiedIsFresh ==
  ASSUME ShapeInv, DigestInv, EntryInv, Certify, NEW a \in Certified
  PROVE  /\ \A f \in Outputs[a] : disk[f] # Garbage
         /\ quiet => Fresh(a)
<1>1. a \in Actions /\ Matches(a) /\ a \in Recorded
  BY CertifiedTogether DEF Matches
<1>2. ASSUME NEW f \in Files, GraphDigests(f) \cup PathDigests(f) # {}
      PROVE  Agrees(f, seen[f])
  BY <1>2 DEF Certify, Expected, DigestInv
<1>3. ASSUME NEW f \in Declared[a]
      PROVE  Agrees(f, Entry(a).inputs[f])
  <2>1. Entry(a).inputs[f] \in GraphDigests(f)
    BY <1>1 DEF GraphDigests
  <2>2. GraphDigests(f) = {seen[f]}
    BY <1>1 DEF Matches
  <2>3. f \in Files /\ seen[f] = Entry(a).inputs[f]
    BY <1>1, <2>1, <2>2, Ownership
  <2>. QED
    BY <1>2, <2>1, <2>3
<1>4. ASSUME NEW f \in Outputs[a]
      PROVE  Entry(a).outputs[f] = disk[f]
  <2>1. Entry(a).outputs[f] \in GraphDigests(f)
    BY <1>1 DEF GraphDigests
  <2>2. GraphDigests(f) = {seen[f]}
    BY <1>1 DEF Matches
  <2>3. f \in Files /\ f \notin Sources /\ seen[f] = Entry(a).outputs[f]
    BY <1>1, <2>1, <2>2, Ownership
  <2>. QED
    BY <1>2, <2>1, <2>3 DEF Agrees
<1>5. ASSUME NEW f \in Entry(a).discovered
      PROVE  Agrees(f, Entry(a).inputs[f])
  <2>1. Entry(a).inputs[f] \in PathDigests(f)
    BY <1>1 DEF PathDigests
  <2>2. PathDigests(f) = {seen[f]}
    BY <1>1 DEF Matches
  <2>3. f \in Files /\ seen[f] = Entry(a).inputs[f]
    BY <1>1, <2>1, <2>2, Ownership DEF EntryInv
  <2>. QED
    BY <1>2, <2>1, <2>3
<1>6. \A f \in Outputs[a] : disk[f] # Garbage
  BY <1>1, <1>4 DEF EntryInv
<1>7. ASSUME quiet
      PROVE  Fresh(a)
  BY <1>1, <1>3, <1>4, <1>5, <1>7 DEF Fresh, Agrees
<1>. QED
  BY <1>6, <1>7

\* What good actions leave, and what a clean workspace is.
LEMMA VerdictStep ==
  ASSUME CommandsWriteContents, ShapeInv, ShapeInv', QuietInv, DigestInv, OrderInv, GatherInv,
         CommandInv, EntryInv, VerdictInv, [Next]_vars
  PROVE  VerdictInv'
<1>. USE DEF store, process, history
<1>0. ASSUME NEW a \in Actions, Fresh(a), UNCHANGED journal, \A f \in Files : disk'[f] = disk[f]
      PROVE  Fresh(a)'
  <2>1. a \in Recorded' /\ Entry(a)' = Entry(a) /\ Entry(a).discovered \subseteq WaitsFor(a) \cup Sources
    BY <1>0 DEF Fresh, Recorded, Entry, EntryInv
  <2>. QED
    BY <1>0, <2>1, Ownership, FreshStill
<1>1. ASSUME clean' => clean, UNCHANGED journal, clean => \A f \in Files : disk'[f] = disk[f]
      PROVE  clean' => \A a \in Actions : Fresh(a)'
  BY <1>0, <1>1 DEF VerdictInv
<1>2. CASE \E a \in Actions : ActionStep(a)
  BY <1>2, VerdictActionStep
<1>3. CASE Start \/ Lose \/ Crash
  <2>1. pc' # "build" /\ (clean' => clean) /\ journal' = journal
    BY <1>3 DEF Start, Lose, Crash, Forget
  <2>2. \A a \in Actions : (verdict[a] \notin Good)' /\ (phase[a] \notin Started)'
    BY <2>1, ContentAssumption DEF ShapeInv, Idle, Good, Started
  <2>3. CASE Start
    BY <1>1, <2>1, <2>2, <2>3 DEF Start, VerdictInv
  <2>4. CASE Lose
    <3>1. clean' => disk' = disk
      BY <2>4 DEF Lose
    <3>2. clean' => \A a \in Actions : Fresh(a)'
      BY <1>0, <2>1, <3>1 DEF VerdictInv
    <3>. QED
      BY <2>2, <3>2 DEF VerdictInv
  <2>5. CASE Crash
    <3>1. clean => \A a \in Actions : phase[a] # "running"
      BY DEF VerdictInv, Started
    <3>2. clean => \A f \in Files : disk'[f] = disk[f]
      BY <2>5, <3>1 DEF Crash, Writing
    <3>3. clean' => \A a \in Actions : Fresh(a)'
      BY <1>1, <2>1, <3>2
    <3>. QED
      BY <2>2, <3>3 DEF VerdictInv
  <2>. QED
    BY <1>3, <2>3, <2>4, <2>5
<1>4. CASE Finish
  <2>1. pc' # "build" /\ (clean' => clean \/ (quiet /\ Passed)) /\ journal' = journal /\ disk' = disk
    BY <1>4 DEF Finish, Forget
  <2>2. \A a \in Actions : (verdict[a] \notin Good)' /\ (phase[a] \notin Started)'
    BY <2>1, ContentAssumption DEF ShapeInv, Idle, Good, Started
  <2>3. clean' => \A a \in Actions : Fresh(a)
    BY <2>1 DEF Passed, Good, VerdictInv
  <2>4. clean' => \A a \in Actions : Fresh(a)'
    BY <1>0, <2>1, <2>3
  <2>. QED
    BY <2>2, <2>4 DEF VerdictInv
<1>5. CASE Certify
  <2>1. /\ UNCHANGED <<disk, journal>> /\ (clean' <=> clean) /\ (quiet' <=> quiet)
        /\ \A a \in Actions :
             /\ verdict'[a] = IF a \in Certified THEN "cached" ELSE None
             /\ phase'[a] \in {"done", "waiting"}
    BY <1>5 DEF Certify
  <2>2. ASSUME NEW a \in Actions, verdict'[a] \in Good
        PROVE  /\ \A f \in Outputs[a] : disk'[f] # Garbage
               /\ quiet' => Fresh(a)'
    <3>1. a \in Certified
      BY <2>1, <2>2, ContentAssumption DEF Good
    <3>. QED
      BY <1>0, <1>5, <2>1, <3>1, CertifiedIsFresh
  <2>3. clean' => \A a \in Actions : Fresh(a)'
    BY <1>1, <2>1
  <2>. QED
    BY <2>1, <2>2, <2>3 DEF VerdictInv, Started
<1>6. CASE Sample \/ PreflightFails \/ UNCHANGED vars
  <2>1. /\ UNCHANGED <<disk, journal, verdict, phase>> /\ (clean' <=> clean) /\ (quiet' <=> quiet)
    BY <1>6 DEF Sample, PreflightFails, vars
  <2>2. \A a \in Actions : Fresh(a) => Fresh(a)'
    BY <1>0, <2>1
  <2>. QED
    BY <2>1, <2>2 DEF VerdictInv
<1>7. ASSUME NEW g \in Sources, Edit(g)
      PROVE  VerdictInv'
  <2>1. verdict' = verdict /\ ~quiet' /\ ~clean'
    BY <1>7 DEF Edit
  <2>2. \A a \in Actions : \A f \in Outputs[a] : disk'[f] = disk[f]
    BY <1>7, Ownership DEF Edit, ShapeInv
  <2>. QED
    BY <2>1, <2>2 DEF VerdictInv
<1>. QED
  BY <1>2, <1>3, <1>4, <1>5, <1>6, <1>7 DEF Next

-----------------------------------------------------------------------------
(* A clean workspace is what a build from nothing leaves.                   *)

\* What the rules make of file f when m holds what every other file is built to.
BuiltFrom(m, f) ==
  IF f \in Sources THEN disk[f]
  ELSE LET a == CHOOSE b \in Actions : f \in Outputs[b]
           declared == [g \in Declared[a] |-> m[g]]
           read == [g \in Reads(a, declared) |-> m[g]]
       IN IF \E g \in DOMAIN read : read[g] = Missing THEN Missing ELSE Makes(a, f, read)

Built(m) == m = [f \in Files |-> BuiltFrom(m, f)]

LEMMA CleanOfIsBuilt ==
  ASSUME NEW m, Built(m)
  PROVE  Built(CleanOf)
<1>1. CleanOf = CHOOSE n : n = [f \in Files |-> BuiltFrom(n, f)]
  BY DEF CleanOf, BuiltFrom
<1>. QED
  BY <1>1 DEF Built

\* Of an output, the rules say what its producer's command makes.
LEMMA BuiltOutput ==
  ASSUME NEW m, NEW a \in Actions, NEW f \in Outputs[a], NEW read,
         read = [g \in Reads(a, [g \in Declared[a] |-> m[g]]) |-> m[g]],
         \A g \in DOMAIN read : read[g] # Missing
  PROVE  BuiltFrom(m, f) = Makes(a, f, read)
<1>1. f \notin Sources /\ a = CHOOSE b \in Actions : f \in Outputs[b]
  BY Ownership
<1>. QED
  BY <1>1 DEF BuiltFrom

\* What a command reads depends on the declared sources alone.
LEMMA SameDeclaredSameReads ==
  ASSUME NEW a \in Actions, NEW m, NEW n,
         Declared[a] \subseteq DOMAIN m, Declared[a] \subseteq DOMAIN n,
         \A f \in Declared[a] : m[f] = n[f]
  PROVE  Reads(a, m) = Reads(a, n)
<1>1. Declared[a] \cap DOMAIN m \cap Sources = Declared[a] \cap DOMAIN n \cap Sources
  OBVIOUS
<1>2. \A f \in Declared[a] \cap DOMAIN m \cap Sources : Includes(f, m[f]) = Includes(f, n[f])
  OBVIOUS
<1>. QED
  BY <1>1, <1>2 DEF Reads

\* The run a fresh record is of read what is on disk.
LEMMA FreshIsOfDisk ==
  ASSUME EntryInv, NEW a \in Actions, Fresh(a), NEW w, TrueOf(a, w), NEW f \in DOMAIN w
  PROVE  w[f] = disk[f]
<1>1. Entry(a).inputs[f] = disk[f]
  BY DEF Fresh, TrueOf, EntryInv
<1>2. CASE Entry(a).inputs[f] # w[f]
  <2>1. w[f] \in Versions /\ disk[f] \in Versions /\ disk[f] <= w[f] /\ w[f] <= disk[f]
    BY <1>1, <1>2 DEF TrueOf
  <2>2. w[f] \in Nat /\ disk[f] \in Nat
    BY <2>1, VersionsAreNumbers
  <2>. QED
    BY <2>1, <2>2
<1>. QED
  BY <1>1, <1>2

\* Where every record is fresh the disk is as the rules say, file by file.
LEMMA FreshIsBuilt ==
  ASSUME ShapeInv, EntryInv, TruthInv, \A a \in Actions : Fresh(a)
  PROVE  Built([f \in Files |-> disk[f]])
<1>. DEFINE now == [f \in Files |-> disk[f]]
<1>1. ASSUME NEW f \in Files
      PROVE  BuiltFrom(now, f) = disk[f]
  <2>1. CASE f \in Sources
    BY <2>1 DEF BuiltFrom
  <2>2. CASE f \notin Sources
    <3>1. PICK a \in Actions : f \in Outputs[a]
      BY <2>2 DEF Files, Generated
    <3>2. PICK w : TrueOf(a, w)
      BY DEF TruthInv, Fresh
    <3>3. /\ DOMAIN w = Declared[a] \cup Entry(a).discovered
          /\ DOMAIN w \subseteq Files /\ Declared[a] \subseteq DOMAIN w
          /\ Reads(a, w) = DOMAIN w /\ IsMap(w) /\ \A g \in DOMAIN w : w[g] # Missing
          /\ Makes(a, f, w) = disk[f]
      BY <3>1, <3>2, Ownership DEF TrueOf, EntryInv, Fresh
    <3>4. \A g \in DOMAIN w : w[g] = now[g]
      BY <3>2, <3>3, FreshIsOfDisk
    <3>. DEFINE declared == [g \in Declared[a] |-> now[g]]
                read == [g \in Reads(a, declared) |-> now[g]]
    <3>5. Reads(a, declared) = DOMAIN w
      <4>1. DOMAIN declared = Declared[a] /\ \A g \in Declared[a] : declared[g] = w[g]
        BY <3>3, <3>4
      <4>2. Reads(a, declared) = Reads(a, w)
        <5>. HIDE DEF declared
        <5>. QED
          BY <3>3, <4>1, SameDeclaredSameReads
      <4>. QED
        BY <3>3, <4>2
    <3>6. read = w
      <4>1. read = [g \in DOMAIN w |-> w[g]]
        BY <3>4, <3>5
      <4>. QED
        BY <3>3, <4>1 DEF IsMap
    <3>7. \A g \in DOMAIN read : read[g] # Missing
      BY <3>3, <3>6
    <3>8. BuiltFrom(now, f) = Makes(a, f, read)
      <4>. HIDE DEF now
      <4>. QED
        BY <3>1, <3>7, BuiltOutput
    <3>. QED
      BY <3>3, <3>6, <3>8
  <2>. QED
    BY <2>1, <2>2
<1>. QED
  BY <1>1 DEF Built

\* The naturals have no endless descent.
LEMMA LeastNumber ==
  ASSUME NEW S, S \subseteq Nat, S # {}
  PROVE  \E x \in S : \A y \in S : ~(y < x)
<1>. DEFINE Below == {pair \in Nat \X Nat : pair[1] < pair[2]}
<1>1. IsWellFoundedOn(Below, Nat)
  BY NatLessThanWellFounded DEF OpToRel
<1>2. PICK x \in S : \A y \in S : <<y, x>> \notin Below
  <2>. HIDE DEF Below
  <2>. QED
    BY <1>1, WFMin
<1>. QED
  BY <1>2

\* No cycles: the rules leave one content for every file.
LEMMA BuiltIsUnique ==
  ASSUME NEW m, NEW n, Built(m), Built(n), NEW f \in Files,
         \A a \in Actions : \A d \in Declared[a] \cap Sources : disk[d] \in Versions
  PROVE  m[f] = n[f]
<1>1. PICK rank \in [Actions -> 1 .. Cardinality(Actions)] :
        \A a \in Actions : \A p \in ProducersOf(a) : rank[p] < rank[a]
  BY AcyclicAssumption
<1>2. \A a \in Actions : rank[a] \in Nat
  <2>1. Cardinality(Actions) \in Nat
    BY GraphAssumption, FS_CardinalityType
  <2>. QED
    BY <1>1, <2>1
<1>. DEFINE Differ == {a \in Actions : \E g \in Outputs[a] : m[g] # n[g]}
<1>3. \A g \in Sources : m[g] = n[g]
  BY Ownership DEF Built, BuiltFrom
<1>4. CASE Differ # {}
  <2>1. PICK a \in Differ : \A b \in Differ : ~(rank[b] < rank[a])
    <3>. DEFINE ranks == {rank[b] : b \in Differ}
    <3>1. ranks \subseteq Nat /\ ranks # {}
      BY <1>2, <1>4
    <3>2. PICK x \in ranks : \A y \in ranks : ~(y < x)
      <4>. HIDE DEF ranks
      <4>. QED
        BY <3>1, LeastNumber
    <3>. QED
      BY <3>2
  <2>2. PICK g \in Outputs[a] : m[g] # n[g]
    BY <2>1
  <2>3. \A d \in WaitsFor(a) : m[d] = n[d]
    <3>1. ASSUME NEW d \in WaitsFor(a), m[d] # n[d]
          PROVE  FALSE
      <4>1. d \in Files /\ d \notin Sources
        BY <1>3, <2>1, <3>1, Ownership
      <4>2. PICK p \in Actions : d \in Outputs[p]
        BY <4>1 DEF Files, Generated
      <4>3. p \in Differ /\ p \in ProducersOf(a)
        BY <3>1, <4>2 DEF ProducersOf
      <4>. QED
        BY <1>1, <2>1, <4>3
    <3>. QED
      BY <3>1
  <2>. DEFINE declared == [d \in Declared[a] |-> n[d]]
  <2>4. [d \in Declared[a] |-> m[d]] = declared
    BY <2>1, <2>3, Ownership
  <2>5. Reads(a, declared) \subseteq WaitsFor(a) \cup Sources
    <3>1. \A d \in Declared[a] \cap Sources : declared[d] \in Versions
      BY <2>1, Ownership DEF Built, BuiltFrom
    <3>2. DOMAIN declared = Declared[a]
      OBVIOUS
    <3>. HIDE DEF declared
    <3>. QED
      BY <2>1, <3>1, <3>2, Ownership, IncludeAssumption DEF Reads
  <2>6. \A d \in Reads(a, declared) : m[d] = n[d]
    BY <1>3, <2>3, <2>5
  <2>7. [d \in Reads(a, declared) |-> m[d]] = [d \in Reads(a, declared) |-> n[d]]
    BY <2>6
  <2>8. g \in Files /\ g \notin Sources /\ a = CHOOSE b \in Actions : g \in Outputs[b]
    BY <2>1, <2>2, Ownership
  <2>9. BuiltFrom(m, g) = BuiltFrom(n, g)
    BY <2>4, <2>7, <2>8 DEF BuiltFrom
  <2>10. m[g] = BuiltFrom(m, g) /\ n[g] = BuiltFrom(n, g)
    BY <2>8 DEF Built
  <2>. QED
    BY <2>2, <2>9, <2>10
<1>. QED
  BY <1>3, <1>4 DEF Files, Generated

\* Where every record is fresh, every output is what a build from nothing makes.
LEMMA FreshIsClean ==
  ASSUME ShapeInv, DigestInv, EntryInv, TruthInv, \A a \in Actions : Fresh(a)
  PROVE  \A f \in Generated : disk[f] = CleanOf[f]
<1>. DEFINE now == [f \in Files |-> disk[f]]
<1>1. Built(now)
  BY FreshIsBuilt
<1>2. Built(CleanOf)
  <2>. HIDE DEF now
  <2>. QED
    BY <1>1, CleanOfIsBuilt
<1>3. ASSUME NEW a \in Actions, NEW d \in Declared[a] \cap Sources
      PROVE  disk[d] \in Versions
  <2>1. PICK w : TrueOf(a, w)
    BY DEF TruthInv, Fresh
  <2>2. d \in DOMAIN w /\ w[d] # Missing
    BY <2>1 DEF TrueOf, EntryInv, Fresh
  <2>. QED
    BY <2>1, <2>2, FreshIsOfDisk DEF DigestInv
<1>4. \A f \in Files : now[f] = CleanOf[f]
  <2>. HIDE DEF now
  <2>. QED
    BY <1>1, <1>2, <1>3, BuiltIsUnique
<1>. QED
  BY <1>4 DEF Files

-----------------------------------------------------------------------------
(* The theorems.                                                            *)

LEMMA BodyInit == Init => BodyInv
<1>. SUFFICES ASSUME Init
              PROVE  BodyInv
  OBVIOUS
<1>1. PICK c \in Checkouts : disk = [f \in Files |-> IF f \in Sources THEN c[f] ELSE Missing]
  BY DEF Init
<1>2. \A f \in Sources : disk[f] \in Versions
  BY <1>1, EnvironmentAssumption, Ownership
<1>3. Recorded = {} /\ \A a \in Actions : /\ phase[a] = "waiting" /\ verdict[a] = None
                                          /\ inputs[a] = Empty /\ view[a] = Empty
  BY DEF Init, Empty, Recorded, Idle, NoMaps, NoVerdicts
<1>4. ShapeInv
  BY <1>1, <1>3, EmptyIsMap DEF Init, ShapeInv, Idle, NoMaps, NoVerdicts, Unseen, Working, Started
<1>5. DigestInv
  BY <1>2, <1>3, EmptyIsMap, ContentAssumption DEF Init, Unseen, DigestInv
<1>6. QuietInv /\ OrderInv
  BY <1>3 DEF Init, QuietInv, OrderInv, Working
<1>7. GatherInv /\ CommandInv /\ RaceInv
  BY <1>3, EmptyIsMap DEF GatherInv, CommandInv, RaceInv
<1>8. EntryInv /\ TruthInv
  BY <1>3 DEF Init, EntryInv, TruthInv
<1>9. VerdictInv
  BY <1>3, ContentAssumption DEF Init, VerdictInv, Good
<1>. QED
  BY <1>4, <1>5, <1>6, <1>7, <1>8, <1>9 DEF BodyInv

LEMMA BodyStep == CommandsWriteContents /\ BodyInv /\ [Next]_vars => BodyInv'
<1>. SUFFICES ASSUME CommandsWriteContents, BodyInv, [Next]_vars
              PROVE  BodyInv'
  OBVIOUS
<1>1. ShapeInv'
  BY ShapeStep DEF BodyInv
<1>2. QuietInv' /\ OrderInv'
  BY QuietStep, OrderStep DEF BodyInv
<1>3. DigestInv'
  BY <1>1, DigestStep DEF BodyInv
<1>4. GatherInv'
  BY <1>1, GatherStep DEF BodyInv
<1>5. CommandInv'
  BY <1>1, CommandStep DEF BodyInv
<1>6. RaceInv'
  BY <1>1, RaceStep DEF BodyInv
<1>7. EntryInv'
  BY EntryStep DEF BodyInv
<1>8. TruthInv'
  BY TruthStep DEF BodyInv
<1>9. VerdictInv'
  BY <1>1, VerdictStep DEF BodyInv
<1>. QED
  BY <1>1, <1>2, <1>3, <1>4, <1>5, <1>6, <1>7, <1>8, <1>9 DEF BodyInv

\* Every state of every history satisfies the inductive invariant.
THEOREM BodyInvHolds ==
  ASSUME CommandsWriteContents
  PROVE  Spec => []BodyInv
<1>1. BodyInv /\ [Next]_vars => BodyInv'
  BY BodyStep
<1>. QED
  BY <1>1, BodyInit, PTL DEF Spec

\* Without edits during builds a record's run read exactly what the record claims.
LEMMA RecordsReproduce ==
  ASSUME EntryInv, TruthInv, ~racing, NEW a \in Recorded
  PROVE  \A f \in Outputs[a] : Entry(a).outputs[f] = Makes(a, f, Entry(a).inputs)
<1>1. PICK w : TrueOf(a, w)
  BY DEF TruthInv
<1>2. w = Entry(a).inputs
  <2>1. /\ DOMAIN w = DOMAIN Entry(a).inputs /\ IsMap(w) /\ IsMap(Entry(a).inputs)
        /\ \A f \in DOMAIN w : Entry(a).inputs[f] = w[f]
    BY <1>1 DEF TrueOf, EntryInv
  <2>. QED
    BY <2>1 DEF IsMap
<1>. QED
  BY <1>1, <1>2 DEF TrueOf

\* Whatever is edited, damaged, collected or killed, what later builds go by is well
\* formed and true: a journal entry is of a run of the command on the inputs it names,
\* and a half-written or damaged output is neither read, stored nor recorded.
THEOREM RecordsAreAlwaysTrue ==
  ASSUME CommandsWriteContents
  PROVE  Spec => []RecordsAreTrue
<1>1. ASSUME BodyInv
      PROVE  RecordsAreTrue
  <2>. USE <1>1 DEF BodyInv
  <2>1. TypeOK
    <3>1. \A a \in Actions :
            /\ phase[a] \in {"waiting", "hashing", "running", "report", "record", "done"}
            /\ verdict[a] \in {None, "cached", "executed", "failed", "skipped"}
            /\ (phase[a] = "done") = (verdict[a] # None)
      BY DEF ShapeInv
    <3>2. \A a \in Actions :
            /\ phase[a] = "running" => DOMAIN inputs[a] = Wanted(a)
            /\ a \in Recorded => DOMAIN Entry(a).inputs = Declared[a] \cup Entry(a).discovered
      BY DEF GatherInv, EntryInv
    <3>3. /\ DOMAIN disk = Files /\ DOMAIN settled = Files /\ DOMAIN seen = Files
          /\ pc \in {"off", "preflight", "build"}
          /\ clean \in BOOLEAN /\ quiet \in BOOLEAN
      BY DEF ShapeInv
    <3>4. \A f \in Files : settled[f] # Missing
      BY DEF DigestInv
    <3>. QED
      BY <3>1, <3>2, <3>3, <3>4 DEF TypeOK
  <2>2. EntriesReproducible
    BY RecordsReproduce DEF EntriesReproducible
  <2>3. PartialNeverUsed
    BY DEF PartialNeverUsed, CommandInv, EntryInv
  <2>. QED
    BY <2>1, <2>2, <2>3 DEF RecordsAreTrue
<1>. QED
  BY <1>1, BodyInvHolds, PTL

\* When a build of a tree nobody edits meanwhile passes, every output is what a build
\* from nothing would make, and until somebody touches a file no build runs a command.
THEOREM CleanBuildAlwaysHolds ==
  ASSUME CommandsWriteContents
  PROVE  Spec => []CleanBuildHolds
<1>1. ASSUME BodyInv
      PROVE  CleanBuildHolds
  <2>. USE <1>1 DEF BodyInv
  <2>1. clean => \A a \in Actions : Fresh(a) /\ phase[a] \notin Started
    BY DEF VerdictInv
  <2>2. CleanBuildEquivalence
    BY <2>1, FreshIsClean DEF CleanBuildEquivalence
  <2>3. NoOpStaysNoOp
    BY <2>1 DEF NoOpStaysNoOp, Started
  <2>. QED
    BY <2>2, <2>3 DEF CleanBuildHolds
<1>. QED
  BY <1>1, BodyInvHolds, PTL
=============================================================================

------------------------------ MODULE Journal ------------------------------
(***************************************************************************)
(* The append-only build journal of frostbuild-core (journal.rs) and the    *)
(* way one engine at a time uses it (exec lib.rs): load, one record per     *)
(* executed action under the `journal` mutex, compaction at the end.        *)
(*                                                                          *)
(* A frame is a record or Unreadable: torn by a crash, cut short by a full  *)
(* disk, or damaged where it lies.  The decoder stops at the first          *)
(* unreadable frame, whatever follows.  A record is abstracted to the       *)
(* action's id and the number of the run that produced it.                  *)
(***************************************************************************)
EXTENDS Integers, Sequences, FiniteSets, FiniteSetsExt, SequencesExt

CONSTANTS
  Ids,          \* journal ids of actions
  MaxRuns,      \* bound: executions of one action
  MaxCrashes,   \* bound: processes that die
  MaxDamages,   \* bound: frames damaged or headers replaced between builds
  CompactAbove, \* compaction threshold (32 MiB in the code), in frames
  ShortWrites,  \* whether the disk may fill up during an append
  Unreadable,   \* a frame that does not decode
  None          \* no extent was loaded

ASSUME BoundAssumption ==
  /\ IsFiniteSet(Ids) /\ Ids # {}
  /\ MaxRuns \in Nat /\ MaxCrashes \in Nat /\ MaxDamages \in Nat
  /\ CompactAbove \in Nat
  /\ ShortWrites \in BOOLEAN

Record == [id : Ids, run : 1 .. MaxRuns]
ASSUME ValueAssumption == Unreadable \notin Record /\ None \notin [file : Nat, valid : Nat]

VARIABLES
  header,    \* what the file starts with: "absent", "foreign" or "ours"
  frames,    \* the frames behind the header
  pc,        \* "off" between builds, else where Journal::record or save is
  left,      \* actions this build still has to execute
  previous,  \* Engine.previous: per id the run the journal had at load
  recorded,  \* the recorder's entries: runs recorded by this build
  loaded,    \* Journal.loaded
  open,      \* whether Journal.writer is set
  current,   \* the action whose record is being written
  runs,      \* history: executions of each action so far
  reported,  \* history: the last run reported complete
  short,     \* history: whether an append of this build was cut short
  behind,    \* history: actions last reported behind such an append
  crashes, damages

disk == <<header, frames>>
memory == <<pc, left, previous, recorded, loaded, open, current>>
history == <<runs, reported, short, behind, crashes, damages>>
vars == <<disk, memory, history>>

-----------------------------------------------------------------------------
(* decode_prefix *)

\* Positions of the validated prefix.
\* Mutant: an unreadable frame is skipped over.
MutReadableSkips(s) == {i \in DOMAIN s : s[i] # Unreadable}

Readable(s) == {i \in DOMAIN s : \A j \in 1 .. i : s[j] # Unreadable}
ValidLen(s) == Cardinality(Readable(s))

\* Later records replace earlier ones; 0 when there is none.
Decoded(h, s, id) ==
  LET at == {i \in Readable(s) : s[i].id = id}
  IN IF h # "ours" \/ at = {} THEN 0 ELSE s[Max(at)].run

Recovered(id) == Decoded(header, frames, id)

-----------------------------------------------------------------------------
Nothing == [id \in Ids |-> 0]

Init ==
  /\ header = "absent" /\ frames = <<>>
  /\ pc = "off" /\ left = {} /\ previous = Nothing /\ recorded = Nothing
  /\ loaded = None /\ open = FALSE /\ current \in Ids
  /\ runs = Nothing /\ reported = Nothing /\ short = FALSE /\ behind = {}
  /\ crashes = 0 /\ damages = 0

\* What load() learns about the file, for the first append to use.
\* Mutant: the header is not counted, so the readable prefix is one short.
MutExtentShort == [file |-> Len(frames), valid |-> ValidLen(frames) - 1]
\* Mutant: the whole file is taken for readable.
MutExtentWhole == [file |-> Len(frames), valid |-> Len(frames)]

Extent == [file |-> Len(frames), valid |-> IF header = "ours" THEN ValidLen(frames) ELSE 0]

\* Engine::new: Journal::load, then an empty recorder with the loaded extent.
\* The build will execute some of the actions.
Start ==
  /\ pc = "off"
  /\ pc' = "idle"
  /\ left' \in SUBSET Ids
  /\ previous' = [id \in Ids |-> Recovered(id)]
  /\ recorded' = Nothing
  /\ loaded' = IF header = "absent" THEN None ELSE Extent
  /\ open' = FALSE /\ short' = FALSE
  /\ UNCHANGED <<disk, current, runs, reported, behind, crashes, damages>>

\* What survives the first append's cut: the loaded extent if the length still
\* matches, a fresh decode otherwise.
\* Mutant: the unreadable tail is left in place.
MutCut(s) == s

Cut(s) ==
  SubSeq(s, 1, IF loaded # None /\ loaded.file = Len(s) THEN loaded.valid ELSE ValidLen(s))

\* The command of `id` succeeded; record() takes the mutex and opens the file.
OpenFor(id) ==
  /\ pc = "idle" /\ id \in left /\ runs[id] < MaxRuns
  /\ left' = left \ {id}
  /\ current' = id
  /\ runs' = [runs EXCEPT ![id] = @ + 1]
  /\ \/ /\ open
        /\ pc' = "frame"
        /\ UNCHANGED <<disk, open>>
     \/ /\ ~open /\ header = "ours"
        /\ frames' = Cut(frames)
        /\ open' = TRUE /\ pc' = "frame"
        /\ UNCHANGED header
     \/ /\ ~open /\ header # "ours"
        /\ header' = "foreign" /\ frames' = <<>>
        /\ pc' = "magic"
        /\ UNCHANGED open
  /\ UNCHANGED <<previous, recorded, loaded, reported, short, behind, crashes, damages>>

\* A created file gets its header; only then is the writer kept.
WriteMagic ==
  /\ pc = "magic"
  /\ header' = "ours" /\ open' = TRUE /\ pc' = "frame"
  /\ UNCHANGED <<frames, left, previous, recorded, loaded, current, history>>

Frame == [id |-> current, run |-> runs[current]]

\* The frame is written whole, and the action is reported complete.
Appended(s) == Append(s, Frame)

WriteFrame ==
  /\ pc = "frame"
  /\ frames' = Appended(frames)
  /\ recorded' = [recorded EXCEPT ![current] = runs[current]]
  /\ reported' = [reported EXCEPT ![current] = runs[current]]
  /\ behind' = IF short THEN behind \cup {current} ELSE behind \ {current}
  /\ pc' = "idle"
  /\ UNCHANGED <<header, left, previous, loaded, open, current, runs, short, crashes, damages>>

\* What an interrupted frame leaves behind.
Torn(s) == {s, Append(s, Unreadable)}

\* The disk fills up: record() returns the error, the action is reported
\* failed, and the engine goes on with the writer it has.
ShortWrite ==
  /\ ShortWrites
  /\ \/ pc = "magic" /\ UNCHANGED frames
     \/ pc = "frame" /\ frames' \in Torn(frames)
  /\ pc' = "idle"
  /\ short' = (short \/ frames' # frames)
  /\ UNCHANGED <<header, left, previous, recorded, loaded, open, current,
                 runs, reported, behind, crashes, damages>>

\* The build is over.  A large journal is compacted, a small one left alone.
Finish ==
  /\ pc = "idle"
  /\ pc' = IF Len(frames) > CompactAbove THEN "compact" ELSE "off"
  /\ UNCHANGED <<disk, left, previous, recorded, loaded, open, current, history>>

\* What compaction keeps: the loaded entries, replaced by this build's.
\* Mutant: only this build's entries are saved.
MutKept(id) == recorded[id]

Kept(id) == IF recorded[id] # 0 THEN recorded[id] ELSE previous[id]

\* save(): a complete file under another name, renamed over the journal.
Compact ==
  /\ pc = "compact"
  /\ header' = "ours"
  /\ frames' = SetToSeq({[id |-> id, run |-> Kept(id)] : id \in {i \in Ids : Kept(i) # 0}})
  /\ behind' = {id \in behind : Kept(id) # reported[id]}
  /\ pc' = "off"
  /\ UNCHANGED <<left, previous, recorded, loaded, open, current, runs, reported, short, crashes, damages>>

\* save() fails before the rename: the journal is untouched.
CompactFails ==
  /\ ShortWrites /\ pc = "compact"
  /\ pc' = "off"
  /\ UNCHANGED <<disk, left, previous, recorded, loaded, open, current, history>>

\* The process dies: between two steps, within a header, within a frame, with
\* a frame written but not reported, or before the compacted file is renamed.
Crash ==
  /\ pc # "off" /\ crashes < MaxCrashes
  /\ \/ UNCHANGED disk
     \/ pc = "frame" /\ frames' \in Torn(frames) \cup {Appended(frames)} /\ UNCHANGED header
  /\ pc' = "off"
  /\ crashes' = crashes + 1
  /\ UNCHANGED <<left, previous, recorded, loaded, open, current, runs, reported, short, behind, damages>>

\* Between builds: a frame rots, the tail is cut off, or another version of
\* frost leaves its own journal.  What no longer decodes is no longer owed.
Damage ==
  /\ pc = "off" /\ damages < MaxDamages /\ header = "ours"
  /\ \/ /\ \E i \in DOMAIN frames : frames' = [frames EXCEPT ![i] = Unreadable]
        /\ UNCHANGED header
     \/ /\ \E n \in 0 .. Len(frames) - 1 : frames' = SubSeq(frames, 1, n)
        /\ UNCHANGED header
     \/ /\ header' = "foreign" /\ UNCHANGED frames
  /\ reported' = [id \in Ids |-> IF Decoded(header', frames', id) < reported[id]
                                 THEN Decoded(header', frames', id) ELSE reported[id]]
  /\ damages' = damages + 1
  /\ UNCHANGED <<memory, runs, short, behind, crashes>>

Next ==
  \/ Start \/ (\E id \in Ids : OpenFor(id)) \/ WriteMagic \/ WriteFrame \/ ShortWrite
  \/ Finish \/ Compact \/ CompactFails \/ Crash \/ Damage

Spec == Init /\ [][Next]_vars

-----------------------------------------------------------------------------
(* Properties *)

Runs == 0 .. MaxRuns

\* The file, the engine's memory and the histories keep their types.
TypeOK ==
  /\ header \in {"absent", "foreign", "ours"}
  /\ frames \in Seq(Record \cup {Unreadable})
  /\ pc \in {"off", "idle", "magic", "frame", "compact"}
  /\ left \subseteq Ids /\ current \in Ids
  /\ previous \in [Ids -> Runs] /\ recorded \in [Ids -> Runs]
  /\ loaded \in {None} \cup [file : Nat, valid : Nat]
  /\ open \in BOOLEAN
  /\ runs \in [Ids -> Runs] /\ reported \in [Ids -> Runs] 
  /\ short \in BOOLEAN /\ behind \subseteq Ids
  /\ crashes \in Nat /\ damages \in Nat

\* What was reported complete is never forgotten: whatever crashes, tears and
\* damaged frames came before, the next load finds the reported run of every
\* action (or one that finished later and died before its report).  All that may
\* be forgotten is what one build appended behind its own torn frame.
CleanReportsRecovered ==
  \A id \in Ids \ behind : reported[id] <= Recovered(id)

\* Between two records the engine's two maps together are what the file says,
\* so that compaction, which rewrites the file from them, changes nothing.
MemoryIsTheFile ==
  pc \in {"idle", "compact"} => \A id \in Ids \ behind : Kept(id) = Recovered(id)

\* The file keeps what was reported, and memory agrees with the file.
ReportsSurvive == TypeOK /\ CleanReportsRecovered /\ MemoryIsTheFile

\* Each build's first append leaves nothing unreadable in the journal, even after
\* a crash or a full disk in the middle of a record: a tear does not cost the
\* records of every later build.
FirstAppendIsClean == ~open /\ open' => ValidLen(frames') = Len(frames')

\* No step of the engine loses a readable record: not the cut of an unreadable
\* tail, not the replacement of a foreign file, not compaction.
EngineLosesNothing == damages' = damages => \A id \in Ids : Recovered(id) <= Recovered(id)'

\* No write of the engine costs a record, an earlier one or a later build's.
WritesCostNothing == [][FirstAppendIsClean /\ EngineLosesNothing]_vars
=============================================================================

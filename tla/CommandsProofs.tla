--------------------------- MODULE CommandsProofs ---------------------------
(***************************************************************************)
(* A watcher runs one program at a time, a fetch vendors what was pinned,    *)
(* self-update goes forward, an isolated action changes what is its own and  *)
(* succeeds with what it made, clients of a daemon have what they asked for, *)
(* an editor shows what is right, a build says what became of it, and what a *)
(* remote cache answers is checked.  A command line starts one of these      *)
(* programs, and the invariant of each is kept by its own steps alone, which *)
(* the last part combines.                                                   *)
(***************************************************************************)
EXTENDS Commands, FiniteSetTheorems, SequenceTheorems, WellFoundedInduction,
        NaturalsInduction, TLAPS

-----------------------------------------------------------------------------
(* Watch: replace_dev_process is the only place where a program starts, and   *)
(* it stops the one that runs first.                                          *)

WatchInv ==
  /\ front \in [loop : Loops, runner : Runners]
  /\ source \in Sources /\ declared \in Manifests
  /\ read \in Loaded \cup {None} /\ (at = "make" => read \in Loaded)
  /\ made \in Loaded \cup {None}
  /\ dev \in [of : Loaded, alive : BOOLEAN] \cup {None}
  /\ running = IF Alive THEN 1 ELSE 0
  /\ at = "stopped" /\ front.loop \notin Once => running = 0

\* When the watcher begins no program of its runs, and nothing is made.
LEMMA WatchStart == WatchInit => WatchInv
BY WatchAssumption DEF WatchInit, WatchInv, Alive, Loaded

\* replace_dev_process stops the program that runs before it starts another: one runs after
\* it, or none when there is none to start.
LEMMA WatchReplaces ==
  ASSUME WatchInv, NEW p \in Loaded \cup {None}, Replace(p)
  PROVE  /\ dev' \in [of : Loaded, alive : BOOLEAN] \cup {None}
         /\ running' = IF Alive' THEN 1 ELSE 0
         /\ p = None => running' = 0
<1>1. running' = IF p = None THEN 0 ELSE 1
  BY DEF WatchInv, Replace, Running
<1>2. CASE p = None
  BY <1>1, <1>2 DEF Replace, Alive
<1>3. CASE p # None
  <2>1. dev' = [of |-> p, alive |-> TRUE] /\ p \in Loaded
    BY <1>3 DEF Replace
  <2>2. dev' \in [of : Loaded, alive : BOOLEAN]
    BY <2>1
  <2>3. dev' # None /\ dev'.alive
    BY <2>1, <2>2, WatchAssumption
  <2> QED BY <1>1, <1>3, <2>2, <2>3 DEF Alive
<1> QED BY <1>2, <1>3

\* Every step of the watcher, of its workspace and of the program it started keeps WatchInv.
LEMMA WatchStep == WatchInv /\ [WatchNext]_watchVars => WatchInv'
<1> SUFFICES ASSUME WatchInv, [WatchNext]_watchVars PROVE WatchInv'
  OBVIOUS
<1> USE DEF WatchInv, workspace, loopVars
<1>1. CASE UNCHANGED watchVars
  BY <1>1 DEF watchVars, Alive
<1>2. CASE Plan
  BY <1>2 DEF Plan, Alive
<1>3. CASE ReadManifest
  <2>1. Current \in Loaded
    BY DEF Current, Loaded
  <2> QED BY <1>3, <2>1 DEF ReadManifest, Alive
<1>4. CASE Make
  <2>1. [read EXCEPT !.source = source] \in Loaded
    BY <1>4 DEF Make, Loaded
  <2> QED BY <1>4, <2>1 DEF Make, Alive
<1>5. CASE Exited
  BY <1>5 DEF Exited, Alive
<1>6. CASE Exclude
  BY <1>6 DEF Exclude, Alive
<1>7. CASE Launch
  <2>1. CASE Argv
    <3>1. Replace(made)
      BY <1>7, <2>1 DEF Launch
    <3>2. /\ dev' \in [of : Loaded, alive : BOOLEAN] \cup {None}
          /\ running' = IF Alive' THEN 1 ELSE 0
      BY <3>1, WatchReplaces
    <3> QED BY <1>7, <3>2 DEF Launch
  <2>2. CASE ~Argv
    BY <1>7, <2>2 DEF Launch, Alive
  <2> QED BY <2>1, <2>2
<1>8. CASE First
  BY <1>8 DEF First, Alive
<1>9. CASE Gather
  BY <1>9 DEF Gather, Alive
<1>10. CASE Deadline
  BY <1>10 DEF Deadline, Alive
<1>11. CASE Stop
  <2>1. Replace(None)
    BY <1>11 DEF Stop
  <2>2. /\ dev' \in [of : Loaded, alive : BOOLEAN] \cup {None}
        /\ running' = IF Alive' THEN 1 ELSE 0
        /\ running' = 0
    BY <2>1, WatchReplaces
  <2> QED BY <1>11, <2>2 DEF Stop
<1>12. CASE EditSource
  BY <1>12 DEF EditSource, Happens, Ended, Alive
<1>13. CASE EditManifest
  BY <1>13 DEF EditManifest, Happens, Ended, Alive
<1>14. CASE ProgramExits
  <2>1. dev \in [of : Loaded, alive : BOOLEAN] /\ running = 1
    BY <1>14 DEF ProgramExits, Alive
  <2>2. dev' = [dev EXCEPT !.alive = FALSE] /\ running' = running - 1
    BY <1>14 DEF ProgramExits
  <2>3. dev' \in [of : Loaded, alive : BOOLEAN] /\ dev'.alive = FALSE
    BY ONLY <2>1, <2>2
  <2>4. running' = 0
    BY ONLY <2>1, <2>2
  <2> QED BY <1>14, <2>3, <2>4 DEF ProgramExits, Happens, Ended, Alive
<1>15. CASE Cancel
  BY <1>15 DEF Cancel, Happens, Ended, Alive
<1> QED BY <1>1, <1>2, <1>3, <1>4, <1>5, <1>6, <1>7, <1>8, <1>9, <1>10, <1>11, <1>12, <1>13,
           <1>14, <1>15 DEF WatchNext, Step

\* WatchInv says that there is one program at a time.
LEMMA WatchMeans == WatchInv => OneProgram
BY DEF WatchInv, OneProgram

-----------------------------------------------------------------------------
(* Acquisition: a tree that has a receipt is what the archive of that receipt *)
(* holds, if its user did not edit it, and so is what a fetch has staged or   *)
(* moved aside; a tree that has none is its user's, and a fetch that may        *)
(* replace its directory has seen that there was none, unless the user has put *)
(* it there since.                                                             *)

Declares == UNION {[N -> Specs] : N \in SUBSET Names}
FetchJobs ==
  [at : {"idle", "next", "stage", "aside", "publish", "restore"},
   names : Declares \cup {{}}, force : BOOLEAN, offline : BOOLEAN,
   name : Names \cup {None}, spec : Specs \cup {None},
   new : Vendored \cup {None}, backup : Vendored \cup {None}]

AcqTypes ==
  /\ fetches \in Declares
  /\ vendored \in [Dirs -> Vendored \cup {None}]
  /\ kept \in [Dirs -> Vendored \cup {None}]
  /\ job \in [Fetchers -> FetchJobs]

Works(f) == job[f].at \in {"stage", "aside", "publish", "restore"}
HasMoved(f) == job[f].at \in {"publish", "restore"}

Genuine(t) ==
  t # None =>
    t.tree \in {Own, Edited}
      \cup (IF t.receipt = None THEN {}
            ELSE {Archives[t.receipt.sha].holds[t.receipt.strip]})

JobIsSound(f) ==
  /\ job[f].at # "idle" => job[f].names \in Declares
  /\ Works(f) => job[f].spec \in Specs /\ job[f].name \in Names
  /\ Works(f) /\ job[f].at # "stage" =>
       job[f].new \in Vendored /\ Genuine(job[f].new) /\ job[f].new.receipt # None
  /\ HasMoved(f) => Genuine(job[f].backup)

IsUsersOwn(t) == t # None /\ t.receipt = None

OwnIsKept(d) == d \notin overtaken /\ IsUsersOwn(kept[d]) => vendored[d] = kept[d]

Spares(f) ==
  job[f].at \in {"stage", "aside"} /\ job[f].spec.dir \notin overtaken =>
    ~IsUsersOwn(kept[job[f].spec.dir])

HasBackup(f, d) == HasMoved(f) /\ job[f].spec.dir = d /\ job[f].backup # None

IsHeld(d) ==
  d \notin lost /\ kept[d] # None => vendored[d] # None \/ \E f \in Fetchers : HasBackup(f, d)

FetchInv ==
  /\ AcqTypes
  /\ \A d \in Dirs : Genuine(vendored[d]) /\ OwnIsKept(d) /\ IsHeld(d)
  /\ \A f \in Fetchers : JobIsSound(f) /\ Spares(f)

UpdateInv ==
  /\ latest \in Releases
  /\ update # None =>
       update \in Releases /\ ~update.draft /\ update.version > installed.version

\* Before the first fetch nothing is vendored but what its user put there.
LEMMA AcqStart == AcqInit => FetchInv /\ UpdateInv
<1> SUFFICES ASSUME AcqInit PROVE FetchInv /\ UpdateInv
  OBVIOUS
<1>1. Idle \in FetchJobs
  BY DEF Idle, FetchJobs
<1>2. Tree(None, Own) \in Vendored
  BY DEF Tree, Vendored, Contents
<1>3. fetches \in Declares
  <2>1. fetches \in Declarations
    BY DEF AcqInit
  <2>2. DOMAIN fetches \in SUBSET Names
    BY <2>1 DEF Names
  <2>3. fetches \in [DOMAIN fetches -> Specs]
    BY <2>1, AcqAssumption
  <2> QED BY <2>2, <2>3 DEF Declares
<1>4. AcqTypes
  BY <1>1, <1>2, <1>3 DEF AcqInit, AcqTypes
<1>5. \A d \in Dirs : Genuine(vendored[d]) /\ OwnIsKept(d) /\ IsHeld(d)
  BY <1>2 DEF AcqInit, Genuine, OwnIsKept, IsUsersOwn, IsHeld, Tree
<1>6. \A f \in Fetchers : JobIsSound(f) /\ Spares(f)
  BY DEF AcqInit, JobIsSound, Spares, Works, HasMoved, Idle
<1>7. UpdateInv
  BY DEF AcqInit, UpdateInv
<1> QED BY <1>4, <1>5, <1>6, <1>7 DEF FetchInv

\* What a fetch does to its own job leaves those of others alone.
LEMMA JobChanges ==
  ASSUME AcqTypes, NEW f \in Fetchers, NEW new \in FetchJobs, Is(f, new)
  PROVE  /\ job' \in [Fetchers -> FetchJobs] /\ job'[f] = new
         /\ \A g \in Fetchers : g # f => job'[g] = job[g]
BY DEF AcqTypes, Is

\* A fetcher that does nothing has a job of the kind the others are.
LEMMA IdleJob == Idle \in FetchJobs /\ Idle.at = "idle"
BY DEF Idle, FetchJobs

\* A step that changes nothing but a job, and no job that has moved a tree aside, keeps
\* FetchInv.
LEMMA JobStep ==
  ASSUME FetchInv, NEW f \in Fetchers, NEW new \in FetchJobs, Is(f, new),
         UNCHANGED <<fetches, vendored, kept, lost, overtaken>>,
         JobIsSound(f)', Spares(f)', \A d \in Dirs : ~HasBackup(f, d)
  PROVE  FetchInv'
<1>1. /\ AcqTypes' /\ job'[f] = new
      /\ \A g \in Fetchers : g # f => job'[g] = job[g]
  BY JobChanges DEF FetchInv, AcqTypes
<1>2. ASSUME NEW g \in Fetchers PROVE JobIsSound(g)' /\ Spares(g)'
  <2>1. CASE g # f
    <3>1. job'[g] = job[g] /\ UNCHANGED <<kept, overtaken>>
      BY <1>1, <2>1
    <3> QED BY <3>1 DEF FetchInv, JobIsSound, Spares, IsUsersOwn, Works, HasMoved, Genuine
  <2> QED BY <2>1
<1>3. ASSUME NEW d \in Dirs PROVE Genuine(vendored[d])' /\ OwnIsKept(d)' /\ IsHeld(d)'
  <2>1. Genuine(vendored[d])' /\ OwnIsKept(d)'
    BY DEF FetchInv, Genuine, OwnIsKept, IsUsersOwn
  <2>2. \A g \in Fetchers : HasBackup(g, d) => HasBackup(g, d)'
    BY <1>1 DEF HasBackup, HasMoved
  <2>3. IsHeld(d)
    BY DEF FetchInv
  <2> QED BY <2>1, <2>2, <2>3 DEF IsHeld
<1> QED BY <1>1, <1>2, <1>3 DEF FetchInv

\* frost fetch reads the manifest and takes the declarations it was asked for.
LEMMA KeptStartFetch ==
  ASSUME FetchInv, NEW f \in Fetchers, StartFetch(f) PROVE FetchInv'
<1>1. PICK names \in SUBSET DOMAIN fetches \ {{}}, force \in BOOLEAN, offline \in BOOLEAN :
        Is(f, [Idle EXCEPT !.at = "next", !.names = [n \in names |-> fetches[n]],
                           !.force = force, !.offline = offline])
  BY DEF StartFetch
<1> DEFINE new == [Idle EXCEPT !.at = "next", !.names = [n \in names |-> fetches[n]],
                               !.force = force, !.offline = offline]
<1>2. [n \in names |-> fetches[n]] \in Declares
  <2>1. PICK N \in SUBSET Names : fetches \in [N -> Specs]
    BY DEF FetchInv, AcqTypes, Declares
  <2>2. [n \in names |-> fetches[n]] \in [names -> Specs] /\ names \in SUBSET Names
    BY <2>1
  <2> QED BY <2>2 DEF Declares
<1>3. new \in FetchJobs /\ new.at = "next" /\ new.names \in Declares
  BY <1>2 DEF FetchJobs, Idle
<1>4. job[f].at = "idle" /\ UNCHANGED <<fetches, vendored>>
  BY DEF StartFetch
<1> HIDE DEF new
<1>5. /\ job' \in [Fetchers -> FetchJobs] /\ job'[f] = new
      /\ \A g \in Fetchers : g # f => job'[g] = job[g]
  BY <1>1, <1>3, JobChanges DEF FetchInv, new
<1>6. JobIsSound(f)' /\ Spares(f)'
  BY <1>3, <1>5 DEF JobIsSound, Spares, Works, HasMoved
<1>7. CASE Quiet
  <2>1. kept' = vendored
    BY <1>7 DEF StartFetch
  <2>2. \A g \in Fetchers : JobIsSound(g)' /\ Spares(g)'
    BY <1>5, <1>6, <1>7 DEF Quiet, JobIsSound, Spares, Works, HasMoved
  <2>3. AcqTypes'
    BY <1>4, <1>5, <2>1 DEF FetchInv, AcqTypes
  <2>4. \A d \in Dirs : Genuine(vendored[d])' /\ OwnIsKept(d)' /\ IsHeld(d)'
    BY <1>4, <2>1 DEF FetchInv, Genuine, OwnIsKept, IsUsersOwn, IsHeld
  <2> QED BY <2>2, <2>3, <2>4 DEF FetchInv
<1>8. CASE ~Quiet
  <2>1. UNCHANGED <<kept, lost, overtaken>>
    BY <1>8 DEF StartFetch
  <2>2. \A d \in Dirs : ~HasBackup(f, d)
    BY <1>4 DEF HasBackup, HasMoved
  <2> QED BY <1>1, <1>3, <1>4, <1>6, <2>1, <2>2, JobStep DEF new
<1> QED BY <1>7, <1>8

\* A fetch that ends has nothing to restore.
LEMMA EndsSoundly ==
  ASSUME FetchInv, NEW f \in Fetchers, Ends(f) PROVE JobIsSound(f)' /\ Spares(f)'
<1>1. job'[f] = Idle
  BY IdleJob, JobChanges DEF FetchInv, Ends
<1> QED BY <1>1, IdleJob DEF JobIsSound, Spares, Works, HasMoved

\* A fetch that ends before it moves a tree loses none.
LEMMA KeptEnds ==
  ASSUME FetchInv, NEW f \in Fetchers, Ends(f),
         UNCHANGED <<fetches, vendored, kept, lost, overtaken>>, ~HasMoved(f)
  PROVE  FetchInv'
BY IdleJob, EndsSoundly, JobStep DEF Ends, HasBackup

\* check_destination sends a fetch on only where there is no tree without a receipt.
LEMMA KeptCheck ==
  ASSUME FetchInv, NEW f \in Fetchers, Check(f) PROVE FetchInv'
<1>1. job[f].at = "next" /\ UNCHANGED <<fetches, vendored, kept, lost, overtaken>>
  BY DEF Check
<1>2. ~HasMoved(f) /\ job[f] \in FetchJobs /\ job[f].names \in Declares
  BY <1>1 DEF HasMoved, FetchInv, AcqTypes, JobIsSound
<1>3. CASE Ends(f)
  BY <1>1, <1>2, <1>3, KeptEnds
<1>4. CASE ~Ends(f)
  <2>1. PICK name \in DOMAIN job[f].names :
          LET spec == job[f].names[name]
              there == vendored[spec.dir]
              rest == [n \in DOMAIN job[f].names \ {name} |-> job[f].names[n]]
          IN \/ Is(f, [job[f] EXCEPT !.names = rest])
             \/ /\ Replaceable(there, name, spec)
                /\ Is(f, [job[f] EXCEPT !.at = "stage", !.names = rest, !.name = name,
                                        !.spec = spec])
    BY <1>1, <1>4 DEF Check
  <2> DEFINE spec == job[f].names[name]
             rest == [n \in DOMAIN job[f].names \ {name} |-> job[f].names[n]]
  <2>2. PICK N \in SUBSET Names : job[f].names \in [N -> Specs]
    BY <1>2 DEF Declares
  <2>3. spec \in Specs /\ name \in Names /\ rest \in Declares /\ spec.dir \in Dirs
    <3>1. rest \in [N \ {name} -> Specs] /\ N \ {name} \in SUBSET Names
      BY <2>2
    <3>2. rest \in Declares
      BY <3>1 DEF Declares
    <3>3. spec \in Specs /\ name \in Names
      BY <2>2
    <3>4. spec.dir \in Dirs
      BY <3>3, AcqAssumption
    <3> QED BY <3>2, <3>3, <3>4
  <2> HIDE DEF spec, rest
  <2>4. CASE Is(f, [job[f] EXCEPT !.names = rest])
    <3> DEFINE new == [job[f] EXCEPT !.names = rest]
    <3>1. new \in FetchJobs /\ new.at = "next" /\ new.names = rest
      BY <1>1, <1>2, <2>3 DEF FetchJobs
    <3> HIDE DEF new
    <3>2. job'[f] = new
      BY <2>4, <3>1, JobChanges DEF FetchInv, new
    <3>3. JobIsSound(f)' /\ Spares(f)'
      BY <2>3, <3>1, <3>2 DEF JobIsSound, Spares, Works, HasMoved
    <3> QED BY <1>1, <1>2, <2>4, <3>1, <3>3, JobStep DEF HasBackup, new
  <2>5. CASE /\ Replaceable(vendored[spec.dir], name, spec)
             /\ Is(f, [job[f] EXCEPT !.at = "stage", !.names = rest, !.name = name,
                                     !.spec = spec])
    <3> DEFINE new == [job[f] EXCEPT !.at = "stage", !.names = rest, !.name = name,
                                     !.spec = spec]
    <3>1. /\ new \in FetchJobs /\ new.at = "stage" /\ new.names = rest /\ new.name = name
          /\ new.spec = spec
      BY <1>1, <1>2, <2>3 DEF FetchJobs
    <3> HIDE DEF new
    <3>2. job'[f] = new
      BY <2>5, <3>1, JobChanges DEF FetchInv, new
    <3>3. JobIsSound(f)'
      BY <2>3, <3>1, <3>2 DEF JobIsSound, Works, HasMoved
    <3>4. spec.dir \in overtaken \/ ~IsUsersOwn(kept[spec.dir])
      BY <2>3, <2>5 DEF FetchInv, OwnIsKept, IsUsersOwn, Replaceable
    <3>5. Spares(f)'
      BY <1>1, <3>1, <3>2, <3>4 DEF Spares, IsUsersOwn
    <3> QED BY <1>1, <1>2, <2>5, <3>1, <3>3, <3>5, JobStep DEF HasBackup, new
  <2> QED BY <2>1, <2>4, <2>5 DEF spec, rest
<1> QED BY <1>3, <1>4

\* What is staged is what the pinned archive holds, with a receipt that says so.
LEMMA KeptStage ==
  ASSUME FetchInv, NEW f \in Fetchers, Stage(f) PROVE FetchInv'
<1>1. job[f].at = "stage" /\ UNCHANGED <<fetches, vendored, kept, lost, overtaken>>
  BY DEF Stage
<1>2. ~HasMoved(f) /\ job[f] \in FetchJobs /\ job[f].spec \in Specs /\ job[f].name \in Names
  BY <1>1 DEF HasMoved, Works, FetchInv, AcqTypes, JobIsSound
<1>3. CASE Ends(f)
  BY <1>1, <1>2, <1>3, KeptEnds
<1>4. CASE ~Ends(f)
  <2> DEFINE spec == job[f].spec
             unpacked == Unpacked(spec.sha, spec.strip)
             staged == Tree(Receipt(job[f].name, spec, unpacked), unpacked)
             new == [job[f] EXCEPT !.at = "aside", !.new = staged]
  <2>1. /\ spec.sha \in DOMAIN Archives /\ unpacked # None /\ Is(f, new)
    BY <1>4 DEF Stage, IsPinned, Downloads
  <2>2. /\ unpacked = Archives[spec.sha].holds[spec.strip]
        /\ spec.strip \in DOMAIN Archives[spec.sha].holds
    BY <2>1 DEF Unpacked
  <2>3. unpacked \in Contents
    <3>1. unpacked \in {Archives[spec.sha].holds[strip] : strip \in DOMAIN Archives[spec.sha].holds}
      BY <2>2
    <3> QED BY <2>1, <3>1 DEF Contents
  <2>4. /\ spec.dir \in Dirs
        /\ spec.sha \in {s.sha : s \in Specs} /\ spec.strip \in {s.strip : s \in Specs}
    BY <1>2, AcqAssumption
  <2> HIDE DEF unpacked
  <2>5. Receipt(job[f].name, spec, unpacked) \in Receipts
    BY <1>2, <2>3, <2>4 DEF Receipt, Receipts
  <2>6. staged \in Vendored /\ staged.receipt \in Receipts /\ staged.tree = unpacked
    BY <2>3, <2>5 DEF Tree, Vendored
  <2>7. staged.receipt.sha = spec.sha /\ staged.receipt.strip = spec.strip
    BY DEF Tree, Receipt
  <2>8. staged.receipt # None /\ Genuine(staged)
    BY <2>2, <2>6, <2>7, AcqAssumption DEF Genuine
  <2> HIDE DEF staged
  <2>9. /\ new \in FetchJobs /\ new.at = "aside" /\ new.names = job[f].names
        /\ new.spec = spec /\ new.new = staged /\ new.name = job[f].name
    BY <1>2, <2>6 DEF FetchJobs
  <2> HIDE DEF new
  <2>10. job'[f] = new
    BY <2>1, <2>9, JobChanges DEF FetchInv
  <2>11. job[f].names \in Declares /\ Spares(f) /\ Works(f)
    BY <1>1 DEF FetchInv, JobIsSound, Works
  <2>12. JobIsSound(f)'
    BY <1>2, <2>6, <2>8, <2>9, <2>10, <2>11 DEF JobIsSound, Works, HasMoved, Genuine
  <2>13. Spares(f)'
    BY <1>1, <2>9, <2>10, <2>11 DEF Spares, IsUsersOwn
  <2> QED BY <1>1, <1>2, <2>1, <2>9, <2>12, <2>13, JobStep DEF HasBackup
<1> QED BY <1>3, <1>4

\* A step of a fetch on its directory keeps FetchInv when what it leaves there is genuine,
\* when the tree that was there is there, or is its backup, and when its user's is.
LEMMA TreeStep ==
  ASSUME FetchInv, NEW f \in Fetchers, NEW new \in FetchJobs, NEW dir \in Dirs,
         NEW there \in Vendored \cup {None},
         job' = [job EXCEPT ![f] = new], vendored' = [vendored EXCEPT ![dir] = there],
         UNCHANGED <<fetches, kept, lost, overtaken>>,
         Genuine(there), Works(f), dir = job[f].spec.dir,
         JobIsSound(f)', Spares(f)', IsHeld(dir)', OwnIsKept(dir)'
  PROVE  FetchInv'
<1>1. /\ AcqTypes' /\ job'[f] = new
      /\ \A g \in Fetchers : g # f => job'[g] = job[g]
  BY DEF FetchInv, AcqTypes
<1>2. vendored'[dir] = there /\ \A d \in Dirs : d # dir => vendored'[d] = vendored[d]
  BY DEF FetchInv, AcqTypes
<1>3. ASSUME NEW g \in Fetchers PROVE JobIsSound(g)' /\ Spares(g)'
  <2>1. CASE g # f
    <3>1. job'[g] = job[g] /\ UNCHANGED <<kept, overtaken>>
      BY <1>1, <2>1
    <3> QED BY <3>1 DEF FetchInv, JobIsSound, Spares, IsUsersOwn, Works, HasMoved, Genuine
  <2> QED BY <2>1
<1>4. ASSUME NEW d \in Dirs PROVE Genuine(vendored[d])' /\ OwnIsKept(d)' /\ IsHeld(d)'
  <2>1. CASE d = dir
    <3>1. Genuine(vendored[d])'
      BY <1>2, <2>1 DEF Genuine
    <3> QED BY <2>1, <3>1
  <2>2. CASE d # dir
    <3>1. vendored'[d] = vendored[d]
      BY <1>2, <2>2
    <3>2. Genuine(vendored[d])' /\ OwnIsKept(d)'
      BY <3>1 DEF FetchInv, Genuine, OwnIsKept, IsUsersOwn
    <3>3. ASSUME NEW g \in Fetchers, HasBackup(g, d) PROVE HasBackup(g, d)'
      BY <1>1, <2>2, <3>3 DEF HasBackup, HasMoved
    <3>4. IsHeld(d)
      BY DEF FetchInv
    <3> QED BY <3>1, <3>2, <3>3, <3>4 DEF IsHeld
  <2> QED BY <2>1, <2>2
<1> QED BY <1>1, <1>3, <1>4 DEF FetchInv

\* A declaration names a directory.
LEMMA SpecHasDir == ASSUME NEW spec \in Specs PROVE spec.dir \in Dirs
BY AcqAssumption

\* The tree that is moved aside is the backup.
LEMMA KeptMoveAside ==
  ASSUME FetchInv, NEW f \in Fetchers, MoveAside(f), NEW dir \in Dirs, dir = job[f].spec.dir
  PROVE  FetchInv'
<1> DEFINE new == [job[f] EXCEPT !.at = "publish", !.backup = vendored[dir]]
<1>1. /\ job[f].at = "aside" /\ Is(f, new) /\ vendored' = [vendored EXCEPT ![dir] = None]
      /\ UNCHANGED <<fetches, kept, lost, overtaken>>
  BY DEF MoveAside
<1>2. /\ job[f] \in FetchJobs /\ Works(f) /\ job[f].spec \in Specs /\ JobIsSound(f) /\ Spares(f)
  BY <1>1 DEF FetchInv, AcqTypes, JobIsSound, Works
<1>4. vendored[dir] \in Vendored \cup {None} /\ Genuine(vendored[dir]) /\ IsHeld(dir)
  BY DEF FetchInv, AcqTypes
<1>5. /\ new \in FetchJobs /\ new.at = "publish" /\ new.backup = vendored[dir]
      /\ new.names = job[f].names /\ new.name = job[f].name /\ new.spec = job[f].spec
      /\ new.new = job[f].new
  BY <1>2, <1>4 DEF FetchJobs
<1> HIDE DEF new
<1>6. job'[f] = new /\ \A g \in Fetchers : g # f => job'[g] = job[g]
  BY <1>1, <1>5, JobChanges DEF FetchInv
<1>7. JobIsSound(f)'
  BY <1>1, <1>2, <1>4, <1>5, <1>6 DEF JobIsSound, Works, HasMoved, Genuine
<1>8. Spares(f)'
  BY <1>5, <1>6 DEF Spares
<1>9. IsHeld(dir)'
  <2>1. CASE vendored[dir] # None
    <3>1. HasBackup(f, dir)'
      BY <1>5, <1>6, <2>1 DEF HasBackup, HasMoved
    <3> QED BY <3>1 DEF IsHeld
  <2>2. CASE vendored[dir] = None
    <3>1. ASSUME NEW g \in Fetchers, HasBackup(g, dir) PROVE HasBackup(g, dir)'
      <4>1. g # f
        BY <1>1, <3>1 DEF HasBackup, HasMoved
      <4>2. job'[g] = job[g]
        BY <1>6, <4>1
      <4> QED BY <1>5, <1>6, <3>1, <4>2 DEF HasBackup, HasMoved
    <3> QED BY <1>1, <1>4, <2>2, <3>1 DEF IsHeld
  <2> QED BY <2>1, <2>2
<1>10. Genuine(None) /\ job' = [job EXCEPT ![f] = new]
  BY <1>1 DEF Genuine, Is
<1>11. OwnIsKept(dir)'
  BY <1>1, <1>2 DEF Spares, OwnIsKept, IsUsersOwn
<1> QED BY <1>1, <1>2, <1>5, <1>7, <1>8, <1>9, <1>10, <1>11, TreeStep

\* What is published is what was staged; a rename that fails leaves the backup to be restored.
LEMMA KeptPublish ==
  ASSUME FetchInv, NEW f \in Fetchers, Publish(f), NEW dir \in Dirs, dir = job[f].spec.dir
  PROVE  FetchInv'
<1>1. job[f].at = "publish" /\ UNCHANGED <<fetches, kept, lost, overtaken>>
  BY DEF Publish
<1>2. /\ job[f] \in FetchJobs /\ Works(f) /\ job[f].spec \in Specs /\ JobIsSound(f) /\ Spares(f)
      /\ job[f].names \in Declares
  BY <1>1 DEF FetchInv, AcqTypes, JobIsSound, Works
<1>4. job[f].new \in Vendored /\ Genuine(job[f].new) /\ Genuine(job[f].backup)
  BY <1>1, <1>2 DEF JobIsSound, HasMoved
<1>5. CASE vendored[dir] = None /\ vendored' = [vendored EXCEPT ![dir] = Complete(f)]
             /\ Is(f, [Idle EXCEPT !.at = "next", !.names = job[f].names,
                                   !.force = job[f].force, !.offline = job[f].offline])
  <2> DEFINE new == [Idle EXCEPT !.at = "next", !.names = job[f].names,
                                 !.force = job[f].force, !.offline = job[f].offline]
  <2>1. new \in FetchJobs /\ new.at = "next" /\ new.names = job[f].names
    BY <1>2 DEF FetchJobs, Idle
  <2> HIDE DEF new
  <2>2. job'[f] = new /\ job' = [job EXCEPT ![f] = new]
    BY <1>5, <2>1, JobChanges DEF FetchInv, new, Is
  <2>3. JobIsSound(f)' /\ Spares(f)'
    BY <1>2, <2>1, <2>2 DEF JobIsSound, Spares, Works, HasMoved
  <2>4. vendored'[dir] = job[f].new /\ job[f].new # None
    BY <1>4, <1>5, AcqAssumption DEF FetchInv, AcqTypes, Complete
  <2>5. IsHeld(dir)'
    BY <2>4 DEF IsHeld
  <2>6. vendored' = [vendored EXCEPT ![dir] = job[f].new]
    BY <1>5 DEF Complete
  <2>7. OwnIsKept(dir)'
    BY <1>1, <1>5 DEF FetchInv, OwnIsKept, IsUsersOwn
  <2> QED BY <1>1, <1>2, <1>4, <2>1, <2>2, <2>3, <2>5, <2>6, <2>7, TreeStep
<1>6. CASE Is(f, [job[f] EXCEPT !.at = "restore"]) /\ UNCHANGED vendored
  <2> DEFINE new == [job[f] EXCEPT !.at = "restore"]
  <2>1. /\ new \in FetchJobs /\ new.at = "restore" /\ new.names = job[f].names
        /\ new.name = job[f].name /\ new.spec = job[f].spec /\ new.new = job[f].new
        /\ new.backup = job[f].backup
    BY <1>2 DEF FetchJobs
  <2> HIDE DEF new
  <2>2. /\ job'[f] = new /\ job' = [job EXCEPT ![f] = new]
        /\ \A g \in Fetchers : g # f => job'[g] = job[g]
    BY <1>6, <2>1, JobChanges DEF FetchInv, new, Is
  <2>3. JobIsSound(f)'
    BY <1>1, <1>2, <1>4, <2>1, <2>2 DEF JobIsSound, Works, HasMoved, Genuine
  <2>4. Spares(f)'
    BY <2>1, <2>2 DEF Spares
  <2>5. ASSUME NEW g \in Fetchers, HasBackup(g, dir) PROVE HasBackup(g, dir)'
    <3>1. CASE g # f
      BY <2>1, <2>2, <2>5, <3>1 DEF HasBackup, HasMoved
    <3>2. CASE g = f
      BY <2>1, <2>2, <2>5, <3>2 DEF HasBackup, HasMoved
    <3> QED BY <3>1, <3>2
  <2>6. IsHeld(dir)
    BY DEF FetchInv
  <2>7. IsHeld(dir)'
    BY <1>1, <1>6, <2>5, <2>6, <2>1, <2>2 DEF IsHeld
  <2>8. /\ vendored' = [vendored EXCEPT ![dir] = vendored[dir]]
        /\ vendored[dir] \in Vendored \cup {None} /\ Genuine(vendored[dir])
    BY <1>6 DEF FetchInv, AcqTypes
  <2>9. OwnIsKept(dir)'
    BY <1>1, <1>6 DEF FetchInv, OwnIsKept, IsUsersOwn
  <2> QED BY <1>1, <1>2, <2>1, <2>2, <2>3, <2>4, <2>7, <2>8, <2>9, TreeStep
<1> QED BY <1>5, <1>6 DEF Publish

\* The backup is put back where there is nothing, and is not needed where there is something.
LEMMA KeptRestored ==
  ASSUME FetchInv, NEW f \in Fetchers, job[f].at = "restore", Ends(f), vendored' = Restored(f),
         UNCHANGED <<fetches, kept, lost, overtaken>>, NEW dir \in Dirs, dir = job[f].spec.dir
  PROVE  FetchInv'
<1> DEFINE there == IF job[f].backup # None /\ vendored[dir] = None THEN job[f].backup
                    ELSE vendored[dir]
<1>2. /\ job[f] \in FetchJobs /\ Works(f) /\ job[f].spec \in Specs /\ JobIsSound(f) /\ HasMoved(f)
  BY DEF FetchInv, AcqTypes, JobIsSound, Works, HasMoved
<1>4. /\ vendored[dir] \in Vendored \cup {None} /\ Genuine(vendored[dir]) /\ IsHeld(dir)
      /\ job[f].backup \in Vendored \cup {None} /\ Genuine(job[f].backup)
  BY <1>2 DEF FetchInv, AcqTypes, JobIsSound, FetchJobs
<1>5. vendored' = [vendored EXCEPT ![dir] = there]
  BY DEF Restored, FetchInv, AcqTypes
<1>6. there \in Vendored \cup {None} /\ Genuine(there)
  BY <1>4
<1>7. /\ job' = [job EXCEPT ![f] = Idle] /\ JobIsSound(f)' /\ Spares(f)'
      /\ \A g \in Fetchers : g # f => job'[g] = job[g]
  BY EndsSoundly, IdleJob, JobChanges DEF FetchInv, Ends, Is
<1>8. vendored'[dir] = there
  BY <1>5 DEF FetchInv, AcqTypes
<1>9. IsHeld(dir)'
  <2>1. CASE there # None
    BY <1>8, <2>1 DEF IsHeld
  <2>2. CASE there = None
    <3>1. vendored[dir] = None /\ job[f].backup = None
      BY <2>2
    <3>2. ASSUME NEW g \in Fetchers, HasBackup(g, dir) PROVE HasBackup(g, dir)'
      <4>1. g # f
        BY <3>1, <3>2 DEF HasBackup
      <4>2. job'[g] = job[g]
        BY <1>7, <4>1
      <4> QED BY <3>2, <4>2 DEF HasBackup, HasMoved
    <3> QED BY <1>4, <3>1, <3>2 DEF IsHeld
  <2> QED BY <2>1, <2>2
<1>10. OwnIsKept(dir)'
  BY <1>8 DEF FetchInv, OwnIsKept, IsUsersOwn
<1> HIDE DEF there
<1> QED BY <1>2, <1>5, <1>6, <1>7, <1>9, <1>10, IdleJob, TreeStep

\* A fetch that ends without its backup loses what Costs says, and no more.
LEMMA KeptCosts ==
  ASSUME FetchInv, NEW f \in Fetchers, Ends(f), lost' = lost \cup Costs(f),
         UNCHANGED <<fetches, vendored, kept, overtaken>>
  PROVE  FetchInv'
<1>1. /\ JobIsSound(f)' /\ Spares(f)' /\ job' \in [Fetchers -> FetchJobs]
      /\ \A g \in Fetchers : g # f => job'[g] = job[g]
  BY EndsSoundly, IdleJob, JobChanges DEF FetchInv, Ends
<1>2. AcqTypes'
  BY <1>1 DEF FetchInv, AcqTypes
<1>3. ASSUME NEW g \in Fetchers PROVE JobIsSound(g)' /\ Spares(g)'
  <2>1. CASE g # f
    <3>1. job'[g] = job[g] /\ UNCHANGED <<kept, overtaken>>
      BY <1>1, <2>1
    <3> QED BY <3>1 DEF FetchInv, JobIsSound, Spares, IsUsersOwn, Works, HasMoved, Genuine
  <2> QED BY <1>1, <2>1
<1>4. ASSUME NEW d \in Dirs PROVE Genuine(vendored[d])' /\ OwnIsKept(d)' /\ IsHeld(d)'
  <2>1. Genuine(vendored[d])' /\ OwnIsKept(d)'
    <3>1. Genuine(vendored[d]) /\ OwnIsKept(d)
      BY DEF FetchInv
    <3> QED BY <3>1 DEF Genuine, OwnIsKept, IsUsersOwn
  <2>2. CASE HasBackup(f, d)
    <3>1. vendored[d] = None => d \in lost'
      BY <2>2 DEF HasBackup, HasMoved, Costs
    <3> QED BY <2>1, <3>1 DEF IsHeld
  <2>3. CASE ~HasBackup(f, d)
    <3>1. ASSUME NEW g \in Fetchers, HasBackup(g, d) PROVE HasBackup(g, d)'
      <4>1. job'[g] = job[g]
        BY <1>1, <2>3, <3>1
      <4> QED BY <3>1, <4>1 DEF HasBackup, HasMoved
    <3>2. IsHeld(d) /\ lost \subseteq lost'
      BY DEF FetchInv
    <3>3. IsHeld(d)'
      <4>1. CASE d \in lost \/ kept[d] = None \/ vendored[d] # None
        BY <3>2, <4>1 DEF IsHeld
      <4>2. CASE \E g \in Fetchers : HasBackup(g, d)
        BY <3>1, <4>2 DEF IsHeld
      <4> QED BY <3>2, <4>1, <4>2 DEF IsHeld
    <3> QED BY <2>1, <3>3
  <2> QED BY <2>1, <2>2, <2>3
<1> QED BY <1>2, <1>3, <1>4 DEF FetchInv

\* A fetch that could not publish restores what was there, or loses it.
LEMMA KeptRestore ==
  ASSUME FetchInv, NEW f \in Fetchers, Restore(f), NEW dir \in Dirs, dir = job[f].spec.dir
  PROVE  FetchInv'
<1>1. CASE vendored' = Restored(f) /\ UNCHANGED lost
  BY <1>1, KeptRestored DEF Restore
<1>2. CASE lost' = lost \cup Costs(f) /\ UNCHANGED vendored
  BY <1>2, KeptCosts DEF Restore
<1> QED BY <1>1, <1>2 DEF Restore

\* A fetch that is killed restores nothing.
LEMMA KeptKillFetch ==
  ASSUME FetchInv, NEW f \in Fetchers, KillFetch(f) PROVE FetchInv'
BY KeptCosts DEF KillFetch

\* The manifest changes; what is vendored does not.
LEMMA KeptEditFetches ==
  ASSUME FetchInv, EditFetches PROVE FetchInv'
<1>1. fetches' \in Declarations /\ UNCHANGED <<vendored, job, kept, lost, overtaken>>
  BY DEF EditFetches
<1>2. fetches' \in Declares
  <2>1. DOMAIN fetches' \in SUBSET Names
    BY <1>1 DEF Names
  <2>2. fetches' \in [DOMAIN fetches' -> Specs]
    BY <1>1, AcqAssumption
  <2> QED BY <2>1, <2>2 DEF Declares
<1>3. AcqTypes'
  BY <1>1, <1>2 DEF FetchInv, AcqTypes
<1>4. \A g \in Fetchers : JobIsSound(g)' /\ Spares(g)'
  BY <1>1 DEF FetchInv, JobIsSound, Spares, IsUsersOwn, Works, HasMoved, Genuine
<1>5. \A d \in Dirs : Genuine(vendored[d])' /\ OwnIsKept(d)' /\ IsHeld(d)'
  BY <1>1 DEF FetchInv, Genuine, OwnIsKept, IsUsersOwn, IsHeld, HasBackup, HasMoved
<1> QED BY <1>3, <1>4, <1>5 DEF FetchInv

\* The user changes a tree, and keeps the receipt or has none; a fetch that may replace it
\* is one that does not know of it.
LEMMA KeptEditTree ==
  ASSUME FetchInv, NEW dir \in Dirs, EditTree(dir) PROVE FetchInv'
<1>1. /\ kept' = [kept EXCEPT ![dir] = vendored'[dir]] /\ UNCHANGED <<fetches, job>>
      /\ lost' = lost \ {dir} /\ overtaken \ {dir} \subseteq overtaken'
      /\ MayReplace(dir) => dir \in overtaken'
      /\ overtaken' \subseteq overtaken \cup {dir}
  BY DEF EditTree
<1>2. /\ vendored \in [Dirs -> Vendored \cup {None}] /\ Genuine(vendored[dir])
      /\ kept \in [Dirs -> Vendored \cup {None}]
  BY DEF FetchInv, AcqTypes
<1>3. PICK there \in Vendored \cup {None} :
        vendored' = [vendored EXCEPT ![dir] = there] /\ Genuine(there)
  <2>1. CASE vendored' = [vendored EXCEPT ![dir] = None]
    BY <2>1 DEF Genuine
  <2>2. CASE vendored' = [vendored EXCEPT ![dir] = Tree(None, Own)]
    <3>1. Tree(None, Own) \in Vendored /\ Genuine(Tree(None, Own))
      BY DEF Genuine, Tree, Vendored, Contents
    <3> QED BY <2>2, <3>1
  <2>3. CASE vendored[dir] # None /\ vendored' = [vendored EXCEPT ![dir].tree = Edited]
    <3> DEFINE t == [vendored[dir] EXCEPT !.tree = Edited]
    <3>1. vendored[dir] \in Vendored
      BY <1>2, <2>3
    <3>2. t \in Vendored /\ t.tree = Edited /\ vendored' = [vendored EXCEPT ![dir] = t]
      BY <2>3, <3>1 DEF Vendored, Contents
    <3> QED BY <3>2 DEF Genuine
  <2>4. CASE vendored[dir] # None /\ vendored' = [vendored EXCEPT ![dir].link = TRUE]
    <3> DEFINE t == [vendored[dir] EXCEPT !.link = TRUE]
    <3>1. vendored[dir] \in Vendored
      BY <1>2, <2>4
    <3>2. /\ t \in Vendored /\ t.tree = vendored[dir].tree
          /\ t.receipt = vendored[dir].receipt /\ vendored' = [vendored EXCEPT ![dir] = t]
      BY <2>4, <3>1 DEF Vendored
    <3>3. Genuine(t)
      BY <1>2, <2>4, <3>2 DEF Genuine
    <3> QED BY <3>2, <3>3
  <2> QED BY <2>1, <2>2, <2>3, <2>4 DEF EditTree
<1>4. AcqTypes'
  BY <1>1, <1>2, <1>3 DEF FetchInv, AcqTypes
<1>5. /\ vendored'[dir] = there /\ kept'[dir] = there
      /\ \A d \in Dirs : d # dir => vendored'[d] = vendored[d] /\ kept'[d] = kept[d]
  BY <1>1, <1>2, <1>3
<1>6. ASSUME NEW g \in Fetchers PROVE JobIsSound(g)' /\ Spares(g)'
  <2>1. JobIsSound(g)'
    BY <1>1 DEF FetchInv, JobIsSound, Works, HasMoved, Genuine
  <2>2. CASE job[g].at \in {"stage", "aside"}
    <3>1. job[g].spec \in Specs /\ Spares(g)
      BY <2>2 DEF FetchInv, JobIsSound, Works
    <3>2. job[g].spec.dir \in Dirs
      BY <3>1, SpecHasDir
    <3>3. CASE job[g].spec.dir = dir
      <4>1. dir \in overtaken'
        BY <1>1, <2>2, <3>3 DEF MayReplace
      <4> QED BY <1>1, <2>1, <3>3, <4>1 DEF Spares
    <3>4. CASE job[g].spec.dir # dir
      BY <1>1, <1>5, <2>1, <3>1, <3>2, <3>4 DEF Spares, IsUsersOwn
    <3> QED BY <3>3, <3>4
  <2> QED BY <1>1, <2>1, <2>2 DEF Spares
<1>7. ASSUME NEW d \in Dirs PROVE Genuine(vendored[d])' /\ OwnIsKept(d)' /\ IsHeld(d)'
  <2>1. CASE d = dir
    <3>1. Genuine(vendored[d])'
      BY <1>3, <1>5, <2>1 DEF Genuine
    <3> QED BY <1>5, <2>1, <3>1 DEF OwnIsKept, IsHeld
  <2>2. CASE d # dir
    <3>1. vendored'[d] = vendored[d] /\ kept'[d] = kept[d]
      BY <1>5, <2>2
    <3>2. Genuine(vendored[d]) /\ OwnIsKept(d) /\ IsHeld(d)
      BY DEF FetchInv
    <3>3. Genuine(vendored[d])'
      BY <3>1, <3>2 DEF Genuine
    <3>4. \A g \in Fetchers : HasBackup(g, d) => HasBackup(g, d)'
      BY <1>1 DEF HasBackup, HasMoved
    <3>5. OwnIsKept(d)'
      BY <1>1, <2>2, <3>1, <3>2 DEF OwnIsKept, IsUsersOwn
    <3> QED BY <1>1, <2>2, <3>1, <3>2, <3>3, <3>4, <3>5 DEF IsHeld
  <2> QED BY <2>1, <2>2
<1> QED BY <1>4, <1>6, <1>7 DEF FetchInv

\* Every step of a fetch, and what its user does meanwhile, keeps FetchInv.
LEMMA FetchStep == FetchInv /\ [FetchNext]_fetchVars => FetchInv'
<1> SUFFICES ASSUME FetchInv, [FetchNext]_fetchVars PROVE FetchInv'
  OBVIOUS
<1>1. CASE UNCHANGED fetchVars
  <2>1. AcqTypes'
    BY <1>1 DEF fetchVars, FetchInv, AcqTypes
  <2>2. \A g \in Fetchers : JobIsSound(g)' /\ Spares(g)'
    BY <1>1 DEF fetchVars, FetchInv, JobIsSound, Spares, IsUsersOwn, Works, HasMoved, Genuine
  <2>3. \A d \in Dirs : Genuine(vendored[d])' /\ OwnIsKept(d)' /\ IsHeld(d)'
    BY <1>1 DEF fetchVars, FetchInv, Genuine, OwnIsKept, IsUsersOwn, IsHeld, HasBackup, HasMoved
  <2> QED BY <2>1, <2>2, <2>3 DEF FetchInv
<1>2. ASSUME NEW f \in Fetchers, Works(f) PROVE \E dir \in Dirs : dir = job[f].spec.dir
  BY <1>2, SpecHasDir DEF FetchInv, JobIsSound
<1>3. ASSUME NEW f \in Fetchers, StartFetch(f) PROVE FetchInv'
  BY <1>3, KeptStartFetch
<1>4. ASSUME NEW f \in Fetchers, Check(f) PROVE FetchInv'
  BY <1>4, KeptCheck
<1>5. ASSUME NEW f \in Fetchers, Stage(f) PROVE FetchInv'
  BY <1>5, KeptStage
<1>6. ASSUME NEW f \in Fetchers, MoveAside(f) PROVE FetchInv'
  <2>1. Works(f)
    BY <1>6 DEF MoveAside, Works
  <2> QED BY <1>2, <1>6, <2>1, KeptMoveAside
<1>7. ASSUME NEW f \in Fetchers, Publish(f) PROVE FetchInv'
  <2>1. Works(f)
    BY <1>7 DEF Publish, Works
  <2> QED BY <1>2, <1>7, <2>1, KeptPublish
<1>8. ASSUME NEW f \in Fetchers, Restore(f) PROVE FetchInv'
  <2>1. Works(f)
    BY <1>8 DEF Restore, Works
  <2> QED BY <1>2, <1>8, <2>1, KeptRestore
<1>9. ASSUME NEW f \in Fetchers, KillFetch(f) PROVE FetchInv'
  BY <1>9, KeptKillFetch
<1>10. CASE EditFetches
  BY <1>10, KeptEditFetches
<1>11. ASSUME NEW dir \in Dirs, EditTree(dir) PROVE FetchInv'
  BY <1>11, KeptEditTree
<1> QED BY <1>1, <1>3, <1>4, <1>5, <1>6, <1>7, <1>8, <1>9, <1>10, <1>11 DEF FetchNext

\* FetchInv says that what is accepted is what was pinned, and that no tree is lost.
LEMMA FetchMeans == FetchInv => VendoredIsPinned
<1> SUFFICES ASSUME FetchInv PROVE AcceptedIsPinned /\ TreesAreKept
  BY DEF VendoredIsPinned
<1>1. AcceptedIsPinned
  <2> SUFFICES ASSUME NEW name \in DOMAIN fetches,
                      NEW spec, spec = fetches[name],
                      NEW there, there = vendored[spec.dir],
                      there # None, Matches(there.receipt, name, spec)
               PROVE  there.tree \in {Archives[spec.sha].holds[spec.strip], Edited, Own}
    BY DEF AcceptedIsPinned
  <2>1. spec \in Specs
    BY DEF FetchInv, AcqTypes, Declares
  <2>2. Genuine(there)
    BY <2>1, SpecHasDir DEF FetchInv
  <2> QED BY <2>2 DEF Genuine, Matches
<1>2. TreesAreKept
  <2> SUFFICES ASSUME NEW d \in Dirs
               PROVE /\ Quiet /\ d \notin lost /\ kept[d] # None => vendored[d] # None
                     /\ d \notin overtaken /\ kept[d] # None /\ kept[d].receipt = None =>
                          vendored[d] = kept[d]
                     /\ vendored[d] # None /\ vendored[d].receipt = None =>
                          vendored[d].tree \in {Own, Edited}
    BY DEF TreesAreKept
  <2>1. Genuine(vendored[d]) /\ OwnIsKept(d) /\ IsHeld(d)
    BY DEF FetchInv
  <2> QED BY <2>1 DEF Genuine, OwnIsKept, IsUsersOwn, IsHeld, HasBackup, HasMoved, Quiet
<1> QED BY <1>1, <1>2

\* Every step of self-update keeps UpdateInv, and installs a later release that is published
\* and whose checksum the archive has.
LEMMA UpdateStep ==
  ASSUME UpdateInv, UpdateNext \/ UNCHANGED updateVars
  PROVE  /\ UpdateInv'
         /\ installed' # installed =>
              /\ installed'.version > installed.version
              /\ \E r \in Releases :
                   ~r.draft /\ r.version = installed'.version /\ r.sums = installed'.archive
<1>1. CASE UNCHANGED updateVars
  BY <1>1 DEF updateVars, UpdateInv
<1>2. CASE FindRelease
  BY <1>2 DEF FindRelease, UpdateInv
<1>3. CASE Announce
  BY <1>3 DEF Announce, UpdateInv
<1>4. CASE Install
  <2>1. UpdateInv'
    BY <1>4 DEF Install, UpdateInv
  <2>2. CASE UNCHANGED installed
    BY <2>1, <2>2
  <2>3. ASSUME NEW r \in Releases, Verified(r.archive, update),
               installed' = [version |-> r.reports, archive |-> r.archive]
        PROVE  /\ installed'.version > installed.version
               /\ \E s \in Releases :
                    ~s.draft /\ s.version = installed'.version /\ s.sums = installed'.archive
    <3>1. /\ update \in Releases /\ ~update.draft /\ update.version > installed.version
      BY <1>4 DEF Install, UpdateInv
    <3>2. r.archive = update.sums /\ r.reports = update.version
      BY <2>3, AcqAssumption DEF Verified
    <3> QED BY <2>3, <3>1, <3>2
  <2> QED BY <1>4, <2>1, <2>2, <2>3 DEF Install
<1> QED BY <1>1, <1>2, <1>3, <1>4 DEF UpdateNext

-----------------------------------------------------------------------------
(* Isolation: a step writes and removes only what the action is answerable    *)
(* for, or it writes through a link, and then the run fails.  The directories *)
(* of a tree are those that have none above them.                             *)

\* The first names of a path are a path.
LEMMA InitialPart ==
  ASSUME NEW s \in Paths, NEW n \in 0..Len(s)
  PROVE  /\ SubSeq(s, 1, n) \in Paths /\ Len(SubSeq(s, 1, n)) = n
         /\ \A i \in 1..n : SubSeq(s, 1, n)[i] = s[i]
<1> USE DEF Paths
<1>1. Len(s) \in Nat /\ n \in Nat
  BY LenProperties
<1>2. \A i \in 1..n : s[i] \in PathNames
  BY <1>1, ElementOfSeq
<1>3. /\ SubSeq(s, 1, n) \in Paths /\ Len(SubSeq(s, 1, n)) = IF 1 <= n THEN n - 1 + 1 ELSE 0
      /\ \A i \in 1..n - 1 + 1 : SubSeq(s, 1, n)[i] = s[1 + i - 1]
  BY <1>1, <1>2, SubSeqProperties
<1>4. n - 1 + 1 = n /\ \A i \in 1..n : 1 + i - 1 = i
  BY <1>1
<1> QED BY <1>1, <1>3, <1>4

\* A path is a prefix of another if the other begins with its names.
LEMMA PrefixNames ==
  ASSUME NEW s \in Paths, NEW t \in Paths
  PROVE  IsPrefix(s, t) <=> Len(s) <= Len(t) /\ \A i \in 1..Len(s) : s[i] = t[i]
<1> SUFFICES ASSUME Len(s) <= Len(t)
             PROVE  SubSeq(s, 1, Len(s)) = SubSeq(t, 1, Len(s))
                      <=> \A i \in 1..Len(s) : s[i] = t[i]
  BY DEF IsPrefix
<1>1. Len(s) \in Nat /\ Len(t) \in Nat /\ Len(s) \in 0..Len(s) /\ Len(s) \in 0..Len(t)
  BY LenProperties DEF Paths
<1>2. /\ SubSeq(s, 1, Len(s)) \in Paths /\ Len(SubSeq(s, 1, Len(s))) = Len(s)
      /\ \A i \in 1..Len(s) : SubSeq(s, 1, Len(s))[i] = s[i]
  BY <1>1, InitialPart
<1>3. /\ SubSeq(t, 1, Len(s)) \in Paths /\ Len(SubSeq(t, 1, Len(s))) = Len(s)
      /\ \A i \in 1..Len(s) : SubSeq(t, 1, Len(s))[i] = t[i]
  BY <1>1, InitialPart
<1>4. (\A i \in 1..Len(s) : s[i] = t[i]) => SubSeq(s, 1, Len(s)) = SubSeq(t, 1, Len(s))
  BY <1>2, <1>3, SeqEqual DEF Paths
<1> QED BY <1>2, <1>3, <1>4

\* A directory above one that a path is in is one that the path is in.
LEMMA PrefixesCompose ==
  ASSUME NEW r \in Paths, NEW s \in Paths, NEW t \in Paths, IsPrefix(r, s), IsPrefix(s, t)
  PROVE  IsPrefix(r, t)
<1>1. Len(r) \in Nat /\ Len(s) \in Nat /\ Len(t) \in Nat
  BY LenProperties DEF Paths
<1>2. Len(r) <= Len(s) /\ \A i \in 1..Len(r) : r[i] = s[i]
  BY PrefixNames
<1>3. Len(s) <= Len(t) /\ \A i \in 1..Len(s) : s[i] = t[i]
  BY PrefixNames
<1>4. Len(r) <= Len(t) /\ \A i \in 1..Len(r) : r[i] = t[i]
  BY <1>1, <1>2, <1>3
<1> QED BY <1>4, PrefixNames

\* A prefix that is another path is shorter.
LEMMA StrictIsShorter ==
  ASSUME NEW s \in Paths, NEW t \in Paths, IsStrictPrefix(s, t)
  PROVE  IsPrefix(s, t) /\ Len(s) < Len(t) /\ Len(s) \in Nat /\ Len(t) \in Nat
<1>1. Len(s) \in Nat /\ Len(t) \in Nat
  BY LenProperties DEF Paths
<1>2. IsPrefix(s, t) /\ s # t /\ Len(s) <= Len(t) /\ \A i \in 1..Len(s) : s[i] = t[i]
  BY PrefixNames DEF IsStrictPrefix
<1>3. Len(s) # Len(t)
  BY <1>2, SeqEqual DEF Paths
<1> QED BY <1>1, <1>2, <1>3

\* The naturals have no endless descent.
LEMMA LeastNumber ==
  ASSUME NEW S, S \subseteq Nat, S # {}
  PROVE  \E n \in S : \A m \in S : n <= m
<1> DEFINE Below == {pair \in Nat \X Nat : pair[1] < pair[2]}
<1>1. IsWellFoundedOn(Below, Nat)
  BY NatLessThanWellFounded DEF OpToRel
<1>2. PICK n \in S : \A m \in S : <<m, n>> \notin Below
  <2> HIDE DEF Below
  <2> QED BY <1>1, WFMin
<1>3. ASSUME NEW m \in S PROVE n <= m
  <2>1. m \in Nat /\ n \in Nat
    OBVIOUS
  <2>2. ~(m < n)
    BY <1>2, <2>1
  <2> QED BY <2>1, <2>2
<1> QED BY <1>3

\* Of the directories above one, and of it, there is one that has none above it.
LEMMA NothingAbove ==
  ASSUME NEW dirs, dirs \subseteq Paths, NEW d \in dirs
  PROVE  \E e \in dirs : IsPrefix(e, d) /\ \A f \in dirs : ~IsStrictPrefix(f, e)
<1> DEFINE Above == {e \in dirs : IsPrefix(e, d)}
           Lengths == {Len(e) : e \in Above}
<1>1. d \in Above
  BY PrefixNames
<1>2. Lengths \subseteq Nat /\ Lengths # {}
  <2>1. \A e \in Above : Len(e) \in Nat
    BY LenProperties DEF Paths
  <2>2. Len(d) \in Lengths
    BY <1>1
  <2> QED BY <2>1, <2>2
<1>3. \A m \in Lengths : m \in Nat
  BY <1>2
<1>4. PICK n \in Lengths : \A m \in Lengths : n <= m
  <2> HIDE DEF Lengths
  <2> QED BY <1>2, LeastNumber
<1>5. PICK e \in Above : Len(e) = n
  OBVIOUS
<1>6. ASSUME NEW f \in dirs, IsStrictPrefix(f, e) PROVE FALSE
  <2>1. IsPrefix(f, e) /\ Len(f) < Len(e) /\ Len(f) \in Nat /\ Len(e) \in Nat
    BY <1>6, StrictIsShorter
  <2>2. f \in Above
    BY <2>1, PrefixesCompose
  <2>3. Len(f) \in Lengths /\ Len(f) < n /\ n \in Nat
    BY <1>5, <2>1, <2>2
  <2> QED BY <1>3, <1>4, <2>1, <2>3
<1> QED BY <1>5, <1>6

\* The directory of a path is a path.
LEMMA FrontIsPath == ASSUME NEW s \in Paths PROVE Front(s) \in Paths
<1>1. Len(s) \in Nat
  BY LenProperties DEF Paths
<1>2. CASE Len(s) = 0
  BY <1>1, <1>2, SubSeqEmpty, EmptySeq DEF Front, Paths
<1>3. CASE Len(s) > 0
  <2>1. Len(s) - 1 \in 0..Len(s)
    BY <1>1, <1>3
  <2> QED BY <2>1, InitialPart DEF Front
<1> QED BY <1>1, <1>2, <1>3

\* What an action is answerable for.
IsOwn(p) == p \in Files \/ \E d \in action.owned \cup action.cleaned : Within(d, p)

\* The rest of the workspace is as it was.
Agrees ==
  \A p \in DOMAIN ws \cup DOMAIN saved :
    ~IsOwn(p) => p \in DOMAIN ws /\ p \in DOMAIN saved /\ ws[p] = saved[p]

\* An input was written through a link, which the run does not survive.
IsSpoilt ==
  /\ strategy = "hardlink" /\ program.dirties # {} /\ verdict # "ok"
  /\ stage \in {"idle", "verify", "drop", "collect"}
  /\ stage = "verify" => Spoils \cap tree.links # {}
  /\ stage = "collect" => batch = "failed"

\* The tree, from when it is made until it is dropped.
TreeIsThere ==
  /\ tree = [files |-> tree.files, links |-> tree.links]
  /\ strategy # "hardlink" => tree.links = {}
  /\ DOMAIN tree.files \subseteq Paths

IsoInv ==
  /\ action \in Actions /\ program \in Programs
  /\ DOMAIN ws \subseteq Paths
  /\ batch \in {"ok", "failed"}
  /\ stage # "idle" => verdict = None
  /\ stage = "drop" => batch = "failed"
  /\ stage = "publish" => todo \subseteq Files \cup action.owned \cup action.cleaned
  /\ stage \in {"prepare", "verify", "publish", "drop"} => Hermetic
  /\ Hermetic /\ stage \in {"run", "verify", "publish"} => TreeIsThere
  /\ Hermetic => Agrees \/ IsSpoilt

\* A build that has not begun has changed nothing.
LEMMA IsoStart == IsoInit => IsoInv
BY IsolationAssumption DEF IsoInit, IsoInv, Agrees

\* What depends on the action, the program and the command line alone stays.
LEMMA SameChoices ==
  ASSUME UNCHANGED choices
  PROVE  /\ Hermetic' = Hermetic /\ Files' = Files /\ Spoils' = Spoils
         /\ \A p : IsOwn(p)' = IsOwn(p)
BY DEF choices, Hermetic, Files, Spoils, CanWrite, Confined, Writable, IsOwn

\* The rest of the workspace stays as it was if a step writes and removes only what the action
\* is answerable for.
LEMMA StaysAgreed ==
  ASSUME Agrees, UNCHANGED <<choices, saved>>,
         \A p \in DOMAIN ws \cup DOMAIN ws' :
           ~IsOwn(p) => p \in DOMAIN ws /\ p \in DOMAIN ws' /\ ws'[p] = ws[p]
  PROVE  Agrees'
BY SameChoices DEF Agrees

\* The names that a program gives are paths.
LEMMA ProductIsPaths ==
  ASSUME IsoInv
  PROVE  DOMAIN Product \subseteq Paths /\ Strays \subseteq Paths
<1>1. program.makes \cup program.litters \cup action.depfile \subseteq Paths
  BY IsolationAssumption DEF IsoInv
<1>2. ASSUME NEW p \in program.makes PROVE Named(p) \in Paths
  <2>1. p \in Paths /\ Front(p) \in Paths
    BY <1>1, FrontIsPath
  <2>2. "renamed" \in PathNames
    BY DEF PathNames
  <2>3. Append(Front(p), "renamed") \in Paths
    BY <2>1, <2>2, AppendProperties DEF Paths
  <2> QED BY <2>1, <2>3 DEF Named
<1> QED BY <1>1, <1>2 DEF Product, Onto, Strays

\* A build removes what the action is answerable for.
LEMMA IsoBeginBuild == ASSUME IsoInv, BeginBuild PROVE IsoInv'
<1>1. /\ stage = "idle" /\ verdict = None /\ ws' = Cleared(ws) /\ saved' = ws
      /\ stage' = (IF Hermetic THEN "prepare" ELSE "run")
      /\ UNCHANGED <<choices, tree, batch, todo, verdict, kills>>
  BY DEF BeginBuild
<1>2. /\ DOMAIN ws' \subseteq DOMAIN ws
      /\ \A p \in DOMAIN ws : ~IsOwn(p) => p \in DOMAIN ws' /\ ws'[p] = ws[p]
  BY <1>1 DEF Cleared, Sans, Under, IsOwn, Files
<1>3. Agrees'
  BY <1>1, <1>2, SameChoices DEF Agrees
<1> QED BY <1>1, <1>2, <1>3, SameChoices DEF IsoInv, choices

\* The tree is made, which writes nothing in the workspace.
LEMMA IsoPrepare == ASSUME IsoInv, Prepare PROVE IsoInv'
<1>1. /\ stage = "prepare" /\ tree' = FreshTree(tree, ws) /\ stage' = "run" /\ Hermetic
      /\ UNCHANGED <<choices, ws, saved, attempt, batch, todo, first, verdict, kills>>
  BY DEF Prepare, IsoInv
<1>2. TreeIsThere'
  BY <1>1 DEF IsoInv, TreeIsThere, FreshTree, Only, choices
<1>3. Agrees
  BY <1>1 DEF IsoInv, IsSpoilt
<1>4. Agrees'
  BY <1>1, <1>3, StaysAgreed
<1> QED BY <1>1, <1>2, <1>4, SameChoices DEF IsoInv, choices

\* A program writes in its tree, and through a link to what it was given.
LEMMA IsoRun == ASSUME IsoInv, Run PROVE IsoInv'
<1> DEFINE After(done, old) ==
      Onto(Onto(Spoilt(old, Spoils), [p \in Strays |-> [of |-> "stray"]]), Only(Product, done))
<1>1. /\ stage = "run" /\ stage' = (IF Hermetic THEN "verify" ELSE "collect")
      /\ UNCHANGED <<choices, saved, attempt, todo, first, verdict, kills>>
      /\ batch' \in {"ok", "failed"}
  BY DEF Run
<1>2. PICK done \in IF Succeeds THEN {DOMAIN Product} ELSE {{}, DOMAIN Product} :
        IF Hermetic
        THEN /\ tree' = [tree EXCEPT !.files = After(done, tree.files)]
             /\ ws' = Spoilt(ws, Spoils \cap tree.links)
        ELSE ws' = After(done, ws) /\ tree' = tree
  BY DEF Run
<1>3. ASSUME NEW old, DOMAIN old \subseteq Paths PROVE DOMAIN After(done, old) \subseteq Paths
  BY <1>3, ProductIsPaths DEF Onto, Spoilt, Only
<1> HIDE DEF After
<1>4. CASE ~Hermetic
  <2>1. DOMAIN ws' \subseteq Paths
    BY <1>2, <1>3, <1>4 DEF IsoInv
  <2> QED BY <1>1, <1>4, <2>1, SameChoices DEF IsoInv, choices
<1>5. CASE Hermetic
  <2>1. DOMAIN ws' = DOMAIN ws
    BY <1>2, <1>5 DEF Spoilt
  <2>2. TreeIsThere /\ Agrees /\ verdict = None
    BY <1>1, <1>5 DEF IsoInv, IsSpoilt
  <2>3. /\ tree'.files = After(done, tree.files) /\ tree'.links = tree.links
        /\ tree' = [files |-> tree'.files, links |-> tree'.links]
    BY <1>2, <1>5, <2>2 DEF TreeIsThere
  <2>4. TreeIsThere'
    BY <1>1, <1>3, <2>2, <2>3 DEF TreeIsThere, choices
  <2>5. CASE Spoils \cap tree.links = {}
    <3>1. \A p \in DOMAIN ws : ws'[p] = ws[p]
      BY <1>2, <1>5, <2>5 DEF Spoilt
    <3>2. Agrees'
      BY <1>1, <2>1, <2>2, <3>1, StaysAgreed
    <3> QED BY <1>1, <1>5, <2>1, <2>4, <3>2, SameChoices DEF IsoInv, choices
  <2>6. CASE Spoils \cap tree.links # {}
    <3>1. strategy = "hardlink" /\ program.dirties # {}
      BY <2>2, <2>6 DEF TreeIsThere, Spoils
    <3>2. IsSpoilt'
      BY <1>1, <1>5, <2>2, <2>3, <2>6, <3>1, SameChoices, IsolationAssumption
         DEF IsSpoilt, choices
    <3> QED BY <1>1, <1>5, <2>1, <2>4, <3>2, SameChoices DEF IsoInv, choices
  <2> QED BY <2>5, <2>6
<1> QED BY <1>4, <1>5

\* A run that wrote through a link fails here.
LEMMA IsoVerifyLinks == ASSUME IsoInv, VerifyLinks PROVE IsoInv'
<1>1. /\ stage = "verify" /\ Hermetic /\ batch' = (IF LinksHold THEN batch ELSE "failed")
      /\ UNCHANGED <<choices, saved, ws, tree, attempt, first, verdict, kills>>
      /\ TreeIsThere /\ verdict = None
  BY DEF VerifyLinks, IsoInv
<1>2. CASE batch' = "ok"
  <2>1. stage' = "publish" /\ todo' = Files \cup action.owned \cup action.cleaned
    BY <1>2 DEF VerifyLinks
  <2>2. LinksHold
    BY <1>1, <1>2
  <2>3. Agrees
    BY <1>1, <2>2 DEF IsoInv, IsSpoilt, LinksHold
  <2>4. Agrees'
    BY <1>1, <2>3, StaysAgreed
  <2> QED BY <1>1, <2>1, <2>4, SameChoices DEF IsoInv, choices, TreeIsThere
<1>3. CASE batch' # "ok"
  <2>1. stage' = "drop" /\ todo' = {}
    BY <1>3 DEF VerifyLinks
  <2>2. batch' = "failed"
    BY <1>1, <1>3 DEF IsoInv
  <2>3. Agrees => Agrees'
    BY <1>1, StaysAgreed
  <2>4. IsSpoilt => IsSpoilt'
    BY <1>1, <2>1, <2>2 DEF IsSpoilt, choices
  <2> QED BY <1>1, <2>1, <2>2, <2>3, <2>4, SameChoices DEF IsoInv, choices
<1> QED BY <1>2, <1>3

\* A file that is published is the action's.
LEMMA IsoMoveFile == ASSUME IsoInv, MoveFile PROVE IsoInv'
<1>1. /\ stage = "publish" /\ Hermetic /\ TreeIsThere
      /\ todo \subseteq Files \cup action.owned \cup action.cleaned
      /\ UNCHANGED <<choices, saved, stage, attempt, batch, first, verdict, kills>>
      /\ Agrees
  BY DEF MoveFile, IsoInv, IsSpoilt
<1>2. PICK p \in todo \cap Files :
        /\ todo' = todo \ {p}
        /\ ws' = IF p \notin DOMAIN tree.files THEN ws
                 ELSE Onto(ws, [q \in {p} |-> IF q \in action.outputs THEN tree.files[q]
                                              ELSE Rebased(tree.files[q])])
        /\ tree' = IF p \in action.outputs THEN [tree EXCEPT !.files = Sans(@, {p})] ELSE tree
  BY DEF MoveFile
<1>3. DOMAIN ws' \subseteq Paths
  BY <1>1, <1>2 DEF IsoInv, TreeIsThere, Onto
<1>4. TreeIsThere'
  <2>1. CASE p \notin action.outputs
    BY <1>1, <1>2, <2>1 DEF TreeIsThere, choices
  <2>2. CASE p \in action.outputs
    <3>1. /\ tree'.files = Sans(tree.files, {p}) /\ tree'.links = tree.links
          /\ tree' = [files |-> tree'.files, links |-> tree'.links]
      BY <1>1, <1>2, <2>2 DEF TreeIsThere
    <3> QED BY <1>1, <3>1 DEF TreeIsThere, Sans, choices
  <2> QED BY <2>1, <2>2
<1>5. ASSUME NEW q \in DOMAIN ws \cup DOMAIN ws', ~IsOwn(q)
      PROVE  q \in DOMAIN ws /\ q \in DOMAIN ws' /\ ws'[q] = ws[q]
  <2>1. q # p
    BY <1>2, <1>5 DEF IsOwn
  <2> QED BY <1>2, <1>5, <2>1 DEF Onto
<1>6. Agrees'
  BY <1>1, <1>5, StaysAgreed
<1> QED BY <1>1, <1>2, <1>3, <1>4, <1>6, SameChoices DEF IsoInv, choices

\* A directory that is published is the action's.
LEMMA IsoMoveDir == ASSUME IsoInv, MoveDir PROVE IsoInv'
<1>1. /\ stage = "publish" /\ Hermetic /\ TreeIsThere /\ todo \cap Files = {}
      /\ todo \subseteq Files \cup action.owned \cup action.cleaned
      /\ UNCHANGED <<choices, saved, stage, attempt, batch, first, verdict, kills>>
      /\ Agrees
  BY DEF MoveDir, IsoInv, IsSpoilt
<1>2. PICK d \in todo :
        IF Under(ws, {d}) # {}
        THEN ws' = Sans(ws, Under(ws, {d})) /\ UNCHANGED <<todo, tree>>
        ELSE /\ ws' = Onto(ws, Only(tree.files, Under(tree.files, {d}))) /\ todo' = todo \ {d}
             /\ tree' = [tree EXCEPT !.files = Sans(@, Under(tree.files, {d}))]
  BY DEF MoveDir
<1>3. d \in action.owned \cup action.cleaned
  BY <1>1
<1>4. DOMAIN ws' \subseteq Paths /\ todo' \subseteq todo
  BY <1>1, <1>2 DEF IsoInv, TreeIsThere, Onto, Only, Sans
<1>5. TreeIsThere'
  <2>1. CASE UNCHANGED tree
    BY <1>1, <2>1 DEF TreeIsThere, choices
  <2>2. CASE tree' = [tree EXCEPT !.files = Sans(@, Under(tree.files, {d}))]
    <3>1. /\ tree'.files = Sans(tree.files, Under(tree.files, {d})) /\ tree'.links = tree.links
          /\ tree' = [files |-> tree'.files, links |-> tree'.links]
      BY <1>1, <2>2 DEF TreeIsThere
    <3> QED BY <1>1, <3>1 DEF TreeIsThere, Sans, choices
  <2> QED BY <1>2, <2>1, <2>2
<1>6. ASSUME NEW q \in DOMAIN ws \cup DOMAIN ws', ~IsOwn(q)
      PROVE  q \in DOMAIN ws /\ q \in DOMAIN ws' /\ ws'[q] = ws[q]
  <2>1. ~Within(d, q)
    BY <1>3, <1>6 DEF IsOwn
  <2>2. CASE ws' = Sans(ws, Under(ws, {d}))
    BY ONLY <1>6, <2>1, <2>2 DEF Sans, Under
  <2>3. CASE ws' = Onto(ws, Only(tree.files, Under(tree.files, {d})))
    <3>1. q \notin DOMAIN Only(tree.files, Under(tree.files, {d}))
      BY <2>1 DEF Only, Under
    <3> QED BY ONLY <1>6, <2>3, <3>1 DEF Onto
  <2> QED BY <1>2, <2>2, <2>3
<1>7. Agrees'
  BY <1>1, <1>6, StaysAgreed
<1> QED BY <1>1, <1>4, <1>5, <1>7, SameChoices DEF IsoInv, choices

\* The tree goes, of a run that failed or that is published.
LEMMA IsoDropTree == ASSUME IsoInv, DropTree PROVE IsoInv'
<1>1. /\ stage \in {"drop", "publish"} /\ stage' = "collect"
      /\ UNCHANGED <<choices, ws, saved, attempt, batch, todo, first, verdict, kills>>
  BY DEF DropTree
<1>2. Agrees => Agrees'
  BY <1>1, StaysAgreed
<1>3. IsSpoilt => IsSpoilt'
  BY <1>1 DEF IsSpoilt, IsoInv, choices
<1> QED BY <1>1, <1>2, <1>3, SameChoices DEF IsoInv, choices

\* A run that failed has its outputs removed; one that did not may be run again.
LEMMA IsoCollect == ASSUME IsoInv, Collect PROVE IsoInv'
<1>1. /\ stage = "collect" /\ UNCHANGED <<choices, saved, tree, batch, todo, kills>>
      /\ verdict = None
  BY DEF Collect, IsoInv
<1>2. /\ DOMAIN ws' \subseteq DOMAIN ws
      /\ \A p \in DOMAIN ws : ~IsOwn(p) => p \in DOMAIN ws' /\ ws'[p] = ws[p]
      /\ \/ stage' = "idle" /\ (batch = "failed" => verdict' = "failed")
         \/ stage' = "prepare" /\ Hermetic /\ batch # "failed" /\ UNCHANGED verdict
         \/ stage' = "run" /\ ~Hermetic /\ batch # "failed" /\ UNCHANGED verdict
  <2>1. CASE batch = "failed"
    BY <2>1 DEF Collect, Finishes, Sans, Under, IsOwn, Files
  <2>2. CASE batch = "ok" /\ ~(action.outputs \subseteq DOMAIN ws)
    BY <2>2 DEF Collect, Finishes
  <2>3. CASE batch = "ok" /\ action.outputs \subseteq DOMAIN ws /\ ~check
    BY <2>3 DEF Collect, Finishes
  <2>4. CASE batch = "ok" /\ action.outputs \subseteq DOMAIN ws /\ check
    BY <2>4 DEF Collect, Sans, Under, IsOwn, Files
  <2> QED BY <2>1, <2>2, <2>3, <2>4 DEF IsoInv
<1>3. Agrees => Agrees'
  BY <1>1, <1>2, StaysAgreed
<1>4. Hermetic /\ IsSpoilt => IsSpoilt'
  BY <1>1, <1>2 DEF IsSpoilt, choices
<1> QED BY <1>1, <1>2, <1>3, <1>4, SameChoices DEF IsoInv, choices

\* The second run changes nothing more, and fails if its links do not hold.
LEMMA IsoVerifyDeterminism == ASSUME IsoInv, VerifyDeterminism PROVE IsoInv'
<1>1. /\ stage = "collect" /\ stage' = "idle"
      /\ batch = "failed" => verdict' = "failed"
      /\ UNCHANGED <<choices, ws, saved, tree, attempt, batch, todo, first, kills>>
  BY DEF VerifyDeterminism, Finishes
<1>2. Agrees => Agrees'
  BY <1>1, StaysAgreed
<1>3. IsSpoilt => IsSpoilt'
  BY <1>1 DEF IsSpoilt, choices
<1> QED BY <1>1, <1>2, <1>3, SameChoices DEF IsoInv, choices

\* A kill leaves everything where it is.
LEMMA IsoKill == ASSUME IsoInv, Kill PROVE IsoInv'
<1>1. /\ stage # "idle" /\ stage' = "idle"
      /\ UNCHANGED <<choices, ws, saved, tree, attempt, batch, todo, first, verdict>>
  BY DEF Kill
<1>2. Agrees => Agrees'
  BY <1>1, StaysAgreed
<1>3. IsSpoilt => IsSpoilt'
  BY <1>1 DEF IsSpoilt, choices
<1> QED BY <1>1, <1>2, <1>3, SameChoices DEF IsoInv, choices

\* Every step of a build of an isolated action keeps IsoInv.
LEMMA IsoStep == IsoInv /\ [IsoNext]_isoVars => IsoInv'
<1> SUFFICES ASSUME IsoInv, [IsoNext]_isoVars PROVE IsoInv'
  OBVIOUS
<1>1. CASE UNCHANGED isoVars
  <2>1. UNCHANGED <<choices, ws, saved, tree, stage, attempt, batch, todo, first, verdict>>
    BY <1>1 DEF isoVars, choices
  <2>2. Agrees => Agrees'
    BY <2>1, StaysAgreed
  <2>3. IsSpoilt => IsSpoilt'
    BY <2>1, SameChoices DEF IsSpoilt, choices
  <2>4. TreeIsThere => TreeIsThere'
    BY <2>1 DEF TreeIsThere, choices
  <2> QED BY <2>1, <2>2, <2>3, <2>4, SameChoices DEF IsoInv, choices
<1> QED BY <1>1, IsoBeginBuild, IsoPrepare, IsoRun, IsoVerifyLinks, IsoMoveFile, IsoMoveDir,
           IsoDropTree, IsoCollect, IsoVerifyDeterminism, IsoKill DEF IsoNext

\* What the namespace shows and the tree does not is what is written to and what is skipped:
\* above a directory that is not placed there is one that is.
LEMMA SeesAlike == ASSUME IsoInv PROVE OneVisibility
<1> SUFFICES /\ HermeticSees(ws) \subseteq SandboxSees(ws)
             /\ SandboxSees(ws) \ HermeticSees(ws) \subseteq Under(ws, Writable \cup Skipped)
  BY DEF OneVisibility
<1>1. ReadonlyDirs(ws) \subseteq Paths
  <2>1. action.inputs \cup action.includes \subseteq Paths
    BY IsolationAssumption DEF IsoInv
  <2> QED BY <2>1, FrontIsPath DEF ReadonlyDirs
<1>2. HermeticSees(ws) \subseteq SandboxSees(ws)
  BY DEF HermeticSees, SandboxSees, Placed, Under
<1>3. ASSUME NEW p \in SandboxSees(ws) \ HermeticSees(ws)
      PROVE  p \in Under(ws, Writable \cup Skipped)
  <2>1. p \in DOMAIN ws /\ \E d \in ReadonlyDirs(ws) \cup Writable : Within(d, p)
    BY <1>3 DEF SandboxSees, HermeticSees, Under
  <2>2. CASE \E d \in Writable : Within(d, p)
    BY <2>1, <2>2 DEF Under
  <2>3. ASSUME NEW d \in ReadonlyDirs(ws), Within(d, p) PROVE p \in Under(ws, Writable \cup Skipped)
    <3>1. PICK e \in ReadonlyDirs(ws) :
            IsPrefix(e, d) /\ \A f \in ReadonlyDirs(ws) : ~IsStrictPrefix(f, e)
      BY <1>1, NothingAbove
    <3>2. Front(p) \in Paths
      BY <2>1, FrontIsPath DEF IsoInv
    <3>3. Within(e, p) /\ e \in Placed(ws)
      BY <1>1, <2>3, <3>1, <3>2, PrefixesCompose DEF Within, Placed
    <3>4. p \in Under(ws, Placed(ws))
      BY <2>1, <3>3 DEF Under
    <3>5. PICK s \in Skipped : Within(s, p)
      BY <1>3, <3>3, <3>4 DEF HermeticSees
    <3> QED BY <2>1, <3>5 DEF Under
  <2> QED BY <2>1, <2>2, <2>3
<1> QED BY <1>2, <1>3

\* IsoInv says that an action sees what it may see and changes what it may change.
LEMMA IsoMeans == IsoInv => IsolationHolds
<1> SUFFICES ASSUME IsoInv PROVE IsolationHolds
  OBVIOUS
<1>1. ASSUME Hermetic PROVE NothingElseIsTouched
  <2> DEFINE rest == (DOMAIN ws \cup DOMAIN saved) \ (Answerable(ws) \cup Answerable(saved))
  <2>1. CASE IsSpoilt
    BY <2>1 DEF IsSpoilt, NothingElseIsTouched
  <2>2. CASE Agrees
    <3>1. ASSUME NEW p \in rest PROVE ~IsOwn(p)
      BY <3>1 DEF Answerable, Under, IsOwn, Files
    <3>2. \A p \in rest : p \in DOMAIN ws /\ p \in DOMAIN saved /\ ws[p] = saved[p]
      BY <2>2, <3>1 DEF Agrees
    <3>3. Only(ws, rest) = Only(saved, rest)
      BY <3>2 DEF Only
    <3> QED BY <3>3 DEF NothingElseIsTouched
  <2> QED BY <1>1, <2>1, <2>2 DEF IsoInv
<1>2. NothingElseIsTouched
  BY <1>1 DEF NothingElseIsTouched
<1> QED BY <1>2, SeesAlike DEF IsolationHolds

-----------------------------------------------------------------------------
(* Isolation: what a success says.  What a first run owns is of that run      *)
(* alone, wherever an earlier one was killed, and what a second run makes is  *)
(* other than that, or has another name, if the program is not deterministic. *)

\* What a run owns, whatever the action is called that owns it.
Mine(p) == p \in action.outputs \/ \E d \in action.owned : Within(d, p)
Renamed(p) == Append(Front(p), "renamed")

\* The files of a run that is the first of a build.
FirstSound(held) ==
  \A p \in DOMAIN held : Mine(p) =>
    /\ p \in program.makes
    /\ program.random => held[p].nonce = 1
    /\ Hermetic => held[p].of = Only(saved, DOMAIN held[p].of)

\* What is there before it.
NotBegun(held) ==
  \A p \in DOMAIN held : ~Mine(p) /\ p \in DOMAIN saved /\ held[p] = saved[p]

\* Where the second run writes other bytes, under names that it does not change.
Kept == {p \in action.outputs \cap program.makes :
           program.random /\ ~(program.renames /\ \E d \in action.owned : Within(d, p))}
Changed(held) == \A p \in Kept \cap DOMAIN held : held[p].nonce = 2
\* The files that it gives another name.
Moved == {p \in program.makes : program.renames /\ \E d \in action.owned : Within(d, p)}
Beside(p, held) == {q \in DOMAIN held : Front(q) = Front(p)}
HasOther(p, held) == Renamed(p) \in DOMAIN held \/ Beside(p, held) = {}

IsReport(bytes) == \E n, r : bytes = [names |-> n, root |-> r]
Based(held) == \A p \in Reports \cap DOMAIN held : held[p].root = "workspace"

FirstRun ==
  /\ stage \in {"prepare", "run"} => NotBegun(ws)
  /\ stage = "run" /\ Hermetic => NotBegun(tree.files)
  /\ stage \in {"verify", "publish", "drop", "collect"} => FirstSound(ws)
  /\ stage \in {"verify", "publish"} => FirstSound(tree.files)

SecondRun ==
  /\ check /\ action.outputs \subseteq DOMAIN first /\ FirstSound(first)
  /\ \A p \in DOMAIN first : Mine(p)
  /\ stage \in {"verify", "publish"} /\ batch = "ok" => Changed(tree.files)
  /\ stage = "verify" /\ batch = "ok" =>
       Kept \cup {Renamed(p) : p \in Moved} \subseteq DOMAIN tree.files
  /\ stage = "publish" =>
       /\ Kept \cap todo \subseteq DOMAIN tree.files
       /\ \A p \in (Kept \cap DOMAIN ws) \ todo : ws[p].nonce = 2
       /\ \A p \in Moved :
            \/ /\ Renamed(p) \in DOMAIN tree.files
               /\ \A d \in action.owned : Within(d, p) => d \in todo
            \/ Beside(p, tree.files) = {} /\ HasOther(p, ws)
  /\ stage = "collect" /\ batch = "ok" => Changed(ws) /\ \A p \in Moved : HasOther(p, ws)

\* The report is in the tree until it is published.
Reporting ==
  /\ stage \in {"verify", "publish"} /\ batch = "ok" =>
       \A p \in Reports : p \in DOMAIN tree.files /\ IsReport(tree.files[p])
  /\ stage = "publish" =>
       batch = "ok" /\ \A p \in (Reports \cap DOMAIN ws) \ todo : ws[p].root = "workspace"
  /\ stage = "collect" /\ batch = "ok" => Based(ws)

VerdictInv ==
  ~action.preserve =>
    /\ attempt \in {1, 2}
    /\ stage # "idle" /\ attempt = 1 => FirstRun
    /\ stage # "idle" /\ attempt = 2 => SecondRun
    /\ Hermetic => Reporting
    /\ verdict = "ok" => VerdictsAreTrue

\* A file that is given another name stays in its directory.
LEMMA RenamedStays ==
  ASSUME IsoInv, NEW p \in program.makes
  PROVE  Front(Renamed(p)) = Front(p)
<1>1. p \in Paths /\ Front(p) \in Seq(PathNames)
  BY IsolationAssumption, FrontIsPath DEF IsoInv, Paths
<1>2. "renamed" \in PathNames
  BY DEF PathNames
<1> DEFINE s == Front(p)
           t == Append(s, "renamed")
<1> HIDE DEF s
<1>3. s \in Seq(PathNames)
  BY <1>1 DEF s
<1>4. t \in Paths /\ Len(t) = Len(s) + 1 /\ (\A i \in 1..Len(s) : t[i] = s[i]) /\ Len(s) \in Nat
  BY <1>2, <1>3, AppendProperties, LenProperties DEF Paths
<1> HIDE DEF t
<1>5. Front(t) = SubSeq(t, 1, Len(s))
  BY <1>4 DEF Front
<1>6. Len(s) \in 0..Len(t)
  BY <1>4
<1>7. /\ Front(t) \in Seq(PathNames) /\ Len(Front(t)) = Len(s)
      /\ \A i \in 1..Len(s) : Front(t)[i] = t[i]
  BY <1>4, <1>5, <1>6, InitialPart DEF Paths
<1>8. Front(t) = s
  BY <1>3, <1>4, <1>7, SeqEqual
<1> QED BY <1>8 DEF s, t, Renamed

\* What is the same, of an action and a program that stay.
LEMMA SameTerms ==
  ASSUME UNCHANGED choices
  PROVE  /\ Hermetic' = Hermetic /\ Kept' = Kept /\ Moved' = Moved /\ Reports' = Reports
         /\ action' = action /\ program' = program /\ check' = check
         /\ \A p : Mine(p)' = Mine(p)
<1>1. action' = action /\ program' = program /\ Hermetic' = Hermetic /\ check' = check
  BY DEF choices, Hermetic
<1> QED BY <1>1 DEF Kept, Moved, Reports, Mine

\* What a program leaves behind of what was there.
Left(done, old) ==
  Onto(Onto(Spoilt(old, Spoils), [p \in Strays |-> [of |-> "stray"]]), Only(Product, done))

LEMMA LeftHas ==
  ASSUME NEW done, NEW old, NEW p
  PROVE  /\ p \in DOMAIN Left(done, old) <=> \/ p \in DOMAIN old
                                             \/ p \in Strays
                                             \/ p \in done \cap DOMAIN Product
         /\ p \in done \cap DOMAIN Product => Left(done, old)[p] = Product[p]
<1> DEFINE new == Only(Product, done)
           under == Onto(Spoilt(old, Spoils), [q \in Strays |-> [of |-> "stray"]])
<1>1. DOMAIN new = done \cap DOMAIN Product /\ \A q \in DOMAIN new : new[q] = Product[q]
  BY DEF Only
<1>2. DOMAIN under = DOMAIN old \cup Strays
  BY DEF Onto, Spoilt
<1>3. Left(done, old) = Onto(under, new)
  BY DEF Left
<1> HIDE DEF new, under
<1> QED BY <1>1, <1>2, <1>3 DEF Onto

\* The files that a program makes have its bytes, and its report names what it read.
LEMMA ProductHas ==
  /\ \A p \in program.makes : Named(p) \in DOMAIN Product /\ Product[Named(p)] = Bytes
  /\ \A q \in DOMAIN Product :
       \/ (\E p \in program.makes : q = Named(p)) /\ Product[q] = Bytes
       \/ q \in action.depfile /\ Product[q] = Report
  /\ \A q \in action.depfile :
       q \in DOMAIN Product /\ ((\A p \in program.makes : q # Named(p)) => Product[q] = Report)
<1> DEFINE names == {Named(p) : p \in program.makes}
           new == [p \in names |-> Bytes]
           old == [p \in action.depfile |-> Report]
<1>1. Product = Onto(old, new)
  BY DEF Product
<1>2. /\ DOMAIN new = names /\ DOMAIN old = action.depfile
      /\ \A q \in names : new[q] = Bytes
      /\ \A q \in action.depfile : old[q] = Report
  OBVIOUS
<1> HIDE DEF new, old
<1>3. /\ DOMAIN Product = action.depfile \cup names
      /\ \A q \in DOMAIN Product : Product[q] = IF q \in names THEN Bytes ELSE Report
  BY <1>1, <1>2 DEF Onto
<1> QED BY <1>3

\* Of what a program writes, the action owns what it makes.
LEMMA OwnsMade ==
  ASSUME IsoInv
  PROVE  /\ \A q \in Strays : ~Mine(q)
         /\ \A q \in action.depfile : Mine(q) => q \in program.makes
         /\ \A q \in Reports : q \notin program.makes
         /\ \A p \in program.makes : Renamed(p) \notin program.makes \cup action.outputs
         /\ \A q \in action.depfile : \A d \in action.owned : ~Within(d, q)
BY ManifestAssumption, ProgramAssumption DEF IsoInv, Strays, Mine, Reports, Renamed

\* The names that a run gives.
LEMMA NamesAre ==
  ASSUME NEW p \in program.makes
  PROVE  /\ attempt = 1 => Named(p) = p
         /\ attempt = 2 => Named(p) = IF p \in Moved THEN Renamed(p) ELSE p
         /\ Named(p) = p \/ (attempt = 2 /\ p \in Moved /\ Named(p) = Renamed(p))
<1>1. CASE \E d \in action.owned : Within(d, p) /\ program.renames /\ attempt = 2
  <2>1. Named(p) = Append(Front(p), "renamed")
    BY <1>1 DEF Named
  <2>2. attempt = 2 /\ p \in Moved
    BY <1>1 DEF Moved
  <2> QED BY <2>1, <2>2 DEF Renamed
<1>2. CASE ~\E d \in action.owned : Within(d, p) /\ program.renames /\ attempt = 2
  <2>1. Named(p) = p
    BY <1>2 DEF Named
  <2>2. attempt = 2 => p \notin Moved
    BY <1>2 DEF Moved
  <2> QED BY <2>1, <2>2
<1> QED BY <1>1, <1>2

\* Where the action keeps nothing, a step has to keep what is said of runs.
LEMMA VerdictFrom ==
  ASSUME UNCHANGED choices, attempt' \in {1, 2}, verdict' # "ok",
         ~action.preserve =>
           /\ stage' # "idle" /\ attempt' = 1 => FirstRun'
           /\ stage' # "idle" /\ attempt' = 2 => SecondRun'
           /\ Hermetic => Reporting'
  PROVE  VerdictInv'
BY SameTerms DEF VerdictInv

LEMMA VerdictStart == IsoInit => VerdictInv
BY IsolationAssumption DEF IsoInit, VerdictInv, Reporting

LEMMA VerdictBeginBuild == ASSUME IsoInv, VerdictInv, BeginBuild PROVE VerdictInv'
<1>1. /\ verdict = None /\ ws' = Cleared(ws) /\ saved' = ws /\ attempt' = 1
      /\ stage' = (IF Hermetic THEN "prepare" ELSE "run") /\ UNCHANGED choices
      /\ verdict' = verdict
  BY DEF BeginBuild
<1>2. ASSUME ~action.preserve PROVE FirstRun'
  <2>1. \A p \in DOMAIN Cleared(ws) : ~Mine(p) /\ p \in DOMAIN ws /\ Cleared(ws)[p] = ws[p]
    BY <1>2 DEF Cleared, Sans, Under, Mine
  <2>2. NotBegun(ws)'
    BY <1>1, <2>1, SameTerms DEF NotBegun
  <2> QED BY <1>1, <2>2, SameTerms DEF FirstRun
<1>3. Reporting'
  BY <1>1 DEF Reporting
<1> QED BY <1>1, <1>2, <1>3, IsolationAssumption, VerdictFrom

LEMMA VerdictPrepare == ASSUME IsoInv, VerdictInv, Prepare PROVE VerdictInv'
<1>1. /\ stage = "prepare" /\ tree' = FreshTree(tree, ws) /\ stage' = "run" /\ verdict = None
      /\ UNCHANGED <<choices, ws, saved, attempt, batch, todo, first, verdict, kills>>
  BY DEF Prepare, IsoInv
<1>2. ASSUME ~action.preserve, attempt = 1 PROVE FirstRun'
  <2>1. NotBegun(ws)
    BY <1>1, <1>2 DEF VerdictInv, FirstRun
  <2>2. \A p \in DOMAIN tree'.files : p \in DOMAIN ws /\ tree'.files[p] = ws[p]
    BY <1>1 DEF FreshTree, Only
  <2>3. NotBegun(ws)' /\ NotBegun(tree.files)'
    BY <1>1, <2>1, <2>2, SameTerms DEF NotBegun
  <2> QED BY <1>1, <2>3 DEF FirstRun
<1>3. ASSUME ~action.preserve, attempt = 2 PROVE SecondRun'
  BY <1>1, <1>3, SameTerms DEF VerdictInv, SecondRun, FirstSound
<1>4. Reporting'
  BY <1>1 DEF Reporting
<1>5. attempt' \in {1, 2} \/ action.preserve
  BY <1>1 DEF VerdictInv
<1>6. CASE action.preserve
  BY <1>1, <1>6, SameTerms DEF VerdictInv
<1> QED BY <1>1, <1>2, <1>3, <1>4, <1>5, <1>6, IsolationAssumption, VerdictFrom

\* What a first run leaves is what the program makes of what was there.
LEMMA LeftIsOfThisRun ==
  ASSUME IsoInv, attempt = 1, NEW done, done \in {{}, DOMAIN Product}, NEW old, NotBegun(old),
         Hermetic => NotBegun(tree.files)
  PROVE  FirstSound(Left(done, old))
<1> DEFINE left == Left(done, old)
<1> SUFFICES ASSUME NEW p \in DOMAIN left, Mine(p)
             PROVE  /\ p \in program.makes
                    /\ program.random => left[p].nonce = 1
                    /\ Hermetic => left[p].of = Only(saved, DOMAIN left[p].of)
  BY DEF FirstSound
<1>1. p \notin DOMAIN old /\ p \notin Strays
  BY OwnsMade DEF NotBegun
<1>2. p \in done \cap DOMAIN Product /\ left[p] = Product[p]
  BY <1>1, LeftHas
<1>3. p \in program.makes
  BY <1>2, ProductHas, OwnsMade, NamesAre
<1>4. left[p] = Bytes
  BY <1>2, <1>3, ProductHas, NamesAre
<1>5. /\ Bytes.of = Only(There, Read)
      /\ program.random => Bytes.nonce = 1
  BY DEF Bytes
<1>6. ASSUME Hermetic PROVE Only(There, Read) = Only(saved, DOMAIN Only(There, Read))
  <2> DEFINE seen == DOMAIN tree.files \cap Read
  <2>1. There = tree.files
    BY <1>6 DEF There
  <2>2. Only(There, Read) = [q \in seen |-> tree.files[q]] /\ DOMAIN Only(There, Read) = seen
    BY <2>1 DEF Only
  <2>3. \A q \in seen : q \in DOMAIN saved /\ tree.files[q] = saved[q]
    BY <1>6 DEF NotBegun
  <2>4. Only(saved, seen) = [q \in seen |-> saved[q]]
    <3>1. DOMAIN saved \cap seen = seen
      BY <2>3
    <3> QED BY <3>1 DEF Only
  <2> QED BY <2>2, <2>3, <2>4
<1> HIDE DEF left
<1> QED BY <1>3, <1>4, <1>5, <1>6

\* What a second run makes is other than what the first made, or has another name.
LEMMA LeftIsOther ==
  ASSUME IsoInv, attempt = 2, NEW old
  PROVE  /\ Changed(Left(DOMAIN Product, old))
         /\ Kept \cup {Renamed(p) : p \in Moved} \subseteq DOMAIN Left(DOMAIN Product, old)
<1> DEFINE left == Left(DOMAIN Product, old)
<1>1. ASSUME NEW p \in program.makes
      PROVE  Named(p) \in DOMAIN left /\ left[Named(p)] = Bytes
  BY ProductHas, LeftHas
<1>2. program.random => Bytes.nonce = 2
  BY DEF Bytes
<1> HIDE DEF left
<1>3. ASSUME NEW p \in Kept PROVE p \in DOMAIN left /\ left[p].nonce = 2
  <2>1. p \in program.makes /\ p \notin Moved /\ program.random
    BY DEF Kept, Moved
  <2>2. Named(p) = p
    BY <2>1, NamesAre
  <2> QED BY <1>1, <1>2, <2>1, <2>2
<1>4. ASSUME NEW p \in Moved PROVE Renamed(p) \in DOMAIN left
  <2>1. p \in program.makes
    BY DEF Moved
  <2>2. Named(p) = Renamed(p)
    BY <2>1, NamesAre
  <2> QED BY <1>1, <2>1, <2>2
<1>5. Changed(left)
  BY <1>3 DEF Changed
<1> QED BY <1>3, <1>4, <1>5 DEF left

\* A program runs: the first time nothing of its own is there, and the second time it writes
\* over what the first made.
LEMMA VerdictRun == ASSUME IsoInv, VerdictInv, Run PROVE VerdictInv'
<1>1. /\ stage = "run" /\ stage' = (IF Hermetic THEN "verify" ELSE "collect") /\ verdict = None
      /\ UNCHANGED <<choices, saved, attempt, todo, first, verdict, kills>>
      /\ batch' = (IF Succeeds THEN "ok" ELSE "failed")
  BY DEF Run, IsoInv
<1>2. PICK done \in IF Succeeds THEN {DOMAIN Product} ELSE {{}, DOMAIN Product} :
        IF Hermetic
        THEN /\ tree' = [tree EXCEPT !.files = Left(done, tree.files)]
             /\ ws' = Spoilt(ws, Spoils \cap tree.links)
        ELSE ws' = Left(done, ws) /\ tree' = tree
  BY DEF Run, Left
<1>3. /\ Hermetic => tree'.files = Left(done, tree.files) /\ DOMAIN ws' = DOMAIN ws
      /\ ~Hermetic => ws' = Left(done, ws)
      /\ done \in {{}, DOMAIN Product} /\ (batch' = "ok" => done = DOMAIN Product)
  <2>1. Hermetic => TreeIsThere
    BY <1>1 DEF IsoInv
  <2> QED BY <1>1, <1>2, <2>1 DEF TreeIsThere, Spoilt
<1>4. ASSUME ~action.preserve, attempt = 1 PROVE FirstRun'
  <2>1. NotBegun(ws) /\ (Hermetic => NotBegun(tree.files))
    BY <1>1, <1>4 DEF VerdictInv, FirstRun
  <2>2. FirstSound(Left(done, ws)) /\ (Hermetic => FirstSound(Left(done, tree.files)))
    BY <1>3, <1>4, <2>1, LeftIsOfThisRun
  <2>3. Hermetic => FirstSound(ws)' /\ FirstSound(tree.files)'
    <3> SUFFICES ASSUME Hermetic PROVE FirstSound(ws)' /\ FirstSound(tree.files)'
      OBVIOUS
    <3>1. FirstSound(ws)'
      BY <1>1, <1>3, <2>1, SameTerms DEF NotBegun, FirstSound
    <3>2. FirstSound(tree.files)'
      BY <1>1, <1>3, <2>2, SameTerms DEF FirstSound
    <3> QED BY <3>1, <3>2
  <2>4. ~Hermetic => FirstSound(ws)'
    BY <1>1, <1>3, <2>2, SameTerms DEF FirstSound
  <2> QED BY <1>1, <2>3, <2>4, SameTerms DEF FirstRun
<1>5. ASSUME ~action.preserve, attempt = 2 PROVE SecondRun'
  <2>1. SecondRun
    BY <1>1, <1>5 DEF VerdictInv
  <2>2. /\ check' /\ action'.outputs \subseteq DOMAIN first' /\ FirstSound(first)'
        /\ \A p \in DOMAIN first' : Mine(p)'
    BY <1>1, <2>1, SameTerms DEF SecondRun, FirstSound
  <2>3. ASSUME batch' = "ok", NEW old, NEW left, left = Left(done, old)
        PROVE  /\ \A p \in Kept \cap DOMAIN left : left[p].nonce = 2
               /\ Kept \subseteq DOMAIN left /\ \A p \in Moved : Renamed(p) \in DOMAIN left
    BY <1>3, <1>5, <2>3, LeftIsOther DEF Changed
  <2>4. CASE Hermetic
    <3>1. batch' = "ok" =>
            /\ Changed(tree.files)'
            /\ Kept' \cup {Renamed(p) : p \in Moved'} \subseteq DOMAIN tree'.files
      BY <1>1, <1>3, <2>3, <2>4, SameTerms DEF Changed
    <3> QED BY <1>1, <2>2, <2>4, <3>1 DEF SecondRun, Renamed
  <2>5. CASE ~Hermetic
    <3>1. batch' = "ok" => Changed(ws)' /\ \A p \in Moved' : HasOther(p, ws)'
      BY <1>1, <1>3, <2>3, <2>5, SameTerms DEF Changed, HasOther, Renamed
    <3> QED BY <1>1, <2>2, <2>5, <3>1 DEF SecondRun
  <2> QED BY <2>4, <2>5
<1>6. ASSUME Hermetic PROVE Reporting'
  <2> SUFFICES ASSUME batch' = "ok", NEW p \in Reports
               PROVE  p \in DOMAIN tree'.files /\ IsReport(tree'.files[p])
    BY <1>1, <1>6, SameTerms DEF Reporting, IsReport
  <2>1. p \in action.depfile /\ p \notin program.makes /\ \A d \in action.owned : ~Within(d, p)
    BY OwnsMade DEF Reports
  <2>2. \A q \in program.makes : p # Named(q)
    <3> SUFFICES ASSUME NEW q \in program.makes, p = Named(q) PROVE FALSE
      OBVIOUS
    <3>1. q \in Moved /\ p = Renamed(q)
      BY <2>1, NamesAre
    <3>2. PICK d \in action.owned : Within(d, q)
      BY <3>1 DEF Moved
    <3>3. Within(d, p)
      BY <3>1, <3>2, RenamedStays DEF Within
    <3> QED BY <2>1, <3>3
  <2>3. p \in DOMAIN Product /\ Product[p] = Report
    BY <2>1, <2>2, ProductHas
  <2>4. p \in DOMAIN Left(done, tree.files) /\ Left(done, tree.files)[p] = Report
    BY <1>3, <2>3, LeftHas
  <2> QED BY <1>3, <1>6, <2>4 DEF IsReport, Report
<1>7. CASE action.preserve
  BY <1>1, <1>7, SameTerms DEF VerdictInv
<1>8. attempt' \in {1, 2} \/ action.preserve
  BY <1>1 DEF VerdictInv
<1>9. verdict' # "ok"
  BY <1>1, IsolationAssumption
<1> QED BY <1>1, <1>4, <1>5, <1>6, <1>7, <1>8, <1>9, VerdictFrom

\* Only a run that wrote through no link goes on.
LEMMA VerdictVerifyLinks == ASSUME IsoInv, VerdictInv, VerifyLinks PROVE VerdictInv'
<1>1. /\ stage = "verify" /\ batch' = (IF LinksHold THEN batch ELSE "failed") /\ verdict = None
      /\ UNCHANGED <<choices, saved, ws, tree, attempt, first, verdict, kills>>
      /\ Hermetic
  BY DEF VerifyLinks, IsoInv
<1>2. /\ batch' = "ok" => /\ stage' = "publish" /\ batch = "ok"
                          /\ todo' = Files \cup action.owned \cup action.cleaned
      /\ batch' # "ok" => stage' = "drop"
  BY <1>1 DEF VerifyLinks
<1>3. ASSUME ~action.preserve, attempt = 1 PROVE FirstRun'
  <2>1. FirstSound(ws) /\ FirstSound(tree.files)
    BY <1>1, <1>3 DEF VerdictInv, FirstRun
  <2>2. FirstSound(ws)' /\ FirstSound(tree.files)'
    BY <1>1, <2>1, SameTerms DEF FirstSound
  <2> QED BY <1>1, <1>2, <2>2 DEF FirstRun
<1>4. ASSUME ~action.preserve, attempt = 2 PROVE SecondRun'
  <2>1. SecondRun
    BY <1>1, <1>4 DEF VerdictInv
  <2>2. /\ check' /\ action'.outputs \subseteq DOMAIN first' /\ FirstSound(first)'
        /\ \A p \in DOMAIN first' : Mine(p)'
    BY <1>1, <2>1, SameTerms DEF SecondRun, FirstSound
  <2>3. CASE batch' # "ok"
    BY <1>2, <2>2, <2>3 DEF SecondRun
  <2>4. CASE batch' = "ok"
    <3>1. /\ Changed(tree.files) /\ Kept \subseteq DOMAIN tree.files
          /\ \A p \in Moved : Renamed(p) \in DOMAIN tree.files
      BY <1>1, <1>2, <2>1, <2>4 DEF SecondRun
    <3>2. Changed(tree.files)'
      BY <1>1, <3>1, SameTerms DEF Changed
    <3>3. Kept \subseteq todo'
      BY <1>2, <2>4 DEF Kept, Files
    <3>4. /\ Kept' \cap todo' \subseteq DOMAIN tree'.files
          /\ \A p \in (Kept' \cap DOMAIN ws') \ todo' : ws'[p].nonce = 2
          /\ \A p \in Moved' : /\ Renamed(p) \in DOMAIN tree'.files
                               /\ \A d \in action'.owned : Within(d, p) => d \in todo'
      BY <1>1, <1>2, <2>4, <3>1, <3>3, SameTerms
    <3> QED BY <1>2, <2>2, <2>4, <3>2, <3>4 DEF SecondRun, Renamed
  <2> QED BY <2>3, <2>4
<1>5. ASSUME ~action.preserve PROVE Reporting'
  <2>1. batch = "ok" => \A p \in Reports : p \in DOMAIN tree.files /\ IsReport(tree.files[p])
    BY <1>1, <1>5 DEF VerdictInv, Reporting
  <2>2. Reports \subseteq Files
    BY DEF Reports, Files
  <2> QED BY <1>1, <1>2, <2>1, <2>2, SameTerms DEF Reporting, IsReport
<1>6. CASE action.preserve
  BY <1>1, <1>6, SameTerms DEF VerdictInv
<1>7. attempt' \in {1, 2} \/ action.preserve
  BY <1>1 DEF VerdictInv
<1>8. verdict' # "ok"
  BY <1>1, IsolationAssumption
<1> QED BY <1>1, <1>3, <1>4, <1>5, <1>6, <1>7, <1>8, VerdictFrom

\* A file that is published leaves the tree if it is an output, and is rebased if it is not.
LEMMA VerdictMoveFile == ASSUME IsoInv, VerdictInv, MoveFile PROVE VerdictInv'
<1>1. /\ stage = "publish" /\ stage' = stage /\ verdict = None /\ Hermetic /\ TreeIsThere
      /\ UNCHANGED <<choices, saved, stage, attempt, batch, first, verdict, kills>>
  BY DEF MoveFile, IsoInv
<1>2. PICK p \in todo \cap Files :
        /\ todo' = todo \ {p}
        /\ ws' = IF p \notin DOMAIN tree.files THEN ws
                 ELSE Onto(ws, [q \in {p} |-> IF q \in action.outputs THEN tree.files[q]
                                              ELSE Rebased(tree.files[q])])
        /\ tree' = IF p \in action.outputs THEN [tree EXCEPT !.files = Sans(@, {p})] ELSE tree
  BY DEF MoveFile
<1>3. /\ DOMAIN tree'.files \subseteq DOMAIN tree.files
      /\ \A q \in DOMAIN tree'.files : tree'.files[q] = tree.files[q]
      /\ \A q \in DOMAIN tree.files : q \in DOMAIN tree'.files \/ (q = p /\ p \in action.outputs)
  <2>1. CASE p \in action.outputs
    <3>1. tree'.files = Sans(tree.files, {p})
      BY <1>1, <1>2, <2>1 DEF TreeIsThere
    <3> QED BY <2>1, <3>1 DEF Sans
  <2>2. CASE p \notin action.outputs
    BY <1>2, <2>2
  <2> QED BY <2>1, <2>2
<1>4. /\ \A q \in DOMAIN ws : q \in DOMAIN ws' /\ (q # p => ws'[q] = ws[q])
      /\ \A q \in DOMAIN ws' : q \in DOMAIN ws \/ (q = p /\ p \in DOMAIN tree.files)
      /\ p \in DOMAIN tree.files =>
           p \in DOMAIN ws' /\ ws'[p] = IF p \in action.outputs THEN tree.files[p]
                                        ELSE Rebased(tree.files[p])
      /\ p \notin DOMAIN tree.files => ws' = ws
  <2>1. CASE p \notin DOMAIN tree.files
    BY <1>2, <2>1
  <2>2. CASE p \in DOMAIN tree.files
    <3> DEFINE moved == [q \in {p} |-> IF q \in action.outputs THEN tree.files[q]
                                       ELSE Rebased(tree.files[q])]
    <3>1. /\ DOMAIN moved = {p}
          /\ moved[p] = IF p \in action.outputs THEN tree.files[p] ELSE Rebased(tree.files[p])
      OBVIOUS
    <3>2. ws' = Onto(ws, moved)
      BY <1>2, <2>2
    <3> HIDE DEF moved
    <3> QED BY <2>2, <3>1, <3>2 DEF Onto
  <2> QED BY <2>1, <2>2
<1>5. p \in action.outputs \/ ~Mine(p)
  BY <1>2, OwnsMade, ManifestAssumption DEF Files, Mine, IsoInv
<1>6. ASSUME ~action.preserve, attempt = 1 PROVE FirstRun'
  <2>1. FirstSound(ws) /\ FirstSound(tree.files)
    BY <1>1, <1>6 DEF VerdictInv, FirstRun
  <2>2. FirstSound(tree.files)'
    BY <1>1, <1>3, <2>1, SameTerms DEF FirstSound
  <2>3. \A q \in DOMAIN ws' : Mine(q) => \/ q \in DOMAIN ws /\ ws'[q] = ws[q]
                                         \/ q \in DOMAIN tree.files /\ ws'[q] = tree.files[q]
    BY <1>4, <1>5
  <2>4. FirstSound(ws)'
    BY <1>1, <2>1, <2>3, SameTerms DEF FirstSound
  <2> QED BY <1>1, <2>2, <2>4 DEF FirstRun
<1>7. ASSUME ~action.preserve, attempt = 2 PROVE SecondRun'
  <2>1. SecondRun /\ batch = "ok"
    BY <1>1, <1>7 DEF VerdictInv, Reporting
  <2>2. /\ check' /\ action'.outputs \subseteq DOMAIN first' /\ FirstSound(first)'
        /\ \A q \in DOMAIN first' : Mine(q)'
    BY <1>1, <2>1, SameTerms DEF SecondRun, FirstSound
  <2>3. Changed(tree.files) /\ Kept \cap todo \subseteq DOMAIN tree.files
    BY <1>1, <2>1 DEF SecondRun
  <2>4. Changed(tree.files)'
    BY <1>1, <1>3, <2>3, SameTerms DEF Changed
  <2>5. Kept' \cap todo' \subseteq DOMAIN tree'.files
    BY <1>1, <1>2, <1>3, <2>3, SameTerms
  <2>6. ASSUME NEW q \in (Kept \cap DOMAIN ws') \ todo' PROVE ws'[q].nonce = 2
    <3>1. CASE q = p
      <4>1. q \in action.outputs /\ q \in DOMAIN tree.files
        BY <1>2, <2>3, <3>1 DEF Kept
      <4> QED BY <1>4, <2>3, <3>1, <4>1 DEF Changed
    <3>2. CASE q # p
      <4>1. q \in DOMAIN ws /\ q \notin todo /\ ws'[q] = ws[q]
        BY <1>2, <1>4, <3>2
      <4> QED BY <1>1, <2>1, <4>1 DEF SecondRun
    <3> QED BY <3>1, <3>2
  <2>7. ASSUME NEW q \in Moved
        PROVE  \/ /\ Renamed(q) \in DOMAIN tree'.files
                  /\ \A d \in action.owned : Within(d, q) => d \in todo'
               \/ Beside(q, tree'.files) = {} /\ HasOther(q, ws')
    <3>1. CASE /\ Renamed(q) \in DOMAIN tree.files
               /\ \A d \in action.owned : Within(d, q) => d \in todo
      <4>1. Renamed(q) \notin action.outputs
        BY OwnsMade DEF Moved
      <4>2. Renamed(q) \in DOMAIN tree'.files
        BY <1>3, <3>1, <4>1
      <4>3. CASE \A d \in action.owned : Within(d, q) => d # p
        BY <1>2, <3>1, <4>2, <4>3
      <4>4. p \notin action.owned
        BY <1>2, ManifestAssumption DEF IsoInv, Files
      <4> QED BY <4>3, <4>4
    <3>2. CASE Beside(q, tree.files) = {} /\ HasOther(q, ws)
      <4>1. Beside(q, tree'.files) = {}
        BY <1>3, <3>2 DEF Beside
      <4>2. p \in DOMAIN tree.files => Front(p) # Front(q)
        BY <3>2 DEF Beside
      <4>3. Beside(q, ws') = {} \/ Renamed(q) \in DOMAIN ws'
        BY <1>4, <3>2, <4>2 DEF Beside, HasOther
      <4> QED BY <4>1, <4>3 DEF HasOther
    <3> QED BY <1>1, <2>1, <3>1, <3>2 DEF SecondRun
  <2>8. /\ \A q \in (Kept' \cap DOMAIN ws') \ todo' : ws'[q].nonce = 2
        /\ \A q \in Moved' : \/ /\ Renamed(q) \in DOMAIN tree'.files
                                /\ \A d \in action'.owned : Within(d, q) => d \in todo'
                             \/ Beside(q, tree'.files) = {} /\ HasOther(q, ws')
    BY <1>1, <2>6, <2>7, SameTerms
  <2> QED BY <1>1, <2>2, <2>4, <2>5, <2>8 DEF SecondRun, Beside, HasOther, Renamed
<1>8. ASSUME ~action.preserve PROVE Reporting'
  <2>1. /\ \A q \in Reports : q \in DOMAIN tree.files /\ IsReport(tree.files[q])
        /\ \A q \in (Reports \cap DOMAIN ws) \ todo : ws[q].root = "workspace"
        /\ batch = "ok"
    BY <1>1, <1>8 DEF VerdictInv, Reporting
  <2>2. ASSUME NEW q \in Reports
        PROVE  /\ q \in DOMAIN tree'.files /\ IsReport(tree'.files[q])
               /\ q \in DOMAIN ws' /\ q \notin todo' => ws'[q].root = "workspace"
    <3>1. q \notin action.outputs
      BY DEF Reports
    <3>2. q \in DOMAIN tree'.files /\ tree'.files[q] = tree.files[q]
      BY <1>3, <2>1, <3>1
    <3>3. CASE q = p
      <4>1. ws'[q] = Rebased(tree.files[q])
        BY <1>4, <2>1, <3>1, <3>3
      <4>2. Rebased(tree.files[q]).root = "workspace"
        BY <2>1 DEF Rebased, IsReport
      <4> QED BY <2>1, <3>2, <4>1, <4>2
    <3>4. CASE q # p
      BY <1>2, <1>4, <2>1, <3>2, <3>4
    <3> QED BY <3>3, <3>4
  <2> QED BY <1>1, <2>1, <2>2, SameTerms DEF Reporting, IsReport
<1>9. CASE action.preserve
  BY <1>1, <1>9, SameTerms DEF VerdictInv
<1>10. attempt' \in {1, 2} \/ action.preserve
  BY <1>1 DEF VerdictInv
<1>11. verdict' # "ok"
  BY <1>1, IsolationAssumption
<1> QED BY <1>1, <1>6, <1>7, <1>8, <1>9, <1>10, <1>11, VerdictFrom

\* A directory is published as a whole: what is beside a file that has another name goes with it.
LEMMA VerdictMoveDir == ASSUME IsoInv, VerdictInv, MoveDir PROVE VerdictInv'
<1>1. /\ stage = "publish" /\ stage' = stage /\ verdict = None /\ Hermetic /\ TreeIsThere
      /\ todo \cap Files = {} /\ todo \subseteq Files \cup action.owned \cup action.cleaned
      /\ UNCHANGED <<choices, saved, stage, attempt, batch, first, verdict, kills>>
  BY DEF MoveDir, IsoInv
<1>2. PICK d \in todo :
        IF Under(ws, {d}) # {}
        THEN ws' = Sans(ws, Under(ws, {d})) /\ UNCHANGED <<todo, tree>>
        ELSE /\ ws' = Onto(ws, Only(tree.files, Under(tree.files, {d}))) /\ todo' = todo \ {d}
             /\ tree' = [tree EXCEPT !.files = Sans(@, Under(tree.files, {d}))]
  BY DEF MoveDir
<1>3. CASE Under(ws, {d}) # {}
  <2>1. /\ \A q \in DOMAIN ws' : q \in DOMAIN ws /\ ws'[q] = ws[q]
        /\ \A q \in DOMAIN ws : q \in DOMAIN ws' <=> ~Within(d, q)
        /\ UNCHANGED <<todo, tree>>
    BY <1>2, <1>3 DEF Sans, Under
  <2>2. ASSUME ~action.preserve, attempt = 1 PROVE FirstRun'
    <3>1. FirstSound(ws) /\ FirstSound(tree.files)
      BY <1>1, <2>2 DEF VerdictInv, FirstRun
    <3>2. FirstSound(ws)' /\ FirstSound(tree.files)'
      BY <1>1, <2>1, <3>1, SameTerms DEF FirstSound
    <3> QED BY <1>1, <3>2 DEF FirstRun
  <2>3. ASSUME ~action.preserve, attempt = 2 PROVE SecondRun'
    <3>1. SecondRun
      BY <1>1, <2>3 DEF VerdictInv
    <3>2. /\ check' /\ action'.outputs \subseteq DOMAIN first' /\ FirstSound(first)'
          /\ \A q \in DOMAIN first' : Mine(q)'
      BY <1>1, <3>1, SameTerms DEF SecondRun, FirstSound
    <3>3. ASSUME NEW q \in Moved, HasOther(q, ws) PROVE HasOther(q, ws')
      <4>1. Front(Renamed(q)) = Front(q)
        BY RenamedStays DEF Moved
      <4>2. CASE Within(d, q)
        BY <2>1, <4>2 DEF HasOther, Beside, Within
      <4>3. CASE ~Within(d, q)
        BY <2>1, <3>3, <4>1, <4>3 DEF HasOther, Beside, Within
      <4> QED BY <4>2, <4>3
    <3>4. Changed(tree.files)' /\ Kept' \cap todo' \subseteq DOMAIN tree'.files
      BY <1>1, <2>1, <2>3, <3>1, SameTerms DEF SecondRun, Changed, VerdictInv, Reporting
    <3>5. /\ \A q \in (Kept' \cap DOMAIN ws') \ todo' : ws'[q].nonce = 2
          /\ \A q \in Moved' : \/ /\ Renamed(q) \in DOMAIN tree'.files
                                  /\ \A e \in action'.owned : Within(e, q) => e \in todo'
                               \/ Beside(q, tree'.files) = {} /\ HasOther(q, ws')
      BY <1>1, <2>1, <3>1, <3>3, SameTerms DEF SecondRun
    <3> QED BY <1>1, <3>2, <3>4, <3>5 DEF SecondRun, Beside, HasOther, Renamed
  <2>4. ASSUME ~action.preserve PROVE Reporting'
    <3>1. /\ \A q \in Reports : q \in DOMAIN tree.files /\ IsReport(tree.files[q])
          /\ \A q \in (Reports \cap DOMAIN ws) \ todo : ws[q].root = "workspace"
          /\ batch = "ok"
      BY <1>1, <2>4 DEF VerdictInv, Reporting
    <3>2. \A q \in (Reports \cap DOMAIN ws') \ todo' : ws'[q].root = "workspace"
      BY <2>1, <3>1
    <3> QED BY <1>1, <2>1, <3>1, <3>2, SameTerms DEF Reporting, IsReport
  <2> QED BY <1>1, <2>2, <2>3, <2>4, VerdictFrom, IsolationAssumption, SameTerms DEF VerdictInv
<1>4. CASE Under(ws, {d}) = {}
  <2>1. /\ tree'.files = Sans(tree.files, Under(tree.files, {d})) /\ todo' = todo \ {d}
        /\ ws' = Onto(ws, Only(tree.files, Under(tree.files, {d})))
    BY <1>1, <1>2, <1>4 DEF TreeIsThere
  <2>2. /\ \A q \in DOMAIN tree'.files : q \in DOMAIN tree.files /\ tree'.files[q] = tree.files[q]
        /\ \A q \in DOMAIN tree.files : q \in DOMAIN tree'.files <=> ~Within(d, q)
    BY <2>1 DEF Sans, Under
  <2>3. /\ \A q \in DOMAIN ws' :
             \/ q \in DOMAIN ws /\ ws'[q] = ws[q] /\ (q \in DOMAIN tree.files => ~Within(d, q))
             \/ q \in DOMAIN tree.files /\ Within(d, q) /\ ws'[q] = tree.files[q]
        /\ \A q \in DOMAIN ws : q \in DOMAIN ws'
        /\ \A q \in DOMAIN tree.files : Within(d, q) => q \in DOMAIN ws'
    <3> DEFINE new == Only(tree.files, Under(tree.files, {d}))
    <3>1. /\ \A q : q \in DOMAIN new <=> q \in DOMAIN tree.files /\ Within(d, q)
          /\ \A q \in DOMAIN new : new[q] = tree.files[q]
      BY DEF Only, Under
    <3>2. ws' = Onto(ws, new)
      BY <2>1
    <3> HIDE DEF new
    <3> QED BY <3>1, <3>2 DEF Onto
  <2>4. ASSUME ~action.preserve, attempt = 1 PROVE FirstRun'
    <3>1. FirstSound(ws) /\ FirstSound(tree.files)
      BY <1>1, <2>4 DEF VerdictInv, FirstRun
    <3>2. FirstSound(tree.files)'
      BY <1>1, <2>2, <3>1, SameTerms DEF FirstSound
    <3>3. FirstSound(ws)'
      BY <1>1, <2>3, <3>1, SameTerms DEF FirstSound
    <3> QED BY <1>1, <3>2, <3>3 DEF FirstRun
  <2>5. ASSUME ~action.preserve, attempt = 2 PROVE SecondRun'
    <3>1. SecondRun /\ batch = "ok"
      BY <1>1, <2>5 DEF VerdictInv, Reporting
    <3>2. /\ check' /\ action'.outputs \subseteq DOMAIN first' /\ FirstSound(first)'
          /\ \A q \in DOMAIN first' : Mine(q)'
      BY <1>1, <3>1, SameTerms DEF SecondRun, FirstSound
    <3>3. Changed(tree.files) /\ Kept \cap todo = {}
      BY <1>1, <3>1 DEF SecondRun, Kept, Files
    <3>4. Changed(tree.files)' /\ Kept' \cap todo' = {}
      BY <1>1, <2>1, <2>2, <3>3, SameTerms DEF Changed
    <3>5. ASSUME NEW q \in Kept \cap DOMAIN ws' PROVE ws'[q].nonce = 2
      <4>1. q \in DOMAIN ws => ws[q].nonce = 2
        BY <1>1, <3>1, <3>3 DEF SecondRun
      <4>2. q \in DOMAIN tree.files => tree.files[q].nonce = 2
        BY <3>3 DEF Changed
      <4> QED BY <2>3, <4>1, <4>2
    <3>6. ASSUME NEW q \in Moved
          PROVE  \/ /\ Renamed(q) \in DOMAIN tree'.files
                    /\ \A e \in action.owned : Within(e, q) => e \in todo'
                 \/ Beside(q, tree'.files) = {} /\ HasOther(q, ws')
      <4>1. Front(Renamed(q)) = Front(q)
        BY RenamedStays DEF Moved
      <4>2. CASE /\ Renamed(q) \in DOMAIN tree.files
                 /\ \A e \in action.owned : Within(e, q) => e \in todo
        <5>1. CASE Within(d, q)
          BY <2>2, <2>3, <4>1, <4>2, <5>1 DEF HasOther, Beside, Within
        <5>2. CASE ~Within(d, q)
          BY <2>1, <2>2, <4>1, <4>2, <5>2 DEF Within
        <5> QED BY <5>1, <5>2
      <4>3. CASE Beside(q, tree.files) = {} /\ HasOther(q, ws)
        <5>1. Beside(q, tree'.files) = {}
          BY <2>2, <4>3 DEF Beside
        <5>2. Renamed(q) \in DOMAIN ws' \/ Beside(q, ws') = {}
          BY <2>3, <4>3 DEF HasOther, Beside
        <5> QED BY <5>1, <5>2 DEF HasOther
      <4> QED BY <1>1, <3>1, <4>2, <4>3 DEF SecondRun
    <3>7. /\ \A q \in (Kept' \cap DOMAIN ws') \ todo' : ws'[q].nonce = 2
          /\ \A q \in Moved' : \/ /\ Renamed(q) \in DOMAIN tree'.files
                                  /\ \A e \in action'.owned : Within(e, q) => e \in todo'
                               \/ Beside(q, tree'.files) = {} /\ HasOther(q, ws')
      BY <1>1, <3>5, <3>6, SameTerms
    <3> QED BY <1>1, <3>2, <3>4, <3>7 DEF SecondRun, Beside, HasOther, Renamed
  <2>6. ASSUME ~action.preserve PROVE Reporting'
    <3>1. /\ \A q \in Reports : q \in DOMAIN tree.files /\ IsReport(tree.files[q])
          /\ \A q \in (Reports \cap DOMAIN ws) \ todo : ws[q].root = "workspace"
          /\ batch = "ok"
      BY <1>1, <2>6 DEF VerdictInv, Reporting
    <3>2. ASSUME NEW q \in Reports
          PROVE  /\ q \in DOMAIN tree'.files /\ IsReport(tree'.files[q])
                 /\ q \in DOMAIN ws' => ws'[q].root = "workspace"
      <4>1. ~Within(d, q) /\ q \notin todo
        BY <1>1, OwnsMade DEF Reports, Files
      <4> QED BY <2>2, <2>3, <3>1, <4>1
    <3> QED BY <1>1, <3>1, <3>2, SameTerms DEF Reporting, IsReport
  <2> QED BY <1>1, <2>4, <2>5, <2>6, VerdictFrom, IsolationAssumption, SameTerms DEF VerdictInv
<1> QED BY <1>3, <1>4

\* What is collected is all published, or the run failed.
LEMMA VerdictDropTree == ASSUME IsoInv, VerdictInv, DropTree PROVE VerdictInv'
<1>1. /\ stage' = "collect" /\ verdict = None /\ Hermetic
      /\ \/ stage = "drop" /\ batch = "failed"
         \/ stage = "publish" /\ todo = {}
      /\ UNCHANGED <<choices, ws, saved, attempt, batch, todo, first, verdict, kills>>
  BY DEF DropTree, IsoInv
<1>2. ASSUME ~action.preserve, attempt = 1 PROVE FirstRun'
  BY <1>1, <1>2, SameTerms DEF VerdictInv, FirstRun, FirstSound
<1>3. ASSUME ~action.preserve, attempt = 2 PROVE SecondRun'
  <2>1. SecondRun
    BY <1>1, <1>3 DEF VerdictInv
  <2>2. /\ check' /\ action'.outputs \subseteq DOMAIN first' /\ FirstSound(first)'
        /\ \A q \in DOMAIN first' : Mine(q)'
    BY <1>1, <2>1, SameTerms DEF SecondRun, FirstSound
  <2>3. ASSUME batch = "ok" PROVE Changed(ws) /\ \A q \in Moved : HasOther(q, ws)
    <3>1. stage = "publish" /\ todo = {}
      BY <1>1, <2>3
    <3>2. Changed(ws)
      BY <2>1, <3>1 DEF SecondRun, Changed
    <3>3. \A q \in Moved : \E d \in action.owned : Within(d, q)
      BY DEF Moved
    <3> QED BY <2>1, <3>1, <3>2, <3>3 DEF SecondRun
  <2>4. batch' = "ok" => Changed(ws)' /\ \A q \in Moved' : HasOther(q, ws)'
    BY <1>1, <2>3, SameTerms DEF Changed, HasOther, Beside, Renamed
  <2> QED BY <1>1, <2>2, <2>4 DEF SecondRun
<1>4. ASSUME ~action.preserve PROVE Reporting'
  BY <1>1, <1>4, SameTerms DEF VerdictInv, Reporting, Based
<1> QED BY <1>1, <1>2, <1>3, <1>4, VerdictFrom, IsolationAssumption, SameTerms DEF VerdictInv

\* The files of the first run are collected, and a second run begins with what they leave.
LEMMA VerdictCollect == ASSUME IsoInv, VerdictInv, Collect PROVE VerdictInv'
<1>1. /\ stage = "collect" /\ attempt = 1 /\ verdict = None
      /\ UNCHANGED <<choices, saved, tree, batch, todo, kills>>
  BY DEF Collect, IsoInv
<1>2. CASE action.preserve
  BY <1>1, <1>2, SameTerms DEF VerdictInv
<1>3. ASSUME verdict' = "failed", stage' = "idle", UNCHANGED attempt PROVE VerdictInv'
  <2>1. attempt' \in {1, 2}
    BY <1>1, <1>3
  <2>2. Reporting'
    BY <1>3 DEF Reporting
  <2> QED BY <1>1, <1>3, <2>1, <2>2, VerdictFrom
<1>4. CASE batch = "failed"
  BY <1>1, <1>3, <1>4 DEF Collect, Finishes
<1>5. CASE batch = "ok" /\ ~(action.outputs \subseteq DOMAIN ws)
  BY <1>1, <1>3, <1>5 DEF Collect, Finishes
<1>6. ASSUME ~action.preserve, batch = "ok", action.outputs \subseteq DOMAIN ws, first' = OutputsNow
      PROVE  /\ action.outputs \subseteq DOMAIN first' /\ (\A p \in DOMAIN first' : Mine(p))
             /\ FirstSound(first')
  <2>1. FirstSound(ws)
    BY <1>1, <1>6 DEF VerdictInv, FirstRun
  <2>2. \A p : p \in DOMAIN first' <=> p \in DOMAIN ws /\ Mine(p)
    BY <1>6 DEF OutputsNow, Only, Under, Mine
  <2>3. \A p \in DOMAIN first' : first'[p] = ws[p]
    BY <1>6 DEF OutputsNow, Only
  <2>4. FirstSound(first')
    BY <2>1, <2>2, <2>3 DEF FirstSound
  <2> QED BY <1>6, <2>2, <2>4 DEF Mine
<1>7. CASE ~action.preserve /\ batch = "ok" /\ action.outputs \subseteq DOMAIN ws /\ ~check
  <2>1. /\ verdict' = "ok" /\ stage' = "idle" /\ first' = OutputsNow /\ UNCHANGED <<ws, attempt>>
    BY <1>1, <1>7 DEF Collect, Finishes
  <2>2. ASSUME Hermetic PROVE SuccessIsOfThisRun'
    <3>1. FirstSound(first') /\ \A p \in DOMAIN first' : Mine(p)
      BY <1>6, <1>7, <2>1
    <3>2. Based(ws)
      BY <1>1, <1>7, <2>2 DEF VerdictInv, Reporting
    <3>3. \A p \in DOMAIN first' :
            p \in program.makes /\ first'[p].of = Only(saved, DOMAIN first'[p].of)
      BY <2>2, <3>1 DEF FirstSound
    <3> QED BY <1>1, <2>1, <3>2, <3>3, SameTerms DEF SuccessIsOfThisRun, Based
  <2>3. VerdictsAreTrue'
    BY <1>1, <1>7, <2>2, SameTerms DEF VerdictsAreTrue, SuccessIsOfThisRun, CheckFindsDifferences
  <2>4. Reporting'
    BY <2>1 DEF Reporting
  <2> QED BY <1>1, <2>1, <2>3, <2>4 DEF VerdictInv
<1>8. CASE ~action.preserve /\ batch = "ok" /\ action.outputs \subseteq DOMAIN ws /\ check
  <2>1. /\ attempt' = 2 /\ first' = OutputsNow /\ stage' = (IF Hermetic THEN "prepare" ELSE "run")
        /\ UNCHANGED verdict
    BY <1>1, <1>8 DEF Collect
  <2>2. /\ action.outputs \subseteq DOMAIN first' /\ (\A p \in DOMAIN first' : Mine(p))
        /\ FirstSound(first')
    BY <1>6, <1>8, <2>1
  <2>3. SecondRun'
    BY <1>1, <1>8, <2>1, <2>2, SameTerms DEF SecondRun, FirstSound
  <2>4. Reporting'
    BY <2>1 DEF Reporting
  <2> QED BY <1>1, <2>1, <2>3, <2>4, VerdictFrom, IsolationAssumption
<1> QED BY <1>1, <1>2, <1>4, <1>5, <1>7, <1>8 DEF IsoInv

\* What a program that is not deterministic made the second time is not what it made the first.
LEMMA VerdictDeterminism == ASSUME IsoInv, VerdictInv, VerifyDeterminism PROVE VerdictInv'
<1>1. /\ stage = "collect" /\ attempt = 2 /\ verdict = None /\ stage' = "idle"
      /\ UNCHANGED <<choices, ws, saved, tree, attempt, batch, todo, first, kills>>
      /\ verdict' = (IF batch = "ok" /\ first = OutputsNow THEN "ok" ELSE "failed")
  BY DEF VerifyDeterminism, IsoInv, Finishes
<1>2. Reporting'
  BY <1>1 DEF Reporting
<1>3. CASE action.preserve
  BY <1>1, <1>3, SameTerms DEF VerdictInv
<1>4. CASE verdict' # "ok"
  BY <1>1, <1>2, <1>4, VerdictFrom
<1>5. CASE ~action.preserve /\ verdict' = "ok"
  <2>1. batch = "ok" /\ first = OutputsNow /\ SecondRun
    BY <1>1, <1>5 DEF VerdictInv
  <2>2. /\ \A p : p \in DOMAIN first <=> p \in DOMAIN ws /\ Mine(p)
        /\ \A p \in DOMAIN first : first[p] = ws[p]
    BY <2>1 DEF OutputsNow, Only, Under, Mine
  <2>3. \A p \in DOMAIN first : /\ p \in program.makes
                                /\ program.random => first[p].nonce = 1
                                /\ Hermetic => first[p].of = Only(saved, DOMAIN first[p].of)
    BY <2>1 DEF SecondRun, FirstSound
  <2>4. ASSUME NEW p \in Moved, p \in DOMAIN ws PROVE FALSE
    <3>1. Renamed(p) \in DOMAIN ws
      BY <1>1, <2>1, <2>4 DEF SecondRun, HasOther, Beside
    <3>2. Mine(Renamed(p))
      BY RenamedStays DEF Moved, Mine, Within
    <3>3. Renamed(p) \in program.makes
      BY <2>2, <2>3, <3>1, <3>2
    <3> QED BY <3>3, OwnsMade DEF Moved
  <2>5. ASSUME program.random PROVE FALSE
    <3>1. PICK p \in action.outputs : TRUE
      BY ManifestAssumption DEF IsoInv
    <3>2. p \in DOMAIN first /\ p \in program.makes /\ p \in DOMAIN ws /\ ws[p].nonce = 1
      BY <2>1, <2>2, <2>3, <2>5 DEF SecondRun
    <3>3. p \notin Kept
      BY <1>1, <2>1, <3>2 DEF SecondRun, Changed
    <3>4. p \in Moved
      BY <2>5, <3>2, <3>3 DEF Kept, Moved
    <3> QED BY <2>4, <3>2, <3>4
  <2>6. ASSUME program.renames PROVE Under(ws, action.owned) = {}
    <3>1. \A p \in Under(ws, action.owned) : p \in DOMAIN ws /\ p \in Moved
      BY <2>2, <2>3, <2>6 DEF Under, Mine, Moved
    <3> QED BY <2>4, <3>1
  <2>7. CheckFindsDifferences'
    BY <1>1, <2>5, <2>6, SameTerms DEF CheckFindsDifferences, Under
  <2>8. Hermetic => Based(ws)
    BY <1>1, <1>5, <2>1 DEF VerdictInv, Reporting
  <2>9. SuccessIsOfThisRun'
    BY <1>1, <2>3, <2>8, SameTerms DEF SuccessIsOfThisRun, Based
  <2> QED BY <1>1, <1>2, <2>7, <2>9 DEF VerdictInv, VerdictsAreTrue
<1> QED BY <1>1, <1>3, <1>4, <1>5

\* A kill gives no verdict.
LEMMA VerdictKill == ASSUME IsoInv, VerdictInv, Kill PROVE VerdictInv'
<1>1. /\ stage' = "idle" /\ verdict = None /\ UNCHANGED <<choices, attempt, verdict>>
  BY DEF Kill, IsoInv
<1>2. Reporting'
  BY <1>1 DEF Reporting
<1>3. CASE action.preserve
  BY <1>1, <1>3, SameTerms DEF VerdictInv
<1> QED BY <1>1, <1>2, <1>3, VerdictFrom, IsolationAssumption DEF VerdictInv

\* Every step of a build of an isolated action keeps VerdictInv.
LEMMA VerdictStep == IsoInv /\ VerdictInv /\ [IsoNext]_isoVars => VerdictInv'
<1> SUFFICES ASSUME IsoInv, VerdictInv, [IsoNext]_isoVars PROVE VerdictInv'
  OBVIOUS
<1>1. CASE UNCHANGED isoVars
  <2>1. UNCHANGED choices /\ UNCHANGED <<ws, saved, tree, stage, attempt, batch, todo, first, verdict>>
    BY <1>1 DEF isoVars, choices
  <2>2. FirstRun => FirstRun'
    BY <2>1, SameTerms DEF FirstRun, NotBegun, FirstSound
  <2>3. SecondRun => SecondRun'
    BY <2>1, SameTerms DEF SecondRun, FirstSound, Changed, HasOther, Beside, Renamed
  <2>4. Reporting => Reporting'
    BY <2>1, SameTerms DEF Reporting, IsReport, Based
  <2>5. VerdictsAreTrue => VerdictsAreTrue'
    BY <2>1, SameTerms
       DEF VerdictsAreTrue, SuccessIsOfThisRun, CheckFindsDifferences, Only, Under
  <2> QED BY <2>1, <2>2, <2>3, <2>4, <2>5, SameTerms DEF VerdictInv
<1> QED BY <1>1, VerdictBeginBuild, VerdictPrepare, VerdictRun, VerdictVerifyLinks,
           VerdictMoveFile, VerdictMoveDir, VerdictDropTree, VerdictCollect, VerdictDeterminism,
           VerdictKill DEF IsoNext

\* VerdictInv says that what an isolated run reports is so.
LEMMA VerdictMeans == VerdictInv => VerdictsAreTrue
BY DEF VerdictInv, VerdictsAreTrue, SuccessIsOfThisRun, CheckFindsDifferences

-----------------------------------------------------------------------------
(* Lifecycle: one daemon starts at a time, if no two clients raced to start   *)
(* one, and while one removes a socket file and binds its own no other lives. *)

Asking == {"run", "again", "last", "status", "poll", "shutdown", "stop", "look"}
Outcomes == {"ok", "mismatch", "error"}

\* A client that pair for a build waits for a daemon only to ask again, and has a
\* daemon at the other end only while it asks.
SoundClient(r) ==
  /\ DOMAIN r = {"wants", "protocol", "stage", "then", "polls", "peer", "answer"}
  /\ r.stage \in Asking \cup {"spawn", "local", "end", "left"}
  /\ r.then \in {"end", "again", "last"}
  /\ r.peer # None => r.stage \in Asking
  /\ r.wants = "build" =>
       /\ r.stage \notin {"stop", "look"}
       /\ r.stage \in {"status", "poll", "shutdown", "spawn"} => r.then # "end"
       /\ r.stage = "end" => r.answer \in {"ok", "self"}

Live(d) == frostds[d].at \in {"watch", "accept", "build", "cleanup"}
Replacing(d) == frostds[d].at \in {"unlink", "bind"}

Reachable ==
  /\ \A d \in Frostds : Live(d) => socket = d
  /\ \A d, e \in Frostds : Starts(d) /\ Starts(e) => d = e
  /\ \A d, e \in Frostds : Replacing(d) => ~Live(e)

LifeInv ==
  /\ DOMAIN clients = Clients /\ \A c \in Clients : SoundClient(clients[c])
  /\ DOMAIN frostds = Frostds
  /\ \A d \in Frostds : DOMAIN frostds[d] = {"at", "protocol", "queue", "serves"}
  /\ socket \in Frostds \cup {None}
  /\ raced \/ Reachable

\* What each command asks first.
LEMMA FirstRequests ==
  /\ FirstRequest["build"] = "run" /\ FirstRequest["start"] = "status"
  /\ FirstRequest["restart"] = "shutdown" /\ FirstRequest["stop"] = "stop"
  /\ FirstRequest["status"] = "look"
BY DEF FirstRequest

\* Nobody has asked for anything, and one daemon may listen.
LEMMA LifeStart == LifeInit => LifeInv
<1> SUFFICES ASSUME LifeInit PROVE LifeInv
  OBVIOUS
<1>1. PICK pair \in Commands :
        clients = [c \in Clients |->
         [wants |-> pair[c].wants, protocol |-> pair[c].protocol,
          stage |-> FirstRequest[pair[c].wants], then |-> "end", polls |-> 0, peer |-> None,
          answer |-> None]]
  BY DEF LifeInit
<1>2. \A c \in Clients : SoundClient(clients[c])
  <2> SUFFICES ASSUME NEW c \in Clients PROVE SoundClient(clients[c])
    OBVIOUS
  <2>1. pair[c].wants \in {"build", "start", "restart", "stop", "status"}
    BY LifeAssumption
  <2>2. /\ FirstRequest[pair[c].wants] \in Asking
        /\ pair[c].wants = "build" => FirstRequest[pair[c].wants] = "run"
    BY <2>1, FirstRequests DEF Asking
  <2> QED BY <1>1, <2>2 DEF SoundClient
<1>3. PICK was \in {NoFrostd, Gone} \cup
                {[NoFrostd EXCEPT !.at = "accept", !.protocol = p] : p \in Protocols} :
       LET eldest == CHOOSE d \in Frostds : TRUE IN
         /\ frostds = [d \in Frostds |-> IF d = eldest THEN was ELSE NoFrostd]
         /\ socket = IF was = NoFrostd THEN None ELSE eldest
  BY DEF LifeInit
<1>4. /\ DOMAIN NoFrostd = {"at", "protocol", "queue", "serves"} /\ NoFrostd.at = "none"
      /\ DOMAIN was = {"at", "protocol", "queue", "serves"}
      /\ was.at \in {"none", "gone", "accept"}
  <2>1. DOMAIN NoFrostd = {"at", "protocol", "queue", "serves"} /\ NoFrostd.at = "none"
    BY DEF NoFrostd
  <2>2. DOMAIN Gone = {"at", "protocol", "queue", "serves"} /\ Gone.at = "gone"
    BY <2>1 DEF Gone
  <2>3. ASSUME NEW p \in Protocols, was = [NoFrostd EXCEPT !.at = "accept", !.protocol = p]
        PROVE  DOMAIN was = {"at", "protocol", "queue", "serves"} /\ was.at = "accept"
    BY <2>1, <2>3
  <2> QED BY <1>3, <2>1, <2>2, <2>3
<1>5. /\ DOMAIN frostds = Frostds
      /\ \A d \in Frostds : /\ DOMAIN frostds[d] = {"at", "protocol", "queue", "serves"}
                            /\ frostds[d].at \in {"none", "gone", "accept"}
                            /\ frostds[d].at = "accept" => socket = d
  BY <1>3, <1>4
<1>7. socket \in Frostds \cup {None}
  BY <1>3, LifeAssumption
<1>6. Reachable
  BY <1>5 DEF Reachable, Live, Starts, Replacing
<1> QED BY <1>1, <1>2, <1>5, <1>6, <1>7 DEF LifeInv

\* A client that is told and concludes is done; of a build, with a result.
LEMMA ConcludesSoundly ==
  ASSUME NEW r, SoundClient(r), NEW told, r.wants = "build" => told \in {"ok", "self"}
  PROVE  SoundClient(Concludes(r, told))
BY DEF SoundClient, Concludes, Asking

\* A client that waited for a daemon asks again, or builds itself, if it wants a build.
LEMMA StartsSoundly ==
  ASSUME NEW r, SoundClient(r), NEW started \in BOOLEAN, r.peer = None,
         r.stage \in {"status", "poll", "spawn"}
  PROVE  SoundClient(AfterStart(r, started))
<1>1. CASE r.then = "end"
  <2>1. AfterStart(r, started) = Concludes(r, IF started THEN "running" ELSE "failed")
    BY <1>1 DEF AfterStart
  <2>2. r.wants # "build"
    BY <1>1 DEF SoundClient
  <2> QED BY <2>1, <2>2, ConcludesSoundly
<1>2. CASE r.then # "end" /\ started
  <2>1. AfterStart(r, started) = [r EXCEPT !.stage = r.then]
    BY <1>2 DEF AfterStart
  <2> QED BY <1>2, <2>1 DEF SoundClient, Asking
<1>3. CASE r.then # "end" /\ ~started
  <2>1. AfterStart(r, started) = [r EXCEPT !.stage = "local"]
    BY <1>3 DEF AfterStart
  <2> QED BY <1>3, <2>1 DEF SoundClient, Asking
<1> QED BY <1>1, <1>2, <1>3

\* Whatever becomes of a request, a client that wants a build asks again, builds itself, or
\* has its result.
LEMMA ProceedsSoundly ==
  ASSUME NEW r, SoundClient(r), r.stage \in Asking, NEW outcome \in Outcomes
  PROVE  SoundClient(Proceeds(r, outcome))
<1> DEFINE c == [r EXCEPT !.peer = None]
<1>1. /\ SoundClient(c) /\ c.peer = None /\ c.stage = r.stage /\ c.wants = r.wants
      /\ c.then = r.then
  BY DEF SoundClient
<1> HIDE DEF c
<1>2. CASE r.stage \in {"run", "again"}
  <2>1. Proceeds(r, outcome) = Ran(c, outcome)
    BY <1>1, <1>2 DEF Proceeds, c
  <2>2. CASE outcome = "ok"
    BY <1>1, <2>1, <2>2, ConcludesSoundly DEF Ran
  <2>3. CASE outcome = "mismatch"
    <3>1. Ran(c, outcome) = [c EXCEPT !.stage = "shutdown", !.then = "last"]
      BY <2>3 DEF Ran, Replaces
    <3> QED BY <1>1, <2>1, <3>1 DEF SoundClient, Asking
  <2>4. CASE outcome = "error" /\ c.stage = "run"
    <3>1. Ran(c, outcome) = [c EXCEPT !.stage = "status", !.then = "again"]
      BY <2>4 DEF Ran
    <3> QED BY <1>1, <2>1, <3>1 DEF SoundClient, Asking
  <2>5. CASE outcome = "error" /\ c.stage = "again"
    <3>1. Ran(c, outcome) = [c EXCEPT !.stage = "local"]
      BY <2>5 DEF Ran
    <3> QED BY <1>1, <2>1, <3>1 DEF SoundClient, Asking
  <2> QED BY <1>1, <1>2, <2>2, <2>3, <2>4, <2>5 DEF Outcomes
<1>3. CASE r.stage = "last"
  <2>1. Proceeds(r, outcome) = Retried(c, outcome)
    BY <1>1, <1>3 DEF Proceeds, c
  <2>2. CASE outcome = "ok"
    BY <1>1, <2>1, <2>2, ConcludesSoundly DEF Retried
  <2>3. CASE outcome # "ok"
    <3>1. Retried(c, outcome) = [c EXCEPT !.stage = "local"]
      BY <2>3 DEF Retried
    <3> QED BY <1>1, <2>1, <3>1 DEF SoundClient, Asking
  <2> QED BY <2>2, <2>3
<1>4. CASE r.stage \in {"status", "poll"}
  <2>1. Proceeds(r, outcome) = Asked(c, outcome)
    BY <1>1, <1>4 DEF Proceeds, c
  <2>2. CASE c.stage = "status" /\ outcome = "error"
    <3>1. Asked(c, outcome) = [c EXCEPT !.stage = "spawn"]
      BY <2>2 DEF Asked
    <3> QED BY <1>1, <1>4, <2>1, <3>1 DEF SoundClient, Asking
  <2>3. CASE c.stage = "status" /\ outcome # "error"
    <3>1. Asked(c, outcome) = AfterStart(c, outcome = "ok")
      BY <2>3 DEF Asked
    <3>2. PICK started \in BOOLEAN : Asked(c, outcome) = AfterStart(c, started)
      BY <3>1
    <3>3. SoundClient(AfterStart(c, started))
      BY <1>1, <2>3, StartsSoundly
    <3> QED BY <2>1, <3>2, <3>3
  <2>4. CASE c.stage = "poll" /\ outcome # "error"
    <3>1. Asked(c, outcome) = AfterStart(c, TRUE)
      BY <2>4 DEF Asked
    <3> QED BY <1>1, <2>1, <2>4, <3>1, StartsSoundly
  <2>5. CASE c.stage = "poll" /\ outcome = "error"
    <3>1. Asked(c, outcome) = Polls(c)
      BY <2>5 DEF Asked
    <3>2. SoundClient([c EXCEPT !.polls = c.polls + 1])
      BY <1>1 DEF SoundClient
    <3> QED BY <1>1, <2>1, <2>5, <3>1, <3>2, StartsSoundly DEF Polls
  <2> QED BY <1>1, <1>4, <2>2, <2>3, <2>4, <2>5
<1>5. CASE r.stage = "shutdown"
  <2>1. Proceeds(r, outcome) = [c EXCEPT !.stage = "status"]
    BY <1>1, <1>5 DEF Proceeds, c
  <2> QED BY <1>1, <1>5, <2>1 DEF SoundClient, Asking
<1>6. CASE r.stage \in {"stop", "look"}
  <2>1. Proceeds(r, outcome) = Concludes(c, outcome)
    BY <1>1, <1>6 DEF Proceeds, c
  <2>2. c.wants # "build"
    BY <1>1, <1>6 DEF SoundClient
  <2> QED BY <1>1, <2>1, <2>2, ConcludesSoundly
<1> QED BY <1>2, <1>3, <1>4, <1>5, <1>6 DEF Asking

\* A step of one client leaves the others alone.
LEMMA ClientsKept ==
  ASSUME LifeInv, NEW c \in Clients, NEW r, SoundClient(r), clients' = [clients EXCEPT ![c] = r]
  PROVE  DOMAIN clients' = Clients /\ \A e \in Clients : SoundClient(clients'[e])
BY DEF LifeInv

\* A step of one daemon leaves the others alone.
LEMMA FrostdsKept ==
  ASSUME LifeInv, NEW d \in Frostds, NEW r, DOMAIN r = {"at", "protocol", "queue", "serves"},
         frostds' = [frostds EXCEPT ![d] = r]
  PROVE  /\ DOMAIN frostds' = Frostds
         /\ \A e \in Frostds : DOMAIN frostds'[e] = {"at", "protocol", "queue", "serves"}
         /\ frostds'[d] = r /\ \A e \in Frostds : e # d => frostds'[e] = frostds[e]
BY DEF LifeInv

\* A daemon that goes elsewhere leaves the others alone.
LEMMA GoesKept ==
  ASSUME LifeInv, NEW d \in Frostds, NEW to, Goes(d, to)
  PROVE  /\ DOMAIN frostds' = Frostds
         /\ \A e \in Frostds : DOMAIN frostds'[e] = {"at", "protocol", "queue", "serves"}
         /\ frostds'[d].at = to /\ \A e \in Frostds : e # d => frostds'[e] = frostds[e]
<1> DEFINE r == IF to = "gone" THEN Gone ELSE [frostds[d] EXCEPT !.at = to]
<1>1. DOMAIN r = {"at", "protocol", "queue", "serves"} /\ r.at = to
  <2>1. DOMAIN NoFrostd = {"at", "protocol", "queue", "serves"}
    BY DEF NoFrostd
  <2>2. DOMAIN Gone = {"at", "protocol", "queue", "serves"} /\ Gone.at = "gone"
    BY <2>1 DEF Gone
  <2>3. DOMAIN frostds[d] = {"at", "protocol", "queue", "serves"}
    BY DEF LifeInv
  <2> QED BY <2>2, <2>3
<1>2. frostds' = [frostds EXCEPT ![d] = r]
  BY DEF Goes
<1> HIDE DEF r
<1> QED BY <1>1, <1>2, FrostdsKept

\* A daemon that goes on with what it does, and begins nothing, stays reachable.
LEMMA StaysReachable ==
  ASSUME LifeInv, NEW d \in Frostds, DOMAIN frostds' = Frostds,
         \A e \in Frostds : DOMAIN frostds'[e] = {"at", "protocol", "queue", "serves"},
         \A e \in Frostds : e # d => frostds'[e] = frostds[e],
         DOMAIN clients' = Clients, \A c \in Clients : SoundClient(clients'[c]),
         UNCHANGED <<socket, raced>>,
         Live(d)' => Live(d), Starts(d)' => Starts(d), Replacing(d)' => Replacing(d)
  PROVE  LifeInv'
<1>1. ASSUME ~raced PROVE Reachable'
  <2>1. Reachable
    BY <1>1 DEF LifeInv
  <2>2. \A e \in Frostds : /\ Live(e)' => Live(e)
                           /\ Starts(e)' => Starts(e)
                           /\ Replacing(e)' => Replacing(e)
    BY DEF Live, Starts, Replacing
  <2> QED BY <2>1, <2>2 DEF Reachable
<1> QED BY <1>1 DEF LifeInv

\* A step that only clients take changes no daemon.
LEMMA OnlyClients ==
  ASSUME LifeInv, DOMAIN clients' = Clients, \A c \in Clients : SoundClient(clients'[c]),
         UNCHANGED <<socket, raced, frostds>>
  PROVE  LifeInv'
<1>1. Reachable => Reachable'
  BY DEF Reachable, Live, Starts, Replacing
<1> QED BY <1>1 DEF LifeInv

\* A client connects, or finds no daemon.
LEMMA LifeConnect ==
  ASSUME LifeInv, NEW c \in Clients, Connect(c) PROVE LifeInv'
<1>1. SoundClient(clients[c]) /\ clients[c].stage \in Asking /\ DOMAIN clients = Clients
  BY DEF LifeInv, Connect, Requesting, SoundClient
<1>2. UNCHANGED <<socket, raced>>
  BY DEF Connect
<1>3. CASE socket # None /\ Listens(socket) /\ socket \in Frostds
  <2> DEFINE r == [clients[c] EXCEPT !.peer = socket]
             asks == [client |-> c, what |-> clients[c].stage, protocol |-> clients[c].protocol]
             q == [frostds[socket] EXCEPT !.queue = Append(frostds[socket].queue, asks)]
  <2>1. clients' = [clients EXCEPT ![c] = r] /\ frostds' = [frostds EXCEPT ![socket] = q]
    BY <1>3 DEF Connect
  <2>2. SoundClient(r)
    BY <1>1 DEF SoundClient
  <2>3. DOMAIN q = {"at", "protocol", "queue", "serves"} /\ q.at = frostds[socket].at
    BY <1>3 DEF LifeInv
  <2> HIDE DEF r, q
  <2>4. DOMAIN clients' = Clients /\ \A e \in Clients : SoundClient(clients'[e])
    BY <2>1, <2>2, ClientsKept
  <2>5. /\ DOMAIN frostds' = Frostds
        /\ \A e \in Frostds : DOMAIN frostds'[e] = {"at", "protocol", "queue", "serves"}
        /\ frostds'[socket] = q /\ \A e \in Frostds : e # socket => frostds'[e] = frostds[e]
    BY <1>3, <2>1, <2>3, FrostdsKept
  <2>6. PICK d \in Frostds : d = socket
    BY <1>3
  <2>7. frostds'[d].at = frostds[d].at
    BY <2>3, <2>5, <2>6
  <2>8. /\ Live(d)' => Live(d)
        /\ Starts(d)' => Starts(d)
        /\ Replacing(d)' => Replacing(d)
    BY <2>7 DEF Live, Starts, Replacing
  <2> QED BY <1>2, <2>4, <2>5, <2>6, <2>8, StaysReachable
<1>4. CASE ~(socket # None /\ Listens(socket))
  <2>1. /\ clients' = [clients EXCEPT ![c] = Proceeds(clients[c], "error")]
        /\ UNCHANGED frostds
    BY <1>4 DEF Connect
  <2>2. SoundClient(Proceeds(clients[c], "error"))
    BY <1>1, ProceedsSoundly DEF Outcomes
  <2>3. DOMAIN clients' = Clients /\ \A e \in Clients : SoundClient(clients'[e])
    BY <2>1, <2>2, ClientsKept
  <2> QED BY <1>2, <2>1, <2>3, OnlyClients
<1> QED BY <1>3, <1>4 DEF LifeInv

\* The daemon a client waits for is gone.
LEMMA LifeDisconnected ==
  ASSUME LifeInv, NEW c \in Clients, Disconnected(c) PROVE LifeInv'
<1>1. /\ clients' = [clients EXCEPT ![c] = Proceeds(clients[c], "error")]
      /\ UNCHANGED <<socket, frostds, raced>>
  BY DEF Disconnected
<1>2. SoundClient(clients[c]) /\ clients[c].stage \in Asking
  BY DEF LifeInv, Disconnected, SoundClient
<1>3. SoundClient(Proceeds(clients[c], "error"))
  BY <1>2, ProceedsSoundly DEF Outcomes
<1>4. DOMAIN clients' = Clients /\ \A e \in Clients : SoundClient(clients'[e])
  BY <1>1, <1>3, ClientsKept
<1> QED BY <1>1, <1>4, OnlyClients

\* A client starts a daemon: it is the only one that starts, unless they raced.
LEMMA LifeSpawn ==
  ASSUME LifeInv, NEW c \in Clients, SpawnDaemon(c) PROVE LifeInv'
<1>1. /\ SoundClient(clients[c]) /\ clients[c].stage = "spawn" /\ clients[c].peer = None
      /\ DOMAIN clients = Clients /\ UNCHANGED socket
  BY DEF LifeInv, SpawnDaemon, SoundClient, Asking
<1>2. CASE /\ \A d \in Frostds : frostds[d].at # "none"
           /\ clients' = [clients EXCEPT ![c] = AfterStart(@, FALSE)]
           /\ UNCHANGED <<frostds, raced>>
  <2>1. SoundClient(AfterStart(clients[c], FALSE))
    BY <1>1, StartsSoundly
  <2>2. clients' = [clients EXCEPT ![c] = AfterStart(clients[c], FALSE)]
    BY <1>2
  <2>3. DOMAIN clients' = Clients /\ \A e \in Clients : SoundClient(clients'[e])
    BY <2>1, <2>2, ClientsKept
  <2> QED BY <1>1, <1>2, <2>3, OnlyClients
<1>3. CASE ~(\A d \in Frostds : frostds[d].at # "none")
  <2> DEFINE q == [NoFrostd EXCEPT !.at = "check", !.protocol = clients[c].protocol]
             r == [clients[c] EXCEPT !.stage = "poll", !.polls = 0]
  <2>1. PICK d \in Frostds :
          /\ frostds[d].at = "none" /\ frostds' = [frostds EXCEPT ![d] = q]
          /\ clients' = [clients EXCEPT ![c].stage = "poll", ![c].polls = 0]
          /\ raced' = (raced \/ \E other \in Frostds : Starts(other))
    <3>1. (CHOOSE d \in Frostds : frostds[d].at = "none") \in Frostds
      BY <1>3
    <3>2. frostds[CHOOSE d \in Frostds : frostds[d].at = "none"].at = "none"
      BY <1>3
    <3> QED BY <1>3, <3>1, <3>2 DEF SpawnDaemon
  <2>2. clients' = [clients EXCEPT ![c] = r]
    BY <1>1, <2>1
  <2>3. SoundClient(r)
    BY <1>1 DEF SoundClient, Asking
  <2> HIDE DEF r
  <2>4. DOMAIN clients' = Clients /\ \A e \in Clients : SoundClient(clients'[e])
    BY <2>2, <2>3, ClientsKept
  <2>5. DOMAIN q = {"at", "protocol", "queue", "serves"} /\ q.at = "check"
    BY DEF NoFrostd
  <2> HIDE DEF q
  <2>6. /\ DOMAIN frostds' = Frostds
        /\ \A e \in Frostds : DOMAIN frostds'[e] = {"at", "protocol", "queue", "serves"}
        /\ frostds'[d] = q /\ \A e \in Frostds : e # d => frostds'[e] = frostds[e]
    BY <2>1, <2>5, FrostdsKept
  <2>7. ASSUME ~raced' PROVE Reachable'
    <3>1. Reachable /\ \A other \in Frostds : ~Starts(other)
      BY <2>1, <2>7 DEF LifeInv
    <3>2. \A e \in Frostds : /\ Live(e)' => Live(e)
                             /\ Starts(e)' => e = d
                             /\ Replacing(e)' => Replacing(e)
      BY <2>5, <2>6, <3>1 DEF Live, Starts, Replacing
    <3> QED BY <1>1, <3>1, <3>2 DEF Reachable
  <2> QED BY <1>1, <2>4, <2>6, <2>7 DEF LifeInv
<1> QED BY <1>2, <1>3 DEF SpawnDaemon

\* A client builds without a daemon.
LEMMA LifeBuildLocally ==
  ASSUME LifeInv, NEW c \in Clients, BuildLocally(c) PROVE LifeInv'
<1>1. /\ clients' = [clients EXCEPT ![c] = Concludes(clients[c], "self")]
      /\ UNCHANGED <<socket, frostds, raced>>
  BY DEF BuildLocally
<1>2. SoundClient(Concludes(clients[c], "self"))
  BY ConcludesSoundly DEF LifeInv
<1>3. DOMAIN clients' = Clients /\ \A e \in Clients : SoundClient(clients'[e])
  BY <1>1, <1>2, ClientsKept
<1> QED BY <1>1, <1>3, OnlyClients

\* A client leaves.
LEMMA LifeInterrupt ==
  ASSUME LifeInv, NEW c \in Clients, Interrupt(c) PROVE LifeInv'
<1> DEFINE r == [Concludes(clients[c], None) EXCEPT !.stage = "left"]
<1>1. clients' = [clients EXCEPT ![c] = r] /\ UNCHANGED <<socket, frostds, raced>>
  BY DEF Interrupt
<1>2. SoundClient(r)
  BY DEF LifeInv, SoundClient, Concludes, Asking
<1> HIDE DEF r
<1>3. DOMAIN clients' = Clients /\ \A e \in Clients : SoundClient(clients'[e])
  BY <1>1, <1>2, ClientsKept
<1> QED BY <1>1, <1>3, OnlyClients

\* A daemon that finds no listener at the socket is the only one there is, if they did not
\* race.
LEMMA LifeCheckSocket ==
  ASSUME LifeInv, NEW d \in Frostds, CheckSocket(d) PROVE LifeInv'
<1> DEFINE to == IF Taken THEN "gone" ELSE "unlink"
<1>1. frostds[d].at = "check" /\ Goes(d, to) /\ UNCHANGED <<socket, clients, raced>>
  BY DEF CheckSocket
<1>2. /\ DOMAIN frostds' = Frostds
      /\ \A e \in Frostds : DOMAIN frostds'[e] = {"at", "protocol", "queue", "serves"}
      /\ frostds'[d].at = to /\ \A e \in Frostds : e # d => frostds'[e] = frostds[e]
  BY <1>1, GoesKept
<1>3. ASSUME ~raced PROVE Reachable'
  <2>1. Reachable
    BY <1>3 DEF LifeInv
  <2>2. to = "unlink" => \A e \in Frostds : ~Live(e)
    BY <2>1, LifeAssumption DEF Reachable, Taken, Listens, Live
  <2>3. \A e \in Frostds : /\ Live(e)' => Live(e)
                           /\ Starts(e)' => Starts(e)
                           /\ Replacing(e)' => Replacing(e) \/ to = "unlink"
    BY <1>1, <1>2 DEF Live, Starts, Replacing
  <2> QED BY <1>1, <2>1, <2>2, <2>3 DEF Reachable
<1> QED BY <1>1, <1>2, <1>3 DEF LifeInv

\* The file that is removed is no live daemon's, if they did not race.
LEMMA LifeUnlink ==
  ASSUME LifeInv, NEW d \in Frostds, Unlink(d) PROVE LifeInv'
<1>1. /\ frostds[d].at = "unlink" /\ Goes(d, "bind") /\ socket' = None
      /\ UNCHANGED <<clients, raced>>
  BY DEF Unlink
<1>2. /\ DOMAIN frostds' = Frostds
      /\ \A e \in Frostds : DOMAIN frostds'[e] = {"at", "protocol", "queue", "serves"}
      /\ frostds'[d].at = "bind" /\ \A e \in Frostds : e # d => frostds'[e] = frostds[e]
  BY <1>1, GoesKept
<1>3. ASSUME ~raced PROVE Reachable'
  <2>1. Reachable
    BY <1>3 DEF LifeInv
  <2>2. Starts(d) /\ Replacing(d)
    BY <1>1 DEF Starts, Replacing
  <2>3. \A e \in Frostds : ~Live(e) /\ ~Live(e)' /\ (Starts(e)' => Starts(e))
    BY <1>1, <1>2, <2>1, <2>2 DEF Reachable, Live, Starts
  <2> QED BY <2>1, <2>3 DEF Reachable
<1> QED BY <1>1, <1>2, <1>3 DEF LifeInv

\* The daemon that binds is the one that clients reach.
LEMMA LifeBind ==
  ASSUME LifeInv, NEW d \in Frostds, Bind(d) PROVE LifeInv'
<1>1. frostds[d].at = "bind" /\ UNCHANGED <<clients, raced>>
  BY DEF Bind
<1>2. PICK to \in {"watch", "gone"} :
        /\ Goes(d, to) /\ socket' = IF to = "watch" THEN d ELSE socket
  BY DEF Bind
<1>3. /\ DOMAIN frostds' = Frostds
      /\ \A e \in Frostds : DOMAIN frostds'[e] = {"at", "protocol", "queue", "serves"}
      /\ frostds'[d].at = to /\ \A e \in Frostds : e # d => frostds'[e] = frostds[e]
  BY <1>2, GoesKept
<1>4. ASSUME ~raced PROVE Reachable'
  <2>1. Reachable
    BY <1>4 DEF LifeInv
  <2>2. Starts(d) /\ Replacing(d)
    BY <1>1 DEF Starts, Replacing
  <2>3. \A e \in Frostds : ~Live(e) /\ (Starts(e) => e = d)
    BY <2>1, <2>2 DEF Reachable
  <2>4. \A e \in Frostds : (Live(e)' => e = d /\ to = "watch") /\ ~Starts(e)' /\ ~Replacing(e)'
    BY <1>2, <1>3, <2>3 DEF Live, Starts, Replacing
  <2> QED BY <1>2, <2>4 DEF Reachable
<1> QED BY <1>1, <1>2, <1>3, <1>4 DEF LifeInv

\* The file that a daemon removes when it stops is its own, if they did not race.
LEMMA LifeRemoveSocket ==
  ASSUME LifeInv, NEW d \in Frostds, RemoveSocket(d) PROVE LifeInv'
<1>1. /\ frostds[d].at = "cleanup" /\ Goes(d, "exit") /\ socket' = None
      /\ UNCHANGED <<clients, raced>>
  BY DEF RemoveSocket
<1>2. /\ DOMAIN frostds' = Frostds
      /\ \A e \in Frostds : DOMAIN frostds'[e] = {"at", "protocol", "queue", "serves"}
      /\ frostds'[d].at = "exit" /\ \A e \in Frostds : e # d => frostds'[e] = frostds[e]
  BY <1>1, GoesKept
<1>3. ASSUME ~raced PROVE Reachable'
  <2>1. Reachable
    BY <1>3 DEF LifeInv
  <2>2. Live(d)
    BY <1>1 DEF Live
  <2>3. \A e \in Frostds : (Live(e) => e = d)
    BY <2>1, <2>2 DEF Reachable
  <2>4. \A e \in Frostds : ~Live(e)' /\ (Starts(e)' => Starts(e))
    BY <1>2, <2>3 DEF Live, Starts
  <2> QED BY <2>1, <2>4 DEF Reachable
<1> QED BY <1>1, <1>2, <1>3 DEF LifeInv

\* A daemon that ends, or goes on to accept, makes no other unreachable.
LEMMA LifeGoesOn ==
  ASSUME LifeInv, NEW d \in Frostds, NEW to, Goes(d, to),
         UNCHANGED <<socket, clients, raced>>,
         \/ to \in {"gone", "exit"}
         \/ to = "accept" /\ Live(d)
  PROVE  LifeInv'
<1>1. /\ DOMAIN frostds' = Frostds
      /\ \A e \in Frostds : DOMAIN frostds'[e] = {"at", "protocol", "queue", "serves"}
      /\ frostds'[d].at = to /\ \A e \in Frostds : e # d => frostds'[e] = frostds[e]
  BY GoesKept
<1>2. /\ Live(d)' => Live(d)
      /\ Starts(d)' => Starts(d)
      /\ Replacing(d)' => Replacing(d)
  BY <1>1 DEF Live, Starts, Replacing
<1>3. DOMAIN clients' = Clients /\ \A c \in Clients : SoundClient(clients'[c])
  BY DEF LifeInv
<1> QED BY <1>1, <1>2, <1>3, StaysReachable

\* A reply lets the client go on that waits for it.
LEMMA RepliesSoundly ==
  ASSUME LifeInv, NEW d \in Frostds, NEW request, NEW outcome \in Outcomes,
         clients' = Replied(d, request, outcome)
  PROVE  DOMAIN clients' = Clients /\ \A c \in Clients : SoundClient(clients'[c])
<1>1. CASE clients[request.client].peer = d /\ request.client \in Clients
  <2>1. PICK c \in Clients : c = request.client
    BY <1>1
  <2>2. SoundClient(clients[c]) /\ clients[c].stage \in Asking
    BY <1>1, <2>1, LifeAssumption DEF LifeInv, SoundClient
  <2>3. SoundClient(Proceeds(clients[c], outcome))
    BY <2>2, ProceedsSoundly
  <2>4. clients' = [clients EXCEPT ![c] = Proceeds(clients[c], outcome)]
    BY <1>1, <2>1 DEF Replied
  <2> QED BY <2>3, <2>4, ClientsKept
<1>2. CASE clients[request.client].peer = d /\ request.client \notin Clients
  <2>1. clients' = [clients EXCEPT ![request.client] = Proceeds(clients[request.client], outcome)]
    BY <1>2 DEF Replied
  <2>2. DOMAIN clients = Clients /\ \A c \in Clients : c # request.client /\ SoundClient(clients[c])
    BY <1>2 DEF LifeInv
  <2> HIDE DEF LifeInv
  <2>3. DOMAIN clients' = Clients /\ \A c \in Clients : clients'[c] = clients[c]
    BY <2>1, <2>2
  <2> QED BY <2>2, <2>3
<1>3. CASE clients[request.client].peer # d
  BY <1>3 DEF Replied, LifeInv
<1> QED BY <1>1, <1>2, <1>3

\* A daemon takes the next request: it builds, stops or replies.
LEMMA LifeAccept ==
  ASSUME LifeInv, NEW d \in Frostds, Accept(d) PROVE LifeInv'
<1>1. frostds[d].at = "accept" /\ UNCHANGED <<socket, raced>>
  BY DEF Accept
<1> DEFINE request == Head(frostds[d].queue)
           runs == request.what \in {"run", "again", "last"}
           stops == request.what \in {"shutdown", "stop"}
           to == IF ~Obeys(d, request) THEN "accept"
                 ELSE IF runs THEN "build" ELSE IF stops THEN "cleanup" ELSE "accept"
           outcome == IF Obeys(d, request) THEN "ok" ELSE "mismatch"
           q == [frostds[d] EXCEPT !.at = to, !.queue = Tail(@),
                                   !.serves = IF to = "build" THEN request ELSE None]
<1>2. /\ frostds' = [frostds EXCEPT ![d].at = to, ![d].queue = Tail(@),
                         ![d].serves = IF to = "build" THEN request ELSE None]
      /\ clients' = IF to = "build" THEN clients ELSE Replied(d, request, outcome)
  BY DEF Accept
<1>3. DOMAIN frostds = Frostds /\ DOMAIN frostds[d] = {"at", "protocol", "queue", "serves"}
  BY DEF LifeInv
<1>4. to \in {"accept", "build", "cleanup"} /\ outcome \in Outcomes
  BY DEF Outcomes
<1> HIDE DEF to, outcome, request
<1>5. frostds' = [frostds EXCEPT ![d] = q]
  BY <1>2, <1>3
<1>6. DOMAIN q = {"at", "protocol", "queue", "serves"} /\ q.at = to
  BY <1>3
<1> HIDE DEF q
<1>7. /\ DOMAIN frostds' = Frostds
      /\ \A e \in Frostds : DOMAIN frostds'[e] = {"at", "protocol", "queue", "serves"}
      /\ frostds'[d] = q /\ \A e \in Frostds : e # d => frostds'[e] = frostds[e]
  BY <1>5, <1>6, FrostdsKept
<1>8. DOMAIN clients' = Clients /\ \A c \in Clients : SoundClient(clients'[c])
  <2>1. CASE to = "build"
    BY <1>2, <2>1 DEF LifeInv
  <2>2. CASE to # "build"
    <3>1. clients' = Replied(d, request, outcome)
      BY <1>2, <2>2
    <3> QED BY <1>4, <3>1, RepliesSoundly
  <2> QED BY <2>1, <2>2
<1>9. /\ Live(d)' => Live(d)
      /\ Starts(d)' => Starts(d)
      /\ Replacing(d)' => Replacing(d)
  BY <1>1, <1>4, <1>6, <1>7 DEF Live, Starts, Replacing
<1> QED BY <1>1, <1>7, <1>8, <1>9, StaysReachable

\* A build ends and its client is told.
LEMMA LifeFinishBuild ==
  ASSUME LifeInv, NEW d \in Frostds, FinishBuild(d) PROVE LifeInv'
<1> DEFINE q == [frostds[d] EXCEPT !.at = "accept", !.serves = None]
<1>1. /\ frostds[d].at = "build" /\ UNCHANGED <<socket, raced>>
      /\ frostds' = [frostds EXCEPT ![d].at = "accept", ![d].serves = None]
      /\ clients' = Replied(d, frostds[d].serves, "ok")
  BY DEF FinishBuild
<1>2. DOMAIN frostds = Frostds /\ DOMAIN frostds[d] = {"at", "protocol", "queue", "serves"}
  BY DEF LifeInv
<1>3. frostds' = [frostds EXCEPT ![d] = q]
  BY <1>1, <1>2
<1>4. DOMAIN q = {"at", "protocol", "queue", "serves"} /\ q.at = "accept"
  BY <1>2
<1> HIDE DEF q
<1>5. /\ DOMAIN frostds' = Frostds
      /\ \A e \in Frostds : DOMAIN frostds'[e] = {"at", "protocol", "queue", "serves"}
      /\ frostds'[d] = q /\ \A e \in Frostds : e # d => frostds'[e] = frostds[e]
  BY <1>3, <1>4, FrostdsKept
<1>6. DOMAIN clients' = Clients /\ \A c \in Clients : SoundClient(clients'[c])
  BY <1>1, RepliesSoundly DEF Outcomes
<1>7. /\ Live(d)' => Live(d)
      /\ Starts(d)' => Starts(d)
      /\ Replacing(d)' => Replacing(d)
  BY <1>1, <1>4, <1>5 DEF Live, Starts, Replacing
<1> QED BY <1>1, <1>5, <1>6, <1>7, StaysReachable

\* Every step of a client or a daemon keeps LifeInv.
LEMMA LifeStep == LifeInv /\ [LifeNext]_lifeVars => LifeInv'
<1> SUFFICES ASSUME LifeInv, [LifeNext]_lifeVars PROVE LifeInv'
  OBVIOUS
<1>1. CASE UNCHANGED lifeVars
  BY <1>1, OnlyClients DEF lifeVars, LifeInv
<1>2. ASSUME NEW c \in Clients, ClientStep(c) \/ Interrupt(c) PROVE LifeInv'
  BY <1>2, LifeConnect, LifeDisconnected, LifeSpawn, LifeBuildLocally, LifeInterrupt
     DEF ClientStep
<1>3. ASSUME NEW d \in Frostds, FrostdStep(d) PROVE LifeInv'
  <2>1. CASE WatchRoot(d)
    <3>1. Live(d)
      BY <2>1 DEF WatchRoot, Live
    <3> QED BY <2>1, <3>1, LifeGoesOn DEF WatchRoot
  <2>2. CASE Exit(d)
    BY <2>2, LifeGoesOn DEF Exit
  <2> QED BY <1>3, <2>1, <2>2, LifeCheckSocket, LifeUnlink, LifeBind, LifeAccept,
             LifeFinishBuild, LifeRemoveSocket DEF FrostdStep
<1>4. ASSUME NEW d \in Frostds, KillFrostd(d) PROVE LifeInv'
  BY <1>4, LifeGoesOn DEF KillFrostd
<1> QED BY <1>1, <1>2, <1>3, <1>4 DEF LifeNext

\* LifeInv says that clients have what they asked for, and that daemons are reachable.
LEMMA LifeMeans == LifeInv => ClientsAreServed
<1> SUFFICES ASSUME LifeInv PROVE ClientsAreServed
  OBVIOUS
<1>1. BuildsAreOfTheirVersion
  BY DEF LifeInv, SoundClient, BuildsAreOfTheirVersion
<1>2. DaemonIsReachable
  BY DEF LifeInv, Reachable, Live, DaemonIsReachable
<1> QED BY <1>1, <1>2 DEF ClientsAreServed

-----------------------------------------------------------------------------
(* Language server: the last message about a file that waits in the inbox     *)
(* makes the server's copy of it the editor's.                                *)

AnyText == ManifestTexts \cup {NoText, None}
Messages ==
  {m \in [method : Methods \cup Notifications, uri : Uris \cup {None}, text : AnyText] :
     m.method \in {"didOpen", "didChange", "didClose"} => m.uri \in Uris}

LspTypes ==
  /\ files \in [ManifestUris -> ManifestTexts] /\ \A u \in ManifestUris : files[u] \in Texts[u]
  /\ inbox \in Seq(Messages)
  /\ documents = [u \in DOMAIN documents |-> documents[u]] /\ DOMAIN documents \subseteq Uris
  /\ buffers = [u \in DOMAIN buffers |-> buffers[u]] /\ DOMAIN buffers \subseteq Uris
  /\ \A u \in DOMAIN buffers :
       buffers[u] \in AnyText /\ (u \in ManifestUris => buffers[u] \in Texts[u])
  /\ DOMAIN shown = Uris

\* A message that changes the server's copy of u, and the copy that it leaves.
Speaks(message, u) ==
  message.uri = u /\ message.method \in {"didOpen", "didChange", "didClose"}
Leaves(message, u, copies) ==
  IF message.method = "didClose" THEN u \notin DOMAIN copies
  ELSE u \in DOMAIN copies /\ message.text = copies[u]
SameCopy(u) ==
  (u \in DOMAIN documents <=> u \in DOMAIN buffers)
    /\ (u \in DOMAIN buffers => documents[u] = buffers[u])

\* The last message about u that waits makes the server's copy the editor's; if there
\* is none, it is so.
Follows(u) ==
  /\ (\A i \in 1..Len(inbox) : ~Speaks(inbox[i], u)) => SameCopy(u)
  /\ \A i \in 1..Len(inbox) :
       Speaks(inbox[i], u) /\ (\A j \in 1..Len(inbox) : j > i => ~Speaks(inbox[j], u)) =>
         Leaves(inbox[i], u, buffers)

ShownIs(u) == shown[u] = Published(u, documents, error)

WarmIsRight == warm # None => Complaint(warm) = {None}

ProjectIsRight ==
  ~stale =>
    /\ error \in Complaint(files)
    /\ Assembled(files) =>
         IF error = None THEN graph = files ELSE graph = None /\ manifest = files

LspInv ==
  /\ LspTypes
  /\ \A u \in Uris : Follows(u) /\ ShownIs(u)
  /\ WarmIsRight /\ ProjectIsRight

\* There always are files.
LEMMA NoneIsNoFiles == ASSUME LspTypes PROVE files # None
BY LspAssumption DEF LspTypes

\* Files that may be found right are never found wrong.
LEMMA NoneIsAlone ==
  ASSUME NEW f, \A u \in ManifestUris : f[u] \in Texts[u], None \in Complaint(f)
  PROVE  Complaint(f) = {None}
<1>1. Declared(f) \subseteq Labels
  BY LspAssumption DEF Declared
<1>2. None # [kind |-> "syntax", tokens |-> {}] /\ None # [kind |-> "cycle", tokens |-> {}]
  BY LspAssumption DEF Complaints
<1>3. ASSUME NEW d \in Dangling(f) PROVE None # [kind |-> "label", tokens |-> {d[1], d[2]}]
  <2>1. d[1] \in Labels /\ d[2] \in Labels
    BY <1>1 DEF Dangling, Labels
  <2>2. [kind |-> "label", tokens |-> {d[1], d[2]}] \in Complaints
    BY <2>1 DEF Complaints
  <2> QED BY <2>2, LspAssumption
<1> QED BY <1>2, <1>3 DEF Complaint

\* Nothing is open when the server starts, and the project is as the files are.
LEMMA LspStart == LspInit => LspInv
<1> SUFFICES ASSUME LspInit PROVE LspInv
  OBVIOUS
<1>1. files \in [ManifestUris -> ManifestTexts] /\ \A u \in ManifestUris : files[u] \in Texts[u]
  BY DEF LspInit, ManifestTexts
<1>2. inbox = <<>> /\ inbox \in Seq(Messages) /\ Len(inbox) = 0
  BY DEF LspInit
<1>3. documents = <<>> /\ buffers = <<>> /\ DOMAIN <<>> = {}
      /\ <<>> = [u \in DOMAIN <<>> |-> <<>>[u]]
  BY DEF LspInit
<1>4. LspTypes
  BY <1>1, <1>2, <1>3 DEF LspInit, LspTypes
<1>5. ASSUME NEW u \in Uris PROVE Follows(u) /\ ShownIs(u)
  BY <1>2, <1>3 DEF LspInit, Follows, ShownIs, SameCopy, Published
<1>6. WarmIsRight
  BY DEF LspInit, WarmIsRight
<1>7. ProjectIsRight
  BY NoneIsAlone, <1>1 DEF LspInit, ProjectIsRight
<1> QED BY <1>4, <1>5, <1>6, <1>7 DEF LspInv

\* What is in the inbox when a message is added.
LEMMA Appended ==
  ASSUME inbox \in Seq(Messages), NEW m \in Messages, inbox' = Append(inbox, m)
  PROVE  /\ inbox' \in Seq(Messages) /\ Len(inbox') = Len(inbox) + 1 /\ Len(inbox) \in Nat
         /\ inbox'[Len(inbox) + 1] = m
         /\ \A i \in 1..Len(inbox) : inbox'[i] = inbox[i]
OBVIOUS

\* The editor says what it does to its copy, and its last word is its copy.
LEMMA FollowsTold ==
  ASSUME inbox \in Seq(Messages), NEW m \in Messages, inbox' = Append(inbox, m),
         UNCHANGED documents, NEW u \in Uris, Follows(u),
         Speaks(m, u) => Leaves(m, u, buffers'),
         ~Speaks(m, u) =>
           /\ u \in DOMAIN buffers' <=> u \in DOMAIN buffers
           /\ u \in DOMAIN buffers => buffers'[u] = buffers[u]
  PROVE  Follows(u)'
<1> DEFINE n == Len(inbox)
<1>1. /\ Len(inbox') = n + 1 /\ n \in Nat /\ inbox'[n + 1] = m
      /\ \A i \in 1..n : inbox'[i] = inbox[i]
  BY Appended
<1> HIDE DEF n
<1>2. CASE Speaks(m, u)
  <2>1. Speaks(inbox'[n + 1], u) /\ n + 1 \in 1..Len(inbox')
    BY <1>1, <1>2
  <2>2. ASSUME NEW i \in 1..Len(inbox'),
               \A j \in 1..Len(inbox') : j > i => ~Speaks(inbox'[j], u)
        PROVE  inbox'[i] = m
    BY <1>1, <2>1, <2>2
  <2> QED BY <1>2, <2>1, <2>2 DEF Follows
<1>3. CASE ~Speaks(m, u)
  <2>1. SameCopy(u) => SameCopy(u)'
    BY <1>3 DEF SameCopy
  <2>2. \A i \in 1..n : Leaves(inbox[i], u, buffers) => Leaves(inbox'[i], u, buffers')
    BY <1>1, <1>3 DEF Leaves
  <2>3. (\A i \in 1..n + 1 : ~Speaks(inbox'[i], u)) => SameCopy(u)'
    BY <1>1, <2>1 DEF Follows, n
  <2>4. ASSUME NEW i \in 1..n + 1, Speaks(inbox'[i], u),
               \A j \in 1..n + 1 : j > i => ~Speaks(inbox'[j], u)
        PROVE  Leaves(inbox'[i], u, buffers')
    <3>1. i \in 1..n
      BY <1>1, <1>3, <2>4
    <3>2. Speaks(inbox[i], u) /\ \A j \in 1..n : j > i => ~Speaks(inbox[j], u)
      BY <1>1, <2>4, <3>1
    <3> QED BY <2>2, <3>1, <3>2 DEF Follows, n
  <2> QED BY <1>1, <2>3, <2>4 DEF Follows
<1> QED BY <1>2, <1>3

\* What is in the inbox when a message is taken.
LEMMA Handled ==
  ASSUME inbox \in Seq(Messages), inbox # <<>>, inbox' = Tail(inbox)
  PROVE  /\ Head(inbox) \in Messages /\ inbox' \in Seq(Messages)
         /\ Len(inbox) \in Nat \ {0} /\ Len(inbox') = Len(inbox) - 1
         /\ inbox[1] = Head(inbox)
         /\ \A i \in 1..Len(inbox') : inbox'[i] = inbox[i + 1]
OBVIOUS

\* The server does to its copy what it is told.
LEMMA FollowsHandled ==
  ASSUME inbox \in Seq(Messages), inbox # <<>>, inbox' = Tail(inbox),
         UNCHANGED buffers, NEW u \in Uris, Follows(u),
         Speaks(Head(inbox), u) /\ Leaves(Head(inbox), u, buffers) => SameCopy(u)',
         ~Speaks(Head(inbox), u) =>
           /\ u \in DOMAIN documents' <=> u \in DOMAIN documents
           /\ u \in DOMAIN documents => documents'[u] = documents[u]
  PROVE  Follows(u)'
<1> DEFINE n == Len(inbox)
<1>1. /\ Len(inbox') = n - 1 /\ n \in Nat \ {0} /\ inbox[1] = Head(inbox)
      /\ \A i \in 1..n - 1 : inbox'[i] = inbox[i + 1]
  BY Handled
<1>2. buffers' = buffers
  OBVIOUS
<1>3. Follows(u)!1 /\ Follows(u)!2
  BY DEF Follows
<1> HIDE DEF n
<1>4. (\A i \in 1..n - 1 : ~Speaks(inbox'[i], u)) => SameCopy(u)'
  <2> SUFFICES ASSUME \A i \in 1..n - 1 : ~Speaks(inbox'[i], u) PROVE SameCopy(u)'
    OBVIOUS
  <2>1. \A j \in 1..n : j > 1 => ~Speaks(inbox[j], u)
    <3> SUFFICES ASSUME NEW j \in 1..n, j > 1 PROVE ~Speaks(inbox[j], u)
      OBVIOUS
    <3>1. j - 1 \in 1..n - 1 /\ (j - 1) + 1 = j
      BY <1>1
    <3> QED BY <1>1, <3>1
  <2>2. CASE Speaks(inbox[1], u)
    <3>1. Leaves(inbox[1], u, buffers)
      BY <1>1, <1>3, <2>1, <2>2 DEF n
    <3> QED BY <1>1, <2>2, <3>1
  <2>3. CASE ~Speaks(inbox[1], u)
    <3>1. SameCopy(u)
      BY <1>1, <1>3, <2>1, <2>3 DEF n
    <3> QED BY <1>1, <2>3, <3>1 DEF SameCopy
  <2> QED BY <2>2, <2>3
<1>5. ASSUME NEW i \in 1..n - 1, Speaks(inbox'[i], u),
             \A j \in 1..n - 1 : j > i => ~Speaks(inbox'[j], u)
      PROVE  Leaves(inbox'[i], u, buffers')
  <2>1. i + 1 \in 1..n /\ inbox'[i] = inbox[i + 1]
    BY <1>1
  <2>2. ASSUME NEW j \in 1..n, j > i + 1 PROVE ~Speaks(inbox[j], u)
    <3>1. j - 1 \in 1..n - 1 /\ (j - 1) + 1 = j /\ j - 1 > i
      BY <1>1, <2>2
    <3> QED BY <1>1, <1>5, <3>1
  <2>3. Leaves(inbox[i + 1], u, buffers)
    BY <1>3, <1>5, <2>1, <2>2 DEF n
  <2> QED BY <1>2, <2>1, <2>3
<1> QED BY <1>1, <1>4, <1>5 DEF Follows

\* Workspace::reload finds what the files say, from the graph store or from them.
LEMMA ReloadsProject ==
  ASSUME LspInv, Reload, UNCHANGED files PROVE WarmIsRight' /\ (stale' = FALSE => ProjectIsRight')
<1>1. files # None /\ \A u \in ManifestUris : files[u] \in Texts[u]
  BY NoneIsNoFiles DEF LspInv, LspTypes
<1>2. CASE Cached
  <2>1. /\ graph' = files /\ error' = None /\ UNCHANGED <<manifest, warm>>
        /\ Complaint(files) = {None}
    BY <1>1, <1>2 DEF Reload, LspInv, WarmIsRight, Cached
  <2> QED BY <2>1 DEF LspInv, WarmIsRight, ProjectIsRight
<1>3. CASE ~Cached
  <2>1. error' \in Complaint(files)
    BY <1>3 DEF Reload
  <2>2. CASE ~Assembled(files)
    BY <1>3, <2>1, <2>2 DEF Reload, LspInv, WarmIsRight, ProjectIsRight
  <2>3. CASE Assembled(files)
    <3>1. /\ manifest' = files
          /\ IF error' = None THEN graph' = files /\ warm' = files
             ELSE graph' = None /\ UNCHANGED warm
      BY <1>3, <2>3 DEF Reload
    <3>2. error' = None => Complaint(files) = {None}
      BY <1>1, <2>1, NoneIsAlone
    <3> QED BY <2>1, <3>1, <3>2 DEF LspInv, WarmIsRight, ProjectIsRight
  <2> QED BY <2>2, <2>3
<1> QED BY <1>2, <1>3

\* The project is right for as long as the files are what they were.
LEMMA SameProject ==
  ASSUME LspInv, UNCHANGED <<project, warm>>, stale' \/ UNCHANGED <<files, stale>>
  PROVE  WarmIsRight' /\ ProjectIsRight'
BY DEF LspInv, WarmIsRight, ProjectIsRight, project

\* didOpen, didChange and didClose: the copy, what is shown of it, and not the project.
LEMMA HandleNotification ==
  ASSUME LspInv, Handle, NEW message, message = Head(inbox),
         DidOpenOrChange(message) \/ DidClose(message)
  PROVE  /\ documents' = [v \in DOMAIN documents' |-> documents'[v]]
         /\ DOMAIN documents' \subseteq Uris /\ DOMAIN shown' = Uris
         /\ \A u \in Uris : Follows(u)' /\ ShownIs(u)'
         /\ WarmIsRight' /\ ProjectIsRight'
<1>1. /\ inbox # <<>> /\ inbox' = Tail(inbox) /\ UNCHANGED <<files, buffers>>
      /\ LspTypes
  BY DEF Handle, LspInv
<1>2. message \in Messages
  BY <1>1, Handled DEF LspTypes
<1>3. UNCHANGED <<project, warm, stale>>
  BY DEF DidOpenOrChange, DidClose
<1>4. WarmIsRight' /\ ProjectIsRight'
  BY <1>1, <1>3, SameProject
<1>5. CASE DidOpenOrChange(message)
  <2>1. /\ message.method \in {"didOpen", "didChange"}
        /\ documents' = With(message.uri, message.text)
        /\ shown' = [shown EXCEPT ![message.uri] = Published(message.uri, documents', error)]
    BY <1>5 DEF DidOpenOrChange
  <2>2. message.uri \in Uris
    BY <1>2, <2>1 DEF Messages
  <2>3. /\ DOMAIN documents' = DOMAIN documents \cup {message.uri}
        /\ documents' = [v \in DOMAIN documents' |-> documents'[v]]
        /\ documents'[message.uri] = message.text
        /\ \A v \in DOMAIN documents : v # message.uri => documents'[v] = documents[v]
    BY <2>1 DEF With
  <2>4. ASSUME NEW u \in Uris PROVE Follows(u)'
    <3>1. Speaks(message, u) <=> message.uri = u
      BY <2>1 DEF Speaks
    <3>2. Speaks(message, u) /\ Leaves(message, u, buffers) => SameCopy(u)'
      BY <1>1, <2>1, <2>3, <3>1 DEF Leaves, SameCopy
    <3>3. ~Speaks(message, u) => /\ u \in DOMAIN documents' <=> u \in DOMAIN documents
                                 /\ u \in DOMAIN documents => documents'[u] = documents[u]
      BY <2>3, <3>1
    <3> QED BY <1>1, <3>2, <3>3, FollowsHandled DEF LspInv, LspTypes
  <2>5. ASSUME NEW u \in Uris PROVE ShownIs(u)'
    <3>1. CASE u = message.uri
      BY <1>1, <1>3, <2>1, <2>2, <3>1 DEF ShownIs, LspTypes, project
    <3>2. CASE u # message.uri
      <4>1. shown'[u] = shown[u] /\ ShownIs(u)
        BY <1>1, <2>1, <3>2 DEF LspTypes, LspInv
      <4>2. Published(u, documents', error) = Published(u, documents, error)
        BY <2>3, <3>2 DEF Published
      <4> QED BY <1>3, <4>1, <4>2 DEF ShownIs, project
    <3> QED BY <3>1, <3>2
  <2> QED BY <1>1, <1>4, <2>1, <2>2, <2>3, <2>4, <2>5 DEF LspTypes
<1>6. CASE DidClose(message)
  <2>1. /\ message.method = "didClose" /\ documents' = Without(message.uri)
        /\ shown' = [shown EXCEPT ![message.uri] = None]
    BY <1>6 DEF DidClose
  <2>2. message.uri \in Uris
    BY <1>2, <2>1 DEF Messages
  <2>3. /\ DOMAIN documents' = DOMAIN documents \ {message.uri}
        /\ documents' = [v \in DOMAIN documents' |-> documents'[v]]
        /\ \A v \in DOMAIN documents : v # message.uri => documents'[v] = documents[v]
    BY <2>1 DEF Without
  <2>4. ASSUME NEW u \in Uris PROVE Follows(u)'
    <3>1. Speaks(message, u) <=> message.uri = u
      BY <2>1 DEF Speaks
    <3>2. Speaks(message, u) /\ Leaves(message, u, buffers) => SameCopy(u)'
      BY <1>1, <2>1, <2>3, <3>1 DEF Leaves, SameCopy
    <3>3. ~Speaks(message, u) => /\ u \in DOMAIN documents' <=> u \in DOMAIN documents
                                 /\ u \in DOMAIN documents => documents'[u] = documents[u]
      BY <2>3, <3>1
    <3> QED BY <1>1, <3>2, <3>3, FollowsHandled DEF LspInv, LspTypes
  <2>5. ASSUME NEW u \in Uris PROVE ShownIs(u)'
    <3>1. CASE u = message.uri
      BY <1>1, <2>1, <2>2, <2>3, <3>1 DEF ShownIs, LspTypes, Published
    <3>2. CASE u # message.uri
      <4>1. shown'[u] = shown[u] /\ ShownIs(u)
        BY <1>1, <2>1, <3>2 DEF LspTypes, LspInv
      <4>2. Published(u, documents', error) = Published(u, documents, error)
        BY <2>3, <3>2 DEF Published
      <4> QED BY <1>3, <4>1, <4>2 DEF ShownIs, project
    <3> QED BY <3>1, <3>2
  <2> QED BY <1>1, <1>4, <2>1, <2>2, <2>3, <2>4, <2>5 DEF LspTypes
<1> QED BY <1>5, <1>6

\* didSave loads the project and shows what is wrong with every copy; a request changes nothing.
LEMMA HandleOther ==
  ASSUME LspInv, Handle, NEW message, message = Head(inbox),
         \/ RequestMessage(message)
         \/ DidSave(message)
         \/ EndSession(message)
  PROVE  /\ UNCHANGED documents /\ DOMAIN shown' = Uris
         /\ \A u \in Uris : Follows(u)' /\ ShownIs(u)'
         /\ WarmIsRight' /\ ProjectIsRight'
<1>1. /\ inbox # <<>> /\ inbox' = Tail(inbox) /\ UNCHANGED <<files, buffers>>
      /\ LspTypes
  BY DEF Handle, LspInv
<1>2. UNCHANGED documents /\ message.method \notin {"didOpen", "didChange", "didClose"}
  BY LspAssumption DEF RequestMessage, DidSave, EndSession, Notifications
<1>3. ASSUME NEW u \in Uris PROVE Follows(u)'
  <2>1. ~Speaks(message, u)
    BY <1>2 DEF Speaks
  <2> QED BY <1>1, <1>2, <2>1, FollowsHandled DEF LspInv, LspTypes
<1>4. CASE RequestMessage(message) \/ EndSession(message)
  <2>1. UNCHANGED <<project, warm, shown, stale>>
    BY <1>4 DEF RequestMessage, EndSession
  <2>2. WarmIsRight' /\ ProjectIsRight'
    BY <1>1, <2>1, SameProject
  <2>3. \A u \in Uris : ShownIs(u)'
    BY <1>2, <2>1 DEF LspInv, ShownIs, project
  <2> QED BY <1>1, <1>2, <1>3, <2>1, <2>2, <2>3 DEF LspTypes
<1>5. CASE DidSave(message)
  <2>1. Reload /\ stale' = FALSE /\ shown' = Republished(message.uri)
    BY <1>5 DEF DidSave
  <2>2. WarmIsRight' /\ ProjectIsRight'
    BY <1>1, <2>1, ReloadsProject
  <2>3. ASSUME NEW u \in Uris PROVE ShownIs(u)'
    <3>1. shown'[u] = IF u \in DOMAIN documents THEN Published(u, documents, error')
                      ELSE shown[u]
      BY <2>1 DEF Republished
    <3>2. u \notin DOMAIN documents => shown[u] = None
      BY DEF LspInv, ShownIs, Published
    <3> QED BY <1>2, <3>1, <3>2 DEF ShownIs, Published
  <2>4. DOMAIN shown' = Uris
    BY <2>1 DEF Republished
  <2> QED BY <1>2, <1>3, <2>2, <2>3, <2>4
<1> QED BY <1>4, <1>5

\* The server handles a message.
LEMMA LspHandle == ASSUME LspInv, Handle PROVE LspInv'
<1>1. inbox # <<>> /\ inbox' = Tail(inbox) /\ UNCHANGED <<files, buffers>>
  BY DEF Handle
<1>2. PICK message : message = Head(inbox)
  OBVIOUS
<1>3. inbox' \in Seq(Messages)
  BY <1>1, Handled DEF LspInv, LspTypes
<1>4. /\ documents' = [v \in DOMAIN documents' |-> documents'[v]]
      /\ DOMAIN documents' \subseteq Uris /\ DOMAIN shown' = Uris
      /\ \A u \in Uris : Follows(u)' /\ ShownIs(u)'
      /\ WarmIsRight' /\ ProjectIsRight'
  <2>1. CASE DidOpenOrChange(message) \/ DidClose(message)
    BY <1>2, <2>1, HandleNotification
  <2>2. CASE RequestMessage(message) \/ DidSave(message) \/ EndSession(message)
    BY <1>2, <2>2, HandleOther DEF LspInv, LspTypes
  <2> QED BY <1>2, <2>1, <2>2 DEF Handle
<1>5. LspTypes'
  BY <1>1, <1>3, <1>4 DEF LspInv, LspTypes
<1> QED BY <1>4, <1>5 DEF LspInv

BuffersOk(copies) ==
  /\ copies = [u \in DOMAIN copies |-> copies[u]] /\ DOMAIN copies \subseteq Uris
  /\ \A u \in DOMAIN copies :
       copies[u] \in AnyText /\ (u \in ManifestUris => copies[u] \in Texts[u])

\* The editor tells the server what it has done to its copies.
LEMMA EditorStep ==
  ASSUME LspInv, NEW m \in Messages, inbox' = Append(inbox, m), UNCHANGED Held,
         stale' \/ UNCHANGED <<files, stale>>,
         files' \in [ManifestUris -> ManifestTexts],
         \A u \in ManifestUris : files'[u] \in Texts[u],
         BuffersOk(buffers'),
         \A u \in Uris :
           /\ Speaks(m, u) => Leaves(m, u, buffers')
           /\ ~Speaks(m, u) => /\ u \in DOMAIN buffers' <=> u \in DOMAIN buffers
                               /\ u \in DOMAIN buffers => buffers'[u] = buffers[u]
  PROVE  LspInv'
<1>1. LspTypes /\ UNCHANGED <<warm, session, documents, project, shown>>
  BY DEF LspInv, Held
<1>2. inbox' \in Seq(Messages)
  BY <1>1, Appended DEF LspTypes
<1>3. LspTypes'
  BY <1>1, <1>2 DEF LspTypes, BuffersOk
<1>4. \A u \in Uris : Follows(u)'
  BY <1>1, FollowsTold DEF LspInv, LspTypes
<1>5. \A u \in Uris : ShownIs(u)'
  BY <1>1 DEF LspInv, ShownIs, project
<1>6. WarmIsRight' /\ ProjectIsRight'
  BY <1>1, SameProject
<1> QED BY <1>3, <1>4, <1>5, <1>6 DEF LspInv

\* The fields of a message.
LEMMA MessageHas ==
  ASSUME NEW method, NEW uri, NEW text
  PROVE  /\ Message(method, uri, text).method = method /\ Message(method, uri, text).uri = uri
         /\ Message(method, uri, text).text = text
BY DEF Message

\* What an editor sends is a message.
LEMMA IsMessage ==
  ASSUME NEW method \in Methods \cup Notifications, NEW uri \in Uris \cup {None},
         NEW text \in AnyText, method \in {"didOpen", "didChange", "didClose"} => uri \in Uris
  PROVE  Message(method, uri, text) \in Messages
BY DEF Message, Messages

\* The editor opens a file, as it is.
LEMMA LspOpen == ASSUME LspInv, NEW u \in Uris, Open(u) PROVE LspInv'
<1> DEFINE text == IF u \in ManifestUris THEN files[u] ELSE NoText
<1>1. /\ buffers' = [v \in DOMAIN buffers \cup {u} |-> IF v = u THEN text ELSE buffers[v]]
      /\ inbox' = Append(inbox, Message("didOpen", u, buffers'[u]))
      /\ UNCHANGED <<Held, files, stale>>
  BY DEF Open, Tells
<1>2. LspTypes /\ text \in AnyText /\ (u \in ManifestUris => text \in Texts[u])
  BY DEF LspInv, LspTypes, AnyText, ManifestTexts
<1> HIDE DEF text
<1>3. /\ buffers'[u] = text /\ DOMAIN buffers' = DOMAIN buffers \cup {u}
      /\ buffers' = [v \in DOMAIN buffers' |-> buffers'[v]]
      /\ \A v \in DOMAIN buffers : v # u => buffers'[v] = buffers[v]
  BY <1>1
<1>4. BuffersOk(buffers')
  BY <1>2, <1>3 DEF LspTypes, BuffersOk
<1> DEFINE m == Message("didOpen", u, buffers'[u])
<1>5. m \in Messages
  BY <1>2, <1>3, IsMessage DEF Notifications
<1>6. m.method = "didOpen" /\ m.uri = u /\ m.text = buffers'[u]
  BY MessageHas
<1>7. inbox' = Append(inbox, m)
  BY <1>1
<1> HIDE DEF m
<1>8. ASSUME NEW v \in Uris
      PROVE  /\ Speaks(m, v) => Leaves(m, v, buffers')
             /\ ~Speaks(m, v) => /\ v \in DOMAIN buffers' <=> v \in DOMAIN buffers
                                 /\ v \in DOMAIN buffers => buffers'[v] = buffers[v]
  BY <1>3, <1>6 DEF Speaks, Leaves
<1> QED BY <1>1, <1>2, <1>4, <1>5, <1>7, <1>8, EditorStep DEF LspTypes

\* The user types.
LEMMA LspType == ASSUME LspInv, NEW u \in Uris, Type(u) PROVE LspInv'
<1>1. u \in DOMAIN buffers /\ u \in ManifestUris /\ UNCHANGED <<Held, files, stale>>
  BY DEF Type
<1>2. PICK text \in Texts[u] :
        /\ buffers' = [buffers EXCEPT ![u] = text]
        /\ inbox' = Append(inbox, Message("didChange", u, text))
  BY DEF Type, Tells
<1>3. LspTypes /\ text \in AnyText
  BY <1>1 DEF LspInv, AnyText, ManifestTexts
<1>4. /\ buffers'[u] = text /\ DOMAIN buffers' = DOMAIN buffers
      /\ buffers' = [v \in DOMAIN buffers' |-> buffers'[v]]
      /\ \A v \in DOMAIN buffers : v # u => buffers'[v] = buffers[v]
  BY <1>1, <1>2
<1>5. BuffersOk(buffers')
  BY <1>3, <1>4 DEF LspTypes, BuffersOk
<1> DEFINE m == Message("didChange", u, text)
<1>6. m \in Messages
  BY <1>3, IsMessage DEF Notifications
<1>7. m.method = "didChange" /\ m.uri = u /\ m.text = text
  BY MessageHas
<1>8. inbox' = Append(inbox, m)
  BY <1>2
<1> HIDE DEF m
<1>9. ASSUME NEW v \in Uris
      PROVE  /\ Speaks(m, v) => Leaves(m, v, buffers')
             /\ ~Speaks(m, v) => /\ v \in DOMAIN buffers' <=> v \in DOMAIN buffers
                                 /\ v \in DOMAIN buffers => buffers'[v] = buffers[v]
  BY <1>1, <1>4, <1>7 DEF Speaks, Leaves
<1> QED BY <1>1, <1>3, <1>5, <1>6, <1>8, <1>9, EditorStep DEF LspTypes

\* The user saves, and the editor says so after the file is written.
LEMMA LspSaveFile == ASSUME LspInv, NEW u \in Uris, SaveFile(u) PROVE LspInv'
<1>1. /\ u \in DOMAIN buffers /\ u \in ManifestUris /\ UNCHANGED <<Held, buffers>>
      /\ files' = [files EXCEPT ![u] = buffers[u]] /\ stale' = TRUE
      /\ inbox' = Append(inbox, Message("didSave", u, None))
  BY DEF SaveFile, Tells
<1>2. LspTypes /\ buffers[u] \in Texts[u] /\ buffers[u] \in ManifestTexts
  BY <1>1 DEF LspInv, LspTypes, ManifestTexts
<1>3. /\ files' \in [ManifestUris -> ManifestTexts]
      /\ \A v \in ManifestUris : files'[v] \in Texts[v]
  BY <1>1, <1>2 DEF LspTypes
<1> DEFINE m == Message("didSave", u, None)
<1>4. m \in Messages
  BY IsMessage DEF Notifications, AnyText
<1>5. m.method = "didSave"
  BY MessageHas
<1>6. inbox' = Append(inbox, m)
  BY <1>1
<1> HIDE DEF m
<1>7. \A v \in Uris : ~Speaks(m, v)
  BY <1>5 DEF Speaks
<1>8. BuffersOk(buffers')
  BY <1>1, <1>2 DEF LspTypes, BuffersOk
<1> QED BY <1>1, <1>3, <1>4, <1>6, <1>7, <1>8, EditorStep

\* The editor closes a file and forgets its copy.
LEMMA LspCloseFile == ASSUME LspInv, NEW u \in Uris, CloseFile(u) PROVE LspInv'
<1>1. /\ buffers' = [v \in DOMAIN buffers \ {u} |-> buffers[v]]
      /\ inbox' = Append(inbox, Message("didClose", u, None))
      /\ UNCHANGED <<Held, files, stale>>
  BY DEF CloseFile, Tells
<1>2. LspTypes
  BY DEF LspInv
<1>3. /\ DOMAIN buffers' = DOMAIN buffers \ {u}
      /\ buffers' = [v \in DOMAIN buffers' |-> buffers'[v]]
      /\ \A v \in DOMAIN buffers : v # u => buffers'[v] = buffers[v]
  BY <1>1
<1>4. BuffersOk(buffers')
  BY <1>2, <1>3 DEF LspTypes, BuffersOk
<1> DEFINE m == Message("didClose", u, None)
<1>5. m \in Messages
  BY IsMessage DEF Notifications, AnyText
<1>6. m.method = "didClose" /\ m.uri = u
  BY MessageHas
<1>7. inbox' = Append(inbox, m)
  BY <1>1
<1> HIDE DEF m
<1>8. ASSUME NEW v \in Uris
      PROVE  /\ Speaks(m, v) => Leaves(m, v, buffers')
             /\ ~Speaks(m, v) => /\ v \in DOMAIN buffers' <=> v \in DOMAIN buffers
                                 /\ v \in DOMAIN buffers => buffers'[v] = buffers[v]
  BY <1>3, <1>6 DEF Speaks, Leaves
<1> QED BY <1>1, <1>2, <1>4, <1>5, <1>7, <1>8, EditorStep DEF LspTypes

\* The editor asks, or ends the session.
LEMMA LspSays ==
  ASSUME LspInv, NEW method \in Methods \cup {"shutdown", "exit"}, NEW u \in Uris \cup {None},
         Tells(method, u, None), UNCHANGED <<Held, files, stale, buffers>>
  PROVE  LspInv'
<1> DEFINE m == Message(method, u, None)
<1>1. method \notin {"didOpen", "didChange", "didClose"}
  BY LspAssumption DEF Notifications
<1>2. m \in Messages
  BY <1>1, IsMessage DEF Notifications, AnyText
<1>3. m.method = method
  BY MessageHas
<1>4. inbox' = Append(inbox, m)
  BY DEF Tells
<1> HIDE DEF m
<1>5. \A v \in Uris : ~Speaks(m, v)
  BY <1>1, <1>3 DEF Speaks
<1>6. BuffersOk(buffers') /\ LspTypes
  BY DEF LspInv, LspTypes, BuffersOk
<1> QED BY <1>2, <1>4, <1>5, <1>6, EditorStep DEF LspTypes

\* What others do to the files and to the graph store the server does not hear of.
LEMMA UnheardStep ==
  ASSUME LspInv, UNCHANGED <<inbox, buffers, documents, shown, error>>,
         WarmIsRight', ProjectIsRight',
         files' \in [ManifestUris -> ManifestTexts],
         \A u \in ManifestUris : files'[u] \in Texts[u]
  PROVE  LspInv'
<1>1. LspTypes'
  BY DEF LspInv, LspTypes
<1>2. \A u \in Uris : Follows(u)' /\ ShownIs(u)'
  BY DEF LspInv, Follows, SameCopy, ShownIs
<1> QED BY <1>1, <1>2 DEF LspInv

\* Another program writes a manifest.
LEMMA LspElsewhere == ASSUME LspInv, NEW u \in ManifestUris, Elsewhere(u) PROVE LspInv'
<1>1. PICK text \in Texts[u] : files' = [files EXCEPT ![u] = text]
  BY DEF Elsewhere
<1>2. stale' = TRUE /\ UNCHANGED <<Held, inbox, buffers>>
  BY DEF Elsewhere
<1>3. /\ files' \in [ManifestUris -> ManifestTexts]
      /\ \A v \in ManifestUris : files'[v] \in Texts[v]
  BY <1>1 DEF LspInv, LspTypes, ManifestTexts
<1>4. WarmIsRight' /\ ProjectIsRight'
  BY <1>2, SameProject DEF Held
<1> QED BY <1>2, <1>3, <1>4, UnheardStep DEF Held, project

\* A build stores the graph of files that are right.
LEMMA LspBuild == ASSUME LspInv, Build PROVE LspInv'
<1>1. /\ Complaint(files) = {None} /\ warm' = files
      /\ UNCHANGED <<files, documents, project, shown, inbox, stale, buffers>>
  BY DEF Build
<1>2. WarmIsRight' /\ ProjectIsRight'
  BY <1>1 DEF LspInv, WarmIsRight, ProjectIsRight, project
<1> QED BY <1>1, <1>2, UnheardStep DEF project, LspInv, LspTypes

\* Every step of the editor, the server, other programs and builds keeps LspInv.
LEMMA LspStep == LspInv /\ [LspNext]_lspVars => LspInv'
<1> SUFFICES ASSUME LspInv, [LspNext]_lspVars PROVE LspInv'
  OBVIOUS
<1>1. CASE UNCHANGED lspVars
  <2>1. /\ UNCHANGED <<inbox, buffers, documents, shown, error, project, warm>>
        /\ UNCHANGED <<files, stale>>
    BY <1>1 DEF lspVars, disk, editor, project
  <2>2. WarmIsRight' /\ ProjectIsRight'
    BY <2>1, SameProject
  <2> QED BY <2>1, <2>2, UnheardStep DEF LspInv, LspTypes
<1>2. CASE Handle
  BY <1>2, LspHandle
<1>3. ASSUME NEW u \in Uris, Open(u) \/ Type(u) \/ SaveFile(u) \/ CloseFile(u) PROVE LspInv'
  BY <1>3, LspOpen, LspType, LspSaveFile, LspCloseFile
<1>4. ASSUME NEW u \in ManifestUris, Ask(u) PROVE LspInv'
  BY <1>4, LspSays DEF Ask, Uris
<1>5. ASSUME NEW u \in ManifestUris, Elsewhere(u) PROVE LspInv'
  BY <1>5, LspElsewhere
<1>6. CASE Leave
  BY <1>6, LspSays DEF Leave
<1>7. CASE Build
  BY <1>7, LspBuild
<1> QED BY <1>1, <1>2, <1>3, <1>4, <1>5, <1>6, <1>7 DEF LspNext

\* LspInv says that the editor shows what the server has and the project is right.
LEMMA LspMeans == LspInv => EditorIsRight
<1> SUFFICES ASSUME LspInv PROVE ShownIsCurrent /\ AnswersAreTheBuilds
  BY DEF EditorIsRight
<1>1. ShownIsCurrent
  <2> SUFFICES ASSUME inbox = <<>>
               PROVE  documents = buffers
                        /\ \A u \in Uris : shown[u] = Published(u, buffers, error)
    BY DEF ShownIsCurrent
  <2>1. \A u \in Uris : SameCopy(u)
    BY DEF LspInv, Follows
  <2>2. DOMAIN documents = DOMAIN buffers
    BY <2>1 DEF SameCopy, LspInv, LspTypes
  <2>3. documents = buffers
    BY <2>1, <2>2 DEF SameCopy, LspInv, LspTypes
  <2> QED BY <2>3 DEF LspInv, ShownIs
<1>2. AnswersAreTheBuilds
  <2> SUFFICES ASSUME ~stale
               PROVE  /\ error \in Complaint(files)
                      /\ Assembled(files) =>
                           /\ Known = Declared(files)
                           /\ \A u \in ManifestUris : \A cursor \in Cursors(files[u]) :
                                LET label == LabelAt(cursor) IN
                                /\ References(cursor) =
                                     IF error = None THEN RdepsClosure(files, label) ELSE {}
                                /\ label = (IF cursor.literal \in Declared(files)
                                            THEN cursor.literal ELSE cursor.target)
    BY DEF AnswersAreTheBuilds
  <2>1. error \in Complaint(files)
    BY DEF LspInv, ProjectIsRight
  <2>2. ASSUME Assembled(files) PROVE Known = Declared(files)
    BY <2>2, NoneIsNoFiles DEF LspInv, ProjectIsRight, Known, View
  <2>3. \A l \in Declared(files) : l \in Labels /\ l \in DOMAIN files[HomeOf[l]].rules
    BY LspAssumption DEF Declared, LspInv, LspTypes
  <2>4. ASSUME Assembled(files), NEW u \in ManifestUris, NEW cursor \in Cursors(files[u]),
               NEW label, label = LabelAt(cursor)
        PROVE  /\ References(cursor) =
                    IF error = None THEN RdepsClosure(files, label) ELSE {}
               /\ label = IF cursor.literal \in Declared(files) THEN cursor.literal
                          ELSE cursor.target
    <3>1. cursor.target \in DOMAIN files[u].rules
      BY <2>4 DEF Cursors
    <3>2. cursor.target \in Declared(files)
      BY <3>1 DEF Declared
    <3>3. label = IF cursor.literal \in Declared(files) THEN cursor.literal ELSE cursor.target
      BY <2>2, <2>4, <3>2 DEF LabelAt
    <3>4. label \in Declared(files) /\ label # None
      BY <2>3, <3>2, <3>3, LspAssumption
    <3>5. CASE error # None
      <4>1. graph = None
        BY <2>4, <3>5 DEF LspInv, ProjectIsRight
      <4> QED BY <3>3, <3>5, <4>1 DEF References
    <3>6. CASE error = None
      <4>1. graph = files /\ files # None
        BY <2>4, <3>6, NoneIsNoFiles DEF LspInv, ProjectIsRight
      <4>2. \A l \in RdepsClosure(files, label) : l \in Declared(files)
        BY Zenon DEF RdepsClosure
      <4>3. \A l \in Declared(files) : Declaration(l) = {l}
        BY <2>3, LspAssumption DEF Declaration
      <4>4. References(cursor) = UNION {Declaration(l) : l \in RdepsClosure(files, label)}
        BY <2>4, <3>4, <4>1 DEF References
      <4>5. UNION {Declaration(l) : l \in RdepsClosure(files, label)} =
              RdepsClosure(files, label)
        BY <4>2, <4>3
      <4> QED BY <3>3, <3>6, <4>4, <4>5
    <3> QED BY <3>5, <3>6
  <2> QED BY <2>1, <2>2, <2>4
<1> QED BY <1>1, <1>2

-----------------------------------------------------------------------------
(* Progress: what was emitted is true when it is emitted and stays so, a log  *)
(* has it once and in order, and what is shown and counted is what was         *)
(* received of it.                                                             *)

\* What was sent and is not in the stream yet follows what is.
LogOf(told, s) == IF told = None THEN s ELSE told \o s
Log == LogOf(stream, sent)

Told(s, kind, a) == \E i \in DOMAIN s : s[i].event = kind /\ s[i].of = a
ToldOnce(s) ==
  \A i, j \in DOMAIN s :
    /\ s[i].event \in {"action_started", "action_finished"}
    /\ s[j].event = s[i].event /\ s[j].of = s[i].of
    => i = j
StartsFirst(s) ==
  \A i, j \in DOMAIN s :
    /\ s[i].event = "action_finished" /\ s[j].event = "action_started"
    /\ s[j].of = s[i].of
    => j < i
Truthful(e, begun, reported, known) ==
  /\ e.event # "all_cached"
  /\ e.event \in {"action_started", "action_running"} => e.of \in begun
  /\ e.event = "action_finished" => e.of \in reported /\ e.result = known[e.of]
LogSound(s, begun, reported, known) ==
  /\ \A i \in DOMAIN s : Truthful(s[i], begun, reported, known)
  /\ ToldOnce(s) /\ StartsFirst(s)
LogComplete(s, begun, reported) ==
  /\ \A a \in begun : Told(s, "action_started", a)
  /\ \A a \in reported : Told(s, "action_finished", a)
NotClosed(s) == \A i \in DOMAIN s : s[i].event # "build_finished"
Closed(s, success) ==
  /\ s # <<>> /\ s[Len(s)] = BuildFinished(success)
  /\ \A i \in DOMAIN s : s[i].event = "build_finished" => i = Len(s)

\* A row is at work until the end of an action frees its slot.
AtWork == {"checking cache", "running/miss"}
Frees(s, i, w) ==
  \E j \in DOMAIN s : i < j /\ s[j].event = "action_finished" /\ s[j].slot = w
OneSlot(s, rows) ==
  \A i \in DOMAIN s :
    s[i].event = "action_running" =>
      /\ \A j \in DOMAIN s :
           s[j].event = "action_started" /\ s[j].of = s[i].of => s[j].slot = s[i].slot
      /\ \A w \in Workers : rows[w].of = s[i].of => w = s[i].slot
RowsSound(s, rows, busy) ==
  /\ \A w \in Workers : rows[w].status \in AtWork => w \in busy \/ Frees(s, 0, w)
  /\ \A i \in DOMAIN s :
       s[i].event \in {"action_started", "action_running"} =>
         s[i].slot \in busy \/ Frees(s, i, s[i].slot)
  /\ OneSlot(s, rows)

\* What a command printed comes before the end of its action.
RunResults == {"executed", "flaky"}
Heard(s, i, a, outputs) ==
  \/ a \in outputs
  \/ \E j \in DOMAIN s : j < i /\ s[j].event = "action_output" /\ s[j].of = a
OutputsSound(s, outputs, awaited) ==
  /\ \A i \in DOMAIN s :
       s[i].event = "action_finished" /\ s[i].result \in RunResults =>
         Heard(s, i, s[i].of, outputs)
  /\ \A a \in awaited : Heard(s, Len(s) + 1, a, outputs)

\* What an event has.
LEMMA EventHas ==
  ASSUME NEW e \in ProgressEvents
  PROVE  /\ e.event \in {"action_started", "action_running", "action_output",
                         "action_finished"} => e.of \in Buildable /\ e.slot \in Workers
         /\ e.event = "action_finished" => e.result \in ActionResults /\ e.completed \in Nat
         /\ e.event \in {"build_started", "all_cached"} => e.total \in Nat
         /\ e.event = "build_finished" => e.success \in BOOLEAN
         /\ e.event \in {"build_started", "all_cached", "action_started", "action_running",
                         "action_output", "action_finished", "build_finished"}
BY DEF ProgressEvents

\* An event at the end of a sequence, and one gone from its beginning.
LEMMA AppendHas ==
  ASSUME NEW S, NEW s \in Seq(S), NEW e \in S, NEW t, t = Append(s, e)
  PROVE  /\ t \in Seq(S) /\ Len(t) = Len(s) + 1 /\ t # <<>> /\ Len(s) \in Nat
         /\ DOMAIN t = DOMAIN s \cup {Len(t)} /\ t[Len(t)] = e
         /\ DOMAIN s = 1..Len(s) /\ Len(t) \notin DOMAIN s
         /\ \A i \in DOMAIN s : t[i] = s[i]
OBVIOUS

LEMMA TailHas ==
  ASSUME NEW S, NEW s \in Seq(S), s # <<>>, NEW t, t = Tail(s)
  PROVE  /\ t \in Seq(S) /\ Len(t) = Len(s) - 1 /\ Len(s) \in Nat \ {0}
         /\ DOMAIN t = 1..(Len(s) - 1) /\ DOMAIN s = 1..Len(s)
         /\ Head(s) = s[1] /\ s[1] \in S
         /\ \A i \in DOMAIN t : t[i] = s[i + 1]
OBVIOUS

LEMMA ToldAppend ==
  ASSUME NEW S, NEW s \in Seq(S), NEW e \in S, NEW t, t = Append(s, e), NEW kind, NEW a
  PROVE  Told(t, kind, a) <=> Told(s, kind, a) \/ (e.event = kind /\ e.of = a)
<1>1. /\ DOMAIN t = DOMAIN s \cup {Len(t)} /\ t[Len(t)] = e
      /\ \A i \in DOMAIN s : t[i] = s[i]
  BY AppendHas
<1> QED BY ONLY <1>1 DEF Told

LEMMA ToldTail ==
  ASSUME NEW S, NEW s \in Seq(S), s # <<>>, NEW t, t = Tail(s), NEW kind, NEW a
  PROVE  Told(s, kind, a) <=> Told(t, kind, a) \/ (s[1].event = kind /\ s[1].of = a)
<1>1. /\ Len(s) \in Nat \ {0}
      /\ DOMAIN t = 1..(Len(s) - 1) /\ DOMAIN s = 1..Len(s)
      /\ \A i \in DOMAIN t : t[i] = s[i + 1]
  BY TailHas
<1>2. ASSUME NEW i \in DOMAIN s, i # 1
      PROVE  i - 1 \in DOMAIN t /\ t[i - 1] = s[i]
  BY ONLY <1>1, <1>2
<1>3. ASSUME NEW i \in DOMAIN t PROVE i + 1 \in DOMAIN s /\ t[i] = s[i + 1]
  BY ONLY <1>1
<1>4. 1 \in DOMAIN s
  BY ONLY <1>1
<1> QED BY ONLY <1>2, <1>3, <1>4 DEF Told

\* What a log says stays so when an event is added that is new.
LEMMA LogGrows ==
  ASSUME NEW s \in Seq(ProgressEvents), NEW e \in ProgressEvents,
         NEW b, NEW r, NEW known, NEW b2, NEW r2, NEW known2,
         LogSound(s, b, r, known), b \subseteq b2, r \subseteq r2,
         \A a \in r : known2[a] = known[a],
         Truthful(e, b2, r2, known2),
         e.event = "action_started" => e.of \notin b /\ e.of \notin r,
         e.event = "action_finished" => e.of \notin r
  PROVE  LogSound(Append(s, e), b2, r2, known2)
<1> DEFINE t == Append(s, e)
<1>1. /\ DOMAIN t = DOMAIN s \cup {Len(t)} /\ t[Len(t)] = e /\ Len(t) = Len(s) + 1
      /\ \A i \in DOMAIN s : t[i] = s[i]
      /\ DOMAIN s = 1..Len(s) /\ Len(s) \in Nat
  BY AppendHas
<1> HIDE DEF t
<1>2. \A i \in DOMAIN s : Truthful(s[i], b, r, known)
  BY DEF LogSound
<1>3. \A i \in DOMAIN s : Truthful(s[i], b2, r2, known2)
  BY <1>2 DEF Truthful
<1>4. \A i \in DOMAIN t : Truthful(t[i], b2, r2, known2)
  BY ONLY <1>1, <1>3, Truthful(e, b2, r2, known2)
<1>5. ASSUME NEW i \in DOMAIN s
      PROVE  /\ s[i].event = "action_started" => s[i].of \in b
             /\ s[i].event = "action_finished" => s[i].of \in r
  BY <1>2 DEF Truthful
<1>6. \A i \in DOMAIN s : i < Len(t)
  BY ONLY <1>1
<1>7. ToldOnce(s) /\ StartsFirst(s)
  BY DEF LogSound
<1>8. ToldOnce(t)
  <2> SUFFICES ASSUME NEW i \in DOMAIN t, NEW j \in DOMAIN t,
                      t[i].event \in {"action_started", "action_finished"},
                      t[j].event = t[i].event, t[j].of = t[i].of
               PROVE  i = j
    BY DEF ToldOnce
  <2>1. CASE i \in DOMAIN s /\ j \in DOMAIN s
    BY <1>1, <1>7, <2>1 DEF ToldOnce
  <2>2. CASE i = Len(t) /\ j \in DOMAIN s
    BY <1>1, <1>5, <2>2
  <2>3. CASE j = Len(t) /\ i \in DOMAIN s
    BY <1>1, <1>5, <2>3
  <2> QED BY <1>1, <2>1, <2>2, <2>3
<1>9. StartsFirst(t)
  <2> SUFFICES ASSUME NEW i \in DOMAIN t, NEW j \in DOMAIN t,
                      t[i].event = "action_finished", t[j].event = "action_started",
                      t[j].of = t[i].of
               PROVE  j < i
    BY DEF StartsFirst
  <2>1. CASE i \in DOMAIN s /\ j \in DOMAIN s
    BY <1>1, <1>7, <2>1 DEF StartsFirst
  <2>2. CASE i = Len(t) /\ j \in DOMAIN s
    BY <1>6, <2>2
  <2>3. CASE j = Len(t) /\ i \in DOMAIN s
    BY <1>1, <1>5, <2>3
  <2>4. CASE i = Len(t) /\ j = Len(t)
    BY <2>4
  <2> QED BY <1>1, <2>1, <2>2, <2>3, <2>4
<1> QED BY <1>4, <1>8, <1>9 DEF LogSound, t

\* What a log says stays so when more is so.
LEMMA LogStays ==
  ASSUME NEW s, NEW b, NEW r, NEW known, NEW b2, NEW r2, NEW known2,
         LogSound(s, b, r, known), b \subseteq b2, r \subseteq r2,
         \A a \in r : known2[a] = known[a]
  PROVE  LogSound(s, b2, r2, known2)
BY DEF LogSound, Truthful

\* One event gone from a log.
OneGone(s, t, k) ==
  /\ k \in DOMAIN s /\ DOMAIN s = 1..Len(s) /\ Len(s) \in Nat
  /\ DOMAIN t = 1..(Len(s) - 1) /\ Len(t) = Len(s) - 1
  /\ \A i \in DOMAIN t : t[i] = IF i < k THEN s[i] ELSE s[i + 1]

LEMMA WithoutHas ==
  ASSUME NEW s, NEW t, NEW k, OneGone(s, t, k)
  PROVE  /\ \A i \in DOMAIN t : \E n \in DOMAIN s :
              /\ t[i] = s[n] /\ n # k /\ n = IF i < k THEN i ELSE i + 1
         /\ \A n \in DOMAIN s : n # k => \E i \in DOMAIN t :
              /\ t[i] = s[n] /\ n = IF i < k THEN i ELSE i + 1
         /\ \A i \in DOMAIN t : i \in Int
         /\ k \in Int
<1>1. ASSUME NEW i \in DOMAIN t
      PROVE  \E n \in DOMAIN s : t[i] = s[n] /\ n # k /\ n = IF i < k THEN i ELSE i + 1
  <2> DEFINE n == IF i < k THEN i ELSE i + 1
  <2>1. n \in DOMAIN s /\ t[i] = s[n] /\ n # k
    BY DEF OneGone
  <2> QED BY <2>1
<1>2. ASSUME NEW n \in DOMAIN s, n # k
      PROVE  \E i \in DOMAIN t : t[i] = s[n] /\ n = IF i < k THEN i ELSE i + 1
  <2> DEFINE i == IF n < k THEN n ELSE n - 1
  <2>1. i \in DOMAIN t
    BY <1>2 DEF OneGone
  <2>2. n = IF i < k THEN i ELSE i + 1
    BY <1>2 DEF OneGone
  <2>3. t[i] = s[n]
    BY <2>1, <2>2 DEF OneGone
  <2> HIDE DEF i
  <2> QED BY <2>1, <2>2, <2>3
<1>3. (\A i \in DOMAIN t : i \in Int) /\ k \in Int
  BY DEF OneGone
<1> QED BY <1>1, <1>2, <1>3

LEMMA LogLoses ==
  ASSUME NEW s, NEW t, NEW k, OneGone(s, t, k), NEW b, NEW r, NEW known,
         LogSound(s, b, r, known)
  PROVE  LogSound(t, b, r, known)
<1>1. ASSUME NEW i \in DOMAIN t
      PROVE  \E n \in DOMAIN s : t[i] = s[n] /\ n = IF i < k THEN i ELSE i + 1
  BY WithoutHas
<1>2. (\A i \in DOMAIN t : i \in Int) /\ k \in Int
  BY WithoutHas
<1>3. \A i \in DOMAIN t : Truthful(t[i], b, r, known)
  BY <1>1 DEF LogSound
<1>4. ToldOnce(t)
  <2> SUFFICES ASSUME NEW i \in DOMAIN t, NEW j \in DOMAIN t,
                      t[i].event \in {"action_started", "action_finished"},
                      t[j].event = t[i].event, t[j].of = t[i].of
               PROVE  i = j
    BY DEF ToldOnce
  <2>1. PICK n \in DOMAIN s : t[i] = s[n] /\ n = IF i < k THEN i ELSE i + 1
    BY <1>1
  <2>2. PICK m \in DOMAIN s : t[j] = s[m] /\ m = IF j < k THEN j ELSE j + 1
    BY <1>1
  <2>3. n = m
    BY <2>1, <2>2 DEF LogSound, ToldOnce
  <2> QED BY <1>2, <2>1, <2>2, <2>3
<1>5. StartsFirst(t)
  <2> SUFFICES ASSUME NEW i \in DOMAIN t, NEW j \in DOMAIN t,
                      t[i].event = "action_finished", t[j].event = "action_started",
                      t[j].of = t[i].of
               PROVE  j < i
    BY DEF StartsFirst
  <2>1. PICK n \in DOMAIN s : t[i] = s[n] /\ n = IF i < k THEN i ELSE i + 1
    BY <1>1
  <2>2. PICK m \in DOMAIN s : t[j] = s[m] /\ m = IF j < k THEN j ELSE j + 1
    BY <1>1
  <2>3. m < n
    BY <2>1, <2>2 DEF LogSound, StartsFirst
  <2> QED BY <1>2, <2>1, <2>2, <2>3
<1> QED BY <1>3, <1>4, <1>5 DEF LogSound

LEMMA CompleteLoses ==
  ASSUME NEW s, NEW t, NEW k, OneGone(s, t, k), NEW b, NEW r, LogComplete(s, b, r),
         s[k].event \notin {"action_started", "action_finished"}
  PROVE  LogComplete(t, b, r)
<1>1. ASSUME NEW kind \in {"action_started", "action_finished"}, NEW a, Told(s, kind, a)
      PROVE  Told(t, kind, a)
  <2>1. PICK n \in DOMAIN s : s[n].event = kind /\ s[n].of = a
    BY <1>1 DEF Told
  <2>2. n # k
    BY <2>1
  <2>3. PICK i \in DOMAIN t : t[i] = s[n]
    BY <2>2, WithoutHas
  <2> QED BY <2>1, <2>3 DEF Told
<1> QED BY <1>1 DEF LogComplete

LEMMA CompleteGrows ==
  ASSUME NEW S, NEW s \in Seq(S), NEW e \in S, NEW t, t = Append(s, e), NEW b, NEW r,
         NEW b2, NEW r2, LogComplete(s, b, r),
         \A a \in b2 : a \in b \/ (e.event = "action_started" /\ e.of = a),
         \A a \in r2 : a \in r \/ (e.event = "action_finished" /\ e.of = a)
  PROVE  LogComplete(t, b2, r2)
<1>1. \A kind, a : Told(t, kind, a) <=> Told(s, kind, a) \/ (e.event = kind /\ e.of = a)
  BY ToldAppend
<1> QED BY <1>1 DEF LogComplete

\* Rows stay explained when an event is added, and when one is shown.
LEMMA RowsGrow ==
  ASSUME NEW S, NEW s \in Seq(S), NEW e \in S, NEW t, t = Append(s, e),
         NEW rows, NEW busy, NEW busy2, RowsSound(s, rows, busy),
         \A w \in busy : w \in busy2 \/ (e.event = "action_finished" /\ e.slot = w),
         e.event \in {"action_started", "action_running"} => e.slot \in busy2,
         e.event = "action_started" =>
           \A i \in DOMAIN s : s[i].event = "action_running" => s[i].of # e.of,
         e.event = "action_running" =>
           /\ \A i \in DOMAIN s :
                s[i].event = "action_started" /\ s[i].of = e.of => s[i].slot = e.slot
           /\ \A w \in Workers : rows[w].of = e.of => w = e.slot
  PROVE  RowsSound(t, rows, busy2)
<1>1. /\ DOMAIN t = DOMAIN s \cup {Len(t)} /\ t[Len(t)] = e /\ Len(t) = Len(s) + 1
      /\ \A i \in DOMAIN s : t[i] = s[i]
      /\ DOMAIN s = 1..Len(s) /\ Len(s) \in Nat
  BY AppendHas
<1>2. ASSUME NEW i \in Nat, NEW w, i < Len(t), w \in busy \/ Frees(s, i, w)
      PROVE  w \in busy2 \/ Frees(t, i, w)
  <2>1. ASSUME Frees(s, i, w) PROVE Frees(t, i, w)
    BY <1>1, <2>1 DEF Frees
  <2>2. ASSUME e.event = "action_finished", e.slot = w PROVE Frees(t, i, w)
    BY <1>1, <1>2, <2>2 DEF Frees
  <2> QED BY <1>2, <2>1, <2>2
<1>3. \A w \in Workers : rows[w].status \in AtWork => w \in busy2 \/ Frees(t, 0, w)
  BY <1>1, <1>2 DEF RowsSound
<1>4. ASSUME NEW i \in DOMAIN t, t[i].event \in {"action_started", "action_running"}
      PROVE  t[i].slot \in busy2 \/ Frees(t, i, t[i].slot)
  <2>1. CASE i \in DOMAIN s
    <3>1. i \in Nat /\ i < Len(t)
      BY <1>1, <2>1
    <3> QED BY <1>1, <1>2, <1>4, <2>1, <3>1 DEF RowsSound
  <2>2. CASE i = Len(t)
    BY <1>1, <1>4, <2>2
  <2> QED BY <1>1, <2>1, <2>2
<1>5. OneSlot(t, rows)
  <2>1. OneSlot(s, rows)
    BY DEF RowsSound
  <2>2. ASSUME NEW i \in DOMAIN t, t[i].event = "action_running", NEW j \in DOMAIN t,
               t[j].event = "action_started", t[j].of = t[i].of
        PROVE  t[j].slot = t[i].slot
    <3>1. CASE i \in DOMAIN s /\ j \in DOMAIN s
      BY <1>1, <2>1, <2>2, <3>1 DEF OneSlot
    <3>2. CASE i = Len(t) /\ j \in DOMAIN s
      BY <1>1, <2>2, <3>2
    <3>3. CASE i \in DOMAIN s /\ j = Len(t)
      BY <1>1, <2>2, <3>3
    <3>4. CASE i = Len(t) /\ j = Len(t)
      BY <2>2, <3>4
    <3> QED BY <1>1, <3>1, <3>2, <3>3, <3>4
  <2>3. ASSUME NEW i \in DOMAIN t, t[i].event = "action_running", NEW w \in Workers,
               rows[w].of = t[i].of
        PROVE  w = t[i].slot
    <3>1. CASE i \in DOMAIN s
      BY <1>1, <2>1, <2>3, <3>1 DEF OneSlot
    <3>2. CASE i = Len(t)
      BY <1>1, <2>3, <3>2
    <3> QED BY <1>1, <3>1, <3>2
  <2> QED BY <2>2, <2>3 DEF OneSlot
<1> QED BY <1>3, <1>4, <1>5 DEF RowsSound

LEMMA RowsShown ==
  ASSUME NEW s \in Seq(ProgressEvents), s # <<>>,
         NEW rows, NEW rows2, NEW busy, RowsSound(s, rows, busy),
         NEW h, h = s[1],
         \A w \in Workers :
           \/ rows2[w].of = rows[w].of
           \/ h.event = "action_started" /\ w = h.slot /\ rows2[w].of = h.of,
         \A w \in Workers : rows2[w].status \in AtWork =>
           \/ rows[w].status \in AtWork /\ ~(h.event = "action_finished" /\ h.slot = w)
           \/ h.event = "action_started" /\ w = h.slot
           \/ h.event = "action_running" /\ rows[w].of = h.of
  PROVE  RowsSound(Tail(s), rows2, busy)
<1> DEFINE t == Tail(s)
<1>1. /\ Len(s) \in Nat \ {0}
      /\ DOMAIN t = 1..(Len(s) - 1) /\ DOMAIN s = 1..Len(s)
      /\ \A i \in DOMAIN t : t[i] = s[i + 1]
  BY TailHas
<1> HIDE DEF t
<1>2. ASSUME NEW i \in DOMAIN t
      PROVE  i \in Nat /\ i + 1 \in DOMAIN s /\ t[i] = s[i + 1] /\ i + 1 # 1
  BY ONLY <1>1
<1>3. ASSUME NEW i \in DOMAIN s, NEW w, Frees(s, i, w)
      PROVE  Frees(t, i - 1, w)
  <2>1. PICK j \in DOMAIN s : i < j /\ s[j].event = "action_finished" /\ s[j].slot = w
    BY <1>3 DEF Frees
  <2>2. j - 1 \in DOMAIN t /\ i - 1 < j - 1 /\ t[j - 1] = s[j]
    BY ONLY <1>1, <2>1
  <2> QED BY <2>1, <2>2 DEF Frees
<1>4. ASSUME NEW w, Frees(s, 0, w), ~(h.event = "action_finished" /\ h.slot = w)
      PROVE  Frees(t, 0, w)
  <2>1. PICK j \in DOMAIN s : s[j].event = "action_finished" /\ s[j].slot = w
    BY <1>4 DEF Frees
  <2>2. j # 1
    BY <1>4, <2>1
  <2>3. j - 1 \in DOMAIN t /\ 0 < j - 1 /\ t[j - 1] = s[j]
    BY ONLY <1>1, <2>1, <2>2
  <2> QED BY <2>1, <2>3 DEF Frees
<1>5. OneSlot(s, rows)
  BY DEF RowsSound
<1>6. 1 \in DOMAIN s
  BY ONLY <1>1
<1>7. ASSUME h.event \in {"action_started", "action_running"}
      PROVE  h.slot \in busy \/ Frees(t, 0, h.slot)
  <2>1. h.slot \in busy \/ Frees(s, 1, h.slot)
    BY <1>6, <1>7 DEF RowsSound
  <2>2. Frees(s, 1, h.slot) => Frees(t, 1 - 1, h.slot)
    BY <1>3, <1>6
  <2>3. 1 - 1 = 0
    OBVIOUS
  <2> QED BY <2>1, <2>2, <2>3
<1>8. ASSUME NEW w \in Workers, rows2[w].status \in AtWork
      PROVE  w \in busy \/ Frees(t, 0, w)
  <2>1. CASE rows[w].status \in AtWork /\ ~(h.event = "action_finished" /\ h.slot = w)
    BY <1>4, <2>1 DEF RowsSound
  <2>2. CASE h.event = "action_started" /\ w = h.slot
    BY <1>7, <2>2
  <2>3. CASE h.event = "action_running" /\ rows[w].of = h.of
    <3>1. w = h.slot
      BY <1>5, <1>6, <2>3 DEF OneSlot
    <3> QED BY <1>7, <2>3, <3>1
  <2> QED BY <1>8, <2>1, <2>2, <2>3
<1>9. ASSUME NEW i \in DOMAIN t, t[i].event \in {"action_started", "action_running"}
      PROVE  t[i].slot \in busy \/ Frees(t, i, t[i].slot)
  <2>1. t[i].slot \in busy \/ Frees(s, i + 1, t[i].slot)
    BY <1>2, <1>9 DEF RowsSound
  <2>2. Frees(s, i + 1, t[i].slot) => Frees(t, (i + 1) - 1, t[i].slot)
    BY <1>2, <1>3
  <2>3. (i + 1) - 1 = i
    BY <1>2
  <2> QED BY <2>1, <2>2, <2>3
<1>10. OneSlot(t, rows2)
  <2>1. ASSUME NEW i \in DOMAIN t, t[i].event = "action_running", NEW j \in DOMAIN t,
               t[j].event = "action_started", t[j].of = t[i].of
        PROVE  t[j].slot = t[i].slot
    BY <1>2, <1>5, <2>1 DEF OneSlot
  <2>2. ASSUME NEW i \in DOMAIN t, t[i].event = "action_running", NEW w \in Workers,
               rows2[w].of = t[i].of
        PROVE  w = t[i].slot
    <3>0. i + 1 \in DOMAIN s /\ s[i + 1] = t[i]
      BY <1>2
    <3>1. CASE rows2[w].of = rows[w].of
      <4>1. rows[w].of = s[i + 1].of /\ s[i + 1].event = "action_running"
        BY <2>2, <3>0, <3>1
      <4>2. w = s[i + 1].slot
        BY ONLY <1>5, <3>0, <4>1, w \in Workers DEF OneSlot
      <4> QED BY <3>0, <4>2
    <3>2. CASE h.event = "action_started" /\ w = h.slot /\ rows2[w].of = h.of
      BY <1>2, <1>5, <1>6, <2>2, <3>2 DEF OneSlot
    <3> QED BY <3>1, <3>2
  <2> QED BY <2>1, <2>2 DEF OneSlot
<1> QED BY <1>8, <1>9, <1>10 DEF RowsSound, t

\* What was printed stays known when an event is added, and when one is printed.
LEMMA OutputsGrow ==
  ASSUME NEW S, NEW s \in Seq(S), NEW e \in S, NEW t, t = Append(s, e),
         NEW outputs, NEW awaited, NEW awaited2, OutputsSound(s, outputs, awaited),
         \A a \in awaited2 : a \in awaited \/ (e.event = "action_output" /\ e.of = a),
         e.event = "action_finished" /\ e.result \in RunResults => e.of \in awaited
  PROVE  OutputsSound(t, outputs, awaited2)
<1>1. /\ DOMAIN t = DOMAIN s \cup {Len(t)} /\ t[Len(t)] = e /\ Len(t) = Len(s) + 1
      /\ \A i \in DOMAIN s : t[i] = s[i]
      /\ DOMAIN s = 1..Len(s) /\ Len(s) \in Nat
  BY AppendHas
<1>2. ASSUME NEW i \in DOMAIN s, NEW a, Heard(s, i, a, outputs) PROVE Heard(t, i, a, outputs)
  BY <1>1, <1>2 DEF Heard
<1>3. ASSUME NEW a, Heard(s, Len(s) + 1, a, outputs)
      PROVE  Heard(t, Len(t), a, outputs) /\ Heard(t, Len(t) + 1, a, outputs)
  BY <1>1, <1>3 DEF Heard
<1>4. ASSUME NEW i \in DOMAIN t, t[i].event = "action_finished", t[i].result \in RunResults
      PROVE  Heard(t, i, t[i].of, outputs)
  <2>1. CASE i \in DOMAIN s
    BY <1>1, <1>2, <1>4, <2>1 DEF OutputsSound
  <2>2. CASE i = Len(t)
    BY <1>1, <1>3, <1>4, <2>2 DEF OutputsSound
  <2> QED BY <1>1, <2>1, <2>2
<1>5. ASSUME NEW a \in awaited2 PROVE Heard(t, Len(t) + 1, a, outputs)
  <2>1. CASE a \in awaited
    BY <1>3, <2>1 DEF OutputsSound
  <2>2. CASE e.event = "action_output" /\ e.of = a
    BY <1>1, <2>2 DEF Heard
  <2> QED BY <2>1, <2>2
<1> QED BY <1>4, <1>5 DEF OutputsSound

LEMMA OutputsPrinted ==
  ASSUME NEW S, NEW s \in Seq(S), s # <<>>, NEW t, t = Tail(s),
         NEW outputs, NEW outputs2, NEW awaited, OutputsSound(s, outputs, awaited),
         ToldOnce(s), NEW h, h = s[1],
         h.event = "action_output" => outputs2 = outputs \cup {h.of},
         h.event = "action_finished" => outputs2 = outputs \ {h.of} /\ h.of \notin awaited,
         h.event \notin {"action_output", "action_finished"} => outputs2 = outputs
  PROVE  OutputsSound(t, outputs2, awaited)
<1>1. /\ Len(s) \in Nat \ {0} /\ Len(t) = Len(s) - 1
      /\ DOMAIN t = 1..(Len(s) - 1) /\ DOMAIN s = 1..Len(s)
      /\ \A i \in DOMAIN t : t[i] = s[i + 1]
  BY TailHas
<1>2. ASSUME NEW i \in Nat, NEW a, Heard(s, i + 1, a, outputs),
             ~(h.event = "action_finished" /\ h.of = a)
      PROVE  Heard(t, i, a, outputs2)
  <2>1. CASE a \in outputs
    BY <1>2, <2>1 DEF Heard
  <2>2. ASSUME NEW j \in DOMAIN s, j < i + 1, s[j].event = "action_output", s[j].of = a
        PROVE  Heard(t, i, a, outputs2)
    <3>1. CASE j = 1
      BY <2>2, <3>1 DEF Heard
    <3>2. CASE j # 1
      <4>1. j - 1 \in DOMAIN t /\ j - 1 < i /\ t[j - 1] = s[j]
        BY ONLY <1>1, <2>2, <3>2, i \in Nat
      <4> QED BY <2>2, <4>1 DEF Heard
    <3> QED BY <3>1, <3>2
  <2> QED BY <1>2, <2>1, <2>2 DEF Heard
<1>3. ASSUME NEW i \in DOMAIN t, t[i].event = "action_finished", t[i].result \in RunResults
      PROVE  Heard(t, i, t[i].of, outputs2)
  <2>1. i \in Nat /\ i + 1 \in DOMAIN s /\ 1 \in DOMAIN s /\ i + 1 # 1 /\ t[i] = s[i + 1]
    BY ONLY <1>1, i \in DOMAIN t
  <2>2. ~(h.event = "action_finished" /\ h.of = t[i].of)
    BY <1>3, <2>1 DEF ToldOnce
  <2>3. Heard(s, i + 1, t[i].of, outputs)
    BY <1>3, <2>1 DEF OutputsSound
  <2> QED BY <1>2, <2>1, <2>2, <2>3
<1>4. ASSUME NEW a \in awaited PROVE Heard(t, Len(t) + 1, a, outputs2)
  <2>1. ~(h.event = "action_finished" /\ h.of = a)
    OBVIOUS
  <2>2. Len(t) + 1 \in Nat /\ (Len(t) + 1) + 1 = Len(s) + 1
    BY <1>1
  <2>3. Heard(s, (Len(t) + 1) + 1, a, outputs)
    BY <2>2 DEF OutputsSound
  <2> QED BY <1>2, <2>1, <2>2, <2>3
<1> QED BY <1>3, <1>4 DEF OutputsSound

\* The last event is the last of a sequence until it is received.
LEMMA ClosedGrows ==
  ASSUME NEW S, NEW s \in Seq(S), NEW e \in S, NEW t, t = Append(s, e), NotClosed(s)
  PROVE  /\ \A success : e = BuildFinished(success) => Closed(t, success)
         /\ e.event # "build_finished" => NotClosed(t)
<1>1. /\ DOMAIN t = DOMAIN s \cup {Len(t)} /\ t[Len(t)] = e /\ t # <<>>
      /\ \A i \in DOMAIN s : t[i] = s[i]
  BY AppendHas
<1> QED BY <1>1 DEF NotClosed, Closed

LEMMA ClosedTail ==
  ASSUME NEW S, NEW s \in Seq(S), s # <<>>, NEW t, t = Tail(s)
  PROVE  /\ NotClosed(s) => NotClosed(t) /\ s[1].event # "build_finished"
         /\ \A success : Closed(s, success) =>
              /\ t # <<>> => Closed(t, success) /\ s[1].event # "build_finished"
              /\ t = <<>> => s[1] = BuildFinished(success)
<1>1. /\ Len(s) \in Nat \ {0} /\ t \in Seq(S) /\ Len(t) = Len(s) - 1
      /\ DOMAIN t = 1..(Len(s) - 1) /\ DOMAIN s = 1..Len(s)
      /\ \A i \in DOMAIN t : t[i] = s[i + 1]
  BY TailHas
<1>2. 1 \in DOMAIN s
  BY ONLY <1>1
<1>3. ASSUME NotClosed(s) PROVE NotClosed(t) /\ s[1].event # "build_finished"
  BY <1>1, <1>2, <1>3 DEF NotClosed
<1>4. ASSUME NEW success, Closed(s, success), t # <<>>
      PROVE  Closed(t, success) /\ s[1].event # "build_finished"
  <2>0. Len(t) # 0
    BY ONLY t \in Seq(S), t # <<>>, <1>1
  <2>1. Len(t) # 0 /\ Len(t) \in DOMAIN t /\ t[Len(t)] = s[Len(s)] /\ Len(s) # 1
    <3>1. Len(t) \in DOMAIN t /\ Len(t) + 1 = Len(s)
      BY ONLY <1>1, <2>0
    <3> QED BY <1>1, <2>0, <3>1
  <2>2. \A i \in DOMAIN t : t[i].event = "build_finished" => i = Len(t)
    BY <1>1, <1>4 DEF Closed
  <2>3. s[1].event # "build_finished"
    BY <1>2, <1>4, <2>1 DEF Closed
  <2> QED BY <1>4, <2>1, <2>2, <2>3 DEF Closed
<1>5. ASSUME NEW success, Closed(s, success), t = <<>> PROVE s[1] = BuildFinished(success)
  <2>1. Len(t) = 0
    BY ONLY <1>5
  <2>2. Len(s) = 1
    BY <1>1, <2>1
  <2> QED BY <1>5, <2>2 DEF Closed
<1> QED BY <1>3, <1>4, <1>5

LEMMA ClosedLoses ==
  ASSUME NEW s, NEW t, NEW k, OneGone(s, t, k), s[k].event # "build_finished",
         t # <<>>
  PROVE  /\ NotClosed(s) => NotClosed(t)
         /\ \A success : Closed(s, success) => Closed(t, success)
<1>1. NotClosed(s) => NotClosed(t)
  BY WithoutHas DEF NotClosed
<1>2. ASSUME NEW success, Closed(s, success) PROVE Closed(t, success)
  <2>1. k # Len(s) /\ k \in 1..Len(s) /\ Len(s) \in Nat
    BY <1>2 DEF Closed, BuildFinished, OneGone
  <2>2. Len(t) \in DOMAIN t /\ ~(Len(t) < k) /\ Len(t) + 1 = Len(s)
    BY <2>1 DEF OneGone
  <2>3. t[Len(t)] = s[Len(s)]
    BY <2>2 DEF OneGone
  <2>4. ASSUME NEW i \in DOMAIN t, t[i].event = "build_finished" PROVE i = Len(t)
    <3>1. PICK n \in DOMAIN s : t[i] = s[n] /\ n = IF i < k THEN i ELSE i + 1
      BY WithoutHas
    <3>2. n = Len(s)
      BY <1>2, <2>4, <3>1 DEF Closed
    <3> QED BY <2>1, <2>2, <3>1, <3>2, <2>4 DEF OneGone
  <2> QED BY <1>2, <2>3, <2>4 DEF Closed
<1> QED BY <1>1, <1>2

\* Two sequences, one behind the other.
LEMMA ConcatHas ==
  ASSUME NEW S, NEW p \in Seq(S), NEW q \in Seq(S), NEW l, l = p \o q
  PROVE  /\ l \in Seq(S) /\ Len(l) = Len(p) + Len(q) /\ Len(p) \in Nat /\ Len(q) \in Nat
         /\ \A i \in 1..Len(p) : l[i] = p[i]
         /\ \A i \in 1..Len(q) : l[Len(p) + i] = q[i]
OBVIOUS

\* The log of what is sent and what is in the stream.
Streams == Seq(ProgressEvents) \cup {None}

LEMMA LogAppend ==
  ASSUME NEW told \in Streams, NEW s \in Seq(ProgressEvents), NEW e \in ProgressEvents
  PROVE  /\ LogOf(told, s) \in Seq(ProgressEvents)
         /\ LogOf(told, Append(s, e)) = Append(LogOf(told, s), e)
<1>1. CASE told = None
  BY <1>1 DEF LogOf
<1>2. CASE told # None
  <2>1. told \in Seq(ProgressEvents)
    BY <1>2 DEF Streams
  <2> DEFINE l == told \o Append(s, e)
             m == Append(told \o s, e)
  <2>2. /\ told \o s \in Seq(ProgressEvents) /\ Append(s, e) \in Seq(ProgressEvents)
        /\ Len(told \o s) = Len(told) + Len(s)
    BY <2>1
  <2>3. l \in Seq(ProgressEvents) /\ m \in Seq(ProgressEvents) /\ Len(l) = Len(m)
    BY <2>1, <2>2
  <2>4. ASSUME NEW i \in 1..Len(l) PROVE l[i] = m[i]
    BY <2>1, <2>2
  <2>5. l = m
    BY <2>3, <2>4, SeqEqual
  <2> QED BY <1>2, <2>2, <2>5 DEF LogOf
<1> QED BY <1>1, <1>2

\* An event of the log is in the stream or was sent, and the other way round.
LEMMA LogHas ==
  ASSUME NEW told \in Streams, NEW s \in Seq(ProgressEvents)
  PROVE  /\ \A i \in DOMAIN s : \E n \in DOMAIN LogOf(told, s) : LogOf(told, s)[n] = s[i]
         /\ ToldOnce(LogOf(told, s)) => ToldOnce(s)
<1>1. CASE told = None
  BY <1>1 DEF LogOf
<1>2. CASE told # None
  <2>1. told \in Seq(ProgressEvents)
    BY <1>2 DEF Streams
  <2> DEFINE l == told \o s
  <2>2. LogOf(told, s) = l
    BY <1>2 DEF LogOf
  <2>3. ASSUME NEW i \in DOMAIN s
        PROVE  Len(told) + i \in DOMAIN l /\ l[Len(told) + i] = s[i] /\ i \in Int
    BY <2>1
  <2>4. Len(told) \in Nat
    BY <2>1
  <2> HIDE DEF l
  <2>5. ASSUME ToldOnce(l), NEW i \in DOMAIN s, NEW j \in DOMAIN s,
               s[i].event \in {"action_started", "action_finished"},
               s[j].event = s[i].event, s[j].of = s[i].of
        PROVE  i = j
    <3>1. Len(told) + i = Len(told) + j
      BY <2>3, <2>5 DEF ToldOnce
    <3> QED BY <2>3, <2>4, <3>1
  <2>6. ToldOnce(l) => ToldOnce(s)
    BY <2>5 DEF ToldOnce
  <2>7. \A i \in DOMAIN s : \E n \in DOMAIN l : l[n] = s[i]
    BY <2>3
  <2> QED BY <2>2, <2>6, <2>7
<1> QED BY <1>1, <1>2

\* Receiving moves an event to the stream, or loses it: one that is not written, or any
\* where there is no stream.
LEMMA LogReceives ==
  ASSUME NEW told \in Streams, NEW s \in Seq(ProgressEvents), s # <<>>,
         NEW after, after = Write(told, s[1]), NEW l, l = LogOf(told, s),
         NEW m, m = LogOf(after, Tail(s))
  PROVE  /\ after \in Streams /\ (after = None <=> told = None)
         /\ \/ m = l
            \/ \E k \in DOMAIN l :
                 /\ OneGone(l, m, k) /\ l[k] = s[1]
                 /\ told # None => l[k].event \in {"action_running", "action_output"}
<1>1. /\ s[1] \in ProgressEvents /\ Len(s) \in Nat \ {0} /\ Tail(s) \in Seq(ProgressEvents)
      /\ Len(Tail(s)) = Len(s) - 1 /\ DOMAIN s = 1..Len(s) /\ DOMAIN Tail(s) = 1..(Len(s) - 1)
      /\ \A i \in DOMAIN Tail(s) : Tail(s)[i] = s[i + 1]
  BY TailHas
<1>2. None \notin Seq(ProgressEvents)
  BY ProgressAssumption
<1>3. CASE told = None
  <2>1. after = None /\ l = s /\ m = Tail(s)
    BY <1>3 DEF Write, LogOf
  <2>2. 1 \in DOMAIN l /\ l[1] = s[1]
    BY <1>1, <2>1
  <2>3. ASSUME NEW i \in DOMAIN m PROVE m[i] = IF i < 1 THEN l[i] ELSE l[i + 1]
    BY <1>1, <2>1
  <2>4. OneGone(l, m, 1)
    BY <1>1, <2>1, <2>2, <2>3 DEF OneGone
  <2> QED BY <1>3, <2>1, <2>2, <2>4 DEF Streams
<1>4. CASE told # None /\ s[1].event \in {"action_running", "action_output"}
  <2>1. told \in Seq(ProgressEvents) /\ after = told /\ l = told \o s /\ m = told \o Tail(s)
    BY <1>4 DEF Streams, Write, LogOf
  <2> DEFINE k == Len(told) + 1
  <2>2. k \in DOMAIN l /\ l[k] = s[1]
    BY <1>1, <2>1
  <2>3. /\ DOMAIN l = 1..Len(l) /\ Len(l) = Len(told) + Len(s) /\ Len(l) \in Nat
        /\ DOMAIN m = 1..(Len(l) - 1) /\ Len(m) = Len(l) - 1
    BY <1>1, <2>1
  <2>4. ASSUME NEW i \in DOMAIN m PROVE m[i] = IF i < k THEN l[i] ELSE l[i + 1]
    <3>1. i \in 1..(Len(told) + (Len(s) - 1)) /\ Len(told) \in Nat
      BY <1>1, <2>1, <2>3
    <3>2. CASE i < k
      BY <1>1, <2>1, <3>1, <3>2
    <3>3. CASE ~(i < k)
      <4>1. m[i] = Tail(s)[i - Len(told)] /\ i - Len(told) \in DOMAIN Tail(s)
        BY <1>1, <2>1, <3>1, <3>3
      <4>2. l[i + 1] = s[i + 1 - Len(told)]
        BY <1>1, <2>1, <3>1, <3>3
      <4>3. Tail(s)[i - Len(told)] = s[(i - Len(told)) + 1]
        BY <1>1, <4>1
      <4>4. (i - Len(told)) + 1 = i + 1 - Len(told)
        BY <3>1
      <4> QED BY <3>1, <3>3, <4>1, <4>2, <4>3, <4>4
    <3> QED BY <3>2, <3>3
  <2>5. OneGone(l, m, k)
    BY <2>2, <2>3, <2>4 DEF OneGone
  <2> QED BY <1>4, <2>1, <2>2, <2>5 DEF Streams
<1>5. CASE told # None /\ s[1].event \notin {"action_running", "action_output"}
  <2>1. told \in Seq(ProgressEvents) /\ after = Append(told, s[1])
    BY <1>5 DEF Streams, Write
  <2>2. after \in Seq(ProgressEvents) /\ after # None
    BY <1>1, <1>2, <2>1
  <2>3. l = told \o s /\ m = Append(told, s[1]) \o Tail(s)
    BY <1>5, <2>1, <2>2 DEF LogOf
  <2> DEFINE p == Append(told, s[1])
             q == Tail(s)
  <2>4. /\ p \in Seq(ProgressEvents) /\ Len(p) = Len(told) + 1 /\ p[Len(p)] = s[1]
        /\ Len(told) \in Nat /\ \A i \in 1..Len(told) : p[i] = told[i]
    BY <1>1, <2>1
  <2> HIDE DEF p, q
  <2>5. /\ l \in Seq(ProgressEvents) /\ Len(l) = Len(told) + Len(s)
        /\ \A i \in 1..Len(told) : l[i] = told[i]
        /\ \A i \in 1..Len(s) : l[Len(told) + i] = s[i]
    BY <2>1, <2>3, ConcatHas
  <2>6. q \in Seq(ProgressEvents) /\ m = p \o q /\ Len(q) = Len(s) - 1
    BY <1>1, <2>3 DEF p, q
  <2>7. /\ m \in Seq(ProgressEvents) /\ Len(m) = Len(p) + Len(q)
        /\ \A i \in 1..Len(p) : m[i] = p[i]
        /\ \A i \in 1..Len(q) : m[Len(p) + i] = q[i]
    <3>1. p \in Seq(ProgressEvents)
      BY <2>4
    <3>2. q \in Seq(ProgressEvents) /\ m = p \o q
      BY <2>6
    <3> QED BY ONLY <3>1, <3>2, ConcatHas
  <2>8. \A i \in 1..Len(q) : q[i] = s[i + 1]
    BY <1>1, <2>6 DEF q
  <2>9. Len(l) = Len(m)
    BY ONLY <1>1, <2>4, <2>5, <2>6, <2>7
  <2>10. ASSUME NEW i \in 1..Len(l) PROVE l[i] = m[i]
    <3>1. i \in 1..(Len(told) + Len(s)) /\ Len(told) \in Nat /\ Len(s) \in Nat \ {0}
      BY <1>1, <2>4, <2>5
    <3>2. CASE i \in 1..Len(told)
      <4>1. i \in 1..Len(p)
        BY ONLY <2>4, <3>2
      <4> QED BY <2>4, <2>5, <2>7, <3>2, <4>1
    <3>3. CASE i = Len(told) + 1
      <4>1. i = Len(p) /\ i \in 1..Len(p) /\ 1 \in 1..Len(s)
        BY ONLY <2>4, <3>1, <3>3
      <4>2. l[Len(told) + 1] = s[1]
        BY <2>5, <4>1
      <4> QED BY <2>4, <2>7, <3>3, <4>1, <4>2
    <3>4. CASE i > Len(told) + 1
      <4> DEFINE j == i - Len(p)
      <4>1. /\ j \in 1..Len(q) /\ Len(p) + j = i /\ j + 1 \in 1..Len(s)
            /\ Len(told) + (j + 1) = i
        BY ONLY <2>4, <2>6, <3>1, <3>4
      <4> HIDE DEF j
      <4>2. m[Len(p) + j] = q[j] /\ q[j] = s[j + 1] /\ l[Len(told) + (j + 1)] = s[j + 1]
        BY <2>5, <2>7, <2>8, <4>1
      <4> QED BY <4>1, <4>2
    <3>5. i \in 1..Len(told) \/ i = Len(told) + 1 \/ i > Len(told) + 1
      BY ONLY <3>1
    <3> QED BY <3>2, <3>3, <3>4, <3>5
  <2>11. l = m
    BY <2>5, <2>7, <2>9, <2>10, SeqEqual
  <2> QED BY <1>5, <2>2, <2>11 DEF Streams, p
<1> QED BY <1>3, <1>4, <1>5

\* What is said and shown of actions that began, that were reported with what is known of
\* them, and that are at work in busy slots or awaited with what they printed.
LogInv(told, s, begun, reported, known) ==
  /\ s \in Seq(ProgressEvents) /\ told \in Streams
  /\ LogSound(LogOf(told, s), begun, reported, known)
  /\ told # None =>
       /\ LogOf(told, s) # <<>> /\ LogOf(told, s)[1] = BuildStarted
       /\ LogComplete(LogOf(told, s), begun, reported)

Row == [of : Buildable \cup {None}, status : {None} \cup AtWork \cup ActionResults]
Line == [of : Buildable, result : ActionResults, completed : Nat, output : BOOLEAN]
Displays ==
  [on : {None, "live", "plain"}, completed : Nat, hits : Nat, failures : Nat,
   success : BOOLEAN \cup {None}, rows : [Workers -> Row], outputs : SUBSET Buildable,
   printed : Seq(Line)]

Received(s, reported, known, kinds) ==
  {a \in reported : known[a] \in kinds /\ ~Told(s, "action_finished", a)}

LiveInv(d, s, begun, reported, known, busy) ==
  /\ \A w \in Workers : d.rows[w].of # None => d.rows[w].of \in begun
  /\ RowsSound(s, d.rows, busy)
  /\ ReadsHits =>
       /\ d.hits = Cardinality(Received(s, reported, known, {"cached"}))
       /\ d.failures = Cardinality(Received(s, reported, known, {"failed"}))

Printing == RunResults \cup {"failed"}
PlainInv(d, s, reported, known, awaited) ==
  /\ OutputsSound(s, d.outputs, awaited)
  /\ Len(d.printed) = Cardinality(Received(s, reported, known, Printing))
  /\ \A i \in DOMAIN d.printed :
       LET line == d.printed[i] IN
       /\ line.of \in reported /\ line.result = known[line.of]
       /\ line.output = (line.result # "failed")

LEMMA LogInvGrows ==
  ASSUME NEW told, NEW s, NEW e \in ProgressEvents,
         NEW b, NEW r, NEW known, NEW b2, NEW r2, NEW known2,
         LogInv(told, s, b, r, known), b \subseteq b2, r \subseteq r2,
         \A a \in r : known2[a] = known[a],
         Truthful(e, b2, r2, known2),
         e.event = "action_started" => e.of \notin b /\ e.of \notin r,
         e.event = "action_finished" => e.of \notin r,
         \A a \in b2 : a \in b \/ (e.event = "action_started" /\ e.of = a),
         \A a \in r2 : a \in r \/ (e.event = "action_finished" /\ e.of = a)
  PROVE  /\ LogInv(told, Append(s, e), b2, r2, known2)
         /\ LogOf(told, Append(s, e)) = Append(LogOf(told, s), e)
<1> DEFINE l == LogOf(told, s)
           m == LogOf(told, Append(s, e))
<1>1. s \in Seq(ProgressEvents) /\ told \in Streams
  BY DEF LogInv
<1>2. l \in Seq(ProgressEvents) /\ m = Append(l, e)
  BY <1>1, LogAppend
<1>3. LogSound(l, b, r, known)
  BY DEF LogInv
<1>4. told # None => l # <<>> /\ l[1] = BuildStarted /\ LogComplete(l, b, r)
  BY DEF LogInv
<1>5. Append(s, e) \in Seq(ProgressEvents)
  BY <1>1
<1> HIDE DEF l, m
<1>6. LogSound(m, b2, r2, known2)
  <2>1. /\ b \subseteq b2 /\ r \subseteq r2 /\ \A a \in r : known2[a] = known[a]
        /\ Truthful(e, b2, r2, known2)
        /\ e.event = "action_started" => e.of \notin b /\ e.of \notin r
        /\ e.event = "action_finished" => e.of \notin r
    OBVIOUS
  <2>2. l \in Seq(ProgressEvents) /\ m = Append(l, e) /\ e \in ProgressEvents
    BY <1>2
  <2>3. LogSound(Append(l, e), b2, r2, known2)
    BY ONLY <1>3, <2>1, <2>2, LogGrows
  <2> QED BY <2>2, <2>3
<1>7. LogComplete(l, b, r) => LogComplete(m, b2, r2)
  BY <1>2, CompleteGrows
<1>8. l # <<>> => m # <<>> /\ m[1] = l[1]
  <2> SUFFICES ASSUME l # <<>> PROVE m # <<>> /\ m[1] = l[1]
    OBVIOUS
  <2>1. Len(l) # 0 /\ DOMAIN l = 1..Len(l) /\ Len(l) \in Nat
    BY ONLY <1>2, l # <<>>
  <2>2. 1 \in DOMAIN l
    BY ONLY <2>1
  <2> QED BY <1>2, <2>2, AppendHas
<1>9. told # None => m # <<>> /\ m[1] = BuildStarted /\ LogComplete(m, b2, r2)
  BY ONLY <1>4, <1>7, <1>8
<1> QED BY <1>1, <1>2, <1>5, <1>6, <1>9 DEF LogInv, l, m

LEMMA LogInvStays ==
  ASSUME NEW told, NEW s, NEW b, NEW r, NEW known, NEW known2,
         LogInv(told, s, b, r, known), \A a \in r : known2[a] = known[a]
  PROVE  LogInv(told, s, b, r, known2)
BY LogStays DEF LogInv

LEMMA LogInvReceives ==
  ASSUME NEW told, NEW s, NEW b, NEW r, NEW known, LogInv(told, s, b, r, known), s # <<>>,
         NEW after, after = Write(told, s[1])
  PROVE  /\ LogInv(after, Tail(s), b, r, known) /\ (after = None <=> told = None)
         /\ NotClosed(LogOf(told, s)) => NotClosed(LogOf(after, Tail(s)))
         /\ told # None => \A success :
              Closed(LogOf(told, s), success) => Closed(LogOf(after, Tail(s)), success)
<1> DEFINE l == LogOf(told, s)
           m == LogOf(after, Tail(s))
<1>1. s \in Seq(ProgressEvents) /\ told \in Streams /\ Tail(s) \in Seq(ProgressEvents)
  BY TailHas DEF LogInv
<1>2. /\ after \in Streams /\ (after = None <=> told = None)
      /\ \/ m = l
         \/ \E k \in DOMAIN l :
              /\ OneGone(l, m, k) /\ l[k] = s[1]
              /\ told # None => l[k].event \in {"action_running", "action_output"}
  BY <1>1, LogReceives
<1>3. LogSound(l, b, r, known)
  BY DEF LogInv
<1>4. told # None => l # <<>> /\ l[1] = BuildStarted /\ LogComplete(l, b, r)
  BY DEF LogInv
<1> HIDE DEF l, m
<1>5. CASE m = l
  BY <1>1, <1>2, <1>3, <1>4, <1>5 DEF LogInv, l, m
<1>6. ASSUME NEW k \in DOMAIN l, OneGone(l, m, k), l[k] = s[1],
             told # None => l[k].event \in {"action_running", "action_output"}
      PROVE  /\ LogInv(after, Tail(s), b, r, known)
             /\ NotClosed(l) => NotClosed(m)
             /\ told # None => \A success : Closed(l, success) => Closed(m, success)
  <2>1. LogSound(m, b, r, known)
    BY <1>3, <1>6, LogLoses
  <2>2. ASSUME told # None
        PROVE  /\ m # <<>> /\ m[1] = BuildStarted /\ LogComplete(m, b, r)
               /\ l[k].event # "build_finished"
    <3>1. k # 1 /\ l[k].event # "build_finished"
      BY <1>4, <1>6, <2>2 DEF BuildStarted
    <3>2. 1 \in DOMAIN m /\ 1 < k
      BY <1>6, <3>1 DEF OneGone
    <3>3. m[1] = l[1]
      BY <1>6, <3>2 DEF OneGone
    <3>4. m # <<>>
      BY <3>2
    <3>5. LogComplete(m, b, r)
      BY <1>4, <1>6, <2>2, CompleteLoses
    <3> QED BY <1>4, <2>2, <3>1, <3>3, <3>4, <3>5
  <2>3. NotClosed(l) => NotClosed(m)
    BY <1>6, WithoutHas DEF NotClosed
  <2>4. told # None => \A success : Closed(l, success) => Closed(m, success)
    BY <1>6, <2>2, ClosedLoses
  <2> QED BY <1>1, <1>2, <2>1, <2>2, <2>3, <2>4 DEF LogInv, m
<1> QED BY <1>2, <1>5, <1>6 DEF l, m

\* An action of the log began or was reported, and sent has it once.
LEMMA SentHas ==
  ASSUME NEW told, NEW s, NEW b, NEW r, NEW known, LogInv(told, s, b, r, known)
  PROVE  ToldOnce(s) /\ \A i \in DOMAIN s : Truthful(s[i], b, r, known)
<1>1. s \in Seq(ProgressEvents) /\ told \in Streams /\ LogSound(LogOf(told, s), b, r, known)
  BY DEF LogInv
<1>2. \A i \in DOMAIN s : \E n \in DOMAIN LogOf(told, s) : LogOf(told, s)[n] = s[i]
  BY <1>1, LogHas
<1>3. ToldOnce(s)
  BY <1>1, LogHas DEF LogSound
<1>4. \A i \in DOMAIN s : Truthful(s[i], b, r, known)
  BY <1>1, <1>2 DEF LogSound
<1> QED BY <1>3, <1>4

\* What was received does not change when an action is reported, and what was reported is
\* received when it is shown.
LEMMA ReceivedGrows ==
  ASSUME NEW S, NEW s \in Seq(S), NEW e \in S, NEW r, NEW known, NEW r2, NEW known2,
         r \subseteq r2, \A a \in r : known2[a] = known[a],
         e.event = "action_finished" => e.of \notin r,
         \A a \in r2 : a \in r \/ (e.event = "action_finished" /\ e.of = a), NEW kinds
  PROVE  Received(Append(s, e), r2, known2, kinds) = Received(s, r, known, kinds)
<1>1. \A a : Told(Append(s, e), "action_finished", a) <=>
               Told(s, "action_finished", a) \/ (e.event = "action_finished" /\ e.of = a)
  BY ToldAppend
<1> QED BY <1>1 DEF Received

Counts(s, reported, known, kinds) ==
  /\ Cardinality(Received(s, reported, known, kinds)) \in Nat
  /\ Cardinality(Received(Tail(s), reported, known, kinds)) =
       Cardinality(Received(s, reported, known, kinds)) +
         IF s[1].event = "action_finished" /\ known[s[1].of] \in kinds THEN 1 ELSE 0

LEMMA ReceivedTail ==
  ASSUME NEW s \in Seq(ProgressEvents), s # <<>>, ToldOnce(s), NEW r, IsFiniteSet(r), NEW known,
         s[1].event = "action_finished" => s[1].of \in r, NEW kinds
  PROVE  Counts(s, r, known, kinds)
<1> DEFINE t == Tail(s)
           h == s[1]
           before == Received(s, r, known, kinds)
           now == Received(t, r, known, kinds)
<1>1. \A a : Told(s, "action_finished", a) <=>
               Told(t, "action_finished", a) \/ (h.event = "action_finished" /\ h.of = a)
  BY ToldTail
<1>2. ASSUME h.event = "action_finished" PROVE ~Told(t, "action_finished", h.of)
  <2>1. /\ DOMAIN t = 1..(Len(s) - 1) /\ DOMAIN s = 1..Len(s) /\ Len(s) \in Nat \ {0}
        /\ \A i \in DOMAIN t : t[i] = s[i + 1]
    BY TailHas
  <2>2. \A i \in DOMAIN t : i + 1 \in DOMAIN s /\ 1 \in DOMAIN s /\ i + 1 # 1
    BY ONLY <2>1
  <2> QED BY <1>2, <2>1, <2>2 DEF Told, ToldOnce
<1>3. before \subseteq r
  BY DEF Received
<1>4. IsFiniteSet(before)
  BY <1>3, FS_Subset
<1> USE DEF Counts
<1>5. CASE h.event = "action_finished" /\ known[h.of] \in kinds
  <2>1. now = before \cup {h.of} /\ h.of \notin before
    BY <1>1, <1>2, <1>5 DEF Received
  <2> QED BY <1>4, <1>5, <2>1, FS_AddElement, FS_CardinalityType
<1>6. CASE ~(h.event = "action_finished" /\ known[h.of] \in kinds)
  <2>1. now = before
    BY <1>1, <1>6 DEF Received
  <2>2. Cardinality(before) \in Nat
    BY <1>4, FS_CardinalityType
  <2> QED BY <1>4, <1>6, <2>1, <2>2
<1> QED BY <1>5, <1>6

\* What the display has stays right when an event is added to the channel.
LEMMA LiveGrows ==
  ASSUME NEW d, NEW s \in Seq(ProgressEvents), NEW e \in ProgressEvents,
         NEW b, NEW r, NEW known, NEW busy, NEW b2, NEW r2, NEW known2, NEW busy2,
         LiveInv(d, s, b, r, known, busy), b \subseteq b2, r \subseteq r2,
         \A a \in r : known2[a] = known[a],
         e.event = "action_finished" => e.of \notin r,
         \A a \in r2 : a \in r \/ (e.event = "action_finished" /\ e.of = a),
         \A w \in busy : w \in busy2 \/ (e.event = "action_finished" /\ e.slot = w),
         e.event \in {"action_started", "action_running"} => e.slot \in busy2,
         e.event = "action_started" =>
           \A i \in DOMAIN s : s[i].event = "action_running" => s[i].of # e.of,
         e.event = "action_running" =>
           /\ \A i \in DOMAIN s :
                s[i].event = "action_started" /\ s[i].of = e.of => s[i].slot = e.slot
           /\ \A w \in Workers : d.rows[w].of = e.of => w = e.slot
  PROVE  LiveInv(d, Append(s, e), b2, r2, known2, busy2)
<1>1. RowsSound(s, d.rows, busy)
  BY DEF LiveInv
<1> DEFINE rows == d.rows
           t == Append(s, e)
<1>2. RowsSound(t, rows, busy2)
  <2> HIDE DEF rows
  <2>1. RowsSound(s, rows, busy)
    BY <1>1 DEF rows
  <2>2. /\ \A w \in busy : w \in busy2 \/ (e.event = "action_finished" /\ e.slot = w)
        /\ e.event \in {"action_started", "action_running"} => e.slot \in busy2
        /\ e.event = "action_started" =>
             \A i \in DOMAIN s : s[i].event = "action_running" => s[i].of # e.of
        /\ e.event = "action_running" =>
             /\ \A i \in DOMAIN s :
                  s[i].event = "action_started" /\ s[i].of = e.of => s[i].slot = e.slot
             /\ \A w \in Workers : rows[w].of = e.of => w = e.slot
    BY DEF rows
  <2>3. s \in Seq(ProgressEvents) /\ e \in ProgressEvents /\ t = Append(s, e)
    OBVIOUS
  <2> HIDE DEF t
  <2> QED BY ONLY <2>1, <2>2, <2>3, RowsGrow
<1>3. ASSUME NEW kinds PROVE Received(t, r2, known2, kinds) = Received(s, r, known, kinds)
  <2>1. /\ r \subseteq r2 /\ \A a \in r : known2[a] = known[a]
        /\ e.event = "action_finished" => e.of \notin r
        /\ \A a \in r2 : a \in r \/ (e.event = "action_finished" /\ e.of = a)
        /\ s \in Seq(ProgressEvents) /\ e \in ProgressEvents
    OBVIOUS
  <2> QED BY ONLY <2>1, ReceivedGrows
<1> QED BY <1>2, <1>3 DEF LiveInv

LEMMA PlainGrows ==
  ASSUME NEW d, NEW s \in Seq(ProgressEvents), NEW e \in ProgressEvents,
         NEW r, NEW known, NEW awaited, NEW r2, NEW known2, NEW awaited2,
         PlainInv(d, s, r, known, awaited), r \subseteq r2,
         \A a \in r : known2[a] = known[a],
         e.event = "action_finished" => e.of \notin r,
         \A a \in r2 : a \in r \/ (e.event = "action_finished" /\ e.of = a),
         \A a \in awaited2 : a \in awaited \/ (e.event = "action_output" /\ e.of = a),
         e.event = "action_finished" /\ e.result \in RunResults => e.of \in awaited
  PROVE  PlainInv(d, Append(s, e), r2, known2, awaited2)
<1> DEFINE outputs == d.outputs
           t == Append(s, e)
<1>1. OutputsSound(t, outputs, awaited2)
  <2>1. OutputsSound(s, outputs, awaited)
    BY DEF PlainInv
  <2>2. /\ \A a \in awaited2 : a \in awaited \/ (e.event = "action_output" /\ e.of = a)
        /\ e.event = "action_finished" /\ e.result \in RunResults => e.of \in awaited
        /\ s \in Seq(ProgressEvents) /\ e \in ProgressEvents /\ t = Append(s, e)
    OBVIOUS
  <2> HIDE DEF outputs, t
  <2> QED BY ONLY <2>1, <2>2, OutputsGrow
<1>2. ASSUME NEW kinds PROVE Received(t, r2, known2, kinds) = Received(s, r, known, kinds)
  <2>1. /\ r \subseteq r2 /\ \A a \in r : known2[a] = known[a]
        /\ e.event = "action_finished" => e.of \notin r
        /\ \A a \in r2 : a \in r \/ (e.event = "action_finished" /\ e.of = a)
        /\ s \in Seq(ProgressEvents) /\ e \in ProgressEvents
    OBVIOUS
  <2> QED BY ONLY <2>1, ReceivedGrows
<1> QED BY <1>1, <1>2 DEF PlainInv

LEMMA ShowsStay ==
  ASSUME NEW d, NEW s, NEW b, NEW r, NEW known, NEW known2, NEW busy, NEW awaited,
         \A a \in r : known2[a] = known[a]
  PROVE  /\ LiveInv(d, s, b, r, known, busy) => LiveInv(d, s, b, r, known2, busy)
         /\ PlainInv(d, s, r, known, awaited) => PlainInv(d, s, r, known2, awaited)
<1>1. \A kinds : Received(s, r, known2, kinds) = Received(s, r, known, kinds)
  BY DEF Received
<1> QED BY <1>1 DEF LiveInv, PlainInv

\* TuiState::apply keeps the rows and the counters right.
LEMMA LiveShown ==
  ASSUME NEW told, NEW s, s # <<>>, NEW d \in Displays,
         NEW b \in SUBSET Buildable, NEW r, NEW known, NEW busy,
         LogInv(told, s, b, r, known), IsFiniteSet(r), LiveInv(d, s, b, r, known, busy),
         NEW d2, d2 = Shown(d, s[1])
  PROVE  /\ LiveInv(d2, Tail(s), b, r, known, busy)
         /\ d2 \in Displays /\ d2.on = d.on
         /\ s[1].event # "build_finished" => d2.success = d.success
         /\ s[1].event = "build_finished" => d2.success = s[1].success
<1> DEFINE h == s[1]
           t == Tail(s)
<1>1. s \in Seq(ProgressEvents) /\ h \in ProgressEvents /\ t \in Seq(ProgressEvents)
  BY TailHas DEF LogInv
<1>2. ToldOnce(s) /\ Truthful(h, b, r, known)
  BY <1>1, SentHas, TailHas
<1>3. /\ h.event \in {"action_started", "action_running", "action_output",
                      "action_finished"} => h.of \in Buildable /\ h.slot \in Workers
      /\ h.event = "action_finished" => h.result \in ActionResults /\ h.completed \in Nat
      /\ h.event \in {"build_started", "all_cached"} => h.total \in Nat
      /\ h.event = "build_finished" => h.success \in BOOLEAN
      /\ h.event \in {"build_started", "all_cached", "action_started", "action_running",
                      "action_output", "action_finished", "build_finished"}
  BY <1>1, EventHas
<1>4. d2 = Shown(d, h)
  OBVIOUS
<1>5. s[1] = h
  OBVIOUS
<1> HIDE DEF h
<1>6. /\ d2 \in Displays /\ d2.on = d.on
      /\ h.event # "build_finished" => d2.success = d.success
      /\ h.event = "build_finished" => d2.success = h.success
      /\ \A w \in Workers :
           \/ d2.rows[w].of = d.rows[w].of
           \/ h.event = "action_started" /\ w = h.slot /\ d2.rows[w].of = h.of
      /\ \A w \in Workers : d2.rows[w].status \in AtWork =>
           \/ d.rows[w].status \in AtWork /\ ~(h.event = "action_finished" /\ h.slot = w)
           \/ h.event = "action_started" /\ w = h.slot
           \/ h.event = "action_running" /\ d.rows[w].of = h.of
      /\ d2.hits = d.hits + IF h.event = "action_finished" /\ h.result = "cached"
                            THEN 1 ELSE 0
      /\ d2.failures = d.failures + IF h.event = "action_finished" /\ h.result = "failed"
                            THEN 1 ELSE 0
  <2>1. /\ d.rows \in [Workers -> Row] /\ d.hits \in Nat /\ d.failures \in Nat
        /\ d.completed \in Nat
    BY DEF Displays
  <2>2. CASE h.event = "action_started"
    <3>1. d2 = [d EXCEPT !.rows[h.slot] = [of |-> h.of, status |-> "checking cache"]]
      BY <1>4, <2>2 DEF Shown
    <3>2. [of |-> h.of, status |-> "checking cache"] \in Row
      BY <1>3, <2>2 DEF Row, AtWork
    <3> DEFINE rows2 == [d.rows EXCEPT ![h.slot] = [of |-> h.of, status |-> "checking cache"]]
    <3>3. /\ rows2 \in [Workers -> Row]
          /\ \A w \in Workers : w # h.slot => rows2[w] = d.rows[w]
          /\ rows2[h.slot].of = h.of
      BY <1>3, <2>1, <2>2, <3>2
    <3>4. d2 = [d EXCEPT !.rows = rows2]
      BY <3>1 DEF Displays
    <3> HIDE DEF rows2
    <3>5. /\ d2 \in Displays /\ d2.rows = rows2 /\ d2.on = d.on /\ d2.success = d.success
          /\ d2.hits = d.hits /\ d2.failures = d.failures
      BY <3>3, <3>4 DEF Displays
    <3>6. \A w \in Workers : w = h.slot \/ d2.rows[w] = d.rows[w]
      BY <3>3, <3>5
    <3>7. d2.rows[h.slot].of = h.of
      BY <3>3, <3>5
    <3> QED BY <2>1, <2>2, <3>5, <3>6, <3>7
  <2>3. CASE h.event = "action_running"
    <3> DEFINE rows2 == [w \in Workers |->
                           IF d.rows[w].of = h.of THEN [d.rows[w] EXCEPT !.status = "running/miss"]
                           ELSE d.rows[w]]
    <3>1. d2 = [d EXCEPT !.rows = rows2]
      BY <1>4, <2>3 DEF Shown
    <3>2. \A w \in Workers : rows2[w] \in Row /\ rows2[w].of = d.rows[w].of
      BY <2>1 DEF Row, AtWork
    <3>3. \A w \in Workers : d.rows[w].of # h.of => rows2[w].status = d.rows[w].status
      OBVIOUS
    <3>4. rows2 \in [Workers -> Row]
      BY <3>2
    <3> HIDE DEF rows2
    <3>5. d2 \in Displays /\ d2.rows = rows2
      BY <3>1, <3>4 DEF Displays
    <3>6. d2.on = d.on /\ d2.success = d.success /\ d2.hits = d.hits /\ d2.failures = d.failures
      BY <3>1 DEF Displays
    <3> QED BY <2>1, <2>3, <3>2, <3>3, <3>5, <3>6
  <2>4. CASE h.event = "action_finished"
    <3>1. d2 = [d EXCEPT !.completed = h.completed, !.rows[h.slot].status = h.result,
                   !.hits = IF h.result = "cached" THEN @ + 1 ELSE @,
                   !.failures = IF h.result = "failed" THEN @ + 1 ELSE @]
      BY <1>4, <2>4 DEF Shown
    <3> DEFINE rows2 == [d.rows EXCEPT ![h.slot].status = h.result]
    <3>2. /\ rows2 \in [Workers -> Row]
          /\ \A w \in Workers : rows2[w].of = d.rows[w].of
          /\ \A w \in Workers : w # h.slot => rows2[w] = d.rows[w]
          /\ rows2[h.slot].status = h.result
      BY <1>3, <2>1, <2>4 DEF Row, AtWork
    <3>3. /\ d2.rows = rows2 /\ d2.on = d.on /\ d2.success = d.success
          /\ d2.completed = h.completed
          /\ d2.hits = (IF h.result = "cached" THEN d.hits + 1 ELSE d.hits)
          /\ d2.failures = (IF h.result = "failed" THEN d.failures + 1 ELSE d.failures)
          /\ d2.outputs = d.outputs /\ d2.printed = d.printed
          /\ d2 = [on |-> d2.on, completed |-> d2.completed, hits |-> d2.hits,
                   failures |-> d2.failures, success |-> d2.success, rows |-> d2.rows,
                   outputs |-> d2.outputs, printed |-> d2.printed]
      BY <3>1 DEF Displays
    <3> HIDE DEF rows2
    <3>4. d2.hits \in Nat /\ d2.failures \in Nat
      BY <2>1, <3>3
    <3>5. d2 \in Displays
      BY <1>3, <2>4, <3>2, <3>3, <3>4 DEF Displays
    <3>6. h.result \notin AtWork
      BY <1>3, <2>4 DEF ActionResults, AtWork
    <3>7. /\ \A w \in Workers : d2.rows[w].of = d.rows[w].of
          /\ \A w \in Workers : d2.rows[w].status \in AtWork =>
               d.rows[w].status \in AtWork /\ h.slot # w
      BY <3>2, <3>3, <3>6
    <3>8. /\ d2.hits = d.hits + IF h.result = "cached" THEN 1 ELSE 0
          /\ d2.failures = d.failures + IF h.result = "failed" THEN 1 ELSE 0
      BY <2>1, <3>3
    <3> QED BY <2>4, <3>3, <3>5, <3>7, <3>8
  <2>5. CASE h.event = "build_finished"
    <3>1. d2 = [d EXCEPT !.success = h.success]
      BY <1>4, <2>5 DEF Shown
    <3> QED BY <1>3, <2>1, <2>5, <3>1 DEF Displays
  <2>6. CASE h.event \in {"build_started", "action_output"}
    <3>1. d2 = d
      BY <1>4, <2>6 DEF Shown
    <3> QED BY <2>1, <2>6, <3>1
  <2>7. h.event # "all_cached"
    BY <1>2 DEF Truthful
  <2> QED BY <1>3, <2>2, <2>3, <2>4, <2>5, <2>6, <2>7
<1>7. RowsSound(t, d2.rows, busy)
  <2>1. RowsSound(s, d.rows, busy)
    BY DEF LiveInv
  <2> DEFINE rows == d.rows
             rows2 == d2.rows
  <2>2. /\ \A w \in Workers :
             \/ rows2[w].of = rows[w].of
             \/ h.event = "action_started" /\ w = h.slot /\ rows2[w].of = h.of
        /\ \A w \in Workers : rows2[w].status \in AtWork =>
             \/ rows[w].status \in AtWork /\ ~(h.event = "action_finished" /\ h.slot = w)
             \/ h.event = "action_started" /\ w = h.slot
             \/ h.event = "action_running" /\ rows[w].of = h.of
    BY <1>6
  <2>3. RowsSound(s, rows, busy)
    BY <2>1
  <2> HIDE DEF rows, rows2
  <2>4. s \in Seq(ProgressEvents) /\ s # <<>> /\ t = Tail(s)
    BY <1>1
  <2> HIDE DEF t
  <2>5. RowsSound(t, rows2, busy)
    <3>1. s \in Seq(ProgressEvents) /\ s # <<>> /\ h = s[1]
      BY <1>5, <2>4
    <3>2. RowsSound(Tail(s), rows2, busy)
      BY ONLY <2>2, <2>3, <3>1, RowsShown
    <3> QED BY <2>4, <3>2
  <2> QED BY <2>5 DEF rows2
<1>8. \A w \in Workers : d2.rows[w].of # None => d2.rows[w].of \in b
  BY <1>2, <1>6 DEF LiveInv, Truthful
<1>9. ASSUME NEW kinds
      PROVE  /\ Cardinality(Received(s, r, known, kinds)) \in Nat
             /\ Cardinality(Received(t, r, known, kinds)) =
                  Cardinality(Received(s, r, known, kinds)) +
                    IF h.event = "action_finished" /\ known[h.of] \in kinds THEN 1 ELSE 0
  <2>1. h.event = "action_finished" => h.of \in r
    BY <1>2 DEF Truthful
  <2>2. /\ s \in Seq(ProgressEvents) /\ s # <<>> /\ ToldOnce(s) /\ IsFiniteSet(r)
        /\ s[1].event = "action_finished" => s[1].of \in r
    BY <1>1, <1>2, <1>5, <2>1
  <2>3. Counts(s, r, known, kinds)
    BY ONLY <2>2, ReceivedTail
  <2> QED BY <1>5, <2>3 DEF Counts
<1>10. h.event = "action_finished" => h.result = known[h.of]
  BY <1>2 DEF Truthful
<1>11. ASSUME ReadsHits
       PROVE  /\ d2.hits = Cardinality(Received(t, r, known, {"cached"}))
              /\ d2.failures = Cardinality(Received(t, r, known, {"failed"}))
  <2>1. /\ d.hits = Cardinality(Received(s, r, known, {"cached"}))
        /\ d.failures = Cardinality(Received(s, r, known, {"failed"}))
    BY <1>11 DEF LiveInv
  <2>2. /\ d2.hits = d.hits + IF h.event = "action_finished" /\ h.result = "cached"
                              THEN 1 ELSE 0
        /\ d2.failures = d.failures + IF h.event = "action_finished" /\ h.result = "failed"
                              THEN 1 ELSE 0
    BY <1>6
  <2>3. /\ h.event = "action_finished" /\ h.result = "cached" <=>
             h.event = "action_finished" /\ known[h.of] \in {"cached"}
        /\ h.event = "action_finished" /\ h.result = "failed" <=>
             h.event = "action_finished" /\ known[h.of] \in {"failed"}
    BY <1>10
  <2>4. d2.hits = Cardinality(Received(t, r, known, {"cached"}))
    BY <1>9, <2>1, <2>2, <2>3
  <2>5. d2.failures = Cardinality(Received(t, r, known, {"failed"}))
    BY <1>9, <2>1, <2>2, <2>3
  <2> QED BY <2>4, <2>5
<1>12. LiveInv(d2, t, b, r, known, busy)
  BY <1>7, <1>8, <1>11 DEF LiveInv
<1> QED BY <1>5, <1>6, <1>12

LEMMA PrintsWithLine ==
  ASSUME NEW d, NEW e, e.event = "action_finished"
  PROVE  /\ e.result \in RunResults => Printed(d, e) = WithLine(d, e, e.of \in d.outputs)
         /\ e.result = "failed" => Printed(d, e) = WithLine(d, e, FALSE)
<1>1. ASSUME e.result \in {"executed", "flaky"}
      PROVE  Printed(d, e) = WithLine(d, e, e.of \in d.outputs)
  BY <1>1 DEF Printed
<1>2. ASSUME e.result = "failed" PROVE Printed(d, e) = WithLine(d, e, FALSE)
  BY <1>2 DEF Printed
<1> QED BY <1>1, <1>2 DEF RunResults

\* run_plain keeps its lines and what it remembers right.
LEMMA PlainPrinted ==
  ASSUME NEW told, NEW s, s # <<>>, NEW d \in Displays,
         NEW b, NEW r \in SUBSET Buildable, NEW known, NEW awaited,
         LogInv(told, s, b, r, known), IsFiniteSet(r), PlainInv(d, s, r, known, awaited),
         awaited \cap r = {}, NEW d2, d2 = Printed(d, s[1])
  PROVE  PlainInv(d2, Tail(s), r, known, awaited) /\ d2 \in Displays /\ d2.on = d.on
<1> DEFINE h == s[1]
           t == Tail(s)
<1>1. s \in Seq(ProgressEvents) /\ h \in ProgressEvents /\ t \in Seq(ProgressEvents)
  BY TailHas DEF LogInv
<1>2. ToldOnce(s) /\ \A i \in DOMAIN s : Truthful(s[i], b, r, known)
  BY <1>1, SentHas
<1>3. /\ h.event \in {"action_started", "action_running", "action_output",
                      "action_finished"} => h.of \in Buildable /\ h.slot \in Workers
      /\ h.event = "action_finished" => h.result \in ActionResults /\ h.completed \in Nat
  BY <1>1, EventHas
<1>4. d2 = Printed(d, h) /\ 1 \in DOMAIN s
  BY <1>1, TailHas
<1>5. h.event = "action_finished" => h.of \in r /\ h.result = known[h.of]
  BY <1>2, <1>4 DEF Truthful
<1>6. s[1] = h
  OBVIOUS
<1> HIDE DEF h
<1> DEFINE line == [of |-> h.of, result |-> h.result, completed |-> h.completed,
                    output |-> h.result # "failed"]
           prints == h.event = "action_finished" /\ h.result \in Printing
<1>7. ASSUME h.event = "action_finished", h.result \in RunResults PROVE h.of \in d.outputs
  <2>1. Heard(s, 1, h.of, d.outputs)
    BY <1>4, <1>6, <1>7 DEF PlainInv, OutputsSound
  <2>2. \A j \in DOMAIN s : ~(j < 1)
    BY <1>1
  <2> QED BY <2>1, <2>2 DEF Heard
<1>8. d.outputs \in SUBSET Buildable /\ d.printed \in Seq(Line)
  BY DEF Displays
<1>9. prints => line \in Line
  BY <1>3 DEF Line
<1>10. /\ d2.on = d.on /\ d2 \in Displays
       /\ d2.printed = IF prints THEN Append(d.printed, line) ELSE d.printed
       /\ h.event = "action_output" => d2.outputs = d.outputs \cup {h.of}
       /\ h.event = "action_finished" => d2.outputs = d.outputs \ {h.of}
       /\ h.event \notin {"action_output", "action_finished"} => d2.outputs = d.outputs
  <2>1. CASE h.event = "action_output"
    <3>1. d2 = [d EXCEPT !.outputs = @ \cup {h.of}]
      BY <1>4, <2>1 DEF Printed
    <3>2. d.outputs \cup {h.of} \in SUBSET Buildable
      BY <1>3, <1>8, <2>1
    <3> QED BY <2>1, <3>1, <3>2 DEF Displays
  <2>2. CASE prints
    <3>1. d2 = [d EXCEPT !.outputs = @ \ {h.of}, !.printed = Append(@, line)]
      <4>1. CASE h.result \in RunResults
        <5>1. d2 = WithLine(d, h, h.of \in d.outputs)
          BY <1>4, <2>2, <4>1, PrintsWithLine
        <5>2. (h.of \in d.outputs) = TRUE /\ (h.result # "failed") = TRUE
          BY <1>7, <2>2, <4>1 DEF RunResults
        <5> QED BY <5>1, <5>2 DEF WithLine
      <4>2. CASE h.result = "failed"
        <5>1. d2 = WithLine(d, h, FALSE)
          BY <1>4, <2>2, <4>2, PrintsWithLine
        <5>2. (h.result # "failed") = FALSE
          BY <4>2
        <5> QED BY <5>1, <5>2 DEF WithLine
      <4> QED BY <2>2, <4>1, <4>2 DEF Printing
    <3>2. Append(d.printed, line) \in Seq(Line) /\ d.outputs \ {h.of} \in SUBSET Buildable
      BY <1>8, <1>9, <2>2
    <3> HIDE DEF line
    <3> QED BY <2>2, <3>1, <3>2 DEF Displays
  <2>3. CASE h.event = "action_finished" /\ ~prints
    <3>1. d2 = [d EXCEPT !.outputs = @ \ {h.of}]
      <4>1. h.result \in {"cached", "skipped"} /\ h.event = "action_finished"
        BY <1>3, <2>3 DEF Printing, RunResults, ActionResults
      <4> QED BY ONLY <1>4, <4>1 DEF Printed
    <3>2. d.outputs \ {h.of} \in SUBSET Buildable
      BY <1>8
    <3> QED BY <2>3, <3>1, <3>2 DEF Displays
  <2>4. CASE h.event \notin {"action_output", "action_finished"}
    <3>1. d2 = d
      BY <1>4, <2>4 DEF Printed
    <3> QED BY <2>4, <3>1
  <2> QED BY <2>1, <2>2, <2>3, <2>4
<1>11. OutputsSound(t, d2.outputs, awaited)
  <2> DEFINE outputs == d.outputs
             outputs2 == d2.outputs
  <2>1. /\ OutputsSound(s, outputs, awaited)
        /\ h.event = "action_output" => outputs2 = outputs \cup {h.of}
        /\ h.event = "action_finished" => outputs2 = outputs \ {h.of} /\ h.of \notin awaited
        /\ h.event \notin {"action_output", "action_finished"} => outputs2 = outputs
    BY <1>5, <1>10 DEF PlainInv
  <2> HIDE DEF outputs, outputs2
  <2>2. s \in Seq(ProgressEvents) /\ s # <<>> /\ t = Tail(s) /\ h = s[1] /\ ToldOnce(s)
    BY <1>1, <1>2, <1>6
  <2> HIDE DEF t
  <2>3. OutputsSound(t, outputs2, awaited)
    BY ONLY <2>1, <2>2, OutputsPrinted
  <2> QED BY <2>3 DEF outputs2
<1>12. /\ Cardinality(Received(s, r, known, Printing)) \in Nat
       /\ Cardinality(Received(t, r, known, Printing)) =
            Cardinality(Received(s, r, known, Printing)) + IF prints THEN 1 ELSE 0
  <2>1. h.event = "action_finished" => h.of \in r
    BY <1>5
  <2>2. prints <=> h.event = "action_finished" /\ known[h.of] \in Printing
    BY <1>5
  <2>3. /\ s \in Seq(ProgressEvents) /\ s # <<>> /\ ToldOnce(s) /\ IsFiniteSet(r)
        /\ s[1].event = "action_finished" => s[1].of \in r
    BY <1>1, <1>2, <1>6, <2>1
  <2>4. Counts(s, r, known, Printing)
    BY ONLY <2>3, ReceivedTail
  <2>5. /\ Cardinality(Received(s, r, known, Printing)) \in Nat
        /\ Cardinality(Received(t, r, known, Printing)) =
             Cardinality(Received(s, r, known, Printing)) +
               IF h.event = "action_finished" /\ known[h.of] \in Printing THEN 1 ELSE 0
    BY <1>6, <2>4 DEF Counts
  <2>6. CASE prints
    BY <2>2, <2>5, <2>6
  <2>7. CASE ~prints
    BY <2>2, <2>5, <2>7
  <2> QED BY <2>6, <2>7
<1>13. Len(d.printed) = Cardinality(Received(s, r, known, Printing))
  BY DEF PlainInv
<1>14. ASSUME NEW i \in DOMAIN d.printed
       PROVE  /\ d.printed[i].of \in r /\ d.printed[i].result = known[d.printed[i].of]
              /\ d.printed[i].output = (d.printed[i].result # "failed")
  BY DEF PlainInv
<1>15. ASSUME prints
       PROVE  /\ Len(d2.printed) = Len(d.printed) + 1
              /\ \A i \in DOMAIN d2.printed :
                   \/ i \in DOMAIN d.printed /\ d2.printed[i] = d.printed[i]
                   \/ d2.printed[i] = line
  <2>1. line \in Line /\ d2.printed = Append(d.printed, line)
    BY <1>9, <1>10, <1>15
  <2> HIDE DEF line
  <2>2. /\ DOMAIN d2.printed = DOMAIN d.printed \cup {Len(d2.printed)}
        /\ d2.printed[Len(d2.printed)] = line /\ Len(d2.printed) = Len(d.printed) + 1
        /\ \A i \in DOMAIN d.printed : d2.printed[i] = d.printed[i]
    BY <1>8, <2>1, AppendHas
  <2> QED BY ONLY <2>2
<1>16. Len(d2.printed) = Cardinality(Received(t, r, known, Printing))
  <2>1. CASE prints
    BY <1>12, <1>13, <1>15, <2>1
  <2>2. CASE ~prints
    BY <1>10, <1>12, <1>13, <2>2
  <2> QED BY <2>1, <2>2
<1>17. ASSUME NEW i \in DOMAIN d2.printed
       PROVE  /\ d2.printed[i].of \in r /\ d2.printed[i].result = known[d2.printed[i].of]
              /\ d2.printed[i].output = (d2.printed[i].result # "failed")
  <2>1. CASE i \in DOMAIN d.printed /\ d2.printed[i] = d.printed[i]
    BY <1>14, <2>1
  <2>2. CASE prints /\ d2.printed[i] = line
    BY <1>5, <2>2
  <2>3. CASE ~prints
    BY <1>10, <1>14, <2>3
  <2> QED BY <1>15, <2>1, <2>2, <2>3
<1>18. PlainInv(d2, t, r, known, awaited)
  BY <1>11, <1>16, <1>17 DEF PlainInv
<1> QED BY <1>6, <1>10, <1>18

-----------------------------------------------------------------------------
(* The pool of a build: an action is in one slot, decided once, and reported  *)
(* when the slot that decided it is done.                                      *)

Slot ==
  [at : {"idle", "claimed", "settled", "running", "published"},
   of : Buildable \cup {None}, result : ActionResults \cup {None}, completed : Nat,
   next : Buildable \cup {None}]

BusySlots == {w \in Workers : pool[w].at \in {"settled", "running", "published"}}
Publishing == {w \in Workers : pool[w].at = "published"}
Begun == {pool[w].of : w \in BusySlots} \cup (Decided \ certified)
Reported == Decided \ {pool[w].of : w \in Publishing}
Awaited == {pool[w].of : w \in {v \in Publishing : pool[v].result \in RunResults}}

SlotSound(p) ==
  /\ p.at = "idle" => p = IdleSlot
  /\ p.at # "idle" => p.of \in All
  /\ p.at \in {"claimed", "settled", "running"} => p.of \notin Decided /\ p.next = None
  /\ p.at = "settled" => p.result \notin RunResults /\ p.result # None
  /\ p.at = "published" =>
       /\ p.of \in Decided /\ p.of \notin certified /\ outcomes[p.of] = p.result
       /\ p.next \notin Decided /\ p.next \in All \cup {None}
SlotsApart ==
  \A v, w \in Workers : v # w =>
    /\ pool[v].of # None => pool[v].of # pool[w].of /\ pool[v].of # pool[w].next
    /\ pool[v].next # None => pool[v].next # pool[w].of /\ pool[v].next # pool[w].next

PoolInv ==
  /\ invocation \in Invocations /\ closure \in Closures
  /\ pool \in [Workers -> Slot] /\ outcomes \in [Decided -> ActionResults]
  /\ certified \subseteq Decided /\ Decided \subseteq All
  /\ \A a \in certified : outcomes[a] = "cached"
  /\ \A w \in Workers : SlotSound(pool[w])
  /\ SlotsApart

LEMMA AllHas ==
  ASSUME closure \in Closures
  PROVE  All \subseteq Buildable /\ IsFiniteSet(All) /\ None \notin All /\ None \notin Buildable
BY ProgressAssumption DEF All, Buildable

\* What the sets have.
LEMMA PoolHas ==
  /\ \A w : w \in BusySlots <=>
       w \in Workers /\ pool[w].at \in {"settled", "running", "published"}
  /\ \A a : a \in Begun <=>
       \/ \E w \in BusySlots : pool[w].of = a
       \/ a \in Decided /\ a \notin certified
  /\ \A a : a \in Reported <=>
       a \in Decided /\ \A w \in Workers : pool[w].at = "published" => pool[w].of # a
  /\ \A a : a \in Awaited <=>
       \E w \in Workers :
         pool[w].at = "published" /\ pool[w].result \in RunResults /\ pool[w].of = a
BY DEF BusySlots, Publishing, Begun, Reported, Awaited

LEMMA PoolSets ==
  ASSUME PoolInv
  PROVE  /\ Begun \subseteq All /\ Reported \subseteq All /\ Awaited \cap Reported = {}
         /\ All \subseteq Buildable /\ IsFiniteSet(All) /\ IsFiniteSet(Reported)
         /\ None \notin All /\ None \notin Buildable
<1>1. All \subseteq Buildable /\ IsFiniteSet(All) /\ None \notin All /\ None \notin Buildable
  BY AllHas DEF PoolInv
<1>2. Begun \subseteq All
  BY PoolHas DEF PoolInv, SlotSound
<1>3. Reported \subseteq All
  BY PoolHas DEF PoolInv
<1>4. Awaited \cap Reported = {}
  BY PoolHas
<1> QED BY <1>1, <1>2, <1>3, <1>4, FS_Subset

\* A slot changes, and the others do not.
LEMMA OneSlotChanges ==
  ASSUME PoolInv, NEW w \in Workers, NEW p \in Slot, pool' = [pool EXCEPT ![w] = p],
         UNCHANGED <<invocation, closure, certified>>,
         outcomes' \in [Decided' -> ActionResults], Decided \subseteq Decided', Decided' \subseteq All,
         \A a \in Decided : outcomes'[a] = outcomes[a],
         \A a \in Decided' : a \in Decided \/ a = pool[w].of,
         SlotSound(p)',
         {p.of, p.next} \subseteq {pool[w].of, pool[w].next, None} \cup (All \ (Decided' \cup Claimed))
  PROVE  /\ PoolInv'
         /\ pool'[w] = p /\ \A v \in Workers : v # w => pool'[v] = pool[v]
<1>1. pool'[w] = p /\ pool' \in [Workers -> Slot] /\ \A v \in Workers : v # w => pool'[v] = pool[v]
  BY DEF PoolInv
<1>2. All' = All
  BY DEF All
<1>3. \A v \in Workers : pool[v].of \in Claimed /\ pool[v].next \in Claimed
  BY DEF Claimed
<1>4. ASSUME NEW v \in Workers, v # w PROVE SlotSound(pool[v])'
  <2>1. SlotSound(pool[v]) /\ pool'[v] = pool[v]
    BY <1>1, <1>4 DEF PoolInv
  <2>2. pool[v].of # None => pool[v].of # pool[w].of
    BY <1>4 DEF PoolInv, SlotsApart
  <2>3. pool[v].next # None => pool[v].next # pool[w].of
    BY <1>4 DEF PoolInv, SlotsApart
  <2>4. None \notin All
    BY AllHas DEF PoolInv
  <2>5. pool[v].at \in {"claimed", "settled", "running"} => pool[v].of \notin Decided'
    BY <2>1, <2>2, <2>4 DEF SlotSound
  <2>6. pool[v].at = "published" => pool[v].next \notin Decided'
    BY <2>1, <2>3, <2>4 DEF SlotSound
  <2> QED BY <1>2, <2>1, <2>5, <2>6 DEF SlotSound, IdleSlot
<1>5. SlotsApart'
  <2>1. ASSUME NEW v \in Workers, v # w
        PROVE  /\ pool[v].of # None => pool[v].of # p.of /\ pool[v].of # p.next
               /\ pool[v].next # None => pool[v].next # p.of /\ pool[v].next # p.next
               /\ p.of # None => p.of # pool[v].of /\ p.of # pool[v].next
               /\ p.next # None => p.next # pool[v].of /\ p.next # pool[v].next
    <3>1. /\ pool[v].of # None => pool[v].of # pool[w].of /\ pool[v].of # pool[w].next
          /\ pool[v].next # None => pool[v].next # pool[w].of /\ pool[v].next # pool[w].next
      BY <2>1 DEF PoolInv, SlotsApart
    <3>2. pool[v].of \in Claimed /\ pool[v].next \in Claimed
      BY <1>3
    <3> QED BY <3>1, <3>2
  <2>2. ASSUME NEW v \in Workers, NEW u \in Workers, v # u
        PROVE  /\ pool'[v].of # None => pool'[v].of # pool'[u].of /\ pool'[v].of # pool'[u].next
               /\ pool'[v].next # None =>
                    pool'[v].next # pool'[u].of /\ pool'[v].next # pool'[u].next
    <3>1. CASE v # w /\ u # w
      BY <1>1, <2>2, <3>1 DEF PoolInv, SlotsApart
    <3>2. CASE v = w
      BY <1>1, <2>1, <2>2, <3>2
    <3>3. CASE u = w
      BY <1>1, <2>1, <2>2, <3>3
    <3> QED BY <3>1, <3>2, <3>3
  <2> QED BY <2>2 DEF SlotsApart
<1>6. SlotSound(pool[w])'
  BY <1>1 DEF SlotSound
<1>7. \A v \in Workers : SlotSound(pool[v])'
  BY <1>4, <1>6
<1> QED BY <1>1, <1>2, <1>5, <1>7 DEF PoolInv

LEMMA PoolClaim ==
  ASSUME PoolInv, NEW w \in Workers, Claim(w)
  PROVE  /\ PoolInv'
         /\ Begun' = Begun /\ Reported' = Reported /\ Awaited' = Awaited
         /\ BusySlots' = BusySlots /\ outcomes' = outcomes
<1>1. PICK a \in Ready : pool' = [pool EXCEPT ![w] = [IdleSlot EXCEPT !.at = "claimed", !.of = a]]
  BY DEF Claim
<1>2. pool[w].at = "idle" /\ UNCHANGED <<runVars, outcomes>>
  BY DEF Claim, At
<1> DEFINE p == [IdleSlot EXCEPT !.at = "claimed", !.of = a]
<1>3. a \in All /\ a \notin Decided /\ a \notin Claimed
  BY <1>1 DEF Ready
<1>4. p \in Slot /\ p.at = "claimed" /\ p.of = a /\ p.next = None
  BY <1>3, AllHas DEF PoolInv, IdleSlot, Slot
<1> HIDE DEF p
<1>5. Decided' = Decided /\ All' = All /\ certified' = certified
  BY <1>2 DEF Decided, All, runVars
<1>6. SlotSound(p)'
  BY <1>3, <1>4, <1>5, AllHas DEF SlotSound, PoolInv
<1>7. PoolInv' /\ pool'[w] = p /\ \A v \in Workers : v # w => pool'[v] = pool[v]
  <2>1. pool' = [pool EXCEPT ![w] = p]
    BY <1>1 DEF p
  <2>2. UNCHANGED <<invocation, closure, certified, outcomes>>
    BY <1>2 DEF runVars
  <2>3. {p.of, p.next} \subseteq {pool[w].of, pool[w].next, None} \cup (All \ (Decided' \cup Claimed))
    BY <1>3, <1>4, <1>5
  <2> QED BY <1>4, <1>5, <1>6, <2>1, <2>2, <2>3, OneSlotChanges DEF PoolInv
<1>8. \A v \in Workers :
        /\ pool'[v].at \in {"settled", "running", "published"} \/ pool[v].at \in {"settled", "running", "published"}
             => pool'[v] = pool[v]
  BY <1>2, <1>4, <1>7
<1>9. BusySlots' = BusySlots /\ Publishing' = Publishing
  BY <1>8 DEF BusySlots, Publishing
<1> QED BY <1>2, <1>5, <1>7, <1>8, <1>9 DEF Begun, Reported, Awaited, BusySlots, Publishing

\* A claim is settled, or its command starts.
LEMMA PoolBegins ==
  ASSUME PoolInv, NEW w \in Workers, Settle(w) \/ StartsRunning(w)
  PROVE  /\ PoolInv' /\ outcomes' = outcomes
         /\ pool[w].of \in All /\ pool[w].of \notin Begun /\ pool[w].of \notin Reported
         /\ Begun' = Begun \cup {pool[w].of} /\ BusySlots' = BusySlots \cup {w}
         /\ Reported' = Reported /\ Awaited' = Awaited
<1> DEFINE a == pool[w].of
<1>1. PICK p \in Slot :
        /\ pool' = [pool EXCEPT ![w] = p]
        /\ p.at \in {"settled", "running"} /\ p.of = a /\ p.next = pool[w].next
        /\ p.at = "settled" => p.result \notin RunResults /\ p.result # None
  <2>0. pool[w] \in Slot /\ pool \in [Workers -> Slot] /\ pool[w].at = "claimed"
    BY DEF PoolInv, Settle, StartsRunning, At
  <2>1. CASE Settle(w)
    <3>1. PICK r \in {"skipped", "cached", "failed"} :
            pool' = [pool EXCEPT ![w].at = "settled", ![w].result = r]
      BY <2>1 DEF Settle
    <3> DEFINE p == [pool[w] EXCEPT !.at = "settled", !.result = r]
    <3>2. p \in Slot /\ pool' = [pool EXCEPT ![w] = p]
      BY <2>0, <3>1 DEF Slot, ActionResults
    <3>3. r \notin RunResults /\ r # None
      BY ProgressAssumption DEF RunResults, ActionResults
    <3>4. p.at = "settled" /\ p.of = a /\ p.next = pool[w].next /\ p.result = r
      BY <2>0 DEF Slot
    <3> QED BY <3>2, <3>3, <3>4
  <2>2. CASE StartsRunning(w)
    <3>1. pool' = [pool EXCEPT ![w].at = "running"]
      BY <2>2 DEF StartsRunning
    <3> DEFINE p == [pool[w] EXCEPT !.at = "running"]
    <3>2. p \in Slot /\ pool' = [pool EXCEPT ![w] = p]
      BY <2>0, <3>1 DEF Slot
    <3>3. p.at = "running" /\ p.of = a /\ p.next = pool[w].next
      BY <2>0 DEF Slot
    <3> QED BY <3>2, <3>3
  <2> QED BY <2>1, <2>2
<1>2. pool[w].at = "claimed" /\ UNCHANGED <<runVars, outcomes>>
  BY DEF Settle, StartsRunning, At
<1>3. a \in All /\ a \notin Decided /\ pool[w].next = None /\ a # None
  BY <1>2, AllHas DEF PoolInv, SlotSound
<1>4. Decided' = Decided /\ All' = All /\ certified' = certified
  BY <1>2 DEF Decided, All, runVars
<1>5. SlotSound(p)'
  BY <1>1, <1>3, <1>4 DEF SlotSound
<1>6. PoolInv' /\ pool'[w] = p /\ \A v \in Workers : v # w => pool'[v] = pool[v]
  <2>1. UNCHANGED <<invocation, closure, certified, outcomes>>
    BY <1>2 DEF runVars
  <2>2. {p.of, p.next} \subseteq {pool[w].of, pool[w].next, None} \cup (All \ (Decided' \cup Claimed))
    BY <1>1
  <2> QED BY <1>1, <1>4, <1>5, <2>1, <2>2, OneSlotChanges DEF PoolInv
<1>7. \A v \in Workers : v # w => pool[v].of # a
  BY <1>3 DEF PoolInv, SlotsApart
<1>8. a \notin Begun /\ a \notin Reported
  BY <1>2, <1>3, <1>7 DEF Begun, Reported, BusySlots
<1>9. BusySlots' = BusySlots \cup {w}
  BY <1>1, <1>6 DEF BusySlots
<1>10. Begun' = Begun \cup {a}
  <2>1. \A v \in BusySlots : v # w /\ pool'[v].of = pool[v].of
    BY <1>2, <1>6 DEF BusySlots
  <2> QED BY <1>1, <1>4, <1>6, <1>9, <2>1 DEF Begun
<1>11. Publishing' = Publishing /\ \A v \in Publishing : pool'[v] = pool[v]
  BY <1>1, <1>2, <1>6 DEF Publishing
<1>12. Reported' = Reported /\ Awaited' = Awaited
  BY <1>4, <1>11 DEF Reported, Awaited
<1> QED BY <1>2, <1>3, <1>6, <1>8, <1>9, <1>10, <1>12

\* An action is decided, under the lock.
LEMMA PoolDecides ==
  ASSUME PoolInv, NEW w \in Workers, NEW result \in ActionResults,
         pool[w].at \in {"settled", "running"}, Decides(w, result)
  PROVE  /\ PoolInv' /\ \A a \in Reported : outcomes'[a] = outcomes[a]
         /\ pool[w].of \in Buildable
         /\ Begun' = Begun /\ BusySlots' = BusySlots /\ Reported' = Reported
         /\ \A a \in Awaited' : a \in Awaited \/ (result \in RunResults /\ a = pool[w].of)
<1> DEFINE a == pool[w].of
           decided == Decided \cup {a}
<1>0. pool[w] \in Slot /\ pool \in [Workers -> Slot] /\ UNCHANGED runVars
  BY DEF PoolInv, Decides
<1>1. a \in All /\ a \notin Decided /\ a # None /\ IsFiniteSet(All) /\ All \subseteq Buildable
  BY AllHas DEF PoolInv, SlotSound
<1>2. outcomes' = [b \in decided |-> IF b = a THEN result ELSE outcomes[b]]
  BY DEF Decides
<1>3. Decided' = decided /\ All' = All /\ certified' = certified
  BY <1>0, <1>2 DEF Decided, All, runVars
<1>4. /\ outcomes' \in [decided -> ActionResults] /\ outcomes'[a] = result
      /\ \A b \in Decided : outcomes'[b] = outcomes[b]
  BY <1>1, <1>2 DEF PoolInv
<1>5. PICK b \in {None} \cup (All \ (decided \cup Claimed)) :
        pool' = [pool EXCEPT ![w].at = "published", ![w].result = result, ![w].next = b,
                             ![w].completed = Cardinality(decided)]
  BY DEF Decides
<1>6. Cardinality(decided) \in Nat
  <2>1. decided \subseteq All
    BY <1>1 DEF PoolInv
  <2> QED BY <1>1, <2>1, FS_Subset, FS_CardinalityType
<1>7. b \in Buildable \cup {None}
  BY <1>1, <1>5
<1>8. PICK p \in Slot :
        /\ pool' = [pool EXCEPT ![w] = p]
        /\ p.at = "published" /\ p.of = a /\ p.result = result /\ p.next = b
  <2> DEFINE q == [pool[w] EXCEPT !.at = "published", !.result = result, !.next = b,
                                  !.completed = Cardinality(decided)]
  <2> HIDE DEF decided
  <2>1. /\ q \in Slot /\ pool' = [pool EXCEPT ![w] = q]
        /\ q.at = "published" /\ q.of = a /\ q.result = result /\ q.next = b
    BY <1>0, <1>5, <1>6, <1>7 DEF Slot
  <2> QED BY <2>1
<1>9. SlotSound(p)'
  <2>1. a \notin certified
    BY <1>1 DEF PoolInv
  <2>2. b \notin decided
    BY <1>1, <1>5, AllHas DEF PoolInv
  <2>3. a \in decided /\ b \in All \cup {None}
    BY <1>5
  <2> QED BY <1>1, <1>3, <1>4, <1>8, <2>1, <2>2, <2>3 DEF SlotSound
<1>10. PoolInv' /\ pool'[w] = p /\ \A v \in Workers : v # w => pool'[v] = pool[v]
  <2>1. UNCHANGED <<invocation, closure, certified>>
    BY <1>0 DEF runVars
  <2>2. {p.of, p.next} \subseteq {pool[w].of, pool[w].next, None} \cup (All \ (Decided' \cup Claimed))
    BY <1>3, <1>5, <1>8
  <2>3. Decided' \subseteq All /\ \A c \in Decided' : c \in Decided \/ c = pool[w].of
    BY <1>1, <1>3 DEF PoolInv
  <2> QED BY <1>3, <1>4, <1>8, <1>9, <2>1, <2>2, <2>3, OneSlotChanges DEF PoolInv
<1>11. /\ BusySlots' = BusySlots /\ w \in BusySlots /\ Publishing' = Publishing \cup {w}
       /\ w \notin Publishing
  BY <1>8, <1>10 DEF BusySlots, Publishing
<1>12. \A v \in Workers : pool'[v].of = pool[v].of
  BY <1>8, <1>10
<1>13. Begun' = Begun
  BY <1>1, <1>3, <1>11, <1>12 DEF Begun, BusySlots, PoolInv
<1>14. Reported' = Reported
  BY <1>1, <1>3, <1>11, <1>12 DEF Reported, Publishing
<1>15. ASSUME NEW c \in Awaited' PROVE c \in Awaited \/ (result \in RunResults /\ c = a)
  <2>1. PICK v \in Workers :
          v \in Publishing' /\ pool'[v].result \in RunResults /\ pool'[v].of = c
    BY DEF Awaited, Publishing
  <2>2. CASE v = w
    BY <1>8, <1>10, <2>1, <2>2
  <2>3. CASE v # w
    BY <1>10, <1>11, <2>1, <2>3 DEF Awaited
  <2> QED BY <2>2, <2>3
<1>16. \A c \in Reported : outcomes'[c] = outcomes[c]
  BY <1>4 DEF Reported
<1> QED BY <1>1, <1>10, <1>11, <1>13, <1>14, <1>15, <1>16

\* A slot that is done reports its action, and may have claimed another.
LEMMA PoolFinish ==
  ASSUME PoolInv, NEW w \in Workers, Finish(w)
  PROVE  /\ PoolInv' /\ outcomes' = outcomes
         /\ pool[w].of \in Decided /\ pool[w].of \in Buildable /\ pool[w].of \notin Reported
         /\ pool[w].result = outcomes[pool[w].of] /\ pool[w].result \in ActionResults
         /\ pool[w].completed \in Nat
         /\ pool[w].result \in RunResults => pool[w].of \in Awaited
         /\ Begun' = Begun /\ BusySlots' = BusySlots \ {w}
         /\ Reported' = Reported \cup {pool[w].of} /\ Awaited' \subseteq Awaited
<1> DEFINE a == pool[w].of
           q == IF pool[w].next = None THEN IdleSlot
                ELSE [IdleSlot EXCEPT !.at = "claimed", !.of = pool[w].next]
<1>1. /\ pool[w] \in Slot /\ pool \in [Workers -> Slot] /\ pool[w].at = "published"
      /\ UNCHANGED <<runVars, outcomes>> /\ pool' = [pool EXCEPT ![w] = q]
  BY DEF PoolInv, Finish, At
<1>2. /\ a \in All /\ a \in Decided /\ a \notin certified /\ outcomes[a] = pool[w].result
      /\ pool[w].next \notin Decided /\ pool[w].next \in All \cup {None}
  BY <1>1 DEF PoolInv, SlotSound
<1>3. Decided' = Decided /\ All' = All /\ certified' = certified
  BY <1>1 DEF Decided, All, runVars
<1>4. a # None /\ All \subseteq Buildable /\ None \notin All
  BY <1>2, AllHas DEF PoolInv
<1>5. PICK p \in Slot :
        /\ pool' = [pool EXCEPT ![w] = p] /\ p.next = None /\ p.at \in {"idle", "claimed"}
        /\ p.at = "idle" => p = IdleSlot
        /\ p.at = "claimed" => p.of = pool[w].next /\ p.of # None
        /\ p.of \in {None, pool[w].next}
  <2>1. CASE pool[w].next = None
    <3>1. q = IdleSlot
      BY <2>1
    <3>2. IdleSlot \in Slot /\ IdleSlot.next = None /\ IdleSlot.at = "idle" /\ IdleSlot.of = None
      BY DEF IdleSlot, Slot
    <3> QED BY <1>1, <3>1, <3>2
  <2>2. CASE pool[w].next # None
    <3>1. /\ q \in Slot /\ q.next = None /\ q.at = "claimed" /\ q.of = pool[w].next
      BY <1>2, <1>4, <2>2 DEF IdleSlot, Slot
    <3> QED BY <1>1, <2>2, <3>1
  <2> QED BY <2>1, <2>2
<1> HIDE DEF q
<1>6. SlotSound(p)'
  BY <1>2, <1>3, <1>5 DEF SlotSound, IdleSlot
<1>7. PoolInv' /\ pool'[w] = p /\ \A v \in Workers : v # w => pool'[v] = pool[v]
  <2>1. UNCHANGED <<invocation, closure, certified, outcomes>>
    BY <1>1 DEF runVars
  <2>2. {p.of, p.next} \subseteq {pool[w].of, pool[w].next, None} \cup (All \ (Decided' \cup Claimed))
    BY <1>5
  <2> QED BY <1>1, <1>3, <1>5, <1>6, <2>1, <2>2, OneSlotChanges DEF PoolInv
<1>8. /\ BusySlots' = BusySlots \ {w} /\ w \in BusySlots
      /\ Publishing' = Publishing \ {w} /\ w \in Publishing
  BY <1>1, <1>5, <1>7 DEF BusySlots, Publishing
<1>9. Begun' = Begun
  <2>1. \A v \in BusySlots : v = w \/ pool'[v].of = pool[v].of
    BY <1>7 DEF BusySlots
  <2> QED BY <1>2, <1>3, <1>8, <2>1 DEF Begun
<1>10. \A v \in Publishing : v # w => pool[v].of # a /\ pool'[v] = pool[v]
  BY <1>4, <1>7 DEF PoolInv, SlotsApart, Publishing
<1>11. a \notin Reported
  BY <1>8 DEF Reported
<1>12. Reported' = Reported \cup {a}
  BY <1>2, <1>3, <1>8, <1>10 DEF Reported
<1>13. Awaited' \subseteq Awaited
  BY <1>8, <1>10 DEF Awaited
<1>14. pool[w].result \in RunResults => a \in Awaited
  BY <1>8 DEF Awaited
<1>15. pool[w].result \in ActionResults /\ pool[w].completed \in Nat
  BY <1>1, <1>2 DEF PoolInv, Slot
<1> QED BY <1>1, <1>2, <1>4, <1>7, <1>8, <1>9, <1>11, <1>12, <1>13, <1>14, <1>15

\* What is said, shown and printed of a build.
Said(told, s, d, begun, reported, known, busy, awaited) ==
  /\ LogInv(told, s, begun, reported, known) /\ d \in Displays
  /\ d.on # "plain" => LiveInv(d, s, begun, reported, known, busy)
  /\ d.on # "live" => PlainInv(d, s, reported, known, awaited)

\* An event may follow when what it says is so from then on, and was not said before.
MayFollow(e, b, r, known, busy, awaited, b2, r2, known2, busy2, awaited2) ==
  /\ e \in ProgressEvents /\ b \subseteq b2 /\ r \subseteq r2 /\ \A a \in r : known2[a] = known[a]
  /\ Truthful(e, b2, r2, known2)
  /\ e.event = "action_started" => e.of \notin b /\ e.of \notin r
  /\ e.event \in {"action_started", "action_running"} => e.slot \in busy2
  /\ e.event = "action_finished" => e.of \notin r /\ (e.result \in RunResults => e.of \in awaited)
  /\ \A a \in b2 : a \in b \/ (e.event = "action_started" /\ e.of = a)
  /\ \A a \in r2 : a \in r \/ (e.event = "action_finished" /\ e.of = a)
  /\ \A w \in busy : w \in busy2 \/ (e.event = "action_finished" /\ e.slot = w)
  /\ \A a \in awaited2 : a \in awaited \/ (e.event = "action_output" /\ e.of = a)
OwnRow(e, s, d) ==
  e.event = "action_running" =>
    /\ \A i \in DOMAIN s :
         s[i].event = "action_started" /\ s[i].of = e.of => s[i].slot = e.slot
    /\ d.on # "plain" => \A w \in Workers : d.rows[w].of = e.of => w = e.slot

Unclosed(told, s) == NotClosed(s) /\ NotClosed(LogOf(told, s))
IsClosed(told, s, success) == Closed(s, success) /\ Closed(LogOf(told, s), success)

LEMMA SaidGrows ==
  ASSUME NEW told, NEW s, NEW d, NEW e,
         NEW b, NEW r, NEW known, NEW busy, NEW awaited,
         NEW b2, NEW r2, NEW known2, NEW busy2, NEW awaited2,
         Said(told, s, d, b, r, known, busy, awaited),
         MayFollow(e, b, r, known, busy, awaited, b2, r2, known2, busy2, awaited2),
         OwnRow(e, s, d)
  PROVE  /\ Said(told, Append(s, e), d, b2, r2, known2, busy2, awaited2)
         /\ Unclosed(told, s) /\ e.event # "build_finished" => Unclosed(told, Append(s, e))
         /\ \A success : Unclosed(told, s) /\ e = BuildFinished(success) =>
              IsClosed(told, Append(s, e), success)
<1>1. LogInv(told, s, b, r, known) /\ s \in Seq(ProgressEvents) /\ told \in Streams
  BY DEF Said, LogInv
<1>2. e \in ProgressEvents
  BY DEF MayFollow
<1>3. /\ LogInv(told, Append(s, e), b2, r2, known2)
      /\ LogOf(told, Append(s, e)) = Append(LogOf(told, s), e)
  <2>1. /\ b \subseteq b2 /\ r \subseteq r2 /\ \A a \in r : known2[a] = known[a]
        /\ Truthful(e, b2, r2, known2)
        /\ e.event = "action_started" => e.of \notin b /\ e.of \notin r
        /\ e.event = "action_finished" => e.of \notin r
        /\ \A a \in b2 : a \in b \/ (e.event = "action_started" /\ e.of = a)
        /\ \A a \in r2 : a \in r \/ (e.event = "action_finished" /\ e.of = a)
    BY DEF MayFollow
  <2> QED BY ONLY <1>1, <1>2, <2>1, LogInvGrows
<1>4. \A i \in DOMAIN s : Truthful(s[i], b, r, known)
  BY <1>1, SentHas
<1>5. ASSUME d.on # "plain", LiveInv(d, s, b, r, known, busy)
      PROVE  LiveInv(d, Append(s, e), b2, r2, known2, busy2)
  <2>1. /\ b \subseteq b2 /\ r \subseteq r2 /\ \A a \in r : known2[a] = known[a]
        /\ e.event = "action_finished" => e.of \notin r
        /\ \A a \in r2 : a \in r \/ (e.event = "action_finished" /\ e.of = a)
        /\ \A w \in busy : w \in busy2 \/ (e.event = "action_finished" /\ e.slot = w)
        /\ e.event \in {"action_started", "action_running"} => e.slot \in busy2
    BY DEF MayFollow
  <2>2. e.event = "action_started" =>
          \A i \in DOMAIN s : s[i].event = "action_running" => s[i].of # e.of
    BY <1>4 DEF MayFollow, Truthful
  <2>3. e.event = "action_running" =>
          /\ \A i \in DOMAIN s :
               s[i].event = "action_started" /\ s[i].of = e.of => s[i].slot = e.slot
          /\ \A w \in Workers : d.rows[w].of = e.of => w = e.slot
    BY <1>5 DEF OwnRow
  <2> QED BY ONLY <1>1, <1>2, <1>5, <2>1, <2>2, <2>3, LiveGrows
<1>6. ASSUME PlainInv(d, s, r, known, awaited)
      PROVE  PlainInv(d, Append(s, e), r2, known2, awaited2)
  <2>1. /\ r \subseteq r2 /\ \A a \in r : known2[a] = known[a]
        /\ e.event = "action_finished" => e.of \notin r
        /\ \A a \in r2 : a \in r \/ (e.event = "action_finished" /\ e.of = a)
        /\ \A a \in awaited2 : a \in awaited \/ (e.event = "action_output" /\ e.of = a)
        /\ e.event = "action_finished" /\ e.result \in RunResults => e.of \in awaited
    BY DEF MayFollow
  <2> QED BY ONLY <1>1, <1>2, <1>6, <2>1, PlainGrows
<1>7. Said(told, Append(s, e), d, b2, r2, known2, busy2, awaited2)
  BY <1>3, <1>5, <1>6 DEF Said
<1>8. LogOf(told, s) \in Seq(ProgressEvents)
  BY <1>1, <1>2, LogAppend
<1>9. NotClosed(s) =>
        /\ \A success : e = BuildFinished(success) => Closed(Append(s, e), success)
        /\ e.event # "build_finished" => NotClosed(Append(s, e))
  BY <1>1, <1>2, ClosedGrows
<1> DEFINE l == LogOf(told, s)
<1>10. NotClosed(l) =>
        /\ \A success : e = BuildFinished(success) => Closed(Append(l, e), success)
        /\ e.event # "build_finished" => NotClosed(Append(l, e))
  <2>1. l \in Seq(ProgressEvents)
    BY <1>8
  <2> HIDE DEF l
  <2> QED BY <1>2, <2>1, ClosedGrows
<1> QED BY <1>3, <1>7, <1>9, <1>10 DEF Unclosed, IsClosed

\* The display has shown a build that is closed.
ToldSuccess(d, s, success) == s = <<>> => d.on # None /\ (d.on = "live" => d.success = success)

HeadShown(told, s, d, after, d2) ==
  /\ d2 = IF d.on = "live" THEN Shown(d, s[1]) ELSE Printed(d, s[1])
  /\ after = Write(told, s[1])
Keeps(told, s, after, d2) ==
  /\ after = None <=> told = None
  /\ Unclosed(told, s) => Unclosed(after, Tail(s))
  /\ \A success :
       /\ told # None /\ Closed(LogOf(told, s), success) =>
            Closed(LogOf(after, Tail(s)), success)
       /\ Closed(s, success) =>
            /\ Tail(s) # <<>> => Closed(Tail(s), success)
            /\ ToldSuccess(d2, Tail(s), success)

LEMMA SaidReceived ==
  ASSUME NEW told, NEW s, s # <<>>, NEW d, NEW b \in SUBSET Buildable,
         NEW r \in SUBSET Buildable, IsFiniteSet(r), NEW known, NEW busy, NEW awaited,
         awaited \cap r = {}, Said(told, s, d, b, r, known, busy, awaited),
         d.on \in {"live", "plain"}, NEW d2, NEW after, HeadShown(told, s, d, after, d2)
  PROVE  /\ Said(after, Tail(s), d2, b, r, known, busy, awaited)
         /\ d2.on = d.on /\ Keeps(told, s, after, d2)
<1> USE DEF HeadShown, Keeps
<1>1. /\ LogInv(told, s, b, r, known) /\ s \in Seq(ProgressEvents) /\ d \in Displays
  BY DEF Said, LogInv
<1>2. /\ LogInv(after, Tail(s), b, r, known) /\ (after = None <=> told = None)
      /\ NotClosed(LogOf(told, s)) => NotClosed(LogOf(after, Tail(s)))
      /\ told # None => \A success :
           Closed(LogOf(told, s), success) => Closed(LogOf(after, Tail(s)), success)
  BY <1>1, LogInvReceives
<1>3. /\ NotClosed(s) => NotClosed(Tail(s)) /\ s[1].event # "build_finished"
      /\ \A success : Closed(s, success) =>
           /\ Tail(s) # <<>> => Closed(Tail(s), success) /\ s[1].event # "build_finished"
           /\ Tail(s) = <<>> => s[1] = BuildFinished(success)
  BY <1>1, ClosedTail
<1>4. CASE d.on = "live"
  <2>1. LiveInv(d, s, b, r, known, busy) /\ d2 = Shown(d, s[1])
    BY <1>4 DEF Said
  <2>2. /\ LiveInv(d2, Tail(s), b, r, known, busy)
        /\ d2 \in Displays /\ d2.on = d.on
        /\ s[1].event = "build_finished" => d2.success = s[1].success
    <3>1. s # <<>> /\ b \in SUBSET Buildable /\ IsFiniteSet(r)
      OBVIOUS
    <3> QED BY ONLY <1>1, <2>1, <3>1, LiveShown
  <2>3. Said(after, Tail(s), d2, b, r, known, busy, awaited)
    BY <1>2, <1>4, <2>2 DEF Said
  <2>4. ASSUME NEW success, Closed(s, success) PROVE ToldSuccess(d2, Tail(s), success)
    <3>1. ASSUME Tail(s) = <<>> PROVE d2.success = success
      <4>1. s[1] = BuildFinished(success)
        BY <1>3, <2>4, <3>1
      <4>2. s[1].event = "build_finished" /\ s[1].success = success
        BY <4>1 DEF BuildFinished
      <4> QED BY <2>2, <4>2
    <3>2. d2.on # None
      BY <1>4, <2>2, ProgressAssumption
    <3> QED BY <3>1, <3>2 DEF ToldSuccess
  <2> QED BY <1>2, <1>3, <2>2, <2>3, <2>4 DEF Unclosed
<1>5. CASE d.on = "plain"
  <2>1. PlainInv(d, s, r, known, awaited) /\ d2 = Printed(d, s[1])
    BY <1>5 DEF Said
  <2>2. PlainInv(d2, Tail(s), r, known, awaited) /\ d2 \in Displays /\ d2.on = d.on
    <3>1. s # <<>> /\ r \in SUBSET Buildable /\ IsFiniteSet(r) /\ awaited \cap r = {}
      OBVIOUS
    <3> QED BY ONLY <1>1, <2>1, <3>1, PlainPrinted
  <2>3. Said(after, Tail(s), d2, b, r, known, busy, awaited)
    BY <1>2, <1>5, <2>2 DEF Said
  <2>4. \A success : ToldSuccess(d2, Tail(s), success)
    BY <1>5, <2>2, ProgressAssumption DEF ToldSuccess
  <2> QED BY <1>2, <1>3, <2>2, <2>3, <2>4 DEF Unclosed
<1> QED BY <1>4, <1>5

\* The pool and all that is said of it, until the last event and after it.
Closing ==
  IF phase = "work" THEN Unclosed(stream, sent)
  ELSE /\ stream # None => Closed(Log, Success)
       /\ sent # <<>> => Closed(sent, Success)
       /\ ToldSuccess(display, sent, Success)
WorkInv ==
  /\ PoolInv /\ (stream = None <=> ~invocation.events)
  /\ Said(stream, sent, display, Begun, Reported, outcomes, BusySlots, Awaited)
  /\ display.on = "live" => invocation.live
  /\ Closing
  /\ phase # "work" => \A w \in Workers : pool[w].at = "idle"

LEMMA SaidNext ==
  ASSUME UNCHANGED <<invocation, closure>>,
         Said(stream', sent', display', Begun', Reported', outcomes', BusySlots', Awaited')
  PROVE  Said(stream, sent, display, Begun, Reported, outcomes, BusySlots, Awaited)'
<1>1. BuildStarted' = BuildStarted /\ (ReadsHits' <=> ReadsHits)
  BY DEF BuildStarted, Total, All, ReadsHits
<1>2. LogInv(stream', sent', Begun', Reported', outcomes')
      => LogInv(stream, sent, Begun, Reported, outcomes)'
  BY <1>1 DEF LogInv
<1>3. LiveInv(display', sent', Begun', Reported', outcomes', BusySlots')
      => LiveInv(display, sent, Begun, Reported, outcomes, BusySlots)'
  BY <1>1 DEF LiveInv
<1> QED BY <1>2, <1>3 DEF Said

\* A step of the pool that says one thing, and one that says nothing.
PoolFollows(e) ==
  MayFollow(e, Begun, Reported, outcomes, BusySlots, Awaited,
          Begun', Reported', outcomes', BusySlots', Awaited')

LEMMA WorkSays ==
  ASSUME WorkInv, PoolInv', phase = "work", UNCHANGED <<invocation, closure, phase, showVars>>,
         NEW e, sent' = Append(sent, e), PoolFollows(e), OwnRow(e, sent, display),
         e.event # "build_finished"
  PROVE  WorkInv'
<1>1. /\ Said(stream, sent, display, Begun, Reported, outcomes, BusySlots, Awaited)
      /\ Unclosed(stream, sent)
  BY DEF WorkInv, Closing
<1>2. MayFollow(e, Begun, Reported, outcomes, BusySlots, Awaited,
              Begun', Reported', outcomes', BusySlots', Awaited')
  BY DEF PoolFollows
<1>3. /\ Said(stream, Append(sent, e), display, Begun', Reported', outcomes', BusySlots', Awaited')
      /\ Unclosed(stream, Append(sent, e))
  BY ONLY <1>1, <1>2, OwnRow(e, sent, display), e.event # "build_finished", SaidGrows
<1>4. stream' = stream /\ display' = display /\ phase' = "work"
  BY DEF showVars
<1>5. Said(stream, sent, display, Begun, Reported, outcomes, BusySlots, Awaited)'
  BY <1>3, <1>4, SaidNext
<1>6. Unclosed(stream', sent')
  BY <1>3, <1>4
<1> QED BY <1>4, <1>5, <1>6 DEF WorkInv, Closing

LEMMA WorkIsSilent ==
  ASSUME WorkInv, PoolInv', phase = "work",
         UNCHANGED <<invocation, closure, phase, showVars, sent>>,
         \A a \in Reported : outcomes'[a] = outcomes[a],
         Begun' = Begun, Reported' = Reported, BusySlots' = BusySlots, Awaited' \subseteq Awaited
  PROVE  WorkInv'
<1>1. /\ Said(stream, sent, display, Begun, Reported, outcomes, BusySlots, Awaited)
      /\ Unclosed(stream, sent)
  BY DEF WorkInv, Closing
<1>2. LogInv(stream, sent, Begun, Reported, outcomes')
  BY <1>1, LogInvStays DEF Said
<1>3. LiveInv(display, sent, Begun, Reported, outcomes, BusySlots)
      => LiveInv(display, sent, Begun, Reported, outcomes', BusySlots)
  BY ShowsStay
<1>4. PlainInv(display, sent, Reported, outcomes, Awaited)
      => PlainInv(display, sent, Reported, outcomes', Awaited')
  <2>1. PlainInv(display, sent, Reported, outcomes, Awaited)
        => PlainInv(display, sent, Reported, outcomes', Awaited)
    BY ShowsStay
  <2> QED BY <2>1 DEF PlainInv, OutputsSound
<1>5. Said(stream, sent, display, Begun, Reported, outcomes', BusySlots, Awaited')
  BY <1>1, <1>2, <1>3, <1>4 DEF Said
<1>6. stream' = stream /\ display' = display /\ sent' = sent /\ phase' = "work"
  BY DEF showVars
<1>7. Said(stream, sent, display, Begun, Reported, outcomes, BusySlots, Awaited)'
  BY <1>5, <1>6, SaidNext
<1>8. Unclosed(stream', sent')
  BY <1>1, <1>6
<1> QED BY <1>6, <1>7, <1>8 DEF WorkInv, Closing

LEMMA WorkClaim == ASSUME WorkInv, NEW w \in Workers, Claim(w) PROVE WorkInv'
<1>1. /\ PoolInv' /\ Begun' = Begun /\ Reported' = Reported /\ Awaited' = Awaited
      /\ BusySlots' = BusySlots /\ outcomes' = outcomes
  BY PoolClaim DEF WorkInv
<1>2. phase = "work" /\ UNCHANGED <<invocation, closure, phase, showVars, sent>>
  BY DEF Claim, At, runVars
<1> QED BY <1>1, <1>2, WorkIsSilent

LEMMA BeginsFollow ==
  ASSUME PoolInv, NEW w \in Workers, Settle(w) \/ StartsRunning(w)
  PROVE  /\ PoolFollows(Of("action_started", pool[w].of, w))
         /\ Of("action_started", pool[w].of, w) \in ProgressEvents
         /\ Of("action_running", pool[w].of, w) \in ProgressEvents
<1>1. /\ outcomes' = outcomes
      /\ pool[w].of \in All /\ pool[w].of \notin Begun /\ pool[w].of \notin Reported
      /\ Begun' = Begun \cup {pool[w].of} /\ BusySlots' = BusySlots \cup {w}
      /\ Reported' = Reported /\ Awaited' = Awaited
  BY PoolBegins
<1>2. pool[w].of \in Buildable
  BY <1>1, PoolSets
<1> DEFINE e == Of("action_started", pool[w].of, w)
<1>3. /\ e \in ProgressEvents /\ Of("action_running", pool[w].of, w) \in ProgressEvents
      /\ e.event = "action_started" /\ e.of = pool[w].of /\ e.slot = w
  BY <1>2 DEF Of, ProgressEvents
<1> HIDE DEF e
<1>4. PoolFollows(e)
  BY <1>1, <1>3 DEF PoolFollows, MayFollow, Truthful
<1> QED BY <1>3, <1>4 DEF e

LEMMA WorkSettle == ASSUME WorkInv, NEW w \in Workers, Settle(w) PROVE WorkInv'
<1> DEFINE e == Of("action_started", pool[w].of, w)
<1>1. PoolInv /\ PoolInv' /\ PoolFollows(e)
  BY PoolBegins, BeginsFollow DEF WorkInv
<1>2. /\ phase = "work" /\ UNCHANGED <<invocation, closure, phase, showVars>>
      /\ sent' = Append(sent, e)
  BY DEF Settle, At, runVars, Emit
<1>3. e.event = "action_started"
  BY DEF Of
<1> HIDE DEF e
<1>4. OwnRow(e, sent, display) /\ e.event # "build_finished"
  BY <1>3 DEF OwnRow
<1> QED BY <1>1, <1>2, <1>4, WorkSays

LEMMA WorkDecide == ASSUME WorkInv, NEW w \in Workers, Decide(w) PROVE WorkInv'
<1>1. /\ phase = "work" /\ UNCHANGED <<invocation, closure, phase, showVars, sent>>
      /\ pool[w].at = "settled" /\ Decides(w, pool[w].result)
  BY DEF Decide, At, Decides, runVars
<1>2. PoolInv /\ pool[w].result \in ActionResults /\ pool[w].result \notin RunResults
  BY <1>1 DEF WorkInv, PoolInv, SlotSound, Slot
<1>3. /\ PoolInv' /\ \A a \in Reported : outcomes'[a] = outcomes[a]
      /\ Begun' = Begun /\ BusySlots' = BusySlots /\ Reported' = Reported
      /\ Awaited' \subseteq Awaited
  BY <1>1, <1>2, PoolDecides
<1> QED BY <1>1, <1>3, WorkIsSilent

LEMMA WorkRunCommands == ASSUME WorkInv, NEW w \in Workers, RunCommands(w) PROVE WorkInv'
<1> DEFINE a == pool[w].of
<1>1. PICK r \in (May[a] \ {"cached"}) \cup (IF interrupted THEN {"failed"} ELSE {}) :
        /\ Decides(w, r)
        /\ IF r = "failed" THEN sent' = sent ELSE Emit(Of("action_output", a, w))
  BY DEF RunCommands
<1>2. /\ phase = "work" /\ UNCHANGED <<invocation, closure, phase, showVars>>
      /\ pool[w].at = "running"
  BY <1>1 DEF RunCommands, At, Decides, runVars
<1>3. PoolInv /\ a \in Buildable
  BY <1>2, AllHas DEF WorkInv, PoolInv, SlotSound
<1>4. r \in {"executed", "flaky", "failed"}
  <2>1. May[a] \subseteq ActionResults \ {"skipped"}
    BY <1>3, ProgressAssumption
  <2> QED BY <1>1, <2>1 DEF ActionResults
<1>5. /\ PoolInv' /\ \A b \in Reported : outcomes'[b] = outcomes[b]
      /\ Begun' = Begun /\ BusySlots' = BusySlots /\ Reported' = Reported
      /\ \A b \in Awaited' : b \in Awaited \/ (r \in RunResults /\ b = a)
  <2>1. r \in ActionResults /\ pool[w].at \in {"settled", "running"}
    BY <1>2, <1>4 DEF ActionResults
  <2> QED BY <1>1, <1>3, <2>1, PoolDecides
<1>6. CASE r = "failed"
  <2>1. Awaited' \subseteq Awaited /\ sent' = sent
    BY <1>1, <1>5, <1>6 DEF RunResults
  <2> QED BY <1>2, <1>5, <2>1, WorkIsSilent
<1>7. CASE r # "failed"
  <2> DEFINE e == Of("action_output", a, w)
  <2>1. sent' = Append(sent, e)
    BY <1>1, <1>7 DEF Emit
  <2>2. e \in ProgressEvents /\ e.event = "action_output" /\ e.of = a
    BY <1>3 DEF Of, ProgressEvents
  <2> HIDE DEF e
  <2>3. OwnRow(e, sent, display) /\ e.event # "build_finished"
    BY <2>2 DEF OwnRow
  <2>4. PoolFollows(e)
    BY <1>5, <2>2 DEF PoolFollows, MayFollow, Truthful
  <2> QED BY <1>2, <1>5, <2>1, <2>3, <2>4, WorkSays
<1> QED BY <1>6, <1>7

LEMMA WorkFinish == ASSUME WorkInv, NEW w \in Workers, Finish(w) PROVE WorkInv'
<1> DEFINE p == pool[w]
           e == ActionFinished(p.of, p.result, p.completed, w)
<1>1. /\ PoolInv' /\ outcomes' = outcomes
      /\ p.of \in Decided /\ p.of \in Buildable /\ p.of \notin Reported
      /\ p.result = outcomes[p.of] /\ p.result \in ActionResults /\ p.completed \in Nat
      /\ p.result \in RunResults => p.of \in Awaited
      /\ Begun' = Begun /\ BusySlots' = BusySlots \ {w}
      /\ Reported' = Reported \cup {p.of} /\ Awaited' \subseteq Awaited
  BY PoolFinish DEF WorkInv
<1>2. /\ phase = "work" /\ UNCHANGED <<invocation, closure, phase, showVars>>
      /\ sent' = Append(sent, e)
  BY DEF Finish, At, runVars, Emit
<1>3. /\ e \in ProgressEvents /\ e.event = "action_finished" /\ e.of = p.of
      /\ e.result = p.result /\ e.slot = w
  BY <1>1 DEF ActionFinished, ProgressEvents
<1> HIDE DEF e
<1>4. OwnRow(e, sent, display) /\ e.event # "build_finished"
  BY <1>3 DEF OwnRow
<1>5. PoolFollows(e)
  BY <1>1, <1>3 DEF PoolFollows, MayFollow, Truthful
<1> QED BY <1>1, <1>2, <1>4, <1>5, WorkSays

LEMMA WorkStartsRunning == ASSUME WorkInv, NEW w \in Workers, StartsRunning(w) PROVE WorkInv'
<1> DEFINE a == pool[w].of
           e == Of("action_started", a, w)
           f == Of("action_running", a, w)
           s == Append(sent, e)
<1>1. /\ PoolInv /\ PoolInv' /\ outcomes' = outcomes /\ a \notin Begun
      /\ Begun' = Begun \cup {a} /\ BusySlots' = BusySlots \cup {w}
      /\ Reported' = Reported /\ Awaited' = Awaited
  BY PoolBegins DEF WorkInv
<1>2. /\ phase = "work" /\ UNCHANGED <<invocation, closure, phase, showVars>>
      /\ sent' = sent \o <<e, f>>
  BY DEF StartsRunning, At, runVars
<1>3. PoolFollows(e) /\ e \in ProgressEvents /\ f \in ProgressEvents
  BY <1>1, BeginsFollow
<1>4. /\ e.event = "action_started" /\ e.of = a /\ e.slot = w
      /\ f.event = "action_running" /\ f.of = a /\ f.slot = w
  BY DEF Of
<1>5. /\ Said(stream, sent, display, Begun, Reported, outcomes, BusySlots, Awaited)
      /\ Unclosed(stream, sent) /\ sent \in Seq(ProgressEvents)
  BY <1>2 DEF WorkInv, Closing, Said, LogInv
<1>6. sent' = Append(s, f) /\ s \in Seq(ProgressEvents)
  <2> HIDE DEF e, f
  <2>1. sent \o <<e, f>> = Append(Append(sent, e), f)
    BY <1>3, <1>5
  <2> QED BY <1>2, <1>3, <1>5, <2>1
<1> HIDE DEF e, f
<1>7. OwnRow(e, sent, display) /\ e.event # "build_finished"
  BY <1>4 DEF OwnRow
<1>8. MayFollow(e, Begun, Reported, outcomes, BusySlots, Awaited,
              Begun', Reported', outcomes', BusySlots', Awaited')
  BY <1>3 DEF PoolFollows
<1>9. /\ Said(stream, s, display, Begun', Reported', outcomes', BusySlots', Awaited')
      /\ Unclosed(stream, s)
  BY ONLY <1>5, <1>7, <1>8, SaidGrows
<1>10. MayFollow(f, Begun', Reported', outcomes', BusySlots', Awaited',
               Begun', Reported', outcomes', BusySlots', Awaited')
  BY <1>1, <1>3, <1>4 DEF MayFollow, Truthful
<1>11. OwnRow(f, s, display)
  <2>1. \A i \in DOMAIN sent : Truthful(sent[i], Begun, Reported, outcomes)
    BY <1>5, SentHas DEF Said
  <2>2. \A i \in DOMAIN s : s[i].event = "action_started" /\ s[i].of = a => s[i].slot = w
    <3>1. /\ DOMAIN s = DOMAIN sent \cup {Len(s)} /\ s[Len(s)] = e
          /\ \A i \in DOMAIN sent : s[i] = sent[i]
      BY <1>3, <1>5, AppendHas
    <3> HIDE DEF s
    <3> QED BY <1>1, <1>4, <2>1, <3>1 DEF Truthful
  <2>3. ASSUME display.on # "plain" PROVE \A v \in Workers : display.rows[v].of # a
    <3>1. LiveInv(display, sent, Begun, Reported, outcomes, BusySlots)
          => \A v \in Workers : display.rows[v].of # None => display.rows[v].of \in Begun
      BY DEF LiveInv
    <3>2. a # None
      <4>1. a \in All
        BY PoolBegins DEF WorkInv
      <4> QED BY <4>1, <1>1, PoolSets
    <3> QED BY <1>1, <1>5, <2>3, <3>1, <3>2 DEF Said
  <2> QED BY <1>4, <2>2, <2>3 DEF OwnRow
<1>12. /\ Said(stream, Append(s, f), display, Begun', Reported', outcomes', BusySlots', Awaited')
       /\ Unclosed(stream, Append(s, f))
  <2>1. f.event # "build_finished"
    BY <1>4
  <2> HIDE DEF s
  <2> QED BY ONLY <1>9, <1>10, <1>11, <2>1, SaidGrows
<1>13. stream' = stream /\ display' = display /\ phase' = "work"
  BY <1>2 DEF showVars
<1>14. Said(stream, sent, display, Begun, Reported, outcomes, BusySlots, Awaited)'
  BY <1>2, <1>6, <1>12, <1>13, SaidNext
<1>15. Unclosed(stream', sent')
  BY <1>6, <1>12, <1>13
<1> QED BY <1>1, <1>2, <1>13, <1>14, <1>15 DEF WorkInv, Closing

\* The other steps of a build that works, or has worked.
LEMMA WorkSave ==
  ASSUME WorkInv, phase = "work", phase' = "drain", \A w \in Workers : pool[w].at = "idle",
         Emit(BuildFinished(Success)),
         UNCHANGED <<invocation, closure, certified, poolVars, showVars>>
  PROVE  WorkInv'
<1> DEFINE e == BuildFinished(Success)
<1>1. /\ Said(stream, sent, display, Begun, Reported, outcomes, BusySlots, Awaited)
      /\ Unclosed(stream, sent) /\ PoolInv /\ sent \in Seq(ProgressEvents)
  BY DEF WorkInv, Closing, Said, LogInv
<1>2. Success \in BOOLEAN /\ Success' = Success
  BY DEF Success, ResultOf, Decided, All, poolVars
<1>3. /\ e \in ProgressEvents /\ e.event = "build_finished" /\ e = BuildFinished(Success)
      /\ sent' = Append(sent, e)
  BY <1>2 DEF BuildFinished, ProgressEvents, Emit
<1> HIDE DEF e
<1>4. /\ outcomes' = outcomes /\ Begun' = Begun /\ Reported' = Reported
      /\ BusySlots' = BusySlots /\ Awaited' = Awaited /\ pool' = pool
      /\ stream' = stream /\ display' = display
  BY DEF poolVars, showVars, Begun, Reported, BusySlots, Awaited, Publishing, Decided
<1>5. PoolInv'
  BY <1>1, <1>4 DEF PoolInv, SlotSound, SlotsApart, All, Decided
<1>6. MayFollow(e, Begun, Reported, outcomes, BusySlots, Awaited,
              Begun, Reported, outcomes, BusySlots, Awaited)
  BY <1>3 DEF MayFollow, Truthful
<1>7. OwnRow(e, sent, display)
  BY <1>3 DEF OwnRow
<1>8. /\ Said(stream, Append(sent, e), display, Begun, Reported, outcomes, BusySlots, Awaited)
      /\ IsClosed(stream, Append(sent, e), Success)
  BY <1>1, <1>3, <1>6, <1>7, SaidGrows
<1>9. Said(stream, sent, display, Begun, Reported, outcomes, BusySlots, Awaited)'
  BY <1>3, <1>4, <1>8, SaidNext
<1>10. sent' # <<>>
  BY <1>1, <1>3
<1>11. IsClosed(stream', sent', Success')
  BY <1>2, <1>3, <1>4, <1>8
<1>12. Closing'
  BY <1>10, <1>11 DEF Closing, IsClosed, ToldSuccess, Log
<1> QED BY <1>4, <1>5, <1>9, <1>12 DEF WorkInv

LEMMA WorkReceive ==
  ASSUME WorkInv, Receive, display.on = renderer
  PROVE  WorkInv' /\ display'.on = display.on
<1>1. /\ renderer \in {"live", "plain"} /\ sent # <<>> /\ sent' = Tail(sent)
      /\ UNCHANGED <<runVars, poolVars, renderer>>
      /\ display' = IF display.on = "live" THEN Shown(display, Head(sent))
                    ELSE Printed(display, Head(sent))
      /\ stream' = Write(stream, Head(sent))
  BY DEF Receive
<1>2. /\ Said(stream, sent, display, Begun, Reported, outcomes, BusySlots, Awaited)
      /\ PoolInv /\ sent \in Seq(ProgressEvents)
  BY DEF WorkInv, Said, LogInv
<1>3. Head(sent) = sent[1]
  BY <1>1, <1>2
<1>4. /\ Begun \in SUBSET Buildable /\ Reported \in SUBSET Buildable /\ IsFiniteSet(Reported)
      /\ Awaited \cap Reported = {}
  BY <1>2, PoolSets
<1>5. /\ Said(stream', Tail(sent), display', Begun, Reported, outcomes, BusySlots, Awaited)
      /\ display'.on = display.on /\ Keeps(stream, sent, stream', display')
  <2>1. sent # <<>> /\ display.on \in {"live", "plain"}
    BY <1>1
  <2>2. HeadShown(stream, sent, display, stream', display')
    BY <1>1, <1>3 DEF HeadShown
  <2> QED BY ONLY <1>2, <1>4, <2>1, <2>2, SaidReceived
<1>6. /\ outcomes' = outcomes /\ Begun' = Begun /\ Reported' = Reported
      /\ BusySlots' = BusySlots /\ Awaited' = Awaited /\ pool' = pool
      /\ UNCHANGED <<invocation, closure, phase, certified>> /\ (Success' <=> Success)
  BY <1>1 DEF poolVars, runVars, Begun, Reported, BusySlots, Awaited, Publishing, Decided,
              Success, ResultOf, All
<1>7. PoolInv'
  BY <1>2, <1>6 DEF PoolInv, SlotSound, SlotsApart, All, Decided
<1>8. Said(stream, sent, display, Begun, Reported, outcomes, BusySlots, Awaited)'
  BY <1>1, <1>5, <1>6, SaidNext
<1>9. Closing'
  <2>1. CASE phase = "work"
    BY <1>1, <1>5, <1>6, <2>1 DEF WorkInv, Closing, Keeps
  <2>2. CASE phase # "work"
    <3>1. /\ stream # None => Closed(LogOf(stream, sent), Success)
          /\ Closed(sent, Success)
      BY <1>1, <2>2 DEF WorkInv, Closing, Log
    <3>2. Success' = Success
      BY <1>6 DEF Success
    <3> QED BY <1>1, <1>5, <1>6, <2>2, <3>1, <3>2 DEF Closing, Log, Keeps
  <2> QED BY <2>1, <2>2
<1> QED BY <1>5, <1>6, <1>7, <1>8, <1>9 DEF WorkInv, Keeps

LEMMA WorkStays ==
  ASSUME WorkInv,
         UNCHANGED <<invocation, closure, certified, poolVars, sent, stream, display>>,
         phase' = phase \/ {phase, phase'} \subseteq {"drain", "ended"}
  PROVE  WorkInv'
<1>1. /\ outcomes' = outcomes /\ Begun' = Begun /\ Reported' = Reported
      /\ BusySlots' = BusySlots /\ Awaited' = Awaited /\ pool' = pool /\ Log' = Log
      /\ Success' = Success
  BY DEF poolVars, Begun, Reported, BusySlots, Awaited, Publishing, Decided, Success, ResultOf,
         All, Log
<1>2. PoolInv'
  BY <1>1 DEF WorkInv, PoolInv, SlotSound, SlotsApart, All, Decided
<1>3. Said(stream, sent, display, Begun, Reported, outcomes, BusySlots, Awaited)'
  BY <1>1, SaidNext DEF WorkInv
<1>4. Closing'
  BY <1>1 DEF WorkInv, Closing
<1> QED BY <1>1, <1>2, <1>3, <1>4 DEF WorkInv

LEMMA WorkEnter ==
  ASSUME WorkInv, Enter, display = Blank
  PROVE  WorkInv'
<1>1. /\ UNCHANGED <<runVars, poolVars, sent, stream>> /\ renderer' \in {"live", "plain"}
      /\ renderer' = "live" => invocation.live
      /\ display' = [Blank EXCEPT !.on = renderer']
  BY DEF Enter
<1>2. /\ outcomes' = outcomes /\ Begun' = Begun /\ Reported' = Reported
      /\ BusySlots' = BusySlots /\ Awaited' = Awaited /\ pool' = pool /\ Log' = Log
      /\ Success' = Success /\ UNCHANGED <<invocation, closure, phase, certified, sent, stream>>
  BY <1>1 DEF poolVars, runVars, Begun, Reported, BusySlots, Awaited, Publishing, Decided,
              Success, ResultOf, All, Log
<1>3. /\ display'.on = renderer' /\ display'.rows = display.rows /\ display'.hits = display.hits
      /\ display'.failures = display.failures /\ display'.outputs = display.outputs
      /\ display'.printed = display.printed /\ display.on = None
  BY <1>1 DEF Blank
<1>4. display' \in Displays
  <2>1. /\ Blank.rows \in [Workers -> Row] /\ Blank.printed \in Seq(Line)
        /\ Blank.outputs \in SUBSET Buildable
    BY DEF Blank, Row
  <2>2. display \in Displays
    BY DEF WorkInv, Said
  <2> QED BY <1>1, <2>2 DEF Blank, Displays
<1>5. None \notin {"live", "plain"}
  BY ProgressAssumption
<1>6. Said(stream, sent, display, Begun, Reported, outcomes, BusySlots, Awaited)
  BY DEF WorkInv
<1>7. Said(stream, sent, display', Begun, Reported, outcomes, BusySlots, Awaited)
  <2>1. LiveInv(display, sent, Begun, Reported, outcomes, BusySlots)
        => LiveInv(display', sent, Begun, Reported, outcomes, BusySlots)
    BY <1>3 DEF LiveInv
  <2>2. PlainInv(display, sent, Reported, outcomes, Awaited)
        => PlainInv(display', sent, Reported, outcomes, Awaited)
    BY <1>3 DEF PlainInv
  <2> QED BY <1>3, <1>4, <1>5, <1>6, <2>1, <2>2 DEF Said
<1>8. Said(stream, sent, display, Begun, Reported, outcomes, BusySlots, Awaited)'
  BY <1>2, <1>7, SaidNext
<1>9. PoolInv'
  BY <1>2 DEF WorkInv, PoolInv, SlotSound, SlotsApart, All, Decided
<1>10. Closing'
  BY <1>2, <1>3, <1>5 DEF WorkInv, Closing, ToldSuccess
<1> QED BY <1>1, <1>2, <1>3, <1>8, <1>9, <1>10 DEF WorkInv

-----------------------------------------------------------------------------
(* Progress: from the start of a build to its pool.                           *)

\* A set in some order: each of its elements once.
LEMMA OrderHas ==
  ASSUME NEW S, IsFiniteSet(S)
  PROVE  /\ SetToSeq(S) \in Seq(S)
         /\ \A x \in S : \E i \in DOMAIN SetToSeq(S) : SetToSeq(S)[i] = x
         /\ \A i, j \in DOMAIN SetToSeq(S) : SetToSeq(S)[i] = SetToSeq(S)[j] => i = j
<1> DEFINE n == Cardinality(S)
           f == SetToSeq(S)
<1>1. n \in Nat /\ ExistsBijection(1 .. n, S)
  BY FS_CardinalityType
<1>2. PICK g \in Bijection(1 .. n, S) : TRUE
  BY <1>1 DEF ExistsBijection
<1>3. g \in [1 .. n -> S] /\ IsInjective(g)
  BY <1>2 DEF Bijection, Injection
<1>4. f \in [1 .. n -> S] /\ IsInjective(f)
  BY <1>3 DEF SetToSeq
<1> HIDE DEF f
<1>5. f \in Injection(1 .. n, S)
  BY <1>4 DEF Injection
<1>6. Cardinality(1 .. n) = n
  BY <1>1, FS_Interval
<1>7. f \in Surjection(1 .. n, S)
  BY <1>5, <1>6, FS_Injection
<1>8. f \in Seq(S)
  BY <1>1, <1>4, SeqDef
<1>9. \A x \in S : \E i \in DOMAIN f : f[i] = x
  BY <1>4, <1>7 DEF Surjection
<1>10. \A i, j \in DOMAIN f : f[i] = f[j] => i = j
  BY <1>4 DEF IsInjective
<1>11. f = SetToSeq(S)
  BY DEF f
<1> QED BY <1>8, <1>9, <1>10, <1>11

\* The events of the hits of preflight.
LEMMA HitsHave ==
  ASSUME NEW hits \in SUBSET Buildable, IsFiniteSet(hits)
  PROVE  /\ HitEvents(hits) \in Seq(ProgressEvents)
         /\ \A i \in DOMAIN HitEvents(hits) :
              /\ HitEvents(hits)[i].event = "action_finished"
              /\ HitEvents(hits)[i].of \in hits /\ HitEvents(hits)[i].result = "cached"
         /\ ToldOnce(HitEvents(hits))
         /\ \A a \in hits : Told(HitEvents(hits), "action_finished", a)
<1> DEFINE order == SetToSeq(hits)
           slot == CHOOSE w \in Workers : TRUE
           s == HitEvents(hits)
<1>1. /\ order \in Seq(hits) /\ \A x \in hits : \E i \in DOMAIN order : order[i] = x
      /\ \A i, j \in DOMAIN order : order[i] = order[j] => i = j
  BY OrderHas
<1>2. slot \in Workers
  BY ProgressAssumption
<1>3. s = [i \in 1..Len(order) |-> ActionFinished(order[i], "cached", i, slot)]
  BY DEF HitEvents
<1> HIDE DEF order, slot, s
<1>4. DOMAIN order = 1..Len(order) /\ Len(order) \in Nat /\ \A i \in DOMAIN order : order[i] \in hits
  BY <1>1
<1>5. /\ DOMAIN s = DOMAIN order
      /\ \A i \in DOMAIN order : s[i] = ActionFinished(order[i], "cached", i, slot)
  BY <1>3, <1>4
<1>6. \A i \in DOMAIN order :
        /\ s[i].event = "action_finished" /\ s[i].of = order[i] /\ s[i].result = "cached"
  BY <1>5 DEF ActionFinished
<1>7. \A i \in DOMAIN order : s[i] \in ProgressEvents
  <2> SUFFICES ASSUME NEW i \in DOMAIN order PROVE s[i] \in ProgressEvents
    OBVIOUS
  <2>1. i \in Nat /\ order[i] \in Buildable
    BY <1>4
  <2> QED BY <1>2, <1>5, <2>1 DEF ActionFinished, ProgressEvents, ActionResults
<1>8. s \in Seq(ProgressEvents)
  <2>1. s \in [1..Len(order) -> ProgressEvents]
    BY <1>3, <1>4, <1>7
  <2> QED BY <1>4, <2>1, SeqDef
<1>9. ToldOnce(s)
  BY <1>1, <1>5, <1>6 DEF ToldOnce
<1>10. \A a \in hits : Told(s, "action_finished", a)
  BY <1>1, <1>5, <1>6 DEF Told
<1> QED BY <1>4, <1>5, <1>6, <1>8, <1>9, <1>10 DEF s

\* A display that nothing was shown on.
LEMMA BlankHas ==
  ASSUME NEW on \in {None, "live", "plain"}, NEW d, d = [Blank EXCEPT !.on = on]
  PROVE  /\ d \in Displays /\ d.on = on /\ d.completed = 0 /\ d.hits = 0 /\ d.failures = 0
         /\ d.success = None /\ d.outputs = {} /\ d.printed = <<>>
         /\ \A w \in Workers : d.rows[w].of = None /\ d.rows[w].status = None
<1>1. /\ Blank.rows \in [Workers -> Row] /\ Blank.printed \in Seq(Line)
      /\ Blank.outputs \in SUBSET Buildable
  BY DEF Blank, Row
<1> QED BY <1>1 DEF Blank, Displays

PreflightInv ==
  /\ certified = {} /\ ~interrupted /\ exitCode = None
  /\ pool = [w \in Workers |-> IdleSlot] /\ outcomes = <<>>
  /\ sent = <<>> /\ stream = (IF invocation.events THEN <<>> ELSE None)
  /\ display.on \in {None, "live", "plain"} /\ display = [Blank EXCEPT !.on = display.on]
  /\ display.on = "live" => invocation.live

Clean(d) == d.on \in {None, "live", "plain"} /\ d = [Blank EXCEPT !.on = d.on]

\* What preflight says of the hits, and of nothing else, is true and complete.
LEMMA HitsSaid ==
  ASSUME NEW told \in {None, <<>>}, NEW s, NEW hits \in SUBSET Buildable, IsFiniteSet(hits),
         told # None => ReadsHits,
         s = <<BuildStarted>> \o (IF ReadsHits THEN HitEvents(hits) ELSE <<>>),
         NEW d, Clean(d), NEW known, \A a \in hits : known[a] = "cached",
         BuildStarted \in ProgressEvents
  PROVE  Said(told, s, d, {}, hits, known, {}, {}) /\ Unclosed(told, s)
<1> DEFINE q == IF ReadsHits THEN HitEvents(hits) ELSE <<>>
<1>1. /\ q \in Seq(ProgressEvents) /\ ToldOnce(q)
      /\ \A i \in DOMAIN q :
           q[i].event = "action_finished" /\ q[i].of \in hits /\ q[i].result = "cached"
      /\ ReadsHits => \A a \in hits : Told(q, "action_finished", a)
  <2>1. CASE ReadsHits
    BY <2>1, HitsHave
  <2>2. CASE ~ReadsHits
    BY <2>2 DEF ToldOnce
  <2> QED BY <2>1, <2>2
<1>2. s = <<BuildStarted>> \o q
  OBVIOUS
<1>3. BuildStarted.event = "build_started"
  BY DEF BuildStarted
<1> HIDE DEF q
<1> DEFINE p == <<BuildStarted>>
<1>4. /\ p \in Seq(ProgressEvents) /\ Len(p) = 1 /\ p[1] = BuildStarted
  <2> HIDE DEF BuildStarted
  <2> QED OBVIOUS
<1> HIDE DEF p
<1>5. /\ s \in Seq(ProgressEvents) /\ Len(s) = Len(q) + 1 /\ Len(q) \in Nat
      /\ s[1] = BuildStarted /\ \A i \in 1..Len(q) : s[i + 1] = q[i]
  <2>1. s = p \o q
    BY <1>2 DEF p
  <2>2. /\ s \in Seq(ProgressEvents) /\ Len(s) = Len(p) + Len(q) /\ Len(q) \in Nat
        /\ \A i \in 1..Len(p) : s[i] = p[i]
        /\ \A i \in 1..Len(q) : s[Len(p) + i] = q[i]
    <3>1. p \in Seq(ProgressEvents) /\ q \in Seq(ProgressEvents)
      BY <1>1, <1>4
    <3> QED BY ONLY <2>1, <3>1, ConcatHas
  <2>3. \A i \in 1..Len(q) : Len(p) + i = i + 1
    BY <1>4, <2>2
  <2> QED BY <1>4, <2>2, <2>3
<1>6. DOMAIN q = 1..Len(q) /\ DOMAIN s = 1..(Len(q) + 1)
  BY <1>1, <1>5
<1>7. ASSUME NEW i \in DOMAIN s, i # 1 PROVE i - 1 \in DOMAIN q /\ s[i] = q[i - 1] /\ i \in Int
  <2>1. i - 1 \in 1..Len(q) /\ (i - 1) + 1 = i /\ i \in Int
    BY <1>5, <1>6, <1>7
  <2> QED BY <1>5, <1>6, <2>1
<1>8. \A i \in DOMAIN s :
        \/ i = 1 /\ s[i].event = "build_started"
        \/ s[i].event = "action_finished" /\ s[i].of \in hits /\ s[i].result = "cached"
  BY <1>1, <1>3, <1>5, <1>7
<1>9. \A a \in hits : ReadsHits => Told(s, "action_finished", a)
  <2>1. \A i \in DOMAIN q : i + 1 \in DOMAIN s /\ s[i + 1] = q[i]
    BY <1>5, <1>6
  <2> SUFFICES ASSUME NEW a \in hits, ReadsHits PROVE Told(s, "action_finished", a)
    OBVIOUS
  <2>2. PICK i \in DOMAIN q : q[i].event = "action_finished" /\ q[i].of = a
    BY <1>1 DEF Told
  <2>3. i + 1 \in DOMAIN s /\ s[i + 1].event = "action_finished" /\ s[i + 1].of = a
    BY <2>1, <2>2
  <2> QED BY <2>3 DEF Told
<1>10. ToldOnce(s)
  <2> SUFFICES ASSUME NEW i \in DOMAIN s, NEW j \in DOMAIN s,
                      s[i].event \in {"action_started", "action_finished"},
                      s[j].event = s[i].event, s[j].of = s[i].of
               PROVE  i = j
    BY DEF ToldOnce
  <2>1. i # 1 /\ j # 1
    BY <1>3, <1>5
  <2>2. i - 1 = j - 1
    BY <1>1, <1>7, <2>1 DEF ToldOnce
  <2> QED BY <1>7, <2>1, <2>2
<1>11. LogSound(s, {}, hits, known)
  BY <1>8, <1>10 DEF LogSound, StartsFirst, Truthful
<1>12. told \in Streams /\ LogOf(told, s) = s
  <2>1. <<>> \o s = s
    BY <1>5
  <2>2. <<>> \in Seq(ProgressEvents)
    OBVIOUS
  <2> QED BY <2>1, <2>2 DEF Streams, LogOf
<1>13. told # None => s # <<>> /\ s[1] = BuildStarted /\ LogComplete(s, {}, hits)
  BY <1>5, <1>6, <1>9 DEF LogComplete
<1>14. LogInv(told, s, {}, hits, known)
  BY <1>5, <1>11, <1>12, <1>13 DEF LogInv
<1>15. Unclosed(told, s)
  BY <1>8, <1>12 DEF Unclosed, NotClosed
<1>16. /\ d \in Displays /\ d.hits = 0 /\ d.failures = 0
       /\ d.outputs = {} /\ d.printed = <<>>
       /\ \A w \in Workers : d.rows[w].of = None /\ d.rows[w].status = None
  BY BlankHas DEF Clean
<1>17. /\ Received(s, hits, known, {"failed"}) = {} /\ Received(s, hits, known, Printing) = {}
       /\ ReadsHits => Received(s, hits, known, {"cached"}) = {}
  BY <1>9 DEF Received, Printing, RunResults
<1>18. LiveInv(d, s, {}, hits, known, {})
  <2>1. None \notin AtWork
    BY ProgressAssumption DEF AtWork
  <2>2. RowsSound(s, d.rows, {})
    BY <1>8, <1>16, <2>1 DEF RowsSound, OneSlot
  <2> QED BY <1>16, <1>17, <2>2, FS_EmptySet DEF LiveInv
<1>19. PlainInv(d, s, hits, known, {})
  <2>1. OutputsSound(s, d.outputs, {})
    BY <1>8 DEF OutputsSound, RunResults
  <2>2. Len(d.printed) = 0 /\ DOMAIN d.printed = {}
    BY <1>16
  <2> QED BY <1>17, <2>1, <2>2, FS_EmptySet DEF PlainInv
<1> QED BY <1>14, <1>15, <1>16, <1>18, <1>19 DEF Said

LEMMA WorkBegins ==
  ASSUME invocation \in Invocations, closure \in Closures, PreflightInv, Preflight, phase' = "work"
  PROVE  WorkInv' /\ certified' # All
<1>1. PICK hits \in SUBSET All :
        /\ certified' = hits /\ outcomes' = [a \in hits |-> "cached"]
        /\ phase' = IF hits = All THEN "save" ELSE "work"
        /\ sent' = <<BuildStarted>> \o
             (IF hits = All THEN <<AllCached>>
              ELSE IF ReadsHits THEN HitEvents(hits) ELSE <<>>)
  BY DEF Preflight
<1>2. UNCHANGED <<invocation, closure, interrupted, exitCode, pool, abort, showVars>>
  BY DEF Preflight
<1>3. hits # All
  BY <1>1
<1>4. /\ All \subseteq Buildable /\ IsFiniteSet(All) /\ None \notin All /\ All' = All
      /\ IsFiniteSet(hits)
  BY <1>1, <1>2, AllHas, FS_Subset DEF All
<1>5. pool' = [w \in Workers |-> IdleSlot] /\ Decided' = hits
  BY <1>1, <1>2 DEF PreflightInv, Decided
<1>6. PoolInv'
  <2>1. IdleSlot \in Slot /\ IdleSlot.of = None /\ IdleSlot.next = None /\ IdleSlot.at = "idle"
    BY DEF IdleSlot, Slot
  <2>2. \A w \in Workers : pool'[w] = IdleSlot
    BY <1>5
  <2>3. (\A w \in Workers : SlotSound(pool[w]))' /\ SlotsApart' /\ pool' \in [Workers -> Slot]
    BY <1>5, <2>1, <2>2 DEF SlotSound, SlotsApart, IdleSlot
  <2>4. outcomes' \in [Decided' -> ActionResults]
    BY <1>1, <1>5 DEF ActionResults
  <2> QED BY <1>1, <1>2, <1>4, <1>5, <2>3, <2>4 DEF PoolInv
<1>7. Begun' = {} /\ Reported' = hits /\ BusySlots' = {} /\ Awaited' = {}
  <2>1. BusySlots' = {} /\ Publishing' = {}
    BY <1>5 DEF BusySlots, Publishing, IdleSlot
  <2> QED BY <1>1, <1>5, <2>1 DEF Begun, Reported, Awaited
<1>8. BuildStarted \in ProgressEvents
  <2>1. Total \in Nat
    BY <1>4, FS_CardinalityType DEF Total
  <2> QED BY <2>1 DEF BuildStarted, ProgressEvents
<1>9. Said(stream, sent', display, {}, hits, outcomes', {}, {}) /\ Unclosed(stream, sent')
  <2>1. /\ stream \in {None, <<>>} /\ (stream # None => ReadsHits) /\ ReadsHits \in BOOLEAN
        /\ Clean(display)
    BY ProgressAssumption DEF PreflightInv, ReadsHits, Clean
  <2>2. hits \in SUBSET Buildable /\ IsFiniteSet(hits) /\ \A a \in hits : outcomes'[a] = "cached"
    BY <1>1, <1>4
  <2>3. sent' = <<BuildStarted>> \o (IF ReadsHits THEN HitEvents(hits) ELSE <<>>)
    BY <1>1, <1>3
  <2> QED BY ONLY <1>8, <2>1, <2>2, <2>3, HitsSaid
<1>10. stream' = stream /\ display' = display
  BY <1>2 DEF showVars
<1>11. Said(stream, sent, display, Begun, Reported, outcomes, BusySlots, Awaited)'
  BY <1>2, <1>7, <1>9, <1>10, SaidNext
<1>12. stream = None <=> ~invocation.events
  <2>1. <<>> # None
    <3>1. <<>> \in Seq(ProgressEvents)
      OBVIOUS
    <3> QED BY <3>1, ProgressAssumption
  <2> QED BY <2>1 DEF PreflightInv
<1> QED BY <1>1, <1>2, <1>3, <1>6, <1>9, <1>10, <1>11, <1>12 DEF WorkInv, Closing, PreflightInv

\* A build whose preflight certified everything: what is left to receive, and what was shown.
AllHit == outcomes = [a \in All |-> "cached"] /\ certified = All
Shows(d, live, total, k) ==
  /\ d \in Displays /\ (d.on = None => k = 0)
  /\ d.on = "live" =>
       /\ live
       /\ d.hits = (IF k \in {2, 3} THEN total ELSE 0) /\ d.failures = 0
       /\ k = 3 => d.success = TRUE
       /\ \A w \in Workers : d.rows[w].status = None
  /\ d.on = "plain" => d.printed = <<>>
ShowsAll(k) == Shows(display, invocation.live, Total, k)
Part(k, told, left) ==
  /\ sent = left /\ stream = (IF invocation.events THEN told ELSE None) /\ ShowsAll(k)
FullInv ==
  /\ AllHit
  /\ IF phase = "save"
     THEN \/ Part(0, <<>>, <<BuildStarted, AllCached>>)
          \/ Part(1, <<BuildStarted>>, <<AllCached>>)
          \/ Part(2, <<BuildStarted, AllCached>>, <<>>)
     ELSE \/ Part(0, <<>>, <<BuildStarted, AllCached, BuildFinished(TRUE)>>)
          \/ Part(1, <<BuildStarted>>, <<AllCached, BuildFinished(TRUE)>>)
          \/ Part(2, <<BuildStarted, AllCached>>, <<BuildFinished(TRUE)>>)
          \/ Part(3, <<BuildStarted, AllCached, BuildFinished(TRUE)>>, <<>>)

LEMMA AllHitSucceeds == ASSUME AllHit PROVE Success = TRUE
BY DEF AllHit, Success, ResultOf, Decided

LEMMA TotalHas == ASSUME closure \in Closures PROVE Total \in Nat
BY AllHas, FS_CardinalityType DEF Total

\* The lines of such a build.
LEMMA OneLine ==
  ASSUME NEW b
  PROVE  Append(<<>>, b) = <<b>> /\ Tail(<<b>>) = <<>> /\ Head(<<b>>) = b
OBVIOUS

LEMMA TwoLines ==
  ASSUME NEW a, NEW b
  PROVE  /\ <<a>> \o <<b>> = <<a, b>> /\ Append(<<a>>, b) = <<a, b>>
         /\ Tail(<<a, b>>) = <<b>> /\ Head(<<a, b>>) = a
<1> DEFINE S == {a, b}
<1>1. <<a>> \o <<b>> = <<a, b>>
  <2> DEFINE s == <<a>> \o <<b>>
             t == <<a, b>>
  <2>1. s \in Seq(S) /\ t \in Seq(S) /\ Len(s) = 2 /\ Len(t) = 2
    OBVIOUS
  <2>2. s[1] = t[1] /\ s[2] = t[2]
    OBVIOUS
  <2>3. \A i \in 1..Len(s) : i = 1 \/ i = 2
    BY <2>1
  <2>4. \A i \in 1..Len(s) : s[i] = t[i]
    BY <2>2, <2>3
  <2> HIDE DEF s, t
  <2>5. s = t
    BY <2>1, <2>4, SeqEqual
  <2> QED BY <2>5 DEF s, t
<1>2. Append(<<a>>, b) = <<a, b>>
  <2> DEFINE s == Append(<<a>>, b)
             t == <<a, b>>
  <2>1. s \in Seq(S) /\ t \in Seq(S) /\ Len(s) = 2 /\ Len(t) = 2
    OBVIOUS
  <2>2. s[1] = t[1] /\ s[2] = t[2]
    OBVIOUS
  <2>3. \A i \in 1..Len(s) : i = 1 \/ i = 2
    BY <2>1
  <2>4. \A i \in 1..Len(s) : s[i] = t[i]
    BY <2>2, <2>3
  <2> HIDE DEF s, t
  <2>5. s = t
    BY <2>1, <2>4, SeqEqual
  <2> QED BY <2>5 DEF s, t
<1>3. Tail(<<a, b>>) = <<b>> /\ Head(<<a, b>>) = a
  OBVIOUS
<1> QED BY <1>1, <1>2, <1>3

LEMMA ThreeLines ==
  ASSUME NEW a, NEW b, NEW c
  PROVE  /\ Append(<<a, b>>, c) = <<a, b, c>>
         /\ Tail(<<a, b, c>>) = <<b, c>> /\ Head(<<a, b, c>>) = a
<1> DEFINE S == {a, b, c}
<1>1. Append(<<a, b>>, c) = <<a, b, c>>
  <2> DEFINE s == Append(<<a, b>>, c)
             t == <<a, b, c>>
  <2>1. s \in Seq(S) /\ t \in Seq(S) /\ Len(s) = 3 /\ Len(t) = 3
    OBVIOUS
  <2>2. s[1] = t[1] /\ s[2] = t[2] /\ s[3] = t[3]
    OBVIOUS
  <2>3. \A i \in 1..Len(s) : i = 1 \/ i = 2 \/ i = 3
    BY <2>1
  <2>4. \A i \in 1..Len(s) : s[i] = t[i]
    BY <2>2, <2>3
  <2> HIDE DEF s, t
  <2>5. s = t
    BY <2>1, <2>4, SeqEqual
  <2> QED BY <2>5 DEF s, t
<1>2. Tail(<<a, b, c>>) = <<b, c>>
  OBVIOUS
<1> QED BY <1>1, <1>2

\* What such a display shows of the next line.
ShowsNext(d, d2, live, total, e) ==
  /\ e.event = "build_started" /\ Shows(d, live, total, 0) =>
       Shows(d2, live, total, 1) /\ d2.on = d.on
  /\ e.event = "all_cached" /\ e.total = total /\ Shows(d, live, total, 1) =>
       Shows(d2, live, total, 2) /\ d2.on = d.on
  /\ e.event = "build_finished" /\ e.success = TRUE /\ Shows(d, live, total, 2) =>
       Shows(d2, live, total, 3) /\ d2.on = d.on

LEMMA ShowsMore ==
  ASSUME NEW d, NEW live, NEW total \in Nat, NEW e, NEW d2,
         d.on \in {"live", "plain"},
         d2 = IF d.on = "live" THEN Shown(d, e) ELSE Printed(d, e)
  PROVE  ShowsNext(d, d2, live, total, e)
<1>0. None \notin {"live", "plain"}
  BY ProgressAssumption
<1>1. ASSUME e.event = "build_started", Shows(d, live, total, 0)
      PROVE  Shows(d2, live, total, 1) /\ d2.on = d.on
  <2>1. d2 = d
    BY <1>1 DEF Shown, Printed
  <2> QED BY <1>0, <1>1, <2>1 DEF Shows
<1>2. ASSUME e.event = "all_cached", e.total = total, Shows(d, live, total, 1)
      PROVE  Shows(d2, live, total, 2) /\ d2.on = d.on
  <2>1. CASE d.on = "live"
    <3>1. d2 = [d EXCEPT !.completed = total, !.hits = total]
      BY <1>2, <2>1 DEF Shown
    <3>2. /\ d2 \in Displays /\ d2.hits = total /\ d2.on = d.on
          /\ d2.failures = d.failures /\ d2.rows = d.rows
      BY <1>2, <3>1 DEF Shows, Displays
    <3> QED BY <1>0, <1>2, <2>1, <3>2 DEF Shows
  <2>2. CASE d.on = "plain"
    <3>1. d2 = d
      BY <1>2, <2>2 DEF Printed
    <3> QED BY <1>0, <1>2, <2>2, <3>1 DEF Shows
  <2> QED BY <2>1, <2>2
<1>3. ASSUME e.event = "build_finished", e.success = TRUE, Shows(d, live, total, 2)
      PROVE  Shows(d2, live, total, 3) /\ d2.on = d.on
  <2>1. CASE d.on = "live"
    <3>1. d2 = [d EXCEPT !.success = TRUE]
      BY <1>3, <2>1 DEF Shown
    <3>2. /\ d2 \in Displays /\ d2.hits = d.hits /\ d2.on = d.on /\ d2.success = TRUE
          /\ d2.failures = d.failures /\ d2.rows = d.rows
      BY <1>3, <3>1 DEF Shows, Displays
    <3> QED BY <1>0, <1>3, <2>1, <3>2 DEF Shows
  <2>2. CASE d.on = "plain"
    <3>1. d2 = d
      BY <1>3, <2>2 DEF Printed
    <3> QED BY <1>0, <1>3, <2>2, <3>1 DEF Shows
  <2> QED BY <2>1, <2>2
<1> QED BY <1>1, <1>2, <1>3 DEF ShowsNext

LEMMA FullBegins ==
  ASSUME closure \in Closures, PreflightInv, Preflight, phase' = "save"
  PROVE  FullInv'
<1>1. PICK hits \in SUBSET All :
        /\ certified' = hits /\ outcomes' = [a \in hits |-> "cached"]
        /\ phase' = IF hits = All THEN "save" ELSE "work"
        /\ sent' = <<BuildStarted>> \o
             (IF hits = All THEN <<AllCached>>
              ELSE IF ReadsHits THEN HitEvents(hits) ELSE <<>>)
  BY DEF Preflight
<1>2. UNCHANGED <<invocation, closure, showVars>> /\ hits = All
  BY <1>1 DEF Preflight
<1>3. /\ All' = All /\ BuildStarted' = BuildStarted /\ AllCached' = AllCached
      /\ stream' = stream /\ display' = display
  BY <1>2 DEF All, Total, BuildStarted, AllCached, showVars
<1>4. sent' = <<BuildStarted, AllCached>>
  <2>1. sent' = <<BuildStarted>> \o <<AllCached>>
    BY <1>1, <1>2
  <2> QED BY <2>1, TwoLines
<1>5. AllHit'
  BY <1>1, <1>2, <1>3 DEF AllHit
<1>6. /\ display \in Displays /\ display.hits = 0 /\ display.failures = 0
      /\ display.printed = <<>> /\ \A w \in Workers : display.rows[w].status = None
  BY BlankHas DEF PreflightInv
<1>7. ShowsAll(0)'
  BY <1>2, <1>3, <1>6 DEF ShowsAll, Shows, Total, PreflightInv
<1>8. Part(0, <<>>, <<BuildStarted, AllCached>>)'
  BY <1>2, <1>3, <1>4, <1>7 DEF Part, PreflightInv
<1> QED BY <1>1, <1>2, <1>5, <1>8 DEF FullInv

\* The names of what FullInv is about stay the same.
LEMMA FullNames ==
  ASSUME UNCHANGED <<invocation, closure, certified, outcomes>>
  PROVE  /\ AllHit => AllHit'
         /\ BuildStarted' = BuildStarted /\ AllCached' = AllCached /\ Total' = Total
         /\ \A k, told, left : Part(k, told, left)' <=>
              /\ sent' = left /\ stream' = (IF invocation.events THEN told ELSE None)
              /\ ShowsAll(k)'
BY DEF AllHit, All, BuildStarted, AllCached, Total, Part

LEMMA FullSave ==
  ASSUME FullInv, phase = "save", phase' = "drain", Emit(BuildFinished(Success)),
         UNCHANGED <<invocation, closure, certified, poolVars, showVars>>
  PROVE  FullInv'
<1> DEFINE a == BuildStarted
           b == AllCached
           c == BuildFinished(TRUE)
<1>1. AllHit /\ sent' = Append(sent, c)
  BY AllHitSucceeds DEF FullInv, Emit
<1>2. stream' = stream /\ display' = display /\ outcomes' = outcomes
  BY DEF showVars, poolVars
<1>3. /\ AllHit' /\ a' = a /\ b' = b /\ c' = c
      /\ \A k, told, left : Part(k, told, left)' <=>
           /\ sent' = left /\ stream' = (IF invocation.events THEN told ELSE None)
           /\ ShowsAll(k)'
  BY <1>1, <1>2, FullNames DEF BuildFinished
<1>4. \A k : ShowsAll(k) => ShowsAll(k)'
  BY <1>2 DEF ShowsAll, Total, All
<1>5. \/ Part(0, <<>>, <<a, b>>) \/ Part(1, <<a>>, <<b>>) \/ Part(2, <<a, b>>, <<>>)
  BY DEF FullInv
<1> HIDE DEF a, b, c
<1>6. /\ Append(<<a, b>>, c) = <<a, b, c>> /\ Append(<<b>>, c) = <<b, c>>
      /\ Append(<<>>, c) = <<c>>
  <2>1. Append(<<a, b>>, c) = <<a, b, c>>
    BY ONLY ThreeLines, Zenon
  <2>2. Append(<<b>>, c) = <<b, c>>
    BY ONLY TwoLines, Zenon
  <2>3. Append(<<>>, c) = <<c>>
    BY ONLY OneLine, Zenon
  <2> QED BY ONLY <2>1, <2>2, <2>3
<1>7. \/ Part(0, <<>>, <<a, b, c>>)' \/ Part(1, <<a>>, <<b, c>>)' \/ Part(2, <<a, b>>, <<c>>)'
  <2>1. CASE Part(0, <<>>, <<a, b>>)
    BY <1>1, <1>2, <1>3, <1>4, <1>6, <2>1 DEF Part
  <2>2. CASE Part(1, <<a>>, <<b>>)
    BY <1>1, <1>2, <1>3, <1>4, <1>6, <2>2 DEF Part
  <2>3. CASE Part(2, <<a, b>>, <<>>)
    BY <1>1, <1>2, <1>3, <1>4, <1>6, <2>3 DEF Part
  <2> QED BY <1>5, <2>1, <2>2, <2>3
<1> QED BY <1>3, <1>7 DEF FullInv, a, b, c

LEMMA FullReceive ==
  ASSUME closure \in Closures, FullInv, Receive, display.on = renderer
  PROVE  FullInv' /\ display'.on = display.on
<1> DEFINE a == BuildStarted
           b == AllCached
           c == BuildFinished(TRUE)
           e == Head(sent)
<1>1. /\ renderer \in {"live", "plain"} /\ sent # <<>> /\ sent' = Tail(sent)
      /\ UNCHANGED <<runVars, poolVars, renderer>>
      /\ display' = IF display.on = "live" THEN Shown(display, e) ELSE Printed(display, e)
      /\ stream' = Write(stream, e)
  BY DEF Receive
<1>2. /\ UNCHANGED <<invocation, closure, certified, phase, outcomes>>
      /\ display.on \in {"live", "plain"}
  BY <1>1 DEF runVars, poolVars
<1>3. /\ AllHit' /\ a' = a /\ b' = b /\ c' = c /\ Total' = Total
      /\ \A k, told, left : Part(k, told, left)' <=>
           /\ sent' = left /\ stream' = (IF invocation.events THEN told ELSE None)
           /\ ShowsAll(k)'
  BY <1>2, FullNames DEF BuildFinished, FullInv
<1>4. /\ a.event = "build_started" /\ b.event = "all_cached" /\ b.total = Total
      /\ c.event = "build_finished" /\ c.success = TRUE
  BY DEF BuildStarted, AllCached, BuildFinished
<1>5. Total \in Nat
  BY TotalHas
<1>6. /\ e = a /\ ShowsAll(0) => ShowsAll(1)' /\ display'.on = display.on
      /\ e = b /\ ShowsAll(1) => ShowsAll(2)' /\ display'.on = display.on
      /\ e = c /\ ShowsAll(2) => ShowsAll(3)' /\ display'.on = display.on
  <2>1. /\ \A k : ShowsAll(k) <=> Shows(display, invocation.live, Total, k)
        /\ \A k : ShowsAll(k)' <=> Shows(display', invocation.live, Total, k)
    BY <1>2, <1>3 DEF ShowsAll
  <2>2. /\ Total \in Nat /\ display.on \in {"live", "plain"}
        /\ display' = IF display.on = "live" THEN Shown(display, e) ELSE Printed(display, e)
    BY <1>1, <1>2, <1>5
  <2> HIDE DEF a, b, c, e
  <2>3. ShowsNext(display, display', invocation.live, Total, e)
    BY ONLY <2>2, ShowsMore
  <2> QED BY <1>4, <2>1, <2>3 DEF ShowsNext
<1>7. ASSUME NEW told, told # None, stream = (IF invocation.events THEN told ELSE None),
             e \in {a, b, c}
      PROVE  stream' = (IF invocation.events THEN Append(told, e) ELSE None)
  BY <1>1, <1>4, <1>7 DEF Write
<1>8. /\ <<>> # None /\ <<a>> # None /\ <<a, b>> # None
  <2>1. a \in ProgressEvents /\ b \in ProgressEvents
    BY <1>5 DEF BuildStarted, AllCached, ProgressEvents
  <2> HIDE DEF a, b
  <2>2. <<>> \in Seq(ProgressEvents) /\ <<a>> \in Seq(ProgressEvents) /\ <<a, b>> \in Seq(ProgressEvents)
    BY <2>1
  <2> QED BY <2>2, ProgressAssumption
<1>9. IF phase = "save"
      THEN Part(0, <<>>, <<a, b>>) \/ Part(1, <<a>>, <<b>>) \/ Part(2, <<a, b>>, <<>>)
      ELSE \/ Part(0, <<>>, <<a, b, c>>) \/ Part(1, <<a>>, <<b, c>>)
           \/ Part(2, <<a, b>>, <<c>>) \/ Part(3, <<a, b, c>>, <<>>)
  BY DEF FullInv
<1> HIDE DEF a, b, c
<1>10. /\ Tail(<<a, b>>) = <<b>> /\ Tail(<<b>>) = <<>> /\ Tail(<<a, b, c>>) = <<b, c>>
       /\ Tail(<<b, c>>) = <<c>> /\ Tail(<<c>>) = <<>>
       /\ Head(<<a, b>>) = a /\ Head(<<b>>) = b /\ Head(<<a, b, c>>) = a
       /\ Head(<<b, c>>) = b /\ Head(<<c>>) = c
       /\ Append(<<>>, a) = <<a>> /\ Append(<<a>>, b) = <<a, b>>
       /\ Append(<<a, b>>, c) = <<a, b, c>>
  <2>1. /\ Tail(<<a, b, c>>) = <<b, c>> /\ Head(<<a, b, c>>) = a
        /\ Append(<<a, b>>, c) = <<a, b, c>>
    BY ONLY ThreeLines, Zenon
  <2>2. Tail(<<a, b>>) = <<b>> /\ Head(<<a, b>>) = a /\ Append(<<a>>, b) = <<a, b>>
    BY ONLY TwoLines, Zenon
  <2>3. Tail(<<b, c>>) = <<c>> /\ Head(<<b, c>>) = b
    BY ONLY TwoLines, Zenon
  <2>4. Tail(<<b>>) = <<>> /\ Head(<<b>>) = b
    BY ONLY OneLine, Zenon
  <2>5. Tail(<<c>>) = <<>> /\ Head(<<c>>) = c
    BY ONLY OneLine, Zenon
  <2>6. Append(<<>>, a) = <<a>>
    BY ONLY OneLine, Zenon
  <2> QED BY ONLY <2>1, <2>2, <2>3, <2>4, <2>5, <2>6
<1>11. CASE phase = "save"
  <2>1. CASE Part(0, <<>>, <<a, b>>)
    <3>1. e = a /\ sent' = <<b>> /\ ShowsAll(0)
      BY <1>1, <1>10, <2>1 DEF Part
    <3>2. stream' = (IF invocation.events THEN <<a>> ELSE None)
      BY <1>7, <1>8, <1>10, <2>1, <3>1 DEF Part
    <3>3. Part(1, <<a>>, <<b>>)' /\ display'.on = display.on
      BY <1>3, <1>6, <3>1, <3>2
    <3> QED BY <1>2, <1>3, <1>11, <3>3 DEF FullInv, a, b
  <2>2. CASE Part(1, <<a>>, <<b>>)
    <3>1. e = b /\ sent' = <<>> /\ ShowsAll(1)
      BY <1>1, <1>10, <2>2 DEF Part
    <3>2. stream' = (IF invocation.events THEN <<a, b>> ELSE None)
      BY <1>7, <1>8, <1>10, <2>2, <3>1 DEF Part
    <3>3. Part(2, <<a, b>>, <<>>)' /\ display'.on = display.on
      BY <1>3, <1>6, <3>1, <3>2
    <3> QED BY <1>2, <1>3, <1>11, <3>3 DEF FullInv, a, b
  <2> QED BY <1>1, <1>9, <1>11, <2>1, <2>2 DEF Part
<1>12. CASE phase # "save"
  <2>1. CASE Part(0, <<>>, <<a, b, c>>)
    <3>1. e = a /\ sent' = <<b, c>> /\ ShowsAll(0)
      BY <1>1, <1>10, <2>1 DEF Part
    <3>2. stream' = (IF invocation.events THEN <<a>> ELSE None)
      BY <1>7, <1>8, <1>10, <2>1, <3>1 DEF Part
    <3>3. Part(1, <<a>>, <<b, c>>)' /\ display'.on = display.on
      BY <1>3, <1>6, <3>1, <3>2
    <3> QED BY <1>2, <1>3, <1>12, <3>3 DEF FullInv, a, b, c
  <2>2. CASE Part(1, <<a>>, <<b, c>>)
    <3>1. e = b /\ sent' = <<c>> /\ ShowsAll(1)
      BY <1>1, <1>10, <2>2 DEF Part
    <3>2. stream' = (IF invocation.events THEN <<a, b>> ELSE None)
      BY <1>7, <1>8, <1>10, <2>2, <3>1 DEF Part
    <3>3. Part(2, <<a, b>>, <<c>>)' /\ display'.on = display.on
      BY <1>3, <1>6, <3>1, <3>2
    <3> QED BY <1>2, <1>3, <1>12, <3>3 DEF FullInv, a, b, c
  <2>3. CASE Part(2, <<a, b>>, <<c>>)
    <3>1. e = c /\ sent' = <<>> /\ ShowsAll(2)
      BY <1>1, <1>10, <2>3 DEF Part
    <3>2. stream' = (IF invocation.events THEN <<a, b, c>> ELSE None)
      BY <1>7, <1>8, <1>10, <2>3, <3>1 DEF Part
    <3>3. Part(3, <<a, b, c>>, <<>>)' /\ display'.on = display.on
      BY <1>3, <1>6, <3>1, <3>2
    <3> QED BY <1>2, <1>3, <1>12, <3>3 DEF FullInv, a, b, c
  <2> QED BY <1>1, <1>9, <1>12, <2>1, <2>2, <2>3 DEF Part
<1> QED BY <1>11, <1>12

Rendering ==
  /\ renderer \in {"starting", "live", "plain", "ended"}
  /\ renderer = "starting" => display = Blank
  /\ renderer \in {"live", "plain"} => display.on = renderer
  /\ renderer = "ended" => sent = <<>> /\ phase \in {"drain", "ended"}
  /\ phase = "ended" => renderer = "ended" /\ (~interrupted => (exitCode = "0" <=> Success))

BeginInv ==
  /\ certified = {} /\ ~interrupted /\ exitCode = None
  /\ pool = [w \in Workers |-> IdleSlot] /\ outcomes = <<>>
  /\ sent = <<>> /\ display = Blank /\ renderer = "ended"
CertificateInv ==
  /\ AllHit /\ display = Blank /\ renderer = "ended" /\ ~interrupted /\ exitCode = "0"
  /\ stream = IF invocation.events THEN <<BuildStarted, AllCached, BuildFinished(TRUE)>>
              ELSE None

Stages ==
  \/ phase = "begin" /\ BeginInv
  \/ phase = "ended" /\ CertificateInv
  \/ phase = "preflight" /\ PreflightInv /\ Rendering
  \/ phase \in {"save", "drain", "ended"} /\ FullInv /\ Rendering
  \/ phase \in {"work", "drain", "ended"} /\ certified # All /\ WorkInv /\ Rendering
ProgressInv ==
  /\ invocation \in Invocations /\ closure \in Closures
  /\ phase \in {"begin", "preflight", "save", "work", "drain", "ended"}
  /\ exitCode = "error" => phase \in {"drain", "ended"}
  /\ exitCode # "error" => Stages

LEMMA ProgressStart == ProgressInit => ProgressInv
<1>1. None # "error"
  BY ProgressAssumption
<1> QED BY <1>1 DEF ProgressInit, ProgressInv, Stages, BeginInv

\* The steps of a run that has not failed.
LEMMA FromBegin ==
  ASSUME ProgressInv, exitCode # "error", phase = "begin", ProgressNext PROVE ProgressInv'
<1>1. BeginInv
  BY DEF ProgressInv, Stages
<1>2. CASE Certificate
  <2>1. AllHit' /\ BuildStarted' = BuildStarted /\ AllCached' = AllCached
    BY <1>2 DEF Certificate, AllHit, All, BuildStarted, AllCached, Total
  <2>2. CertificateInv'
    BY <1>1, <1>2, <2>1 DEF Certificate, CertificateInv, BeginInv, EndsWith, BuildFinished
  <2>3. phase' = "ended" /\ exitCode' = "0"
    BY <1>2 DEF Certificate, EndsWith
  <2> QED BY <1>2, <2>2, <2>3 DEF ProgressInv, Stages, Certificate
<1>3. CASE StartRenderer
  <2>1. Blank = [Blank EXCEPT !.on = Blank.on] /\ Blank.on = None
    BY DEF Blank
  <2>2. None \notin {"live", "plain"}
    BY ProgressAssumption
  <2>3. /\ display' = Blank /\ phase' = "preflight" /\ renderer' = "starting" /\ sent' = <<>>
        /\ UNCHANGED <<invocation, closure, certified, interrupted, exitCode, poolVars>>
        /\ stream' = IF invocation.events THEN <<>> ELSE None
    BY <1>1, <1>3 DEF StartRenderer, BeginInv
  <2>4. PreflightInv'
    <3>1. display'.on \in {None, "live", "plain"} /\ display' = [Blank EXCEPT !.on = display'.on]
      BY <2>1, <2>3
    <3>2. display'.on # "live"
      BY <2>1, <2>2, <2>3
    <3> QED BY <1>1, <2>3, <3>1, <3>2 DEF PreflightInv, BeginInv, poolVars, Blank
  <2>5. Rendering'
    BY <2>3 DEF Rendering
  <2> QED BY <2>3, <2>4, <2>5 DEF ProgressInv, Stages
<1>4. ~(Unprepared \/ Preflight \/ Save \/ Summarize \/ CancelBuild)
  BY DEF Unprepared, Preflight, Save, Summarize, CancelBuild
<1>5. ~RendererStep
  BY <1>1 DEF BeginInv, RendererStep, Enter, Receive, Disconnect
<1>6. \A w \in Workers : ~WorkerStep(w)
  BY DEF WorkerStep, Claim, Settle, StartsRunning, Decide, RunCommands, Finish, At
<1> QED BY <1>2, <1>3, <1>4, <1>5, <1>6 DEF ProgressNext, RunStep

LEMMA FromPreflight ==
  ASSUME ProgressInv, exitCode # "error", phase = "preflight", ProgressNext PROVE ProgressInv'
<1>1. PreflightInv /\ Rendering /\ invocation \in Invocations /\ closure \in Closures
  BY DEF ProgressInv, Stages
<1>2. CASE Unprepared
  BY <1>1, <1>2 DEF Unprepared, ProgressInv
<1>3. CASE Preflight
  <2>1. /\ phase' \in {"save", "work"}
        /\ UNCHANGED <<invocation, closure, interrupted, exitCode, showVars>>
    BY <1>3 DEF Preflight
  <2>2. Rendering'
    BY <1>1, <2>1 DEF Rendering, showVars
  <2>3. CASE phase' = "save"
    <3>1. FullInv'
      BY <1>1, <1>3, <2>3, FullBegins
    <3> QED BY <1>1, <2>1, <2>2, <2>3, <3>1 DEF ProgressInv, Stages
  <2>4. CASE phase' = "work"
    <3>1. WorkInv' /\ certified' # All
      BY <1>1, <1>3, <2>4, WorkBegins
    <3>2. All' = All
      BY <2>1 DEF All
    <3> QED BY <1>1, <2>1, <2>2, <2>4, <3>1, <3>2 DEF ProgressInv, Stages
  <2> QED BY <2>1, <2>3, <2>4
<1>4. CASE Enter
  <2>1. /\ UNCHANGED <<runVars, poolVars, sent, stream>> /\ renderer' \in {"live", "plain"}
        /\ renderer' = "live" => invocation.live
        /\ display' = [Blank EXCEPT !.on = renderer']
    BY <1>4 DEF Enter
  <2>2. display'.on = renderer'
    BY <2>1 DEF Blank
  <2>3. PreflightInv'
    BY <1>1, <2>1, <2>2 DEF PreflightInv, runVars, poolVars, Blank
  <2>4. Rendering'
    BY <1>1, <2>1, <2>2 DEF Rendering, runVars
  <2> QED BY <1>1, <2>1, <2>3, <2>4 DEF ProgressInv, Stages, runVars
<1>5. ~(Certificate \/ StartRenderer \/ Save \/ Summarize \/ CancelBuild)
  BY DEF Certificate, StartRenderer, Save, Summarize, CancelBuild
<1>6. ~Receive /\ ~Disconnect
  BY <1>1 DEF PreflightInv, Receive, Disconnect, SendersGone
<1>7. \A w \in Workers : ~WorkerStep(w)
  BY DEF WorkerStep, Claim, Settle, StartsRunning, Decide, RunCommands, Finish, At
<1> QED BY <1>2, <1>3, <1>4, <1>5, <1>6, <1>7 DEF ProgressNext, RunStep, RendererStep

\* The renderer's steps keep what is rendered, and the end says what the exit code says.
LEMMA RendersSoundly ==
  ASSUME Rendering, phase \in {"save", "work", "drain"}
  PROVE  /\ Receive /\ display'.on = display.on => Rendering'
         /\ Enter \/ Disconnect \/ CancelBuild => Rendering'
         /\ Summarize /\ exitCode # "error" => Rendering' /\ exitCode' # "error"
         /\ Save => Rendering'
         /\ \A w \in Workers : WorkerStep(w) => Rendering'
<1>1. Receive /\ display'.on = display.on => Rendering'
  BY DEF Rendering, Receive, runVars
<1>2. Enter => Rendering'
  BY DEF Rendering, Enter, runVars, Blank
<1>3. Disconnect => Rendering'
  BY DEF Rendering, Disconnect, runVars, SendersGone
<1>4. CancelBuild => Rendering'
  BY DEF Rendering, CancelBuild, showVars
<1>5. Summarize /\ exitCode # "error" => Rendering' /\ exitCode' # "error"
  <2> SUFFICES ASSUME Summarize, exitCode # "error" PROVE Rendering' /\ exitCode' # "error"
    OBVIOUS
  <2>1. Success' <=> Success
    BY DEF Summarize, Success, ResultOf, Decided, All, poolVars
  <2>2. /\ exitCode' = IF interrupted THEN "130" ELSE IF Success THEN "0" ELSE "1"
        /\ phase' = "ended" /\ renderer = "ended"
        /\ UNCHANGED <<interrupted, sent, showVars>>
    BY DEF Summarize, EndsWith, Joined
  <2> QED BY <2>1, <2>2 DEF Rendering, showVars
<1>6. Save => Rendering'
  BY DEF Rendering, Save, showVars
<1>7. ASSUME NEW w \in Workers, WorkerStep(w) PROVE Rendering'
  <2>1. phase = "work" /\ UNCHANGED <<runVars, showVars>>
    BY <1>7 DEF WorkerStep, Claim, Settle, StartsRunning, Decide, RunCommands, Finish, At, Decides
  <2> QED BY <2>1 DEF Rendering, runVars, showVars
<1> QED BY <1>1, <1>2, <1>3, <1>4, <1>5, <1>6, <1>7

LEMMA FromFull ==
  ASSUME ProgressInv, exitCode # "error", FullInv, Rendering, phase \in {"save", "drain", "ended"},
         ProgressNext
  PROVE  ProgressInv'
<1>0. invocation \in Invocations /\ closure \in Closures
  BY DEF ProgressInv
<1>1. ~(Certificate \/ StartRenderer \/ Unprepared \/ Preflight \/ CancelBuild)
  BY DEF Certificate, StartRenderer, Unprepared, Preflight, CancelBuild
<1>2. \A w \in Workers : ~WorkerStep(w)
  BY DEF WorkerStep, Claim, Settle, StartsRunning, Decide, RunCommands, Finish, At
<1>3. phase = "ended" => ~RendererStep /\ ~Save /\ ~Summarize
  BY DEF Rendering, RendererStep, Enter, Receive, Disconnect, Save, Summarize, SendersGone
<1>4. CASE Save
  <2>1. /\ phase = "save" /\ phase' = "drain"
        /\ UNCHANGED <<invocation, closure, certified, interrupted, poolVars, showVars>>
        /\ \/ Emit(BuildFinished(Success)) /\ exitCode' = exitCode
           \/ exitCode' = "error"
    BY <1>4 DEF Save
  <2>2. Rendering'
    BY <1>4, <2>1, RendersSoundly
  <2>3. ASSUME Emit(BuildFinished(Success)) PROVE FullInv'
    BY <2>1, <2>3, FullSave
  <2> QED BY <1>0, <2>1, <2>2, <2>3 DEF ProgressInv, Stages
<1>5. CASE Receive
  <2>1. display.on = renderer /\ UNCHANGED runVars /\ phase # "ended"
    BY <1>3, <1>5 DEF Rendering, Receive, RendererStep
  <2>2. FullInv' /\ display'.on = display.on
    BY <1>0, <1>5, <2>1, FullReceive
  <2>3. Rendering'
    BY <1>5, <2>1, <2>2, RendersSoundly
  <2> QED BY <1>0, <2>1, <2>2, <2>3 DEF ProgressInv, Stages, runVars
<1>6. CASE Disconnect \/ Summarize
  <2>1. /\ UNCHANGED <<invocation, closure, certified, outcomes, sent, stream, display>>
        /\ phase' \in {phase, "ended"} /\ phase = "drain"
    BY <1>3, <1>6 DEF Disconnect, Summarize, EndsWith, runVars, poolVars, showVars, SendersGone,
                      RendererStep
  <2>2. Rendering' /\ exitCode' # "error"
    BY <1>6, <2>1, RendersSoundly DEF Disconnect, runVars
  <2>3. /\ AllHit' /\ BuildStarted' = BuildStarted /\ AllCached' = AllCached
        /\ \A k : ShowsAll(k)' <=> ShowsAll(k)
    BY <2>1 DEF FullInv, AllHit, All, BuildStarted, AllCached, Total, ShowsAll
  <2>4. FullInv'
    BY <2>1, <2>3 DEF FullInv, Part, BuildFinished
  <2> QED BY <1>0, <2>1, <2>2, <2>4 DEF ProgressInv, Stages
<1>7. CASE Enter
  <2>1. /\ UNCHANGED <<invocation, closure, certified, outcomes, sent, stream, phase, exitCode>>
        /\ renderer' \in {"live", "plain"} /\ display = Blank
        /\ renderer' = "live" => invocation.live
        /\ display' = [Blank EXCEPT !.on = renderer']
        /\ phase # "ended"
    BY <1>3, <1>7 DEF Enter, runVars, poolVars, Rendering, RendererStep
  <2>2. Rendering'
    BY <1>7, <2>1, RendersSoundly
  <2>3. AllHit' /\ BuildStarted' = BuildStarted /\ AllCached' = AllCached
    BY <2>1 DEF FullInv, AllHit, All, BuildStarted, AllCached, Total
  <2>4. /\ display' \in Displays /\ display'.on = renderer' /\ display'.hits = 0
        /\ display'.failures = 0 /\ display'.printed = <<>>
        /\ \A w \in Workers : display'.rows[w].status = None
    BY <2>1, BlankHas
  <2>5. ShowsAll(0)' /\ \A k : ShowsAll(k) => k = 0
    <3>1. display.on = None
      BY <2>1 DEF Blank
    <3>2. \A k : ShowsAll(k) => k = 0
      BY <3>1 DEF ShowsAll, Shows
    <3>3. renderer' # None
      BY <2>1, ProgressAssumption
    <3> QED BY <2>1, <2>4, <3>2, <3>3 DEF ShowsAll, Shows
  <2>6. FullInv'
    BY <2>1, <2>3, <2>5 DEF FullInv, Part, BuildFinished
  <2> QED BY <1>0, <2>1, <2>2, <2>6 DEF ProgressInv, Stages
<1> QED BY <1>1, <1>2, <1>4, <1>5, <1>6, <1>7 DEF ProgressNext, RunStep, RendererStep

LEMMA FromWork ==
  ASSUME ProgressInv, exitCode # "error", WorkInv, Rendering, certified # All,
         phase \in {"work", "drain", "ended"}, ProgressNext
  PROVE  ProgressInv'
<1>0. invocation \in Invocations /\ closure \in Closures
  BY DEF ProgressInv
<1>1. ~(Certificate \/ StartRenderer \/ Unprepared \/ Preflight)
  BY DEF Certificate, StartRenderer, Unprepared, Preflight
<1>2. phase = "ended" => ~RendererStep /\ ~Summarize
  BY DEF Rendering, RendererStep, Enter, Receive, Disconnect, Summarize, SendersGone
<1>3. CASE Save
  <2>1. /\ phase = "work" /\ phase' = "drain" /\ \A w \in Workers : pool[w].at = "idle"
        /\ UNCHANGED <<invocation, closure, certified, interrupted, poolVars, showVars>>
        /\ \/ Emit(BuildFinished(Success)) /\ exitCode' = exitCode
           \/ exitCode' = "error"
    BY <1>3 DEF Save
  <2>2. Rendering' /\ All' = All
    BY <1>3, <2>1, RendersSoundly DEF All
  <2>3. ASSUME Emit(BuildFinished(Success)) PROVE WorkInv'
    BY <2>1, <2>3, WorkSave
  <2> QED BY <1>0, <2>1, <2>2, <2>3 DEF ProgressInv, Stages
<1>4. CASE Receive
  <2>1. display.on = renderer /\ UNCHANGED runVars /\ phase # "ended"
    BY <1>2, <1>4 DEF Rendering, Receive, RendererStep
  <2>2. WorkInv' /\ display'.on = display.on
    BY <1>4, <2>1, WorkReceive
  <2>3. Rendering' /\ All' = All
    BY <1>4, <2>1, <2>2, RendersSoundly DEF All, runVars
  <2> QED BY <1>0, <2>1, <2>2, <2>3 DEF ProgressInv, Stages, runVars
<1>5. CASE Disconnect \/ Summarize \/ CancelBuild
  <2>1. /\ UNCHANGED <<invocation, closure, certified, poolVars, sent, stream, display>>
        /\ phase' = phase \/ {phase, phase'} \subseteq {"drain", "ended"}
        /\ phase \in {"work", "drain"} /\ phase' \in {"work", "drain", "ended"}
    BY <1>2, <1>5 DEF Disconnect, Summarize, CancelBuild, EndsWith, runVars, showVars,
                      SendersGone, RendererStep
  <2>2. Rendering' /\ exitCode' # "error"
    BY <1>5, <2>1, RendersSoundly DEF Disconnect, CancelBuild, runVars
  <2>3. WorkInv' /\ All' = All
    BY <2>1, WorkStays DEF All
  <2> QED BY <1>0, <2>1, <2>2, <2>3 DEF ProgressInv, Stages
<1>6. CASE Enter
  <2>1. display = Blank /\ UNCHANGED runVars /\ phase # "ended"
    BY <1>2, <1>6 DEF Enter, Rendering, RendererStep
  <2>2. WorkInv' /\ Rendering' /\ All' = All
    BY <1>6, <2>1, WorkEnter, RendersSoundly DEF All, runVars
  <2> QED BY <1>0, <2>1, <2>2 DEF ProgressInv, Stages, runVars
<1>7. ASSUME NEW w \in Workers, WorkerStep(w) PROVE ProgressInv'
  <2>1. phase = "work" /\ UNCHANGED runVars
    BY <1>7 DEF WorkerStep, Claim, Settle, StartsRunning, Decide, RunCommands, Finish, At, Decides
  <2>2. WorkInv'
    BY <1>7, WorkClaim, WorkSettle, WorkStartsRunning, WorkDecide, WorkRunCommands, WorkFinish
       DEF WorkerStep
  <2>3. Rendering' /\ All' = All
    BY <1>7, <2>1, RendersSoundly DEF All, runVars
  <2> QED BY <1>0, <2>1, <2>2, <2>3 DEF ProgressInv, Stages, runVars
<1> QED BY <1>1, <1>3, <1>4, <1>5, <1>6, <1>7 DEF ProgressNext, RunStep, RendererStep

LEMMA ProgressStep == ProgressInv /\ [ProgressNext]_progressVars => ProgressInv'
<1> SUFFICES ASSUME ProgressInv, [ProgressNext]_progressVars PROVE ProgressInv'
  OBVIOUS
<1>1. CASE UNCHANGED progressVars
  <2>1. /\ UNCHANGED <<invocation, closure, phase, certified, interrupted, exitCode>>
        /\ UNCHANGED <<pool, outcomes, abort, sent, renderer, display, stream>>
    BY <1>1 DEF progressVars, runVars, poolVars, showVars
  <2>2. /\ All' = All /\ Success' = Success /\ Rendering' = Rendering /\ BeginInv' = BeginInv
        /\ PreflightInv' = PreflightInv
    BY <2>1 DEF All, Success, ResultOf, Decided, Rendering, BeginInv, PreflightInv
  <2>3. CertificateInv' = CertificateInv /\ FullInv' = FullInv
    BY <2>1 DEF CertificateInv, AllHit, FullInv, Part, ShowsAll, All, Total, BuildStarted,
                AllCached, BuildFinished
  <2>4. WorkInv => WorkInv'
    BY <2>1, WorkStays DEF poolVars
  <2> QED BY <2>1, <2>2, <2>3, <2>4 DEF ProgressInv, Stages
<1>2. CASE ProgressNext /\ exitCode = "error"
  <2>1. phase \in {"drain", "ended"} /\ invocation \in Invocations /\ closure \in Closures
    BY <1>2 DEF ProgressInv
  <2>2. /\ UNCHANGED <<invocation, closure>> /\ exitCode' = "error"
        /\ phase' \in {"drain", "ended"}
    <3>1. CASE RunStep
      BY <1>2, <2>1, <3>1 DEF RunStep, Certificate, StartRenderer, Unprepared, Preflight, Save,
                              Summarize, EndsWith
    <3>2. CASE CancelBuild
      BY <1>2, <2>1, <3>2 DEF CancelBuild
    <3>3. CASE RendererStep
      BY <1>2, <2>1, <3>3 DEF RendererStep, Enter, Receive, Disconnect, runVars
    <3>4. \A w \in Workers : ~WorkerStep(w)
      BY <2>1 DEF WorkerStep, Claim, Settle, StartsRunning, Decide, RunCommands, Finish, At
    <3> QED BY <1>2, <3>1, <3>2, <3>3, <3>4 DEF ProgressNext
  <2> QED BY <2>1, <2>2 DEF ProgressInv
<1>3. CASE ProgressNext /\ exitCode # "error"
  <2>1. Stages
    BY <1>3 DEF ProgressInv
  <2>2. CASE phase = "ended" /\ CertificateInv
    <3>1. ~ProgressNext
      <4>1. renderer = "ended"
        BY <2>2 DEF CertificateInv
      <4>2. ~RunStep /\ ~CancelBuild
        BY <2>2 DEF RunStep, Certificate, StartRenderer, Unprepared, Preflight, Save, Summarize,
                    CancelBuild
      <4>3. ~RendererStep
        BY <4>1 DEF RendererStep, Enter, Receive, Disconnect
      <4>4. \A w \in Workers : ~WorkerStep(w)
        BY <2>2 DEF WorkerStep, Claim, Settle, StartsRunning, Decide, RunCommands, Finish, At
      <4> QED BY <4>2, <4>3, <4>4 DEF ProgressNext
    <3> QED BY <1>3, <3>1
  <2> QED BY <1>3, <2>1, <2>2, FromBegin, FromPreflight, FromFull, FromWork DEF Stages
<1> QED BY <1>1, <1>2, <1>3

\* A set with one element, and one with at most one.
LEMMA OneHas ==
  ASSUME NEW S, NEW x, S = {x}
  PROVE  Cardinality(S) = 1
BY FS_Singleton

\* As many as one set has and another.
LEMMA DisjointSum ==
  ASSUME NEW S, NEW T, IsFiniteSet(S), IsFiniteSet(T), S \cap T = {}
  PROVE  /\ IsFiniteSet(S \cup T)
         /\ Cardinality(S \cup T) = Cardinality(S) + Cardinality(T)
<1>1. Cardinality(S) \in Nat /\ Cardinality(T) \in Nat
  BY FS_CardinalityType
<1>2. Cardinality(S \cap T) = 0
  BY FS_EmptySet
<1>3. /\ IsFiniteSet(S \cup T)
      /\ Cardinality(S \cup T) = Cardinality(S) + Cardinality(T) - Cardinality(S \cap T)
  BY ONLY FS_Union, IsFiniteSet(S), IsFiniteSet(T)
<1> QED BY <1>1, <1>2, <1>3

\* What the stream of a build that was certified as a whole says, and of one that was not.
LEMMA FullStream ==
  ASSUME AllHit, stream = <<BuildStarted, AllCached, BuildFinished(TRUE)>>
  PROVE  StreamAgrees
<1> DEFINE a == BuildStarted
           b == AllCached
           c == BuildFinished(TRUE)
<1>1. /\ a.event = "build_started" /\ b.event = "all_cached" /\ c.event = "build_finished"
      /\ stream = <<a, b, c>> /\ c = BuildFinished(Success)
  BY AllHitSucceeds DEF BuildStarted, AllCached, BuildFinished
<1> HIDE DEF a, b, c
<1>2. /\ Len(stream) = 3 /\ DOMAIN stream = {1, 2, 3} /\ stream # <<>>
      /\ stream[1] = a /\ stream[2] = b /\ stream[3] = c /\ Head(stream) = a
  <2>1. stream = <<a, b, c>>
    BY <1>1
  <2>2. /\ Len(stream) = 3 /\ stream # <<>>
        /\ stream[1] = a /\ stream[2] = b /\ stream[3] = c
    BY ONLY <2>1
  <2>3. DOMAIN stream = 1..3
    BY ONLY <2>1
  <2>4. 1..3 = {1, 2, 3}
    OBVIOUS
  <2>5. Head(stream) = a
    BY ONLY <2>1
  <2> QED BY ONLY <2>2, <2>3, <2>4, <2>5
<1>3. Lines("build_finished") = {3} /\ Lines("all_cached") = {2}
  BY <1>1, <1>2 DEF Lines
<1>4. Last(stream) = BuildFinished(Success)
  BY <1>1, <1>2 DEF Last
<1>5. Cardinality(Lines("build_finished")) = 1
  BY <1>3, OneHas
<1>6. Head(stream) = BuildStarted
  BY <1>2 DEF a
<1>7. certified = All
  BY DEF AllHit
<1> QED BY <1>2, <1>3, <1>4, <1>5, <1>6, <1>7 DEF StreamAgrees

LEMMA WorkStream ==
  ASSUME WorkInv, phase = "ended", sent = <<>>, stream # None, certified # All
  PROVE  StreamAgrees
<1>1. /\ LogInv(stream, sent, Begun, Reported, outcomes)
      /\ Closed(Log, Success) /\ \A w \in Workers : pool[w].at = "idle"
  BY DEF WorkInv, Closing, Said
<1>2. stream \in Seq(ProgressEvents) /\ Log = stream
  <2>1. stream \in Seq(ProgressEvents)
    BY <1>1 DEF LogInv, Streams
  <2>2. stream \o <<>> = stream
    BY <2>1
  <2> QED BY <2>1, <2>2 DEF Log, LogOf
<1>3. /\ LogSound(stream, Begun, Reported, outcomes) /\ stream # <<>> /\ stream[1] = BuildStarted
      /\ LogComplete(stream, Begun, Reported) /\ Closed(stream, Success)
  BY <1>1, <1>2 DEF LogInv, Log
<1>4. DOMAIN stream = 1..Len(stream) /\ Len(stream) \in Nat /\ Len(stream) # 0
  <2> DEFINE Events == ProgressEvents
  <2>1. stream \in Seq(Events) /\ stream # <<>>
    BY <1>2, <1>3
  <2> HIDE DEF Events
  <2> QED BY ONLY <2>1
<1>5. Len(stream) \in DOMAIN stream /\ Head(stream) = stream[1] /\ Last(stream) = stream[Len(stream)]
  BY <1>2, <1>3, <1>4 DEF Last
<1>6. Lines("build_finished") = {Len(stream)}
  BY <1>3, <1>5 DEF Lines, Closed, BuildFinished
<1>7. Begun = Decided \ certified /\ Reported = Decided
  BY <1>1 DEF Begun, Reported, BusySlots, Publishing
<1>8. ASSUME NEW kind \in {"action_started", "action_finished"}, NEW a
      PROVE  /\ Told(stream, kind, a) => Cardinality(LinesOf(kind, a)) = 1
             /\ ~Told(stream, kind, a) => Cardinality(LinesOf(kind, a)) = 0
  <2>1. ASSUME NEW i \in DOMAIN stream, stream[i].event = kind, stream[i].of = a
        PROVE  LinesOf(kind, a) = {i}
    BY <1>3, <2>1 DEF LinesOf, Lines, LogSound, ToldOnce
  <2>2. Told(stream, kind, a) => Cardinality(LinesOf(kind, a)) = 1
    BY <2>1, OneHas DEF Told
  <2>3. ~Told(stream, kind, a) => LinesOf(kind, a) = {}
    BY DEF Told, LinesOf, Lines
  <2> QED BY <2>2, <2>3, FS_EmptySet
<1>9. ASSUME NEW a \in All
      PROVE  /\ Told(stream, "action_started", a) <=> a \in Decided \ certified
             /\ Told(stream, "action_finished", a) <=> a \in Decided
             /\ \A i \in LinesOf("action_finished", a) : stream[i].result = outcomes[a]
             /\ \A i \in LinesOf("action_started", a), j \in LinesOf("action_finished", a) : i < j
  <2>1. Told(stream, "action_started", a) <=> a \in Decided \ certified
    BY <1>3, <1>7 DEF LogSound, LogComplete, Truthful, Told
  <2>2. Told(stream, "action_finished", a) <=> a \in Decided
    BY <1>3, <1>7 DEF LogSound, LogComplete, Truthful, Told
  <2>3. \A i \in LinesOf("action_finished", a) : stream[i].result = outcomes[a]
    BY <1>3 DEF LogSound, Truthful, LinesOf, Lines
  <2>4. \A i \in LinesOf("action_started", a), j \in LinesOf("action_finished", a) : i < j
    BY <1>3 DEF LogSound, StartsFirst, LinesOf, Lines
  <2> QED BY <2>1, <2>2, <2>3, <2>4
<1>10. Cardinality(Lines("build_finished")) = 1
  BY <1>6, OneHas
<1>11. ASSUME NEW a \in All
       PROVE  /\ Cardinality(LinesOf("action_started", a)) =
                   IF a \in Decided \ certified THEN 1 ELSE 0
              /\ Cardinality(LinesOf("action_finished", a)) = IF a \in Decided THEN 1 ELSE 0
  BY <1>8, <1>9
<1>12. Head(stream) = BuildStarted /\ Last(stream) = BuildFinished(Success)
  BY <1>3, <1>5 DEF Closed
<1> QED BY <1>3, <1>9, <1>10, <1>11, <1>12 DEF StreamAgrees

\* What the display of a build shows at its end.
LEMMA FullDisplay ==
  ASSUME closure \in Closures, AllHit, ShowsAll(3) PROVE DisplayAgrees
<1>1. \A a \in All : ResultOf(a) = "cached"
  BY DEF AllHit, ResultOf, Decided
<1>2. /\ Count("cached") = Total /\ Count("failed") = 0 /\ Count("executed") = 0
      /\ Count("flaky") = 0
  <2>1. {a \in All : ResultOf(a) = "cached"} = All
    BY <1>1
  <2>2. /\ {a \in All : ResultOf(a) = "failed"} = {} /\ {a \in All : ResultOf(a) = "executed"} = {}
        /\ {a \in All : ResultOf(a) = "flaky"} = {}
    BY <1>1
  <2> QED BY <2>1, <2>2, FS_EmptySet DEF Count, Total
<1>3. Success = TRUE
  BY AllHitSucceeds
<1>4. None \notin AtWork
  BY ProgressAssumption DEF AtWork
<1>5. ASSUME display.on = "live"
      PROVE  /\ display.hits = Count("cached") /\ display.failures = Count("failed")
             /\ display.success = Success
             /\ \A w \in Workers : display.rows[w].status \notin {"checking cache", "running/miss"}
  BY <1>2, <1>3, <1>4, <1>5 DEF ShowsAll, Shows, AtWork
<1>6. ASSUME display.on = "plain"
      PROVE  Len(display.printed) = 0 /\ DOMAIN display.printed = {}
  <2>1. display.printed = <<>>
    BY <1>6 DEF ShowsAll, Shows
  <2> QED BY <2>1
<1>7. Len(display.printed) = 0 =>
        Len(display.printed) = Count("executed") + Count("flaky") + Count("failed")
  BY <1>2
<1> QED BY <1>5, <1>6, <1>7 DEF DisplayAgrees

LEMMA WorkDisplay ==
  ASSUME WorkInv, phase = "ended", sent = <<>> PROVE DisplayAgrees
<1>1. /\ PoolInv /\ Said(stream, sent, display, Begun, Reported, outcomes, BusySlots, Awaited)
      /\ ToldSuccess(display, sent, Success) /\ \A w \in Workers : pool[w].at = "idle"
      /\ display.on = "live" => invocation.live
  BY DEF WorkInv, Closing
<1>2. Reported = Decided /\ BusySlots = {} /\ IsFiniteSet(All) /\ Decided \subseteq All
  <2>1. Reported = Decided /\ BusySlots = {}
    BY <1>1 DEF Reported, BusySlots, Publishing
  <2> QED BY <1>1, <2>1, PoolSets DEF PoolInv
<1>3. ASSUME NEW kinds, "skipped" \notin kinds
      PROVE  Received(sent, Reported, outcomes, kinds) = {a \in All : ResultOf(a) \in kinds}
  <2>1. \A a : ~Told(sent, "action_finished", a)
    BY DEF Told
  <2> QED BY <1>2, <1>3, <2>1 DEF Received, ResultOf
<1>4. ASSUME display.on = "live"
      PROVE  /\ display.hits = Count("cached") /\ display.failures = Count("failed")
             /\ display.success = Success
             /\ \A w \in Workers : display.rows[w].status \notin {"checking cache", "running/miss"}
  <2>1. LiveInv(display, sent, Begun, Reported, outcomes, BusySlots) /\ ReadsHits
    BY <1>1, <1>4 DEF Said, ReadsHits
  <2>2. /\ Received(sent, Reported, outcomes, {"cached"}) = {a \in All : ResultOf(a) = "cached"}
        /\ Received(sent, Reported, outcomes, {"failed"}) = {a \in All : ResultOf(a) = "failed"}
    <3>1. /\ Received(sent, Reported, outcomes, {"cached"}) = {a \in All : ResultOf(a) \in {"cached"}}
          /\ Received(sent, Reported, outcomes, {"failed"}) = {a \in All : ResultOf(a) \in {"failed"}}
      BY <1>3
    <3> QED BY <3>1
  <2>3. display.hits = Count("cached") /\ display.failures = Count("failed")
    BY <2>1, <2>2 DEF LiveInv, Count
  <2>4. \A i, w : ~Frees(sent, i, w)
    BY DEF Frees
  <2>5. \A w \in Workers : display.rows[w].status \notin AtWork
    BY <1>2, <2>1, <2>4 DEF LiveInv, RowsSound
  <2>6. display.success = Success
    BY <1>1, <1>4 DEF ToldSuccess
  <2> QED BY <2>3, <2>5, <2>6 DEF AtWork
<1>5. ASSUME display.on = "plain"
      PROVE  /\ Len(display.printed) = Count("executed") + Count("flaky") + Count("failed")
             /\ \A i \in DOMAIN display.printed :
                  LET line == display.printed[i] IN
                  /\ line.result = outcomes[line.of]
                  /\ line.output = (line.result # "failed")
  <2>1. PlainInv(display, sent, Reported, outcomes, Awaited)
    BY <1>1, <1>5, ProgressAssumption DEF Said
  <2> DEFINE has(result) == {a \in All : ResultOf(a) = result}
  <2>2. Received(sent, Reported, outcomes, Printing) = has("executed") \cup has("flaky") \cup has("failed")
    <3>1. Received(sent, Reported, outcomes, Printing) = {a \in All : ResultOf(a) \in Printing}
      BY <1>3 DEF Printing, RunResults
    <3> QED BY <3>1 DEF Printing, RunResults
  <2>3. /\ IsFiniteSet(has("executed")) /\ IsFiniteSet(has("flaky")) /\ IsFiniteSet(has("failed"))
    BY <1>2, FS_Subset
  <2>4. /\ has("executed") \cap has("flaky") = {}
        /\ (has("executed") \cup has("flaky")) \cap has("failed") = {}
    OBVIOUS
  <2>5. /\ Cardinality(has("executed")) = Count("executed")
        /\ Cardinality(has("flaky")) = Count("flaky")
        /\ Cardinality(has("failed")) = Count("failed")
    BY DEF Count
  <2> HIDE DEF has
  <2>6. /\ IsFiniteSet(has("executed") \cup has("flaky"))
        /\ Cardinality(has("executed") \cup has("flaky")) = Count("executed") + Count("flaky")
    BY <2>3, <2>4, <2>5, DisjointSum
  <2>7. Cardinality(has("executed") \cup has("flaky") \cup has("failed")) =
          Count("executed") + Count("flaky") + Count("failed")
    BY <2>3, <2>4, <2>5, <2>6, DisjointSum
  <2> QED BY <2>1, <2>2, <2>7 DEF PlainInv
<1> QED BY <1>4, <1>5 DEF DisplayAgrees

LEMMA ProgressMeans == ProgressInv => EveryoneIsTold
<1> SUFFICES ASSUME ProgressInv, phase = "ended", exitCode # "error"
             PROVE  /\ stream # None => StreamAgrees
                    /\ DisplayAgrees
                    /\ ~interrupted => (exitCode = "0" <=> Success)
  BY DEF EveryoneIsTold
<1>1. Stages /\ closure \in Closures
  BY DEF ProgressInv
<1>2. CASE CertificateInv
  <2>1. stream # None => StreamAgrees
    BY <1>2, FullStream DEF CertificateInv
  <2>2. display.on = None
    BY <1>2 DEF CertificateInv, Blank
  <2>3. DisplayAgrees
    BY <2>2, ProgressAssumption DEF DisplayAgrees
  <2>4. Success /\ exitCode = "0"
    BY <1>2, AllHitSucceeds DEF CertificateInv
  <2> QED BY <2>1, <2>3, <2>4
<1>3. CASE FullInv /\ Rendering
  <2>1. sent = <<>> /\ (~interrupted => (exitCode = "0" <=> Success))
    BY <1>3 DEF Rendering
  <2>2. Part(3, <<BuildStarted, AllCached, BuildFinished(TRUE)>>, <<>>)
    BY <1>3, <2>1 DEF FullInv, Part
  <2>3. stream # None => StreamAgrees
    BY <1>3, <2>2, FullStream DEF FullInv, Part
  <2>4. DisplayAgrees
    BY <1>1, <1>3, <2>2, FullDisplay DEF FullInv, Part
  <2> QED BY <2>1, <2>3, <2>4
<1>4. CASE certified # All /\ WorkInv /\ Rendering
  <2>1. sent = <<>> /\ (~interrupted => (exitCode = "0" <=> Success))
    BY <1>4 DEF Rendering
  <2> QED BY <1>4, <2>1, WorkStream, WorkDisplay
<1> QED BY <1>1, <1>2, <1>3, <1>4 DEF Stages

-----------------------------------------------------------------------------
(* REAPI: a batch ends where the next blob would be too much for the server,  *)
(* and what is on its way to the server is what has not been sent.            *)

\* What f says of the first n blobs is what they come to.
Adds(f, n, blobs, extra) ==
  /\ f \in [0..n -> Nat] /\ f[0] = 0
  /\ \A i \in 1..n : f[i] = f[i - 1] + Size(blobs[i]) + extra

\* There is such a function for every number of blobs.
LEMMA SomethingAdds ==
  ASSUME NEW blobs \in Seq(Blobs), NEW extra \in Nat
  PROVE  \E f : Adds(f, Len(blobs), blobs, extra)
<1> DEFINE Sizes == 0..Len(blobs)
           S == {n \in Sizes : ~\E f : Adds(f, n, blobs, extra)}
<1>1. Len(blobs) \in Nat /\ \A i \in 1..Len(blobs) : Size(blobs[i]) \in Nat
  BY LenProperties, ElementOfSeq, ReapiAssumption
<1>2. S = {}
  <2> SUFFICES ASSUME S # {} PROVE FALSE
    OBVIOUS
  <2>1. PICK n \in S : \A m \in S : n <= m
    <3> HIDE DEF S
    <3> S \subseteq Nat
      BY <1>1 DEF S
    <3> QED BY LeastNumber
  <2>2. n \in 0..Len(blobs) /\ ~\E f : Adds(f, n, blobs, extra)
    OBVIOUS
  <2>3. CASE n = 0
    <3>1. Adds([i \in 0..0 |-> 0], 0, blobs, extra)
      BY DEF Adds
    <3> QED BY <2>2, <2>3, <3>1
  <2>4. CASE n # 0
    <3>1. n - 1 \in Sizes /\ n - 1 \notin S /\ n \in 1..Len(blobs)
      BY <1>1, <2>1, <2>2, <2>4
    <3>2. PICK f : Adds(f, n - 1, blobs, extra)
      BY <3>1
    <3> DEFINE g == [i \in 0..n |-> IF i = n THEN f[n - 1] + Size(blobs[n]) + extra ELSE f[i]]
    <3>3. f[n - 1] \in Nat /\ Size(blobs[n]) \in Nat
      BY <1>1, <3>1, <3>2 DEF Adds
    <3>4. g \in [0..n -> Nat]
      BY <3>1, <3>2, <3>3 DEF Adds
    <3>5. ASSUME NEW i \in 1..n PROVE g[i] = g[i - 1] + Size(blobs[i]) + extra
      <4>1. i \in 0..n /\ i - 1 \in 0..n /\ i - 1 # n
        BY <3>1, <3>5
      <4>2. g[i - 1] = f[i - 1]
        BY <4>1
      <4>3. CASE i = n
        BY <4>1, <4>2, <4>3
      <4>4. CASE i # n
        <5>1. i \in 1..(n - 1)
          BY <3>1, <3>5, <4>4
        <5>2. f[i] = f[i - 1] + Size(blobs[i]) + extra
          BY <3>2, <5>1 DEF Adds
        <5>3. g[i] = f[i]
          BY <4>1, <4>4
        <5> QED BY <4>2, <5>2, <5>3
      <4> QED BY <4>3, <4>4
    <3>6. g[0] = 0
      BY <2>4, <3>1, <3>2 DEF Adds
    <3> HIDE DEF g
    <3>7. Adds(g, n, blobs, extra)
      BY <3>4, <3>5, <3>6 DEF Adds
    <3> QED BY <2>2, <3>7
  <2> QED BY <2>3, <2>4
<1>3. Len(blobs) \in Sizes
  BY <1>1
<1> QED BY <1>2, <1>3

\* Two that add the same blobs and as much for each agree.
LEMMA AddsMore ==
  ASSUME NEW blobs \in Seq(Blobs), NEW others \in Seq(Blobs), NEW n \in Nat,
         n <= Len(blobs), n <= Len(others), \A i \in 1..n : blobs[i] = others[i],
         NEW extra \in Nat, NEW more \in Nat, extra <= more,
         NEW f, NEW g, Adds(f, n, blobs, extra), Adds(g, n, others, more)
  PROVE  \A i \in 0..n : f[i] <= g[i]
<1> DEFINE S == {i \in 0..n : ~(f[i] <= g[i])}
<1>1. Len(blobs) \in Nat /\ Len(others) \in Nat
  BY LenProperties
<1>2. \A i \in 1..n : Size(blobs[i]) \in Nat
  BY <1>1, ElementOfSeq, ReapiAssumption
<1>3. S = {}
  <2> SUFFICES ASSUME S # {} PROVE FALSE
    OBVIOUS
  <2>1. PICK i \in S : \A m \in S : i <= m
    <3> HIDE DEF S
    <3> S \subseteq Nat
      BY DEF S
    <3> QED BY LeastNumber
  <2>2. i # 0
    BY DEF Adds
  <2>3. i \in 1..n /\ i - 1 \in 0..n /\ i - 1 \notin S
    BY <2>1, <2>2
  <2>4. f[i - 1] <= g[i - 1] /\ f[i - 1] \in Nat /\ g[i - 1] \in Nat
    BY <2>3 DEF Adds
  <2>5. /\ f[i] = f[i - 1] + Size(blobs[i]) + extra
        /\ g[i] = g[i - 1] + Size(blobs[i]) + more
    BY <2>3 DEF Adds
  <2>6. f[i] <= g[i]
    BY <1>2, <2>3, <2>4, <2>5
  <2> QED BY <2>6
<1> QED BY <1>3

\* Sum is a recursive function that has a value for every number of blobs.
LEMMA SumAdds ==
  ASSUME NEW blobs \in Seq(Blobs), NEW extra \in Nat
  PROVE  Adds(Sum(blobs, extra), Len(blobs), blobs, extra)
<1> DEFINE Added(f) == [n \in 0..Len(blobs) |->
                         IF n = 0 THEN 0 ELSE f[n - 1] + Size(blobs[n]) + extra]
<1>1. Len(blobs) \in Nat
  BY LenProperties
<1>2. PICK f : Adds(f, Len(blobs), blobs, extra)
  BY SomethingAdds
<1>3. f = Added(f)
  <2>1. \A n \in 0..Len(blobs) : f[n] = Added(f)[n]
    <3> TAKE n \in 0..Len(blobs)
    <3>1. CASE n = 0
      BY <1>2, <3>1 DEF Adds
    <3>2. CASE n # 0
      <4>1. n \in 1..Len(blobs)
        BY <1>1, <3>2
      <4> QED BY <1>2, <3>2, <4>1 DEF Adds
    <3> QED BY <3>1, <3>2
  <2> HIDE DEF Added
  <2>2. f = [n \in 0..Len(blobs) |-> f[n]]
    BY <1>2 DEF Adds
  <2>3. Added(f) = [n \in 0..Len(blobs) |-> Added(f)[n]]
    BY DEF Added
  <2> QED BY <2>1, <2>2, <2>3
<1>4. Sum(blobs, extra) = CHOOSE g : g = Added(g)
  BY DEF Sum
<1>5. Sum(blobs, extra) = Added(Sum(blobs, extra))
  <2> HIDE DEF Added
  <2> QED BY <1>3, <1>4
<1> DEFINE s == Sum(blobs, extra)
           S == {i \in 0..Len(blobs) : s[i] # f[i]}
<1>6. /\ s[0] = 0
      /\ \A i \in 1..Len(blobs) : s[i] = s[i - 1] + Size(blobs[i]) + extra
  <2> HIDE DEF s
  <2>1. s = Added(s)
    BY <1>5 DEF s
  <2>2. \A n \in 0..Len(blobs) : s[n] = IF n = 0 THEN 0 ELSE s[n - 1] + Size(blobs[n]) + extra
    BY <2>1, Zenon
  <2> QED BY <1>1, <2>2
<1> HIDE DEF s
<1>7. S = {}
  <2> SUFFICES ASSUME S # {} PROVE FALSE
    OBVIOUS
  <2>1. PICK i \in S : \A m \in S : i <= m
    <3> HIDE DEF S
    <3> S \subseteq Nat
      BY <1>1 DEF S
    <3> QED BY LeastNumber
  <2>2. i # 0
    BY <1>2, <1>6 DEF Adds
  <2>3. i \in 1..Len(blobs) /\ i - 1 \in 0..Len(blobs) /\ i - 1 \notin S
    BY <1>1, <2>1, <2>2
  <2>4. s[i - 1] = f[i - 1]
    BY <2>3
  <2>5. s[i] = f[i]
    BY <1>2, <1>6, <2>3, <2>4 DEF Adds
  <2> QED BY <2>5
<1>8. \A i \in 0..Len(blobs) : s[i] = f[i] /\ f[i] \in Nat
  BY <1>2, <1>7 DEF Adds
<1>9. s \in [0..Len(blobs) -> Nat]
  <2>1. s = [n \in 0..Len(blobs) |-> IF n = 0 THEN 0 ELSE s[n - 1] + Size(blobs[n]) + extra]
    BY <1>5 DEF s
  <2>2. DOMAIN s = 0..Len(blobs) /\ s = [n \in 0..Len(blobs) |-> s[n]]
    BY <2>1, Zenon
  <2> QED BY <1>8, <2>2
<1> QED BY <1>6, <1>9 DEF Adds, s

\* A batch is a part of what is to be sent, and not more than the server takes.
LEMMA BatchFits ==
  ASSUME NEW blobs \in Seq(Blobs), blobs # <<>>, \A i \in DOMAIN blobs : ~Large(blobs[i])
  PROVE  /\ BatchEnd(blobs) \in 1..Len(blobs)
         /\ Batch(blobs) \in Seq(Blobs) /\ Len(Batch(blobs)) = BatchEnd(blobs)
         /\ \A i \in 1..BatchEnd(blobs) : Batch(blobs)[i] = blobs[i]
         /\ Sum(Batch(blobs), 0)[Len(Batch(blobs))] <= Limit
<1> DEFINE IsEnd(n) == /\ \A i \in 1..n : Fits(blobs, i)
                       /\ n + 1 \in DOMAIN blobs => ~Fits(blobs, n + 1)
           S == {n \in 1..Len(blobs) : n + 1 \in DOMAIN blobs => ~Fits(blobs, n + 1)}
<1>1. Len(blobs) \in Nat \ {0} /\ DOMAIN blobs = 1..Len(blobs)
  BY EmptySeq, LenProperties
<1>2. PICK n \in S : \A m \in S : n <= m
  <2>1. S \subseteq Nat
    BY <1>1
  <2>2. Len(blobs) \in S
    BY <1>1
  <2> HIDE DEF S
  <2> QED BY <2>1, <2>2, LeastNumber
<1>3. n \in 1..Len(blobs) /\ IsEnd(n)
  <2>1. ASSUME NEW i \in 1..n PROVE Fits(blobs, i)
    <3>1. CASE i = 1
      BY <3>1 DEF Fits
    <3>2. CASE i # 1
      <4>1. i - 1 \in 1..Len(blobs) /\ ~(n <= i - 1) /\ i - 1 + 1 = i
        BY <1>1, <3>2
      <4>2. i - 1 \notin S
        BY <1>2, <4>1
      <4> QED BY <4>1, <4>2
    <3> QED BY <3>1, <3>2
  <2> QED BY <2>1
<1> DEFINE e == BatchEnd(blobs)
           b == Batch(blobs)
<1>4. e \in 1..Len(blobs) /\ IsEnd(e)
  <2>1. e = CHOOSE k \in DOMAIN blobs : IsEnd(k)
    BY DEF BatchEnd
  <2> HIDE DEF IsEnd, e
  <2> QED BY <1>1, <1>3, <2>1
<1>5. b \in Seq(Blobs) /\ Len(b) = e /\ \A i \in 1..e : b[i] = blobs[i]
  <2> HIDE DEF e
  <2>1. b = SubSeq(blobs, 1, e)
    BY DEF Batch, e
  <2>2. \A i \in 1..e : blobs[i] \in Blobs
    BY <1>1, <1>4, ElementOfSeq
  <2>3. /\ SubSeq(blobs, 1, e) \in Seq(Blobs)
        /\ Len(SubSeq(blobs, 1, e)) = IF 1 <= e THEN e - 1 + 1 ELSE 0
        /\ \A i \in 1..(e - 1 + 1) : SubSeq(blobs, 1, e)[i] = blobs[1 + i - 1]
    BY <1>1, <1>4, <2>2, SubSeqProperties
  <2> HIDE DEF b
  <2>4. e - 1 + 1 = e /\ 1 <= e /\ e \in Nat
    BY <1>1, <1>4
  <2> QED BY <2>1, <2>3, <2>4
<1>6. Fits(blobs, e)
  BY <1>4
<1>7. Sum(b, 0)[e] <= Limit
  <2> HIDE DEF e, b, IsEnd
  <2>1. Adds(Sum(b, 0), e, b, 0) /\ e \in Nat /\ e <= Len(blobs)
    BY <1>1, <1>4, <1>5, SumAdds
  <2>2. CASE e = 1
    <3>1. 1 \in 1..1 /\ Size(blobs[1]) \in Nat /\ ~Large(blobs[1])
      BY <1>1, ElementOfSeq, ReapiAssumption
    <3>2. Sum(b, 0)[1] = Sum(b, 0)[1 - 1] + Size(b[1]) + 0 /\ Sum(b, 0)[0] = 0
      BY <2>1, <2>2, <3>1 DEF Adds
    <3>3. Sum(b, 0)[1] = Size(blobs[1])
      BY <1>5, <2>2, <3>1, <3>2
    <3> QED BY <2>2, <3>1, <3>3, ReapiAssumption DEF Large
  <2>3. CASE e # 1
    <3>1. Adds(Sum(blobs, Overhead), Len(blobs), blobs, Overhead)
      BY SumAdds, ReapiAssumption
    <3> DEFINE all == Sum(blobs, Overhead)
               g == [i \in 0..e |-> all[i]]
    <3>2. Adds(g, e, blobs, Overhead) /\ g[e] = all[e] /\ all[e] \in Nat
      <4>1. e \in Nat /\ e <= Len(blobs) /\ Len(blobs) \in Nat
        BY <1>1, <2>1
      <4> HIDE DEF all
      <4>2. /\ all \in [0..Len(blobs) -> Nat] /\ all[0] = 0
            /\ \A i \in 1..Len(blobs) : all[i] = all[i - 1] + Size(blobs[i]) + Overhead
        BY <3>1 DEF Adds, all
      <4>3. \A i \in 0..e : i \in 0..Len(blobs) /\ g[i] = all[i] /\ all[i] \in Nat
        <5> TAKE i \in 0..e
        <5>1. i \in 0..Len(blobs)
          BY <4>1
        <5>2. g[i] = all[i]
          OBVIOUS
        <5>3. all[i] \in Nat
          BY <4>2, <5>1
        <5> QED BY <5>1, <5>2, <5>3
      <4>4. \A i \in 1..e : i \in 1..Len(blobs) /\ i \in 0..e /\ i - 1 \in 0..e
        BY <4>1
      <4>5. \A i \in 1..e : g[i] = g[i - 1] + Size(blobs[i]) + Overhead
        BY <4>2, <4>3, <4>4
      <4>6. g \in [0..e -> Nat] /\ 0 \in 0..e /\ e \in 0..e
        BY <4>1, <4>3
      <4> HIDE DEF g
      <4> QED BY <4>2, <4>3, <4>5, <4>6 DEF Adds
    <3>3. g[e] = Sum(blobs, Overhead)[e] /\ Sum(blobs, Overhead)[e] \in Nat
      BY <3>2
    <3>4. Sum(blobs, Overhead)[e] <= Limit
      BY <1>6, <2>3 DEF Fits
    <3> HIDE DEF g
    <3>5. Sum(b, 0)[e] <= g[e]
      <4>1. 0 <= Overhead /\ Overhead \in Nat /\ e <= Len(b) /\ e \in 0..e
        BY <1>5, <2>1, ReapiAssumption
      <4>2. \A i \in 0..e : Sum(b, 0)[i] <= g[i]
        BY <1>5, <2>1, <3>2, <4>1, AddsMore
      <4> QED BY <4>1, <4>2
    <3>6. Sum(b, 0)[e] \in Nat
      BY <2>1 DEF Adds
    <3> QED BY <3>3, <3>4, <3>5, <3>6, ReapiAssumption
  <2> QED BY <2>2, <2>3
<1> QED BY <1>4, <1>5, <1>7

CallKinds == {"upload", "publish", "download", "result", "execute", "missing"}
CallTypes == [kind : CallKinds, key : Keys \cup Blobs \cup Uploads,
              left : Seq(Blobs), small : Seq(Blobs), sent : Nat]

\* What a call has to store is on the server, or is still to be sent, and none of it twice.
Covers(c) ==
  /\ ToSet(ToStore(c)) \subseteq cas \cup ToSet(c.left) \cup ToSet(c.small)
  /\ c.sent + Len(c.left) + Len(c.small) = Len(ToStore(c))

\* A call under way is the one that was asked for, and nothing has been answered yet.
UnderWay(c) ==
  /\ c \in CallTypes /\ c.kind = asked.kind /\ c.key = asked.key
  /\ \A i \in DOMAIN c.small : ~Large(c.small[i])
  /\ c.kind \in {"upload", "publish"} => Covers(c)

ReapiInv ==
  /\ call # None => UnderWay(call) /\ response.status # "ok"
  /\ NothingIsTrusted

\* When no call was made nothing is trusted, and the action cache names nothing.
LEMMA ReapiStart == ReapiInit => ReapiInv
BY DEF ReapiInit, ReapiInv, NothingIsTrusted, NoResponse

\* What is uploaded is left to be sent.
LEMMA UploadIs ==
  ASSUME NEW kind, NEW key, NEW blobs
  PROVE  Upload(kind, key, blobs)
           = [kind |-> kind, key |-> key, left |-> blobs, small |-> <<>>, sent |-> 0]
BY DEF Upload, Request

\* What a call has to store is put on its way as a whole.
LEMMA ReapiBegins == ASSUME ReapiInv, BeginCall PROVE ReapiInv'
<1>1. PICK request \in Requests :
        /\ asked' = request /\ UNCHANGED <<offers, cas, results>>
        /\ \/ call' = request /\ response' = NoResponse
           \/ response' = Error /\ UNCHANGED call
  BY DEF BeginCall
<1>2. call = None
  BY DEF BeginCall
<1> DEFINE Whole(r) ==
             /\ r \in CallTypes /\ r.small = <<>> /\ r.sent = 0
             /\ r.kind \in {"upload", "publish"} => r.left = ToStore(r)
<1>3. Whole(request)
  <2>1. <<>> \in Seq(Blobs)
    BY EmptySeq
  <2>2. ASSUME NEW blobs \in Uploads, request = Upload("upload", blobs, blobs)
        PROVE  Whole(request)
    <3>1. blobs \in Seq(Blobs)
      BY ReapiAssumption
    <3>2. request = [kind |-> "upload", key |-> blobs, left |-> blobs, small |-> <<>>,
                     sent |-> 0]
      BY <2>2, UploadIs
    <3> QED BY <2>1, <3>1, <3>2 DEF CallTypes, CallKinds, ToStore
  <2>3. ASSUME NEW k \in Keys, request = PublishResult(k) PROVE Whole(request)
    <3>1. ActionBlobs(k) \in Seq(Blobs)
      BY ReapiAssumption
    <3>2. request = [kind |-> "publish", key |-> k, left |-> ActionBlobs(k), small |-> <<>>,
                     sent |-> 0]
      BY <2>3, UploadIs DEF PublishResult
    <3> QED BY <2>1, <3>1, <3>2 DEF CallTypes, CallKinds, ToStore
  <2>4. ASSUME NEW kind \in {"download", "result", "execute", "missing"},
               NEW key \in Keys \cup Blobs \cup Uploads, request = Request(kind, key)
        PROVE  Whole(request)
    <3>1. request = [kind |-> kind, key |-> key, left |-> <<>>, small |-> <<>>, sent |-> 0]
      BY <2>4 DEF Request
    <3> QED BY <2>1, <3>1 DEF CallTypes, CallKinds
  <2> HIDE DEF Whole
  <2> QED BY <2>2, <2>3, <2>4 DEF Requests
<1>4. call' # None => UnderWay(call)' /\ response'.status # "ok"
  <2>1. CASE call' = request /\ response' = NoResponse
    <3>1. /\ call'.kind = asked'.kind /\ call'.key = asked'.key /\ response'.status # "ok"
          /\ call' \in CallTypes /\ call'.small = <<>> /\ DOMAIN call'.small = {}
      BY <1>1, <1>3, <2>1 DEF NoResponse
    <3>2. ASSUME call'.kind \in {"upload", "publish"} PROVE Covers(call)'
      <4>1. /\ request.left = ToStore(request) /\ Len(request.left) \in Nat
            /\ Len(request.small) = 0 /\ request.sent = 0
        BY <1>3, <2>1, <3>2, LenProperties, EmptySeq DEF CallTypes
      <4>2. ToStore(call)' = ToStore(request)
        BY <2>1 DEF ToStore
      <4> QED BY <2>1, <4>1, <4>2 DEF Covers
    <3> QED BY <3>1, <3>2 DEF UnderWay
  <2>2. CASE response' = Error /\ UNCHANGED call
    BY <1>2, <2>2
  <2> QED BY <1>1, <2>1, <2>2
<1>5. NothingIsTrusted'
  BY <1>1 DEF ReapiInv, NothingIsTrusted, NoResponse, Error
<1> QED BY <1>4, <1>5 DEF ReapiInv

\* A failure is no answer, and costs the server nothing.
LEMMA ReapiFails ==
  ASSUME ReapiInv, Fails, cas \subseteq cas', UNCHANGED results
  PROVE  ReapiInv'
BY DEF ReapiInv, NothingIsTrusted, Fails, Error

\* While a call goes on, what the server has stays.
LEMMA ReapiGoesOn ==
  ASSUME ReapiInv, call # None, cas \subseteq cas', UNCHANGED <<results, response>>,
         UnderWay(call)'
  PROVE  ReapiInv'
BY DEF ReapiInv, NothingIsTrusted

\* What a sequence holds, by its first blob and with one more.
LEMMA ToSetHas ==
  ASSUME NEW blobs \in Seq(Blobs)
  PROVE  /\ blobs # <<>> => ToSet(blobs) = {Head(blobs)} \cup ToSet(Tail(blobs))
         /\ \A b \in Blobs : ToSet(Append(blobs, b)) = ToSet(blobs) \cup {b}
<1>1. Len(blobs) \in Nat /\ DOMAIN blobs = 1..Len(blobs)
  BY LenProperties
<1>2. ASSUME blobs # <<>> PROVE ToSet(blobs) = {Head(blobs)} \cup ToSet(Tail(blobs))
  <2>1. /\ Tail(blobs) \in Seq(Blobs) /\ Len(Tail(blobs)) = Len(blobs) - 1
        /\ \A i \in 1..Len(Tail(blobs)) : Tail(blobs)[i] = blobs[i + 1]
    BY <1>2, HeadTailProperties
  <2>2. DOMAIN Tail(blobs) = 1..(Len(blobs) - 1) /\ Len(blobs) # 0
    BY <1>2, <2>1, LenProperties, EmptySeq
  <2>3. Head(blobs) = blobs[1]
    OBVIOUS
  <2>4. ASSUME NEW x \in ToSet(blobs) PROVE x \in {Head(blobs)} \cup ToSet(Tail(blobs))
    <3>1. PICK i \in 1..Len(blobs) : blobs[i] = x
      BY <1>1 DEF ToSet
    <3>2. CASE i = 1
      BY <2>3, <3>1, <3>2
    <3>3. CASE i # 1
      <4>1. i - 1 \in DOMAIN Tail(blobs) /\ i - 1 + 1 = i
        BY <1>1, <2>2, <3>3
      <4>2. Tail(blobs)[i - 1] = x
        BY <2>1, <2>2, <3>1, <4>1
      <4> QED BY <4>1, <4>2 DEF ToSet
    <3> QED BY <3>2, <3>3
  <2>5. ASSUME NEW x \in ToSet(Tail(blobs)) PROVE x \in ToSet(blobs)
    <3>1. PICK i \in 1..(Len(blobs) - 1) : Tail(blobs)[i] = x
      BY <2>2 DEF ToSet
    <3>2. i + 1 \in DOMAIN blobs /\ blobs[i + 1] = x
      BY <1>1, <2>1, <3>1
    <3> QED BY <3>2 DEF ToSet
  <2>6. Head(blobs) \in ToSet(blobs)
    <3>1. 1 \in DOMAIN blobs
      BY <1>1, <2>2
    <3> QED BY <2>3, <3>1 DEF ToSet
  <2> QED BY <2>4, <2>5, <2>6
<1>3. ASSUME NEW b \in Blobs PROVE ToSet(Append(blobs, b)) = ToSet(blobs) \cup {b}
  <2> DEFINE longer == Append(blobs, b)
  <2>1. /\ DOMAIN longer = 1..(Len(blobs) + 1) /\ longer[Len(blobs) + 1] = b
        /\ \A i \in 1..Len(blobs) : longer[i] = blobs[i]
    BY AppendProperties, LenProperties
  <2>2. 1..(Len(blobs) + 1) = 1..Len(blobs) \cup {Len(blobs) + 1}
    BY <1>1
  <2> HIDE DEF longer
  <2>3. {longer[i] : i \in DOMAIN longer} = {blobs[i] : i \in DOMAIN blobs} \cup {b}
    BY <1>1, <2>1, <2>2
  <2> QED BY <2>3 DEF ToSet, longer
<1> QED BY <1>2, <1>3

\* A large blob that is written is not left, and one that is put aside is small.
LEMMA ReapiTakes == ASSUME ReapiInv, WriteLarge \/ SetAside PROVE ReapiInv'
<1>1. call # None /\ call.left # <<>> /\ UnderWay(call)
  BY DEF ReapiInv, WriteLarge, SetAside
<1>2. UNCHANGED <<asked, results>>
  BY DEF WriteLarge, SetAside
<1>3. CASE Fails /\ UNCHANGED cas
  BY <1>2, <1>3, ReapiFails
<1> DEFINE b == Head(call.left)
           rest == Tail(call.left)
<1>4. /\ call \in CallTypes /\ b \in Blobs /\ rest \in Seq(Blobs)
      /\ Len(call.left) = Len(rest) + 1 /\ Len(rest) \in Nat
      /\ ToSet(call.left) = {b} \cup ToSet(rest)
  <2>1. call.left \in Seq(Blobs) /\ call \in CallTypes
    BY <1>1 DEF UnderWay, CallTypes
  <2>2. Len(call.left) \in Nat /\ Len(rest) \in Nat /\ rest \in Seq(Blobs)
    BY <1>1, <2>1, HeadTailProperties, LenProperties
  <2> QED BY <1>1, <2>1, <2>2, HeadTailProperties, ToSetHas
<1> HIDE DEF b, rest
<1>5. CASE /\ cas' = cas \cup {b} /\ UNCHANGED response
           /\ call' = [call EXCEPT !.left = rest, !.sent = @ + 1]
  <2>1. /\ call' \in CallTypes /\ call'.kind = call.kind /\ call'.key = call.key
        /\ call'.left = rest /\ call'.small = call.small /\ call'.sent = call.sent + 1
    <3>1. call.sent \in Nat
      BY <1>4 DEF CallTypes
    <3>2. call' = [kind |-> call.kind, key |-> call.key, left |-> rest, small |-> call.small,
                   sent |-> call.sent + 1]
      BY <1>4, <1>5, <3>1 DEF CallTypes
    <3> QED BY <1>4, <3>1, <3>2 DEF CallTypes
  <2>2. ToStore(call)' = ToStore(call)
    BY <2>1 DEF ToStore
  <2>3. Covers(call) => Covers(call)'
    <3>1. call.sent \in Nat /\ Len(call.small) \in Nat
      BY <1>4, LenProperties DEF CallTypes
    <3>2. call'.sent + Len(call'.left) + Len(call'.small)
            = call.sent + Len(call.left) + Len(call.small)
      BY <1>4, <2>1, <3>1
    <3>3. cas' \cup ToSet(call'.left) \cup ToSet(call'.small)
            = cas \cup ToSet(call.left) \cup ToSet(call.small)
      BY <1>4, <1>5, <2>1
    <3> QED BY <2>2, <3>2, <3>3 DEF Covers
  <2>4. UnderWay(call)'
    BY <1>1, <1>2, <2>1, <2>3 DEF UnderWay
  <2> QED BY <1>1, <1>2, <1>5, <2>4, ReapiGoesOn
<1>6. CASE /\ ~Large(b) /\ UNCHANGED <<cas, response>>
           /\ call' = [call EXCEPT !.left = rest, !.small = Append(@, b)]
  <2> DEFINE more == Append(call.small, b)
  <2>1. /\ more \in Seq(Blobs) /\ Len(more) = Len(call.small) + 1
        /\ ToSet(more) = ToSet(call.small) \cup {b} /\ Len(call.small) \in Nat
        /\ (\A i \in DOMAIN call.small : ~Large(call.small[i]))
             => \A i \in DOMAIN more : ~Large(more[i])
    <3>1. call.small \in Seq(Blobs)
      BY <1>4 DEF CallTypes
    <3>2. /\ more \in Seq(Blobs) /\ Len(more) = Len(call.small) + 1
          /\ \A i \in 1..Len(call.small) : more[i] = call.small[i]
          /\ more[Len(call.small) + 1] = b
      BY <1>4, <3>1, AppendProperties
    <3>3. ToSet(more) = ToSet(call.small) \cup {b}
      BY <1>4, <3>1, ToSetHas
    <3> HIDE DEF more
    <3>4. /\ DOMAIN more = 1..(Len(call.small) + 1) /\ DOMAIN call.small = 1..Len(call.small)
          /\ Len(call.small) \in Nat
      BY <3>1, <3>2, LenProperties
    <3>5. ASSUME \A i \in DOMAIN call.small : ~Large(call.small[i]), NEW i \in DOMAIN more
          PROVE  ~Large(more[i])
      BY <1>6, <3>2, <3>4, <3>5
    <3> QED BY <3>2, <3>3, <3>4, <3>5
  <2> HIDE DEF more
  <2>2. /\ call' \in CallTypes /\ call'.kind = call.kind /\ call'.key = call.key
        /\ call'.left = rest /\ call'.small = more /\ call'.sent = call.sent
    BY <1>4, <1>6, <2>1 DEF CallTypes, more
  <2>3. ToStore(call)' = ToStore(call)
    BY <2>2 DEF ToStore
  <2>4. Covers(call) => Covers(call)'
    <3>1. call.sent \in Nat
      BY <1>4 DEF CallTypes
    <3>2. call'.sent + Len(call'.left) + Len(call'.small)
            = call.sent + Len(call.left) + Len(call.small)
      <4>1. Len(call'.left) = Len(rest) /\ Len(call'.small) = Len(call.small) + 1
        BY <2>1, <2>2
      <4>2. Len(call.small) \in Nat /\ Len(rest) \in Nat /\ Len(call.left) = Len(rest) + 1
        BY <1>4, <2>1
      <4>3. call'.sent = call.sent
        BY <2>2
      <4>4. \A x, y, z \in Nat : x + y + (z + 1) = x + (y + 1) + z
        OBVIOUS
      <4>5. call.sent + Len(rest) + (Len(call.small) + 1)
              = call.sent + (Len(rest) + 1) + Len(call.small)
        BY <3>1, <4>2, <4>4
      <4> QED BY <4>1, <4>2, <4>3, <4>5, Zenon
    <3>3. cas' \cup ToSet(call'.left) \cup ToSet(call'.small)
            = cas \cup ToSet(call.left) \cup ToSet(call.small)
      BY <1>4, <1>6, <2>1, <2>2
    <3> QED BY <2>3, <3>2, <3>3 DEF Covers
  <2>5. UnderWay(call)'
    BY <1>1, <1>2, <2>1, <2>2, <2>4 DEF UnderWay
  <2> QED BY <1>1, <1>2, <1>6, <2>5, ReapiGoesOn
<1>7. WriteLarge => (Fails /\ UNCHANGED cas) \/ <1>5!1
  BY DEF WriteLarge, b, rest
<1>8. SetAside => <1>6!1
  BY DEF SetAside, b, rest
<1> QED BY <1>3, <1>5, <1>6, <1>7, <1>8

\* A batch is gone when it was answered for blob by blob.
LEMMA ReapiWritesBatch == ASSUME ReapiInv, WriteBatch PROVE ReapiInv'
<1> DEFINE blobs == call.small
           part == Batch(blobs)
           rest == SubSeq(blobs, Len(part) + 1, Len(blobs))
<1>1. /\ call # None /\ blobs # <<>> /\ UnderWay(call) /\ UNCHANGED <<asked, results>>
      /\ call \in CallTypes /\ blobs \in Seq(Blobs) /\ \A i \in DOMAIN blobs : ~Large(blobs[i])
  <2>1. call # None /\ blobs # <<>> /\ UnderWay(call) /\ UNCHANGED <<asked, results>>
    BY DEF ReapiInv, WriteBatch
  <2> QED BY <2>1 DEF UnderWay, CallTypes
<1>2. CASE Fails /\ cas \subseteq cas'
  BY <1>1, <1>2, ReapiFails
<1>3. ASSUME NEW n \in 0..Len(part), NEW answers \in [1..n -> {"stored", "rejected"}],
             Accepted(answers, part),
             cas' = cas \cup {part[i] : i \in {j \in 1..n : answers[j] = "stored"}},
             call' = [call EXCEPT !.small = rest, !.sent = @ + Len(part)],
             UNCHANGED response
      PROVE  ReapiInv'
  <2> DEFINE e == Len(part)
  <2> HIDE DEF blobs, part, rest, e
  <2>1. /\ e \in 1..Len(blobs) /\ Len(blobs) \in Nat /\ DOMAIN blobs = 1..Len(blobs)
        /\ \A i \in 1..e : part[i] = blobs[i]
    BY <1>1, BatchFits, LenProperties DEF part, e
  <2>2. n = e /\ \A i \in 1..e : answers[i] = "stored"
    <3>1. n \in Nat
      BY <2>1 DEF e
    <3>2. Len(answers) = n /\ DOMAIN answers = 1..n
      <4>1. answers \in Seq({"stored", "rejected"})
        BY <3>1
      <4> QED BY <3>1, <4>1, LenProperties
    <3> QED BY <1>3, <3>2 DEF Accepted, e
  <2>3. /\ rest \in Seq(Blobs) /\ Len(rest) = Len(blobs) - e
        /\ \A i \in 1..(Len(blobs) - e) : rest[i] = blobs[e + i]
    <3>1. \A i \in (e + 1)..Len(blobs) : blobs[i] \in Blobs
      BY <1>1, <2>1, ElementOfSeq
    <3>2. e + 1 \in Int /\ Len(blobs) \in Int
      BY <2>1
    <3>3. /\ rest \in Seq(Blobs)
          /\ Len(rest) = IF e + 1 <= Len(blobs) THEN Len(blobs) - (e + 1) + 1 ELSE 0
          /\ \A i \in 1..(Len(blobs) - (e + 1) + 1) : rest[i] = blobs[e + 1 + i - 1]
      BY <3>1, <3>2, SubSeqProperties DEF rest, e
    <3>4. Len(blobs) - (e + 1) + 1 = Len(blobs) - e /\ \A i \in Nat : e + 1 + i - 1 = e + i
      BY <2>1
    <3>5. Len(rest) = Len(blobs) - e
      <4>1. e \in Nat /\ e <= Len(blobs)
        BY <2>1
      <4>2. CASE e + 1 <= Len(blobs)
        BY <3>3, <3>4, <4>2
      <4>3. CASE ~(e + 1 <= Len(blobs))
        <5>1. Len(blobs) - e = 0
          BY <2>1, <4>1, <4>3
        <5> QED BY <3>3, <4>3, <5>1
      <4> QED BY <4>2, <4>3
    <3>6. \A i \in 1..(Len(blobs) - e) : rest[i] = blobs[e + i]
      <4> TAKE i \in 1..(Len(blobs) - e)
      <4>1. rest[i] = blobs[e + 1 + i - 1] /\ i \in Nat
        BY <3>3, <3>4
      <4> QED BY <3>4, <4>1
    <3> QED BY <3>3, <3>5, <3>6
  <2>4. DOMAIN rest = 1..(Len(blobs) - e)
    BY <2>3, LenProperties
  <2>5. \A i \in DOMAIN rest : ~Large(rest[i])
    <3> TAKE i \in DOMAIN rest
    <3>1. e + i \in 1..Len(blobs) /\ rest[i] = blobs[e + i]
      BY <2>1, <2>3, <2>4
    <3>2. ~Large(blobs[e + i])
      BY <1>1, <2>1, <3>1 DEF blobs
    <3> QED BY <3>1, <3>2
  <2>6. ToSet(blobs) \subseteq cas' \cup ToSet(rest)
    <3> SUFFICES ASSUME NEW i \in 1..Len(blobs) PROVE blobs[i] \in cas' \cup ToSet(rest)
      BY <2>1 DEF ToSet
    <3>1. CASE i <= e
      <4>1. i \in {j \in 1..n : answers[j] = "stored"} /\ part[i] = blobs[i]
        BY <2>1, <2>2, <3>1
      <4> QED BY <1>3, <4>1
    <3>2. CASE ~(i <= e)
      <4>1. i - e \in 1..(Len(blobs) - e) /\ e + (i - e) = i
        BY <2>1, <3>2
      <4>2. rest[i - e] = blobs[i]
        BY <2>3, <4>1
      <4> QED BY <2>4, <4>1, <4>2 DEF ToSet
    <3> QED BY <3>1, <3>2
  <2>7. /\ call' \in CallTypes /\ call'.kind = call.kind /\ call'.key = call.key
        /\ call'.left = call.left /\ call'.small = rest /\ call'.sent = call.sent + e
    <3>1. e \in Nat
      BY <2>1
    <3>2. call.sent \in Nat /\ call.sent + e \in Nat
      BY <1>1, <3>1 DEF CallTypes
    <3>3. call' = [kind |-> call.kind, key |-> call.key, left |-> call.left, small |-> rest,
                   sent |-> call.sent + e]
      BY <1>1, <1>3, <3>2 DEF CallTypes, e
    <3> QED BY <1>1, <2>3, <3>2, <3>3 DEF CallTypes
  <2>8. ToStore(call)' = ToStore(call)
    BY <2>7 DEF ToStore
  <2>9. Covers(call) => Covers(call)'
    <3>1. call.sent \in Nat /\ Len(call.left) \in Nat /\ cas \subseteq cas'
      BY <1>1, <1>3, LenProperties DEF CallTypes
    <3> QED BY <2>1, <2>3, <2>6, <2>7, <2>8, <3>1 DEF Covers, blobs
  <2>10. UnderWay(call)'
    BY <1>1, <2>5, <2>7, <2>9 DEF UnderWay
  <2>11. cas \subseteq cas'
    BY <1>3
  <2> QED BY <1>1, <1>3, <2>10, <2>11, ReapiGoesOn
<1>4. \/ Fails /\ cas \subseteq cas'
      \/ \E n \in 0..Len(part) : \E answers \in [1..n -> {"stored", "rejected"}] :
           /\ Accepted(answers, part) /\ UNCHANGED response
           /\ cas' = cas \cup {part[i] : i \in {j \in 1..n : answers[j] = "stored"}}
           /\ call' = [call EXCEPT !.small = rest, !.sent = @ + Len(part)]
  BY DEF WriteBatch
<1> QED BY <1>2, <1>3, <1>4

\* An answer is handed on after it was checked, and says no more than the server has.
LEMMA ReapiAnswers ==
  ASSUME ReapiInv,
         \/ EndUpload \/ UpdateActionResult \/ DownloadBlob \/ GetActionResult
         \/ FindMissingBlobs \/ Execute
  PROVE  ReapiInv'
<1>1. /\ call # None /\ UnderWay(call) /\ UNCHANGED <<asked, cas>>
      /\ call.left = <<>> /\ call.small = <<>>
  BY DEF ReapiInv, EndUpload, UpdateActionResult, DownloadBlob, GetActionResult,
         FindMissingBlobs, Execute, Sent
<1>2. /\ asked.kind = call.kind /\ asked.key = call.key
      /\ \A k \in results : ToSet(ActionBlobs(k)) \subseteq cas
  BY <1>1 DEF UnderWay, ReapiInv, NothingIsTrusted
<1>3. call.kind \in {"upload", "publish"} => ToSet(ToStore(call)) \subseteq cas
  BY <1>1 DEF UnderWay, Covers, ToSet
<1>4. CASE Fails /\ UNCHANGED results
  BY <1>1, <1>4, ReapiFails
<1>5. ASSUME NEW what, Gives(what), UNCHANGED results,
             asked.kind = "download" => what = {asked.key},
             asked.kind = "upload" => ToSet(asked.key) \subseteq cas,
             asked.kind = "execute" => what = {"response"}
      PROVE  ReapiInv'
  BY <1>1, <1>2, <1>5 DEF ReapiInv, NothingIsTrusted, Gives
<1>6. CASE EndUpload
  BY <1>2, <1>3, <1>5, <1>6 DEF EndUpload, Sent, ToStore
<1>7. CASE UpdateActionResult
  <2>1. /\ call.kind = "publish"
        /\ (Fails /\ UNCHANGED results) \/ (Gives({}) /\ results' = results \cup {call.key})
    BY <1>7 DEF UpdateActionResult, Sent
  <2>2. CASE Gives({}) /\ results' = results \cup {call.key}
    <3>1. ToSet(ActionBlobs(call.key)) \subseteq cas
      BY <1>3, <2>1 DEF ToStore
    <3> QED BY <1>1, <1>2, <2>1, <2>2, <3>1 DEF ReapiInv, NothingIsTrusted, Gives
  <2> QED BY <1>4, <2>1, <2>2
<1>8. CASE DownloadBlob
  <2>1. /\ call.kind = "download" /\ UNCHANGED results
        /\ Fails \/ \E data : data = call.key /\ Gives({data})
    BY <1>8 DEF DownloadBlob, Sent, Verify
  <2> QED BY <1>2, <1>4, <1>5, <2>1
<1>9. CASE GetActionResult
  BY <1>2, <1>4, <1>5, <1>9 DEF GetActionResult, Sent
<1>10. CASE FindMissingBlobs
  BY <1>2, <1>4, <1>5, <1>10 DEF FindMissingBlobs, Sent
<1>11. CASE Execute
  <2>1. call.kind = "execute" /\ UNCHANGED results /\ (Fails \/ Gives({"response"}))
    BY <1>11 DEF Execute, Sent, Finished
  <2> QED BY <1>2, <1>4, <1>5, <2>1
<1> QED BY <1>6, <1>7, <1>8, <1>9, <1>10, <1>11

\* Every step of a call keeps ReapiInv.
LEMMA ReapiStep == ReapiInv /\ [ReapiNext]_reapiVars => ReapiInv'
<1> SUFFICES ASSUME ReapiInv, [ReapiNext]_reapiVars PROVE ReapiInv'
  OBVIOUS
<1>1. CASE UNCHANGED reapiVars
  BY <1>1 DEF reapiVars, ReapiInv, UnderWay, Covers, NothingIsTrusted
<1> QED BY <1>1, ReapiBegins, ReapiTakes, ReapiWritesBatch, ReapiAnswers DEF ReapiNext

\* What is left of a call makes a batch that fits.
LEMMA ReapiMeans == ReapiInv => RequestsAreSound
<1> SUFFICES ASSUME ReapiInv PROVE BatchesFit
  BY DEF ReapiInv, RequestsAreSound
<1> SUFFICES ASSUME call # None, call.kind \in {"upload", "publish"}
             PROVE  /\ call.left = <<>> /\ call.small # <<>> =>
                         Sum(Batch(call.small), 0)[Len(Batch(call.small))] <= Limit
                    /\ call.sent + Len(call.left) + Len(call.small) = Len(ToStore(call))
  BY DEF BatchesFit
<1>1. UnderWay(call)
  BY DEF ReapiInv
<1>2. call.small # <<>> => Sum(Batch(call.small), 0)[Len(Batch(call.small))] <= Limit
  BY <1>1, BatchFits DEF UnderWay, CallTypes
<1> QED BY <1>1, <1>2 DEF UnderWay, Covers

-----------------------------------------------------------------------------
(* The command line: one program runs, and the others stay where they are.    *)

CommandsInv ==
  /\ WatchInv /\ FetchInv /\ UpdateInv /\ IsoInv /\ VerdictInv /\ LifeInv /\ LspInv
  /\ ReapiInv /\ ProgressInv

\* Every program starts as it would alone.
LEMMA CommandsStart == Init => CommandsInv
<1> SUFFICES ASSUME Init PROVE CommandsInv
  OBVIOUS
<1>1. /\ WatchInit /\ AcqInit /\ IsoInit /\ LifeInit /\ LspInit /\ ReapiInit
      /\ ProgressInit
  BY DEF Init
<1> QED BY <1>1, WatchStart, AcqStart, IsoStart, VerdictStart, LifeStart, LspStart,
           ReapiStart, ProgressStart
   DEF CommandsInv

\* frost fetch replaces no binary, and self-update no tree.
LEMMA AcqApart ==
  /\ FetchNext => UNCHANGED updateVars
  /\ UpdateNext => UNCHANGED fetchVars
<1>1. ASSUME NEW f \in Fetchers,
             \/ StartFetch(f) \/ Check(f) \/ Stage(f) \/ MoveAside(f) \/ Publish(f)
             \/ Restore(f) \/ KillFetch(f)
      PROVE  UNCHANGED updateVars
  BY <1>1 DEF StartFetch, Check, Stage, MoveAside, Publish, Restore, KillFetch
<1>2. ASSUME NEW dir \in Dirs, EditTree(dir) PROVE UNCHANGED updateVars
  BY <1>2 DEF EditTree
<1>3. EditFetches => UNCHANGED updateVars
  BY DEF EditFetches
<1>4. FetchNext => UNCHANGED updateVars
  BY <1>1, <1>2, <1>3 DEF FetchNext
<1>5. UpdateNext => UNCHANGED fetchVars
  BY DEF UpdateNext, FindRelease, Install, Announce
<1> QED BY <1>4, <1>5

\* A step of the command line is a step of each program, or none of it.
LEMMA OneStep ==
  ASSUME [Next]_vars
  PROVE  /\ [WatchNext]_watchVars /\ [FetchNext]_fetchVars
         /\ UpdateNext \/ UNCHANGED updateVars
         /\ [IsoNext]_isoVars /\ [LifeNext]_lifeVars /\ [LspNext]_lspVars
         /\ [ReapiNext]_reapiVars /\ [ProgressNext]_progressVars
<1>1. UNCHANGED acqVars => UNCHANGED fetchVars /\ UNCHANGED updateVars
  BY DEF acqVars
<1>2. CASE Runs("watch", <<lspVars, isoVars, acqVars, reapiVars, lifeVars, progressVars>>)
             /\ WatchNext
  BY <1>1, <1>2 DEF Runs
<1>3. CASE Runs("lsp", <<watchVars, isoVars, acqVars, reapiVars, lifeVars, progressVars>>)
             /\ LspNext
  BY <1>1, <1>3 DEF Runs
<1>4. CASE Runs("isolate", <<watchVars, lspVars, acqVars, reapiVars, lifeVars, progressVars>>)
             /\ IsoNext
  BY <1>1, <1>4 DEF Runs
<1>5. CASE Runs("fetch", <<watchVars, lspVars, isoVars, reapiVars, lifeVars, progressVars>>)
             /\ FetchNext
  BY <1>5, AcqApart DEF Runs
<1>6. CASE Runs("self-update",
                <<watchVars, lspVars, isoVars, reapiVars, lifeVars, progressVars>>)
             /\ UpdateNext
  BY <1>6, AcqApart DEF Runs
<1>7. CASE Runs("remote", <<watchVars, lspVars, isoVars, acqVars, lifeVars, progressVars>>)
             /\ ReapiNext
  BY <1>1, <1>7 DEF Runs
<1>8. CASE Runs("daemon", <<watchVars, lspVars, isoVars, acqVars, reapiVars, progressVars>>)
             /\ LifeNext
  BY <1>1, <1>8 DEF Runs
<1>9. CASE Runs("build", <<watchVars, lspVars, isoVars, acqVars, reapiVars, lifeVars>>)
             /\ ProgressNext
  BY <1>1, <1>9 DEF Runs
<1>10. CASE UNCHANGED vars
  BY <1>1, <1>10 DEF vars
<1> QED BY <1>2, <1>3, <1>4, <1>5, <1>6, <1>7, <1>8, <1>9, <1>10 DEF Next

\* The steps of a program keep its invariant, and so do those of the others.
LEMMA CommandsStep == CommandsInv /\ [Next]_vars => CommandsInv'
<1> SUFFICES ASSUME CommandsInv, [Next]_vars PROVE CommandsInv'
  OBVIOUS
<1>1. /\ WatchInv /\ FetchInv /\ UpdateInv /\ IsoInv /\ VerdictInv /\ LifeInv /\ LspInv
      /\ ReapiInv /\ ProgressInv
  BY DEF CommandsInv
<1>2. /\ [WatchNext]_watchVars /\ [FetchNext]_fetchVars
      /\ UpdateNext \/ UNCHANGED updateVars
      /\ [IsoNext]_isoVars /\ [LifeNext]_lifeVars /\ [LspNext]_lspVars
      /\ [ReapiNext]_reapiVars /\ [ProgressNext]_progressVars
  BY OneStep
<1>3. /\ WatchInv' /\ FetchInv' /\ IsoInv' /\ VerdictInv' /\ LifeInv' /\ LspInv'
      /\ ReapiInv' /\ ProgressInv'
  BY <1>1, <1>2, WatchStep, FetchStep, IsoStep, VerdictStep, LifeStep, LspStep, ReapiStep,
     ProgressStep
<1>4. UpdateInv'
  BY <1>1, <1>2, UpdateStep
<1> QED BY <1>3, <1>4 DEF CommandsInv

\* The invariants of the programs that a command line starts hold, whichever it starts.
THEOREM CommandsInvHolds == Spec => []CommandsInv
BY CommandsStart, CommandsStep, PTL DEF Spec

\* frost watch, dev, run, debug and the Bazel loop (watch.rs) have one launched program at
\* a time, and leave none behind a loop that ended.
THEOREM OneProgramAlways == Spec => []OneProgram
<1>1. CommandsInv => OneProgram
  BY WatchMeans DEF CommandsInv
<1> QED BY <1>1, CommandsInvHolds, PTL

\* frost fetch (fetch.rs): a tree that a build accepts is what was pinned or what its user
\* made of it.  Whatever other fetches and the user do meanwhile and wherever renames fail,
\* a directory that had a tree has one when fetches end, but where a fetch was killed or
\* could not rename the old tree back while that was aside; and a tree of the user's own
\* stays, but where it came between a fetch's check of the directory and its publication.
THEOREM VendoredIsAlwaysPinned == Spec => []VendoredIsPinned
<1>1. CommandsInv => VendoredIsPinned
  BY FetchMeans DEF CommandsInv
<1> QED BY <1>1, CommandsInvHolds, PTL

\* frost self-update (self_update.rs) replaces the binary by a newer one that the checksums
\* of a published release list, whatever is published and answered meanwhile.
THEOREM UpdatesAlwaysGoForward == Spec => UpdatesGoForward
<1> DEFINE Forward ==
      installed' # installed =>
        /\ installed'.version > installed.version
        /\ \E r \in Releases :
             ~r.draft /\ r.version = installed'.version /\ r.sums = installed'.archive
<1>1. CommandsInv /\ [Next]_vars => [Forward]_acqVars
  <2> SUFFICES ASSUME CommandsInv, [Next]_vars PROVE Forward
    OBVIOUS
  <2> QED BY OneStep, UpdateStep DEF CommandsInv
<1> HIDE DEF Forward
<1>2. Spec => [][Forward]_acqVars
  BY <1>1, CommandsInvHolds, PTL DEF Spec
<1> QED BY <1>2 DEF UpdatesGoForward, Forward

\* An action that is run in a private tree (hermetic.rs) sees what the sandbox (sandbox.rs)
\* would show it, and the workspace that it is not answerable for stays as it was, or the
\* action does not succeed.
THEOREM IsolationAlwaysHolds == Spec => []IsolationHolds
<1>1. CommandsInv => IsolationHolds
  BY IsoMeans DEF CommandsInv
<1> QED BY <1>1, CommandsInvHolds, PTL

\* A success of a hermetic tree (hermetic.rs) is of this run and of what the action sees,
\* wherever an earlier build was killed, and a program that passes the determinism check
\* (determinism.rs) made the same bytes under the same names twice.
THEOREM VerdictsAreAlwaysTrue == Spec => []VerdictsAreTrue
<1>1. CommandsInv => VerdictsAreTrue
  BY VerdictMeans DEF CommandsInv
<1> QED BY <1>1, CommandsInvHolds, PTL

\* The clients of a daemon (daemon/lib.rs) have the build they asked for, from a daemon of
\* their version or from themselves, and a daemon that runs is the one they reach, unless
\* two were starting at the same time.
THEOREM ClientsAreAlwaysServed == Spec => []ClientsAreServed
<1>1. CommandsInv => ClientsAreServed
  BY LifeMeans DEF CommandsInv
<1> QED BY <1>1, CommandsInvHolds, PTL

\* The REAPI client (client.rs) hands on what it has verified, says that blobs are stored when
\* they are, names blobs in the action cache that the server has, and sends no batch that is more
\* than the server takes, with nothing left out: the invariant counts what is on its way.
THEOREM RequestsAreAlwaysSound == Spec => []RequestsAreSound
<1>1. CommandsInv => RequestsAreSound
  BY ReapiMeans DEF CommandsInv
<1> QED BY <1>1, CommandsInvHolds, PTL

\* frost lsp (lsp.rs) shows, of every open file, what is wrong with the text it was last
\* told, and what it tells an editor of labels is what a build would find.
THEOREM EditorIsAlwaysRight == Spec => []EditorIsRight
<1>1. CommandsInv => EditorIsRight
  BY LspMeans DEF CommandsInv
<1> QED BY <1>1, CommandsInvHolds, PTL
\* What a build says of itself (run_build, progress.rs, event_log.rs) is what became of it:
\* the event stream, the display, the summary and the exit code agree with its outcomes,
\* however the workers' events, the renderer's thread and a cancellation interleave.
THEOREM EveryoneIsAlwaysTold == Spec => []EveryoneIsTold
<1>1. CommandsInv => EveryoneIsTold
  BY ProgressMeans DEF CommandsInv
<1> QED BY <1>1, CommandsInvHolds, PTL
=============================================================================

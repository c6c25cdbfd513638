----------------------------- MODULE MCCommands -----------------------------
EXTENDS Commands, TLC

\* Watch: two manifests that load, one of which adds an output and a directory that the
\* command owns, and one that does not.
Toml(loads, outputs, owned, artifact) ==
  [loads |-> loads, symbols |-> artifact = "native", outputs |-> outputs, cleaned |-> {"tmp"},
   owned |-> owned, artifact |-> artifact]
MCManifests ==
  {Toml(TRUE, {"out"}, {}, "native"), Toml(TRUE, {"out", "new"}, {"tree"}, "js"),
   Toml(FALSE, {}, {}, "native")}
MCCompiles(s) == s # 2

\* The daemon: a build, and what else may go on in its workspace.
Asks(wants, protocol) == [wants |-> wants, protocol |-> protocol]
MCCommandPairs ==
  {"c1" :> Asks("build", 1) @@ "c2" :> other :
     other \in {Asks("build", 1), Asks("build", 2), Asks("start", 2), Asks("restart", 1),
               Asks("stop", 1)}}

\* The language server: a root and a package, which may not parse, not declare what the
\* root needs, or need the root.
Says(parses, rules) == [parses |-> parses, rules |-> rules]
MCTexts ==
  "root" :> {Says(TRUE, "app" :> {"lib"}), Says(FALSE, "app" :> {"lib"})}
    @@ "lib" :> {Says(TRUE, "lib" :> {}), Says(TRUE, <<>>), Says(TRUE, "lib" :> {"app"})}
MCHomeOf == "app" :> "root" @@ "lib" :> "lib"

\* Isolation: sources beside each other, elsewhere, at the root and below .frost.
Src == <<"src", "a">>
Near == <<"src", "b">>
Hdr == <<"inc", "h">>
Far == <<"far", "x">>
Top == <<"top">>
Gen == <<".frost", "gen", "g">>
Out == <<"out", "o">>
Old == <<"out", "old">>
Dep == <<"out", "d">>
Owned == <<"own", "f">>
Temp == <<"tmp", "t">>

Compile(inputs, orderOnly, includes) ==
  [inputs |-> inputs, orderOnly |-> orderOnly, found |-> {}, includes |-> includes,
   outputs |-> {Out}, depfile |-> {Dep}, owned |-> {}, cleaned |-> {}, preserve |-> FALSE,
   isolated |-> TRUE]
MCActions ==
  {Compile({Src}, {Gen}, {<<"inc">>}),
   Compile({Top}, {}, {<<".frost", "gen">>}),
   [Compile({Src}, {}, {}) EXCEPT !.owned = {<<"own">>}, !.cleaned = {<<"tmp">>}],
   [Compile({Src}, {}, {}) EXCEPT !.owned = {<<"own">>}, !.preserve = TRUE],
   [Compile({Src}, {}, {}) EXCEPT !.isolated = FALSE]}
\* One that writes its dependency report in a directory that is cleaned for it.
MCReporting == {[Compile({Src}, {}, {}) EXCEPT !.depfile = {Temp}, !.cleaned = {<<"tmp">>}]}

Reads(needs, probes) ==
  [needs |-> needs, probes |-> probes, makes |-> {Out}, litters |-> {}, dirties |-> {},
   random |-> FALSE, renames |-> FALSE]
MCPrograms ==
  {Reads({Src}, {Hdr, Gen}),
   [Reads({Src}, {}) EXCEPT !.makes = {Out, Owned}, !.litters = {Temp}, !.renames = TRUE],
   [Reads({Src}, {Far}) EXCEPT !.makes = {Out, Owned}, !.litters = {Near}, !.dirties = {Src}],
   Reads({Src, Far}, {}),
   [Reads({Src}, {Near}) EXCEPT !.litters = {Near}],
   [Reads({Src}, {}) EXCEPT !.random = TRUE],
   [Reads({Src}, {Out}) EXCEPT !.makes = {Owned}]}
Written(paths) == [p \in paths |-> [of |-> "user"]]
MCTrees ==
  {Written({Src, Hdr, Near, Far, Top, Gen}), Written({Src, Hdr, Far, Top, Out, Old, Owned, Temp})}
MCSupported == {{"reflink", "hardlink", "copy"}, {"hardlink", "copy"}, {"copy"}}

\* Acquisition: archives that are whole, cannot be unpacked, and hold a state file.
Pin(sha, strip, dir) == [sha |-> sha, strip |-> strip, dir |-> dir]
MCDeclarations ==
  {"z" :> Pin("s1", "", "v") @@ "y" :> Pin("s2", "p", "w"), "z" :> Pin("s2", "", "v"),
   "y" :> Pin("s1", "", "v") @@ "x" :> Pin("s3", "", "w"), "z" :> Pin("s4", "", "v")}
Holds(safe, trees) == [safe |-> safe, holds |-> trees]
MCArchives ==
  "s1" :> Holds(TRUE, "" :> "t1") @@ "s2" :> Holds(TRUE, "" :> "t2" @@ "p" :> "t3")
    @@ "s3" :> Holds(FALSE, "" :> "t4") @@ "s4" :> Holds(TRUE, "" :> "reserved")
Release(version, sums, archive, reports) ==
  [version |-> version, draft |-> version = 4, sums |-> sums, archive |-> archive,
   reports |-> reports]
MCReleases ==
  {Release(1, "a1", "a1", 1), Release(2, "a2", "a2", 2), Release(3, "a3", "a3", 3),
   Release(3, "a1", "a1", 1), Release(4, "a4", "a4", 4), Release(5, None, "a5", 5)}

\* A build: a chain, which may fail at either end, and two actions that do not meet; on a
\* terminal, and with --keep-going and without one.
MCClosures == {"a" :> {} @@ "b" :> {"a"}, "c" :> {} @@ "d" :> {}}
Invoked(keepGoing, live) == [keepGoing |-> keepGoing, live |-> live, events |-> TRUE]
MCInvocations == {Invoked(FALSE, TRUE), Invoked(TRUE, FALSE)}
MCMay ==
  [a |-> {"cached", "executed", "failed"}, b |-> {"flaky", "failed"},
   c |-> {"executed", "failed"}, d |-> {"flaky"}]

\* Reapi: one blob that no batch takes, one that fills a batch, and small ones.
MCSize(b) == CASE b = "big" -> 9 [] b = "full" -> 4 [] b = "half" -> 2 [] OTHER -> 0
MCActionBlobs(k) == <<"command", "action">>
MCUploads ==
  {<<"half">>, <<"big", "full", "half">>, <<"half", "full", "command", "big">>,
   <<"command", "action", "half">>}
=============================================================================

------------------------------ MODULE MCPlan --------------------------------
(* Small workspaces: a binary over a diamond of libraries on a generated      *)
(* header, a sharded test, a package, and one more thing at a time.           *)
EXTENDS Plan

MCFold(path) == [i \in DOMAIN path |-> IF path[i] = "GEN.h" THEN "gen.h" ELSE path[i]]

Root(name) == <<<<>>, name>>
Util == <<<<"p">>, "util">>
MCLabels == <<Root("app"), Root("early"), Root("gen"), Root("lib"), Root("net"),
              Root("p_util"), Root("test"), Root("zip"), Util>>
MCTools == "cp" :> <<>> @@ "mk" :> <<"mk.sh">>
MCPlatformTools == "arm" :> ("mk" :> <<"arm", "mk.sh">>)
MCGroups == "friends" :> <<[kind |-> "target", what |-> Root("app")]>>
MCFetches == "dep" :> <<"vendor", "dep">> @@ "old" :> <<"vendor", "old">>
MCDisk == {<<"app.c">>, <<"lib.c">>, <<"arm.c">>, <<"net.c">>, <<"t", "a.c">>, <<"t", "b.c">>,
           <<"p", "u.c">>, <<"vendor", "dep", "v.h">>, <<"vendor", "dep", "receipt">>}

Cc(kind, srcs, deps) == [Blank EXCEPT !.kind = kind, !.srcs = srcs, !.deps = deps]
Genrule(outputs, inputs, deps, cmd) ==
  [Blank EXCEPT !.kind = "genrule", !.cmd = cmd, !.outputs = outputs, !.inputs = inputs,
                !.deps = deps]
Overlay(srcs, deps) == "arm" :> [srcs |-> srcs, deps |-> deps]

\* What the header comes from.
Gen(form) ==
  LET command == [Blank EXCEPT !.kind = "command", !.tool = "mk", !.steps = <<"cp">>,
                    !.outputs = <<<<"out", Config, "gen.h">>>>, !.args = <<Var("out")>>]
  IN
  CASE form = "genrule"  -> Genrule(<<<<".", "gen.h">>>>, <<>>, <<>>, <<Var("out")>>)
    [] form = "command"  -> command
    [] form = "dir"      -> [command EXCEPT !.outputDirs = <<<<"tree", Config>>>>,
                              !.cleanDirs = <<<<"scratch", Config>>>>, !.depfile = <<"d", Config>>]
    [] form = "stamped"  -> [command EXCEPT !.args = <<Ref("stamp", "STABLE_V")>>]
    [] form = "volatile" -> [command EXCEPT !.args = <<Ref("stamp", "TIME")>>]

Base(gen, shards, overlay) ==
  Root("app") :> Cc("cc_binary", <<<<"app.c">>>>, <<Local("net"), Local("lib"), Absolute(<<"p">>, "util")>>)
  @@ Root("gen") :> Gen(gen)
  @@ Root("lib") :> [Cc("cc_library", <<<<"lib.c">>>>, <<Local("gen")>>) EXCEPT
                       !.overlays = IF overlay = "srcs" THEN Overlay(<<<<"arm.c">>>>, None)
                                    ELSE IF overlay = "later" THEN Overlay(None, <<Local("net")>>)
                                    ELSE <<>>]
  @@ Root("net") :> [Cc("cc_library", <<<<"net.c">>>>, <<Local("lib")>>) EXCEPT
                       !.overlays = IF overlay = "deps" THEN Overlay(None, <<Local("gen")>>)
                                    ELSE IF overlay = "later" THEN Overlay(None, <<>>)
                                    ELSE <<>>]
  @@ Root("test") :> [Cc("cc_test", <<<<"t", "*">>>>, <<Local("net")>>) EXCEPT
                        !.shards = shards, !.cpu = 3, !.exclusive = (overlay = "srcs")]
  @@ Util :> [Cc("cc_library", <<<<"u.c">>>>, <<Absolute(<<>>, "gen")>>) EXCEPT
                !.visibility = <<[kind |-> "subtree", what |-> <<"p">>],
                                 [kind |-> "group", what |-> "friends"]>>]

\* One more target, or one change.
With(extra) ==
  LET base == Base("genrule", 1, "none")
      refers(cmd, deps) ==
        Root("zip") :> Genrule(<<<<"zip.h">>>>, <<<<"lib.c">>>>, deps, cmd) @@ base
  IN
  CASE extra = "collision"  -> Root("p_util") :> Cc("cc_library", <<<<"net.c">>>>, <<>>) @@ base
    [] extra = "private"    -> [base EXCEPT ![Util].visibility = <<>>]
    [] extra = "reference"  -> refers(<<Ref("dep", Root("gen")), Var("in"), Var("deps")>>, <<Local("gen")>>)
    [] extra = "stale"      -> refers(<<Ref("dep", Root("gen"))>>, <<>>)
    [] extra = "undeclared" -> Root("early") :> Genrule(<<<<"early.h">>>>, <<<<"gen.h">>>>, <<>>, <<>>) @@ base
    [] extra = "cycle"      -> [base EXCEPT ![Root("gen")].deps = <<Local("app")>>]
    [] extra = "case"       -> Root("early") :> Genrule(<<<<"GEN.h">>>>, <<>>, <<>>, <<>>) @@ base
    [] extra = "clean"      -> Root("early") :> [Gen("dir") EXCEPT
                                 !.cleanDirs = <<<<".frost", "lib", Config>>>>, !.outputs = <<>>] @@ base
    [] extra = "fetched"    -> [base EXCEPT ![Root("lib")].fetches = <<"dep">>,
                                 ![Root("app")].kind = "kofun_binary"]
    [] extra = "unfetched"  -> [base EXCEPT ![Root("lib")].fetches = <<"old">>]
    [] extra = "direct"     -> [base EXCEPT ![Root("test")] =
                                 [Blank EXCEPT !.kind = "test", !.tool = "mk", !.deps = <<Local("app")>>,
                                    !.shards = 2, !.args = <<Ref("dep", Root("app"))>>]]
    [] extra = "shell"      -> [base EXCEPT ![Root("test")] =
                                 [Blank EXCEPT !.kind = "test", !.cmd = <<>>, !.deps = <<Local("gen")>>,
                                    !.inputs = <<<<"t", "*">>>>]]
    [] extra = "unmatched"  -> [base EXCEPT ![Root("app")].srcs = <<<<"none", "*">>>>]

MCWorkspaces ==
  {Base(gen, shards, overlay) : gen \in {"genrule", "command", "dir", "stamped", "volatile"},
                                shards \in 1 .. 2, overlay \in {"none", "srcs", "deps", "later"}}
  \cup {With(extra) : extra \in {"collision", "private", "reference", "stale", "undeclared",
          "cycle", "case", "clean", "fetched", "unfetched", "direct", "shell", "unmatched"}}

Configuration(platform, profile, coverage) ==
  [platform |-> platform, profile |-> profile, coverage |-> coverage]
MCConfigs == {Configuration(Host, "debug", FALSE), Configuration(Host, "debug", TRUE),
              Configuration(Host, "release", FALSE), Configuration("arm", "debug", FALSE)}

MCRecorded ==
  <<Configuration(Host, "debug", FALSE), "compile", Root("lib")>> :> 200
  @@ <<Configuration(Host, "debug", FALSE), "compile", Root("app")>> :> 5
  @@ <<Configuration(Host, "release", FALSE), "link", Root("app")>> :> 7
MCRequests == {{Root("app"), Root("test")}}
MCBudgets == {[jobs |-> 2, cpu |-> 2, tests |-> 1], [jobs |-> 3, cpu |-> 3, tests |-> 3]}
MCPlanned == {Base("genrule", 2, overlay) : overlay \in {"none", "srcs", "deps"}}
               \cup {With("direct"), With("undeclared")}
=============================================================================

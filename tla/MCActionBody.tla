--------------------------- MODULE MCActionBody ----------------------------
(* An instance of ActionBody for TLC: a generator of the header g, a compile *)
(* that waits for g without declaring it and discovers either g or the       *)
(* source h, and an action that declares the object:                         *)
(*   h -gen-> g     s, and g or h (g is order-only) -cc-> o     o -ld-> p    *)
EXTENDS ActionBody, TLC

CONSTANTS s, h, g, o, p, gen, cc, ld

MCSources == {s, h}
MCActions == {gen, cc, ld}
MCDeclared ==
  [a \in MCActions |-> CASE a = gen -> {h} [] a = cc -> {s} [] a = ld -> {o}]
MCOrderOnly == [a \in MCActions |-> IF a = cc THEN {g} ELSE {}]
MCOutputs ==
  [a \in MCActions |-> CASE a = gen -> {g} [] a = cc -> {o} [] a = ld -> {p}]

\* Which contents h has matters to nobody.
MCCheckouts == {[f \in MCSources |-> IF f = s THEN v ELSE 1] : v \in {1, 2}}

\* The first version of s includes the generated header, the second h.
MCIncludes(f, v) == IF f = s THEN IF v = 1 THEN {g} ELSE {h} ELSE {}

\* An object depends only on the header that s includes.
MCMakes(a, f, m) ==
  CASE a = gen -> <<f, m[h]>>
    [] a = cc -> <<f, IF m[s] = 1 THEN m[g] ELSE <<h, m[h]>> >>
    [] a = ld -> <<f, m[o]>>
=============================================================================

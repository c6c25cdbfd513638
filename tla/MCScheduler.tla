---------------------------- MODULE MCScheduler ----------------------------
(* Small instances of Scheduler for TLC. *)
EXTENDS Scheduler, TLC

CONSTANTS p, c, d, t, x, y, z, w1, w2, w3

\* c unlocks three actions at once; d also reads an output of p, which the
\* preflight certified; z joins two of them; x depends on nothing.
MixedActions == {p, c, d, t, x, y, z}
MixedPrecached == {p}
MixedProducers ==
  [a \in MixedActions |-> CASE a \in {p, c, x} -> {}
                            [] a = d -> {c, p}
                            [] a \in {t, y} -> {c}
                            [] a = z -> {d, t}]
MixedPosition ==
  (p :> 0) @@ (c :> 1) @@ (x :> 2) @@ (d :> 3) @@ (t :> 4) @@ (y :> 5) @@ (z :> 6)
ChainPriority ==
  (p :> 0) @@ (c :> 3) @@ (x :> 2) @@ (d :> 2) @@ (t :> 2) @@ (y :> 1) @@ (z :> 1)
FifoPriority == [a \in MixedActions |-> 0]

\* d asks for more cpu than any budget below and takes all of it; y is heavy on ram.
MixedDemand == [a \in MixedActions |->
  [cpu |-> CASE a = d -> 9 [] a \in {y, z} -> 2 [] OTHER -> 1,
   ram |-> IF a = y THEN 2 ELSE 1]]

TwoWorkers == {w1, w2}
ThreeWorkers == {w1, w2, w3}
TwoTests == {t, y}
NoActions == {}
OneExclusive == {x}
ThreeThree == [cpu |-> 3, ram |-> 3]

WorkerSymmetry == Permutations(Workers)
=============================================================================

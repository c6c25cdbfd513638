----------------------------- MODULE MCAttempts ----------------------------
(* Instances of Attempts for TLC: a test and an action of two commands.    *)
EXTENDS Attempts

CONSTANTS test, tool

Both == {test, tool}
JustTest == {test}
TwoThenOne == [w \in Both |-> IF w = tool THEN 2 ELSE 1]
OneRetry == [w \in Both |-> IF w = test THEN 1 ELSE 0]
=============================================================================

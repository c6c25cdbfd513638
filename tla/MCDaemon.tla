------------------------------ MODULE MCDaemon ------------------------------
(* Small instances of Daemon for TLC. *)
EXTENDS Daemon, TLC

CONSTANTS f1, f2, m1, e1, e2, i1, i2

\* f2 is outside, behind a symbolic link: the graph is made from it, as it is from m1,
\* and a compile may or may not read it, too.
TwoFiles == {f1, f2}
TwoSources == {m1, f2}
SecondFile == {f2}
EitherClosure == {{f1}, {f1, f2}}

TwoIdentities == {i1, i2}
TwoEnvs == {e1, e2}

Interchangeable == Permutations(Identities) \cup Permutations(Envs)
=============================================================================

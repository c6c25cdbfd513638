------------------------------- MODULE Command -------------------------------
(* What the programs of frost share: the command line that starts one, and    *)
(* what an Option is that is None.                                            *)
CONSTANT None
VARIABLE command      \* what the command line asks for
=============================================================================

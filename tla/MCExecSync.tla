---------------------------- MODULE MCExecSync ----------------------------
(* Small instances of ExecSync for TLC. *)
EXTENDS ExecSync, TLC

CONSTANTS t1, t2

TwoTests == {t1, t2}
TestSymmetry == Permutations(TwoTests)
===========================================================================

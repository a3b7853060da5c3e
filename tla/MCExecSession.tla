---------------------------- MODULE MCExecSession ----------------------------
(***************************************************************************)
(* ExecSession for TLC: the runs differ in the number of clients and in    *)
(* which of output, input and sizes they exercise.                         *)
(***************************************************************************)
EXTENDS ExecSession, TLC

CONSTANTS c1, c2, r1, r2

Symmetry == Permutations(Conns)
=============================================================================

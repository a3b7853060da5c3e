--------------------------- MODULE MCWsConnHandler ---------------------------
(***************************************************************************)
(* WsConnHandler for TLC: two connections and the two output goroutines    *)
(* (stdout and stderr) of an exec without a terminal.                      *)
(***************************************************************************)
EXTENDS WsConnHandler, TLC

CONSTANTS c1, c2, w1, w2

ConnsVal   == {c1, c2}
WritersVal == {w1, w2}
Symmetry   == Permutations(ConnsVal) \cup Permutations(WritersVal)
=============================================================================

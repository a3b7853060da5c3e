---------------------------- MODULE MCOutputText ----------------------------
(***************************************************************************)
(* Instances of OutputText for TLC.                                        *)
(***************************************************************************)
EXTENDS OutputText
=============================================================================

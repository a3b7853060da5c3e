---------------------------- MODULE MCIdleManager ----------------------------
(***************************************************************************)
(* Instances of IdleManager for TLC.  The module needs no bound of its     *)
(* own: timers and ages are relative, hence finite.  The configurations    *)
(* differ in which managers are on and in the ratio of the timeouts.       *)
(***************************************************************************)
EXTENDS IdleManager
=============================================================================

-------------------------- MODULE MCPhaseProgress --------------------------
(***************************************************************************)
(* PhaseProgress for TLC; all its constants are numbers, set in the .cfg.  *)
(***************************************************************************)
EXTENDS PhaseProgress
=============================================================================

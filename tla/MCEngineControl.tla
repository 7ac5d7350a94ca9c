-------------------------- MODULE MCEngineControl --------------------------
(***************************************************************************)
(* The instance of EngineControl for TLC: two starts and a stop, named     *)
(* in the configuration.                                                   *)
(***************************************************************************)
EXTENDS EngineControl
=============================================================================

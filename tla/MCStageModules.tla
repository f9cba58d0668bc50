---------------------------- MODULE MCStageModules ----------------------------
(* All classes; two URLs, and two documents behind a parent. *)
EXTENDS StageModules
=============================================================================

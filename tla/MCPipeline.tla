------------------------------ MODULE MCPipeline ------------------------------
(* Instances of the pipeline: a chain through all four waves, with stages   *)
(* that suspend and stages that do not.                                     *)
EXTENDS Pipeline

=============================================================================

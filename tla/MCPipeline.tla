----------------------------- MODULE MCPipeline -----------------------------
(***************************************************************************)
(* Pipeline with the pids programs kill in the TLC runs: the two commands, *)
(* and what is created in their slots.                                     *)
(***************************************************************************)
EXTENDS Pipeline

Commands == 3..MAX_PROCESSES

=============================================================================

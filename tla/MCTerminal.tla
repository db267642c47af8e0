----------------------------- MODULE MCTerminal -----------------------------
(***************************************************************************)
(* Terminal with the pids programs kill in the TLC runs.                   *)
(***************************************************************************)
EXTENDS Terminal

Commands == 3..MAX_PROCESSES

=============================================================================

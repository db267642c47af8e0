---------------------------- MODULE MCScheduler ----------------------------
(***************************************************************************)
(* Scheduler with the targets programs use in the TLC runs.                *)
(***************************************************************************)
EXTENDS Scheduler

AllPids == 1..MAX_PROCESSES
\* Every pid but that of idle.
NotIdle == 2..MAX_PROCESSES

=============================================================================

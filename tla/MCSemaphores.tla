---------------------------- MODULE MCSemaphores ----------------------------
(***************************************************************************)
(* Semaphores with the targets programs use in the TLC runs.               *)
(***************************************************************************)
EXTENDS Semaphores

AllPids == 1..MAX_PROCESSES
NotIdle == 2..MAX_PROCESSES

=============================================================================

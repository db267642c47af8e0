------------------------------- MODULE MCMVar -------------------------------
(***************************************************************************)
(* MVar with its three semaphores, where the shell kills any process of    *)
(* the command.                                                            *)
(***************************************************************************)
EXTENDS MVar

MVarSemIds == {EMPTY, FULL, MUTEX}
NotShell == 3..MAX_PROCESSES

=============================================================================

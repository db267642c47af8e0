------------------------------ MODULE BitmapScan ------------------------------
(***************************************************************************)
(* The loop of find_consecutive_pages (Kernel/bitmapmm.c), one action per  *)
(* iteration, over the bitmaps that the calls of BitmapMM leave.  BitmapMM *)
(* takes the result as a definition; here is why it may.                   *)
(***************************************************************************)
EXTENDS BitmapMM

CONSTANT MaxPages   \* bound of the model: the longest run asked for

ASSUME ScanAssumption == MaxPages \in Nat

VARIABLES
  pages, i, consecutive, start_page,   \* the argument and the locals
  result                               \* what is returned, -1 while it runs

scanVars == <<mmVars, pages, i, consecutive, start_page, result>>

ScanInit ==
  /\ Init
  /\ pages \in 0..MaxPages
  /\ i = first_free_page
  /\ consecutive = 0 /\ start_page = 0
  /\ result = -1

\* A call of the manager, and a new scan of the bitmap it leaves.
CallThenScan ==
  /\ result # -1
  /\ Next
  /\ pages' \in 0..MaxPages
  /\ i' = first_free_page
  /\ consecutive' = 0 /\ start_page' = 0
  /\ result' = -1

\* Mutant: a page in use does not reset the count.
KeepCounting ==
  /\ result = -1 /\ i < total_pages
  /\ i \in bitmap
  /\ i' = i + 1
  /\ UNCHANGED <<mmVars, pages, consecutive, start_page, result>>

\* A bit at 1.
PageInUse ==
  /\ result = -1 /\ i < total_pages
  /\ i \in bitmap
  /\ consecutive' = 0
  /\ i' = i + 1
  /\ UNCHANGED <<mmVars, pages, start_page, result>>

\* A bit at 0: it may complete the run.
PageFree ==
  /\ result = -1 /\ i < total_pages
  /\ i \notin bitmap
  /\ start_page' = IF consecutive = 0 THEN i ELSE start_page
  /\ consecutive' = consecutive + 1
  /\ IF consecutive' = pages
       THEN result' = start_page' /\ i' = i
       ELSE i' = i + 1 /\ UNCHANGED result
  /\ UNCHANGED <<mmVars, pages>>

NotFound ==
  /\ result = -1 /\ i = total_pages
  /\ result' = total_pages
  /\ UNCHANGED <<mmVars, pages, i, consecutive, start_page>>

ScanNext == CallThenScan \/ PageInUse \/ PageFree \/ NotFound

ScanSpec == ScanInit /\ [][ScanNext]_scanVars

-----------------------------------------------------------------------------
(* Properties *)

\* The one pass of the loop, which keeps only a count, returns the lowest run
\* of that many free pages, and total_pages when there is none or none is asked
\* for (a size whose page count wrapped to 0).
FindsFirstFit == result # -1 => result = find_consecutive_pages(pages)

=============================================================================

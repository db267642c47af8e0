----------------------------- MODULE MCBitmapMM -----------------------------
(* Instances of BitmapMM for TLC: a page of 4 bytes, a header of 2, 5 bits. *)
EXTENDS BitmapScan

\* Nothing, a page exactly full, one byte more, three pages.
FittingSizes == {0, 2, 3, 7}

=============================================================================

----------------------------- MODULE MCMemCache -----------------------------
(* A small memory cache: two blocks, one longer than the other, on one     *)
(* buffer, so that every eviction hits a buffer in use and stale tails     *)
(* show.  The source of the short one may fail a read-ahead.               *)
EXTENDS MemCache, TLC

CONSTANTS k1, k2

TwoKeys == {k1, k2}
TwoSize == (k1 :> 2) @@ (k2 :> 1)
=============================================================================

---------------------------- MODULE MCDiskCache ----------------------------
(* Two processes on one cache directory, and two blocks that collide on    *)
(* one file: every contention there is meets in that file.                 *)
EXTENDS DiskCache, TLC

CONSTANTS k1, k2, r1, a1, p1, p2, f1

MCKeys    == {k1, k2}
MCSize    == (k1 :> 1) @@ (k2 :> 1)
MCProcOf  == (r1 :> p1) @@ (a1 :> p2)
Collide   == (k1 :> f1) @@ (k2 :> f1)
=============================================================================

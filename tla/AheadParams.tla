---------------------------- MODULE AheadParams ----------------------------
(* What the objects of one cache have in common (pkg/caching/cache.go), as   *)
(* the read-ahead controller and the cached object both see it.              *)
EXTENDS Naturals

CONSTANTS Objects,    \* open objects
          ObjSize,    \* ObjSize[o]: bytes in o
          bsize,      \* block size of the slicer
          window,     \* how far ahead of the current block to read
          Tokens      \* read-ahead goroutines allowed at one time

ASSUME ReadAheadAssumption ==
    /\ ObjSize \in [Objects -> Nat \ {0}]
    /\ bsize \in Nat \ {0}
    /\ window \in Nat
    /\ Tokens \in Nat

\* Blocks that m bytes fill, the last perhaps not whole.
Ceil(m) == (m + bsize - 1) \div bsize

numBlocks(o) == Ceil(ObjSize[o])
=============================================================================

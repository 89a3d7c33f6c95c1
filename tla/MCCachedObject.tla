--------------------------- MODULE MCCachedObject ---------------------------
(* One object, of three bytes in two blocks, the last one short, two readers. *)
EXTENDS CachedObject, TLC

CONSTANTS o1, r1, r2

OneObject  == {o1}
ThreeBytes == (o1 :> 3)
TwoReaders == {r1, r2}
Symmetry   == Permutations(TwoReaders)
=============================================================================

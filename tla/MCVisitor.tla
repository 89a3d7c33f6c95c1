----------------------------- MODULE MCVisitor -----------------------------
(* A tree of seven directories that does not change: the root, two below it, *)
(* one of them hidden, and four below those, one more in a round than there  *)
(* are workers.                                                              *)
EXTENDS Visitor, TLC

CONSTANTS root, a, b, aa, ab, ac, bb

MCDirs     == {root, a, b, aa, ab, ac, bb}
MCChildren == (root :> {a, b}) @@ (a :> {aa, ab, ac}) @@ (b :> {bb})
              @@ [d \in {aa, ab, ac, bb} |-> {}]

Spec == children = MCChildren /\ Init /\ [][Next /\ UNCHANGED children]_<<vars, children>>
=============================================================================

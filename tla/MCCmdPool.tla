----------------------------- MODULE MCCmdPool -----------------------------
(* Two devices that compete for the workers; one of them sends two commands. *)
EXTENDS CmdPool, TLC

CONSTANTS d1, d2, c1, c2, c3, w1, w2

MCDevOf == (c1 :> d1) @@ (c2 :> d1) @@ (c3 :> d2)
=============================================================================

---------------------------- MODULE ReadThrough ----------------------------
(***************************************************************************)
(* What pkg/caching promises (cache.go, interface Slicer: "Slice returns a *)
(* read-through cached slice of an object"): a read of a block returns     *)
(* exactly the bytes that the object holds there, or an error.  Nothing    *)
(* else is visible of the cache.  MemCache and DiskCache are both shown to *)
(* implement this specification.                                           *)
(***************************************************************************)
EXTENDS Blocks

CONSTANT Readers    \* the goroutines that call ReadAt

VARIABLES busy,     \* busy[r]: r is inside ReadAt
          req,      \* req[r]: the last request of r
          res       \* res[r]: the outcome of that request

vars == <<busy, req, res>>

Init == /\ busy = [r \in Readers |-> FALSE]
        /\ req \in [Readers -> Requests]
        /\ res = [r \in Readers |-> NoReply]

Begin(r) == /\ ~busy[r]
            /\ \E q \in Requests : req' = [req EXCEPT ![r] = q]
            /\ busy' = [busy EXCEPT ![r] = TRUE]
            /\ res' = [res EXCEPT ![r] = NoReply]

Return(r) == /\ busy[r]
             /\ busy' = [busy EXCEPT ![r] = FALSE]
             /\ \E a \in {Reply(Exact(req[r])), Failure} :
                    res' = [res EXCEPT ![r] = a]
             /\ UNCHANGED req

\* The process that runs the readers in P dies.
Crash(P) == /\ busy' = [r \in Readers |-> busy[r] /\ r \notin P]
            /\ res' = [r \in Readers |-> IF r \in P THEN NoReply ELSE res[r]]
            /\ UNCHANGED req

Next == \/ \E r \in Readers : Begin(r) \/ Return(r)
        \/ \E P \in SUBSET Readers : Crash(P)

Spec == Init /\ [][Next]_vars
=============================================================================

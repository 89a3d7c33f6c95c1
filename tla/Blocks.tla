------------------------------- MODULE Blocks -------------------------------
(***************************************************************************)
(* Blocks of objects and requests for their bytes, as pkg/caching cuts     *)
(* them: an object is cut in blocks of bsize bytes, the last one shorter,  *)
(* and a block is named by its key "url[start,end)".  A byte is modelled   *)
(* by the pair <<block, position>>: a stale or a misplaced byte differs    *)
(* from the right one.                                                     *)
(***************************************************************************)
EXTENDS Naturals

CONSTANTS Keys,    \* the keys of the blocks
          bsize,   \* the size of a full block
          Size     \* Size[k]: the number of bytes in block k

ASSUME BlockAssumption == /\ bsize \in Nat \ {0}
                          /\ Size \in [Keys -> 1 .. bsize]

Byte(k, i) == <<k, i>>

\* A caller asks a block only for bytes inside that block.
Requests == {q \in [key : Keys, off : 0 .. bsize - 1, len : 1 .. bsize] :
                q.off + q.len <= Size[q.key]}

\* The bytes that request q stands for.
Exact(q) == [i \in 0 .. q.len - 1 |-> Byte(q.key, q.off + i)]

\* What a finished or an unfinished call returned.
NoData   == [i \in {} |-> 0]
NoReply  == [err |-> "none", data |-> NoData]
Failure  == [err |-> "fail", data |-> NoData]
EOF      == [err |-> "EOF", data |-> NoData]
Reply(d) == [err |-> "nil", data |-> d]
=============================================================================

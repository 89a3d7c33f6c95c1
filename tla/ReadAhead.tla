----------------------------- MODULE ReadAhead -----------------------------
(***************************************************************************)
(* pkg/caching/readahead.go: the read-ahead controller.  Each cached       *)
(* object has one; they share a weighted semaphore of tokens (cache.go).   *)
(* withCaching.ReadAt calls Update with the offset and the length of every *)
(* read; Update follows runs of sequential reads and starts a goroutine    *)
(* readBlock for each block worth reading in advance.                      *)
(*                                                                         *)
(* Update runs under the mutex of its controller, so at most one call per  *)
(* object is in progress; calls for different objects and the goroutines   *)
(* interleave, and meet at the semaphore.  The field runCount is written   *)
(* and never read: it is left out.                                         *)
(***************************************************************************)
EXTENDS AheadParams, Sequences

VARIABLES
    pos,        \* pos[o]: where the next read must start to be sequential
    runLength,  \* runLength[o]: bytes read in the current run
    nextBlock,  \* nextBlock[o]: the next block to read ahead
    active,     \* active[o]: a call of Update holds the controller's mutex
    curr,       \* curr[o]: currBlock of that call
    damper,     \* damper[o]: how many more blocks that call may start
    tokens,     \* free tokens of the semaphore
    running,    \* running[o][b]: goroutines inside readBlock(b) of o
    ahead       \* ahead[o]: blocks started in the current run, in order (ghost)

runVars  == <<pos, runLength, nextBlock, ahead>>
callVars == <<active, curr, damper>>
vars     == <<pos, runLength, nextBlock, active, curr, damper, tokens, running, ahead>>

Blocks(o) == 0 .. numBlocks(o)

TypeOK ==
    /\ pos \in [Objects -> Nat]
    /\ runLength \in [Objects -> Nat]
    /\ nextBlock \in [Objects -> Nat]
    /\ active \in [Objects -> BOOLEAN]
    /\ curr \in [Objects -> Nat]
    /\ damper \in [Objects -> Nat]
    /\ tokens \in 0 .. Tokens
    /\ \A o \in Objects : running[o] \in [Blocks(o) -> Nat]
    /\ ahead \in [Objects -> Seq(Nat)]

\* NewReadAheadController, one per object, on the tokens of the cache.
Init ==
    /\ pos = [o \in Objects |-> 0]
    /\ runLength = [o \in Objects |-> 0]
    /\ nextBlock = [o \in Objects |-> 1]
    /\ active = [o \in Objects |-> FALSE]
    /\ curr = [o \in Objects |-> 0]
    /\ damper = [o \in Objects |-> 0]
    /\ tokens = Tokens
    /\ running = [o \in Objects |-> [b \in Blocks(o) |-> 0]]
    /\ ahead = [o \in Objects |-> <<>>]

----------------------------------------------------------------------------
(* Update(off, n), up to the loop. *)

\* Mutant: a read that continues the run forgets that reading caught up.
SequentialNoCatchUp(o, block, n) ==
    /\ runLength' = [runLength EXCEPT ![o] = @ + n]
    /\ UNCHANGED <<nextBlock, ahead>>

\* The read continues the run.
Sequential(o, block, n) ==
    /\ runLength' = [runLength EXCEPT ![o] = @ + n]
    /\ nextBlock' = [nextBlock EXCEPT ![o] = IF @ <= block THEN block + 1 ELSE @]
    /\ UNCHANGED ahead

\* The read starts a new run.
Reset(o, block, n) ==
    /\ runLength' = [runLength EXCEPT ![o] = n]
    /\ nextBlock' = [nextBlock EXCEPT ![o] = block + 1]
    /\ ahead' = [ahead EXCEPT ![o] = <<>>]

Update(o, off, n) ==
    LET block == off \div bsize
    IN /\ ~active[o]
       /\ IF pos[o] # off THEN Reset(o, block, n) ELSE Sequential(o, block, n)
       /\ pos' = [pos EXCEPT ![o] = off + n]
       /\ active' = [active EXCEPT ![o] = TRUE]
       /\ curr' = [curr EXCEPT ![o] = block]
       /\ damper' = [damper EXCEPT ![o] = Ceil(runLength'[o])]
       /\ UNCHANGED <<tokens, running>>

----------------------------------------------------------------------------
(* The loop, an iteration at a time: TryAcquire races with the Release of  *)
(* finishing goroutines and with the loops of other controllers.           *)

\* The loop condition, up to TryAcquire.
Worth(o) == /\ nextBlock[o] <= curr[o] + window
            /\ damper[o] > 0
            /\ nextBlock[o] < numBlocks(o)

StartReadBlock(o) ==
    /\ active[o]
    /\ Worth(o)
    /\ tokens > 0
    /\ tokens' = tokens - 1
    /\ running' = [running EXCEPT ![o][nextBlock[o]] = @ + 1]
    /\ ahead' = [ahead EXCEPT ![o] = Append(@, nextBlock[o])]
    /\ nextBlock' = [nextBlock EXCEPT ![o] = @ + 1]
    /\ damper' = [damper EXCEPT ![o] = @ - 1]
    /\ UNCHANGED <<pos, runLength, active, curr>>

\* The condition fails, or TryAcquire finds no token: Update returns.
UpdateDone(o) ==
    /\ active[o]
    /\ Worth(o) => tokens = 0
    /\ active' = [active EXCEPT ![o] = FALSE]
    /\ curr' = [curr EXCEPT ![o] = 0]
    /\ damper' = [damper EXCEPT ![o] = 0]
    /\ UNCHANGED <<runVars, tokens, running>>

\* Mutant: a failed read-ahead returns before the token is released.
ReadBlockDoneLeaky(o, b) ==
    /\ running[o][b] > 0
    /\ running' = [running EXCEPT ![o][b] = @ - 1]
    /\ tokens' \in {tokens, tokens + 1}
    /\ UNCHANGED <<runVars, callVars>>

\* readBlock reads the block through the slicer, well or badly, and its
\* deferred Release gives the token back.
ReadBlockDone(o, b) ==
    /\ running[o][b] > 0
    /\ running' = [running EXCEPT ![o][b] = @ - 1]
    /\ tokens' = tokens + 1
    /\ UNCHANGED <<runVars, callVars>>

----------------------------------------------------------------------------
\* withCaching.ReadAt reports reads inside the object; a failed read reports
\* the bytes it got.
SomeUpdate(o) == \E off \in 0 .. ObjSize[o] - 1 :
                    \E n \in 0 .. ObjSize[o] - off : Update(o, off, n)

Next == \E o \in Objects : \/ SomeUpdate(o)
                           \/ StartReadBlock(o)
                           \/ UpdateDone(o)
                           \/ \E b \in Blocks(o) : ReadBlockDone(o, b)

Spec == Init /\ [][Next]_vars

----------------------------------------------------------------------------
(* Properties *)

\* A goroutine is only started for a block after the one just read, inside the
\* object (readBlock cuts a non-empty slice), and beyond all the blocks that
\* the run has read ahead, so for none of them again (StartReadBlock).
AheadOfReader ==
    [][\A o \in Objects : Len(ahead'[o]) > Len(ahead[o]) =>
          LET b == ahead'[o][Len(ahead'[o])]
          IN /\ b > curr[o]
             /\ b <= curr[o] + window
             /\ b * bsize < ObjSize[o]
             /\ \A i \in 1 .. Len(ahead[o]) : ahead[o][i] < b]_vars

\* Within a run no block is read ahead twice.
AheadOnce ==
    \A o \in Objects : \A i, j \in 1 .. Len(ahead[o]) :
        i < j => ahead[o][i] < ahead[o][j]
=============================================================================

-------------------------- MODULE ReadAheadProofs --------------------------
(***************************************************************************)
(* For every block size, window, number of tokens and set of objects: the  *)
(* controller starts goroutines only for blocks ahead of the reader and    *)
(* inside the object, and within a run starts each block at most once.     *)
(***************************************************************************)
EXTENDS ReadAhead, TLAPS

USE ReadAheadAssumption

\* Division by the block size, and the blocks that m bytes fill.
LEMMA DivNat ==
    ASSUME NEW m \in Nat
    PROVE  m \div bsize \in Nat /\ (m \div bsize) * bsize <= m
  OBVIOUS

\* A block number below numBlocks starts inside the object.
LEMMA CeilBound ==
    ASSUME NEW m \in Nat
    PROVE  Ceil(m) \in Nat /\ \A b \in Nat : b < Ceil(m) => b * bsize < m
<1>1. m + bsize - 1 \in Nat
  OBVIOUS
<1> DEFINE q == (m + bsize - 1) \div bsize
<1>2. q \in Nat /\ q * bsize <= m + bsize - 1
  BY <1>1, DivNat
<1> HIDE DEF q
<1>3. ASSUME NEW b \in Nat, b < q PROVE b * bsize < m
  <2>1. (b + 1) * bsize <= q * bsize
    BY <1>2, <1>3
  <2>2. (b + 1) * bsize = b * bsize + bsize
    OBVIOUS
  <2>3. b * bsize \in Nat /\ q * bsize \in Nat
    BY <1>2
  <2> QED
    BY <1>2, <2>1, <2>2, <2>3
<1> QED
  BY <1>2, <1>3 DEF Ceil, q

----------------------------------------------------------------------------
\* The types of the controllers' state (readahead.go), for any constants.
RunType ==
    /\ pos \in [Objects -> Nat]
    /\ runLength \in [Objects -> Nat]
    /\ nextBlock \in [Objects -> Nat]
    /\ active \in [Objects -> BOOLEAN]
    /\ curr \in [Objects -> Nat]
    /\ damper \in [Objects -> Nat]
    /\ ahead \in [Objects -> Seq(Nat)]

\* While Update runs, nextBlock is past the block just read; and it is past
\* every block started in the run.
NextIsAhead ==
    \A o \in Objects : /\ active[o] => nextBlock[o] > curr[o]
                       /\ \A i \in 1 .. Len(ahead[o]) : ahead[o][i] < nextBlock[o]

RunInv == RunType /\ NextIsAhead /\ AheadOnce

\* A new controller satisfies the invariant of a run.
LEMMA RunInit == Init => RunInv
  BY DEF Init, RunInv, RunType, NextIsAhead, AheadOnce

\* Update, each turn of its loop and readBlock keep that invariant.
LEMMA RunStep == RunInv /\ [Next]_vars => RunInv'
<1> SUFFICES ASSUME RunInv, [Next]_vars PROVE RunInv'
  OBVIOUS
<1> USE DEF RunInv
<1>0. CASE UNCHANGED vars
  BY <1>0 DEF vars, RunType, NextIsAhead, AheadOnce
<1>1. ASSUME NEW o \in Objects, NEW off \in Nat, NEW m \in Nat, Update(o, off, m)
      PROVE  RunInv'
  <2> DEFINE block == off \div bsize
  <2>0. block \in Nat
    BY DivNat
  <2>1. /\ pos' = [pos EXCEPT ![o] = off + m]
        /\ active' = [active EXCEPT ![o] = TRUE]
        /\ curr' = [curr EXCEPT ![o] = block]
        /\ damper' = [damper EXCEPT ![o] = Ceil(runLength'[o])]
    BY <1>1 DEF Update
  <2>2. Reset(o, block, m) \/ Sequential(o, block, m)
    BY <1>1 DEF Update
  <2> HIDE DEF block
  <2>3. runLength' \in [Objects -> Nat]
    <3>1. runLength \in [Objects -> Nat]
      BY DEF RunType
    <3>2. \/ runLength' = [runLength EXCEPT ![o] = m]
          \/ runLength' = [runLength EXCEPT ![o] = runLength[o] + m]
      BY <2>2 DEF Reset, Sequential
    <3> QED
      BY <3>1, <3>2
  <2>4. nextBlock' \in [Objects -> Nat] /\ nextBlock'[o] > block
    <3>1. nextBlock \in [Objects -> Nat]
      BY DEF RunType
    <3>2. \/ nextBlock' = [nextBlock EXCEPT ![o] = block + 1]
          \/ nextBlock' = nextBlock /\ ~(nextBlock[o] <= block)
      BY <2>2, <3>1 DEF Reset, Sequential
    <3> QED
      BY <2>0, <3>1, <3>2
  <2>5. ahead' \in [Objects -> Seq(Nat)]
    <3>1. ahead \in [Objects -> Seq(Nat)] /\ <<>> \in Seq(Nat)
      BY DEF RunType
    <3>2. ahead' = ahead \/ ahead' = [ahead EXCEPT ![o] = <<>>]
      BY <2>2 DEF Reset, Sequential
    <3> QED
      BY <3>1, <3>2
  <2>6. Ceil(runLength'[o]) \in Nat
    BY <2>3, CeilBound
  <2>7. RunType'
    <3>1. /\ pos \in [Objects -> Nat] /\ active \in [Objects -> BOOLEAN]
          /\ curr \in [Objects -> Nat] /\ damper \in [Objects -> Nat]
      BY DEF RunType
    <3>2. pos' \in [Objects -> Nat] /\ curr' \in [Objects -> Nat]
      BY <2>0, <2>1, <3>1
    <3>3. active' \in [Objects -> BOOLEAN]
      BY <2>1, <3>1
    <3>4. damper' \in [Objects -> Nat]
      BY <2>1, <2>6, <3>1
    <3> QED
      BY <2>3, <2>4, <2>5, <3>2, <3>3, <3>4 DEF RunType
  <2>8. \A p \in Objects : p # o => /\ active'[p] = active[p] /\ curr'[p] = curr[p]
                                   /\ nextBlock'[p] = nextBlock[p]
                                   /\ ahead'[p] = ahead[p]
    BY <2>1, <2>2 DEF Reset, Sequential, RunType
  <2>9. curr'[o] = block
    BY <2>1 DEF RunType
  <2>10. /\ \A i \in 1 .. Len(ahead'[o]) : ahead'[o][i] < nextBlock'[o]
         /\ \A i, j \in 1 .. Len(ahead'[o]) : i < j => ahead'[o][i] < ahead'[o][j]
    <3>1. CASE Reset(o, block, m)
      <4>1. ahead'[o] = <<>>
        BY <3>1 DEF Reset, RunType
      <4> QED
        BY <4>1
    <3>2. CASE Sequential(o, block, m)
      <4>1. ahead'[o] = ahead[o] /\ nextBlock'[o] >= nextBlock[o]
        BY <2>0, <3>2 DEF Sequential, RunType
      <4>2. /\ nextBlock[o] \in Nat /\ nextBlock'[o] \in Nat
            /\ \A i \in 1 .. Len(ahead[o]) : ahead[o][i] \in Nat
        BY <2>4 DEF RunType
      <4> QED
        BY <4>1, <4>2 DEF NextIsAhead, AheadOnce
    <3> QED
      BY <2>2, <3>1, <3>2
  <2>11. NextIsAhead' /\ AheadOnce'
    BY <2>4, <2>8, <2>9, <2>10 DEF NextIsAhead, AheadOnce
  <2> QED
    BY <2>7, <2>11
<1>2. ASSUME NEW o \in Objects, StartReadBlock(o) PROVE RunInv'
  <2>1. /\ ahead' = [ahead EXCEPT ![o] = Append(ahead[o], nextBlock[o])]
        /\ nextBlock' = [nextBlock EXCEPT ![o] = nextBlock[o] + 1]
        /\ damper' = [damper EXCEPT ![o] = damper[o] - 1]
        /\ damper[o] > 0
        /\ UNCHANGED <<pos, runLength, active, curr>>
    BY <1>2 DEF StartReadBlock, Worth
  <2>2. /\ nextBlock[o] \in Nat /\ ahead[o] \in Seq(Nat) /\ damper[o] - 1 \in Nat
        /\ Append(ahead[o], nextBlock[o]) \in Seq(Nat)
    BY <2>1 DEF RunType
  <2>3. RunType'
    BY <2>1, <2>2 DEF RunType
  <2>4. /\ ahead'[o] = Append(ahead[o], nextBlock[o])
        /\ nextBlock'[o] = nextBlock[o] + 1
        /\ \A p \in Objects : p # o => /\ ahead'[p] = ahead[p]
                                       /\ nextBlock'[p] = nextBlock[p]
    BY <2>1 DEF RunType
  <2>5. /\ Len(ahead'[o]) = Len(ahead[o]) + 1
        /\ \A i \in 1 .. Len(ahead[o]) : ahead'[o][i] = ahead[o][i]
                                        /\ ahead[o][i] \in Nat
        /\ ahead'[o][Len(ahead[o]) + 1] = nextBlock[o]
        /\ Len(ahead[o]) \in Nat
    <3> DEFINE run == ahead[o]
               b   == nextBlock[o]
    <3>1. run \in Seq(Nat) /\ b \in Nat /\ ahead'[o] = Append(run, b)
      BY <2>2, <2>4
    <3> HIDE DEF run, b
    <3>2. /\ Len(run) \in Nat /\ Len(Append(run, b)) = Len(run) + 1
          /\ Append(run, b)[Len(run) + 1] = b
      BY <3>1
    <3>3. \A i \in 1 .. Len(run) : Append(run, b)[i] = run[i] /\ run[i] \in Nat
      BY <3>1
    <3> QED
      BY <3>1, <3>2, <3>3 DEF run, b
  <2>6. curr[o] \in Nat
    BY DEF RunType
  <2>7. NextIsAhead'
    <3> SUFFICES ASSUME NEW p \in Objects
                 PROVE  /\ active[p] => nextBlock'[p] > curr[p]
                        /\ \A i \in 1 .. Len(ahead'[p]) : ahead'[p][i] < nextBlock'[p]
      BY <2>1 DEF NextIsAhead
    <3>1. CASE p = o
      <4>1. active[o] => nextBlock[o] > curr[o]
        BY DEF NextIsAhead
      <4>2. active[o] => nextBlock[o] + 1 > curr[o]
        BY <2>2, <2>6, <4>1
      <4>3. ASSUME NEW i \in 1 .. Len(ahead[o]) + 1
            PROVE  ahead'[o][i] < nextBlock[o] + 1
        <5>1. CASE i \in 1 .. Len(ahead[o])
          <6>1. ahead[o][i] < nextBlock[o]
            BY <5>1 DEF NextIsAhead
          <6> QED
            BY <2>2, <2>5, <5>1, <6>1
        <5>2. CASE i = Len(ahead[o]) + 1
          BY <2>2, <2>5, <5>2
        <5> QED
          BY <2>5, <5>1, <5>2
      <4> QED
        BY <2>4, <2>5, <3>1, <4>2, <4>3
    <3>2. CASE p # o
      BY <2>4, <3>2 DEF NextIsAhead
    <3> QED
      BY <3>1, <3>2
  <2>8. AheadOnce'
    <3> SUFFICES ASSUME NEW p \in Objects,
                        NEW i \in 1 .. Len(ahead'[p]), NEW j \in 1 .. Len(ahead'[p]),
                        i < j
                 PROVE  ahead'[p][i] < ahead'[p][j]
      BY DEF AheadOnce
    <3>1. CASE p = o
      <4>1. i \in 1 .. Len(ahead[o])
        BY <2>5, <3>1
      <4>2. CASE j \in 1 .. Len(ahead[o])
        BY <2>5, <3>1, <4>1, <4>2 DEF AheadOnce
      <4>3. CASE j = Len(ahead[o]) + 1
        BY <2>5, <3>1, <4>1, <4>3 DEF NextIsAhead
      <4> QED
        BY <2>5, <3>1, <4>2, <4>3
    <3>2. CASE p # o
      BY <2>4, <3>2 DEF AheadOnce
    <3> QED
      BY <3>1, <3>2
  <2> QED
    BY <2>3, <2>7, <2>8
<1>3. ASSUME NEW o \in Objects, UpdateDone(o) PROVE RunInv'
  BY <1>3 DEF UpdateDone, runVars, RunType, NextIsAhead, AheadOnce
<1>4. ASSUME NEW o \in Objects, NEW b \in Blocks(o), ReadBlockDone(o, b) PROVE RunInv'
  BY <1>4 DEF ReadBlockDone, runVars, callVars, RunType, NextIsAhead, AheadOnce
<1> QED
  BY <1>0, <1>1, <1>2, <1>3, <1>4 DEF Next, SomeUpdate

\* Within a run of sequential reads no block is read ahead twice (Update).
THEOREM ReadAheadOnce == Spec => []AheadOnce
<1>1. Spec => []RunInv
  BY RunInit, RunStep, PTL DEF Spec
<1> QED
  BY <1>1, PTL DEF RunInv

\* A read-ahead goroutine is started only for a block past the one just read,
\* within the window, beyond all that the run has read ahead, and holding at
\* least one byte of the object.
THEOREM ReadAheadInObject == Spec => AheadOfReader
<1> DEFINE A == \A o \in Objects : Len(ahead'[o]) > Len(ahead[o]) =>
                  LET b == ahead'[o][Len(ahead'[o])]
                  IN /\ b > curr[o]
                     /\ b <= curr[o] + window
                     /\ b * bsize < ObjSize[o]
                     /\ \A i \in 1 .. Len(ahead[o]) : ahead[o][i] < b
<1>1. RunInv /\ [Next]_vars => [A]_vars
  <2> SUFFICES ASSUME RunInv, Next PROVE A
    OBVIOUS
  <2> SUFFICES ASSUME NEW o \in Objects, Len(ahead'[o]) > Len(ahead[o])
               PROVE  LET b == ahead'[o][Len(ahead'[o])]
                      IN /\ b > curr[o]
                         /\ b <= curr[o] + window
                         /\ b * bsize < ObjSize[o]
                         /\ \A i \in 1 .. Len(ahead[o]) : ahead[o][i] < b
    OBVIOUS
  <2> USE DEF RunInv
  <2>1. PICK p \in Objects : \/ SomeUpdate(p)
                             \/ StartReadBlock(p)
                             \/ UpdateDone(p)
                             \/ \E b \in Blocks(p) : ReadBlockDone(p, b)
    BY DEF Next
  <2>2. ahead[o] \in Seq(Nat) /\ nextBlock[o] \in Nat
    BY DEF RunType
  <2>3. ~SomeUpdate(p)
    <3> SUFFICES ASSUME SomeUpdate(p) PROVE FALSE
      OBVIOUS
    <3>1. PICK off \in Nat, m \in Nat : Update(p, off, m)
      BY DEF SomeUpdate
    <3>2. ahead' = ahead \/ ahead' = [ahead EXCEPT ![p] = <<>>]
      BY <3>1 DEF Update, Reset, Sequential
    <3>3. ahead'[o] = ahead[o] \/ ahead'[o] = <<>>
      BY <3>2 DEF RunType
    <3> QED
      BY <2>2, <3>3
  <2>4. StartReadBlock(p) /\ p = o
    <3>1. StartReadBlock(p)
      BY <2>1, <2>2, <2>3 DEF UpdateDone, ReadBlockDone, runVars
    <3>2. ahead' = [ahead EXCEPT ![p] = Append(ahead[p], nextBlock[p])]
      BY <3>1 DEF StartReadBlock
    <3>3. p = o
      BY <2>2, <3>2 DEF RunType
    <3> QED
      BY <3>1, <3>3
  <2>5. ahead'[o] = Append(ahead[o], nextBlock[o])
    BY <2>4 DEF StartReadBlock, RunType
  <2>6. ahead'[o][Len(ahead'[o])] = nextBlock[o]
    BY <2>2, <2>5
  <2>7. nextBlock[o] > curr[o] /\ nextBlock[o] <= curr[o] + window
    BY <2>4 DEF StartReadBlock, Worth, NextIsAhead
  <2>8. nextBlock[o] * bsize < ObjSize[o]
    BY <2>2, <2>4, CeilBound DEF StartReadBlock, Worth, numBlocks
  <2>9. \A i \in 1 .. Len(ahead[o]) : ahead[o][i] < nextBlock[o]
    BY DEF NextIsAhead
  <2> QED
    BY <2>6, <2>7, <2>8, <2>9
<1>2. Spec => []RunInv
  BY RunInit, RunStep, PTL DEF Spec
<1> QED
  BY <1>1, <1>2, PTL DEF Spec, AheadOfReader
=============================================================================

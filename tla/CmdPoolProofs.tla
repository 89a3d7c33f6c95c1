--------------------------- MODULE CmdPoolProofs ---------------------------
(***************************************************************************)
(* The pool of SCSI workers never sends on a closed channel, whatever the  *)
(* number of workers, devices and commands.  The argument is that the      *)
(* WaitGroup outstanding counts exactly the commands between the feeder's  *)
(* receive and the worker's done(), so that out is closed only when there  *)
(* is none.                                                                *)
(***************************************************************************)
EXTENDS CmdPool, FiniteSetTheorems, TLAPS

\* The commands of d that were taken from in and not yet counted as done.
Pending(d) == {c \in Cmds : DevOf[c] = d /\ cmd[c] \notin {"new", "done"}}

\* The WaitGroup of each feeder counts its pending commands.
Counted == \A d \in Devs : outstanding[d] = Cardinality(Pending(d))

\* The goroutines that CmdPool.wg must wait for.
Running == {w \in Workers : worker[w] # Gone}
           \cup {d \in Devs : feeder[d] \in {"recv", "offer", "drain"}}

\* Behind a closed channel there is neither a feeder nor a pending command.
ClosedIsDrained == \A d \in outClosed : feeder[d] = "gone" /\ Pending(d) = {}

PoolInv == /\ TypeOK
           /\ Counted
           /\ wg = Cardinality(Running)
           /\ ClosedIsDrained
           /\ closer = "closed" => wg = 0
           /\ NoChannelPanic

\* Counting a new member.
LEMMA AddOne ==
    ASSUME NEW S, NEW T, IsFiniteSet(S), NEW x, x \notin S, T = S \cup {x}
    PROVE  Cardinality(T) = Cardinality(S) + 1 /\ Cardinality(S) \in Nat
BY FS_AddElement, FS_CardinalityType

\* Counting one member less.
LEMMA RemoveOne ==
    ASSUME NEW S, NEW T, IsFiniteSet(S), NEW x, x \in S, T = S \ {x}
    PROVE  Cardinality(T) = Cardinality(S) - 1 /\ Cardinality(S) \in Nat \ {0}
<1>1. IsFiniteSet(T) /\ x \notin T /\ S = T \cup {x}
  BY FS_RemoveElement
<1>2. Cardinality(T) \in Nat /\ Cardinality(S) = Cardinality(T) + 1
  BY <1>1, FS_AddElement, FS_CardinalityType
<1>. QED BY <1>2

\* What is counted is finite.
LEMMA CountedFinite ==
    ASSUME TypeOK
    PROVE  IsFiniteSet(Running) /\ \A d \in Devs : IsFiniteSet(Pending(d))
<1>1. IsFiniteSet(Workers \cup Devs)
  BY PoolAssumption, FS_Union
<1>2. IsFiniteSet(Running)
  BY <1>1, FS_Subset DEF Running
<1>3. \A d \in Devs : IsFiniteSet(Pending(d))
  BY PoolAssumption, FS_Subset DEF Pending
<1>. QED BY <1>2, <1>3

\* NewCmdPool establishes the invariant.
LEMMA PoolInit == Init => PoolInv
<1>. SUFFICES ASSUME Init PROVE PoolInv
  OBVIOUS
<1>1. Cardinality({}) = 0
  BY FS_EmptySet
<1>2. Running = Workers
  BY PoolAssumption DEF Init, Running
<1>3. \A d \in Devs : Pending(d) = {}
  BY DEF Init, Pending
<1>4. Cardinality(Workers) \in Nat
  BY PoolAssumption, FS_CardinalityType
<1>5. TypeOK
  BY <1>4 DEF Init, TypeOK
<1>. QED BY <1>1, <1>2, <1>3, <1>5 DEF Init, PoolInv, Counted, ClosedIsDrained, NoChannelPanic

\* The counters are untouched by a step that leaves these sets alone.
LEMMA SameCounts ==
    ASSUME PoolInv, TypeOK',
           Running' = Running, wg' = wg,
           \A d \in Devs : Pending(d)' = Pending(d),
           outstanding' = outstanding,
           \A d \in outClosed' : d \in outClosed /\ feeder'[d] = feeder[d],
           closer' = "closed" => closer = "closed" \/ wg = 0,
           panic' \in {"no", "handler"}
    PROVE  PoolInv'
<1>1. Counted' /\ wg' = Cardinality(Running')
  BY DEF PoolInv, Counted
<1>2. ClosedIsDrained'
  BY DEF PoolInv, ClosedIsDrained, TypeOK
<1>. QED BY <1>1, <1>2 DEF PoolInv, NoChannelPanic

\* A goroutine that leaves takes itself out of wg.
LEMMA LeaveCounts ==
    ASSUME PoolInv, NEW x, x \in Running, Running' = Running \ {x}, wg' = wg - 1
    PROVE  wg' \in Nat /\ wg' = Cardinality(Running') /\ closer # "closed"
<1>1. Cardinality(Running') = Cardinality(Running) - 1 /\ Cardinality(Running) \in Nat \ {0}
  BY CountedFinite, RemoveOne DEF PoolInv
<1>. QED BY <1>1 DEF PoolInv

\* Every step of the pool and of go-tcmu preserves the invariant.
LEMMA PoolStep == PoolInv /\ [Next]_vars => PoolInv'
<1>. SUFFICES ASSUME PoolInv, [Next]_vars PROVE PoolInv'
  OBVIOUS
<1>. USE PoolAssumption
<1>t. TypeOK
  BY DEF PoolInv
<1>o. outstanding \in [Devs -> Nat]
  BY <1>t DEF TypeOK
<1>f. IsFiniteSet(Running) /\ \A d \in Devs : IsFiniteSet(Pending(d))
  BY <1>t, CountedFinite
<1>1. ASSUME NEW d \in Devs, DevReady(d) PROVE PoolInv'
  <2>1. d \notin Running /\ Running' = Running \cup {d}
    BY <1>1, <1>t DEF DevReady, Running, TypeOK
  <2>2. wg' = Cardinality(Running') /\ wg' \in Nat
    <3>1. Cardinality(Running') = Cardinality(Running) + 1 /\ Cardinality(Running) \in Nat
      BY <1>f, <2>1, AddOne
    <3>2. wg' = wg + 1 /\ wg = Cardinality(Running)
      BY <1>1 DEF DevReady, PoolInv
    <3>. QED BY <3>1, <3>2
  <2>3. TypeOK'
    BY <1>1, <1>t, <2>2 DEF DevReady, TypeOK
  <2>4. \A e \in Devs : Pending(e)' = Pending(e)
    BY <1>1 DEF DevReady, Pending
  <2>5. Counted' /\ ClosedIsDrained'
    BY <1>1, <1>t, <2>4 DEF DevReady, PoolInv, Counted, ClosedIsDrained, TypeOK
  <2>. QED BY <1>1, <2>2, <2>3, <2>5 DEF DevReady, PoolInv, NoChannelPanic
<1>2. ASSUME NEW d \in Devs, NEW c \in Cmds, FeedRecv(d, c) PROVE PoolInv'
  <2>a. cmd[c] = "new" /\ DevOf[c] = d /\ cmd' = [cmd EXCEPT ![c] = "held"]
    BY <1>2 DEF FeedRecv
  <2>b. outstanding' = [outstanding EXCEPT ![d] = @ + 1]
    BY <1>2 DEF FeedRecv
  <2>c. cmd'[c] = "held" /\ \A x \in Cmds \ {c} : cmd'[x] = cmd[x]
    BY <2>a, <1>t DEF TypeOK
  <2>1. c \notin Pending(d) /\ Pending(d)' = Pending(d) \cup {c}
    BY <2>a, <2>c DEF Pending
  <2>2. \A e \in Devs \ {d} : Pending(e)' = Pending(e)
    BY <2>a, <2>c DEF Pending
  <2>3. Cardinality(Pending(d)') = Cardinality(Pending(d)) + 1 /\ Cardinality(Pending(d)) \in Nat
    BY <1>f, <2>1, AddOne
  <2>d. cmd' \in [Cmds -> {"new", "held", "handling", "reply", "sent", "done", "dropped"}]
    BY <2>a, <1>t DEF TypeOK
  <2>e. outstanding' \in [Devs -> Nat]
    BY <2>b, <1>o
  <2>4. TypeOK'
    BY <1>2, <1>t, <2>d, <2>e DEF FeedRecv, TypeOK
  <2>5. Counted'
    BY <1>2, <1>t, <2>2, <2>3 DEF FeedRecv, PoolInv, Counted, TypeOK
  <2>6. Running' = Running
    BY <1>2, <1>t DEF FeedRecv, Running, TypeOK
  <2>7. ClosedIsDrained'
    BY <1>2, <1>t, <2>2 DEF FeedRecv, PoolInv, ClosedIsDrained, TypeOK
  <2>. QED BY <1>2, <2>4, <2>5, <2>6, <2>7 DEF FeedRecv, PoolInv, NoChannelPanic
<1>3. ASSUME NEW d \in Devs, NEW c \in Cmds, NEW w \in Workers, Offer(d, c, w) PROVE PoolInv'
  <2>1. TypeOK'
    BY <1>3, <1>t DEF Offer, TypeOK
  <2>2. \A e \in Devs : Pending(e)' = Pending(e)
    BY <1>3, <1>t DEF Offer, Pending, TypeOK
  <2>3. Running' = Running
    BY <1>3, <1>t DEF Offer, Running, TypeOK
  <2>4. \A e \in outClosed' : e \in outClosed /\ feeder'[e] = feeder[e]
    BY <1>3, <1>t DEF Offer, PoolInv, ClosedIsDrained, TypeOK
  <2>. QED BY <1>3, <2>1, <2>2, <2>3, <2>4, SameCounts DEF Offer, PoolInv, NoChannelPanic
<1>4. ASSUME NEW d \in Devs, FeedEOF(d) PROVE PoolInv'
  <2>1. TypeOK'
    BY <1>4, <1>t DEF FeedEOF, TypeOK
  <2>2. \A e \in Devs : Pending(e)' = Pending(e)
    BY <1>4 DEF FeedEOF, Pending
  <2>3. Running' = Running
    BY <1>4, <1>t DEF FeedEOF, Running, TypeOK
  <2>4. \A e \in outClosed' : e \in outClosed /\ feeder'[e] = feeder[e]
    BY <1>4, <1>t DEF FeedEOF, PoolInv, ClosedIsDrained, TypeOK
  <2>. QED BY <1>4, <2>1, <2>2, <2>3, <2>4, SameCounts DEF FeedEOF, PoolInv, NoChannelPanic
<1>5. ASSUME NEW d \in Devs, FeedDrained(d) PROVE PoolInv'
  <2>1. d \in Running /\ Running' = Running \ {d}
    BY <1>5, <1>t DEF FeedDrained, Running, TypeOK
  <2>2. wg' \in Nat /\ wg' = Cardinality(Running') /\ closer # "closed"
    BY <1>5, <2>1, LeaveCounts DEF FeedDrained
  <2>3. TypeOK'
    BY <1>5, <1>t, <2>2 DEF FeedDrained, TypeOK
  <2>4. \A e \in Devs : Pending(e)' = Pending(e)
    BY <1>5 DEF FeedDrained, Pending
  <2>5. Pending(d) = {}
    BY <1>5, <1>f, FS_EmptySet DEF FeedDrained, PoolInv, Counted
  <2>6. ClosedIsDrained'
    BY <1>5, <1>t, <2>4, <2>5 DEF FeedDrained, PoolInv, ClosedIsDrained, TypeOK
  <2>7. Counted'
    BY <1>5, <2>4 DEF FeedDrained, PoolInv, Counted
  <2>. QED BY <1>5, <2>2, <2>3, <2>6, <2>7 DEF FeedDrained, PoolInv, NoChannelPanic
<1>6. ASSUME NEW d \in Devs, FeedDone(d) PROVE PoolInv'
  <2>1. d \in Running /\ Running' = Running \ {d}
    BY <1>6, <1>t DEF FeedDone, Running, TypeOK
  <2>2. wg' \in Nat /\ wg' = Cardinality(Running') /\ closer # "closed"
    BY <1>6, <2>1, LeaveCounts DEF FeedDone
  <2>3. TypeOK'
    BY <1>6, <1>t, <2>2 DEF FeedDone, TypeOK
  <2>4. \A e \in Devs : Pending(e)' = Pending(e)
    BY <1>6, <1>t DEF FeedDone, Pending, TypeOK
  <2>5. ClosedIsDrained' /\ Counted'
    BY <1>6, <1>t, <2>4 DEF FeedDone, PoolInv, ClosedIsDrained, Counted, TypeOK
  <2>. QED BY <1>6, <2>2, <2>3, <2>5 DEF FeedDone, PoolInv, NoChannelPanic
<1>7. ASSUME NEW w \in Workers, NEW c \in Cmds, Handle(w, c) PROVE PoolInv'
  <2>1. TypeOK'
    BY <1>7, <1>t DEF Handle, TypeOK
  <2>2. \A e \in Devs : Pending(e)' = Pending(e)
    BY <1>7, <1>t DEF Handle, Pending, TypeOK
  <2>3. Running' = Running
    BY <1>7 DEF Handle, Running
  <2>. QED BY <1>7, <2>1, <2>2, <2>3, SameCounts DEF Handle, PoolInv, NoChannelPanic
<1>8. ASSUME NEW w \in Workers, NEW c \in Cmds, HandleErr(w, c) PROVE PoolInv'
  <2>1. TypeOK'
    BY <1>8, <1>t DEF HandleErr, TypeOK
  <2>2. \A e \in Devs : Pending(e)' = Pending(e)
    BY <1>8 DEF HandleErr, Pending
  <2>3. Running' = Running
    BY <1>8 DEF HandleErr, Running
  <2>. QED BY <1>8, <2>1, <2>2, <2>3, SameCounts DEF HandleErr
<1>9. ASSUME NEW w \in Workers, NEW c \in Cmds, Reply(w, c) PROVE PoolInv'
  <2>1. c \in Pending(DevOf[c])
    BY <1>9, <1>t DEF Reply, Pending, TypeOK
  <2>2. DevOf[c] \notin outClosed
    BY <2>1 DEF PoolInv, ClosedIsDrained
  <2>3. TypeOK'
    BY <1>9, <1>t DEF Reply, TypeOK
  <2>4. \A e \in Devs : Pending(e)' = Pending(e)
    BY <1>9, <1>t, <2>2 DEF Reply, Pending, TypeOK
  <2>5. Running' = Running
    BY <1>9 DEF Reply, Running
  <2>. QED BY <1>9, <2>2, <2>3, <2>4, <2>5, SameCounts DEF Reply, PoolInv, NoChannelPanic
<1>10. ASSUME NEW w \in Workers, NEW c \in Cmds, CmdDone(w, c) PROVE PoolInv'
  <2>. DEFINE d == DevOf[c]
  <2>1. d \in Devs /\ c \in Pending(d) /\ Pending(d)' = Pending(d) \ {c}
    BY <1>10, <1>t DEF CmdDone, Pending, TypeOK
  <2>2. \A e \in Devs \ {d} : Pending(e)' = Pending(e)
    BY <1>10, <1>t DEF CmdDone, Pending, TypeOK
  <2>3. Cardinality(Pending(d)') = Cardinality(Pending(d)) - 1 /\ Cardinality(Pending(d)) \in Nat \ {0}
    BY <1>f, <2>1, RemoveOne
  <2>a. outstanding[d] > 0 /\ outstanding[d] \in Nat
    BY <2>1, <2>3 DEF PoolInv, Counted
  <2>4. panic' = panic /\ outstanding' = [outstanding EXCEPT ![d] = @ - 1]
    BY <1>10, <2>a DEF CmdDone
  <2>b. outstanding' \in [Devs -> Nat]
    BY <1>o, <2>1, <2>4, <2>a
  <2>5. TypeOK'
    BY <1>10, <1>t, <2>4, <2>b DEF CmdDone, TypeOK
  <2>6. Counted'
    BY <1>t, <2>1, <2>2, <2>3, <2>4 DEF PoolInv, Counted, TypeOK
  <2>7. Running' = Running
    BY <1>10, <1>t DEF CmdDone, Running, TypeOK
  <2>8. ClosedIsDrained'
    BY <1>10, <1>t, <2>1, <2>2 DEF CmdDone, PoolInv, ClosedIsDrained, TypeOK
  <2>. QED BY <1>10, <2>4, <2>5, <2>6, <2>7, <2>8 DEF CmdDone, PoolInv, NoChannelPanic
<1>11. ASSUME NEW w \in Workers, WorkerDone(w) PROVE PoolInv'
  <2>a. w \notin Devs /\ worker[w] # Gone /\ worker'[w] = Gone /\ feeder' = feeder
    BY <1>11, <1>t DEF WorkerDone, TypeOK
  <2>b. \A v \in Workers \ {w} : worker'[v] = worker[v]
    BY <1>11, <1>t DEF WorkerDone, TypeOK
  <2>1. w \in Running /\ Running' = Running \ {w}
    BY <2>a, <2>b DEF Running
  <2>2. wg' \in Nat /\ wg' = Cardinality(Running') /\ closer # "closed"
    BY <1>11, <2>1, LeaveCounts DEF WorkerDone
  <2>3. TypeOK'
    BY <1>11, <1>t, <2>2 DEF WorkerDone, TypeOK
  <2>4. ClosedIsDrained' /\ Counted'
    BY <1>11 DEF WorkerDone, PoolInv, ClosedIsDrained, Counted, Pending
  <2>. QED BY <1>11, <2>2, <2>3, <2>4 DEF WorkerDone, PoolInv, NoChannelPanic
<1>12. ASSUME Close \/ CloseWait \/ (\E d \in Devs : CloseIn(d) \/ StopReading(d)) \/ Ended
       PROVE PoolInv'
  <2>1. TypeOK' /\ Running' = Running /\ wg' = wg /\ outstanding' = outstanding /\ panic' = panic
    BY <1>12, <1>t DEF Close, CloseWait, CloseIn, StopReading, Ended, vars, TypeOK, Running
  <2>2. \A e \in Devs : Pending(e)' = Pending(e)
    BY <1>12 DEF Close, CloseWait, CloseIn, StopReading, Ended, vars, Pending
  <2>3. outClosed' = outClosed /\ feeder' = feeder /\ (closer' = "closed" => closer = "closed" \/ wg = 0)
    BY <1>12 DEF Close, CloseWait, CloseIn, StopReading, Ended, vars
  <2>. QED BY <2>1, <2>2, <2>3, SameCounts DEF PoolInv, NoChannelPanic
<1>13. CASE UNCHANGED vars
  <2>1. TypeOK' /\ Running' = Running /\ \A e \in Devs : Pending(e)' = Pending(e)
    BY <1>13, <1>t DEF vars, TypeOK, Running, Pending
  <2>. QED BY <1>13, <2>1, SameCounts DEF vars, PoolInv, NoChannelPanic
<1>. QED
  BY <1>1, <1>2, <1>3, <1>4, <1>5, <1>6, <1>7, <1>8, <1>9, <1>10, <1>11, <1>12, <1>13
  DEF Next, Feeder, Worker, Kernel

\* The invariant holds in every reachable state.
LEMMA PoolAlways == Spec => []PoolInv
BY PoolInit, PoolStep, PTL DEF Spec

\* Sending on a closed channel and a negative WaitGroup are impossible: the
\* Add in DevReady's goroutine before the send to the workers, the Wait before
\* close(out), and the done() after the answer are in the right order.
THEOREM PoolNoPanic == Spec => []NoChannelPanic
<1>1. PoolInv => NoChannelPanic
  BY DEF PoolInv
<1>. QED BY <1>1, PoolAlways, PTL

\* A device that closes has seen all its answers.
THEOREM PoolAnswers == Spec => []AnsweredBeforeClose
<1>1. PoolInv => AnsweredBeforeClose
  BY DEF PoolInv, ClosedIsDrained, Pending, AnsweredBeforeClose
<1>. QED BY <1>1, PoolAlways, PTL

\* When Close returned no goroutine of the pool is left.
THEOREM PoolQuiet == Spec => []QuietAfterClose
<1>1. ASSUME PoolInv PROVE QuietAfterClose
  <2>1. TypeOK /\ (closer = "closed" => Running = {})
    BY <1>1, CountedFinite, FS_EmptySet DEF PoolInv
  <2>. QED BY <2>1 DEF QuietAfterClose, Running, TypeOK
<1>. QED BY <1>1, PoolAlways, PTL
=============================================================================

------------------------------ MODULE Visitor ------------------------------
(***************************************************************************)
(* pkg/storage/driver/visitor.go: Visit walks a directory tree in rounds.  *)
(* A round takes directories off nextPaths, feeds them to workers through  *)
(* one channel, and appends the subdirectories that come back through      *)
(* another one; errors come through a third.                               *)
(*                                                                         *)
(* In depth-first mode the slice `paths` of a round and nextPaths share an *)
(* array: the model keeps what `append` does to it.                        *)
(***************************************************************************)
EXTENDS Naturals, Sequences, FiniteSets, BagsExt

CONSTANTS Dirs, Root,
          Hidden,       \* directories that ShouldVisitDir rejects
          maxWorkers,
          depthFirst,
          None,         \* no directory
          MaxErrs       \* bound on failing calls and cancellations

Workers == 1 .. maxWorkers

minI(a, b) == IF a < b THEN a ELSE b

VARIABLES
    main,       \* where Visit is, or what it returned
    nextPaths, cap,   \* the slice nextPaths and the capacity of its array
    paths,      \* the slice that the feeder walks
    base,       \* paths begins at this index of the array of nextPaths ...
    shared,     \* ... if that is still the array that paths lies in
    feed,       \* index of the next path to feed, or 0 when the feeder is gone
    hand,       \* the path in the feeder's hand
    inClosed, resClosed,   \* the channels inputPaths and resultPaths
    wk,         \* wk[w]: where worker w is, its directory, what it has to emit
    errs,       \* errors in the channel errors
    cancelled,  \* the context is done
    visits,     \* the bag of the directories for which VisitDir ran (ghost)
    children,   \* children[d]: the subdirectories of d, in any order; the
                \* tree may change while it is visited
    stable,     \* directories that have been there all the time (ghost)
    failed      \* calls that failed, cancellations by the caller (ghost)

feedVars == <<feed, hand, inClosed>>
sliceVars == <<nextPaths, cap, paths, base, shared>>
vars == <<main, nextPaths, cap, paths, base, shared, feed, hand, inClosed, resClosed, wk, errs,
          cancelled, visits, stable, failed>>

Away == [at |-> "none", dir |-> None, todo |-> {}]

TypeOK ==
    /\ main \in {"round", "accumulate", "nil", "error", "cancelled"}
    /\ nextPaths \in Seq(Dirs) /\ Len(nextPaths) <= cap
    /\ paths \in Seq(Dirs)
    /\ base \in Nat
    /\ shared \in BOOLEAN
    /\ feed \in 0 .. Len(paths) + 1
    /\ hand \in Dirs \cup {None}
    /\ inClosed \in BOOLEAN /\ resClosed \in BOOLEAN
    /\ wk \in [Workers -> [at : {"none", "recv", "visit", "emit", "gone"},
                           dir : Dirs \cup {None}, todo : SUBSET Dirs]]
    /\ errs \in 0 .. minI(Len(paths), maxWorkers)
    /\ cancelled \in BOOLEAN
    /\ DOMAIN visits \subseteq Dirs /\ \A d \in DOMAIN visits : visits[d] \in Nat
    /\ failed \in 0 .. MaxErrs

Init ==
    /\ main = "round"
    /\ nextPaths = <<Root>>
    /\ cap = 1
    /\ paths = <<>>
    /\ base = 0
    /\ shared = FALSE
    /\ feed = 0
    /\ hand = None
    /\ inClosed = FALSE
    /\ resClosed = FALSE
    /\ wk = [w \in Workers |-> Away]
    /\ errs = 0
    /\ cancelled = FALSE
    /\ visits = [d \in {} |-> 0]
    /\ stable = DOMAIN children
    /\ failed = 0

----------------------------------------------------------------------------
(* Visit *)

\* Nothing left: return nil, and cancel the context.
Return ==
    /\ main = "round"
    /\ nextPaths = <<>>
    /\ main' = "nil"
    /\ cancelled' = TRUE
    /\ UNCHANGED <<sliceVars, feedVars, resClosed, wk, errs, visits, stable, failed>>

\* Split nextPaths, make the channels, start the workers and the feeder.
Round ==
    LET amt == IF depthFirst THEN Len(nextPaths) - minI(Len(nextPaths), maxWorkers) ELSE 0
    IN /\ main = "round"
       /\ nextPaths # <<>>
       /\ main' = "accumulate"
       /\ paths' = SubSeq(nextPaths, amt + 1, Len(nextPaths))
       /\ nextPaths' = SubSeq(nextPaths, 1, amt)
       /\ base' = amt
       /\ shared' = depthFirst
       /\ cap' = IF depthFirst THEN cap ELSE 0
       /\ wk' = [w \in Workers |-> IF w <= minI(Len(paths'), maxWorkers)
                                   THEN [Away EXCEPT !.at = "recv"] ELSE Away]
       /\ feed' = 1
       /\ hand' = None
       /\ inClosed' = FALSE
       /\ resClosed' = FALSE
       /\ errs' = 0
       /\ UNCHANGED <<cancelled, visits, stable, failed>>

\* nextPaths = append(nextPaths, p): in place while the array has room, which
\* overwrites a path of this round if paths lies in that array; otherwise in a
\* new array of twice the size.
AppendPath(p) ==
    LET at == Len(nextPaths) + 1
    IN /\ nextPaths' = Append(nextPaths, p)
       /\ UNCHANGED base
       /\ IF at <= cap
          THEN /\ paths' = IF shared /\ at - base <= Len(paths)
                           THEN [paths EXCEPT ![at - base] = p] ELSE paths
               /\ UNCHANGED <<cap, shared>>
          ELSE /\ cap' = IF cap = 0 THEN 1 ELSE 2 * cap
               /\ shared' = FALSE
               /\ UNCHANGED paths

\* Mutant: the parent is queued again with its last subdirectory.
AccumulateAgain(w) ==
    /\ main = "accumulate"
    /\ wk[w].at = "emit"
    /\ \E d \in wk[w].todo :
          /\ AppendPath(d)
          /\ wk' = [wk EXCEPT ![w].at = IF wk[w].todo = {d} THEN "visit" ELSE "emit",
                              ![w].todo = @ \ {d}]
    /\ UNCHANGED <<main, feedVars, resClosed, errs, cancelled, visits, stable, failed>>

\* A worker sends a subdirectory and the accumulator takes it.
Accumulate(w) ==
    /\ main = "accumulate"
    /\ wk[w].at = "emit"
    /\ \E d \in wk[w].todo :
          /\ AppendPath(d)
          /\ wk' = [wk EXCEPT ![w] = IF wk[w].todo = {d} THEN [Away EXCEPT !.at = "recv"]
                                     ELSE [wk[w] EXCEPT !.todo = @ \ {d}]]
    /\ UNCHANGED <<main, feedVars, resClosed, errs, cancelled, visits, stable, failed>>

\* The accumulator finds resultPaths closed, and the round is over.
RoundDone ==
    /\ main = "accumulate"
    /\ resClosed
    /\ main' = "round"
    /\ UNCHANGED <<sliceVars, feedVars, resClosed, wk, errs, cancelled, visits, stable, failed>>

\* The accumulator finds an error, or the context done: Visit returns it.
ReturnErr ==
    /\ main = "accumulate"
    /\ \/ errs > 0 /\ main' = "error" /\ errs' = errs - 1
       \/ cancelled /\ main' = "cancelled" /\ UNCHANGED errs
    /\ cancelled' = TRUE
    /\ UNCHANGED <<sliceVars, feedVars, resClosed, wk, visits, stable, failed>>

\* The caller cancels its context.
Cancel ==
    /\ ~cancelled
    /\ failed < MaxErrs
    /\ failed' = failed + 1
    /\ cancelled' = TRUE
    /\ UNCHANGED <<main, sliceVars, feedVars, resClosed, wk, errs, visits, stable>>

----------------------------------------------------------------------------
(* The feeder *)

\* `for _, p := range paths`: p is read when its turn comes ...
FeedRead ==
    /\ feed \in 1 .. Len(paths)
    /\ hand = None
    /\ hand' = paths[feed]
    /\ UNCHANGED <<main, sliceVars, feed, inClosed, resClosed, wk, errs, cancelled, visits, stable, failed>>

\* ... and a worker takes it.
FeedSend(w) ==
    /\ hand # None
    /\ wk[w].at = "recv"
    /\ wk' = [wk EXCEPT ![w] = [at |-> "visit", dir |-> hand, todo |-> {}]]
    /\ feed' = feed + 1
    /\ hand' = None
    /\ UNCHANGED <<main, sliceVars, inClosed, resClosed, errs, cancelled, visits, stable, failed>>

FeedClose ==
    /\ feed = Len(paths) + 1
    /\ ~inClosed
    /\ inClosed' = TRUE
    /\ UNCHANGED <<main, sliceVars, feed, hand, resClosed, wk, errs, cancelled, visits, stable, failed>>

\* wg.Wait() and close(resultPaths).
FeedEnd ==
    /\ inClosed
    /\ feed # 0
    /\ \A w \in Workers : wk[w].at \in {"none", "gone"}
    /\ feed' = 0
    /\ resClosed' = TRUE
    /\ UNCHANGED <<main, sliceVars, hand, inClosed, wk, errs, cancelled, visits, stable, failed>>

----------------------------------------------------------------------------
(* visitWorker *)

\* ShouldVisitDir says no.
Skip(w) ==
    /\ wk[w].at = "visit"
    /\ wk[w].dir \in Hidden
    /\ wk' = [wk EXCEPT ![w] = [Away EXCEPT !.at = "recv"]]
    /\ UNCHANGED <<main, sliceVars, feedVars, resClosed, errs, cancelled, visits, stable, failed>>

\* Readdir and VisitDir succeed.
VisitDir(w) ==
    LET d == wk[w].dir
    IN /\ wk[w].at = "visit"
       /\ d \in DOMAIN children \ Hidden
       /\ visits' = BagAdd(visits, d)
       /\ wk' = [wk EXCEPT ![w] = IF children[d] = {} THEN [Away EXCEPT !.at = "recv"]
                                  ELSE [at |-> "emit", dir |-> d, todo |-> children[d]]]
       /\ UNCHANGED <<main, sliceVars, feedVars, resClosed, errs, cancelled, stable, failed>>

\* The worker leaves an error in the channel, which has room for one from every
\* worker, and returns.
LeaveError(w) ==
    /\ errs' = errs + 1
    /\ wk' = [wk EXCEPT ![w] = [Away EXCEPT !.at = "gone"]]
    /\ UNCHANGED <<main, sliceVars, feedVars, resClosed, cancelled, visits, stable>>

\* Readdir fails: the directory was removed since its parent was read.
VisitGone(w) ==
    /\ wk[w].at = "visit"
    /\ wk[w].dir \notin DOMAIN children \cup Hidden
    /\ LeaveError(w)
    /\ UNCHANGED failed

\* ShouldVisitDir, Readdir or VisitDir fails.
VisitErr(w) ==
    /\ wk[w].at = "visit"
    /\ failed < MaxErrs
    /\ failed' = failed + 1
    /\ LeaveError(w)

\* Mutant: a worker that is sending does not watch the context.
LeaveRecv(w) ==
    /\ wk[w].at = "recv" /\ inClosed
    /\ wk' = [wk EXCEPT ![w] = [Away EXCEPT !.at = "gone"]]
    /\ UNCHANGED <<main, sliceVars, feedVars, resClosed, errs, cancelled, visits, stable, failed>>

\* inputPaths is closed, or the context is done.
Leave(w) ==
    /\ \/ wk[w].at = "recv" /\ inClosed
       \/ wk[w].at \in {"recv", "emit"} /\ cancelled
    /\ wk' = [wk EXCEPT ![w] = [Away EXCEPT !.at = "gone"]]
    /\ UNCHANGED <<main, sliceVars, feedVars, resClosed, errs, cancelled, visits, stable, failed>>

----------------------------------------------------------------------------
Main      == Return \/ Round \/ RoundDone \/ ReturnErr \/ \E w \in Workers : Accumulate(w)
Feeder    == FeedRead \/ FeedClose \/ FeedEnd \/ \E w \in Workers : FeedSend(w)
Worker(w) == Skip(w) \/ VisitDir(w) \/ VisitGone(w) \/ VisitErr(w) \/ Leave(w)

Next == Main \/ Feeder \/ Cancel \/ \E w \in Workers : Worker(w)

----------------------------------------------------------------------------
(* Properties *)

Returned == main \in {"nil", "error", "cancelled"}

\* The directories that a recursive visit has to see: those that are there from
\* the beginning to the end, below no hidden one.  They are in every set of such
\* directories that has the root and, with a directory, its subdirectories.
IsChild(c, d) == d \in DOMAIN children /\ c \in children[d]
Closed(reach, there) ==
    /\ Root \in there => Root \in reach
    /\ \A e \in reach, c \in there : IsChild(c, e) => c \in reach
Wanted == LET there == stable \ Hidden
          IN {d \in there : \A reach \in SUBSET there : Closed(reach, there) => d \in reach}

\* Visit is a traversal: no directory is visited twice, and when Visit returns
\* nil and no call failed, every directory was visited that was there all the
\* time.  ("Recursively visit a directory hierarchy", and the Once() of the
\* tests.)
EachOnce == /\ \A d \in DOMAIN visits : visits[d] = 1
            /\ main = "nil" /\ failed = 0 => Wanted \subseteq DOMAIN visits

\* Visit returned and its workers are gone.
Ended == Returned /\ \A w \in Workers : wk[w].at \in {"none", "gone"}
=============================================================================

---------------------------- MODULE CachedObject ----------------------------
(***************************************************************************)
(* pkg/caching/cache.go, withCaching.ReadAt, with pkg/storage/concat.go,   *)
(* concatenated.ReadAt, and pkg/interval: a read of a cached object is cut *)
(* into blocks, the blocks are read concurrently into disjoint parts of    *)
(* the caller's buffer, their outcomes are joined, and the read-ahead      *)
(* controller of the object is told.  Composes with ReadAhead, whose       *)
(* Update is the last call of every ReadAt.                                *)
(*                                                                         *)
(* A slice is used by its contract as an AnonymousObject (the one that     *)
(* concat_test.go exercises): it delivers a prefix of what was asked, and  *)
(* an error unless that is all of it.  A byte of an object is modelled by  *)
(* its position.                                                           *)
(***************************************************************************)
EXTENDS AheadParams, Integers, FiniteSetsExt

CONSTANTS Readers,    \* goroutines that call ReadAt
          MaxLen      \* bound on len(p)

ASSUME ReadersAssumption ==
    /\ Readers # {}
    /\ MaxLen \in Nat

VARIABLES pos, runLength, nextBlock, active, curr, damper, tokens, running, ahead

raVars == <<pos, runLength, nextBlock, active, curr, damper, tokens, running, ahead>>

RA == INSTANCE ReadAhead

VARIABLES
    pc,       \* pc[r]: "idle", "read", "update", "loop" (inside Update), "done"
    call,     \* call[r]: the object, off and len(p) of the call
    items,    \* items[r][b]: the work item of block b
    buf,      \* buf[r]: the caller's p
    ret       \* ret[r]: the n and err of the call

vars == <<raVars, pc, call, items, buf, ret>>

Untouched == -1
Todo      == [n |-> 0, err |-> "todo"]

\* The locals of a reader that is in no call.
NoCall   == [obj |-> CHOOSE o \in Objects : TRUE, off |-> 0, len |-> 0]
NoItems  == [b \in {} |-> Todo]
NoBuf    == [i \in {} |-> Untouched]
NoReturn == [n |-> 0, err |-> "nil"]

Calls == {c \in [obj : Objects, off : Nat, len : 0 .. MaxLen] : c.off <= ObjSize[c.obj]}

TypeOK ==
    /\ RA!TypeOK
    /\ pc \in [Readers -> {"idle", "read", "update", "loop", "done"}]
    /\ \A r \in Readers :
        /\ call[r] \in Calls
        /\ buf[r] \in [0 .. call[r].len - 1 -> -1 .. ObjSize[call[r].obj] - 1]
        /\ ret[r].n \in 0 .. call[r].len
        /\ ret[r].err \in {"nil", "EOF", "fail", "unexpectedEOF"}
        /\ \A b \in DOMAIN items[r] : items[r][b].err \in {"todo", "nil", "EOF", "fail"}

Init ==
    /\ RA!Init
    /\ pc = [r \in Readers |-> "idle"]
    /\ call = [r \in Readers |-> NoCall]
    /\ items = [r \in Readers |-> NoItems]
    /\ buf = [r \in Readers |-> NoBuf]
    /\ ret = [r \in Readers |-> NoReturn]

----------------------------------------------------------------------------
(* Cutting a call into blocks. *)

\* interval.Intersection of [s, e) and [t, f)
Intersection(s, e, t, f) == [start |-> Max({s, t}), end |-> Min({e, f})]
NonEmpty(z) == z.start < z.end

\* Slicer.Slice: the last slice of the object is cut at its end.
SliceSize(o, b) == Min({bsize, ObjSize[o] - b * bsize})

Overlap(c) == Intersection(0, ObjSize[c.obj], c.off, c.off + c.len)
bstart(c) == Overlap(c).start \div bsize
boff(c)   == Overlap(c).start % bsize
bend(c)   == Overlap(c).end \div bsize

\* The parts of the joined object and the part of each that the call wants,
\* in the coordinates of the joined object.
Parts(c)      == bstart(c) .. bend(c)
Offset(c, b)  == (b - bstart(c)) * bsize
want(c)       == Overlap(c).end - Overlap(c).start
Wanted(c, b)  == Intersection(boff(c), boff(c) + want(c),
                              Offset(c, b), Offset(c, b) + SliceSize(c.obj, b))

\* DescendLessOrEqual from the part that holds the last byte, down to the
\* first part that has nothing to give.
Visited(c) ==
    LET below == {b \in Parts(c) : Offset(c, b) <= boff(c) + want(c) - 1}
    IN {b \in below : \A d \in below : d >= b => NonEmpty(Wanted(c, d))}


\* Where a work item writes in p, how much, and from where in its slice.
Dst(c, b) == Wanted(c, b).start - boff(c)
Cnt(c, b) == Wanted(c, b).end - Wanted(c, b).start
Src(c, b) == Wanted(c, b).start - Offset(c, b)

----------------------------------------------------------------------------
(* The steps of a call. *)

ReadAt(r, c) ==
    /\ pc[r] = "idle"
    /\ call' = [call EXCEPT ![r] = c]
    /\ buf' = [buf EXCEPT ![r] = [i \in 0 .. c.len - 1 |-> Untouched]]
    /\ IF c.len > 0 /\ NonEmpty(Overlap(c))
          THEN /\ pc' = [pc EXCEPT ![r] = "read"]
               /\ items' = [items EXCEPT ![r] = [b \in Visited(c) |-> Todo]]
               /\ UNCHANGED ret
          ELSE /\ pc' = [pc EXCEPT ![r] = "done"]
               /\ ret' = [ret EXCEPT ![r].err = IF c.len = 0 THEN "nil" ELSE "EOF"]
               /\ UNCHANGED items
    /\ UNCHANGED raVars

\* The goroutine of a work item: its slice delivers n bytes.
WorkItem(r, b, n, e) ==
    LET c == call[r]
    IN /\ pc[r] = "read"
       /\ b \in DOMAIN items[r] /\ items[r][b] = Todo
       /\ n \in 0 .. Cnt(c, b)
       /\ IF n = Cnt(c, b) THEN e \in {"nil", "EOF"} ELSE e \in {"EOF", "fail"}
       /\ items' = [items EXCEPT ![r][b] = [n |-> n, err |-> e]]
       /\ buf' = [buf EXCEPT ![r] = [i \in DOMAIN @ |->
                     IF i \in Dst(c, b) .. Dst(c, b) + n - 1
                     THEN b * bsize + Src(c, b) + (i - Dst(c, b)) ELSE @[i]]]
       /\ UNCHANGED <<raVars, pc, call, ret>>

\* A work item that ends the join: it failed, or it delivered too little.
Short(c, b, it) == it.err = "fail" \/ it.n < Cnt(c, b)

\* The bytes that the work items of the blocks bs have delivered.
Total(its, bs) == Cardinality(UNION {{b} \X (1 .. its[b].n) : b \in bs})

\* Mutant: the join skips a failed part and counts on.
JoinPastGap(c, its) ==
    LET bad == {b \in DOMAIN its : Short(c, b, its[b])}
    IN [n   |-> Total(its, DOMAIN its),
        err |-> IF bad = {} THEN "nil" ELSE "unexpectedEOF"]

\* The join of concatenated.ReadAt, and the only slice's own answer where
\* there is one slice.
Join(c, its) ==
    LET bad  == {b \in DOMAIN its : Short(c, b, its[b])}
        used == {b \in DOMAIN its : \A d \in bad : b <= d}
        n    == Total(its, used)
    IN [n   |-> n,
        err |-> IF bstart(c) = bend(c) THEN its[bstart(c)].err
                ELSE IF \E b \in bad \cap used : its[b].err = "fail" THEN "fail"
                ELSE IF bad # {} \/ n # want(c) THEN "unexpectedEOF"
                ELSE "nil"]

\* wg.Wait returns and the outcomes are joined.
Gather(r) ==
    /\ pc[r] = "read"
    /\ \A b \in DOMAIN items[r] : items[r][b] # Todo
    /\ ret' = [ret EXCEPT ![r] = Join(call[r], items[r])]
    /\ pc' = [pc EXCEPT ![r] = "update"]
    /\ UNCHANGED <<raVars, call, items, buf>>

\* Mutant: the controller is told what was asked, not what was read.
UpdateCallAsked(r) ==
    /\ pc[r] = "update"
    /\ RA!Update(call[r].obj, call[r].off, call[r].len)
    /\ pc' = [pc EXCEPT ![r] = "loop"]
    /\ UNCHANGED <<call, items, buf, ret>>

\* readAheadController.Update(off, n), as far as its loop.
UpdateCall(r) ==
    /\ pc[r] = "update"
    /\ RA!Update(call[r].obj, call[r].off, ret[r].n)
    /\ pc' = [pc EXCEPT ![r] = "loop"]
    /\ UNCHANGED <<call, items, buf, ret>>

UpdateLoop(r) ==
    /\ pc[r] = "loop"
    /\ RA!StartReadBlock(call[r].obj)
    /\ UNCHANGED <<pc, call, items, buf, ret>>

\* Update returns, and ReadAt with it.
Return(r) ==
    /\ pc[r] = "loop"
    /\ RA!UpdateDone(call[r].obj)
    /\ pc' = [pc EXCEPT ![r] = "done"]
    /\ UNCHANGED <<call, items, buf, ret>>

\* The caller has its answer; the locals of the call are gone.
Leave(r) ==
    /\ pc[r] = "done"
    /\ pc' = [pc EXCEPT ![r] = "idle"]
    /\ call' = [call EXCEPT ![r] = NoCall]
    /\ items' = [items EXCEPT ![r] = NoItems]
    /\ buf' = [buf EXCEPT ![r] = NoBuf]
    /\ ret' = [ret EXCEPT ![r] = NoReturn]
    /\ UNCHANGED raVars

ReadBlockDone(o, b) == RA!ReadBlockDone(o, b) /\ UNCHANGED <<pc, call, items, buf, ret>>

----------------------------------------------------------------------------
SomeReadAt(r) == \E o \in Objects : \E off \in 0 .. ObjSize[o] : \E len \in 0 .. MaxLen :
                    ReadAt(r, [obj |-> o, off |-> off, len |-> len])

SomeWorkItem(r) == \E b \in DOMAIN items[r] : \E n \in 0 .. bsize : \E e \in {"nil", "EOF", "fail"} :
                    WorkItem(r, b, n, e)

Step(r) == SomeWorkItem(r) \/ Gather(r) \/ UpdateCall(r) \/ UpdateLoop(r) \/ Return(r) \/ Leave(r)

Next == \/ \E r \in Readers : SomeReadAt(r) \/ Step(r)
        \/ \E o \in Objects : \E b \in RA!Blocks(o) : ReadBlockDone(o, b)

Spec == Init /\ [][Next]_vars

----------------------------------------------------------------------------
(* Properties *)

\* The n bytes that a call reports are the object's bytes from off on,
\* without a gap, whichever work items failed or in which order they ended
\* (the loop at the end of concatenated.ReadAt), and a call that reports no
\* error has read all there is of what was asked.
ReadJoined ==
    \A r \in Readers : pc[r] # "read" =>
        /\ \A i \in 0 .. ret[r].n - 1 : buf[r][i] = call[r].off + i
        /\ ret[r].err = "nil" /\ call[r].len > 0 =>
              ret[r].n = Min({call[r].len, ObjSize[call[r].obj] - call[r].off})

\* withCaching.ReadAt keeps what the read-ahead controller relies on: it is
\* only told of reads inside the object.
ImplementsReadAhead == RA!Spec

\* The goroutines in readBlock, each of which holds a token.
Held == UNION {UNION {{<<o, b>>} \X (1 .. running[o][b]) : b \in RA!Blocks(o)} : o \in Objects}

\* A token is free or held by one running goroutine: Update's TryAcquire and
\* readBlock's deferred Release balance over all the objects of the cache.
TokensConserved == tokens + Cardinality(Held) = Tokens

\* Under concurrent readers of one object a block is read ahead only if it
\* lies after the block just read and after all that the run has read ahead,
\* in the window and inside the object: the mutex of the controller keeps one
\* call's run from steering another's loop.
AheadOfReader == RA!AheadOfReader
=============================================================================

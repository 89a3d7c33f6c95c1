------------------------------ MODULE MemCache ------------------------------
(***************************************************************************)
(* pkg/caching/mem.go: the in-memory block cache.  A pool of bcount        *)
(* buffers is shared by every open object.  memPool.Get maps the key of a  *)
(* block to a buffer, evicting the least recently used key when all the    *)
(* buffers are taken; the evicted buffer is handed out at once, although   *)
(* another goroutine may still be about to use it for the evicted key.     *)
(* The key written inside the buffer, under the buffer's own mutex, is     *)
(* what keeps the two apart.                                               *)
(*                                                                         *)
(* Readers are goroutines in memSlice.ReadAt, Aheads are goroutines that   *)
(* the read-ahead controller starts and that run memSlice.ReadAhead.       *)
(***************************************************************************)
EXTENDS Blocks, Sequences

CONSTANTS Readers,      \* goroutines that read blocks
          Aheads,       \* goroutines that read ahead
          NoKey,        \* the empty key of a buffer that holds no block
          NoThread,     \* an unlocked mutex
          Zero,         \* a byte of a fresh buffer
          bcount,       \* number of buffers
          Flaky         \* blocks whose source may fail during a read-ahead

Threads == Readers \cup Aheads
Bufs    == 1 .. bcount

ASSUME MemAssumption == /\ bcount \in Nat \ {0}
                        /\ NoKey \notin Keys
                        /\ NoThread \notin Threads
                        /\ Readers \cap Aheads = {}
                        /\ Flaky \subseteq Keys

VARIABLES
    next,    \* memPool.next: how many buffers were allocated
    lru,     \* memPool.lru: keys and their buffers, least recently used first
    mu,      \* mu[b]: the goroutine that holds memBuf.mu
    key,     \* key[b]: memBuf.key
    n,       \* n[b]: memBuf.n, the number of valid bytes
    buf,     \* buf[b]: memBuf.buf
    pc,      \* pc[t]: where goroutine t is
    req,     \* req[t]: what t was asked for
    got,     \* got[t]: the buffer that memPool.Get gave t
    res      \* res[t]: what ReadAt returned

poolVars == <<next, lru>>
bufVars  == <<mu, key, n, buf>>
vars     == <<next, lru, mu, key, n, buf, pc, req, got, res>>

Cells   == (Keys \X (0 .. bsize - 1)) \cup {Zero}
Results == [err  : {"none", "nil", "EOF", "fail"},
            data : UNION {[0 .. m - 1 -> Cells] : m \in 0 .. bsize}]

TypeOK == /\ next \in 0 .. bcount
          /\ lru \in Seq([key : Keys, buf : Bufs])
          /\ mu \in [Bufs -> Threads \cup {NoThread}]
          /\ key \in [Bufs -> Keys \cup {NoKey}]
          /\ n \in [Bufs -> 0 .. bsize]
          /\ buf \in [Bufs -> [0 .. bsize - 1 -> Cells]]
          /\ pc \in [Threads -> {"idle", "get", "lock", "fill", "copy"}]
          /\ req \in [Threads -> Requests]
          /\ got \in [Threads -> Bufs]
          /\ res \in [Threads -> Results]

Init == /\ next = 0
        /\ lru = <<>>
        /\ mu = [b \in Bufs |-> NoThread]
        /\ key = [b \in Bufs |-> NoKey]
        /\ n = [b \in Bufs |-> 0]
        /\ buf = [b \in Bufs |-> [i \in 0 .. bsize - 1 |-> Zero]]
        /\ pc = [t \in Threads |-> "idle"]
        /\ \E q \in Requests : req = [t \in Threads |-> q]
        /\ got = [t \in Threads |-> 1]
        /\ res = [t \in Threads |-> NoReply]

----------------------------------------------------------------------------
\* A read-ahead is for a whole block.
WholeBlock(q) == q.len = Size[q.key]

\* The caller enters ReadAt or ReadAhead for a block of some open object.
Begin(t) == /\ pc[t] = "idle"
            /\ pc' = [pc EXCEPT ![t] = "get"]
            /\ \E q \in Requests : /\ t \in Aheads => WholeBlock(q)
                                  /\ req' = [req EXCEPT ![t] = q]
            /\ res' = [res EXCEPT ![t] = NoReply]
            /\ UNCHANGED <<poolVars, bufVars, got>>

----------------------------------------------------------------------------
(* memPool.Get runs under memPool.mu: one step. *)

\* simplelru.Get moves the entry it finds to the recent end.
MoveToBack(s, i) == [j \in 1 .. Len(s) |-> IF j < i THEN s[j]
                                           ELSE IF j < Len(s) THEN s[j + 1]
                                           ELSE s[i]]

Cached(k) == \E i \in 1 .. Len(lru) : lru[i].key = k

GetHit(t) ==
    \E i \in 1 .. Len(lru) :
        /\ lru[i].key = req[t].key
        /\ lru' = MoveToBack(lru, i)
        /\ got' = [got EXCEPT ![t] = lru[i].buf]
        /\ UNCHANGED next

GetFresh(t) ==
    /\ ~Cached(req[t].key)
    /\ next < bcount
    /\ next' = next + 1
    /\ lru' = Append(lru, [key |-> req[t].key, buf |-> next + 1])
    /\ got' = [got EXCEPT ![t] = next + 1]

\* Mutant: the oldest entry is looked up, but stays in the LRU.
GetOldestKept(t) ==
    /\ ~Cached(req[t].key)
    /\ next >= bcount
    /\ lru' = Append(lru, [key |-> req[t].key, buf |-> Head(lru).buf])
    /\ got' = [got EXCEPT ![t] = Head(lru).buf]
    /\ UNCHANGED next

GetOldest(t) ==
    /\ ~Cached(req[t].key)
    /\ next >= bcount
    /\ lru' = Append(Tail(lru), [key |-> req[t].key, buf |-> Head(lru).buf])
    /\ got' = [got EXCEPT ![t] = Head(lru).buf]
    /\ UNCHANGED next

Get(t) == /\ pc[t] = "get"
          /\ pc' = [pc EXCEPT ![t] = "lock"]
          /\ GetHit(t) \/ GetFresh(t) \/ GetOldest(t)
          /\ UNCHANGED <<bufVars, req, res>>

----------------------------------------------------------------------------
(* memBuf.Fill and memBuf.FillAndCopyAt run under memBuf.mu.  The source  *)
(* is read with the mutex held, so the steps inside the critical section  *)
(* are kept apart: other goroutines run between them.                     *)

\* Mutant: trust whatever a buffer of the pool holds.
NeededOnce(b, k) == key[b] = NoKey

Needed(b, k) == key[b] # k

\* Lock, and compare the key of the buffer with the wanted one.
Lock(t) ==
    LET b == got[t]
        k == req[t].key
    IN /\ pc[t] = "lock"
       /\ mu[b] = NoThread
       /\ IF Needed(b, k)
          THEN /\ mu' = [mu EXCEPT ![b] = t]
               /\ key' = [key EXCEPT ![b] = k]
               /\ pc' = [pc EXCEPT ![t] = "fill"]
          ELSE /\ UNCHANGED key
               /\ IF t \in Readers
                  THEN /\ mu' = [mu EXCEPT ![b] = t]
                       /\ pc' = [pc EXCEPT ![t] = "copy"]
                  ELSE /\ UNCHANGED mu
                       /\ pc' = [pc EXCEPT ![t] = "idle"]
       /\ UNCHANGED <<poolVars, n, buf, req, got, res>>

\* io.ReadFull stored the first m bytes of block k in the buffer.
Filled(old, k, m) == [i \in 0 .. bsize - 1 |-> IF i < m THEN Byte(k, i) ELSE old[i]]

\* The source delivered the whole block.
FillOk(t) ==
    LET b == got[t]
        k == req[t].key
    IN /\ pc[t] = "fill"
       /\ buf' = [buf EXCEPT ![b] = Filled(@, k, Size[k])]
       /\ n' = [n EXCEPT ![b] = Size[k]]
       /\ IF t \in Readers
          THEN /\ pc' = [pc EXCEPT ![t] = "copy"]
               /\ UNCHANGED mu
          ELSE /\ pc' = [pc EXCEPT ![t] = "idle"]
               /\ mu' = [mu EXCEPT ![b] = NoThread]
       /\ UNCHANGED <<poolVars, key, req, got, res>>

\* Mutant: the key of the failed block stays in the buffer.
ReaderFillErrNoReset(t) ==
    LET b == got[t]
    IN /\ pc[t] = "fill"
       /\ t \in Readers
       /\ \E m \in 0 .. Size[req[t].key] - 1 :
             buf' = [buf EXCEPT ![b] = Filled(@, req[t].key, m)]
       /\ n' = [n EXCEPT ![b] = 0]
       /\ mu' = [mu EXCEPT ![b] = NoThread]
       /\ pc' = [pc EXCEPT ![t] = "idle"]
       /\ res' = [res EXCEPT ![t] = Failure]
       /\ UNCHANGED <<poolVars, key, req, got>>

\* Mutant: the error path forgets to unlock the buffer.
ReaderFillErrLocked(t) ==
    LET b == got[t]
    IN /\ pc[t] = "fill"
       /\ t \in Readers
       /\ n' = [n EXCEPT ![b] = 0]
       /\ key' = [key EXCEPT ![b] = NoKey]
       /\ pc' = [pc EXCEPT ![t] = "idle"]
       /\ res' = [res EXCEPT ![t] = Failure]
       /\ UNCHANGED <<poolVars, mu, buf, req, got>>

\* The source failed, possibly after some bytes.  A reader empties the
\* buffer and its key.
ReaderFillErr(t) ==
    LET b == got[t]
    IN /\ pc[t] = "fill"
       /\ t \in Readers
       /\ \E m \in 0 .. Size[req[t].key] - 1 :
             buf' = [buf EXCEPT ![b] = Filled(@, req[t].key, m)]
       /\ n' = [n EXCEPT ![b] = 0]
       /\ key' = [key EXCEPT ![b] = NoKey]
       /\ mu' = [mu EXCEPT ![b] = NoThread]
       /\ pc' = [pc EXCEPT ![t] = "idle"]
       /\ res' = [res EXCEPT ![t] = Failure]
       /\ UNCHANGED <<poolVars, req, got>>

\* A read-ahead only logs the error: the fill function returned 0 bytes, and
\* the key of the block stays in the buffer.
AheadFillErr(t) ==
    LET b == got[t]
    IN /\ pc[t] = "fill"
       /\ t \in Aheads
       /\ req[t].key \in Flaky
       /\ \E m \in 0 .. Size[req[t].key] - 1 :
             buf' = [buf EXCEPT ![b] = Filled(@, req[t].key, m)]
       /\ n' = [n EXCEPT ![b] = 0]
       /\ mu' = [mu EXCEPT ![b] = NoThread]
       /\ pc' = [pc EXCEPT ![t] = "idle"]
       /\ UNCHANGED <<poolVars, key, req, got, res>>

\* copy(p, b.buf[off:b.n])
Copied(b, q) ==
    LET m == IF q.len < n[b] - q.off THEN q.len ELSE n[b] - q.off
    IN [i \in 0 .. m - 1 |-> buf[b][q.off + i]]

\* The copy to the caller, the return and the deferred unlock.
Copy(t) ==
    LET b == got[t]
    IN /\ pc[t] = "copy"
       /\ res' = [res EXCEPT ![t] = IF req[t].off < n[b]
                                    THEN Reply(Copied(b, req[t]))
                                    ELSE EOF]
       /\ mu' = [mu EXCEPT ![b] = NoThread]
       /\ pc' = [pc EXCEPT ![t] = "idle"]
       /\ UNCHANGED <<poolVars, key, n, buf, req, got>>

----------------------------------------------------------------------------
Step(t) == Get(t) \/ Lock(t) \/ FillOk(t) \/ ReaderFillErr(t) \/ AheadFillErr(t) \/ Copy(t)

Next == \E t \in Threads : Begin(t) \/ Step(t)

Spec == Init /\ [][Next]_vars

\* A goroutine that can run does, a read of the source ends, and sync.Mutex
\* hands the mutex to a waiter that waited long enough (starvation mode).
Fairness == \A t \in Threads : WF_vars(Step(t)) /\ SF_vars(Lock(t))

FairSpec == Spec /\ Fairness

----------------------------------------------------------------------------
(* Properties *)

\* A read that succeeds returned exactly the bytes it was asked for: no byte
\* of an evicted block, none of a longer block that was in the buffer before,
\* no half filled buffer (FillAndCopyAt against Get's early reuse).
ReadsExact ==
    \A t \in Readers : res[t].err = "nil" => res[t].data = Exact(req[t])

\* The pool never hands out more than bcount buffers, and never the same
\* buffer for two keys that are cached at the same time (memPool.Get).
PoolSound ==
    /\ Len(lru) = next
    /\ \A i, j \in 1 .. Len(lru) :
          i # j => lru[i].key # lru[j].key /\ lru[i].buf # lru[j].buf

Filling(b) == mu[b] # NoThread /\ pc[mu[b]] = "fill"

\* A buffer that carries the key of a block whose source is sound, and that
\* nobody is filling, holds all of that block: what FillAndCopyAt's hit path
\* relies on when it skips the source.
KeyMeansFull ==
    \A b \in Bufs : key[b] \in Keys \ Flaky /\ ~Filling(b) => n[b] = Size[key[b]]

\* The failing read-aheads of one block do no harm to another one: a read
\* inside a block whose source is sound never meets an end of file.
SoundNeverEOF ==
    \A t \in Readers : req[t].key \notin Flaky => res[t].err # "EOF"

\* No read inside a block is answered with end of file.  The comment in
\* FillAndCopyAt says that after an error "the next caller will attempt to
\* fill the buffer".
NoSpuriousEOF == \A t \in Readers : res[t].err # "EOF"

----------------------------------------------------------------------------
(* The parts of the inductive invariant behind ReadsExact. *)

\* Exactly the goroutines inside the critical section of their buffer hold
\* its mutex (the Lock and deferred Unlock of memBuf.Fill, FillAndCopyAt).
MutexOwned ==
    /\ \A t \in Threads : pc[t] \in {"fill", "copy"} => mu[got[t]] = t
    /\ \A b \in Bufs : mu[b] # NoThread => /\ got[mu[b]] = b
                                           /\ pc[mu[b]] \in {"fill", "copy"}

\* The buffer a goroutine works on carries the key that goroutine wants.
KeyWanted ==
    \A t \in Threads : pc[t] \in {"fill", "copy"} => key[got[t]] = req[t].key

\* A buffer that carries a key and that nobody is filling holds all of that
\* block, or claims to hold nothing (after a failed read-ahead).
AllOrNothing ==
    \A b \in Bufs : key[b] # NoKey /\ ~Filling(b)
                    => /\ n[b] \in {0, Size[key[b]]}
                       /\ \A i \in 0 .. n[b] - 1 : buf[b][i] = Byte(key[b], i)

MemInv == MutexOwned /\ KeyWanted /\ AllOrNothing /\ ReadsExact

----------------------------------------------------------------------------
\* Every call returns: nobody is left waiting for a buffer.
EveryCallReturns == \A t \in Threads : pc[t] = "get" ~> pc[t] = "idle"

\* What a reader sees: an end of file inside a block of a flaky source is one
\* of its errors.
Seen(r) == IF res[r].err = "EOF" /\ req[r].key \in Flaky THEN Failure ELSE res[r]

\* The cache is invisible: it implements a plain read-through object.
RT == INSTANCE ReadThrough WITH busy <- [r \in Readers |-> pc[r] # "idle"],
                                req  <- [r \in Readers |-> req[r]],
                                res  <- [r \in Readers |-> Seen(r)]
ImplementsReadThrough == RT!Spec
=============================================================================

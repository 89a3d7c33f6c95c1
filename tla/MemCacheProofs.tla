--------------------------- MODULE MemCacheProofs ---------------------------
(***************************************************************************)
(* For every number of goroutines, buffers, blocks and block sizes: the    *)
(* in-memory cache never answers with bytes that were not asked for, its   *)
(* pool stays sound, and, if no read-ahead fails, it implements the        *)
(* read-through object.                                                    *)
(***************************************************************************)
EXTENDS MemCache, TLAPS

USE BlockAssumption, MemAssumption

\* MoveToBack keeps a sequence a sequence of the same length.
LEMMA MoveToBackType ==
    ASSUME NEW S, NEW s \in Seq(S), NEW i \in 1 .. Len(s)
    PROVE  /\ MoveToBack(s, i) \in Seq(S)
           /\ Len(MoveToBack(s, i)) = Len(s)
  BY DEF MoveToBack

\* The first element and the rest of a non-empty sequence.
LEMMA HeadTailType ==
    ASSUME NEW S, NEW s \in Seq(S), Len(s) # 0
    PROVE  /\ s # <<>> /\ Head(s) \in S /\ Head(s) = s[1]
           /\ Tail(s) \in Seq(S) /\ Len(Tail(s)) = Len(s) - 1
           /\ \A i \in 1 .. Len(s) - 1 : Tail(s)[i] = s[i + 1]
  OBVIOUS

\* An element of a sequence of entries is an entry.
LEMMA ElementType ==
    ASSUME NEW S, NEW s \in Seq(S), NEW i \in 1 .. Len(s)
    PROVE  s[i] \in S
  OBVIOUS

\* Bytes delivered by the source keep a buffer a buffer.
LEMMA FilledType ==
    ASSUME NEW old \in [0 .. bsize - 1 -> Cells], NEW k \in Keys,
           NEW m \in 0 .. Size[k]
    PROVE  Filled(old, k, m) \in [0 .. bsize - 1 -> Cells]
  BY DEF Filled, Cells, Byte

\* A request lies inside its block.
LEMMA RequestBounds ==
    ASSUME NEW q \in Requests
    PROVE  /\ q.key \in Keys /\ q.off \in Nat /\ q.len \in Nat \ {0}
           /\ Size[q.key] \in 1 .. bsize
           /\ q.off + q.len <= Size[q.key]
           /\ q.off < bsize /\ q.len <= bsize
  BY DEF Requests

\* The fixed replies are results, and so are copied bytes.
LEMMA ReplyTypes == NoReply \in Results /\ Failure \in Results /\ EOF \in Results
<1>1. NoData \in [0 .. 0 - 1 -> Cells]
  BY DEF NoData
<1> DEFINE D(m) == [0 .. m - 1 -> Cells]
<1>2. 0 \in 0 .. bsize /\ NoData \in D(0)
  BY <1>1
<1> HIDE DEF D
<1>3. NoData \in UNION {D(m) : m \in 0 .. bsize}
  BY <1>2
<1> QED
  BY <1>3 DEF D, Results, NoReply, Failure, EOF

\* What copy(p, b.buf[off:b.n]) delivers is a result of at most bsize bytes.
LEMMA CopiedType ==
    ASSUME TypeOK, NEW b \in Bufs, NEW q \in Requests, q.off < n[b]
    PROVE  Reply(Copied(b, q)) \in Results
<1> DEFINE m == IF q.len < n[b] - q.off THEN q.len ELSE n[b] - q.off
<1>1. n[b] \in 0 .. bsize /\ buf[b] \in [0 .. bsize - 1 -> Cells]
  BY DEF TypeOK
<1>2. m \in 0 .. bsize /\ q.off \in Nat /\ m + q.off <= n[b]
  BY <1>1, RequestBounds
<1>3. Copied(b, q) = [i \in 0 .. m - 1 |-> buf[b][q.off + i]]
  BY DEF Copied
<1> HIDE DEF m
<1>4. ASSUME NEW i \in 0 .. m - 1 PROVE buf[b][q.off + i] \in Cells
  BY <1>1, <1>2
<1>5. Copied(b, q) \in [0 .. m - 1 -> Cells]
  BY <1>3, <1>4
<1>6. Copied(b, q) \in UNION {[0 .. j - 1 -> Cells] : j \in 0 .. bsize}
  BY <1>2, <1>5
<1> QED
  BY <1>6 DEF Results, Reply

----------------------------------------------------------------------------
\* Init establishes the types.
LEMMA InitType == Init => TypeOK
  BY ReplyTypes DEF Init, TypeOK, Bufs, Threads, Cells

\* The pool has as many entries as it has allocated buffers (memPool.Get).
PoolLen == Len(lru) = next

\* Types and that length, together because the reuse of the oldest buffer
\* relies on a non-empty LRU.
LEMMA TypeAndLength == Spec => [](TypeOK /\ PoolLen)
<1>1. Init => TypeOK /\ PoolLen
  BY InitType DEF Init, PoolLen
<1>2. TypeOK /\ PoolLen /\ [Next]_vars => (TypeOK /\ PoolLen)'
  <2> SUFFICES ASSUME TypeOK, PoolLen, [Next]_vars PROVE TypeOK' /\ PoolLen'
    OBVIOUS
  <2> USE DEF PoolLen
  <2>0. CASE UNCHANGED vars
    BY <2>0 DEF TypeOK, vars
  <2>1. ASSUME NEW t \in Threads, Begin(t) PROVE TypeOK' /\ PoolLen'
    BY <2>1, ReplyTypes DEF Begin, TypeOK, poolVars, bufVars
  <2>2. ASSUME NEW t \in Threads, Get(t) PROVE TypeOK' /\ PoolLen'
    <3> DEFINE E == [key : Keys, buf : Bufs]
    <3>0. req[t].key \in Keys
      BY RequestBounds DEF TypeOK
    <3>1. CASE GetHit(t)
      <4> PICK i \in 1 .. Len(lru) : /\ lru' = MoveToBack(lru, i)
                                     /\ got' = [got EXCEPT ![t] = lru[i].buf]
                                     /\ UNCHANGED next
        BY <3>1 DEF GetHit
      <4>0. lru[i] \in E
        BY ElementType DEF TypeOK
      <4>1. lru[i].buf \in Bufs
        BY <4>0
      <4>2. lru' \in Seq(E) /\ Len(lru') = Len(lru)
        BY MoveToBackType DEF TypeOK
      <4> QED
        BY <2>2, <4>1, <4>2 DEF Get, TypeOK, bufVars
    <3>2. CASE GetFresh(t)
      <4>1. next + 1 \in Bufs /\ next' \in 0 .. bcount
        BY <3>2 DEF GetFresh, TypeOK, Bufs
      <4>2. lru' \in Seq(E) /\ Len(lru') = next'
        BY <3>2, <3>0, <4>1 DEF GetFresh, TypeOK
      <4> QED
        BY <2>2, <3>2, <4>1, <4>2 DEF Get, GetFresh, TypeOK, bufVars
    <3>3. CASE GetOldest(t)
      <4>0. lru \in Seq(E) /\ Len(lru) # 0
        BY <3>3 DEF GetOldest, TypeOK
      <4>1. Head(lru) \in E /\ Tail(lru) \in Seq(E) /\ Len(Tail(lru)) = Len(lru) - 1
        BY <4>0, HeadTailType
      <4>2. lru' \in Seq(E) /\ Len(lru') = Len(lru)
        BY <3>3, <3>0, <4>0, <4>1 DEF GetOldest
      <4> QED
        BY <2>2, <3>3, <4>1, <4>2 DEF Get, GetOldest, TypeOK, bufVars
    <3> QED
      BY <2>2, <3>1, <3>2, <3>3 DEF Get
  <2>3. ASSUME NEW t \in Threads, Lock(t) PROVE TypeOK' /\ PoolLen'
    <3>0. req[t].key \in Keys
      BY RequestBounds DEF TypeOK
    <3>1. mu' \in [Bufs -> Threads \cup {NoThread}]
      <4>1. mu' = mu \/ mu' = [mu EXCEPT ![got[t]] = t]
        BY <2>3 DEF Lock
      <4> QED
        BY <4>1 DEF TypeOK
    <3>2. key' \in [Bufs -> Keys \cup {NoKey}]
      <4>1. key' = key \/ key' = [key EXCEPT ![got[t]] = req[t].key]
        BY <2>3 DEF Lock
      <4> QED
        BY <3>0, <4>1 DEF TypeOK
    <3>3. pc' \in [Threads -> {"idle", "get", "lock", "fill", "copy"}]
      <4>1. \E w \in {"fill", "copy", "idle"} : pc' = [pc EXCEPT ![t] = w]
        BY <2>3 DEF Lock
      <4> QED
        BY <4>1 DEF TypeOK
    <3> QED
      BY <2>3, <3>1, <3>2, <3>3 DEF Lock, TypeOK, poolVars
  <2>4. ASSUME NEW t \in Threads, FillOk(t) PROVE TypeOK' /\ PoolLen'
    <3>0. req[t].key \in Keys /\ Size[req[t].key] \in 0 .. bsize
      BY RequestBounds DEF TypeOK
    <3>1. got[t] \in Bufs /\ buf[got[t]] \in [0 .. bsize - 1 -> Cells]
      BY DEF TypeOK
    <3>2. Filled(buf[got[t]], req[t].key, Size[req[t].key])
             \in [0 .. bsize - 1 -> Cells]
      BY <3>0, <3>1, FilledType
    <3> QED
      BY <2>4, <3>0, <3>1, <3>2 DEF FillOk, TypeOK, poolVars
  <2>5. ASSUME NEW t \in Threads, ReaderFillErr(t) \/ AheadFillErr(t)
        PROVE  TypeOK' /\ PoolLen'
    <3>0. req[t].key \in Keys /\ Size[req[t].key] \in 0 .. bsize
      BY RequestBounds DEF TypeOK
    <3>1. got[t] \in Bufs /\ buf[got[t]] \in [0 .. bsize - 1 -> Cells]
      BY DEF TypeOK
    <3>2. PICK m \in 0 .. Size[req[t].key] - 1 :
              buf' = [buf EXCEPT ![got[t]] = Filled(@, req[t].key, m)]
      BY <2>5 DEF ReaderFillErr, AheadFillErr
    <3>3. Filled(buf[got[t]], req[t].key, m) \in [0 .. bsize - 1 -> Cells]
      BY <3>0, <3>1, FilledType
    <3>4. buf' \in [Bufs -> [0 .. bsize - 1 -> Cells]]
      BY <3>1, <3>2, <3>3 DEF TypeOK
    <3>5. CASE ReaderFillErr(t)
      BY <3>5, <3>1, <3>4, ReplyTypes DEF ReaderFillErr, TypeOK, poolVars
    <3>6. CASE AheadFillErr(t)
      BY <3>6, <3>1, <3>4 DEF AheadFillErr, TypeOK, poolVars
    <3> QED
      BY <2>5, <3>5, <3>6
  <2>6. ASSUME NEW t \in Threads, Copy(t) PROVE TypeOK' /\ PoolLen'
    <3>1. got[t] \in Bufs /\ req[t] \in Requests
      BY DEF TypeOK
    <3>2. res'[t] \in Results
      BY <2>6, <3>1, CopiedType, ReplyTypes DEF Copy, TypeOK
    <3> QED
      BY <2>6, <3>2 DEF Copy, TypeOK, poolVars
  <2> QED
    BY <2>0, <2>1, <2>2, <2>3, <2>4, <2>5, <2>6 DEF Next, Step
<1>3. QED
  BY <1>1, <1>2, PTL DEF Spec

\* The type of the state of the pool, of the buffers and of the goroutines
\* (mem.go), preserved by every step.
THEOREM TypeCorrect == Spec => []TypeOK
  BY TypeAndLength, PTL

----------------------------------------------------------------------------
(* The pool.  Buffers in use are those allocated so far. *)

PoolInv == PoolSound /\ \A i \in 1 .. Len(lru) : lru[i].buf \in 1 .. next

\* memPool.Get never gives one buffer to two cached keys and never exceeds
\* bcount buffers, for any bcount and any order of calls.
THEOREM PoolCorrect == Spec => []PoolSound
<1>1. Init => PoolInv
  BY DEF Init, PoolInv, PoolSound
<1>2. TypeOK /\ PoolInv /\ [Next]_vars => PoolInv'
  <2> SUFFICES ASSUME TypeOK, PoolInv, [Next]_vars PROVE PoolInv'
    OBVIOUS
  <2> USE DEF PoolInv, PoolSound
  <2>1. CASE UNCHANGED poolVars
    BY <2>1 DEF poolVars
  <2>2. ASSUME NEW t \in Threads, Get(t) PROVE PoolInv'
    <3>0. /\ req[t].key \in Keys
          /\ lru \in Seq([key : Keys, buf : Bufs])
          /\ next \in Nat
      BY RequestBounds DEF TypeOK
    <3>1. CASE GetHit(t)
      <4>1. PICK i \in 1 .. Len(lru) : lru' = MoveToBack(lru, i) /\ next' = next
        BY <3>1 DEF GetHit
      <4>2. Len(lru') = Len(lru)
        BY <3>0, <4>1, MoveToBackType
      <4> DEFINE src(j) == IF j < i THEN j ELSE IF j < Len(lru) THEN j + 1 ELSE i
      <4>3. \A j \in 1 .. Len(lru) : src(j) \in 1 .. Len(lru) /\ lru'[j] = lru[src(j)]
        BY <3>0, <4>1 DEF MoveToBack
      <4>4. \A j, l \in 1 .. Len(lru) : j # l => src(j) # src(l)
        BY <3>0
      <4> HIDE DEF src
      <4>5. ASSUME NEW j \in 1 .. Len(lru), NEW l \in 1 .. Len(lru), j # l
            PROVE  lru'[j].key # lru'[l].key /\ lru'[j].buf # lru'[l].buf
        <5> DEFINE a == src(j)
                   b == src(l)
        <5>1. a \in 1 .. Len(lru) /\ b \in 1 .. Len(lru) /\ a # b
          BY <4>3, <4>4, <4>5
        <5>2. lru'[j] = lru[a] /\ lru'[l] = lru[b]
          BY <4>3
        <5> HIDE DEF a, b
        <5> QED
          BY <5>1, <5>2
      <4>6. ASSUME NEW j \in 1 .. Len(lru) PROVE lru'[j].buf \in 1 .. next
        BY <4>3
      <4> QED
        BY <4>1, <4>2, <4>5, <4>6
    <3>2. CASE GetFresh(t)
      <4>1. /\ next' = next + 1
            /\ lru' = Append(lru, [key |-> req[t].key, buf |-> next + 1])
            /\ ~Cached(req[t].key)
        BY <3>2 DEF GetFresh
      <4>2. /\ Len(lru') = Len(lru) + 1
            /\ \A i \in 1 .. Len(lru) : lru'[i] = lru[i]
            /\ lru'[Len(lru) + 1] = [key |-> req[t].key, buf |-> next + 1]
        BY <3>0, <4>1
      <4>3. \A i \in 1 .. Len(lru) : lru[i].key # req[t].key /\ lru[i].buf # next + 1
        BY <3>0, <4>1 DEF Cached
      <4>4. ASSUME NEW i \in 1 .. Len(lru'), NEW j \in 1 .. Len(lru'), i # j
            PROVE  lru'[i].key # lru'[j].key /\ lru'[i].buf # lru'[j].buf
        <5>1. CASE i \in 1 .. Len(lru) /\ j \in 1 .. Len(lru)
          BY <4>2, <4>4, <5>1
        <5>2. CASE i = Len(lru) + 1 /\ j \in 1 .. Len(lru)
          BY <4>2, <4>3, <5>2
        <5>3. CASE j = Len(lru) + 1 /\ i \in 1 .. Len(lru)
          BY <4>2, <4>3, <5>3
        <5> QED
          BY <3>0, <4>2, <4>4, <5>1, <5>2, <5>3
      <4>5. \A i \in 1 .. Len(lru') : lru'[i].buf \in 1 .. next'
        BY <3>0, <4>1, <4>2
      <4> QED
        BY <3>0, <4>1, <4>2, <4>4, <4>5
    <3>3. CASE GetOldest(t)
      <4>0. Len(lru) >= 1
        BY <3>0, <3>3 DEF GetOldest
      <4>1. /\ next' = next
            /\ lru' = Append(Tail(lru), [key |-> req[t].key, buf |-> lru[1].buf])
            /\ ~Cached(req[t].key)
        BY <3>0, <3>3, <4>0 DEF GetOldest
      <4>2. /\ Len(lru') = Len(lru)
            /\ \A i \in 1 .. Len(lru) - 1 : lru'[i] = lru[i + 1]
            /\ lru'[Len(lru)] = [key |-> req[t].key, buf |-> lru[1].buf]
        BY <3>0, <4>0, <4>1
      <4>3. \A i \in 2 .. Len(lru) : lru[i].key # req[t].key /\ lru[i].buf # lru[1].buf
        BY <3>0, <4>0, <4>1 DEF Cached
      <4>4. ASSUME NEW i \in 1 .. Len(lru'), NEW j \in 1 .. Len(lru'), i # j
            PROVE  lru'[i].key # lru'[j].key /\ lru'[i].buf # lru'[j].buf
        <5>1. CASE i \in 1 .. Len(lru) - 1 /\ j \in 1 .. Len(lru) - 1
          <6>1. /\ i + 1 \in 1 .. Len(lru) /\ j + 1 \in 1 .. Len(lru) /\ i + 1 # j + 1
                /\ lru'[i] = lru[i + 1] /\ lru'[j] = lru[j + 1]
            BY <3>0, <4>2, <4>4, <5>1
          <6>2. \A x, y \in 1 .. Len(lru) :
                   x # y => lru[x].key # lru[y].key /\ lru[x].buf # lru[y].buf
            OBVIOUS
          <6>3. /\ lru[i + 1].key # lru[j + 1].key
                /\ lru[i + 1].buf # lru[j + 1].buf
            BY <6>1, <6>2
          <6> QED
            BY <6>1, <6>3
        <5>2. CASE i = Len(lru) /\ j \in 1 .. Len(lru) - 1
          BY <3>0, <4>2, <4>3, <5>2
        <5>3. CASE j = Len(lru) /\ i \in 1 .. Len(lru) - 1
          BY <3>0, <4>2, <4>3, <5>3
        <5>4. /\ i \in 1 .. Len(lru) - 1 \/ i = Len(lru)
              /\ j \in 1 .. Len(lru) - 1 \/ j = Len(lru)
          BY <3>0, <4>0, <4>2
        <5> QED
          BY <4>4, <5>1, <5>2, <5>3, <5>4
      <4>5. \A i \in 1 .. Len(lru') : lru'[i].buf \in 1 .. next'
        BY <3>0, <4>0, <4>1, <4>2
      <4> QED
        BY <3>0, <4>1, <4>2, <4>4, <4>5
    <3> QED
      BY <2>2, <3>1, <3>2, <3>3 DEF Get
  <2> QED
    BY <2>1, <2>2 DEF Next, Step, Begin, Lock, FillOk, ReaderFillErr, AheadFillErr,
                      Copy, vars, poolVars
<1>3. QED
  BY <1>1, <1>2, TypeCorrect, PTL DEF Spec, PoolInv

----------------------------------------------------------------------------
(* The bytes. *)

\* What a copy delivers when the buffer holds the whole of the wanted block.
LEMMA CopiedExact ==
    ASSUME TypeOK, NEW b \in Bufs, NEW q \in Requests, n[b] = Size[q.key],
           \A i \in 0 .. n[b] - 1 : buf[b][i] = Byte(q.key, i)
    PROVE  Copied(b, q) = Exact(q) /\ q.off < n[b]
<1>1. /\ q.off \in Nat /\ q.len \in Nat /\ q.len > 0
      /\ n[b] \in Nat /\ q.off + q.len <= n[b]
  BY RequestBounds
<1>2. Copied(b, q) = [i \in 0 .. q.len - 1 |-> buf[b][q.off + i]]
  BY <1>1 DEF Copied
<1>3. \A i \in 0 .. q.len - 1 : buf[b][q.off + i] = Byte(q.key, q.off + i)
  BY <1>1
<1> QED
  BY <1>1, <1>2, <1>3 DEF Exact

\* The invariant holds of an idle cache.
LEMMA InitInv == Init => MemInv
<1> SUFFICES ASSUME Init PROVE MemInv
  OBVIOUS
<1>1. MutexOwned /\ KeyWanted
  BY DEF Init, MutexOwned, KeyWanted
<1>2. AllOrNothing
  BY DEF Init, AllOrNothing
<1>3. ReadsExact
  BY DEF Init, ReadsExact, NoReply, Threads
<1> QED
  BY <1>1, <1>2, <1>3 DEF MemInv

\* Every step of every goroutine preserves the invariant.
LEMMA StepInv == TypeOK /\ MemInv /\ [Next]_vars => MemInv'
<1> SUFFICES ASSUME TypeOK, MemInv, [Next]_vars PROVE MemInv'
  OBVIOUS
<1> USE DEF MemInv
<1>0. CASE UNCHANGED vars
  BY <1>0 DEF vars, MutexOwned, KeyWanted, AllOrNothing, Filling, ReadsExact
<1>1. ASSUME NEW t \in Threads, Begin(t) PROVE MemInv'
  <2>1. UNCHANGED <<mu, key, n, buf, got>>
    BY <1>1 DEF Begin, bufVars
  <2>2. MutexOwned' /\ KeyWanted'
    BY <1>1, <2>1 DEF Begin, TypeOK, MutexOwned, KeyWanted
  <2>3. AllOrNothing'
    BY <1>1, <2>1 DEF Begin, TypeOK, MutexOwned, AllOrNothing, Filling
  <2>4. ReadsExact'
    BY <1>1 DEF Begin, TypeOK, ReadsExact, NoReply, Threads
  <2> QED
    BY <2>2, <2>3, <2>4
<1>2. ASSUME NEW t \in Threads, Get(t) PROVE MemInv'
  <2>1. /\ UNCHANGED <<mu, key, n, buf, req, res>>
        /\ \A u \in Threads : u # t => got'[u] = got[u] /\ pc'[u] = pc[u]
        /\ pc[t] = "get" /\ pc'[t] = "lock"
    BY <1>2 DEF Get, GetHit, GetFresh, GetOldest, bufVars, TypeOK
  <2>2. MutexOwned'
    <3>1. \A b \in Bufs : mu[b] # t
      BY <2>1 DEF MutexOwned
    <3>2. \A b \in Bufs : mu[b] # NoThread => mu[b] \in Threads
      BY DEF TypeOK
    <3> QED
      BY <2>1, <3>1, <3>2 DEF MutexOwned
  <2>3. KeyWanted' /\ ReadsExact'
    BY <2>1 DEF TypeOK, KeyWanted, ReadsExact
  <2>4. AllOrNothing'
    BY <2>1 DEF TypeOK, MutexOwned, AllOrNothing, Filling
  <2> QED
    BY <2>2, <2>3, <2>4
<1>3. ASSUME NEW t \in Threads, Lock(t) PROVE MemInv'
  <2> DEFINE b == got[t]
  <2>0. /\ b \in Bufs /\ mu[b] = NoThread /\ pc[t] = "lock"
        /\ UNCHANGED <<n, buf, req, got, res>>
    BY <1>3 DEF Lock, TypeOK
  <2>1. CASE Needed(b, req[t].key)
    <3>1. /\ mu' = [mu EXCEPT ![b] = t] /\ key' = [key EXCEPT ![b] = req[t].key]
          /\ pc' = [pc EXCEPT ![t] = "fill"]
      BY <1>3, <2>1 DEF Lock
    <3>2. MutexOwned'
      BY <2>0, <3>1 DEF TypeOK, MutexOwned
    <3>3. KeyWanted' /\ ReadsExact'
      BY <2>0, <3>1 DEF TypeOK, KeyWanted, MutexOwned, ReadsExact
    <3>4. AllOrNothing'
      BY <2>0, <3>1 DEF TypeOK, MutexOwned, AllOrNothing, Filling
    <3> QED
      BY <3>2, <3>3, <3>4
  <2>2. CASE ~Needed(b, req[t].key) /\ t \in Readers
    <3>1. /\ mu' = [mu EXCEPT ![b] = t] /\ key' = key /\ key[b] = req[t].key
          /\ pc' = [pc EXCEPT ![t] = "copy"]
      BY <1>3, <2>2 DEF Lock, Needed
    <3>2. MutexOwned'
      BY <2>0, <3>1 DEF TypeOK, MutexOwned
    <3>3. KeyWanted' /\ ReadsExact'
      BY <2>0, <3>1 DEF TypeOK, KeyWanted, ReadsExact
    <3>4. AllOrNothing'
      BY <2>0, <3>1 DEF TypeOK, MutexOwned, AllOrNothing, Filling
    <3> QED
      BY <3>2, <3>3, <3>4
  <2>3. CASE ~Needed(b, req[t].key) /\ t \notin Readers
    <3>1. mu' = mu /\ key' = key /\ pc' = [pc EXCEPT ![t] = "idle"]
      BY <1>3, <2>3 DEF Lock
    <3>2. MutexOwned' /\ KeyWanted' /\ ReadsExact'
      BY <2>0, <3>1 DEF TypeOK, MutexOwned, KeyWanted, ReadsExact
    <3>3. AllOrNothing'
      BY <2>0, <3>1 DEF TypeOK, MutexOwned, AllOrNothing, Filling
    <3> QED
      BY <3>2, <3>3
  <2> QED
    BY <2>1, <2>2, <2>3
<1>4. ASSUME NEW t \in Threads, FillOk(t) PROVE MemInv'
  <2> DEFINE b == got[t]
             k == req[t].key
  <2>0. /\ b \in Bufs /\ k \in Keys /\ Size[k] \in 1 .. bsize
        /\ pc[t] = "fill" /\ mu[b] = t /\ key[b] = k
        /\ UNCHANGED <<key, req, got, res>>
    BY <1>4, RequestBounds DEF FillOk, TypeOK, MutexOwned, KeyWanted
  <2>1. /\ n' = [n EXCEPT ![b] = Size[k]]
        /\ buf' = [buf EXCEPT ![b] = Filled(buf[b], k, Size[k])]
    BY <1>4 DEF FillOk
  <2>2. \/ mu' = mu /\ pc' = [pc EXCEPT ![t] = "copy"]
        \/ mu' = [mu EXCEPT ![b] = NoThread] /\ pc' = [pc EXCEPT ![t] = "idle"]
    BY <1>4 DEF FillOk
  <2>3. \A c \in Bufs : c # b => mu[c] # t
    BY DEF MutexOwned
  <2>4. MutexOwned'
    <3>1. CASE mu' = mu /\ pc' = [pc EXCEPT ![t] = "copy"]
      BY <2>0, <2>3, <3>1 DEF TypeOK, MutexOwned
    <3>2. CASE mu' = [mu EXCEPT ![b] = NoThread] /\ pc' = [pc EXCEPT ![t] = "idle"]
      BY <2>0, <2>3, <3>2 DEF TypeOK, MutexOwned
    <3> QED
      BY <2>2, <3>1, <3>2
  <2>5. KeyWanted' /\ ReadsExact'
    BY <2>0, <2>2 DEF TypeOK, KeyWanted, ReadsExact
  <2>6. AllOrNothing'
    <3> SUFFICES ASSUME NEW c \in Bufs, key[c] # NoKey, ~Filling(c)'
                 PROVE  /\ n'[c] \in {0, Size[key[c]]}
                        /\ \A i \in 0 .. n'[c] - 1 : buf'[c][i] = Byte(key[c], i)
      BY <2>0 DEF AllOrNothing
    <3>1. CASE c = b
      <4>1. n'[c] = Size[k] /\ buf'[c] = Filled(buf[b], k, Size[k])
        BY <2>0, <2>1, <3>1 DEF TypeOK
      <4> QED
        BY <2>0, <3>1, <4>1 DEF Filled
    <3>2. CASE c # b
      <4>1. n'[c] = n[c] /\ buf'[c] = buf[c] /\ ~Filling(c)
        BY <2>0, <2>1, <2>2, <2>3, <3>2 DEF TypeOK, Filling
      <4> QED
        BY <4>1 DEF AllOrNothing
    <3> QED
      BY <3>1, <3>2
  <2> QED
    BY <2>4, <2>5, <2>6
<1>5. ASSUME NEW t \in Threads, ReaderFillErr(t) \/ AheadFillErr(t) PROVE MemInv'
  <2> DEFINE b == got[t]
  <2>0. /\ b \in Bufs /\ pc[t] = "fill" /\ mu[b] = t /\ key[b] = req[t].key
        /\ UNCHANGED <<req, got>>
        /\ n' = [n EXCEPT ![b] = 0] /\ mu' = [mu EXCEPT ![b] = NoThread]
        /\ pc' = [pc EXCEPT ![t] = "idle"]
        /\ \A c \in Bufs : c # b => key'[c] = key[c] /\ buf'[c] = buf[c]
        /\ res' = res \/ res' = [res EXCEPT ![t] = Failure]
    BY <1>5 DEF ReaderFillErr, AheadFillErr, TypeOK, MutexOwned, KeyWanted
  <2>1. \A c \in Bufs : c # b => mu[c] # t
    BY DEF MutexOwned
  <2>2. MutexOwned'
    BY <2>0, <2>1 DEF TypeOK, MutexOwned
  <2>3. KeyWanted'
    <3> SUFFICES ASSUME NEW u \in Threads, pc'[u] \in {"fill", "copy"}
                 PROVE  key'[got[u]] = req[u].key
      BY <2>0 DEF KeyWanted
    <3>1. u # t /\ pc[u] \in {"fill", "copy"} /\ got[u] # b /\ got[u] \in Bufs
      BY <2>0 DEF TypeOK, MutexOwned
    <3> QED
      BY <2>0, <3>1 DEF KeyWanted
  <2>4. ReadsExact'
    <3>1. \A u \in Threads : res'[u] = res[u] \/ res'[u] = Failure
      BY <2>0 DEF TypeOK
    <3> QED
      BY <2>0, <3>1 DEF ReadsExact, Failure, Threads
  <2>5. AllOrNothing'
    <3> SUFFICES ASSUME NEW c \in Bufs, key'[c] # NoKey, ~Filling(c)'
                 PROVE  /\ n'[c] \in {0, Size[key'[c]]}
                        /\ \A i \in 0 .. n'[c] - 1 : buf'[c][i] = Byte(key'[c], i)
      BY DEF AllOrNothing
    <3>1. CASE c = b
      BY <2>0, <3>1 DEF TypeOK
    <3>2. CASE c # b
      <4>1. n'[c] = n[c] /\ buf'[c] = buf[c] /\ key'[c] = key[c] /\ ~Filling(c)
        BY <2>0, <2>1, <3>2 DEF TypeOK, Filling
      <4> QED
        BY <4>1 DEF AllOrNothing
    <3> QED
      BY <3>1, <3>2
  <2> QED
    BY <2>2, <2>3, <2>4, <2>5
<1>6. ASSUME NEW t \in Threads, Copy(t) PROVE MemInv'
  <2> DEFINE b == got[t]
  <2>0. /\ b \in Bufs /\ req[t] \in Requests /\ req[t].key \in Keys
        /\ Size[req[t].key] \in 1 .. bsize
        /\ pc[t] = "copy" /\ mu[b] = t /\ key[b] = req[t].key
        /\ UNCHANGED <<key, n, buf, req, got>>
        /\ mu' = [mu EXCEPT ![b] = NoThread] /\ pc' = [pc EXCEPT ![t] = "idle"]
    BY <1>6, RequestBounds DEF Copy, TypeOK, MutexOwned, KeyWanted
  <2>1. \A c \in Bufs : c # b => mu[c] # t
    BY DEF MutexOwned
  <2>2. MutexOwned' /\ KeyWanted'
    BY <2>0, <2>1 DEF TypeOK, MutexOwned, KeyWanted
  <2>3. AllOrNothing'
    BY <2>0, <2>1 DEF TypeOK, AllOrNothing, Filling
  <2>4. ReadsExact'
    <3>1. /\ n[b] \in {0, Size[req[t].key]}
          /\ \A i \in 0 .. n[b] - 1 : buf[b][i] = Byte(req[t].key, i)
      <4>1. ~Filling(b) /\ key[b] # NoKey
        BY <2>0 DEF Filling
      <4> QED
        BY <2>0, <4>1 DEF AllOrNothing
    <3>2. res'[t].err = "nil" => res'[t].data = Exact(req[t])
      <4>1. CASE n[b] = 0
        <5>1. req[t].off \in Nat
          BY <2>0, RequestBounds
        <5> QED
          BY <1>6, <4>1, <5>1 DEF Copy, EOF, TypeOK
      <4>2. CASE n[b] = Size[req[t].key]
        <5>1. Copied(b, req[t]) = Exact(req[t]) /\ req[t].off < n[b]
          BY <2>0, <3>1, <4>2, CopiedExact
        <5> QED
          BY <1>6, <5>1 DEF Copy, Reply, TypeOK
      <4> QED
        BY <3>1, <4>1, <4>2
    <3>3. \A u \in Threads : u # t => res'[u] = res[u]
      BY <1>6 DEF Copy, TypeOK
    <3> QED
      BY <2>0, <3>2, <3>3 DEF ReadsExact, Threads
  <2> QED
    BY <2>2, <2>3, <2>4
<1> QED
  BY <1>0, <1>1, <1>2, <1>3, <1>4, <1>5, <1>6 DEF Next, Step

\* A read never returns a byte that is not the one asked for, whatever the
\* pool evicts, whoever reuses the buffer and whichever fills fail
\* (memPool.Get, memBuf.Fill, memBuf.FillAndCopyAt).
THEOREM ReadsCorrect == Spec => []ReadsExact
<1>1. Spec => []MemInv
  BY InitInv, StepInv, TypeCorrect, PTL DEF Spec
<1> QED
  BY <1>1, PTL DEF MemInv

----------------------------------------------------------------------------
(* What a failed read-ahead may spoil, and what it may not. *)

\* One step keeps the buffers of sound blocks full and the replies for
\* them free of EOF.
LEMMA FullStep ==
    TypeOK /\ MemInv /\ KeyMeansFull /\ SoundNeverEOF /\ [Next]_vars
        => KeyMeansFull' /\ SoundNeverEOF'
<1> SUFFICES ASSUME TypeOK, MemInv, KeyMeansFull, SoundNeverEOF, [Next]_vars
             PROVE  KeyMeansFull' /\ SoundNeverEOF'
  OBVIOUS
<1> USE DEF MemInv
<1>0. CASE UNCHANGED vars
  BY <1>0 DEF vars, KeyMeansFull, SoundNeverEOF, Filling
<1>1. ASSUME NEW t \in Threads, Begin(t) PROVE KeyMeansFull' /\ SoundNeverEOF'
  <2>1. KeyMeansFull'
    BY <1>1 DEF Begin, bufVars, TypeOK, MutexOwned, KeyMeansFull, Filling
  <2>2. SoundNeverEOF'
    BY <1>1 DEF Begin, TypeOK, SoundNeverEOF, NoReply, Threads
  <2> QED
    BY <2>1, <2>2
<1>2. ASSUME NEW t \in Threads, Get(t) PROVE KeyMeansFull' /\ SoundNeverEOF'
  BY <1>2 DEF Get, bufVars, TypeOK, MutexOwned, KeyMeansFull, Filling, SoundNeverEOF
<1>3. ASSUME NEW t \in Threads, Lock(t) PROVE KeyMeansFull' /\ SoundNeverEOF'
  <2> DEFINE b == got[t]
  <2>0. /\ b \in Bufs /\ mu[b] = NoThread /\ pc[t] = "lock" /\ UNCHANGED <<n, req, res>>
    BY <1>3 DEF Lock, TypeOK
  <2>1. \/ /\ mu' = [mu EXCEPT ![b] = t] /\ pc' = [pc EXCEPT ![t] = "fill"]
           /\ key' = [key EXCEPT ![b] = req[t].key]
        \/ mu' = [mu EXCEPT ![b] = t] /\ pc' = [pc EXCEPT ![t] = "copy"] /\ key' = key
        \/ mu' = mu /\ pc' = [pc EXCEPT ![t] = "idle"] /\ key' = key
    BY <1>3 DEF Lock
  <2>2. \A c \in Bufs : mu[c] # t
    BY <2>0 DEF MutexOwned
  <2>3. KeyMeansFull'
    <3> SUFFICES ASSUME NEW c \in Bufs, key'[c] \in Keys \ Flaky, ~Filling(c)'
                 PROVE  key'[c] = key[c] /\ ~Filling(c)
      BY <2>0 DEF KeyMeansFull
    <3>1. mu[c] # NoThread => mu[c] \in Threads
      BY DEF TypeOK
    <3>2. CASE c = b
      BY <2>0, <2>1, <3>2 DEF TypeOK, Filling
    <3>3. CASE c # b
      BY <2>0, <2>1, <2>2, <3>1, <3>3 DEF TypeOK, Filling
    <3> QED
      BY <3>2, <3>3
  <2> QED
    BY <2>0, <2>3 DEF SoundNeverEOF
<1>4. ASSUME NEW t \in Threads, FillOk(t) PROVE KeyMeansFull' /\ SoundNeverEOF'
  <2> DEFINE b == got[t]
  <2>0. /\ b \in Bufs /\ key[b] = req[t].key /\ UNCHANGED <<key, req, res>>
        /\ n' = [n EXCEPT ![b] = Size[req[t].key]]
        /\ \A c \in Bufs : c # b => mu[c] # t /\ mu'[c] = mu[c]
        /\ \A u \in Threads : u # t => pc'[u] = pc[u]
    BY <1>4 DEF FillOk, TypeOK, MutexOwned, KeyWanted
  <2>1. \A c \in Bufs : n'[c] = IF c = b THEN Size[key[b]] ELSE n[c]
    BY <2>0 DEF TypeOK
  <2>2. \A c \in Bufs : c # b => (Filling(c)' <=> Filling(c))
    BY <2>0 DEF Filling, TypeOK
  <2> QED
    BY <2>0, <2>1, <2>2 DEF KeyMeansFull, SoundNeverEOF
<1>5. ASSUME NEW t \in Threads, ReaderFillErr(t) PROVE KeyMeansFull' /\ SoundNeverEOF'
  <2> DEFINE b == got[t]
  <2>0. /\ b \in Bufs /\ key'[b] = NoKey
        /\ res' = [res EXCEPT ![t] = Failure] /\ req' = req
        /\ \A c \in Bufs : c # b => /\ mu[c] # t /\ mu'[c] = mu[c]
                                    /\ n'[c] = n[c] /\ key'[c] = key[c]
        /\ \A u \in Threads : u # t => pc'[u] = pc[u]
    BY <1>5 DEF ReaderFillErr, TypeOK, MutexOwned
  <2>1. \A c \in Bufs : c # b => (Filling(c)' <=> Filling(c))
    BY <2>0 DEF Filling, TypeOK
  <2>2. KeyMeansFull'
    BY <2>0, <2>1 DEF KeyMeansFull
  <2>3. SoundNeverEOF'
    BY <2>0 DEF SoundNeverEOF, Failure, TypeOK, Threads
  <2> QED
    BY <2>2, <2>3
<1>6. ASSUME NEW t \in Threads, Copy(t) PROVE KeyMeansFull' /\ SoundNeverEOF'
  <2> DEFINE b == got[t]
  <2>0. /\ b \in Bufs /\ mu[b] = t /\ pc[t] = "copy" /\ key[b] = req[t].key
        /\ req[t].key \in Keys /\ UNCHANGED <<key, n>>
        /\ \A c \in Bufs : c # b => mu[c] # t /\ mu'[c] = mu[c]
        /\ \A u \in Threads : u # t => pc'[u] = pc[u]
    BY <1>6, RequestBounds DEF Copy, TypeOK, MutexOwned, KeyWanted
  <2>1. ~Filling(b) /\ (req[t].key \notin Flaky => n[b] = Size[req[t].key])
    BY <2>0 DEF Filling, KeyMeansFull
  <2>2. \A c \in Bufs : c # b => (Filling(c)' <=> Filling(c))
    BY <2>0 DEF Filling, TypeOK
  <2>3. KeyMeansFull'
    BY <2>0, <2>1, <2>2 DEF KeyMeansFull
  <2>4. req[t].key \notin Flaky => req[t].off < n[b]
    <3>1. req[t] \in Requests
      BY DEF TypeOK
    <3>2. req[t].off < Size[req[t].key]
      BY <3>1, RequestBounds
    <3> QED
      BY <2>1, <3>2
  <2>5. req[t].key \notin Flaky => res'[t].err # "EOF"
    BY <1>6, <2>4 DEF Copy, Reply, TypeOK
  <2>6. req' = req /\ \A u \in Threads : u # t => res'[u] = res[u]
    BY <1>6 DEF Copy, TypeOK
  <2>7. SoundNeverEOF'
    BY <2>5, <2>6 DEF SoundNeverEOF, Threads
  <2> QED
    BY <2>3, <2>7
<1>7. ASSUME NEW t \in Threads, AheadFillErr(t) PROVE KeyMeansFull' /\ SoundNeverEOF'
  <2> DEFINE b == got[t]
  <2>0. /\ b \in Bufs /\ key[b] \in Flaky /\ UNCHANGED <<key, req, res>>
        /\ \A c \in Bufs : c # b => mu[c] # t /\ mu'[c] = mu[c] /\ n'[c] = n[c]
        /\ \A u \in Threads : u # t => pc'[u] = pc[u]
    BY <1>7 DEF AheadFillErr, TypeOK, MutexOwned, KeyWanted
  <2>1. \A c \in Bufs : c # b => (Filling(c)' <=> Filling(c))
    BY <2>0 DEF Filling, TypeOK
  <2> QED
    BY <2>0, <2>1 DEF KeyMeansFull, SoundNeverEOF
<1>8. ASSUME Next PROVE KeyMeansFull' /\ SoundNeverEOF'
  BY <1>1, <1>2, <1>3, <1>4, <1>5, <1>6, <1>7, <1>8 DEF Next, Step
<1> QED
  BY <1>0, <1>8

\* A read-ahead that fails harms no block but its own: a buffer that carries
\* the key of a block whose source is sound holds the whole block, and no read
\* inside such a block meets an end of file.
THEOREM NoPoisonedBuffer == Spec => [](KeyMeansFull /\ SoundNeverEOF)
<1>1. Init => KeyMeansFull /\ SoundNeverEOF
  BY DEF Init, KeyMeansFull, SoundNeverEOF, NoReply, Threads
<1>2. Spec => []MemInv
  BY InitInv, StepInv, TypeCorrect, PTL DEF Spec
<1>3. TypeOK /\ MemInv /\ KeyMeansFull /\ SoundNeverEOF /\ [Next]_vars
          => KeyMeansFull' /\ SoundNeverEOF'
  BY FullStep
<1> QED
  BY <1>1, <1>2, <1>3, TypeCorrect, PTL DEF Spec

----------------------------------------------------------------------------
(* Refinement of the read-through object.  A call maps to Begin, its last  *)
(* step to Return, and everything in between, with all that read-ahead     *)
(* does, to a stuttering step.                                             *)

\* A step of a goroutine that leaves every reader as it is.
LEMMA ReadersUnchanged ==
    ASSUME \A r \in Readers : /\ (pc'[r] # "idle") = (pc[r] # "idle")
                              /\ req'[r] = req[r] /\ res'[r] = res[r]
    PROVE  UNCHANGED RT!vars
<1>1. \A r \in Readers : Seen(r)' = Seen(r)
  BY DEF Seen
<1> QED
  BY <1>1 DEF RT!vars

\* What the reader of a finished step sees, and that the others see no change.
LEMMA SeenStep ==
    ASSUME NEW t \in Readers, TypeOK, req' = req, NEW a, res' = [res EXCEPT ![t] = a]
    PROVE  /\ Seen(t)' = IF a.err = "EOF" /\ req[t].key \in Flaky THEN Failure ELSE a
           /\ \A u \in Readers : u # t => Seen(u)' = Seen(u)
  BY DEF TypeOK, Threads, Seen

\* An idle cache is an idle read-through object.
LEMMA RefinedInit == Init => RT!Init
<1> SUFFICES ASSUME Init PROVE RT!Init
  OBVIOUS
<1>1. \A r \in Readers : pc[r] = "idle" /\ req[r] \in Requests /\ Seen(r) = NoReply
  BY DEF Init, Threads, Seen, NoReply
<1> QED
  BY <1>1 DEF RT!Init, NoReply, RT!NoReply, NoData, RT!NoData, Requests, RT!Requests

\* Every step of a goroutine is a step of the read-through object, or invisible.
LEMMA RefinedStep ==
    TypeOK /\ ReadsExact' /\ SoundNeverEOF' /\ [Next]_vars => [RT!Next]_(RT!vars)
<1> SUFFICES ASSUME TypeOK, ReadsExact', SoundNeverEOF', [Next]_vars
             PROVE  RT!Next \/ UNCHANGED RT!vars
  OBVIOUS
<1> USE DEF Threads
<1>0. CASE UNCHANGED vars
  BY <1>0, ReadersUnchanged DEF vars
<1>1. ASSUME NEW t \in Readers, Begin(t) PROVE RT!Begin(t)
  <2>1. PICK q \in Requests : req' = [req EXCEPT ![t] = q]
    BY <1>1 DEF Begin
  <2>2. Seen(t)' = NoReply /\ \A u \in Readers : u # t => Seen(u)' = Seen(u)
    BY <1>1, <2>1 DEF Begin, TypeOK, NoReply, Seen
  <2>3. /\ pc[t] = "idle" /\ pc' = [pc EXCEPT ![t] = "get"]
        /\ pc \in [Threads -> {"idle", "get", "lock", "fill", "copy"}]
        /\ req \in [Threads -> Requests]
    BY <1>1 DEF Begin, TypeOK
  <2> QED
    BY <2>1, <2>2, <2>3 DEF RT!Begin, Requests, RT!Requests, NoReply, RT!NoReply,
                            NoData, RT!NoData
<1>2. ASSUME NEW t \in Readers, NEW a \in {RT!Reply(RT!Exact(req[t])), RT!Failure},
             pc[t] # "idle", pc' = [pc EXCEPT ![t] = "idle"], req' = req,
             Seen(t)' = a, \A u \in Readers : u # t => Seen(u)' = Seen(u)
      PROVE  RT!Return(t)
  <2> HIDE DEF RT!Reply, RT!Exact, RT!Failure
  <2>1. RT!Exact([r \in Readers |-> req[r]][t]) = RT!Exact(req[t])
    OBVIOUS
  <2>2. pc \in [Threads -> {"idle", "get", "lock", "fill", "copy"}]
    BY DEF TypeOK
  <2> QED
    BY <1>2, <2>1, <2>2 DEF RT!Return
<1>3. Failure = RT!Failure /\ \A q : Reply(Exact(q)) = RT!Reply(RT!Exact(q))
  BY DEF Failure, RT!Failure, NoData, RT!NoData, Reply, RT!Reply, Exact, RT!Exact,
         Byte, RT!Byte
<1>6. ASSUME NEW t \in Readers, ReaderFillErr(t) PROVE RT!Return(t)
  <2>1. Seen(t)' = RT!Failure /\ \A u \in Readers : u # t => Seen(u)' = Seen(u)
    <3>1. req' = req /\ res' = [res EXCEPT ![t] = Failure] /\ Failure.err # "EOF"
      BY <1>6 DEF ReaderFillErr, Failure
    <3> QED
      BY <1>3, <3>1, SeenStep
  <2> QED
    BY <1>2, <1>6, <2>1 DEF ReaderFillErr
<1>7. ASSUME NEW t \in Readers, Copy(t) PROVE RT!Return(t)
  <2>1. \/ res' = [res EXCEPT ![t] = EOF]
        \/ \E d : res' = [res EXCEPT ![t] = Reply(d)]
    BY <1>7 DEF Copy
  <2>2. CASE res' = [res EXCEPT ![t] = EOF]
    <3>1. req[t].key \in Flaky
      BY <1>7, <2>2 DEF Copy, TypeOK, SoundNeverEOF, EOF
    <3>2. Seen(t)' = RT!Failure /\ \A u \in Readers : u # t => Seen(u)' = Seen(u)
      <4>1. req' = req /\ EOF.err = "EOF"
        BY <1>7 DEF Copy, EOF
      <4> QED
        BY <1>3, <2>2, <3>1, <4>1, SeenStep
    <3> QED
      BY <1>2, <1>7, <3>2 DEF Copy
  <2>3. CASE \E d : res' = [res EXCEPT ![t] = Reply(d)]
    <3>1. PICK d : res' = [res EXCEPT ![t] = Reply(d)]
      BY <2>3
    <3>2. Reply(d) = Reply(Exact(req[t]))
      BY <1>7, <3>1 DEF Copy, TypeOK, ReadsExact, Reply
    <3>3. Reply(d).err # "EOF" /\ Reply(d) = RT!Reply(RT!Exact(req[t]))
      BY <1>3, <3>2 DEF Reply
    <3>4. /\ Seen(t)' = RT!Reply(RT!Exact(req[t]))
          /\ \A u \in Readers : u # t => Seen(u)' = Seen(u)
      <4>1. req' = req
        BY <1>7 DEF Copy
      <4> QED
        BY <3>1, <3>3, <4>1, SeenStep
    <3> QED
      BY <1>2, <1>7, <3>4 DEF Copy
  <2> QED
    BY <2>1, <2>2, <2>3
<1>4. ASSUME NEW t \in Threads, Get(t) \/ Lock(t) \/ FillOk(t), t \in Readers
      PROVE  UNCHANGED RT!vars
  BY <1>4, ReadersUnchanged DEF Get, Lock, FillOk, TypeOK
<1>5. ASSUME NEW t \in Aheads, Begin(t) \/ Step(t)
      PROVE  UNCHANGED RT!vars
  BY <1>5, ReadersUnchanged DEF Begin, Step, Get, Lock, FillOk, ReaderFillErr, AheadFillErr, Copy, TypeOK
<1> QED
  BY <1>0, <1>1, <1>4, <1>5, <1>6, <1>7 DEF Next, Step, RT!Next, AheadFillErr

\* The in-memory cache implements the read-through object, if an end of file
\* inside a block of a flaky source counts as one of its errors.
THEOREM MemRefinement == Spec => ImplementsReadThrough
<1> SUFFICES Spec => RT!Spec
  BY DEF ImplementsReadThrough
<1>1. Spec => [](KeyMeansFull /\ SoundNeverEOF)
  BY NoPoisonedBuffer
<1> QED
  BY <1>1, RefinedInit, RefinedStep, TypeCorrect, ReadsCorrect, PTL DEF Spec, RT!Spec
=============================================================================

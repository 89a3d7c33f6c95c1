--------------------------- MODULE S3UploadProofs ---------------------------
(***************************************************************************)
(* For every number of workers, of parts and of failing requests: an       *)
(* object that appears at S3 is the whole body in order, whatever buffers  *)
(* the parts went through and in whatever order the workers sent them, and *)
(* an upload that gives up leaves nothing behind.                          *)
(***************************************************************************)
EXTENDS S3Upload, FiniteSetTheorems, TLAPS

USE UploadAssumption

----------------------------------------------------------------------------
(* The inductive invariant *)

Chunk == [num : Nat \ {0}, buf : Nat \ {0}]

WorkType == [at : {"none", "idle", "check", "send", "gone"}, chunk : Chunk \cup {NoChunk}]

Types ==
    /\ total \in Nat /\ num \in Nat
    /\ part \in Chunk \cup {NoChunk}
    /\ ch \in Seq(Chunk)
    /\ wk \in [Workers -> WorkType]
    /\ parts \in Seq(Nat)
    /\ mem \in Seq(Nat)
    /\ pool \in SUBSET (1 .. Len(mem))

\* Worker w has a chunk in hand.
Busy(w) == wk[w].at \in {"check", "send"}

\* The chunk c owns its buffer, and the buffer holds the part c is about.
Owns(c, tot, m, free) == /\ c \in Chunk /\ c.num \in 1 .. tot
                         /\ c.buf \in 1 .. Len(m) /\ c.buf \notin free
                         /\ m[c.buf] = c.num

Held(c) == Owns(c, total, mem, pool)

\* No buffer is reused while its part waits or is being sent.
BuffersHeld == /\ pc \in {"create", "send"} => Held(part) /\ part.num = num
               /\ \A i \in 1 .. Len(ch) : Held(ch[i])
               /\ \A w \in Workers : Busy(w) => Held(wk[w].chunk)

\* The part that is next to go into the channel comes after all the others.
Sent == IF pc \in {"create", "send", "read"} THEN num - 1 ELSE num

\* Each part is in one place: the channel, a worker, or the list of the sent.
OnePlace ==
    /\ \A i, j \in 1 .. Len(ch) : i # j => ch[i].num # ch[j].num
    /\ \A i, j \in 1 .. Len(parts) : i # j => parts[i] # parts[j]
    /\ \A w, v \in Workers : Busy(w) /\ Busy(v) /\ w # v => wk[w].chunk.num # wk[v].chunk.num
    /\ \A i \in 1 .. Len(ch), j \in 1 .. Len(parts) : ch[i].num # parts[j]
    /\ \A i \in 1 .. Len(ch), w \in Workers : Busy(w) => ch[i].num # wk[w].chunk.num
    /\ \A i \in 1 .. Len(parts), w \in Workers : Busy(w) => parts[i] # wk[w].chunk.num
    /\ \A i \in 1 .. Len(ch) : ch[i].num <= Sent
    /\ \A w \in Workers : Busy(w) => wk[w].chunk.num <= Sent
    /\ \A i \in 1 .. Len(parts) : parts[i] \in 1 .. total /\ parts[i] <= Sent

\* As long as no request failed, no part that was handed over is lost, and the
\* main goroutine stops reading only at the end of the body.
SomePlace(n) == \/ \E i \in 1 .. Len(ch) : ch[i].num = n
                \/ \E w \in Workers : Busy(w) /\ wk[w].chunk.num = n
                \/ \E i \in 1 .. Len(parts) : parts[i] = n

NoneLost ==
    ~failed =>
      /\ pc \in {"create", "send", "loop", "read", "close", "wait", "complete"} =>
            \A n \in 1 .. total : n <= Sent => SomePlace(n)
      /\ pc \in {"create", "send", "loop"} /\ eof => total <= num
      /\ pc \in {"close", "wait", "complete"} => total <= num

\* Part i at S3 has the bytes of part i.
StoredRight == /\ \A i \in DOMAIN stored : stored[i] = i
               /\ \A i \in 1 .. Len(parts) : parts[i] \in DOMAIN stored

\* What goes with each stage of the upload.
Phases ==
    /\ pc \in {"first", "put", "create"} =>
          /\ ch = <<>> /\ parts = <<>> /\ ~chClosed /\ ~failed
          /\ \A w \in Workers : wk[w].at = "none"
    /\ pc = "first" => num = 0
    /\ pc \in {"put", "create", "send", "loop", "read"} => num > 0
    /\ pc = "put" => \/ total = 0 /\ part = NoChunk
                     \/ total = 1 /\ Held(part) /\ part.num = 1
    /\ chClosed => pc \in {"wait", "complete", "fail", "end"}
    /\ pc = "complete" => ~failed
    /\ \A w \in Workers : wk[w].at = "gone" => chClosed /\ ch = <<>>
    /\ pc \in {"complete", "fail"} => \A w \in Workers : wk[w].at = "gone"

\* What is at S3 and what Upload has returned.
AtS3 ==
    /\ pc \in {"first", "put", "create"} => mpu = "none"
    /\ pc \in {"send", "loop", "read", "close", "wait"} => mpu = "open"
    /\ pc = "complete" => mpu \in {"open", "done"}
    /\ mpu = "done" => object = Body
    /\ object = Nothing \/ object = Body
    /\ pc # "end" => result = "none"
    /\ result = "ok" => object = Body
    /\ result = "err" => mpu # "open"

UploadInv == Types /\ BuffersHeld /\ OnePlace /\ NoneLost /\ StoredRight /\ Phases /\ AtS3

----------------------------------------------------------------------------
(* Sorting the list of parts *)

\* How many numbers there are from a to b.
LEMMA IntervalSize ==
    ASSUME NEW a \in Int, NEW b \in Int, a <= b + 1
    PROVE  IsFiniteSet(a .. b) /\ Cardinality(a .. b) = b - a + 1
<1>1. /\ IsFiniteSet(a .. b)
      /\ Cardinality(a .. b) = IF a > b THEN 0 ELSE b - a + 1
  BY FS_Interval
<1>2. CASE a > b
  BY <1>1, <1>2
<1>3. CASE ~(a > b)
  BY <1>1, <1>3
<1> QED
  BY <1>1, <1>2, <1>3

\* Different numbers go to different places, so there must be room for them.
LEMMA Room ==
    ASSUME NEW S, NEW T, NEW f, IsFiniteSet(T),
           \A j \in S : f[j] \in T,
           \A j, k \in S : j # k => f[j] # f[k]
    PROVE  Cardinality(S) <= Cardinality(T)
<1> DEFINE g == [j \in S |-> f[j]]
<1>1. g \in [S -> T] /\ \A a, b \in DOMAIN g : g[a] = g[b] => a = b
  OBVIOUS
<1>2. g \in Injection(S, T)
  BY <1>1 DEF Injection, IsInjective
<1> QED
  BY <1>2, FS_Injection

\* An increasing map of 1 .. n into itself moves nothing: there is no room.
LEMMA IncreasingIsIdentity ==
    ASSUME NEW n \in Nat, NEW f \in [1 .. n -> 1 .. n],
           \A i, j \in 1 .. n : i < j => f[i] < f[j]
    PROVE  \A i \in 1 .. n : f[i] = i
<1> SUFFICES ASSUME NEW i \in 1 .. n PROVE f[i] = i
  OBVIOUS
<1> DEFINE m == f[i]
<1>0. i \in Nat /\ i >= 1 /\ m \in Nat /\ m >= 1 /\ i <= n /\ m <= n
  OBVIOUS
<1>d. \A j, k \in 1 .. n : j # k => f[j] # f[k]
  <2> SUFFICES ASSUME NEW j \in 1 .. n, NEW k \in 1 .. n, j # k PROVE f[j] # f[k]
    OBVIOUS
  <2>1. f[j] \in Nat /\ f[k] \in Nat
    OBVIOUS
  <2>2. CASE j < k
    BY <2>1, <2>2
  <2>3. CASE k < j
    BY <2>1, <2>3
  <2> QED
    BY <2>2, <2>3
\* What is below i maps below f[i] ...
<1>1. i <= m
  <2>1. \A j \in 1 .. i - 1 : f[j] \in 1 .. m - 1
    <3> SUFFICES ASSUME NEW j \in 1 .. i - 1 PROVE f[j] \in 1 .. m - 1
      OBVIOUS
    <3>1. j \in 1 .. n /\ j < i
      BY <1>0
    <3>2. f[j] \in 1 .. n /\ f[j] < m
      BY <3>1
    <3> QED
      BY <1>0, <3>2
  <2>2. \A j, k \in 1 .. i - 1 : j # k => f[j] # f[k]
    BY <1>0, <1>d
  <2>3. IsFiniteSet(1 .. m - 1) /\ Cardinality(1 .. m - 1) = m - 1 /\ Cardinality(1 .. i - 1) = i - 1
    <3> HIDE DEF m
    <3>1. /\ IsFiniteSet(1 .. m - 1) /\ Cardinality(1 .. m - 1) = (m - 1) - 1 + 1
          /\ Cardinality(1 .. i - 1) = (i - 1) - 1 + 1
      BY <1>0, IntervalSize
    <3> QED
      BY <1>0, <3>1
  <2>4. Cardinality(1 .. i - 1) <= Cardinality(1 .. m - 1)
    BY <2>1, <2>2, <2>3, Room
  <2> QED
    BY <1>0, <2>3, <2>4
\* ... and what is above i maps above f[i].
<1>2. m <= i
  <2>1. \A j \in i + 1 .. n : f[j] \in m + 1 .. n
    <3> SUFFICES ASSUME NEW j \in i + 1 .. n PROVE f[j] \in m + 1 .. n
      OBVIOUS
    <3>1. j \in 1 .. n /\ i < j
      BY <1>0
    <3>2. f[j] \in 1 .. n /\ m < f[j]
      BY <3>1
    <3> QED
      BY <1>0, <3>2
  <2>2. \A j, k \in i + 1 .. n : j # k => f[j] # f[k]
    BY <1>0, <1>d
  <2>3. IsFiniteSet(m + 1 .. n) /\ Cardinality(m + 1 .. n) = n - m /\ Cardinality(i + 1 .. n) = n - i
    <3> HIDE DEF m
    <3>1. /\ IsFiniteSet(m + 1 .. n) /\ Cardinality(m + 1 .. n) = n - (m + 1) + 1
          /\ Cardinality(i + 1 .. n) = n - (i + 1) + 1
      BY <1>0, IntervalSize
    <3> QED
      BY <1>0, <3>1
  <2>4. Cardinality(i + 1 .. n) <= Cardinality(m + 1 .. n)
    BY <2>1, <2>2, <2>3, Room
  <2> QED
    BY <1>0, <2>3, <2>4
<1> QED
  BY <1>0, <1>1, <1>2

\* A list that names each of 1 .. n once has n elements.
LEMMA ListingLength ==
    ASSUME NEW n \in Nat, NEW s \in Seq(Nat),
           \A i \in 1 .. Len(s) : s[i] \in 1 .. n,
           \A i, j \in 1 .. Len(s) : i # j => s[i] # s[j],
           \A k \in 1 .. n : \E i \in 1 .. Len(s) : s[i] = k
    PROVE  Len(s) = n
<1>0. Len(s) \in Nat
  OBVIOUS
<1> DEFINE g == [i \in 1 .. Len(s) |-> s[i]]
<1>1. g \in Injection(1 .. Len(s), 1 .. n)
  BY DEF Injection, IsInjective
<1>2. g \in Surjection(1 .. Len(s), 1 .. n)
  BY DEF Surjection
<1>3. /\ IsFiniteSet(1 .. Len(s)) /\ Cardinality(1 .. Len(s)) = Len(s)
      /\ IsFiniteSet(1 .. n) /\ Cardinality(1 .. n) = n
  BY <1>0, IntervalSize
<1>4. Cardinality(1 .. Len(s)) = Cardinality(1 .. n)
  BY <1>1, <1>2, <1>3, FS_Injection
<1> QED
  BY <1>3, <1>4

\* Such a list, sorted, is 1, 2, ..., n.
LEMMA SortedListing ==
    ASSUME NEW n \in Nat, NEW s \in Seq(Nat),
           \A i \in 1 .. Len(s) : s[i] \in 1 .. n,
           \A i, j \in 1 .. Len(s) : i # j => s[i] # s[j],
           \A k \in 1 .. n : \E i \in 1 .. Len(s) : s[i] = k
    PROVE  /\ Len(Sorted(s)) = n
           /\ \A i \in 1 .. n : Sorted(s)[i] = i
<1>1. Len(s) = n
  BY ListingLength
<1> DEFINE Good(p) == \A i, j \in 1 .. n : i < j => s[p[i]] <= s[p[j]]
           B == Bijection(1 .. n, 1 .. n)
           q == [k \in 1 .. n |-> CHOOSE i \in 1 .. n : s[i] = k]
           Perm == CHOOSE p \in B : Good(p)
<1>2. \A k \in 1 .. n : q[k] \in 1 .. n /\ s[q[k]] = k
  BY <1>1
<1>3. \A i \in 1 .. n : s[i] \in 1 .. n /\ q[s[i]] = i
  <2> SUFFICES ASSUME NEW i \in 1 .. n PROVE s[i] \in 1 .. n /\ q[s[i]] = i
    OBVIOUS
  <2>1. s[i] \in 1 .. n
    BY <1>1
  <2>2. q[s[i]] \in 1 .. n /\ s[q[s[i]]] = s[i]
    BY <1>2, <2>1
  <2> HIDE DEF q
  <2> QED
    BY <1>1, <2>1, <2>2
<1>q. q \in [1 .. n -> 1 .. n]
  BY <1>2
<1> HIDE DEF q
<1>4. q \in B
  <2>1. q \in Injection(1 .. n, 1 .. n)
    <3>1. \A a, b \in 1 .. n : q[a] = q[b] => a = b
      BY <1>2
    <3> QED
      BY <1>q, <3>1 DEF Injection, IsInjective
  <2>2. q \in Surjection(1 .. n, 1 .. n)
    BY <1>2, <1>3, <1>q DEF Surjection
  <2> QED
    BY <2>1, <2>2 DEF Bijection
<1>5. Good(q)
  BY <1>2
<1>6. Perm \in B /\ Good(Perm)
  <2> HIDE DEF B, Good
  <2>1. \E p \in B : Good(p)
    BY <1>4, <1>5
  <2> QED
    BY <2>1
<1>7. Sorted(s) = [i \in 1 .. n |-> s[Perm[i]]]
  BY <1>1 DEF Sorted
<1> HIDE DEF Perm
<1> DEFINE t == [i \in 1 .. n |-> s[Perm[i]]]
<1>8. Perm \in [1 .. n -> 1 .. n] /\ \A i, j \in 1 .. n : i # j => Perm[i] # Perm[j]
  BY <1>6 DEF Bijection, Injection, IsInjective
<1>9. t \in [1 .. n -> 1 .. n] /\ \A i, j \in 1 .. n : i < j => t[i] < t[j]
  <2>1. \A i \in 1 .. n : s[Perm[i]] \in 1 .. n /\ s[Perm[i]] \in Nat
    <3> SUFFICES ASSUME NEW i \in 1 .. n PROVE s[Perm[i]] \in 1 .. n /\ s[Perm[i]] \in Nat
      OBVIOUS
    <3>1. Perm[i] \in 1 .. n
      BY <1>8
    <3> DEFINE x == Perm[i]
    <3>2. x \in 1 .. Len(s)
      BY <1>1, <3>1
    <3> HIDE DEF x
    <3>3. s[x] \in 1 .. n
      BY <3>2
    <3> QED
      BY <3>3 DEF x
  <2>2. ASSUME NEW i \in 1 .. n, NEW j \in 1 .. n, i < j PROVE s[Perm[i]] < s[Perm[j]]
    <3>1. Perm[i] # Perm[j] /\ Perm[i] \in 1 .. n /\ Perm[j] \in 1 .. n
      BY <1>8, <2>2
    <3>2. s[Perm[i]] # s[Perm[j]]
      BY <1>1, <3>1
    <3>3. s[Perm[i]] <= s[Perm[j]]
      BY <1>6, <2>2
    <3>4. s[Perm[i]] \in Nat /\ s[Perm[j]] \in Nat
      BY <2>1
    <3> QED
      BY <3>2, <3>3, <3>4
  <2> QED
    BY <2>1, <2>2
<1>10. \A i \in 1 .. n : t[i] = i
  <2> HIDE DEF t
  <2> QED
    BY <1>9, IncreasingIsIdentity
<1> QED
  BY <1>7, <1>10

----------------------------------------------------------------------------
(* Steps of the main goroutine and of the workers *)

\* nextReader takes a buffer that no chunk holds.
LEMMA ReaderTakes ==
    ASSUME Types, NEW i \in Nat \ {0}, nextReader(i), UNCHANGED total
    PROVE  /\ eof' => total <= i
           /\ part' \in Chunk \cup {NoChunk}
           /\ mem' \in Seq(Nat) /\ pool' \in SUBSET (1 .. Len(mem'))
           /\ \A c : Held(c) => Held(c)'
           /\ i > total => part' = NoChunk
           /\ i <= total => Held(part)' /\ part'.num = i
<1>0. /\ total \in Nat /\ mem \in Seq(Nat) /\ Len(mem) \in Nat
      /\ pool \in SUBSET (1 .. Len(mem))
  BY DEF Types
<1>1. eof' => total <= i
  <2>1. Ends(i) => total <= i
    BY <1>0 DEF Ends
  <2>2. eof' = Ends(i)
    BY DEF nextReader
  <2> QED
    BY <2>1, <2>2
<1>2. CASE i > total
  <2>1. part' = NoChunk /\ UNCHANGED <<pool, mem>>
    BY <1>2 DEF nextReader, bufVars
  <2> QED
    BY <1>0, <1>1, <1>2, <2>1 DEF Held, Owns
<1>3. CASE i <= total /\ pool = {}
  <2>1. mem' = Append(mem, i) /\ part' = [num |-> i, buf |-> Len(mem')] /\ pool' = pool
    BY <1>0, <1>3 DEF nextReader
  <2>2. /\ mem' \in Seq(Nat) /\ Len(mem') = Len(mem) + 1 /\ mem'[Len(mem) + 1] = i
        /\ \A b \in 1 .. Len(mem) : mem'[b] = mem[b]
    BY <1>0, <2>1
  <2>3. part' \in Chunk /\ part'.num = i /\ part'.buf = Len(mem) + 1
    BY <1>0, <2>1, <2>2 DEF Chunk
  <2>4. \A c : Held(c) => Held(c)'
    BY <1>0, <2>1, <2>2 DEF Held, Owns
  <2>5. Held(part)'
    BY <1>0, <1>3, <2>1, <2>2, <2>3 DEF Held, Owns
  <2> QED
    BY <1>0, <1>1, <1>3, <2>1, <2>2, <2>3, <2>4, <2>5
<1>4. CASE i <= total /\ pool # {}
  <2>1. PICK b \in pool : /\ pool' = pool \ {b} /\ mem' = [mem EXCEPT ![b] = i]
                          /\ part' = [num |-> i, buf |-> b]
    BY <1>0, <1>4 DEF nextReader
  <2>2. /\ b \in 1 .. Len(mem) /\ mem' \in Seq(Nat) /\ Len(mem') = Len(mem) /\ mem'[b] = i
        /\ \A a \in 1 .. Len(mem) : a # b => mem'[a] = mem[a]
    BY <1>0, <2>1
  <2>3. part' \in Chunk /\ part'.num = i /\ part'.buf = b
    BY <1>0, <2>1, <2>2 DEF Chunk
  <2>4. \A c : Held(c) => Held(c)'
    BY <1>0, <2>1, <2>2 DEF Held, Owns
  <2>5. Held(part)'
    BY <1>0, <1>4, <2>1, <2>2, <2>3 DEF Held, Owns
  <2> QED
    BY <1>0, <1>1, <1>4, <2>1, <2>2, <2>3, <2>4, <2>5
<1> QED
  BY <1>0, <1>2, <1>3, <1>4

\* The first element of the channel and the others.
LEMMA HeadTail ==
    ASSUME NEW S, NEW s \in Seq(S), s # <<>>
    PROVE  /\ Len(s) \in Nat /\ Len(s) >= 1 /\ Head(s) = s[1] /\ s[1] \in S
           /\ Tail(s) \in Seq(S) /\ Len(Tail(s)) = Len(s) - 1
           /\ \A i \in 1 .. Len(s) - 1 : Tail(s)[i] = s[i + 1]
  OBVIOUS

LEMMA AppendFacts ==
    ASSUME NEW S, NEW s \in Seq(S), NEW x \in S
    PROVE  /\ Append(s, x) \in Seq(S) /\ Len(Append(s, x)) = Len(s) + 1
           /\ \A i \in 1 .. Len(s) : Append(s, x)[i] = s[i]
           /\ Append(s, x)[Len(s) + 1] = x
  OBVIOUS

LEMMA InitUpload == Init => UploadInv
<1> SUFFICES ASSUME Init PROVE UploadInv
  OBVIOUS
<1>1. Types
  <2>1. [at |-> "none", chunk |-> NoChunk] \in WorkType
    BY DEF WorkType
  <2>2. <<>> \in Seq(Chunk) /\ <<>> \in Seq(Nat) /\ {} \in SUBSET (1 .. Len(mem))
    OBVIOUS
  <2> QED
    BY <2>1, <2>2 DEF Init, Types
<1>2. BuffersHeld /\ OnePlace /\ NoneLost /\ StoredRight
  BY DEF Init, BuffersHeld, OnePlace, NoneLost, StoredRight, Busy
<1>3. Phases /\ AtS3
  BY DEF Init, Phases, AtS3
<1> QED
  BY <1>1, <1>2, <1>3 DEF UploadInv

\* The state keeps its types.
LEMMA TypesStep == UploadInv /\ [Next]_vars => Types'
<1> SUFFICES ASSUME UploadInv, [Next]_vars PROVE Types'
  OBVIOUS
<1>0. Types /\ BuffersHeld /\ Phases
  BY DEF UploadInv
<1>w. /\ \A w \in Workers : wk[w].chunk \in Chunk \cup {NoChunk}
      /\ \A at \in {"idle", "check", "send", "gone"} :
            \A c \in Chunk \cup {NoChunk} : [at |-> at, chunk |-> c] \in WorkType
  BY <1>0 DEF Types, WorkType
<1>g. ASSUME NEW w \in Workers, NEW at \in {"idle", "check", "send", "gone"},
             NEW c \in Chunk \cup {NoChunk}, Goes(w, at, c)
      PROVE  wk' \in [Workers -> WorkType]
  BY <1>0, <1>w, <1>g DEF Types, Goes
<1> USE DEF Types
<1>1. CASE UNCHANGED vars
  BY <1>0, <1>1 DEF vars
<1>2. CASE FirstRead
  <2>1. nextReader(1) /\ UNCHANGED <<total, ragged, ch, wk, parts>> /\ num' = 1
    BY <1>2 DEF FirstRead, bodyVars
  <2> QED
    BY <1>0, <2>1, ReaderTakes
<1>3. CASE Read
  <2>1. nextReader(num) /\ UNCHANGED <<total, ragged, ch, wk, parts, num>> /\ num \in Nat \ {0}
    BY <1>0, <1>3 DEF Read, bodyVars, Phases
  <2> QED
    BY <1>0, <2>1, ReaderTakes
<1>4. CASE EarlyErr \/ Put \/ CreateLost \/ ReadErr \/ CloseCh \/ Wait \/ CompleteOk \/ CompleteErr \/ Fail
  <2>1. UNCHANGED <<total, ragged, num, eof, part, ch, wk, parts, pool, mem>>
    BY <1>4 DEF EarlyErr, Put, CreateLost, ReadErr, CloseCh, Wait, CompleteOk, CompleteErr, Fail,
       bodyVars, bufVars
  <2> QED
    BY <1>0, <2>1
<1>5. CASE Create
  BY <1>0, <1>w, <1>5 DEF Create, bodyVars, bufVars
<1>6. CASE Send
  <2>1. part \in Chunk /\ ch' = Append(ch, part)
    BY <1>0, <1>6 DEF Send, BuffersHeld, Held, Owns
  <2>2. ch' \in Seq(Chunk)
    BY <1>0, <2>1, AppendFacts
  <2> QED
    BY <1>0, <1>6, <2>2 DEF Send, bodyVars, bufVars
<1>7. CASE Loop
  BY <1>0, <1>7 DEF Loop, bodyVars, bufVars
<1>8. ASSUME NEW w \in Workers, Recv(w) PROVE Types'
  <2>1. Head(ch) \in Chunk /\ ch' \in Seq(Chunk)
    BY <1>0, <1>8, HeadTail DEF Recv
  <2> QED
    BY <1>0, <1>g, <1>8, <2>1 DEF Recv, bodyVars, mainVars, bufVars
<1>9. ASSUME NEW w \in Workers, Check(w) \/ PartErr(w) \/ WorkerDone(w) PROVE Types'
  <2>1. wk' \in [Workers -> WorkType]
    BY <1>w, <1>g, <1>9 DEF Check, PartErr, WorkerDone
  <2> QED
    BY <1>0, <1>9, <2>1 DEF Check, PartErr, WorkerDone, bodyVars, mainVars, bufVars
<1>10. ASSUME NEW w \in Workers, PartSent(w) PROVE Types'
  <2> DEFINE c == wk[w].chunk
  <2>1. c.num \in Nat /\ c.buf \in 1 .. Len(mem)
    BY <1>0, <1>10 DEF PartSent, BuffersHeld, Busy, Held, Owns
  <2>2. parts' \in Seq(Nat)
    BY <1>0, <1>10, <2>1, AppendFacts DEF PartSent
  <2> QED
    BY <1>0, <1>g, <1>10, <2>1, <2>2 DEF PartSent, bodyVars, mainVars
<1> QED
  BY <1>1, <1>2, <1>3, <1>4, <1>5, <1>6, <1>7, <1>8, <1>9, <1>10 DEF Next, Main, Worker

\* A worker that goes on leaves the other workers alone.
LEMMA GoesFacts ==
    ASSUME Types, NEW w \in Workers, NEW at, NEW c, Goes(w, at, c)
    PROVE  /\ wk'[w].at = at /\ wk'[w].chunk = c
           /\ Busy(w)' <=> at \in {"check", "send"}
           /\ \A v \in Workers : v # w => wk'[v] = wk[v] /\ (Busy(v)' <=> Busy(v))
<1>1. wk'[w] = [at |-> at, chunk |-> c] /\ \A v \in Workers : v # w => wk'[v] = wk[v]
  BY DEF Types, Goes
<1> QED
  BY <1>1 DEF Busy

\* Two chunks of different parts are in different buffers.
LEMMA DifferentBuffers ==
    ASSUME NEW c, NEW d, Held(c), Held(d), c.num # d.num
    PROVE  c.buf # d.buf
  BY DEF Held, Owns

\* Steps that read nothing and send nothing leave channel, workers, parts and
\* buffers alone.
Quiet == UNCHANGED <<total, num, part, ch, wk, parts, pool, mem>>

LEMMA QuietSteps ==
    ASSUME EarlyErr \/ Put \/ CreateLost \/ ReadErr \/ CloseCh \/ Wait \/ CompleteOk
              \/ CompleteErr \/ Fail
    PROVE  Quiet /\ eof' = eof /\ pc \notin {"send", "loop"}
           /\ pc' \notin {"first", "put", "create", "send", "loop", "read"}
<1>1. Quiet /\ eof' = eof
  BY DEF EarlyErr, Put, CreateLost, ReadErr, CloseCh, Wait, CompleteOk, CompleteErr, Fail,
         bodyVars, bufVars, Quiet
<1>2. /\ pc \notin {"send", "loop"}
      /\ pc' \notin {"first", "put", "create", "send", "loop", "read"}
  BY DEF EarlyErr, Put, CreateLost, ReadErr, CloseCh, Wait, CompleteOk, CompleteErr, Fail, Return
<1> QED
  BY <1>1, <1>2

\* No step takes the buffer of a chunk that waits or is being sent.
LEMMA BuffersHeldStep == UploadInv /\ [Next]_vars => BuffersHeld'
<1> SUFFICES ASSUME UploadInv, [Next]_vars PROVE BuffersHeld'
  OBVIOUS
<1>0. Types /\ BuffersHeld /\ Phases /\ OnePlace
  BY DEF UploadInv
<1>1. ASSUME Quiet, pc' \in {"create", "send"} => pc \in {"create", "send"} PROVE BuffersHeld'
  BY <1>0, <1>1 DEF BuffersHeld, Held, Owns, Busy, Quiet
<1>2. ASSUME UNCHANGED <<total, num, part, ch, parts, pool, mem>>,
             pc' = "send", pc = "create", wk' = [w \in Workers |-> [at |-> "idle", chunk |-> NoChunk]]
      PROVE  BuffersHeld'
  BY <1>0, <1>2 DEF BuffersHeld, Held, Owns, Busy
<1>3. CASE FirstRead
  <2>1. nextReader(1) /\ UNCHANGED <<total, ch, wk>> /\ num' = 1 /\ pc' = IF eof' THEN "put" ELSE "create"
    BY <1>3 DEF FirstRead, bodyVars
  <2>2. ch = <<>> /\ \A w \in Workers : ~Busy(w)
    BY <1>0, <1>3 DEF FirstRead, Phases, Busy
  <2>3. pc' = "create" => Held(part)' /\ part'.num = 1
    <3>1. total \in Nat /\ eof' = Ends(1)
      BY <1>0, <2>1 DEF nextReader, Types
    <3>2. 1 > total => Ends(1)
      BY <3>1 DEF Ends
    <3> QED
      BY <1>0, <2>1, <3>1, <3>2, ReaderTakes
  <2> QED
    BY <2>1, <2>2, <2>3 DEF BuffersHeld, Busy
<1>4. CASE Read
  <2>1. /\ nextReader(num) /\ UNCHANGED <<total, ch, wk, num>> /\ num \in Nat \ {0}
        /\ pc' = IF num > total THEN "close" ELSE "send"
    BY <1>0, <1>4 DEF Read, bodyVars, Phases, Types
  <2>2. \A c : Held(c) => Held(c)'
    BY <1>0, <2>1, ReaderTakes
  <2>3. pc' # "create" /\ (pc' = "send" => Held(part)' /\ part'.num = num)
    <3>1. pc' = "send" => num <= total
      BY <1>0, <2>1 DEF Types
    <3> QED
      BY <1>0, <2>1, <3>1, ReaderTakes
  <2> QED
    BY <1>0, <2>1, <2>2, <2>3 DEF BuffersHeld, Busy
<1>5. CASE Send
  <2>1. Held(part) /\ ch' = Append(ch, part) /\ pc' = "loop" /\ UNCHANGED <<total, mem, pool, wk>>
    BY <1>0, <1>5 DEF Send, BuffersHeld, bodyVars, bufVars
  <2>2. part \in Chunk /\ ch \in Seq(Chunk)
    BY <1>0, <2>1 DEF Held, Owns, Types
  <2>3. /\ Len(ch') = Len(ch) + 1 /\ Len(ch) \in Nat
        /\ \A i \in 1 .. Len(ch) : ch'[i] = ch[i]
        /\ ch'[Len(ch) + 1] = part
    BY <2>1, <2>2, AppendFacts
  <2>4. \A i \in 1 .. Len(ch') : Held(ch'[i])
    BY <1>0, <2>1, <2>3 DEF BuffersHeld
  <2> QED
    BY <1>0, <2>1, <2>4 DEF BuffersHeld, Held, Owns, Busy
<1>6. CASE Loop
  BY <1>0, <1>6 DEF Loop, BuffersHeld, Held, Owns, Busy, bodyVars, bufVars
<1>7. ASSUME NEW w \in Workers, Recv(w) PROVE BuffersHeld'
  <2>1. /\ UNCHANGED <<pc, num, part, total, pool, mem>>
        /\ ch' = Tail(ch) /\ ch # <<>> /\ Goes(w, "check", Head(ch)) /\ ch \in Seq(Chunk)
    BY <1>0, <1>7 DEF Recv, bodyVars, mainVars, bufVars, Types
  <2>2. /\ Len(ch) \in Nat /\ Len(ch) >= 1 /\ Head(ch) = ch[1] /\ Len(ch') = Len(ch) - 1
        /\ \A i \in 1 .. Len(ch) - 1 : ch'[i] = ch[i + 1]
    BY <2>1, HeadTail
  <2>3. \A c : Held(c) => Held(c)'
    BY <2>1 DEF Held, Owns
  <2>4. \A i \in 1 .. Len(ch') : Held(ch[i + 1])
    BY <1>0, <2>2 DEF BuffersHeld
  <2>5. \A i \in 1 .. Len(ch') : Held(ch[i])'
    BY <2>2, <2>3, <2>4
  <2>6. Held(ch[1])
    BY <1>0, <2>2 DEF BuffersHeld
  <2>7. \A v \in Workers : Busy(v)' => Held(wk[v].chunk)'
    BY <1>0, <2>1, <2>2, <2>3, <2>6, GoesFacts DEF BuffersHeld
  <2> QED
    BY <1>0, <2>1, <2>3, <2>5, <2>7 DEF BuffersHeld
<1>8. ASSUME NEW w \in Workers, Check(w) \/ PartErr(w) \/ WorkerDone(w) PROVE BuffersHeld'
  <2>1. UNCHANGED <<pc, num, part, total, pool, mem, ch>>
    BY <1>8 DEF Check, PartErr, WorkerDone, bodyVars, mainVars, bufVars
  <2>2. \/ Goes(w, "idle", NoChunk) \/ Goes(w, "gone", NoChunk)
        \/ Busy(w) /\ Goes(w, "send", wk[w].chunk)
    BY <1>8 DEF Check, PartErr, WorkerDone, Busy
  <2>3. \A c : Held(c) => Held(c)'
    BY <2>1 DEF Held, Owns
  <2>4. \A v \in Workers : Busy(v)' => Held(wk[v].chunk)'
    BY <1>0, <2>2, <2>3, GoesFacts DEF BuffersHeld
  <2> QED
    BY <1>0, <2>1, <2>3, <2>4 DEF BuffersHeld
<1>9. ASSUME NEW w \in Workers, PartSent(w) PROVE BuffersHeld'
  <2> DEFINE c == wk[w].chunk
  <2>1. /\ UNCHANGED <<pc, num, part, total, mem, ch>> /\ pool' = pool \cup {c.buf}
        /\ Goes(w, "idle", NoChunk) /\ Busy(w)
    BY <1>9 DEF PartSent, bodyVars, mainVars, Busy
  <2>2. Held(c)
    BY <1>0, <2>1 DEF BuffersHeld
  <2> HIDE DEF c
  <2>3. \A d : Held(d) /\ d.num # c.num => Held(d)'
    BY <2>1, <2>2 DEF Held, Owns
  <2>4. \A i \in 1 .. Len(ch) : Held(ch[i])'
    BY <1>0, <2>1, <2>3 DEF BuffersHeld, OnePlace, c
  <2>5. \A v \in Workers : Busy(v)' => Held(wk[v].chunk)'
    <3> SUFFICES ASSUME NEW v \in Workers, Busy(v)' PROVE Held(wk[v].chunk)'
      OBVIOUS
    <3>1. v # w /\ Busy(v) /\ wk'[v] = wk[v]
      BY <1>0, <2>1, GoesFacts
    <3>2. Held(wk[v].chunk) /\ wk[v].chunk.num # c.num
      BY <1>0, <2>1, <3>1 DEF BuffersHeld, OnePlace, c
    <3> QED
      BY <2>3, <3>1, <3>2
  <2>6. pc \in {"create", "send"} => Held(part)' /\ part'.num = num'
    <3>1. c.num <= Sent
      BY <1>0, <2>1 DEF OnePlace, c
    <3>2. pc \in {"create", "send"} => c.num # num
      BY <1>0, <2>2, <3>1 DEF Sent, Held, Owns, Types, Chunk
    <3> QED
      BY <1>0, <2>1, <2>3, <3>2 DEF BuffersHeld
  <2> QED
    BY <2>1, <2>4, <2>5, <2>6 DEF BuffersHeld
<1>10. CASE UNCHANGED vars
  BY <1>1, <1>10 DEF vars, Quiet
<1>11. CASE Create
  BY <1>2, <1>11 DEF Create, bodyVars, bufVars
<1> QED
  BY <1>1, <1>3, <1>4, <1>5, <1>6, <1>7, <1>8, <1>9, <1>10, <1>11, QuietSteps
     DEF Next, Main, Worker

\* The main goroutine only goes forward in the body.
LEMMA SentGrows ==
    ASSUME UploadInv, [Next]_vars
    PROVE  Sent \in Int /\ Sent' \in Int /\ Sent <= Sent'
<1>0. num \in Nat /\ num' \in Nat /\ (pc = "first" => num = 0) /\ Types
  BY TypesStep DEF UploadInv, Types, Phases
<1>i. /\ Sent = num - 1 \/ Sent = num
      /\ Sent' = num' - 1 \/ Sent' = num'
      /\ pc \in {"create", "send", "read"} => Sent = num - 1
      /\ pc' \notin {"create", "send", "read"} => Sent' = num'
  BY DEF Sent
<1>n. Sent \in Int /\ Sent' \in Int
  BY <1>0, <1>i
<1> SUFFICES Sent <= Sent'
  BY <1>n
<1>1. ASSUME num' = num, pc' \in {"create", "send", "read"} => pc \in {"create", "send", "read"}
      PROVE  Sent <= Sent'
  BY <1>0, <1>1, <1>i, <1>n
<1>2. CASE FirstRead
  <2>1. pc = "first" /\ num' = 1
    BY <1>2 DEF FirstRead
  <2> QED
    BY <1>0, <1>i, <2>1
<1>3. CASE Loop
  <2>1. pc = "loop" /\ \/ num' = num /\ pc' = "close"
                       \/ num' = num + 1
    BY <1>3 DEF Loop
  <2> QED
    BY <1>0, <1>i, <2>1
<1>4. CASE Create \/ Send \/ Read
  <2>1. num' = num /\ (pc' \in {"create", "send", "read"} => pc \in {"create", "send", "read"})
    BY <1>4 DEF Create, Send, Read
  <2> QED
    BY <1>1, <2>1
<1>5. ASSUME NEW w \in Workers, Worker(w) PROVE Sent <= Sent'
  <2>1. num' = num /\ pc' = pc
    BY <1>5 DEF Worker, Recv, Check, PartSent, PartErr, WorkerDone, mainVars
  <2> QED
    BY <1>1, <2>1
<1>6. CASE UNCHANGED vars
  BY <1>1, <1>6 DEF vars
<1> QED
  BY <1>1, <1>2, <1>3, <1>4, <1>5, <1>6, QuietSteps DEF Next, Main, Quiet

\* A part moves from the main goroutine to the channel, to a worker and to the
\* list of the sent parts, and is never in two of these places.
LEMMA OnePlaceStep == UploadInv /\ [Next]_vars => OnePlace'
<1> SUFFICES ASSUME UploadInv, [Next]_vars PROVE OnePlace'
  OBVIOUS
<1>0. Types /\ BuffersHeld /\ Phases /\ OnePlace
  BY DEF UploadInv
<1>s. Sent \in Int /\ Sent' \in Int /\ Sent <= Sent'
  BY SentGrows
<1>t. /\ total \in Nat /\ ch \in Seq(Chunk) /\ parts \in Seq(Nat) /\ Len(ch) \in Nat
      /\ Len(parts) \in Nat
      /\ \A i \in 1 .. Len(ch) : ch[i].num \in Nat
      /\ \A i \in 1 .. Len(parts) : parts[i] \in Nat
      /\ \A w \in Workers : Busy(w) => wk[w].chunk.num \in Nat /\ wk[w].chunk.num \in 1 .. total
  BY <1>0 DEF Types, Chunk, BuffersHeld, Held, Owns
<1>1. ASSUME UNCHANGED <<total, ch, wk, parts>> PROVE OnePlace'
  BY <1>0, <1>1, <1>s, <1>t DEF OnePlace, Busy
<1>2. CASE Create
  <2>1. ch = <<>> /\ parts = <<>> /\ UNCHANGED <<ch, parts>> /\ \A w \in Workers : ~Busy(w)'
    BY <1>0, <1>2 DEF Create, Phases, Busy
  <2> QED
    BY <2>1 DEF OnePlace
<1>3. CASE Send
  <2>1. /\ UNCHANGED <<total, wk, parts, num>> /\ ch' = Append(ch, part) /\ pc = "send" /\ pc' = "loop"
        /\ Held(part) /\ part.num = num /\ num \in Nat
    BY <1>0, <1>3 DEF Send, BuffersHeld, bodyVars, Types
  <2>2. /\ part \in Chunk /\ Len(ch') = Len(ch) + 1
        /\ \A i \in 1 .. Len(ch) : ch'[i] = ch[i]
        /\ ch'[Len(ch) + 1] = part
    BY <1>t, <2>1, AppendFacts DEF Held, Owns
  <2>3. Sent = num - 1 /\ Sent' = num
    BY <2>1 DEF Sent
  <2>4. /\ \A i \in 1 .. Len(ch) : ch[i].num < num
        /\ \A w \in Workers : Busy(w) => wk[w].chunk.num < num
        /\ \A i \in 1 .. Len(parts) : parts[i] < num
    BY <1>0, <1>t, <2>1, <2>3 DEF OnePlace
  <2>5. \A w \in Workers : Busy(w)' <=> Busy(w)
    BY <2>1 DEF Busy
  <2>6. \A i \in 1 .. Len(ch') : \/ i \in 1 .. Len(ch) /\ ch'[i].num = ch[i].num
                                 \/ i = Len(ch) + 1 /\ ch'[i].num = num
    BY <1>t, <2>1, <2>2
  <2>7. /\ \A i, j \in 1 .. Len(ch') : i # j => ch'[i].num # ch'[j].num
        /\ \A i \in 1 .. Len(ch'), j \in 1 .. Len(parts) : ch'[i].num # parts[j]
        /\ \A i \in 1 .. Len(ch'), w \in Workers : Busy(w) => ch'[i].num # wk[w].chunk.num
        /\ \A i \in 1 .. Len(ch') : ch'[i].num <= num
    BY <1>0, <1>t, <2>1, <2>4, <2>6 DEF OnePlace
  <2>8. /\ \A w \in Workers : Busy(w) => wk[w].chunk.num <= num
        /\ \A i \in 1 .. Len(parts) : parts[i] \in 1 .. total /\ parts[i] <= num
    BY <1>0, <1>t, <2>1, <2>4 DEF OnePlace
  <2>9. /\ \A i, j \in 1 .. Len(parts) : i # j => parts[i] # parts[j]
        /\ \A w, v \in Workers : Busy(w) /\ Busy(v) /\ w # v => wk[w].chunk.num # wk[v].chunk.num
        /\ \A i \in 1 .. Len(parts), w \in Workers : Busy(w) => parts[i] # wk[w].chunk.num
    BY <1>0 DEF OnePlace
  <2>10. total' = total /\ wk' = wk /\ parts' = parts
    BY <2>1
  <2> QED
    BY <2>3, <2>5, <2>7, <2>8, <2>9, <2>10 DEF OnePlace
<1>4. ASSUME NEW w \in Workers, Recv(w) PROVE OnePlace'
  <2>1. /\ UNCHANGED <<pc, num, total, parts>>
        /\ ch' = Tail(ch) /\ ch # <<>> /\ Goes(w, "check", Head(ch)) /\ wk[w].at = "idle"
    BY <1>4 DEF Recv, bodyVars, mainVars
  <2>2. /\ Len(ch) >= 1 /\ Head(ch) = ch[1] /\ Len(ch') = Len(ch) - 1
        /\ \A i \in 1 .. Len(ch) - 1 : ch'[i] = ch[i + 1]
    BY <1>t, <2>1, HeadTail
  <2>3. /\ Busy(w)' /\ wk'[w].chunk = ch[1] /\ ~Busy(w)
        /\ \A v \in Workers : v # w => wk'[v] = wk[v] /\ (Busy(v)' <=> Busy(v))
    BY <1>0, <2>1, <2>2, GoesFacts DEF Busy
  <2>4. Sent' = Sent
    BY <2>1 DEF Sent
  <2>5. \A i \in 1 .. Len(ch') : i + 1 \in 2 .. Len(ch) /\ ch'[i] = ch[i + 1]
    BY <1>t, <2>2
  <2>6. /\ \A i, j \in 1 .. Len(ch') : i # j => ch'[i].num # ch'[j].num
        /\ \A i \in 1 .. Len(ch'), j \in 1 .. Len(parts) : ch'[i].num # parts[j]
        /\ \A i \in 1 .. Len(ch') : ch'[i].num <= Sent /\ ch'[i].num # ch[1].num
    <3>1. ASSUME NEW i \in 1 .. Len(ch')
          PROVE  /\ i + 1 \in 1 .. Len(ch) /\ i + 1 # 1 /\ 1 \in 1 .. Len(ch) /\ ch'[i] = ch[i + 1]
                 /\ \A j \in 1 .. Len(ch') : i # j => i + 1 # j + 1
      BY <1>t, <2>2
    <3>2. ASSUME NEW i \in 1 .. Len(ch'), NEW j \in 1 .. Len(ch'), i # j
          PROVE  ch'[i].num # ch'[j].num
      <4> DEFINE k == i + 1
                 l == j + 1
      <4>1. k \in 1 .. Len(ch) /\ l \in 1 .. Len(ch) /\ k # l /\ ch'[i] = ch[k] /\ ch'[j] = ch[l]
        BY <3>1, <3>2
      <4> HIDE DEF k, l
      <4> QED
        BY <1>0, <4>1 DEF OnePlace
    <3>3. ASSUME NEW i \in 1 .. Len(ch')
          PROVE  /\ \A j \in 1 .. Len(parts) : ch'[i].num # parts[j]
                 /\ ch'[i].num <= Sent /\ ch'[i].num # ch[1].num
      <4> DEFINE k == i + 1
      <4>1. k \in 1 .. Len(ch) /\ 1 \in 1 .. Len(ch) /\ k # 1 /\ ch'[i] = ch[k]
        BY <3>1
      <4> HIDE DEF k
      <4> QED
        BY <1>0, <4>1 DEF OnePlace
    <3> QED
      BY <3>2, <3>3
  <2>7. \A i \in 1 .. Len(ch'), v \in Workers : Busy(v)' => ch'[i].num # wk'[v].chunk.num
    <3> SUFFICES ASSUME NEW i \in 1 .. Len(ch'), NEW v \in Workers, Busy(v)'
                 PROVE  ch'[i].num # wk'[v].chunk.num
      OBVIOUS
    <3>1. CASE v = w
      BY <2>3, <2>6, <3>1
    <3>2. CASE v # w
      <4>1. wk'[v] = wk[v] /\ Busy(v) /\ i + 1 \in 1 .. Len(ch) /\ ch'[i] = ch[i + 1]
        BY <1>t, <2>3, <2>5, <3>2
      <4> QED
        BY <1>0, <4>1 DEF OnePlace
    <3> QED
      BY <3>1, <3>2
  <2>8. \A u, v \in Workers : Busy(u)' /\ Busy(v)' /\ u # v => wk'[u].chunk.num # wk'[v].chunk.num
    <3>1. 1 \in 1 .. Len(ch)
      BY <1>t, <2>2
    <3> QED
      BY <1>0, <2>3, <3>1 DEF OnePlace
  <2>9. /\ \A i \in 1 .. Len(parts), v \in Workers : Busy(v)' => parts[i] # wk'[v].chunk.num
        /\ \A v \in Workers : Busy(v)' => wk'[v].chunk.num <= Sent
    <3>1. 1 \in 1 .. Len(ch)
      BY <1>t, <2>2
    <3> QED
      BY <1>0, <2>3, <3>1 DEF OnePlace
  <2>10. /\ \A i, j \in 1 .. Len(parts) : i # j => parts[i] # parts[j]
         /\ \A i \in 1 .. Len(parts) : parts[i] \in 1 .. total /\ parts[i] <= Sent
    BY <1>0 DEF OnePlace
  <2> QED
    BY <2>1, <2>4, <2>6, <2>7, <2>8, <2>9, <2>10 DEF OnePlace
<1>5. ASSUME NEW w \in Workers, Check(w) \/ PartErr(w) \/ WorkerDone(w) PROVE OnePlace'
  <2>1. UNCHANGED <<pc, num, total, ch, parts>>
    BY <1>5 DEF Check, PartErr, WorkerDone, bodyVars, mainVars
  <2>2. \/ Goes(w, "idle", NoChunk) \/ Goes(w, "gone", NoChunk)
        \/ Busy(w) /\ Goes(w, "send", wk[w].chunk)
    BY <1>5 DEF Check, PartErr, WorkerDone, Busy
  <2>3. \A v \in Workers : Busy(v)' => Busy(v) /\ wk'[v].chunk = wk[v].chunk
    BY <1>0, <2>2, GoesFacts
  <2>4. Sent' = Sent
    BY <2>1 DEF Sent
  <2> QED
    BY <1>0, <2>1, <2>3, <2>4 DEF OnePlace
<1>6. ASSUME NEW w \in Workers, PartSent(w) PROVE OnePlace'
  <2> DEFINE c == wk[w].chunk
  <2>1. /\ UNCHANGED <<pc, num, total, ch>> /\ parts' = Append(parts, c.num)
        /\ Goes(w, "idle", NoChunk) /\ Busy(w)
    BY <1>6 DEF PartSent, bodyVars, mainVars, Busy
  <2>2. c.num \in 1 .. total /\ c.num \in Nat /\ c.num <= Sent
    BY <1>0, <1>t, <2>1 DEF OnePlace
  <2>3. /\ Len(parts') = Len(parts) + 1
        /\ \A i \in 1 .. Len(parts) : parts'[i] = parts[i]
        /\ parts'[Len(parts) + 1] = c.num
    BY <1>t, <2>1, <2>2, AppendFacts
  <2>4. \A v \in Workers : Busy(v)' => Busy(v) /\ v # w /\ wk'[v].chunk = wk[v].chunk
    BY <1>0, <2>1, GoesFacts
  <2>5. Sent' = Sent
    BY <2>1 DEF Sent
  <2>6. /\ \A i \in 1 .. Len(ch) : ch[i].num # c.num
        /\ \A i \in 1 .. Len(parts) : parts[i] # c.num
        /\ \A v \in Workers : Busy(v)' => wk'[v].chunk.num # c.num
    BY <1>0, <2>1, <2>4 DEF OnePlace
  <2> HIDE DEF c
  <2>7. \A i \in 1 .. Len(parts') : \/ i \in 1 .. Len(parts) /\ parts'[i] = parts[i]
                                    \/ i = Len(parts) + 1 /\ parts'[i] = c.num
    BY <1>t, <2>3
  <2>8. /\ \A i, j \in 1 .. Len(parts') : i # j => parts'[i] # parts'[j]
        /\ \A i \in 1 .. Len(ch), j \in 1 .. Len(parts') : ch[i].num # parts'[j]
        /\ \A i \in 1 .. Len(parts') : parts'[i] \in 1 .. total /\ parts'[i] <= Sent
    BY <1>0, <2>2, <2>6, <2>7 DEF OnePlace
  <2>9. \A i \in 1 .. Len(parts'), v \in Workers : Busy(v)' => parts'[i] # wk'[v].chunk.num
    BY <1>0, <2>4, <2>6, <2>7 DEF OnePlace
  <2> QED
    BY <1>0, <2>1, <2>4, <2>5, <2>8, <2>9 DEF OnePlace
<1>7. CASE FirstRead \/ Read \/ Loop \/ UNCHANGED vars
  BY <1>1, <1>7 DEF FirstRead, Read, Loop, vars, bodyVars
<1> QED
  BY <1>1, <1>2, <1>3, <1>4, <1>5, <1>6, <1>7, QuietSteps DEF Next, Main, Worker, Quiet

\* Unless a part fails, a step of a worker loses no part.
LEMMA WorkerKeeps ==
    ASSUME UploadInv, NEW w \in Workers, Worker(w), ~failed', NEW n, SomePlace(n)
    PROVE  SomePlace(n)'
<1>0. Types /\ BuffersHeld
  BY DEF UploadInv
<1>t. ch \in Seq(Chunk) /\ parts \in Seq(Nat) /\ Len(ch) \in Nat /\ Len(parts) \in Nat
  BY <1>0 DEF Types
<1>1. CASE Recv(w)
  <2>1. parts' = parts /\ ch' = Tail(ch) /\ ch # <<>> /\ Goes(w, "check", Head(ch)) /\ wk[w].at = "idle"
    BY <1>1 DEF Recv
  <2>2. /\ Len(ch) >= 1 /\ Head(ch) = ch[1] /\ Len(ch') = Len(ch) - 1
        /\ \A i \in 1 .. Len(ch) - 1 : ch'[i] = ch[i + 1]
    BY <1>t, <2>1, HeadTail
  <2>3. /\ Busy(w)' /\ wk'[w].chunk = ch[1] /\ ~Busy(w)
        /\ \A v \in Workers : v # w => wk'[v] = wk[v] /\ (Busy(v)' <=> Busy(v))
    BY <1>0, <2>1, <2>2, GoesFacts DEF Busy
  <2>4. ASSUME NEW i \in 1 .. Len(ch), ch[i].num = n PROVE SomePlace(n)'
    <3>1. CASE i = 1
      BY <2>3, <2>4, <3>1 DEF SomePlace
    <3>2. CASE i # 1
      <4> DEFINE k == i - 1
      <4>1. k \in 1 .. Len(ch') /\ ch'[k] = ch[k + 1] /\ k + 1 = i
        BY <1>t, <2>2, <3>2
      <4> HIDE DEF k
      <4> QED
        BY <2>4, <4>1 DEF SomePlace
    <3> QED
      BY <3>1, <3>2
  <2>5. ASSUME NEW v \in Workers, Busy(v), wk[v].chunk.num = n PROVE SomePlace(n)'
    BY <2>3, <2>5 DEF SomePlace
  <2>6. ASSUME NEW i \in 1 .. Len(parts), parts[i] = n PROVE SomePlace(n)'
    BY <2>1, <2>6 DEF SomePlace
  <2> QED
    BY <2>4, <2>5, <2>6 DEF SomePlace
<1>2. CASE Check(w) \/ PartErr(w) \/ WorkerDone(w)
  <2>1. /\ ch' = ch /\ parts' = parts
        /\ \/ ~Busy(w) /\ Goes(w, "gone", NoChunk)
           \/ Busy(w) /\ Goes(w, "send", wk[w].chunk)
    BY <1>2 DEF Check, PartErr, WorkerDone, Busy
  <2>2. \A v \in Workers : Busy(v) => Busy(v)' /\ wk'[v].chunk = wk[v].chunk
    BY <1>0, <2>1, GoesFacts
  <2> QED
    BY <2>1, <2>2 DEF SomePlace
<1>3. CASE PartSent(w)
  <2> DEFINE c == wk[w].chunk
  <2>1. ch' = ch /\ parts' = Append(parts, c.num) /\ Goes(w, "idle", NoChunk) /\ Busy(w)
    BY <1>3 DEF PartSent, Busy
  <2>2. c.num \in Nat
    BY <1>0, <2>1 DEF BuffersHeld, Held, Owns, Chunk
  <2>3. /\ Len(parts') = Len(parts) + 1
        /\ \A i \in 1 .. Len(parts) : parts'[i] = parts[i]
        /\ parts'[Len(parts) + 1] = c.num
    BY <1>t, <2>1, <2>2, AppendFacts
  <2>4. \A v \in Workers : v # w /\ Busy(v) => Busy(v)' /\ wk'[v].chunk = wk[v].chunk
    BY <1>0, <2>1, GoesFacts
  <2>5. Len(parts) + 1 \in 1 .. Len(parts') /\ \A i \in 1 .. Len(parts) : i \in 1 .. Len(parts')
    BY <1>t, <2>3
  <2>6. ASSUME NEW v \in Workers, Busy(v), wk[v].chunk.num = n PROVE SomePlace(n)'
    <3>1. CASE v = w
      BY <2>3, <2>5, <2>6, <3>1 DEF SomePlace
    <3>2. CASE v # w
      BY <2>4, <2>6, <3>2 DEF SomePlace
    <3> QED
      BY <3>1, <3>2
  <2> HIDE DEF c
  <2>7. ASSUME NEW i \in 1 .. Len(ch), ch[i].num = n PROVE SomePlace(n)'
    BY <2>1, <2>7 DEF SomePlace
  <2>8. ASSUME NEW i \in 1 .. Len(parts), parts[i] = n PROVE SomePlace(n)'
    BY <2>3, <2>5, <2>8 DEF SomePlace
  <2> QED
    BY <2>6, <2>7, <2>8 DEF SomePlace
<1> QED
  BY <1>1, <1>2, <1>3 DEF Worker

\* As long as nothing fails every part that was read is somewhere.
LEMMA NoneLostStep == UploadInv /\ [Next]_vars => NoneLost'
<1> SUFFICES ASSUME UploadInv, [Next]_vars, ~failed' PROVE NoneLost'
  BY DEF NoneLost
<1>0. Types /\ BuffersHeld /\ Phases /\ NoneLost /\ total \in Nat /\ num \in Nat
  BY DEF UploadInv, Types
<1>1. ASSUME UNCHANGED <<total, num, ch, wk, parts>>, pc' \notin {"create", "send", "loop", "read"},
             pc' \in {"close", "wait", "complete"} => pc \in {"close", "wait", "complete"} /\ ~failed
      PROVE  NoneLost'
  <2>1. CASE pc' \in {"close", "wait", "complete"}
    <3>1. /\ pc \in {"close", "wait", "complete"} /\ total <= num
          /\ \A n \in 1 .. total : n <= num => SomePlace(n)
      BY <1>0, <1>1, <2>1 DEF NoneLost, Sent
    <3>2. \A n : SomePlace(n) => SomePlace(n)'
      BY <1>1 DEF SomePlace, Busy
    <3> QED
      BY <1>1, <2>1, <3>1, <3>2 DEF NoneLost, Sent
  <2>2. CASE pc' \notin {"close", "wait", "complete"}
    BY <1>1, <2>2 DEF NoneLost
  <2> QED
    BY <2>1, <2>2
<1>2. CASE FirstRead
  <2>1. num' = 1 /\ pc' \in {"put", "create"} /\ (pc' = "create" => ~eof')
    BY <1>2 DEF FirstRead
  <2>2. pc' = "create" => Sent' = 0
    BY <2>1 DEF Sent
  <2> QED
    BY <2>1, <2>2 DEF NoneLost
<1>3. CASE Create
  <2>1. /\ pc = "create" /\ pc' = "send" /\ UNCHANGED <<total, num, eof>> /\ ~failed
        /\ ch = <<>> /\ parts = <<>> /\ \A w \in Workers : ~Busy(w)
    BY <1>0, <1>3 DEF Create, Phases, bodyVars, Busy
  <2>2. Sent' = Sent
    BY <2>1 DEF Sent
  <2>3. \A n : ~SomePlace(n)
    BY <2>1 DEF SomePlace
  <2>4. (\A n \in 1 .. total : ~(n <= Sent)) /\ (eof => total <= num)
    BY <1>0, <2>1, <2>3 DEF NoneLost
  <2> QED
    BY <2>1, <2>2, <2>4 DEF NoneLost
<1>4. CASE Send
  <2>1. /\ pc = "send" /\ pc' = "loop" /\ UNCHANGED <<total, num, eof, wk, parts>> /\ ~failed
        /\ Held(part) /\ part.num = num /\ ch' = Append(ch, part) /\ ch \in Seq(Chunk)
    BY <1>0, <1>4 DEF Send, BuffersHeld, bodyVars, Types
  <2>2. /\ Len(ch') = Len(ch) + 1 /\ Len(ch) \in Nat
        /\ \A i \in 1 .. Len(ch) : ch'[i] = ch[i]
        /\ ch'[Len(ch) + 1] = part
    BY <2>1, AppendFacts DEF Held, Owns
  <2>3. Len(ch) + 1 \in 1 .. Len(ch') /\ \A i \in 1 .. Len(ch) : i \in 1 .. Len(ch')
    BY <2>2
  <2>4. \A n : SomePlace(n) => SomePlace(n)'
    BY <2>1, <2>2, <2>3 DEF SomePlace, Busy
  <2>5. SomePlace(num)'
    <3>1. \E i \in 1 .. Len(ch') : ch'[i].num = num
      BY <2>1, <2>2, <2>3
    <3> QED
      BY <2>1, <3>1 DEF SomePlace
  <2>6. (\A n \in 1 .. total : n <= num - 1 => SomePlace(n)) /\ (eof => total <= num)
    BY <1>0, <2>1 DEF NoneLost, Sent
  <2>7. \A n \in 1 .. total : n <= num => n <= num - 1 \/ n = num
    BY <1>0
  <2>8. \A n \in 1 .. total : n <= num => SomePlace(n)'
    BY <2>1, <2>4, <2>5, <2>6, <2>7
  <2>9. Sent' = num
    BY <2>1 DEF Sent
  <2> QED
    BY <2>1, <2>6, <2>8, <2>9 DEF NoneLost
<1>5. CASE Loop
  <2>1. /\ pc = "loop" /\ ~failed /\ UNCHANGED <<total, ch, wk, parts, eof>>
        /\ \/ eof /\ pc' = "close" /\ num' = num
           \/ pc' = "read" /\ num' = num + 1
    BY <1>5 DEF Loop, bodyVars
  <2>2. (\A n \in 1 .. total : n <= num => SomePlace(n)) /\ (eof => total <= num)
    BY <1>0, <2>1 DEF NoneLost, Sent
  <2>3. \A n : SomePlace(n) => SomePlace(n)'
    BY <2>1 DEF SomePlace, Busy
  <2>4. Sent' = num
    BY <1>0, <2>1 DEF Sent
  <2> QED
    BY <2>1, <2>2, <2>3, <2>4 DEF NoneLost
<1>6. CASE Read
  <2>1. /\ pc = "read" /\ ~failed /\ UNCHANGED <<total, ch, wk, parts, num>> /\ num \in Nat \ {0}
        /\ nextReader(num)
        /\ \/ num > total /\ pc' = "close"
           \/ pc' = "send"
    BY <1>0, <1>6 DEF Read, bodyVars, Phases
  <2>2. eof' => total <= num
    BY <1>0, <2>1, ReaderTakes
  <2>3. \A n \in 1 .. total : n <= num - 1 => SomePlace(n)
    BY <1>0, <2>1 DEF NoneLost, Sent
  <2>4. \A n : SomePlace(n) => SomePlace(n)'
    BY <2>1 DEF SomePlace, Busy
  <2>5. CASE num > total /\ pc' = "close"
    <3>1. \A n \in 1 .. total : n <= num - 1
      BY <1>0, <2>5
    <3>2. total <= num
      BY <1>0, <2>5
    <3> QED
      BY <2>1, <2>3, <2>4, <2>5, <3>1, <3>2 DEF NoneLost
  <2>6. CASE pc' = "send"
    <3>1. Sent' = num - 1
      BY <2>1, <2>6 DEF Sent
    <3> QED
      BY <2>1, <2>2, <2>3, <2>4, <2>6, <3>1 DEF NoneLost
  <2> QED
    BY <2>1, <2>5, <2>6
<1>7. ASSUME NEW w \in Workers, Worker(w) PROVE NoneLost'
  <2>1. UNCHANGED <<total, num, pc, eof>> /\ ~failed
    BY <1>7 DEF Worker, Recv, Check, PartSent, PartErr, WorkerDone, mainVars, bodyVars
  <2>2. \A n : SomePlace(n) => SomePlace(n)'
    BY <1>7, WorkerKeeps
  <2>3. Sent' = Sent
    BY <2>1 DEF Sent
  <2> QED
    BY <1>0, <2>1, <2>2, <2>3 DEF NoneLost
<1>8. CASE UNCHANGED vars
  <2>1. UNCHANGED <<total, num, pc, eof, ch, wk, parts>> /\ ~failed
    BY <1>8 DEF vars
  <2>2. \A n : SomePlace(n) => SomePlace(n)'
    BY <2>1 DEF SomePlace, Busy
  <2>3. Sent' = Sent
    BY <2>1 DEF Sent
  <2> QED
    BY <1>0, <2>1, <2>2, <2>3 DEF NoneLost
<1>9. CASE EarlyErr \/ Put \/ CreateLost \/ ReadErr \/ CloseCh \/ Wait \/ CompleteOk
              \/ CompleteErr \/ Fail
  <2>1. pc' \in {"close", "wait", "complete"} => pc \in {"close", "wait", "complete"} /\ ~failed
    BY <1>9 DEF EarlyErr, Put, CreateLost, ReadErr, CloseCh, Wait, CompleteOk, CompleteErr, Fail, Return
  <2> QED
    BY <1>1, <1>9, <2>1, QuietSteps DEF Quiet
<1> QED
  BY <1>2, <1>3, <1>4, <1>5, <1>6, <1>7, <1>8, <1>9 DEF Next, Main

\* A part is stored under its own number: its chunk still owns the buffer.
LEMMA StoredRightStep == UploadInv /\ [Next]_vars => StoredRight'
<1> SUFFICES ASSUME UploadInv, [Next]_vars PROVE StoredRight'
  OBVIOUS
<1>0. Types /\ BuffersHeld /\ StoredRight
  BY DEF UploadInv
<1>1. ASSUME UNCHANGED <<stored, parts>> PROVE StoredRight'
  BY <1>0, <1>1 DEF StoredRight
<1>2. ASSUME NEW w \in Workers, Busy(w)
      PROVE  /\ \A i \in DOMAIN Uploaded(wk[w].chunk) : Uploaded(wk[w].chunk)[i] = i
             /\ DOMAIN Uploaded(wk[w].chunk) = DOMAIN stored \cup {wk[w].chunk.num}
  <2>1. Held(wk[w].chunk)
    BY <1>0, <1>2 DEF BuffersHeld
  <2>2. mem[wk[w].chunk.buf] = wk[w].chunk.num
    BY <2>1 DEF Held, Owns
  <2> QED
    BY <1>0, <2>2 DEF StoredRight, Uploaded
<1>3. ASSUME NEW w \in Workers, PartSent(w) PROVE StoredRight'
  <2> DEFINE c == wk[w].chunk
  <2>1. Busy(w) /\ stored' = Uploaded(c) /\ parts' = Append(parts, c.num)
    BY <1>3 DEF PartSent, Busy
  <2>2. c.num \in Nat /\ parts \in Seq(Nat) /\ Len(parts) \in Nat
    BY <1>0, <2>1 DEF BuffersHeld, Held, Owns, Types, Chunk
  <2>3. \A i \in 1 .. Len(parts') : \/ i \in 1 .. Len(parts) /\ parts'[i] = parts[i]
                                    \/ parts'[i] = c.num
    BY <2>1, <2>2, AppendFacts
  <2>4. /\ \A i \in DOMAIN stored' : stored'[i] = i
        /\ DOMAIN stored' = DOMAIN stored \cup {c.num}
    BY <1>2, <2>1
  <2> HIDE DEF c
  <2> QED
    BY <1>0, <2>3, <2>4 DEF StoredRight
<1>4. ASSUME NEW w \in Workers, PartErr(w) PROVE StoredRight'
  <2>1. Busy(w) /\ stored' \in {stored, Uploaded(wk[w].chunk)} /\ parts' = parts
    BY <1>4 DEF PartErr, Busy
  <2> QED
    BY <1>0, <1>2, <2>1 DEF StoredRight
<1>5. ASSUME NEW w \in Workers, Recv(w) \/ Check(w) \/ WorkerDone(w) PROVE StoredRight'
  BY <1>1, <1>5 DEF Recv, Check, WorkerDone, s3Vars
<1>6. CASE Main \/ UNCHANGED vars
  <2>1. UNCHANGED <<stored, parts>>
    BY <1>6 DEF Main, FirstRead, EarlyErr, Put, Create, CreateLost, Send, Loop, Read, ReadErr, CloseCh,
       Wait, CompleteOk, CompleteErr, Fail, Assemble, s3Vars, vars
  <2> QED
    BY <1>1, <2>1
<1> QED
  BY <1>3, <1>4, <1>5, <1>6 DEF Next, Worker

\* The stages follow one another, and the workers stop only after the channel
\* was closed and drained.
LEMMA PhasesStep == UploadInv /\ [Next]_vars => Phases'
<1> SUFFICES ASSUME UploadInv, [Next]_vars PROVE Phases'
  OBVIOUS
<1>0. Types /\ BuffersHeld /\ Phases /\ total \in Nat /\ num \in Nat
  BY DEF UploadInv, Types
<1>1. CASE FirstRead
  <2>1. /\ pc = "first" /\ nextReader(1) /\ num' = 1 /\ pc' = IF eof' THEN "put" ELSE "create"
        /\ UNCHANGED <<total, ch, parts, chClosed, failed, wk>>
    BY <1>1 DEF FirstRead, bodyVars
  <2>2. /\ eof' => total <= 1
        /\ 1 > total => part' = NoChunk
        /\ 1 <= total => Held(part)' /\ part'.num = 1
    BY <1>0, <2>1, ReaderTakes
  <2>3. pc' = "put" => \/ total' = 0 /\ part' = NoChunk
                       \/ total' = 1 /\ Held(part)' /\ part'.num = 1
    BY <1>0, <2>1, <2>2
  <2> QED
    BY <1>0, <2>1, <2>3 DEF Phases
<1>2. CASE EarlyErr \/ Put \/ CreateLost \/ ReadErr \/ CloseCh \/ CompleteOk \/ CompleteErr \/ Fail
  <2>1. Quiet /\ pc' \in {"close", "wait", "complete", "fail", "end"}
    BY <1>2, QuietSteps DEF EarlyErr, Put, CreateLost, ReadErr, CloseCh, CompleteOk, CompleteErr, Fail, Return
  <2>2. /\ chClosed => chClosed'
        /\ chClosed' => pc' \in {"wait", "complete", "fail", "end"}
        /\ pc' = "complete" => ~failed'
        /\ pc' \in {"complete", "fail"} => pc = "complete"
    BY <1>0, <1>2 DEF Phases, EarlyErr, Put, CreateLost, ReadErr, CloseCh, CompleteOk, CompleteErr, Fail, Return
  <2> QED
    BY <1>0, <2>1, <2>2 DEF Phases, Quiet
<1>3. CASE Wait
  BY <1>0, <1>3 DEF Wait, Phases, bodyVars, bufVars
<1>4. CASE Create
  <2>1. /\ pc = "create" /\ pc' = "send" /\ num' = num /\ chClosed' = chClosed
        /\ \A w \in Workers : wk'[w].at = "idle"
    BY <1>4 DEF Create
  <2> QED
    BY <1>0, <2>1 DEF Phases
<1>5. CASE Send
  <2>1. /\ pc = "send" /\ pc' = "loop" /\ UNCHANGED <<num, chClosed, wk>>
    BY <1>5 DEF Send
  <2> QED
    BY <1>0, <2>1 DEF Phases
<1>6. CASE Loop
  <2>1. pc = "loop" /\ pc' \in {"close", "read"} /\ num' \in Nat /\ num <= num' /\ UNCHANGED <<chClosed, wk, ch>>
    BY <1>0, <1>6 DEF Loop
  <2> QED
    BY <1>0, <2>1 DEF Phases
<1>7. CASE Read
  <2>1. pc = "read" /\ pc' \in {"close", "send"} /\ UNCHANGED <<num, chClosed, wk, ch>>
    BY <1>7 DEF Read
  <2> QED
    BY <1>0, <2>1 DEF Phases
<1>8. ASSUME NEW w \in Workers, Worker(w) PROVE Phases'
  <2>1. UNCHANGED <<pc, num, chClosed>> /\ wk[w].at \in {"idle", "check", "send"}
    BY <1>8 DEF Worker, Recv, Check, PartSent, PartErr, WorkerDone, mainVars
  <2>2. pc \notin {"first", "put", "create", "complete", "fail"}
    BY <1>0, <2>1 DEF Phases
  <2>3. \/ ch' = ch
        \/ wk[w].at = "idle" /\ ch # <<>>
    BY <1>8 DEF Worker, Recv, Check, PartSent, PartErr, WorkerDone
  <2>4. PICK at, c : Goes(w, at, c) /\ (at = "gone" => chClosed /\ ch' = <<>>)
    BY <1>8 DEF Worker, Recv, Check, PartSent, PartErr, WorkerDone
  <2>5. wk'[w].at = at /\ \A v \in Workers : v # w => wk'[v].at = wk[v].at
    BY <1>0, <2>4, GoesFacts
  <2>6. \A v \in Workers : wk'[v].at = "gone" => chClosed' /\ ch' = <<>>
    BY <1>0, <2>1, <2>3, <2>4, <2>5 DEF Phases
  <2> QED
    BY <1>0, <2>1, <2>2, <2>6 DEF Phases
<1>9. CASE UNCHANGED vars
  <2>1. UNCHANGED <<total, pc, num, part, ch, parts, chClosed, failed, wk, mem, pool>>
    BY <1>9 DEF vars
  <2> QED
    BY <1>0, <2>1 DEF Phases, Held
<1> QED
  BY <1>1, <1>2, <1>3, <1>4, <1>5, <1>6, <1>7, <1>8, <1>9 DEF Next, Main

\* When the workers are gone and nothing failed, the list names every part.
LEMMA AllListed ==
    ASSUME UploadInv, pc = "complete"
    PROVE  \A n \in 1 .. total : \E i \in 1 .. Len(parts) : parts[i] = n
<1>0. Types /\ NoneLost /\ Phases /\ total \in Nat /\ num \in Nat
  BY DEF UploadInv, Types
<1>1. ch = <<>> /\ \A w \in Workers : ~Busy(w)
  BY <1>0 DEF Phases, Busy
<1>2. ~failed /\ total <= num /\ \A n \in 1 .. total : n <= num => SomePlace(n)
  BY <1>0 DEF Phases, NoneLost, Sent
<1>3. \A n \in 1 .. total : n <= num
  BY <1>0, <1>2
<1> QED
  BY <1>1, <1>2, <1>3 DEF SomePlace

\* S3 puts together the whole body.
LEMMA AssembledRight ==
    ASSUME UploadInv, pc = "complete", Assemble
    PROVE  object' = Body
<1>0. Types /\ OnePlace /\ StoredRight /\ total \in Nat /\ parts \in Seq(Nat)
  BY DEF UploadInv, Types
<1>1. /\ \A i \in 1 .. Len(parts) : parts[i] \in 1 .. total
      /\ \A i, j \in 1 .. Len(parts) : i # j => parts[i] # parts[j]
      /\ \A n \in 1 .. total : \E i \in 1 .. Len(parts) : parts[i] = n
  BY <1>0, AllListed DEF OnePlace
<1>2. Len(Sorted(parts)) = total /\ \A i \in 1 .. total : Sorted(parts)[i] = i
  BY <1>0, <1>1, SortedListing
<1>3. \A i \in 1 .. total : stored[i] = i
  BY <1>0, <1>1 DEF StoredRight
<1>4. object' = [i \in 1 .. Len(Sorted(parts)) |-> stored[Sorted(parts)[i]]]
  BY DEF Assemble
<1> QED
  BY <1>2, <1>3, <1>4 DEF Body

\* The object is absent or whole, and an upload is closed before an error.
LEMMA AtS3Step == UploadInv /\ [Next]_vars => AtS3'
<1> SUFFICES ASSUME UploadInv, [Next]_vars PROVE AtS3'
  OBVIOUS
<1>0. Types /\ Phases /\ AtS3 /\ BuffersHeld
  BY DEF UploadInv
<1>b. total' = total => Body' = Body
  BY DEF Body
<1>1. ASSUME UNCHANGED <<total, mpu, object, result>>, pc' # "end",
             \/ pc' = pc
             \/ pc = "first" /\ pc' \in {"put", "create"}
             \/ pc = "complete" /\ pc' = "fail"
             \/ /\ pc \in {"send", "loop", "read", "close", "wait"}
                /\ pc' \in {"send", "loop", "read", "close", "wait", "complete", "fail"}
      PROVE  AtS3'
  BY <1>0, <1>1, <1>b DEF AtS3
<1>2. CASE FirstRead \/ Send \/ Loop \/ Read \/ ReadErr \/ CloseCh \/ Wait
  <2>1. /\ UNCHANGED <<total, mpu, object, result>>
        /\ \/ pc = "first" /\ pc' \in {"put", "create"}
           \/ /\ pc \in {"send", "loop", "read", "close", "wait"}
              /\ pc' \in {"send", "loop", "read", "close", "wait", "complete", "fail"}
    BY <1>2 DEF FirstRead, Send, Loop, Read, ReadErr, CloseCh, Wait, bodyVars, s3Vars
  <2> QED
    BY <1>1, <2>1
<1>3. CASE EarlyErr \/ CreateLost
  <2>1. /\ pc \in {"first", "put", "create"} /\ pc' = "end" /\ result' = "err" /\ UNCHANGED <<total, object>>
        /\ mpu' \in {mpu, "orphan"}
    BY <1>3 DEF EarlyErr, CreateLost, Return, bodyVars, s3Vars
  <2> QED
    BY <1>0, <1>b, <2>1 DEF AtS3
<1>4. CASE Put
  <2>1. /\ pc = "put" /\ pc' = "end" /\ UNCHANGED <<total, mpu>> /\ result' \in {"ok", "err"}
        /\ object' = IF part = NoChunk THEN <<>> ELSE <<mem[part.buf]>>
    BY <1>4 DEF Put, Return, bodyVars
  <2>2. CASE total = 0 /\ part = NoChunk
    <3>1. object' = Body'
      BY <2>1, <2>2 DEF Body
    <3> QED
      BY <1>0, <2>1, <3>1 DEF AtS3
  <2>3. CASE total = 1 /\ Held(part) /\ part.num = 1
    <3>1. part # NoChunk /\ mem[part.buf] = 1
      BY <2>3 DEF Held, Owns, NoChunk
    <3>2. object' = <<1>>
      BY <2>1, <3>1
    <3>3. Body' = [i \in 1 .. 1 |-> i]
      BY <2>1, <2>3 DEF Body
    <3>4. object' = Body'
      BY <3>2, <3>3
    <3> QED
      BY <1>0, <2>1, <3>4 DEF AtS3
  <2> QED
    BY <1>0, <2>1, <2>2, <2>3 DEF Phases
<1>5. CASE Create
  <2>1. pc = "create" /\ mpu' = "open" /\ pc' = "send" /\ UNCHANGED <<total, object, result>>
    BY <1>5 DEF Create, bodyVars
  <2> QED
    BY <1>0, <1>b, <2>1 DEF AtS3
<1>6. CASE CompleteOk
  <2>1. /\ pc = "complete" /\ pc' = "end" /\ result' = "ok" /\ total' = total
        /\ \/ Assemble
           \/ mpu # "open" /\ UNCHANGED <<mpu, object>>
    BY <1>6 DEF CompleteOk, Return, bodyVars, s3Vars
  <2>2. CASE Assemble
    <3>1. object' = Body /\ mpu' = "done"
      BY <2>1, <2>2, AssembledRight DEF Assemble
    <3> QED
      BY <1>b, <2>1, <3>1 DEF AtS3
  <2>3. CASE mpu # "open" /\ UNCHANGED <<mpu, object>>
    BY <1>0, <1>b, <2>1, <2>3 DEF AtS3
  <2> QED
    BY <2>1, <2>2, <2>3
<1>7. CASE CompleteErr
  <2>1. /\ pc = "complete" /\ pc' \in {"complete", "fail"} /\ UNCHANGED <<total, result>>
        /\ \/ Assemble
           \/ UNCHANGED <<mpu, object>>
    BY <1>7 DEF CompleteErr, bodyVars, s3Vars
  <2>2. CASE Assemble
    <3>1. object' = Body /\ mpu' = "done"
      BY <2>1, <2>2, AssembledRight DEF Assemble
    <3> QED
      BY <1>0, <1>b, <2>1, <3>1 DEF AtS3
  <2>3. CASE UNCHANGED <<mpu, object>>
    BY <1>1, <2>1, <2>3
  <2> QED
    BY <2>1, <2>2, <2>3
<1>8. CASE Fail
  <2>1. /\ pc = "fail" /\ pc' = "end" /\ result' = "err" /\ UNCHANGED <<total, object>>
        /\ mpu' # "open" /\ (mpu' = "done" => mpu = "done")
    BY <1>8 DEF Fail, Return, bodyVars
  <2> QED
    BY <1>0, <1>b, <2>1 DEF AtS3
<1>9. ASSUME NEW w \in Workers, Worker(w) PROVE AtS3'
  <2>1. UNCHANGED <<pc, total, mpu, object, result>>
    BY <1>9 DEF Worker, Recv, Check, PartSent, PartErr, WorkerDone, mainVars, bodyVars, s3Vars
  <2> QED
    BY <1>0, <1>b, <2>1 DEF AtS3
<1>10. CASE UNCHANGED vars
  <2>1. UNCHANGED <<pc, total, mpu, object, result>>
    BY <1>10 DEF vars
  <2> QED
    BY <1>0, <1>b, <2>1 DEF AtS3
<1> QED
  BY <1>2, <1>3, <1>4, <1>5, <1>6, <1>7, <1>8, <1>9, <1>10 DEF Next, Main

----------------------------------------------------------------------------
(* The theorems *)

LEMMA UploadInvariant == Spec => []UploadInv
<1>1. UploadInv /\ [Next]_vars => UploadInv'
  <2> SUFFICES ASSUME UploadInv, [Next]_vars PROVE UploadInv'
    OBVIOUS
  <2> QED
    BY TypesStep, BuffersHeldStep, OnePlaceStep, NoneLostStep, StoredRightStep, PhasesStep, AtS3Step
       DEF UploadInv
<1> QED
  BY InitUpload, <1>1, PTL DEF Spec

\* An object that appears at S3 is the whole body in order, and it is there
\* when Upload reports success: whatever requests fail, lose their answer or
\* are repeated, and whichever buffers multiuploader.upload and readChunk
\* pass between them through the pool.
THEOREM UploadWhole == Spec => []ObjectWhole
<1>1. UploadInv => ObjectWhole
  BY DEF UploadInv, AtS3, ObjectWhole
<1> QED
  BY UploadInvariant, <1>1, PTL

\* When Upload returns an error the multipart upload has been aborted, or the
\* request that created or aborted it had failed: uploader.go's fail is on
\* every path that follows a successful CreateMultipartUpload.
THEOREM UploadClosed == Spec => []NoUploadLeft
<1>1. UploadInv => NoUploadLeft
  BY DEF UploadInv, AtS3, NoUploadLeft
<1> QED
  BY UploadInvariant, <1>1, PTL

\* A buffer that went to the channel or to a worker stays out of the pool, and
\* keeps the bytes of its part, until readChunk has sent it.
THEOREM NoBufferReused == Spec => []BuffersHeld
<1>1. UploadInv => BuffersHeld
  BY DEF UploadInv
<1> QED
  BY UploadInvariant, <1>1, PTL
=============================================================================

------------------------- MODULE CachedObjectProofs -------------------------
(***************************************************************************)
(* For every object, block size, number of readers and length of a read:   *)
(* what ReadAt joins of its blocks is a prefix of what was asked, and all  *)
(* of it if there is no error; the read-ahead controller is told only of   *)
(* reads inside the object, so that it does what ReadAhead says; and no    *)
(* token of the read-ahead is lost or made up.                             *)
(***************************************************************************)
EXTENDS CachedObject, FiniteSetTheorems, NaturalsInduction, WellFoundedInduction, TLAPS

USE ReadAheadAssumption, ReadersAssumption

----------------------------------------------------------------------------
(* Arithmetic *)

\* Max and Min of two.
LEMMA OfTwo ==
    ASSUME NEW a \in Int, NEW b \in Int
    PROVE  /\ Max({a, b}) = IF a >= b THEN a ELSE b
           /\ Min({a, b}) = IF a <= b THEN a ELSE b
  BY DEF Max, Min

\* A block begins where the one before it ends, or later.
LEMMA NextBlock ==
    ASSUME NEW b \in Int, NEW d \in Int, b < d
    PROVE  b * bsize + bsize <= d * bsize
<1>1. PICK k \in Nat : d = b + 1 + k
  <2>1. d - b - 1 \in Nat /\ d = b + 1 + (d - b - 1)
    OBVIOUS
  <2> QED
    BY <2>1
<1>2. d * bsize = b * bsize + bsize + k * bsize /\ k * bsize >= 0
  BY <1>1
<1> QED
  BY <1>2

\* A byte lies in one block.
LEMMA BlockOf ==
    ASSUME NEW x \in Nat
    PROVE  /\ x \div bsize \in Nat /\ x % bsize \in Nat
           /\ x = (x \div bsize) * bsize + (x % bsize)
           /\ (x \div bsize) * bsize <= x /\ x < (x \div bsize) * bsize + bsize
           /\ \A b \in Nat : b * bsize <= x /\ x < b * bsize + bsize => b = x \div bsize
<1> DEFINE q == x \div bsize
<1>1. /\ q \in Nat /\ x % bsize \in Nat /\ x = q * bsize + (x % bsize) /\ x % bsize < bsize
  OBVIOUS
<1> HIDE DEF q
<1>2. ASSUME NEW b \in Nat, b * bsize <= x, x < b * bsize + bsize PROVE b = q
  <2>1. ~(b < q)
    BY <1>1, <1>2, NextBlock
  <2>2. ~(q < b)
    BY <1>1, <1>2, NextBlock
  <2> QED
    BY <1>1, <2>1, <2>2
<1>3. q * bsize \in Nat
  BY <1>1
<1> QED
  BY <1>1, <1>2, <1>3 DEF q

----------------------------------------------------------------------------
(* What a call is cut into *)

\* A call that has something to read.
InObject(c) == c \in Calls /\ c.len > 0 /\ c.off < ObjSize[c.obj]

\* The first byte that the call does not want, and the bytes that it wants of
\* block b, from Lo up to but not including Hi.
End(c)   == IF c.off + c.len <= ObjSize[c.obj] THEN c.off + c.len ELSE ObjSize[c.obj]
Lo(c, b) == IF c.off >= b * bsize THEN c.off ELSE b * bsize
Hi(c, b) == IF End(c) <= b * bsize + bsize THEN End(c) ELSE b * bsize + bsize

Cut(c) == {b \in Nat : c.off \div bsize <= b /\ b * bsize < End(c)}

\* The call ends inside the object, and not before it begins.
LEMMA EndInside ==
    ASSUME NEW c, c \in Calls
    PROVE  /\ c.obj \in Objects /\ c.off \in Nat /\ c.len \in Nat /\ ObjSize[c.obj] \in Nat
           /\ End(c) \in Nat /\ End(c) <= ObjSize[c.obj] /\ c.off <= End(c)
           /\ End(c) <= c.off + c.len
           /\ Overlap(c).start = c.off /\ Overlap(c).end = End(c)
           /\ Min({c.len, ObjSize[c.obj] - c.off}) = End(c) - c.off
           /\ InObject(c) <=> c.len > 0 /\ NonEmpty(Overlap(c))
<1>1. c.obj \in Objects /\ c.off \in Nat /\ c.len \in Nat /\ c.off <= ObjSize[c.obj]
  BY DEF Calls
<1>2. ObjSize[c.obj] \in Nat
  BY <1>1
<1>3. /\ Max({0, c.off}) = c.off
      /\ Min({ObjSize[c.obj], c.off + c.len}) = End(c)
      /\ Min({c.len, ObjSize[c.obj] - c.off}) = End(c) - c.off
  <2> DEFINE S == ObjSize[c.obj]
             e == c.off + c.len
             m == S - c.off
  <2>1. S \in Int /\ e \in Int /\ m \in Int /\ c.off \in Int /\ c.len \in Int
    BY <1>1, <1>2
  <2> HIDE DEF S, e, m
  <2>2. Max({0, c.off}) = IF 0 >= c.off THEN 0 ELSE c.off
    BY <2>1, OfTwo
  <2>3. Min({S, e}) = IF S <= e THEN S ELSE e
    BY <2>1, OfTwo
  <2>4. Min({c.len, m}) = IF c.len <= m THEN c.len ELSE m
    BY <2>1, OfTwo
  <2> QED
    BY <1>1, <1>2, <2>2, <2>3, <2>4 DEF End, S, e, m
<1>4. Overlap(c).start = c.off /\ Overlap(c).end = End(c)
  BY <1>3 DEF Overlap, Intersection
<1>5. End(c) \in Nat /\ End(c) <= ObjSize[c.obj] /\ c.off <= End(c) /\ End(c) <= c.off + c.len
  BY <1>1, <1>2 DEF End
<1>6. InObject(c) <=> c.len > 0 /\ NonEmpty(Overlap(c))
  BY <1>1, <1>2, <1>4 DEF InObject, NonEmpty, End
<1> QED
  BY <1>1, <1>2, <1>3, <1>4, <1>5, <1>6

\* The bytes that a call wants of its blocks lie one after the other, and each
\* byte that it wants is in one of them.
LEMMA InBlocks ==
    ASSUME NEW c, InObject(c)
    PROVE  /\ \A b \in Cut(c) : /\ Lo(c, b) \in Nat /\ Hi(c, b) \in Nat
                                /\ c.off <= Lo(c, b) /\ Lo(c, b) < Hi(c, b) /\ Hi(c, b) <= End(c)
           /\ \A b, d \in Cut(c) : b < d => Hi(c, b) <= Lo(c, d)
           /\ \A x \in Nat : c.off <= x /\ x < End(c) =>
                 /\ x \div bsize \in Cut(c)
                 /\ Lo(c, x \div bsize) <= x /\ x < Hi(c, x \div bsize)
           /\ \A b \in Cut(c), x \in Nat : Lo(c, b) <= x /\ x < Hi(c, b) => x \div bsize = b
<1>0. c.off \in Nat /\ End(c) \in Nat /\ c.off < End(c)
  BY EndInside DEF InObject, NonEmpty
<1> DEFINE f == c.off \div bsize
<1>1. f \in Nat /\ f * bsize \in Nat /\ f * bsize <= c.off /\ c.off < f * bsize + bsize
  BY <1>0, BlockOf
<1>2. Cut(c) = {b \in Nat : f <= b /\ b * bsize < End(c)}
  BY DEF Cut
<1> HIDE DEF f
<1>3. ASSUME NEW b \in Cut(c)
      PROVE  /\ b \in Nat /\ b * bsize \in Nat /\ b * bsize < End(c) /\ c.off < b * bsize + bsize
  <2>1. b \in Nat /\ b * bsize \in Nat /\ b * bsize < End(c) /\ f <= b
    BY <1>2
  <2>2. CASE f = b
    BY <1>1, <2>1, <2>2
  <2>3. CASE f < b
    BY <1>0, <1>1, <2>1, <2>3, NextBlock
  <2> QED
    BY <1>1, <2>1, <2>2, <2>3
<1>4. \A b \in Cut(c) : /\ Lo(c, b) \in Nat /\ Hi(c, b) \in Nat
                        /\ c.off <= Lo(c, b) /\ Lo(c, b) < Hi(c, b) /\ Hi(c, b) <= End(c)
  BY <1>0, <1>3 DEF Lo, Hi
<1>5. ASSUME NEW b \in Cut(c), NEW d \in Cut(c), b < d PROVE Hi(c, b) <= Lo(c, d)
  <2>1. b * bsize + bsize <= d * bsize
    BY <1>3, <1>5, NextBlock
  <2> QED
    BY <1>0, <1>3, <1>5, <2>1 DEF Lo, Hi
<1>6. ASSUME NEW x \in Nat, c.off <= x, x < End(c)
      PROVE  /\ x \div bsize \in Cut(c)
             /\ Lo(c, x \div bsize) <= x /\ x < Hi(c, x \div bsize)
  <2> DEFINE q == x \div bsize
  <2>1. q \in Nat /\ q * bsize \in Nat /\ q * bsize <= x /\ x < q * bsize + bsize
    BY BlockOf
  <2> HIDE DEF q
  <2>2. ~(q < f)
    BY <1>0, <1>1, <1>6, <2>1, NextBlock
  <2>3. q \in Cut(c)
    BY <1>0, <1>1, <1>2, <1>6, <2>1, <2>2
  <2>4. Lo(c, q) <= x /\ x < Hi(c, q)
    BY <1>0, <1>6, <2>1 DEF Lo, Hi
  <2> QED
    BY <2>3, <2>4 DEF q
<1>7. ASSUME NEW b \in Cut(c), NEW x \in Nat, Lo(c, b) <= x, x < Hi(c, b) PROVE x \div bsize = b
  <2>1. b * bsize <= x /\ x < b * bsize + bsize
    BY <1>0, <1>3, <1>7 DEF Lo, Hi
  <2> QED
    BY <1>3, <2>1, BlockOf
<1> QED
  BY <1>4, <1>5, <1>6, <1>7

\* What concatenated.ReadAt makes of a call: the blocks that hold wanted bytes,
\* and for each of them where its bytes are and where they go.
LEMMA Cutting ==
    ASSUME NEW c, InObject(c)
    PROVE  /\ Visited(c) = Cut(c) /\ want(c) = End(c) - c.off
           /\ \A b \in Cut(c) : /\ Dst(c, b) = Lo(c, b) - c.off
                                /\ Cnt(c, b) = Hi(c, b) - Lo(c, b)
                                /\ b * bsize + Src(c, b) = Lo(c, b)
<1> DEFINE S == ObjSize[c.obj]
           E == End(c)
           f == c.off \div bsize
           F == f * bsize
<1>0. /\ c.off \in Nat /\ S \in Nat /\ E \in Nat /\ c.off < E /\ E <= S
      /\ Overlap(c).start = c.off /\ Overlap(c).end = E
  BY EndInside DEF InObject, NonEmpty
<1>1. f \in Nat /\ F \in Nat /\ F <= c.off /\ c.off % bsize = c.off - F
  <2> DEFINE x == c.off
             q == x \div bsize
             y == x % bsize
  <2>1. x \in Nat
    BY <1>0
  <2> HIDE DEF x
  <2>2. q \in Nat /\ y \in Nat /\ x = q * bsize + y
    BY <2>1, BlockOf
  <2> HIDE DEF q, y
  <2>3. q \in Nat /\ q * bsize \in Nat /\ q * bsize <= x /\ y = x - q * bsize
    BY <2>1, <2>2
  <2> QED
    BY <2>3, Zenon DEF x, q, y
<1>2. /\ bstart(c) = f /\ boff(c) = c.off - F /\ want(c) = E - c.off
      /\ bend(c) = E \div bsize
  BY <1>0, <1>1 DEF bstart, boff, want, bend
<1>3. Cut(c) = {b \in Nat : f <= b /\ b * bsize < E}
  BY DEF Cut
<1> HIDE DEF S, E, f
<1>4. ASSUME NEW b \in Nat PROVE b * bsize \in Nat /\ Offset(c, b) = b * bsize - F
  BY <1>1, <1>2 DEF Offset
<1> HIDE DEF F
<1>5. ASSUME NEW b \in Cut(c)
      PROVE  Wanted(c, b).start = Lo(c, b) - F /\ Wanted(c, b).end = Hi(c, b) - F
  <2> DEFINE B == b * bsize
             z == SliceSize(c.obj, b)
             s == c.off - F
             t == B - F
             u == E - F
             v == B - F + z
  <2>1. b \in Nat /\ B \in Nat /\ B < E /\ Offset(c, b) = B - F
    BY <1>3, <1>4
  <2> HIDE DEF B
  <2>2. z = IF bsize <= S - B THEN bsize ELSE S - B
    <3> DEFINE k == S - B
    <3>1. k \in Int
      BY <1>0, <2>1
    <3>2. z = Min({bsize, k})
      BY DEF SliceSize, S, B
    <3> HIDE DEF z, k
    <3>3. Min({bsize, k}) = IF bsize <= k THEN bsize ELSE k
      BY <3>1, OfTwo
    <3> QED
      BY <3>2, <3>3 DEF k
  <2>3. SliceSize(c.obj, b) = z
    OBVIOUS
  <2> HIDE DEF z
  <2>4. z \in Nat
    BY <1>0, <2>1, <2>2
  <2>5. s \in Int /\ t \in Int /\ u \in Int /\ v \in Int
    BY <1>0, <1>1, <2>1, <2>4
  <2>6. boff(c) = s /\ boff(c) + want(c) = u /\ Offset(c, b) = t /\ Offset(c, b) + SliceSize(c.obj, b) = v
    BY <1>0, <1>1, <1>2, <2>1, <2>4, <2>3
  <2>7. /\ Lo(c, b) = IF c.off >= B THEN c.off ELSE B
        /\ Hi(c, b) = IF E <= B + bsize THEN E ELSE B + bsize
    BY DEF Lo, Hi, B, E
  <2> HIDE DEF s, t, u, v
  <2>8. /\ Max({s, t}) = IF s >= t THEN s ELSE t
        /\ Min({u, v}) = IF u <= v THEN u ELSE v
    BY <2>5, OfTwo
  <2>9. Wanted(c, b).start = Max({s, t}) /\ Wanted(c, b).end = Min({u, v})
    BY <2>6 DEF Wanted, Intersection
  <2>10. (IF s >= t THEN s ELSE t) = Lo(c, b) - F
    BY <1>0, <1>1, <2>1, <2>7 DEF s, t
  <2>11. (IF u <= v THEN u ELSE v) = Hi(c, b) - F
    BY <1>0, <1>1, <2>1, <2>2, <2>4, <2>7 DEF u, v
  <2> QED
    BY <2>8, <2>9, <2>10, <2>11
<1>6. \A b \in Cut(c) : Lo(c, b) \in Nat /\ Hi(c, b) \in Nat /\ Lo(c, b) < Hi(c, b)
  BY InBlocks
<1> DEFINE below == {b \in Parts(c) : Offset(c, b) <= boff(c) + want(c) - 1}
<1>7. below = Cut(c)
  <2> DEFINE q == E \div bsize
  <2>1. q \in Nat /\ q * bsize \in Nat /\ q * bsize <= E /\ E < q * bsize + bsize
    BY <1>0, BlockOf
  <2>2. bend(c) = q
    BY <1>2
  <2> HIDE DEF q
  <2>4. ASSUME NEW b \in Nat PROVE Offset(c, b) <= boff(c) + want(c) - 1 <=> b * bsize < E
    BY <1>0, <1>1, <1>2, <1>4
  <2>5. ASSUME NEW b \in Nat, b * bsize < E PROVE b <= q
    <3>1. ~(q < b)
      BY <1>0, <1>4, <2>1, <2>5, NextBlock
    <3> QED
      BY <2>1, <3>1
  <2>6. Parts(c) = {b \in Nat : f <= b /\ b <= q}
    BY <1>1, <1>2, <2>1, <2>2 DEF Parts
  <2> QED
    BY <1>3, <2>4, <2>5, <2>6
<1>8. \A b \in Cut(c) : NonEmpty(Wanted(c, b))
  BY <1>1, <1>5, <1>6 DEF NonEmpty
<1>9. Visited(c) = {b \in below : \A d \in below : d >= b => NonEmpty(Wanted(c, d))}
  BY DEF Visited
<1> HIDE DEF below
<1>10. Visited(c) = Cut(c)
  BY <1>7, <1>8, <1>9
<1>11. ASSUME NEW b \in Cut(c)
       PROVE  /\ Dst(c, b) = Lo(c, b) - c.off
              /\ Cnt(c, b) = Hi(c, b) - Lo(c, b)
              /\ b * bsize + Src(c, b) = Lo(c, b)
  <2>1. b * bsize \in Nat /\ Offset(c, b) = b * bsize - F
    BY <1>3, <1>4
  <2> QED
    BY <1>0, <1>1, <1>2, <1>5, <1>6, <2>1 DEF Dst, Cnt, Src
<1> QED
  BY <1>2, <1>10, <1>11 DEF E

\* The blocks used are those up to m, and those before m were read whole.
UpTo(c, its, used, m) ==
    /\ m \in Cut(c)
    /\ used = {b \in Cut(c) : b <= m}
    /\ \A b \in used : its[b].n \in Nat
    /\ \A b \in used : b < m => its[b].n = Hi(c, b) - Lo(c, b)
    /\ its[m].n <= Hi(c, m) - Lo(c, m)

\* Then they have delivered every byte up to the last one of block m.
LEMMA Reached ==
    ASSUME NEW c, InObject(c), NEW its, NEW used, NEW m, UpTo(c, its, used, m),
           NEW z \in Nat, c.off <= z, z < Lo(c, m) + its[m].n
    PROVE  /\ z \div bsize \in used
           /\ Lo(c, z \div bsize) <= z /\ z < Lo(c, z \div bsize) + its[z \div bsize].n
<1> DEFINE q == z \div bsize
<1>0. /\ End(c) \in Nat /\ Cut(c) \subseteq Nat /\ m \in Nat /\ m \in Cut(c) /\ m \in used
      /\ Lo(c, m) \in Nat /\ Hi(c, m) \in Nat /\ Hi(c, m) <= End(c) /\ its[m].n \in Nat
  <2>1. c \in Calls /\ Cut(c) \subseteq Nat /\ m \in Cut(c)
    BY DEF InObject, Cut, UpTo
  <2>2. End(c) \in Nat
    BY <2>1, EndInside
  <2>3. m \in Nat /\ m \in used /\ its[m].n \in Nat
    BY <2>1 DEF UpTo
  <2> QED
    BY <2>1, <2>2, <2>3, InBlocks
<1>1. z < Hi(c, m) /\ z < End(c)
  BY <1>0 DEF UpTo
<1>2. q \in Cut(c) /\ Lo(c, q) <= z /\ z < Hi(c, q)
  BY <1>1, InBlocks
<1> HIDE DEF q
<1>3. q \in Nat /\ Lo(c, q) \in Nat /\ Hi(c, q) \in Nat
  BY <1>0, <1>2, InBlocks
<1>4. m < q => Hi(c, m) <= Lo(c, q)
  BY <1>0, <1>2, InBlocks
<1>5. q <= m
  BY <1>0, <1>1, <1>2, <1>3, <1>4
<1>6. q \in used /\ its[q].n \in Nat
  BY <1>2, <1>5 DEF UpTo
<1>7. z < Lo(c, q) + its[q].n
  <2>1. CASE q < m
    <3>1. its[q].n = Hi(c, q) - Lo(c, q)
      BY <1>6, <2>1 DEF UpTo
    <3> QED
      BY <1>2, <1>3, <3>1
  <2>2. CASE q = m
    BY <2>2
  <2> QED
    BY <1>0, <1>3, <1>5, <2>1, <2>2
<1> QED
  BY <1>2, <1>6, <1>7 DEF q

\* The sum of what they have delivered is the place of that byte in the call: the
\* bytes that were counted and the numbers up to the sum correspond, in their
\* order.
LEMMA TotalIs ==
    ASSUME NEW c, InObject(c), NEW its, NEW used, NEW m, UpTo(c, its, used, m)
    PROVE  Total(its, used) = Lo(c, m) - c.off + its[m].n
<1> DEFINE N == Lo(c, m) - c.off + its[m].n
           P == UNION {{b} \X (1 .. its[b].n) : b \in used}
           Q(y) == (c.off + y - 1) \div bsize
           X(y) == y - (Lo(c, Q(y)) - c.off)
           g == [y \in 1 .. N |-> <<Q(y), X(y)>>]
<1>0. /\ c.off \in Nat /\ End(c) \in Nat /\ Cut(c) \subseteq Nat /\ m \in used /\ m \in Cut(c)
      /\ \A b \in Cut(c) : /\ Lo(c, b) \in Nat /\ Hi(c, b) \in Nat
                           /\ c.off <= Lo(c, b) /\ Lo(c, b) < Hi(c, b) /\ Hi(c, b) <= End(c)
      /\ \A b, d \in Cut(c) : b < d => Hi(c, b) <= Lo(c, d)
      /\ \A b \in used : b \in Cut(c) /\ b <= m
  <2>1. c \in Calls /\ Cut(c) \subseteq Nat
    BY DEF InObject, Cut
  <2>2. c.off \in Nat /\ End(c) \in Nat
    BY <2>1, EndInside
  <2>3. m \in used /\ m \in Cut(c) /\ \A b \in used : b \in Cut(c) /\ b <= m
    BY <2>1 DEF UpTo
  <2> QED
    BY <2>1, <2>2, <2>3, InBlocks
<1>1. N \in Nat /\ its[m].n \in Nat
  BY <1>0 DEF UpTo
<1> HIDE DEF N
<1>2. ASSUME NEW y \in 1 .. N
      PROVE  Q(y) \in used /\ X(y) \in 1 .. its[Q(y)].n
  <2> DEFINE z == c.off + y - 1
             q == z \div bsize
  <2>1. z \in Nat /\ c.off <= z /\ z < Lo(c, m) + its[m].n
    BY <1>0, <1>1 DEF N
  <2> HIDE DEF z
  <2>2. q \in used /\ Lo(c, q) <= z /\ z < Lo(c, q) + its[q].n
    BY <2>1, Reached
  <2> HIDE DEF q
  <2>3. Lo(c, q) \in Nat /\ its[q].n \in Nat
    BY <1>0, <2>2 DEF UpTo
  <2>4. y - (Lo(c, q) - c.off) \in 1 .. its[q].n
    BY <1>0, <2>1, <2>2, <2>3 DEF z
  <2> QED
    BY <2>2, <2>4 DEF z, q
<1>3. ASSUME NEW b \in used, NEW x \in 1 .. its[b].n
      PROVE  \E y \in 1 .. N : Q(y) = b /\ X(y) = x
  <2> DEFINE y == Lo(c, b) - c.off + x
             z == Lo(c, b) + x - 1
  <2>1. its[b].n \in Nat /\ its[b].n <= Hi(c, b) - Lo(c, b)
    BY <1>0 DEF UpTo
  <2>2. z \in Nat /\ Lo(c, b) <= z /\ z < Hi(c, b)
    BY <1>0, <2>1
  <2>3. z \div bsize = b
    BY <1>0, <2>2, InBlocks
  <2>4. y \in 1 .. N
    <3>1. CASE b < m
      BY <1>0, <1>1, <2>2, <3>1 DEF N
    <3>2. CASE b = m
      BY <1>0, <1>1, <2>1, <3>2 DEF N
    <3> QED
      BY <1>0, <3>1, <3>2
  <2>5. c.off + y - 1 = z
    BY <1>0, <2>1
  <2>6. Q(y) = b
    BY <2>3, <2>5
  <2>7. X(y) = x
    BY <1>0, <2>1, <2>6
  <2> HIDE DEF y, Q, X
  <2> QED
    BY <2>4, <2>6, <2>7
<1> HIDE DEF Q
<1>4. ASSUME NEW y \in 1 .. N, NEW w \in 1 .. N, Q(y) = Q(w), X(y) = X(w) PROVE y = w
  BY <1>0, <1>2, <1>4
<1> HIDE DEF X
<1>5. ASSUME NEW p PROVE p \in P <=> \E b \in used : \E x \in 1 .. its[b].n : p = <<b, x>>
  OBVIOUS
<1> HIDE DEF P
<1>6. g \in Bijection(1 .. N, P)
  <2>1. g \in [1 .. N -> P]
    BY <1>2, <1>5
  <2>2. \A y, w \in 1 .. N : g[y] = g[w] => y = w
    BY <1>4
  <2>3. \A p \in P : \E y \in 1 .. N : g[y] = p
    BY <1>3, <1>5
  <2> QED
    BY <2>1, <2>2, <2>3 DEF Bijection, Injection, Surjection, IsInjective
<1>7. IsFiniteSet(1 .. N) /\ Cardinality(1 .. N) = N
  <2>1. Cardinality(1 .. N) = (IF 1 > N THEN 0 ELSE N - 1 + 1) /\ IsFiniteSet(1 .. N)
    BY <1>1, FS_Interval
  <2> QED
    BY <1>1, <2>1
<1>8. Cardinality(P) = N
  BY <1>6, <1>7, FS_Bijection DEF ExistsBijection
<1> QED
  BY <1>8 DEF Total, P, N

----------------------------------------------------------------------------
(* The join *)

\* What a work item has left in the buffer bf: the bytes of the object.
Delivered(c, b, it, bf) ==
    /\ it.n \in Nat /\ it.n <= Hi(c, b) - Lo(c, b)
    /\ it.err = "nil" => it.n = Hi(c, b) - Lo(c, b)
    /\ \A x \in Nat : Lo(c, b) <= x /\ x < Lo(c, b) + it.n => bf[x - c.off] = x

\* The answer a: a prefix of what was asked, all of it if there is no error.
Answered(c, a, bf) ==
    /\ a.n \in Nat /\ c.off + a.n <= End(c)
    /\ \A x \in Nat : c.off <= x /\ x < c.off + a.n => bf[x - c.off] = x
    /\ a.err = "nil" => c.off + a.n = End(c)

\* A set of numbers that is not empty has a least one.
LEMMA Least ==
    ASSUME NEW T \in SUBSET Nat, T # {}
    PROVE  \E m \in T : \A b \in T : m <= b
<1> DEFINE R == OpToRel(<, Nat)
<1>1. PICK m \in T : \A b \in T : ~(<<b, m>> \in R)
  BY NatLessThanWellFounded, WFMin
<1>2. \A b \in T : ~(b < m)
  BY <1>1 DEF OpToRel
<1> QED
  BY <1>2

\* The loop at the end of concatenated.ReadAt answers with what was delivered.
LEMMA JoinRight ==
    ASSUME NEW c, InObject(c), NEW its, NEW bf, DOMAIN its = Cut(c),
           \A b \in Cut(c) : Delivered(c, b, its[b], bf)
    PROVE  Answered(c, Join(c, its), bf)
<1> DEFINE bad  == {b \in DOMAIN its : Short(c, b, its[b])}
           used == {b \in DOMAIN its : \A d \in bad : b <= d}
           n    == Total(its, used)
<1>0. /\ c.off \in Nat /\ End(c) \in Nat /\ Cut(c) \subseteq Nat /\ c.off < End(c)
      /\ \A b \in Cut(c) : /\ Lo(c, b) \in Nat /\ Hi(c, b) \in Nat
                           /\ c.off <= Lo(c, b) /\ Lo(c, b) < Hi(c, b) /\ Hi(c, b) <= End(c)
      /\ \A b, d \in Cut(c) : b < d => Hi(c, b) <= Lo(c, d)
  <2>1. c \in Calls /\ Cut(c) \subseteq Nat
    BY DEF InObject, Cut
  <2>2. c.off \in Nat /\ End(c) \in Nat /\ c.off < End(c)
    BY <2>1, EndInside DEF NonEmpty
  <2> QED
    BY <2>1, <2>2, InBlocks
<1>1. \A b \in Cut(c) : its[b].n \in Nat /\ its[b].n <= Hi(c, b) - Lo(c, b)
  BY DEF Delivered
<1>2. \A b \in Cut(c) \ bad : its[b].n = Hi(c, b) - Lo(c, b)
  BY <1>0, <1>1, Cutting DEF Short
<1>3. \E m \in Cut(c) : used = {b \in Cut(c) : b <= m} /\ \A b \in Cut(c) : b < m => b \notin bad
  <2>1. CASE bad = {}
    <3> DEFINE e == End(c) - 1
               m == e \div bsize
    <3>1. e \in Nat /\ c.off <= e /\ e < End(c)
      BY <1>0
    <3> HIDE DEF e
    <3>2. m \in Cut(c) /\ e < Hi(c, m)
      BY <3>1, InBlocks
    <3> HIDE DEF m
    <3>3. ASSUME NEW b \in Cut(c) PROVE b <= m
      BY <1>0, <3>2, <3>3 DEF e
    <3> QED
      BY <2>1, <3>2, <3>3
  <2>2. CASE bad # {}
    <3>1. PICK m \in bad : \A b \in bad : m <= b
      BY <1>0, <2>2, Least
    <3>2. m \in Nat /\ m \in Cut(c) /\ \A b \in Cut(c) : b \in Nat
      BY <1>0
    <3>3. ASSUME NEW b \in Cut(c) PROVE b <= m <=> \A d \in bad : b <= d
      <4>1. ASSUME b <= m, NEW d \in bad PROVE b <= d
        <5>1. d \in Cut(c) /\ m <= d
          BY <3>1
        <5>2. b \in Nat /\ d \in Nat /\ m \in Nat
          BY <3>2, <5>1, Zenon
        <5> QED
          BY <4>1, <5>1, <5>2
      <4> HIDE DEF bad
      <4> QED
        BY <3>1, <4>1
    <3>4. \A b \in Cut(c) : b < m => b \notin bad
      BY <3>1, <3>2
    <3> QED
      BY <3>2, <3>3, <3>4
  <2> QED
    BY <2>1, <2>2
<1>4. PICK m \in Cut(c) : used = {b \in Cut(c) : b <= m} /\ \A b \in Cut(c) : b < m => b \notin bad
  BY <1>3
<1>5. UpTo(c, its, used, m)
  BY <1>1, <1>2, <1>4 DEF UpTo
<1>6. n = Lo(c, m) - c.off + its[m].n
  BY <1>5, TotalIs
<1>7. Join(c, its).n = n
  BY DEF Join
<1>8. /\ bstart(c) = bend(c) => Join(c, its).err = its[bstart(c)].err
      /\ bstart(c) # bend(c) /\ Join(c, its).err = "nil" => n = want(c)
  BY DEF Join
<1> HIDE DEF bad, used, n
<1>9. n \in Nat /\ c.off + n = Lo(c, m) + its[m].n /\ c.off + n <= End(c)
  BY <1>0, <1>1, <1>6
<1>10. ASSUME NEW x \in Nat, c.off <= x, x < c.off + n PROVE bf[x - c.off] = x
  <2> DEFINE q == x \div bsize
  <2>1. q \in used /\ Lo(c, q) <= x /\ x < Lo(c, q) + its[q].n
    BY <1>5, <1>9, <1>10, Reached
  <2> HIDE DEF q
  <2>2. Delivered(c, q, its[q], bf)
    BY <1>4, <2>1
  <2> QED
    BY <2>1, <2>2 DEF Delivered
<1>11. ASSUME Join(c, its).err = "nil" PROVE c.off + n = End(c)
  <2>1. CASE bstart(c) = bend(c)
    <3> DEFINE e == End(c)
               x == c.off
               f == x \div bsize
    <3>1. bstart(c) = f /\ bend(c) = e \div bsize
      BY EndInside DEF bstart, bend, InObject
    <3>2. e \in Nat /\ x \in Nat /\ x < e
      BY <1>0
    <3>3. f \in Cut(c) /\ Lo(c, f) <= x
      BY <1>0, InBlocks
    <3> HIDE DEF e, x
    <3>4. e < (e \div bsize) * bsize + bsize
      BY <3>2, BlockOf
    <3>5. e < f * bsize + bsize
      BY <2>1, <3>1, <3>4
    <3>6. f \in Nat /\ f * bsize \in Nat
      BY <3>2, BlockOf
    <3> HIDE DEF f
    <3>7. Hi(c, f) = End(c) /\ Lo(c, f) = c.off
      BY <1>0, <3>3, <3>5, <3>6 DEF Hi, e, x
    <3>8. m = f
      <4>1. m \in Nat /\ Lo(c, m) < End(c) /\ Hi(c, m) \in Nat /\ Lo(c, m) \in Nat /\ Lo(c, m) < Hi(c, m)
        BY <1>0
      <4>2. ~(f < m)
        BY <1>0, <3>3, <3>7, <4>1
      <4>3. ~(m < f)
        BY <1>0, <3>3, <3>7, <4>1
      <4> QED
        BY <3>6, <4>1, <4>2, <4>3
    <3>9. its[f].n = Hi(c, f) - Lo(c, f)
      BY <1>8, <1>11, <2>1, <3>1, <3>3 DEF Delivered
    <3> QED
      BY <1>0, <1>9, <3>7, <3>8, <3>9
  <2>2. CASE bstart(c) # bend(c)
    BY <1>0, <1>8, <1>9, <1>11, <2>2, Cutting
  <2> QED
    BY <2>1, <2>2
<1> QED
  BY <1>7, <1>9, <1>10, <1>11 DEF Answered

----------------------------------------------------------------------------
(* The inductive invariant of the readers *)

\* A reader at p with its call, work items, buffer and answer.
ReaderRight(p, c, its, bf, a) ==
    /\ p \in {"idle", "read", "update", "loop", "done"}
    /\ p = "idle" => c.len = 0 /\ a = NoReturn
    /\ p = "read" => /\ InObject(c) /\ a = NoReturn
                     /\ DOMAIN its = Cut(c) /\ DOMAIN bf = 0 .. c.len - 1
                     /\ \A b \in Cut(c) : its[b] = Todo \/ Delivered(c, b, its[b], bf)
    /\ p \in {"update", "loop"} => InObject(c) /\ Answered(c, a, bf)
    /\ p = "done" => c \in Calls /\ Answered(c, a, bf)

ReadInv ==
    /\ DOMAIN pc = Readers /\ DOMAIN call = Readers /\ DOMAIN items = Readers
    /\ DOMAIN buf = Readers /\ DOMAIN ret = Readers
    /\ \A r \in Readers : ReaderRight(pc[r], call[r], items[r], buf[r], ret[r])

\* No reader is in a call.
LEMMA ReadInit == Init => ReadInv
<1> SUFFICES ASSUME Init PROVE ReadInv
  OBVIOUS
<1>1. NoCall.len = 0
  BY DEF NoCall
<1>2. ASSUME NEW r \in Readers PROVE ReaderRight(pc[r], call[r], items[r], buf[r], ret[r])
  <2>1. pc[r] = "idle" /\ call[r] = NoCall /\ ret[r] = NoReturn
    BY DEF Init
  <2> QED
    BY <1>1, <2>1 DEF ReaderRight
<1>3. /\ DOMAIN pc = Readers /\ DOMAIN call = Readers /\ DOMAIN items = Readers
      /\ DOMAIN buf = Readers /\ DOMAIN ret = Readers
  BY DEF Init
<1> QED
  BY <1>2, <1>3 DEF ReadInv

\* The locals of the readers but r are left alone.
Others(r) ==
    /\ DOMAIN pc' = Readers /\ DOMAIN call' = Readers /\ DOMAIN items' = Readers
    /\ DOMAIN buf' = Readers /\ DOMAIN ret' = Readers
    /\ \A s \in Readers : s # r => /\ pc'[s] = pc[s] /\ call'[s] = call[s] /\ items'[s] = items[s]
                                   /\ buf'[s] = buf[s] /\ ret'[s] = ret[s]

\* So a step of reader r need only keep its own part of the invariant.
LEMMA OneReader ==
    ASSUME NEW r \in Readers, ReadInv, Others(r),
           ReaderRight(pc'[r], call'[r], items'[r], buf'[r], ret'[r])
    PROVE  ReadInv'
<1>1. ASSUME NEW s \in Readers PROVE ReaderRight(pc'[s], call'[s], items'[s], buf'[s], ret'[s])
  <2>1. CASE s = r
    BY <2>1
  <2>2. CASE s # r
    <3>1. /\ pc'[s] = pc[s] /\ call'[s] = call[s] /\ items'[s] = items[s]
          /\ buf'[s] = buf[s] /\ ret'[s] = ret[s]
      BY <2>2 DEF Others
    <3> QED
      BY <3>1 DEF ReadInv
  <2> QED
    BY <2>1, <2>2
<1> QED
  BY <1>1 DEF ReadInv, Others

\* The call begins, and ends at once if there is nothing to read.
LEMMA ReadAtKeeps ==
    ASSUME ReadInv, NEW r \in Readers, NEW c \in Calls, ReadAt(r, c)
    PROVE  ReadInv'
<1>0. ReaderRight(pc[r], call[r], items[r], buf[r], ret[r]) /\ ret[r] = NoReturn
  BY DEF ReadInv, ReaderRight, ReadAt
<1>1. call'[r] = c /\ DOMAIN buf'[r] = 0 .. c.len - 1
  BY DEF ReadInv, ReadAt
<1>2. /\ c.off \in Nat /\ c.len \in Nat /\ End(c) \in Nat /\ c.off <= End(c) /\ End(c) <= c.off + c.len
      /\ InObject(c) <=> c.len > 0 /\ NonEmpty(Overlap(c))
      /\ Overlap(c).start = c.off /\ Overlap(c).end = End(c)
  BY EndInside
<1>3. CASE c.len > 0 /\ NonEmpty(Overlap(c))
  <2>1. /\ pc' = [pc EXCEPT ![r] = "read"]
        /\ items' = [items EXCEPT ![r] = [b \in Visited(c) |-> Todo]]
        /\ ret' = ret
    BY <1>3 DEF ReadAt
  <2>2. InObject(c) /\ Visited(c) = Cut(c)
    BY <1>2, <1>3, Cutting
  <2>3. Others(r)
    BY <2>1 DEF Others, ReadInv, ReadAt
  <2>4. pc'[r] = "read" /\ ret'[r] = NoReturn /\ items'[r] = [b \in Cut(c) |-> Todo]
    BY <1>0, <2>1, <2>2 DEF ReadInv
  <2>5. ReaderRight(pc'[r], call'[r], items'[r], buf'[r], ret'[r])
    BY <1>1, <2>2, <2>4 DEF ReaderRight
  <2> QED
    BY <2>3, <2>5, OneReader
<1>4. CASE ~(c.len > 0 /\ NonEmpty(Overlap(c)))
  <2> DEFINE e == IF c.len = 0 THEN "nil" ELSE "EOF"
  <2>1. /\ pc' = [pc EXCEPT ![r] = "done"] /\ items' = items
        /\ ret' = [ret EXCEPT ![r].err = e]
    BY <1>4 DEF ReadAt
  <2>2. Others(r)
    BY <2>1 DEF Others, ReadInv, ReadAt
  <2>3. pc'[r] = "done" /\ ret'[r] = [NoReturn EXCEPT !.err = e]
    BY <1>0, <2>1 DEF ReadInv
  <2>4. ret'[r].n = 0
    BY <2>3 DEF NoReturn
  <2>5. c.off = End(c)
    BY <1>2, <1>4 DEF NonEmpty
  <2>6. Answered(c, ret'[r], buf'[r])
    BY <1>2, <2>4, <2>5 DEF Answered
  <2>7. ReaderRight(pc'[r], call'[r], items'[r], buf'[r], ret'[r])
    BY <1>1, <2>3, <2>6 DEF ReaderRight
  <2> QED
    BY <2>2, <2>7, OneReader
<1> QED
  BY <1>3, <1>4

\* A slice delivers: its bytes are the object's, in their place, and nobody
\* else's are overwritten with other ones.
LEMMA WorkItemKeeps ==
    ASSUME ReadInv, NEW r \in Readers, NEW b, NEW n, NEW e, WorkItem(r, b, n, e)
    PROVE  ReadInv'
<1> DEFINE c == call[r]
           its == items[r]
           bf == buf[r]
           it == [n |-> n, err |-> e]
           put == [i \in DOMAIN bf |-> IF i \in Dst(c, b) .. Dst(c, b) + n - 1
                                       THEN b * bsize + Src(c, b) + (i - Dst(c, b)) ELSE bf[i]]
<1>0. ReaderRight(pc[r], c, its, bf, ret[r]) /\ pc[r] = "read"
  BY DEF ReadInv, WorkItem
<1>1. /\ InObject(c) /\ DOMAIN its = Cut(c) /\ DOMAIN bf = 0 .. c.len - 1
      /\ \A d \in Cut(c) : its[d] = Todo \/ Delivered(c, d, its[d], bf)
  BY <1>0 DEF ReaderRight
<1>2. /\ b \in Cut(c) /\ n \in 0 .. Cnt(c, b)
      /\ IF n = Cnt(c, b) THEN e \in {"nil", "EOF"} ELSE e \in {"EOF", "fail"}
      /\ items' = [items EXCEPT ![r][b] = it] /\ buf' = [buf EXCEPT ![r] = put]
      /\ UNCHANGED <<pc, call, ret>>
  BY <1>1 DEF WorkItem
<1>3. /\ Dst(c, b) = Lo(c, b) - c.off /\ Cnt(c, b) = Hi(c, b) - Lo(c, b)
      /\ b * bsize + Src(c, b) = Lo(c, b)
  BY <1>1, <1>2, Cutting
<1>4. /\ c.off \in Nat /\ c.len \in Nat /\ End(c) \in Nat /\ End(c) <= c.off + c.len
      /\ \A d \in Cut(c) : /\ Lo(c, d) \in Nat /\ Hi(c, d) \in Nat
                           /\ c.off <= Lo(c, d) /\ Hi(c, d) <= End(c)
  <2>1. c \in Calls
    BY <1>1 DEF InObject
  <2>2. c.off \in Nat /\ c.len \in Nat /\ End(c) \in Nat /\ End(c) <= c.off + c.len
    BY <2>1, EndInside
  <2> QED
    BY <1>1, <2>2, InBlocks
<1>5. n \in Nat /\ n <= Hi(c, b) - Lo(c, b) /\ (e = "nil" => n = Hi(c, b) - Lo(c, b))
  BY <1>2, <1>3, <1>4
<1>6. items'[r] = [its EXCEPT ![b] = it] /\ buf'[r] = put
  BY <1>2 DEF ReadInv
<1>7. Others(r)
  BY <1>2 DEF Others, ReadInv
<1>8. ASSUME NEW x \in Nat, c.off <= x, x < End(c)
      PROVE  /\ x - c.off \in DOMAIN bf
             /\ Lo(c, b) <= x /\ x < Lo(c, b) + n => put[x - c.off] = x
             /\ bf[x - c.off] = x => put[x - c.off] = x
  <2> DEFINE i == x - c.off
             D == Dst(c, b)
             L == b * bsize + Src(c, b)
  <2>1. i \in DOMAIN bf /\ i \in Int
    BY <1>1, <1>4, <1>8
  <2>2. D = Lo(c, b) - c.off /\ L = Lo(c, b) /\ Lo(c, b) \in Nat
    BY <1>2, <1>3, <1>4
  <2>3. put[i] = IF i \in D .. D + n - 1 THEN L + (i - D) ELSE bf[i]
    BY <2>1
  <2> HIDE DEF put, D, L
  <2>4. L + (i - D) = x
    BY <1>4, <1>8, <2>2
  <2>5. Lo(c, b) <= x /\ x < Lo(c, b) + n => i \in D .. D + n - 1
    BY <1>4, <1>5, <1>8, <2>2
  <2> HIDE DEF i
  <2>6. Lo(c, b) <= x /\ x < Lo(c, b) + n => put[i] = x
    BY <2>3, <2>4, <2>5
  <2>7. bf[i] = x => put[i] = x
    BY <2>3, <2>4
  <2> QED
    BY <2>1, <2>6, <2>7 DEF i
<1>9. DOMAIN put = DOMAIN bf
  OBVIOUS
<1> HIDE DEF put
<1>10. ASSUME NEW d \in Cut(c), Delivered(c, d, its[d], bf) PROVE Delivered(c, d, its[d], put)
  <2>1. ASSUME NEW x \in Nat, Lo(c, d) <= x, x < Lo(c, d) + its[d].n PROVE put[x - c.off] = x
    <3>1. bf[x - c.off] = x /\ its[d].n \in Nat /\ its[d].n <= Hi(c, d) - Lo(c, d)
      BY <1>10, <2>1 DEF Delivered
    <3>2. c.off <= x /\ x < End(c)
      BY <1>4, <2>1, <3>1
    <3> QED
      BY <1>8, <3>1, <3>2
  <2> QED
    BY <1>10, <2>1 DEF Delivered
<1>11. Delivered(c, b, it, put)
  <2>1. ASSUME NEW x \in Nat, Lo(c, b) <= x, x < Lo(c, b) + n PROVE put[x - c.off] = x
    <3>1. c.off <= x /\ x < End(c)
      BY <1>2, <1>4, <1>5, <2>1
    <3> QED
      BY <1>8, <2>1, <3>1
  <2> QED
    BY <1>5, <2>1 DEF Delivered
<1> HIDE DEF it
<1>12. ASSUME NEW d \in Cut(c)
       PROVE  items'[r][d] = Todo \/ Delivered(c, d, items'[r][d], put)
  <2>1. CASE d = b
    <3>1. items'[r][d] = it
      BY <1>1, <1>2, <1>6, <2>1
    <3> QED
      BY <1>11, <2>1, <3>1
  <2>2. CASE d # b
    <3>1. items'[r][d] = its[d]
      BY <1>1, <1>2, <1>6, <2>2
    <3> QED
      BY <1>1, <1>10, <3>1
  <2> QED
    BY <2>1, <2>2
<1>13. DOMAIN items'[r] = Cut(c)
  BY <1>1, <1>6
<1>14. ReaderRight(pc'[r], call'[r], items'[r], buf'[r], ret'[r])
  BY <1>0, <1>1, <1>2, <1>6, <1>9, <1>12, <1>13 DEF ReaderRight
<1> QED
  BY <1>7, <1>14, OneReader

\* The work items are done and joined.
LEMMA GatherKeeps ==
    ASSUME ReadInv, NEW r \in Readers, Gather(r)
    PROVE  ReadInv'
<1> DEFINE c == call[r]
<1>0. ReaderRight(pc[r], c, items[r], buf[r], ret[r]) /\ pc[r] = "read"
  BY DEF ReadInv, Gather
<1>1. /\ InObject(c) /\ DOMAIN items[r] = Cut(c)
      /\ \A b \in Cut(c) : items[r][b] = Todo \/ Delivered(c, b, items[r][b], buf[r])
  BY <1>0 DEF ReaderRight
<1>2. \A b \in Cut(c) : Delivered(c, b, items[r][b], buf[r])
  BY <1>1 DEF Gather
<1>3. Answered(c, Join(c, items[r]), buf[r])
  BY <1>1, <1>2, JoinRight
<1>4. /\ pc'[r] = "update" /\ ret'[r] = Join(c, items[r]) /\ call'[r] = c /\ buf'[r] = buf[r]
      /\ Others(r)
  BY DEF ReadInv, Gather, Others
<1>5. ReaderRight(pc'[r], call'[r], items'[r], buf'[r], ret'[r])
  BY <1>1, <1>3, <1>4 DEF ReaderRight
<1> QED
  BY <1>4, <1>5, OneReader

\* Every step of the readers and of the read-ahead keeps the invariant.
LEMMA ReadStep == ReadInv /\ [Next]_vars => ReadInv'
<1> SUFFICES ASSUME ReadInv, [Next]_vars PROVE ReadInv'
  OBVIOUS
<1>0. CASE UNCHANGED <<pc, call, items, buf, ret>>
  BY <1>0 DEF ReadInv
<1>1. ASSUME NEW r \in Readers, SomeReadAt(r) PROVE ReadInv'
  <2>1. PICK o \in Objects : \E off \in 0 .. ObjSize[o] : \E len \in 0 .. MaxLen :
            ReadAt(r, [obj |-> o, off |-> off, len |-> len])
    BY <1>1 DEF SomeReadAt
  <2>2. PICK off \in 0 .. ObjSize[o], len \in 0 .. MaxLen :
            ReadAt(r, [obj |-> o, off |-> off, len |-> len])
    BY <2>1
  <2>3. [obj |-> o, off |-> off, len |-> len] \in Calls
    BY DEF Calls
  <2> QED
    BY <2>2, <2>3, ReadAtKeeps
<1>2. ASSUME NEW r \in Readers, UpdateCall(r) PROVE ReadInv'
  <2>1. ReaderRight(pc[r], call[r], items[r], buf[r], ret[r]) /\ pc[r] = "update"
    BY <1>2 DEF ReadInv, UpdateCall
  <2>2. /\ pc'[r] = "loop" /\ UNCHANGED <<call, items, buf, ret>> /\ Others(r)
    BY <1>2 DEF ReadInv, UpdateCall, Others
  <2>3. ReaderRight(pc'[r], call'[r], items'[r], buf'[r], ret'[r])
    BY <2>1, <2>2 DEF ReaderRight
  <2> QED
    BY <2>2, <2>3, OneReader
<1>3. ASSUME NEW r \in Readers, Return(r) PROVE ReadInv'
  <2>1. ReaderRight(pc[r], call[r], items[r], buf[r], ret[r]) /\ pc[r] = "loop"
    BY <1>3 DEF ReadInv, Return
  <2>2. /\ pc'[r] = "done" /\ UNCHANGED <<call, items, buf, ret>> /\ Others(r)
    BY <1>3 DEF ReadInv, Return, Others
  <2>3. ReaderRight(pc'[r], call'[r], items'[r], buf'[r], ret'[r])
    BY <2>1, <2>2 DEF ReaderRight, InObject
  <2> QED
    BY <2>2, <2>3, OneReader
<1>4. ASSUME NEW r \in Readers, Leave(r) PROVE ReadInv'
  <2>1. pc'[r] = "idle" /\ call'[r] = NoCall /\ ret'[r] = NoReturn /\ Others(r)
    BY <1>4 DEF ReadInv, Leave, Others
  <2>2. NoCall.len = 0
    BY DEF NoCall
  <2>3. ReaderRight(pc'[r], call'[r], items'[r], buf'[r], ret'[r])
    BY <2>1, <2>2 DEF ReaderRight
  <2> QED
    BY <2>1, <2>3, OneReader
<1> QED
  BY <1>0, <1>1, <1>2, <1>3, <1>4, WorkItemKeeps, GatherKeeps
  DEF Next, vars, Step, SomeWorkItem, UpdateLoop, ReadBlockDone

\* What the invariant says of the answers.
LEMMA ReadInvJoined == ReadInv => ReadJoined
<1> SUFFICES ASSUME ReadInv, NEW r \in Readers, pc[r] # "read"
             PROVE  /\ \A i \in 0 .. ret[r].n - 1 : buf[r][i] = call[r].off + i
                    /\ ret[r].err = "nil" /\ call[r].len > 0 =>
                         ret[r].n = Min({call[r].len, ObjSize[call[r].obj] - call[r].off})
  BY DEF ReadJoined
<1> DEFINE c == call[r]
<1>0. ReaderRight(pc[r], c, items[r], buf[r], ret[r])
  BY DEF ReadInv
<1>1. CASE pc[r] = "idle"
  <2>1. c.len = 0 /\ ret[r].n = 0
    BY <1>0, <1>1 DEF ReaderRight, NoReturn
  <2> QED
    BY <2>1
<1>2. CASE pc[r] # "idle"
  <2>1. c \in Calls /\ Answered(c, ret[r], buf[r])
    BY <1>0, <1>2 DEF ReaderRight, InObject
  <2>2. c.off \in Nat /\ End(c) \in Nat /\ Min({c.len, ObjSize[c.obj] - c.off}) = End(c) - c.off
    BY <2>1, EndInside
  <2>3. ret[r].n \in Nat /\ (ret[r].err = "nil" => c.off + ret[r].n = End(c))
    BY <2>1 DEF Answered
  <2>4. ASSUME NEW i \in 0 .. ret[r].n - 1 PROVE buf[r][i] = c.off + i
    <3> DEFINE x == c.off + i
    <3>1. x \in Nat /\ c.off <= x /\ x < c.off + ret[r].n /\ x - c.off = i
      BY <2>2, <2>3
    <3> HIDE DEF x
    <3>2. buf[r][x - c.off] = x
      BY <2>1, <3>1 DEF Answered
    <3> QED
      BY <3>1, <3>2 DEF x
  <2> QED
    BY <2>2, <2>3, <2>4
<1> QED
  BY <1>1, <1>2

----------------------------------------------------------------------------
(* The controller is used as it expects *)

\* Each step of a reader is one of the controllers, or none.
LEMMA RefineStep == ReadInv /\ [Next]_vars => [RA!Next]_raVars
<1> SUFFICES ASSUME ReadInv, [Next]_vars PROVE RA!Next \/ UNCHANGED raVars
  OBVIOUS
<1>1. ASSUME NEW r \in Readers, UpdateCall(r) PROVE RA!Next
  <2> DEFINE c == call[r]
             n == ret[r].n
             S == ObjSize[c.obj]
  <2>1. InObject(c) /\ Answered(c, ret[r], buf[r])
    BY <1>1 DEF ReadInv, ReaderRight, UpdateCall
  <2>2. c \in Calls /\ c.off < S
    BY <2>1 DEF InObject
  <2>3. c.obj \in Objects /\ c.off \in Nat /\ S \in Nat /\ End(c) \in Nat /\ End(c) <= S
    BY <2>2, EndInside
  <2>4. n \in Nat /\ c.off + n <= End(c)
    BY <2>1 DEF Answered
  <2>5. c.off \in 0 .. S - 1 /\ n \in 0 .. S - c.off
    BY <2>2, <2>3, <2>4
  <2>6. RA!Update(c.obj, c.off, n)
    BY <1>1 DEF UpdateCall
  <2>7. RA!SomeUpdate(c.obj)
    BY <2>5, <2>6 DEF RA!SomeUpdate
  <2> QED
    BY <2>3, <2>7 DEF RA!Next
<1>2. ASSUME NEW r \in Readers, UpdateLoop(r) \/ Return(r) PROVE RA!Next
  <2>1. call[r] \in Calls
    BY <1>2 DEF ReadInv, ReaderRight, UpdateLoop, Return, InObject
  <2>2. call[r].obj \in Objects
    BY <2>1, EndInside
  <2> QED
    BY <1>2, <2>2 DEF UpdateLoop, Return, RA!Next
<1>3. ASSUME NEW o \in Objects, NEW b \in RA!Blocks(o), ReadBlockDone(o, b) PROVE RA!Next
  BY <1>3 DEF ReadBlockDone, RA!Next
<1>4. ASSUME NEW r \in Readers, SomeReadAt(r) PROVE UNCHANGED raVars
  BY <1>4 DEF SomeReadAt, ReadAt
<1>5. ASSUME NEW r \in Readers, SomeWorkItem(r) PROVE UNCHANGED raVars
  BY <1>5 DEF SomeWorkItem, WorkItem
<1>6. ASSUME NEW r \in Readers, Gather(r) \/ Leave(r) PROVE UNCHANGED raVars
  BY <1>6 DEF Gather, Leave
<1>7. ASSUME UNCHANGED vars PROVE UNCHANGED raVars
  BY <1>7 DEF vars
<1> QED
  BY <1>1, <1>2, <1>3, <1>4, <1>5, <1>6, <1>7 DEF Next, Step

\* A call that reports n bytes has read the n bytes of the object from its offset
\* on, without a gap, and one without an error has read all that was asked and
\* is there, in whichever order the blocks came and whichever failed (the join
\* of concatenated.ReadAt).
THEOREM ReadsJoined == Spec => []ReadJoined
<1>1. Spec => []ReadInv
  BY ReadInit, ReadStep, PTL DEF Spec
<1> QED
  BY <1>1, ReadInvJoined, PTL

\* The controllers of a cache that is read through withCaching.ReadAt behave as
\* ReadAhead says: they are told only of reads inside their object.
THEOREM ReadAheadRefinement == Spec => ImplementsReadAhead
<1>1. Init => RA!Init
  BY DEF Init
<1>2. Spec => []ReadInv
  BY ReadInit, ReadStep, PTL DEF Spec
<1>3. raVars = RA!vars
  BY DEF raVars, RA!vars
<1>4. ReadInv /\ [Next]_vars => [RA!Next]_(RA!vars)
  BY <1>3, RefineStep DEF raVars, RA!vars
<1> QED
  BY <1>1, <1>2, <1>4, PTL DEF Spec, RA!Spec, ImplementsReadAhead

\* What ReadAheadProofs shows of the controllers.
RAP == INSTANCE ReadAheadProofs

\* ReadAhead is the same there.
LEMMA InstanceInit == RA!Init => RAP!Init
  BY DEF RA!Init, RAP!Init, RA!Blocks, RAP!Blocks, RA!numBlocks, RAP!numBlocks, RA!Ceil, RAP!Ceil

\* And so are its steps.
LEMMA InstanceStep == [RA!Next]_(RA!vars) => [RAP!Next]_(RAP!vars)
<1>1. RA!Next => RAP!Next
  BY DEF RA!Next, RAP!Next, RA!SomeUpdate, RAP!SomeUpdate, RA!Update, RAP!Update,
         RA!Reset, RAP!Reset, RA!Sequential, RAP!Sequential, RA!StartReadBlock, RAP!StartReadBlock,
         RA!UpdateDone, RAP!UpdateDone, RA!Worth, RAP!Worth, RA!ReadBlockDone, RAP!ReadBlockDone,
         RA!Blocks, RAP!Blocks, RA!runVars, RAP!runVars, RA!callVars, RAP!callVars,
         RA!numBlocks, RAP!numBlocks, RA!Ceil, RAP!Ceil
<1> QED
  BY <1>1 DEF RA!vars, RAP!vars

\* Under concurrent readers a block is read ahead only if it lies after the block
\* just read and after all that the run has read ahead, in the window and inside
\* the object (Update).
THEOREM ReadersAhead == Spec => AheadOfReader
<1>1. RA!Spec => RAP!Spec
  BY InstanceInit, InstanceStep, PTL DEF RA!Spec, RAP!Spec
<1>2. RAP!Spec => RAP!AheadOfReader
  BY RAP!ReadAheadInObject
<1>3. RAP!AheadOfReader => RA!AheadOfReader
  BY PTL DEF RA!AheadOfReader, RAP!AheadOfReader, RA!vars, RAP!vars
<1>4. Spec => RA!Spec
  BY ReadAheadRefinement DEF ImplementsReadAhead
<1> QED
  BY <1>1, <1>2, <1>3, <1>4 DEF AheadOfReader

----------------------------------------------------------------------------
(* The tokens *)

HeldBy(rn) == UNION {UNION {{<<o, b>>} \X (1 .. rn[o][b]) : b \in RA!Blocks(o)} : o \in Objects}

TokenInv ==
    /\ DOMAIN running = Objects
    /\ \A o \in Objects : running[o] \in [RA!Blocks(o) -> Nat]
    /\ tokens \in Nat
    /\ IsFiniteSet(HeldBy(running))
    /\ tokens + Cardinality(HeldBy(running)) = Tokens

\* The x-th goroutine in readBlock(b) of object o.
LEMMA HeldMember ==
    ASSUME NEW rn, NEW t
    PROVE  t \in HeldBy(rn) <=>
              \E o \in Objects : \E b \in RA!Blocks(o) : \E x \in 1 .. rn[o][b] : t = <<<<o, b>>, x>>
  BY DEF HeldBy

\* Between rn and rm, one more goroutine is in readBlock(b) of object o.
LEMMA OneMore ==
    ASSUME NEW rn, NEW rm, NEW o \in Objects, NEW b \in RA!Blocks(o),
           \A p \in Objects : rn[p] \in [RA!Blocks(p) -> Nat] /\ rm[p] \in [RA!Blocks(p) -> Nat],
           rm[o][b] = rn[o][b] + 1,
           \A p \in Objects : \A d \in RA!Blocks(p) : ~(p = o /\ d = b) => rm[p][d] = rn[p][d],
           IsFiniteSet(HeldBy(rn)) \/ IsFiniteSet(HeldBy(rm))
    PROVE  /\ IsFiniteSet(HeldBy(rn)) /\ IsFiniteSet(HeldBy(rm))
           /\ Cardinality(HeldBy(rm)) = Cardinality(HeldBy(rn)) + 1
<1> DEFINE k == rn[o][b]
           t == <<<<o, b>>, k + 1>>
<1>1. k \in Nat /\ rm[o][b] = k + 1
  OBVIOUS
<1>2. t \notin HeldBy(rn)
  <2> SUFFICES ASSUME t \in HeldBy(rn) PROVE FALSE
    OBVIOUS
  <2>1. \E p \in Objects : \E d \in RA!Blocks(p) : \E x \in 1 .. rn[p][d] : t = <<<<p, d>>, x>>
    BY HeldMember
  <2>2. k + 1 \in 1 .. rn[o][b]
    BY <2>1
  <2> QED
    BY <1>1, <2>2 DEF k
<1>3. HeldBy(rm) = HeldBy(rn) \cup {t}
  <2>1. ASSUME NEW s \in HeldBy(rm) PROVE s \in HeldBy(rn) \cup {t}
    <3>1. PICK p \in Objects : \E d \in RA!Blocks(p) : \E x \in 1 .. rm[p][d] : s = <<<<p, d>>, x>>
      BY <2>1, HeldMember
    <3>2. PICK d \in RA!Blocks(p) : \E x \in 1 .. rm[p][d] : s = <<<<p, d>>, x>>
      BY <3>1
    <3>3. PICK x \in 1 .. rm[p][d] : s = <<<<p, d>>, x>>
      BY <3>2
    <3>4. CASE p = o /\ d = b
      <4>1. x = k + 1 \/ x \in 1 .. k
        BY <1>1, <3>3, <3>4
      <4> QED
        BY <3>3, <3>4, <4>1, HeldMember DEF k
    <3>5. CASE ~(p = o /\ d = b)
      <4>1. rm[p][d] = rn[p][d]
        BY <3>5
      <4> QED
        BY <3>3, <4>1, HeldMember
    <3> QED
      BY <3>4, <3>5
  <2>2. ASSUME NEW s \in HeldBy(rn) PROVE s \in HeldBy(rm)
    <3>1. PICK p \in Objects : \E d \in RA!Blocks(p) : \E x \in 1 .. rn[p][d] : s = <<<<p, d>>, x>>
      BY <2>2, HeldMember
    <3>2. PICK d \in RA!Blocks(p) : \E x \in 1 .. rn[p][d] : s = <<<<p, d>>, x>>
      BY <3>1
    <3>3. PICK x \in 1 .. rn[p][d] : s = <<<<p, d>>, x>>
      BY <3>2
    <3>4. rn[p][d] \in Nat /\ (rm[p][d] = rn[p][d] \/ rm[p][d] = rn[p][d] + 1)
      OBVIOUS
    <3>5. x \in 1 .. rm[p][d]
      BY <3>4
    <3> QED
      BY <3>3, <3>5, HeldMember
  <2>3. t \in HeldBy(rm)
    <3>1. k + 1 \in 1 .. rm[o][b]
      BY <1>1
    <3> QED
      BY <3>1, HeldMember
  <2> QED
    BY <2>1, <2>2, <2>3
<1> HIDE DEF k, t
<1>4. IsFiniteSet(HeldBy(rn))
  BY <1>3, FS_Subset
<1>5. IsFiniteSet(HeldBy(rn) \cup {t}) /\ Cardinality(HeldBy(rn) \cup {t}) = Cardinality(HeldBy(rn)) + 1
  BY <1>2, <1>4, FS_AddElement
<1> QED
  BY <1>3, <1>4, <1>5

\* The steps of the controllers and of readBlock keep the balance.
LEMMA TokenStep == TokenInv /\ RAP!RunInv /\ [RA!Next]_(RA!vars) => TokenInv'
<1> SUFFICES ASSUME TokenInv, RAP!RunInv, [RA!Next]_(RA!vars) PROVE TokenInv'
  OBVIOUS
<1>0. CASE UNCHANGED <<running, tokens>>
  BY <1>0 DEF TokenInv, HeldBy
<1>1. ASSUME NEW o \in Objects, RA!StartReadBlock(o) PROVE TokenInv'
  <2> DEFINE b == nextBlock[o]
  <2>1. b \in RA!Blocks(o)
    <3>1. b \in Nat
      BY DEF RAP!RunInv, RAP!RunType
    <3>2. RA!numBlocks(o) \in Nat
      <4> DEFINE m == ObjSize[o] + bsize - 1
      <4>1. m \in Nat
        OBVIOUS
      <4> HIDE DEF m
      <4>2. m \div bsize \in Nat
        BY <4>1, BlockOf
      <4> QED
        BY <4>2, Zenon DEF RA!numBlocks, RA!Ceil, m
    <3>3. b < RA!numBlocks(o)
      BY <1>1 DEF RA!StartReadBlock, RA!Worth
    <3> QED
      BY <3>1, <3>2, <3>3 DEF RA!Blocks
  <2>2. /\ running' = [running EXCEPT ![o][b] = @ + 1] /\ tokens' = tokens - 1 /\ tokens > 0
    BY <1>1 DEF RA!StartReadBlock
  <2> HIDE DEF b
  <2>3. /\ DOMAIN running' = Objects /\ running'[o] = [running[o] EXCEPT ![b] = @ + 1]
        /\ \A p \in Objects : p # o => running'[p] = running[p]
    BY <2>2 DEF TokenInv
  <2>4. \A p \in Objects : running[p] \in [RA!Blocks(p) -> Nat] /\ running'[p] \in [RA!Blocks(p) -> Nat]
    BY <2>1, <2>3 DEF TokenInv
  <2>5. /\ running'[o][b] = running[o][b] + 1
        /\ \A p \in Objects : \A d \in RA!Blocks(p) : ~(p = o /\ d = b) => running'[p][d] = running[p][d]
    BY <2>1, <2>3, <2>4
  <2>6. /\ IsFiniteSet(HeldBy(running'))
        /\ Cardinality(HeldBy(running')) = Cardinality(HeldBy(running)) + 1
    BY <2>1, <2>4, <2>5, OneMore DEF TokenInv
  <2>7. tokens \in Nat /\ Cardinality(HeldBy(running)) \in Nat /\ tokens + Cardinality(HeldBy(running)) = Tokens
    BY FS_CardinalityType DEF TokenInv
  <2>8. tokens' \in Nat /\ tokens' + Cardinality(HeldBy(running')) = Tokens
    BY <2>2, <2>6, <2>7
  <2> QED
    BY <2>3, <2>4, <2>6, <2>8 DEF TokenInv
<1>2. ASSUME NEW o \in Objects, NEW b \in RA!Blocks(o), RA!ReadBlockDone(o, b) PROVE TokenInv'
  <2>1. /\ running' = [running EXCEPT ![o][b] = @ - 1] /\ tokens' = tokens + 1 /\ running[o][b] > 0
    BY <1>2 DEF RA!ReadBlockDone
  <2>2. /\ DOMAIN running' = Objects /\ running'[o] = [running[o] EXCEPT ![b] = @ - 1]
        /\ \A p \in Objects : p # o => running'[p] = running[p]
    BY <2>1 DEF TokenInv
  <2>3. running[o] \in [RA!Blocks(o) -> Nat] /\ running[o][b] \in Nat /\ running[o][b] - 1 \in Nat
    BY <2>1 DEF TokenInv
  <2>4. \A p \in Objects : running[p] \in [RA!Blocks(p) -> Nat] /\ running'[p] \in [RA!Blocks(p) -> Nat]
    <3> DEFINE k == running[o][b] - 1
    <3>1. running'[o] = [running[o] EXCEPT ![b] = k]
      BY <2>2
    <3>2. k \in Nat
      BY <2>3
    <3> HIDE DEF k
    <3>3. running'[o] \in [RA!Blocks(o) -> Nat]
      BY <2>3, <3>1, <3>2
    <3>4. \A p \in Objects : running[p] \in [RA!Blocks(p) -> Nat]
      BY DEF TokenInv
    <3>5. ASSUME NEW p \in Objects PROVE running'[p] \in [RA!Blocks(p) -> Nat]
      <4>1. CASE p = o
        BY <4>1, <3>3
      <4>2. CASE p # o
        BY <4>2, <2>2, <3>4
      <4> QED
        BY <4>1, <4>2
    <3> QED
      BY <3>4, <3>5
  <2>5. /\ running[o][b] = running'[o][b] + 1
        /\ \A p \in Objects : \A d \in RA!Blocks(p) : ~(p = o /\ d = b) => running[p][d] = running'[p][d]
    BY <2>2, <2>3, <2>4
  <2>6. /\ IsFiniteSet(HeldBy(running')) /\ IsFiniteSet(HeldBy(running))
        /\ Cardinality(HeldBy(running)) = Cardinality(HeldBy(running')) + 1
    BY <2>4, <2>5, OneMore DEF TokenInv
  <2>7. /\ tokens \in Nat /\ tokens + Cardinality(HeldBy(running)) = Tokens
        /\ Cardinality(HeldBy(running)) \in Nat /\ Cardinality(HeldBy(running')) \in Nat
    BY <2>6, FS_CardinalityType DEF TokenInv
  <2>8. tokens' \in Nat /\ tokens' + Cardinality(HeldBy(running')) = Tokens
    BY <2>1, <2>6, <2>7
  <2> QED
    BY <2>2, <2>4, <2>6, <2>8 DEF TokenInv
<1>3. ASSUME NEW o \in Objects, RA!SomeUpdate(o) \/ RA!UpdateDone(o) PROVE UNCHANGED <<running, tokens>>
  BY <1>3 DEF RA!SomeUpdate, RA!Update, RA!UpdateDone
<1>4. ASSUME UNCHANGED RA!vars PROVE UNCHANGED <<running, tokens>>
  BY <1>4 DEF RA!vars
<1> QED
  BY <1>0, <1>1, <1>2, <1>3, <1>4 DEF RA!Next

\* All the tokens are free.
LEMMA TokenInit == RA!Init => TokenInv
<1> SUFFICES ASSUME RA!Init PROVE TokenInv
  OBVIOUS
<1>1. /\ DOMAIN running = Objects /\ tokens = Tokens
      /\ \A o \in Objects : running[o] = [b \in RA!Blocks(o) |-> 0]
  BY DEF RA!Init
<1>2. HeldBy(running) = {}
  <2> SUFFICES ASSUME NEW t \in HeldBy(running) PROVE FALSE
    OBVIOUS
  <2>1. \E o \in Objects : \E b \in RA!Blocks(o) : \E x \in 1 .. running[o][b] : t = <<<<o, b>>, x>>
    BY HeldMember
  <2> QED
    BY <1>1, <2>1
<1>3. IsFiniteSet({}) /\ Cardinality({}) = 0
  BY FS_EmptySet
<1> QED
  BY <1>1, <1>2, <1>3 DEF TokenInv

\* Free tokens and goroutines in readBlock are together the tokens of the cache:
\* none is lost to a read that failed, and none is given back twice, over all the
\* objects that share them (TryAcquire in Update, the deferred Release).
THEOREM TokensBalance == Spec => []TokensConserved
<1>1. RA!Init => RAP!RunInv
  BY InstanceInit, RAP!RunInit
<1>2. RAP!RunInv /\ [RA!Next]_(RA!vars) => RAP!RunInv'
  BY InstanceStep, RAP!RunStep
<1>3. RA!Spec => [](TokenInv /\ RAP!RunInv)
  BY <1>1, <1>2, TokenInit, TokenStep, PTL DEF RA!Spec
<1>4. TokenInv => TokensConserved
  BY DEF TokenInv, TokensConserved, Held, HeldBy
<1>5. Spec => RA!Spec
  BY ReadAheadRefinement DEF ImplementsReadAhead
<1> QED
  BY <1>3, <1>4, <1>5, PTL
=============================================================================

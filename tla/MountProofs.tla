---------------------------- MODULE MountProofs ----------------------------
(***************************************************************************)
(* For every disc, every number of requests in progress and every order of *)
(* them: the server of a mounted disc knows the inodes and the handles     *)
(* that the kernel holds, counts them right, lists a directory completely  *)
(* whatever the sizes of the pieces, and closes the disc last.  And for    *)
(* every tree listed and every path asked for, what the Walker finds is    *)
(* what is there, whatever its cache holds, and what it lists is every     *)
(* file below the path, once.                                              *)
(***************************************************************************)
EXTENDS Mount, FiniteSetTheorems, SequenceTheorems, NaturalsInduction,
        WellFoundedInduction, TLAPS

USE DiscAssumption

----------------------------------------------------------------------------
(* The inductive invariant *)

Inos  == DOMAIN Info
Files == F!Files
Names == {Info[j].name : j \in Inos} \cup {""}

OpType == [kind : {"idle", "LookUpInode", "OpenFile", "ReleaseFileHandle"},
           step : {"none", "miss", "set", "reply", "open", "insert", "release"},
           ino : Inos \cup {0}, name : Names, h : Nat]

\* What a request in progress is about.
OpShape(r) ==
    \/ r = F!Idle
    \/ r.kind = "LookUpInode" /\ r.step \in {"miss", "set", "reply"} /\ r.ino \in Inos
    \/ r.kind = "OpenFile" /\ r.step \in {"open", "insert"} /\ r.ino \in Files
    \/ r.kind = "ReleaseFileHandle" /\ r.step = "release" /\ r.ino \in Files

Types ==
    /\ op \in [Threads -> OpType]
    /\ \A t \in Threads : OpShape(op[t])
    /\ nextFileHandle \in Nat
    /\ IsFiniteSet(DOMAIN fileHandles)
    /\ \A h \in DOMAIN fileHandles : h \in Nat /\ h < nextFileHandle /\ fileHandles[h] \in Files
    /\ held \in SUBSET [h : Nat, ino : Files]
    /\ opened \in [Files -> Int]
    /\ nlookup \in [Inos -> Nat]
    /\ forgets \in Seq([ino : Inos \ {1}, n : Nat \ {0}])

\* Nobody serves a request on a mount that is gone, and the disc is closed after that.
Over == ~mounted /\ F!Quiet

Ends == /\ join = "closed" => Over
        /\ serve \in {"send", "end"} => Over
        /\ main = "done" => Over

\* Request t is about to close handle h.
Releasing(t) == F!At(t, "ReleaseFileHandle", "release")

\* A handle is the kernel's until one request closes it.
Handles ==
    /\ \A x \in held : x.h \in DOMAIN fileHandles /\ fileHandles[x.h] = x.ino
    /\ \A t \in Threads : Releasing(t) => op[t].h \in DOMAIN fileHandles /\ fileHandles[op[t].h] = op[t].ino
    /\ \A t \in Threads, x \in held : Releasing(t) => op[t].h # x.h
    /\ \A t, u \in Threads : Releasing(t) /\ Releasing(u) /\ t # u => op[t].h # op[u].h

\* The handles of file i, and the requests that have opened it and have no
\* handle yet.
HandlesOf(i) == {h \in DOMAIN fileHandles : fileHandles[h] = i}
Opening(i)   == {t \in Threads : F!At(t, "OpenFile", "insert") /\ op[t].ino = i}

ObjectsCounted == \A i \in Files : opened[i] = Cardinality(HandlesOf(i)) + Cardinality(Opening(i))

\* The kernel holds the inodes that it uses: it does not forget them.
Holds(i) == i = 1 \/ nlookup[i] > 0

InUseHeld ==
    /\ \A t \in Threads : op[t] # F!Idle => Holds(op[t].ino)
    /\ \A x \in held : Holds(x.ino)
    /\ stream.ino # 0 => stream.ino \in Inos /\ Holds(stream.ino)

\* The root is never forgotten, and each other inode is counted right.
Lookups(i) == nlookup[i] + Cardinality(F!Coming(i)) + Cardinality(F!Going(i))

CountedRight(i) == IF i \in DOMAIN finfos THEN finfos[i] = [RefCnt |-> Lookups(i), Info |-> Info[i]]
                   ELSE Lookups(i) = 0

Counts == 1 \in DOMAIN finfos /\ \A i \in Inos \ {1} : CountedRight(i)

\* A directory that is being read was read up to some entry.
ReadUpTo(n) ==
    LET infos == F!Entries(stream.ino)
    IN /\ stream.off = F!DirentOffset(infos, n)
       /\ stream.names = [j \in 1 .. n |-> infos[j].name]

Streams == IF stream.ino = 0 THEN stream = F!NoStream
           ELSE /\ stream.ino \in Inos /\ Info[stream.ino].dir
                /\ \E n \in 1 .. Len(F!Entries(stream.ino)) : ReadUpTo(n)

FuseInv == /\ Types /\ Ends /\ Handles /\ ObjectsCounted /\ InUseHeld /\ Counts /\ ~refused /\ Streams

----------------------------------------------------------------------------
(* What the steps do to the requests in progress *)

\* The steps of a mounted disc, and those of the other command.
FuseStep == F!Next \/ UNCHANGED fuseVars

LEMMA Steps == [Next]_vars => FuseStep
  BY DEF Next, Walk, Serve, vars, FuseStep

\* One request changes, the others stay.
LEMMA OneOp ==
    ASSUME Types, NEW t \in Threads, NEW r \in OpType, OpShape(r), op' = [op EXCEPT ![t] = r]
    PROVE  /\ op' \in [Threads -> OpType]
           /\ op'[t] = r
           /\ \A u \in Threads : u # t => op'[u] = op[u]
           /\ \A u \in Threads : OpShape(op[u])'
<1>1. op \in [Threads -> OpType]
  BY DEF Types
<1>2. op' \in [Threads -> OpType] /\ op'[t] = r /\ \A u \in Threads : u # t => op'[u] = op[u]
  BY <1>1
<1>3. \A u \in Threads : OpShape(op'[u])
  BY <1>2 DEF Types
<1>4. \A u \in Threads : OpShape(op[u])'
  BY <1>3 DEF OpShape, Files, F!Files, F!Inos, F!Idle
<1> QED
  BY <1>2, <1>4

\* A request goes on to its next step.
LEMMA NextStep ==
    ASSUME Types, NEW t \in Threads, NEW s \in {"set", "reply", "insert"},
           op' = [op EXCEPT ![t].step = s],
           \/ op[t].kind = "LookUpInode" /\ op[t].step \in {"miss", "set"} /\ s # "insert"
           \/ op[t].kind = "OpenFile" /\ op[t].step = "open" /\ s = "insert"
    PROVE  \E r \in OpType : /\ OpShape(r) /\ op' = [op EXCEPT ![t] = r]
                             /\ r.kind = op[t].kind /\ r.step = s /\ r.ino = op[t].ino
                             /\ r.name = op[t].name /\ r.h = op[t].h
<1> DEFINE r == [op[t] EXCEPT !.step = s]
<1>1. op \in [Threads -> OpType] /\ op[t] \in OpType /\ OpShape(op[t])
  BY DEF Types
<1>2. /\ r \in OpType /\ r.kind = op[t].kind /\ r.step = s /\ r.ino = op[t].ino
      /\ r.name = op[t].name /\ r.h = op[t].h
  BY <1>1 DEF OpType
<1>3. op' = [op EXCEPT ![t] = r]
  BY <1>1
<1>4. OpShape(r)
  <2>1. op[t] # F!Idle
    <3>1. F!Idle.kind = "idle"
      BY DEF F!Idle
    <3>2. op[t].kind # "idle"
      OBVIOUS
    <3> QED
      BY <3>1, <3>2
  <2>2. op[t].ino \in IF op[t].kind = "LookUpInode" THEN Inos ELSE Files
    BY <1>1, <2>1 DEF OpShape
  <2> HIDE DEF r
  <2> QED
    BY <1>2, <2>2 DEF OpShape
<1> QED
  BY <1>2, <1>3, <1>4

LEMMA IdleFits == F!Idle \in OpType /\ OpShape(F!Idle)
  BY DEF F!Idle, OpType, OpShape, Names

\* Request t becomes r: it ends, begins, or goes on.
Moves(t, r) ==
    /\ r \in OpType /\ OpShape(r) /\ op' = [op EXCEPT ![t] = r]
    /\ \/ r = F!Idle
       \/ op[t] = F!Idle /\ F!Known(r.ino) /\ r.step \in {"miss", "set", "open", "release"}
       \/ /\ op[t] # F!Idle /\ r.kind = op[t].kind /\ r.ino = op[t].ino /\ r.name = op[t].name
          /\ r.h = op[t].h /\ r.step \in {"set", "reply", "insert"}

LEMMA DoneMoves ==
    ASSUME NEW t, F!Done(t) PROVE Moves(t, F!Idle)
  BY IdleFits DEF F!Done, Moves

LEMMA RequestMoves ==
    ASSUME NEW t, NEW r, F!Request(t, r), r \in OpType, OpShape(r),
           r.step \in {"miss", "set", "open", "release"}
    PROVE  Moves(t, r) /\ op[t] = F!Idle /\ F!Known(r.ino)
  BY DEF F!Request, Moves

LEMMA LookUpInodeMoves ==
    ASSUME NEW t, NEW i \in Inos, NEW j \in Inos, F!LookUpInode(t, i, Info[j].name)
    PROVE  \E r : /\ Moves(t, r) /\ op[t] = F!Idle
                  /\ r.kind = "LookUpInode" /\ r.step \in {"miss", "set"}
<1>1. PICK s \in {"miss", "set"} :
         F!Request(t, [F!Idle EXCEPT !.kind = "LookUpInode", !.step = s, !.ino = i,
                                     !.name = Info[j].name])
  BY DEF F!LookUpInode
<1> DEFINE r == [F!Idle EXCEPT !.kind = "LookUpInode", !.step = s, !.ino = i, !.name = Info[j].name]
<1>2. Info[j].name \in Names
  BY DEF Names, Inos
<1>3. r \in OpType /\ r.kind = "LookUpInode" /\ r.step = s /\ r.ino = i
  BY <1>2, IdleFits DEF OpType
<1>4. F!Request(t, r)
  BY <1>1
<1> HIDE DEF r
<1>5. OpShape(r)
  BY <1>3 DEF OpShape
<1> QED
  BY <1>3, <1>4, <1>5, RequestMoves

LEMMA OpenFileMoves ==
    ASSUME NEW t, NEW i, F!OpenFile(t, i)
    PROVE  \E r : /\ Moves(t, r) /\ op[t] = F!Idle /\ F!Known(i)
                  /\ r.kind = "OpenFile" /\ r.step = "open"
<1> DEFINE r == [F!Idle EXCEPT !.kind = "OpenFile", !.step = "open", !.ino = i]
<1>1. i \in Files /\ F!Request(t, r)
  BY DEF F!OpenFile, Files
<1>2. i \in Inos
  BY <1>1 DEF Files, F!Files, F!Inos, Inos
<1>3. r \in OpType /\ r.kind = "OpenFile" /\ r.step = "open" /\ r.ino = i
  BY <1>2, IdleFits DEF OpType
<1> HIDE DEF r
<1>4. OpShape(r)
  BY <1>1, <1>3 DEF OpShape
<1>5. Moves(t, r) /\ op[t] = F!Idle /\ F!Known(r.ino)
  BY <1>1, <1>3, <1>4, RequestMoves
<1> QED
  BY <1>3, <1>5 DEF F!Known

LEMMA CloseMoves ==
    ASSUME Types, NEW t, NEW x \in held, F!Close(t, x)
    PROVE  \E r : /\ Moves(t, r) /\ op[t] = F!Idle
                  /\ r.kind = "ReleaseFileHandle" /\ r.step = "release" /\ r.h = x.h /\ r.ino = x.ino
<1> DEFINE r == [F!Idle EXCEPT !.kind = "ReleaseFileHandle", !.step = "release", !.ino = x.ino,
                               !.h = x.h]
<1>1. F!Request(t, r)
  BY DEF F!Close
<1>2. x.h \in Nat /\ x.ino \in Files
  BY DEF Types
<1>3. x.ino \in Inos
  BY <1>2 DEF Files, F!Files, F!Inos, Inos
<1>4. /\ r \in OpType /\ r.kind = "ReleaseFileHandle" /\ r.step = "release" /\ r.h = x.h
      /\ r.ino = x.ino
  BY <1>2, <1>3, IdleFits DEF OpType
<1> HIDE DEF r
<1>5. OpShape(r)
  BY <1>2, <1>4 DEF OpShape
<1> QED
  BY <1>1, <1>4, <1>5, RequestMoves

LEMMA GoesOn ==
    ASSUME Types, NEW t \in Threads, NEW s \in {"set", "reply", "insert"},
           op' = [op EXCEPT ![t].step = s],
           \/ F!At(t, "LookUpInode", "miss") /\ s = "set"
           \/ F!At(t, "LookUpInode", "set") /\ s = "reply"
           \/ F!At(t, "OpenFile", "open") /\ s = "insert"
    PROVE  \E r : /\ Moves(t, r) /\ r.kind = op[t].kind /\ r.step = s /\ r.ino = op[t].ino
                  /\ r.name = op[t].name
<1>1. op[t] # F!Idle
  <2>1. F!Idle.kind = "idle"
    BY DEF F!Idle
  <2>2. op[t].kind # "idle"
    BY DEF F!At
  <2> QED
    BY <2>1, <2>2
<1>2. PICK r \in OpType : /\ OpShape(r) /\ op' = [op EXCEPT ![t] = r]
                          /\ r.kind = op[t].kind /\ r.step = s /\ r.ino = op[t].ino
                          /\ r.name = op[t].name /\ r.h = op[t].h
  BY NextStep DEF F!At
<1> QED
  BY <1>1, <1>2 DEF Moves

\* The steps that are not about a request.
NoOp == \/ \E i \in Inos : F!GetInode(i) \/ F!ReadDir(i) \/ F!Drop(i)
        \/ \E x \in held : F!ReadFile(x)
        \/ \E k \in DOMAIN forgets : F!ForgetInode(k)
        \/ F!ReadDirEnd
        \/ F!Umount \/ F!Signal \/ F!Server \/ F!ServeJoin \/ F!JoinClose
        \/ UNCHANGED fuseVars

LEMMA NoOpStays == NoOp => op' = op
  BY DEF NoOp, F!GetInode, F!ReadDir, F!Drop, F!ReadFile, F!ForgetInode, F!ReadDirEnd, F!Umount,
         F!Signal, F!Server, F!SelectSignal, F!SelectJoined, F!CloseUnmount, F!CloseRecv, F!ServeJoin,
         F!JoinClose, fuseVars

LEMMA StepKinds ==
    ASSUME FuseStep
    PROVE  \/ NoOp
           \/ \E t \in Threads : \/ \E i \in Inos, j \in Inos \ {1} : F!LookUpInode(t, i, Info[j].name)
                                 \/ \E i \in Inos : F!OpenFile(t, i)
                                 \/ \E x \in held : F!Close(t, x)
                                 \/ F!Serve(t) \/ F!LookUpErr(t) \/ F!OpenExtentErr(t)
  BY DEF FuseStep, F!Next, NoOp, F!Ask, F!Inos, Inos

\* Every step changes at most one request.
LEMMA OpMoves ==
    ASSUME Types, FuseStep
    PROVE  op' = op \/ \E t \in Threads : \E r : Moves(t, r)
<1>1. ASSUME NEW t \in Threads, F!Serve(t) \/ F!LookUpErr(t) \/ F!OpenExtentErr(t)
      PROVE  \E r : Moves(t, r)
  <2>1. \/ F!Done(t)
        \/ F!At(t, "LookUpInode", "miss") /\ op' = [op EXCEPT ![t].step = "set"]
        \/ F!At(t, "LookUpInode", "set") /\ op' = [op EXCEPT ![t].step = "reply"]
        \/ F!At(t, "OpenFile", "open") /\ op' = [op EXCEPT ![t].step = "insert"]
    BY <1>1 DEF F!Serve, F!LookUpScan, F!LookUpSet, F!LookUpReply, F!OpenExtent, F!Insert,
       F!ReleaseFileHandle, F!LookUpErr, F!OpenExtentErr
  <2> QED
    BY <2>1, DoneMoves, GoesOn
<1> QED
  BY <1>1, StepKinds, NoOpStays, LookUpInodeMoves, OpenFileMoves, CloseMoves

LEMMA OpTypes ==
    ASSUME Types, FuseStep
    PROVE  op' \in [Threads -> OpType] /\ \A t \in Threads : OpShape(op[t])'
<1>1. CASE op' = op
  BY <1>1 DEF Types, OpShape, Files, F!Files, F!Inos, F!Idle
<1>2. ASSUME NEW t \in Threads, NEW r, Moves(t, r)
      PROVE  op' \in [Threads -> OpType] /\ \A u \in Threads : OpShape(op[u])'
  BY <1>2, OneOp DEF Moves
<1> QED
  BY <1>1, <1>2, OpMoves

\* Two sequences in a row.
LEMMA Joined ==
    ASSUME NEW S, NEW a \in Seq(S), NEW b \in Seq(S)
    PROVE  /\ a \o b \in Seq(S) /\ Len(a \o b) = Len(a) + Len(b)
           /\ \A j \in 1 .. Len(a) : (a \o b)[j] = a[j]
           /\ \A j \in Len(a) + 1 .. Len(a) + Len(b) : (a \o b)[j] = b[j - Len(a)]
<1> HIDE DiscAssumption
<1>1. a \o b \in Seq(S) /\ Len(a \o b) = Len(a) + Len(b)
  BY ConcatProperties
<1>2. \A i \in 1 .. Len(a) + Len(b) : (a \o b)[i] = IF i <= Len(a) THEN a[i] ELSE b[i - Len(a)]
  BY ConcatProperties
<1> QED
  BY <1>1, <1>2

\* A sequence without one of its elements.
LEMMA Removed ==
    ASSUME NEW S, NEW s \in Seq(S), NEW k \in DOMAIN s
    PROVE  /\ F!RemoveAt(s, k) \in Seq(S)
           /\ Len(s) \in Nat /\ k \in 1 .. Len(s) /\ Len(F!RemoveAt(s, k)) = Len(s) - 1
           /\ \A j \in 1 .. Len(s) - 1 : F!RemoveAt(s, k)[j] = IF j < k THEN s[j] ELSE s[j + 1]
<1>1. Len(s) \in Nat /\ k \in 1 .. Len(s)
  OBVIOUS
<1> DEFINE a == SubSeq(s, 1, k - 1)
           b == SubSeq(s, k + 1, Len(s))
<1>2. /\ a \in Seq(S) /\ Len(a) = k - 1 /\ \A j \in 1 .. k - 1 : a[j] = s[j]
  BY <1>1
<1>3. /\ b \in Seq(S) /\ Len(b) = Len(s) - k /\ \A j \in 1 .. Len(s) - k : b[j] = s[j + k]
  BY <1>1
<1> HIDE DEF a, b
<1>4. /\ a \o b \in Seq(S) /\ Len(a \o b) = Len(s) - 1
      /\ \A j \in 1 .. k - 1 : (a \o b)[j] = a[j]
      /\ \A j \in k .. Len(s) - 1 : (a \o b)[j] = b[j - (k - 1)]
  <2>1. a \in Seq(S) /\ b \in Seq(S)
    BY <1>2, <1>3
  <2>2. /\ a \o b \in Seq(S) /\ Len(a \o b) = Len(a) + Len(b)
        /\ \A j \in 1 .. Len(a) : (a \o b)[j] = a[j]
        /\ \A j \in Len(a) + 1 .. Len(a) + Len(b) : (a \o b)[j] = b[j - Len(a)]
    BY <2>1, Joined
  <2>3. Len(a) + Len(b) = Len(s) - 1 /\ Len(a) + 1 = k /\ Len(a) = k - 1
    BY <1>1, <1>2, <1>3
  <2>4. \A j \in 1 .. k - 1 : (a \o b)[j] = a[j]
    BY <2>2, <2>3, Zenon
  <2>5. \A j \in k .. Len(s) - 1 : (a \o b)[j] = b[j - (k - 1)]
    BY <2>2, <2>3, Zenon
  <2> QED
    BY <2>2, <2>3, <2>4, <2>5, Zenon
<1>5. ASSUME NEW j \in 1 .. Len(s) - 1
      PROVE  (a \o b)[j] = IF j < k THEN s[j] ELSE s[j + 1]
  <2>1. CASE j < k
    BY <1>1, <1>2, <1>4, <2>1
  <2>2. CASE ~(j < k)
    <3> DEFINE i == j - (k - 1)
    <3>1. j \in k .. Len(s) - 1 /\ i \in 1 .. Len(s) - k /\ i + k = j + 1
      BY <1>1, <2>2
    <3>2. (a \o b)[j] = b[i]
      BY <1>4, <3>1
    <3> HIDE DEF i
    <3> QED
      BY <1>3, <2>2, <3>1, <3>2
  <2> QED
    BY <2>1, <2>2
<1>6. F!RemoveAt(s, k) = a \o b
  BY DEF F!RemoveAt, a, b
<1> QED
  BY <1>1, <1>4, <1>5, <1>6

LEMMA TypesStep == FuseInv /\ FuseStep => Types'
<1> SUFFICES ASSUME FuseInv, FuseStep PROVE Types'
  OBVIOUS
<1>0. Types
  BY DEF FuseInv
<1>o. op' \in [Threads -> OpType] /\ \A t \in Threads : OpShape(op[t])'
  BY <1>0, OpTypes
<1>f. Files' = Files
  BY DEF Files, F!Files, F!Inos
\* The tables of the handles and of the open objects ...
<1> DEFINE T1 == /\ nextFileHandle \in Nat
                 /\ IsFiniteSet(DOMAIN fileHandles)
                 /\ \A h \in DOMAIN fileHandles : h \in Nat /\ h < nextFileHandle /\ fileHandles[h] \in Files
                 /\ held \in SUBSET [h : Nat, ino : Files]
                 /\ opened \in [Files -> Int]
\* ... and what the kernel counts.
           T2 == /\ nlookup \in [Inos -> Nat]
                 /\ forgets \in Seq([ino : Inos \ {1}, n : Nat \ {0}])
<1>t. T1 /\ T2
  BY <1>0 DEF Types
<1>1. ASSUME UNCHANGED <<fileHandles, nextFileHandle, held, opened>> PROVE T1'
  BY <1>t, <1>1, <1>f
<1>2. ASSUME UNCHANGED <<nlookup, forgets>> PROVE T2'
  BY <1>t, <1>2 DEF Inos
<1>3. T1' /\ T2' => Types'
  BY <1>o DEF Types
<1>4. ASSUME NEW t \in Threads, NEW k, NEW s, F!At(t, k, s), k # "idle"
      PROVE  op[t].kind = k /\ op[t].step = s /\ OpShape(op[t]) /\ op[t] # F!Idle
  <2>1. F!Idle.kind = "idle"
    BY DEF F!Idle
  <2> QED
    BY <1>0, <1>4, <2>1 DEF F!At, Types
<1>5. ASSUME NEW t \in Threads, F!OpenExtent(t) PROVE Types'
  <2>1. op[t].ino \in Files
    BY <1>4, <1>5 DEF F!OpenExtent, OpShape
  <2>2. T1'
    BY <1>t, <1>5, <1>f, <2>1 DEF F!OpenExtent, F!kernelVars
  <2> QED
    BY <1>2, <1>3, <1>5, <2>2 DEF F!OpenExtent, F!kernelVars
<1>6. ASSUME NEW t \in Threads, F!Insert(t) PROVE Types'
  <2> DEFINE h == nextFileHandle
  <2>1. op[t].ino \in Files
    BY <1>4, <1>6 DEF F!Insert, OpShape
  <2>2. /\ DOMAIN fileHandles' = DOMAIN fileHandles \cup {h} /\ nextFileHandle' = h + 1
        /\ \A x \in DOMAIN fileHandles' : fileHandles'[x] = IF x = h THEN op[t].ino ELSE fileHandles[x]
        /\ held' = held \cup {[h |-> h, ino |-> op[t].ino]} /\ opened' = opened
    BY <1>6 DEF F!Insert
  <2>3. IsFiniteSet(DOMAIN fileHandles')
    <3>1. IsFiniteSet(DOMAIN fileHandles \cup {nextFileHandle})
      BY <1>t, FS_AddElement
    <3> QED
      BY <2>2, <3>1
  <2>4. \A x \in DOMAIN fileHandles' : x \in Nat /\ x < nextFileHandle' /\ fileHandles'[x] \in Files
    BY <1>t, <2>1, <2>2
  <2>5. held' \in SUBSET [h : Nat, ino : Files]
    BY <1>t, <2>1, <2>2
  <2>6. T1'
    BY <1>t, <1>f, <2>2, <2>3, <2>4, <2>5
  <2> QED
    BY <1>2, <1>3, <1>6, <2>6 DEF F!Insert
<1>7. ASSUME NEW t \in Threads, F!ReleaseFileHandle(t) PROVE Types'
  <2>1. /\ fileHandles' = [x \in DOMAIN fileHandles \ {op[t].h} |-> fileHandles[x]]
        /\ UNCHANGED <<nextFileHandle, held, nlookup, forgets>>
        /\ opened' = opened \/ opened' = [opened EXCEPT ![fileHandles[op[t].h]] = @ - 1]
    BY <1>7 DEF F!ReleaseFileHandle, F!kernelVars
  <2>2. IsFiniteSet(DOMAIN fileHandles')
    BY <1>t, <2>1, FS_RemoveElement
  <2>3. opened' \in [Files -> Int]
    BY <1>t, <2>1
  <2>4. T1'
    BY <1>t, <1>f, <2>1, <2>2, <2>3
  <2> QED
    BY <1>2, <1>3, <2>1, <2>4
<1>8. ASSUME NEW t \in Threads, F!LookUpReply(t) PROVE Types'
  <2>1. /\ nlookup' = [nlookup EXCEPT ![F!Child(t)] = @ + 1] /\ forgets' = forgets
        /\ UNCHANGED <<fileHandles, nextFileHandle, held, opened>>
    BY <1>8 DEF F!LookUpReply, F!fsVars
  <2>2. T2'
    <3> DEFINE c == F!Child(t)
    <3>1. nlookup' = [nlookup EXCEPT ![c] = nlookup[c] + 1]
      BY <2>1
    <3> HIDE DEF c
    <3>2. nlookup' \in [Inos -> Nat]
      <4>1. nlookup \in [Inos -> Nat]
        BY <1>t
      <4>2. CASE c \in Inos
        BY <3>1, <4>1, <4>2
      <4>3. CASE c \notin Inos
        <5>1. nlookup' = nlookup
          BY <3>1, <4>1, <4>3
        <5> QED
          BY <4>1, <5>1
      <4> QED
        BY <4>2, <4>3
    <3> QED
      BY <1>t, <2>1, <3>2 DEF Inos
  <2> QED
    BY <1>1, <1>3, <2>1, <2>2
<1>9. ASSUME NEW t \in Threads, F!LookUpScan(t) \/ F!LookUpSet(t) \/ F!LookUpErr(t) \/ F!OpenExtentErr(t)
      PROVE  Types'
  <2>1. UNCHANGED <<fileHandles, nextFileHandle, held, opened, nlookup, forgets>>
    BY <1>9 DEF F!LookUpScan, F!LookUpSet, F!LookUpErr, F!OpenExtentErr, F!fsVars, F!kernelVars
  <2> QED
    BY <1>1, <1>2, <1>3, <2>1
<1>10. ASSUME NEW t \in Threads, NEW i \in Inos, NEW j \in Inos,
              F!LookUpInode(t, i, Info[j].name) \/ F!OpenFile(t, i)
       PROVE  Types'
  <2>1. UNCHANGED <<fileHandles, nextFileHandle, held, opened, nlookup, forgets>>
    BY <1>10 DEF F!LookUpInode, F!OpenFile, F!fsVars, F!kernelVars
  <2> QED
    BY <1>1, <1>2, <1>3, <2>1
<1>11. ASSUME NEW t \in Threads, NEW x \in held, F!Close(t, x) PROVE Types'
  <2>1. UNCHANGED <<fileHandles, nextFileHandle, opened, nlookup, forgets>> /\ held' = held \ {x}
    BY <1>11 DEF F!Close, F!fsVars
  <2>2. T1'
    BY <1>t, <1>f, <2>1
  <2> QED
    BY <1>2, <1>3, <2>1, <2>2
<1>12. CASE NoOp
  <2>1. UNCHANGED <<fileHandles, nextFileHandle, held, opened>>
    BY <1>12 DEF NoOp, F!GetInode, F!ReadDir, F!Drop, F!ReadFile, F!ForgetInode, F!ReadDirEnd, F!Umount,
         F!Signal, F!Server, F!SelectSignal, F!SelectJoined, F!CloseUnmount, F!CloseRecv, F!ServeJoin,
         F!JoinClose, fuseVars, F!fsVars, F!kernelVars
  <2>2. ASSUME NEW i \in Inos, F!Drop(i) PROVE T2'
    <3> DEFINE f == [ino |-> i, n |-> nlookup[i]]
    <3>1. /\ f \in [ino : Inos \ {1}, n : Nat \ {0}]
          /\ forgets' = Append(forgets, f) /\ nlookup' = [nlookup EXCEPT ![i] = 0]
      BY <1>t, <2>2 DEF F!Drop
    <3> HIDE DEF f
    <3> QED
      BY <1>t, <3>1 DEF Inos
  <2>3. ASSUME NEW k \in DOMAIN forgets, F!ForgetInode(k) PROVE T2'
    <3>1. forgets' = F!RemoveAt(forgets, k) /\ nlookup' = nlookup
      BY <2>3 DEF F!ForgetInode
    <3> QED
      BY <1>t, <3>1, Removed DEF Inos
  <2>4. \/ \E i \in Inos : F!Drop(i)
        \/ \E k \in DOMAIN forgets : F!ForgetInode(k)
        \/ UNCHANGED <<nlookup, forgets>>
    BY <1>12 DEF NoOp, F!GetInode, F!ReadDir, F!ReadFile, F!ReadDirEnd, F!Umount,
         F!Signal, F!Server, F!SelectSignal, F!SelectJoined, F!CloseUnmount, F!CloseRecv, F!ServeJoin,
         F!JoinClose, fuseVars, F!kernelVars
  <2> QED
    BY <1>1, <1>2, <1>3, <2>1, <2>2, <2>3, <2>4
<1> QED
  BY <1>5, <1>6, <1>7, <1>8, <1>9, <1>10, <1>11, <1>12, StepKinds DEF F!Serve

----------------------------------------------------------------------------
(* The end of the mount *)

\* Once the kernel has let go of the mount and all is quiet, it stays so.
LEMMA OverStays == Types /\ Over /\ FuseStep => Over'
<1> SUFFICES ASSUME Types, Over, FuseStep PROVE Over'
  OBVIOUS
<1>1. ~mounted /\ \A t \in Threads : op[t] = F!Idle
  BY DEF Over, F!Quiet
<1>2. ~mounted'
  BY <1>1, StepKinds DEF NoOp, F!GetInode, F!ReadDir, F!Drop, F!ReadFile, F!ForgetInode, F!ReadDirEnd,
     F!Umount, F!Signal, F!Server, F!SelectSignal, F!SelectJoined, F!CloseUnmount, F!CloseRecv,
     F!ServeJoin, F!JoinClose, fuseVars, F!serverVars, F!LookUpInode, F!OpenFile, F!Close, F!Serve,
     F!LookUpScan, F!LookUpSet, F!LookUpReply, F!OpenExtent, F!Insert, F!ReleaseFileHandle, F!LookUpErr,
     F!OpenExtentErr
<1>3. ASSUME NEW t \in Threads, NEW r, Moves(t, r) PROVE \A u \in Threads : op'[u] = F!Idle
  <2>1. r = F!Idle
    BY <1>1, <1>3 DEF Moves, F!Known
  <2>2. op' = [op EXCEPT ![t] = r] /\ op \in [Threads -> OpType]
    BY <1>3 DEF Moves, Types
  <2> QED
    BY <1>1, <2>1, <2>2
<1>4. \A u \in Threads : op'[u] = F!Idle
  BY <1>1, <1>3, OpMoves
<1> QED
  BY <1>2, <1>4 DEF Over, F!Quiet, F!Idle

\* The disc is closed by doFuse after Join, or after the serving goroutine.
LEMMA EndsStep == FuseInv /\ FuseStep => Ends'
<1> SUFFICES ASSUME FuseInv, FuseStep PROVE Ends'
  OBVIOUS
<1>0. Types /\ Ends
  BY DEF FuseInv
<1>1. CASE NoOp
  <2>1. \/ F!ServeJoin \/ F!JoinClose \/ F!CloseRecv \/ F!SelectJoined
        \/ /\ join' = join /\ serve' = serve
           /\ main' # "done" \/ main' = main
    BY <1>1 DEF NoOp, F!GetInode, F!ReadDir, F!Drop, F!ReadFile, F!ForgetInode, F!ReadDirEnd,
       F!Umount, F!Signal, F!Server, F!SelectSignal, F!CloseUnmount, fuseVars, F!serverVars
  <2>2. CASE F!ServeJoin \/ F!JoinClose
    <3>1. Over
      BY <2>2 DEF F!ServeJoin, F!JoinClose, Over
    <3> QED
      BY <1>0, <3>1, OverStays DEF Ends
  <2>3. CASE F!CloseRecv \/ F!SelectJoined
    <3>1. Over
      BY <1>0, <2>3 DEF F!CloseRecv, F!SelectJoined, Ends
    <3> QED
      BY <1>0, <3>1, OverStays DEF Ends
  <2>4. CASE join' = join /\ serve' = serve /\ (main' # "done" \/ main' = main)
    BY <1>0, <2>4, OverStays DEF Ends
  <2> QED
    BY <2>1, <2>2, <2>3, <2>4
<1>2. ASSUME NEW t \in Threads,
             \/ \E i \in Inos, j \in Inos \ {1} : F!LookUpInode(t, i, Info[j].name)
             \/ \E i \in Inos : F!OpenFile(t, i)
             \/ \E x \in held : F!Close(t, x)
             \/ F!Serve(t) \/ F!LookUpErr(t) \/ F!OpenExtentErr(t)
      PROVE  Ends'
  <2>1. UNCHANGED <<main, serve, join>>
    BY <1>2 DEF F!serverVars, F!LookUpInode, F!OpenFile, F!Close, F!Serve,
     F!LookUpScan, F!LookUpSet, F!LookUpReply, F!OpenExtent, F!Insert, F!ReleaseFileHandle, F!LookUpErr,
     F!OpenExtentErr
  <2> QED
    BY <1>0, <2>1, OverStays DEF Ends
<1> QED
  BY <1>1, <1>2, StepKinds

----------------------------------------------------------------------------
(* The handles *)

LEMMA HandlesStep == FuseInv /\ FuseStep => Handles'
<1> SUFFICES ASSUME FuseInv, FuseStep PROVE Handles'
  OBVIOUS
<1>0. Types /\ Handles
  BY DEF FuseInv
<1>i. F!Idle.kind = "idle"
  BY DEF F!Idle
\* A step that begins or ends no release, and keeps the tables.
<1>1. ASSUME UNCHANGED <<fileHandles, held>>,
             op' = op \/ \E t \in Threads : \E r : Moves(t, r) /\ r.kind # "ReleaseFileHandle"
      PROVE  Handles'
  <2>1. \A t \in Threads : Releasing(t)' => Releasing(t) /\ op'[t] = op[t]
    <3>1. ASSUME NEW t \in Threads, NEW r, Moves(t, r), r.kind # "ReleaseFileHandle", NEW u \in Threads,
                 Releasing(u)'
          PROVE  Releasing(u) /\ op'[u] = op[u]
      <4>1. op'[t] = r /\ (u # t => op'[u] = op[u])
        BY <1>0, <3>1, OneOp DEF Moves
      <4>2. u # t
        BY <3>1, <4>1 DEF Releasing, F!At
      <4> QED
        BY <3>1, <4>1, <4>2 DEF Releasing, F!At
    <3>2. CASE op' = op
      BY <3>2 DEF Releasing, F!At
    <3> QED
      BY <1>1, <3>1, <3>2
  <2> QED
    BY <1>0, <1>1, <2>1 DEF Handles
<1>2. CASE NoOp
  <2>1. UNCHANGED <<fileHandles, held>>
    BY <1>2 DEF NoOp, F!GetInode, F!ReadDir, F!Drop, F!ReadFile, F!ForgetInode, F!ReadDirEnd, F!Umount,
         F!Signal, F!Server, F!SelectSignal, F!SelectJoined, F!CloseUnmount, F!CloseRecv, F!ServeJoin,
         F!JoinClose, fuseVars, F!fsVars, F!kernelVars
  <2> QED
    BY <1>1, <1>2, <2>1, NoOpStays
<1>3. ASSUME NEW t \in Threads,
             \/ \E i \in Inos, j \in Inos \ {1} : F!LookUpInode(t, i, Info[j].name)
             \/ \E i \in Inos : F!OpenFile(t, i)
      PROVE  Handles'
  <2>1. UNCHANGED <<fileHandles, held>>
    BY <1>3 DEF F!LookUpInode, F!OpenFile, F!fsVars, F!kernelVars
  <2> QED
    BY <1>1, <1>3, <2>1, LookUpInodeMoves, OpenFileMoves
<1>4. ASSUME NEW t \in Threads, \/ F!LookUpScan(t) \/ F!LookUpSet(t) \/ F!LookUpReply(t) \/ F!OpenExtent(t)
                                \/ F!LookUpErr(t) \/ F!OpenExtentErr(t)
      PROVE  Handles'
  <2>1. UNCHANGED <<fileHandles, held>>
    BY <1>4 DEF F!LookUpScan, F!LookUpSet, F!LookUpReply, F!OpenExtent, F!LookUpErr, F!OpenExtentErr,
       F!fsVars, F!kernelVars
  <2>2. \E r : Moves(t, r) /\ r.kind # "ReleaseFileHandle"
    <3>1. \/ F!Done(t)
          \/ F!At(t, "LookUpInode", "miss") /\ op' = [op EXCEPT ![t].step = "set"]
          \/ F!At(t, "LookUpInode", "set") /\ op' = [op EXCEPT ![t].step = "reply"]
          \/ F!At(t, "OpenFile", "open") /\ op' = [op EXCEPT ![t].step = "insert"]
      BY <1>4 DEF F!LookUpScan, F!LookUpSet, F!LookUpReply, F!OpenExtent, F!LookUpErr, F!OpenExtentErr
    <3>2. CASE F!Done(t)
      BY <1>i, <3>2, DoneMoves
    <3>3. CASE ~F!Done(t)
      BY <1>0, <3>1, <3>3, GoesOn DEF F!At
    <3> QED
      BY <3>2, <3>3
  <2> QED
    BY <1>1, <2>1, <2>2
<1>5. ASSUME NEW t \in Threads, F!Insert(t) PROVE Handles'
  <2> DEFINE h == nextFileHandle
  <2>1. /\ DOMAIN fileHandles' = DOMAIN fileHandles \cup {h}
        /\ \A x \in DOMAIN fileHandles' : fileHandles'[x] = IF x = h THEN op[t].ino ELSE fileHandles[x]
        /\ held' = held \cup {[h |-> h, ino |-> op[t].ino]} /\ F!Done(t)
    BY <1>5 DEF F!Insert
  <2>2. h \notin DOMAIN fileHandles
    BY <1>0 DEF Types
  <2>3. \A u \in Threads : Releasing(u)' => Releasing(u) /\ op'[u] = op[u]
    <3>1. Moves(t, F!Idle)
      BY <2>1, DoneMoves
    <3>2. op'[t] = F!Idle /\ \A u \in Threads : u # t => op'[u] = op[u]
      BY <1>0, <3>1, OneOp DEF Moves
    <3> QED
      BY <1>i, <3>2 DEF Releasing, F!At
  <2>4. \A x \in held' : x \in held \/ (x.h = h /\ x.ino = op[t].ino)
    BY <2>1
  <2> HIDE DEF h
  <2>5. \A x \in held' : x.h \in DOMAIN fileHandles' /\ fileHandles'[x.h] = x.ino
    BY <1>0, <2>1, <2>2, <2>4 DEF Handles
  <2>6. \A u \in Threads : Releasing(u)' => op'[u].h \in DOMAIN fileHandles' /\ fileHandles'[op'[u].h] = op'[u].ino
    BY <1>0, <2>1, <2>2, <2>3 DEF Handles
  <2>7. \A u \in Threads, x \in held' : Releasing(u)' => op'[u].h # x.h
    BY <1>0, <2>2, <2>3, <2>4 DEF Handles
  <2> QED
    BY <1>0, <2>3, <2>5, <2>6, <2>7 DEF Handles
<1>6. ASSUME NEW t \in Threads, F!ReleaseFileHandle(t) PROVE Handles'
  <2>1. /\ fileHandles' = [x \in DOMAIN fileHandles \ {op[t].h} |-> fileHandles[x]]
        /\ held' = held /\ F!Done(t) /\ Releasing(t)
    BY <1>6 DEF F!ReleaseFileHandle, F!kernelVars, Releasing
  <2>2. \A u \in Threads : Releasing(u)' => Releasing(u) /\ op'[u] = op[u] /\ u # t
    <3>1. Moves(t, F!Idle)
      BY <2>1, DoneMoves
    <3>2. op'[t] = F!Idle /\ \A u \in Threads : u # t => op'[u] = op[u]
      BY <1>0, <3>1, OneOp DEF Moves
    <3> QED
      BY <1>i, <3>2 DEF Releasing, F!At
  <2> QED
    BY <1>0, <2>1, <2>2 DEF Handles
<1>7. ASSUME NEW t \in Threads, NEW x \in held, F!Close(t, x) PROVE Handles'
  <2>1. fileHandles' = fileHandles /\ held' = held \ {x}
    BY <1>7 DEF F!Close, F!fsVars
  <2>2. PICK r : /\ Moves(t, r) /\ op[t] = F!Idle
                 /\ r.kind = "ReleaseFileHandle" /\ r.step = "release" /\ r.h = x.h /\ r.ino = x.ino
    BY <1>0, <1>7, CloseMoves
  <2>3. op'[t] = r /\ \A u \in Threads : u # t => op'[u] = op[u]
    BY <1>0, <2>2, OneOp DEF Moves
  <2>4. \A u \in Threads : u # t /\ Releasing(u)' => Releasing(u) /\ op'[u] = op[u]
    BY <2>3 DEF Releasing, F!At
  <2>5. \A y \in held : y.h = x.h => y = x
    <3>1. \A y \in held : y.h = x.h => y.ino = x.ino /\ y \in [h : Nat, ino : Files]
      BY <1>0 DEF Handles, Types
    <3>2. x \in [h : Nat, ino : Files]
      BY <1>0 DEF Types
    <3> QED
      BY <3>1, <3>2
  <2>6. \A u \in Threads, y \in held' : Releasing(u)' => op'[u].h # y.h
    BY <1>0, <2>1, <2>2, <2>3, <2>4, <2>5 DEF Handles
  <2>7. \A u \in Threads : Releasing(u)' => op'[u].h \in DOMAIN fileHandles' /\ fileHandles'[op'[u].h] = op'[u].ino
    BY <1>0, <2>1, <2>2, <2>3, <2>4 DEF Handles
  <2>8. \A u, v \in Threads : Releasing(u)' /\ Releasing(v)' /\ u # v => op'[u].h # op'[v].h
    BY <1>0, <2>2, <2>3, <2>4 DEF Handles
  <2> QED
    BY <1>0, <2>1, <2>6, <2>7, <2>8 DEF Handles
<1> QED
  BY <1>2, <1>3, <1>4, <1>5, <1>6, <1>7, StepKinds DEF F!Serve

LEMMA SetsFinite ==
    ASSUME Types, NEW i
    PROVE  /\ IsFiniteSet(HandlesOf(i)) /\ IsFiniteSet(Opening(i))
           /\ Cardinality(HandlesOf(i)) \in Nat /\ Cardinality(Opening(i)) \in Nat
<1>1. IsFiniteSet(HandlesOf(i))
  <2>1. HandlesOf(i) \subseteq DOMAIN fileHandles /\ IsFiniteSet(DOMAIN fileHandles)
    BY DEF HandlesOf, Types
  <2> QED
    BY <2>1, FS_Subset
<1>2. IsFiniteSet(Opening(i))
  <2>1. Opening(i) \subseteq Threads
    BY DEF Opening
  <2> QED
    BY <2>1, FS_Subset
<1> QED
  BY <1>1, <1>2, FS_CardinalityType

\* A request that neither was nor is about to insert a handle.
LEMMA OpeningSame ==
    ASSUME Types, NEW t \in Threads, NEW r, Moves(t, r), ~F!At(t, "OpenFile", "insert"),
           r.kind # "OpenFile" \/ r.step # "insert", NEW i
    PROVE  Opening(i)' = Opening(i)
<1>1. op'[t] = r /\ \A u \in Threads : u # t => op'[u] = op[u]
  BY OneOp DEF Moves
<1>2. \A u \in Threads : (F!At(u, "OpenFile", "insert") /\ op[u].ino = i)'
                            <=> F!At(u, "OpenFile", "insert") /\ op[u].ino = i
  <2> SUFFICES ASSUME NEW u \in Threads
               PROVE  (F!At(u, "OpenFile", "insert") /\ op[u].ino = i)'
                         <=> F!At(u, "OpenFile", "insert") /\ op[u].ino = i
    OBVIOUS
  <2>1. CASE u = t
    BY <1>1, <2>1 DEF F!At
  <2>2. CASE u # t
    BY <1>1, <2>2 DEF F!At
  <2> QED
    BY <2>1, <2>2
<1> QED
  BY <1>2 DEF Opening

\* As many objects of a file are open as handles read it or are being made.
LEMMA ObjectsStep == FuseInv /\ FuseStep => ObjectsCounted'
<1> SUFFICES ASSUME FuseInv, FuseStep, NEW i \in Files
             PROVE  opened'[i] = Cardinality(HandlesOf(i)') + Cardinality(Opening(i)')
  BY DEF ObjectsCounted, Files, F!Files, F!Inos
<1>0. Types /\ Handles /\ Types' /\ opened \in [Files -> Int]
  BY TypesStep DEF FuseInv, Types
<1>c. opened[i] = Cardinality(HandlesOf(i)) + Cardinality(Opening(i))
  BY DEF FuseInv, ObjectsCounted
<1>n. /\ IsFiniteSet(HandlesOf(i)) /\ IsFiniteSet(Opening(i))
      /\ Cardinality(HandlesOf(i)) \in Nat /\ Cardinality(Opening(i)) \in Nat
  BY <1>0, SetsFinite
<1>i. F!Idle.kind = "idle"
  BY DEF F!Idle
<1>1. ASSUME UNCHANGED <<fileHandles, opened>>,
             \/ op' = op
             \/ \E t \in Threads : \E r : /\ Moves(t, r) /\ ~F!At(t, "OpenFile", "insert")
                                          /\ r.kind # "OpenFile" \/ r.step # "insert"
      PROVE  opened'[i] = Cardinality(HandlesOf(i)') + Cardinality(Opening(i)')
  <2>1. HandlesOf(i)' = HandlesOf(i)
    BY <1>1 DEF HandlesOf
  <2>2. Opening(i)' = Opening(i)
    <3>1. CASE op' = op
      BY <3>1 DEF Opening, F!At
    <3> QED
      BY <1>0, <1>1, <3>1, OpeningSame
  <2> QED
    BY <1>1, <1>c, <2>1, <2>2
<1>2. CASE NoOp
  <2>1. UNCHANGED <<fileHandles, opened>>
    BY <1>2 DEF NoOp, F!GetInode, F!ReadDir, F!Drop, F!ReadFile, F!ForgetInode, F!ReadDirEnd, F!Umount,
         F!Signal, F!Server, F!SelectSignal, F!SelectJoined, F!CloseUnmount, F!CloseRecv, F!ServeJoin,
         F!JoinClose, fuseVars, F!fsVars, F!kernelVars
  <2> QED
    BY <1>1, <1>2, <2>1, NoOpStays
<1>3. ASSUME NEW t \in Threads,
             \/ \E k \in Inos, j \in Inos \ {1} : F!LookUpInode(t, k, Info[j].name)
             \/ \E k \in Inos : F!OpenFile(t, k)
             \/ \E x \in held : F!Close(t, x)
      PROVE  opened'[i] = Cardinality(HandlesOf(i)') + Cardinality(Opening(i)')
  <2>1. UNCHANGED <<fileHandles, opened>>
    BY <1>3 DEF F!LookUpInode, F!OpenFile, F!Close, F!fsVars
  <2>2. \E r : Moves(t, r) /\ op[t] = F!Idle /\ (r.kind # "OpenFile" \/ r.step # "insert")
    BY <1>0, <1>3, LookUpInodeMoves, OpenFileMoves, CloseMoves
  <2> QED
    BY <1>1, <1>i, <2>1, <2>2 DEF F!At
<1>4. ASSUME NEW t \in Threads, \/ F!LookUpScan(t) \/ F!LookUpSet(t) \/ F!LookUpReply(t)
                                \/ F!LookUpErr(t) \/ F!OpenExtentErr(t)
      PROVE  opened'[i] = Cardinality(HandlesOf(i)') + Cardinality(Opening(i)')
  <2>1. UNCHANGED <<fileHandles, opened>> /\ ~F!At(t, "OpenFile", "insert")
    BY <1>4 DEF F!LookUpScan, F!LookUpSet, F!LookUpReply, F!LookUpErr, F!OpenExtentErr,
       F!fsVars, F!kernelVars, F!At
  <2>2. \E r : Moves(t, r) /\ (r.kind # "OpenFile" \/ r.step # "insert")
    <3>1. \/ F!Done(t)
          \/ F!At(t, "LookUpInode", "miss") /\ op' = [op EXCEPT ![t].step = "set"]
          \/ F!At(t, "LookUpInode", "set") /\ op' = [op EXCEPT ![t].step = "reply"]
      BY <1>4 DEF F!LookUpScan, F!LookUpSet, F!LookUpReply, F!LookUpErr, F!OpenExtentErr
    <3>2. CASE F!Done(t)
      BY <1>i, <3>2, DoneMoves
    <3>3. CASE ~F!Done(t)
      BY <1>0, <3>1, <3>3, GoesOn DEF F!At
    <3> QED
      BY <3>2, <3>3
  <2> QED
    BY <1>1, <2>1, <2>2
<1>5. ASSUME NEW t \in Threads, F!OpenExtent(t)
      PROVE  opened'[i] = Cardinality(HandlesOf(i)') + Cardinality(Opening(i)')
  <2>1. /\ F!At(t, "OpenFile", "open") /\ opened' = [opened EXCEPT ![op[t].ino] = @ + 1]
        /\ op' = [op EXCEPT ![t].step = "insert"] /\ fileHandles' = fileHandles
    BY <1>5 DEF F!OpenExtent
  <2>2. PICK r : Moves(t, r) /\ r.kind = op[t].kind /\ r.step = "insert" /\ r.ino = op[t].ino
    BY <1>0, <2>1, GoesOn
  <2>3. op'[t] = r /\ \A u \in Threads : u # t => op'[u] = op[u]
    BY <1>0, <2>2, OneOp DEF Moves
  <2>4. Opening(i)' = IF op[t].ino = i THEN Opening(i) \cup {t} ELSE Opening(i)
    BY <2>1, <2>2, <2>3 DEF Opening, F!At
  <2>5. t \notin Opening(i)
    BY <2>1 DEF Opening, F!At
  <2>6. Cardinality(Opening(i) \cup {t}) = Cardinality(Opening(i)) + 1
    BY <1>n, <2>5, FS_AddElement
  <2>7. HandlesOf(i)' = HandlesOf(i)
    BY <2>1 DEF HandlesOf
  <2>8. opened'[i] = IF op[t].ino = i THEN opened[i] + 1 ELSE opened[i]
    BY <1>0, <2>1
  <2> QED
    BY <1>c, <1>n, <2>4, <2>6, <2>7, <2>8
<1>6. ASSUME NEW t \in Threads, F!Insert(t)
      PROVE  opened'[i] = Cardinality(HandlesOf(i)') + Cardinality(Opening(i)')
  <2> DEFINE h == nextFileHandle
  <2>1. /\ DOMAIN fileHandles' = DOMAIN fileHandles \cup {h}
        /\ \A x \in DOMAIN fileHandles' : fileHandles'[x] = IF x = h THEN op[t].ino ELSE fileHandles[x]
        /\ opened' = opened /\ F!Done(t) /\ F!At(t, "OpenFile", "insert")
    BY <1>6 DEF F!Insert
  <2>2. h \notin DOMAIN fileHandles
    BY <1>0 DEF Types
  <2>3. op'[t] = F!Idle /\ \A u \in Threads : u # t => op'[u] = op[u]
    <3>1. Moves(t, F!Idle)
      BY <2>1, DoneMoves
    <3> QED
      BY <1>0, <3>1, OneOp DEF Moves
  <2>4. Opening(i)' = Opening(i) \ {t}
    BY <1>i, <2>3 DEF Opening, F!At
  <2> HIDE DEF h
  <2>5. HandlesOf(i)' = IF op[t].ino = i THEN HandlesOf(i) \cup {h} ELSE HandlesOf(i)
    BY <2>1, <2>2 DEF HandlesOf
  <2>6. CASE op[t].ino = i
    <3>1. t \in Opening(i) /\ h \notin HandlesOf(i)
      BY <2>1, <2>2, <2>6 DEF Opening, HandlesOf
    <3>2. /\ Cardinality(HandlesOf(i) \cup {h}) = Cardinality(HandlesOf(i)) + 1
          /\ Cardinality(Opening(i) \ {t}) = Cardinality(Opening(i)) - 1
      BY <1>n, <3>1, FS_AddElement, FS_RemoveElement
    <3> QED
      BY <1>c, <1>n, <2>1, <2>4, <2>5, <2>6, <3>2
  <2>7. CASE op[t].ino # i
    <3>1. Opening(i) \ {t} = Opening(i)
      BY <2>7 DEF Opening
    <3> QED
      BY <1>c, <2>1, <2>4, <2>5, <2>7, <3>1
  <2> QED
    BY <2>6, <2>7
<1>7. ASSUME NEW t \in Threads, F!ReleaseFileHandle(t)
      PROVE  opened'[i] = Cardinality(HandlesOf(i)') + Cardinality(Opening(i)')
  <2> DEFINE h == op[t].h
  <2>1. Releasing(t) /\ F!Done(t) /\ fileHandles' = [x \in DOMAIN fileHandles \ {h} |-> fileHandles[x]]
    BY <1>7 DEF F!ReleaseFileHandle, Releasing
  <2>2. h \in DOMAIN fileHandles
    BY <1>0, <2>1 DEF Handles
  <2>3. opened' = [opened EXCEPT ![fileHandles[h]] = @ - 1]
    BY <1>7, <2>2 DEF F!ReleaseFileHandle
  <2>4. Opening(i)' = Opening(i)
    <3>1. Moves(t, F!Idle)
      BY <2>1, DoneMoves
    <3> QED
      BY <1>0, <1>i, <2>1, <3>1, OpeningSame DEF Releasing, F!At
  <2> HIDE DEF h
  <2>5. HandlesOf(i)' = HandlesOf(i) \ {h}
    BY <2>1 DEF HandlesOf
  <2>6. CASE fileHandles[h] = i
    <3>1. h \in HandlesOf(i)
      BY <2>2, <2>6 DEF HandlesOf
    <3>2. Cardinality(HandlesOf(i) \ {h}) = Cardinality(HandlesOf(i)) - 1
      BY <1>n, <3>1, FS_RemoveElement
    <3>3. opened'[i] = opened[i] - 1
      BY <1>0, <2>3, <2>6
    <3> QED
      BY <1>c, <1>n, <2>4, <2>5, <3>2, <3>3
  <2>7. CASE fileHandles[h] # i
    <3>1. HandlesOf(i) \ {h} = HandlesOf(i)
      BY <2>7 DEF HandlesOf
    <3>2. opened'[i] = opened[i]
      BY <1>0, <2>3, <2>7
    <3> QED
      BY <1>c, <2>4, <2>5, <3>1, <3>2
  <2> QED
    BY <2>6, <2>7
<1> QED
  BY <1>2, <1>3, <1>4, <1>5, <1>6, <1>7, StepKinds DEF F!Serve

\* IsoFuse counts as this module does.
LEMMA SameCount == ASSUME NEW S PROVE F!Cardinality(S) = Cardinality(S)
  BY DEF F!Cardinality, Cardinality

LEMMA CountedIsSound == Handles /\ ObjectsCounted => HandlesSound
<1> SUFFICES ASSUME Handles, ObjectsCounted PROVE HandlesSound
  OBVIOUS
<1>1. \A x \in held : x.h \in DOMAIN fileHandles /\ fileHandles[x.h] = x.ino
  BY DEF Handles
<1>2. \A i \in F!Files :
         opened[i] = Cardinality({h \in DOMAIN fileHandles : fileHandles[h] = i})
                     + Cardinality({t \in Threads : F!At(t, "OpenFile", "insert") /\ op[t].ino = i})
  BY Zenon DEF ObjectsCounted, HandlesOf, Opening, Files
<1>3. ASSUME NEW i \in F!Files
      PROVE  opened[i] = F!Cardinality({h \in DOMAIN fileHandles : fileHandles[h] = i})
                         + F!Cardinality({t \in Threads : F!At(t, "OpenFile", "insert") /\ op[t].ino = i})
  BY <1>2, SameCount, Zenon
<1> QED
  BY <1>1, <1>3, Zenon DEF HandlesSound, F!HandlesSound

----------------------------------------------------------------------------
(* Sums, as the sizes of sets of pairs *)

\* f[k] pairs for each k of I.
Pile(I, f) == UNION {{k} \X (1 .. f[k]) : k \in I}

LEMMA PileMember ==
    ASSUME NEW I, NEW f, NEW p
    PROVE  p \in Pile(I, f) <=> \E k \in I : \E x \in 1 .. f[k] : p = <<k, x>>
  BY DEF Pile

LEMMA PileOne ==
    ASSUME NEW k, NEW f, f[k] \in Nat
    PROVE  IsFiniteSet({k} \X (1 .. f[k])) /\ Cardinality({k} \X (1 .. f[k])) = f[k]
<1> DEFINE n == f[k]
           T == 1 .. n
<1>1. IsFiniteSet({k}) /\ Cardinality({k}) = 1
  BY FS_Singleton
<1>2. IsFiniteSet(T) /\ Cardinality(T) = n
  <2>1. IsFiniteSet(1 .. n) /\ Cardinality(1 .. n) = IF 1 > n THEN 0 ELSE n - 1 + 1
    BY FS_Interval
  <2> QED
    BY <2>1
<1> HIDE DEF T
<1>3. IsFiniteSet({k} \X T) /\ Cardinality({k} \X T) = Cardinality({k}) * Cardinality(T)
  BY <1>1, <1>2, FS_Product
<1>4. Cardinality({k} \X T) = n
  BY <1>1, <1>2, <1>3
<1> QED
  BY <1>3, <1>4 DEF T

LEMMA PileFinite ==
    ASSUME NEW I, IsFiniteSet(I), NEW f, \A k \in I : f[k] \in Nat
    PROVE  IsFiniteSet(Pile(I, f)) /\ Cardinality(Pile(I, f)) \in Nat
<1> DEFINE g == [k \in I |-> {k} \X (1 .. f[k])]
           T == {{k} \X (1 .. f[k]) : k \in I}
<1>1. g \in Surjection(I, T)
  BY DEF Surjection
<1>2. IsFiniteSet(T)
  BY <1>1, FS_Surjection
<1>3. \A S \in T : IsFiniteSet(S)
  <2> SUFFICES ASSUME NEW k \in I PROVE IsFiniteSet({k} \X (1 .. f[k]))
    OBVIOUS
  <2> QED
    BY PileOne
<1> HIDE DEF T
<1>4. IsFiniteSet(UNION T)
  BY <1>2, <1>3, FS_UNION
<1>5. IsFiniteSet(Pile(I, f))
  BY <1>4 DEF Pile, T
<1> QED
  BY <1>5, FS_CardinalityType

\* One more index.
LEMMA PileAdd ==
    ASSUME NEW I, IsFiniteSet(I), NEW f, NEW k, k \notin I, \A j \in I \cup {k} : f[j] \in Nat
    PROVE  Cardinality(Pile(I \cup {k}, f)) = Cardinality(Pile(I, f)) + f[k]
<1> DEFINE A == Pile(I, f)
           B == {k} \X (1 .. f[k])
<1>1. Pile(I \cup {k}, f) = A \cup B
  <2>1. \A p : p \in B <=> \E x \in 1 .. f[k] : p = <<k, x>>
    OBVIOUS
  <2> HIDE DEF B
  <2>2. \A p : p \in Pile(I \cup {k}, f) <=> p \in A \/ p \in B
    BY <2>1, PileMember
  <2> QED
    BY <2>2
<1>2. A \cap B = {}
  <2>1. \A p \in A : \E j \in I : \E x : p = <<j, x>>
    BY PileMember
  <2>2. \A p \in B : \E x : p = <<k, x>>
    OBVIOUS
  <2> HIDE DEF A, B
  <2> QED
    BY <2>1, <2>2
<1>3. IsFiniteSet(A) /\ Cardinality(A) \in Nat
  BY PileFinite
<1>4. IsFiniteSet(B) /\ Cardinality(B) = f[k]
  BY PileOne
<1> HIDE DEF A, B
<1>5. Cardinality(A \cup B) = Cardinality(A) + Cardinality(B) - Cardinality(A \cap B)
  BY <1>3, <1>4, FS_Union
<1>6. Cardinality(A \cap B) = 0
  BY <1>2, FS_EmptySet
<1>7. f[k] \in Nat
  OBVIOUS
<1>8. Cardinality(A \cup B) = Cardinality(A) + f[k]
  BY <1>3, <1>4, <1>5, <1>6, <1>7
<1> QED
  BY <1>1, <1>8 DEF A

\* Other indices with the same numbers.
LEMMA PileMoved ==
    ASSUME NEW I, IsFiniteSet(I), NEW J, NEW f, NEW g, NEW m,
           \A j \in J : m[j] \in I /\ g[j] = f[m[j]],
           \A i, j \in J : i # j => m[i] # m[j],
           \A i \in I : \E j \in J : m[j] = i,
           \A i \in I : f[i] \in Nat
    PROVE  Cardinality(Pile(J, g)) = Cardinality(Pile(I, f))
<1> DEFINE P == Pile(J, g)
           Q == Pile(I, f)
           b == [p \in P |-> <<m[p[1]], p[2]>>]
<1>1. \A p : p \in P <=> \E j \in J : \E x \in 1 .. g[j] : p = <<j, x>>
  BY PileMember
<1>2. \A p : p \in Q <=> \E i \in I : \E x \in 1 .. f[i] : p = <<i, x>>
  BY PileMember
<1> HIDE DEF P, Q
<1>3. b \in [P -> Q]
  <2> SUFFICES ASSUME NEW p \in P PROVE <<m[p[1]], p[2]>> \in Q
    OBVIOUS
  <2>1. PICK j \in J : \E x \in 1 .. g[j] : p = <<j, x>>
    BY <1>1
  <2>2. PICK x \in 1 .. g[j] : p = <<j, x>>
    BY <2>1
  <2>3. p[1] = j /\ p[2] = x /\ m[j] \in I /\ x \in 1 .. f[m[j]]
    BY <2>2
  <2> QED
    BY <1>2, <2>3
<1>4. ASSUME NEW p \in P, NEW q1 \in P, b[p] = b[q1] PROVE p = q1
  <2>1. PICK j \in J : \E x \in 1 .. g[j] : p = <<j, x>>
    BY <1>1
  <2>2. PICK i \in J : \E x \in 1 .. g[i] : q1 = <<i, x>>
    BY <1>1
  <2>3. p = <<j, p[2]>> /\ q1 = <<i, q1[2]>> /\ p[1] = j /\ q1[1] = i
    BY <2>1, <2>2
  <2>4. m[j] = m[i] /\ p[2] = q1[2]
    BY <1>4, <2>3
  <2>5. i = j
    BY <2>4
  <2> QED
    BY <2>3, <2>4, <2>5
<1>5. b \in Injection(P, Q)
  BY <1>3, <1>4 DEF Injection, IsInjective
<1>6. ASSUME NEW r \in Q PROVE \E p \in P : b[p] = r
  <2>1. PICK i \in I : \E x \in 1 .. f[i] : r = <<i, x>>
    BY <1>2
  <2>2. PICK x \in 1 .. f[i] : r = <<i, x>>
    BY <2>1
  <2>3. PICK j \in J : m[j] = i
    OBVIOUS
  <2>4. <<j, x>> \in P
    BY <1>1, <2>2, <2>3
  <2>5. b[<<j, x>>] = r
    BY <2>2, <2>3, <2>4
  <2> QED
    BY <2>4, <2>5
<1>7. b \in Surjection(P, Q)
  BY <1>3, <1>6 DEF Surjection
<1>8. IsFiniteSet(Q)
  BY PileFinite DEF Q
<1>9. Cardinality(P) = Cardinality(Q)
  <2> HIDE DEF b
  <2> QED
    BY <1>5, <1>7, <1>8, FS_Injection
<1> QED
  BY <1>9 DEF P, Q

----------------------------------------------------------------------------
(* The kernel holds what it uses *)

LEMMA InUseStep == FuseInv /\ FuseStep => InUseHeld'
<1> SUFFICES ASSUME FuseInv, FuseStep PROVE InUseHeld'
  OBVIOUS
<1>0. Types /\ InUseHeld
  BY DEF FuseInv
<1>i. F!Idle.kind = "idle" /\ F!Idle.ino = 0
  BY DEF F!Idle
<1>t. nlookup \in [Inos -> Nat] /\ op \in [Threads -> OpType]
  BY <1>0 DEF Types
\* Inodes that are in use stay with the kernel.
<1> DEFINE Used(i) == \/ \E t \in Threads : op[t] # F!Idle /\ op[t].ino = i
                      \/ \E x \in held : x.ino = i
                      \/ stream.ino = i /\ i # 0
<1>1. ASSUME NEW i, Used(i) \/ (F!Known(i) /\ ~\E j \in Inos : F!Drop(j))
      PROVE  (i = 1 \/ nlookup'[i] > 0)
  <2>1. i = 1 \/ nlookup[i] > 0
    BY <1>0, <1>1 DEF InUseHeld, Holds, F!Known
  <2>2. nlookup' = nlookup \/ (\E t \in Threads : nlookup' = [nlookup EXCEPT ![F!Child(t)] = @ + 1])
        \/ (\E j \in Inos : F!Drop(j))
    BY StepKinds DEF NoOp, F!GetInode, F!ReadDir, F!ReadFile, F!ForgetInode, F!ReadDirEnd, F!Umount,
         F!Signal, F!Server, F!SelectSignal, F!SelectJoined, F!CloseUnmount, F!CloseRecv, F!ServeJoin,
         F!JoinClose, fuseVars, F!kernelVars, F!Serve, F!LookUpScan, F!LookUpSet, F!LookUpReply,
         F!OpenExtent, F!Insert, F!ReleaseFileHandle, F!LookUpErr, F!OpenExtentErr, F!LookUpInode,
         F!OpenFile, F!Close
  <2>3. ASSUME NEW t \in Threads, nlookup' = [nlookup EXCEPT ![F!Child(t)] = @ + 1], i # 1
        PROVE  nlookup'[i] > 0
    <3>1. CASE i \in Inos
      BY <1>t, <2>1, <2>3, <3>1
    <3>2. CASE i \notin Inos
      BY <1>t, <2>1, <2>3, <3>2
    <3> QED
      BY <3>1, <3>2
  <2>4. ASSUME NEW j \in Inos, F!Drop(j) PROVE nlookup'[i] = nlookup[i]
    <3>1. Used(i)
      BY <1>1, <2>4
    <3>2. i # j
      BY <3>1, <2>4 DEF F!Drop, F!InUse
    <3> QED
      BY <1>t, <2>4, <3>2 DEF F!Drop
  <2> QED
    BY <2>1, <2>2, <2>3, <2>4
<1> HIDE DEF Used
<1>2. \A t \in Threads : op'[t] # F!Idle => Holds(op[t].ino)'
  <2>1. CASE op' = op
    BY <1>1, <2>1 DEF Used, Holds
  <2>2. ASSUME NEW t \in Threads, NEW r, Moves(t, r), NEW u \in Threads, op'[u] # F!Idle
        PROVE  Holds(op[u].ino)'
    <3>1. op'[t] = r /\ \A v \in Threads : v # t => op'[v] = op[v]
      BY <1>0, <2>2, OneOp DEF Moves
    <3>2. Used(op'[u].ino) \/ (op' # op /\ F!Known(op'[u].ino))
      BY <2>2, <3>1 DEF Moves, Used
    <3>3. op' # op => ~\E j \in Inos : F!Drop(j)
      BY DEF F!Drop
    <3> QED
      BY <1>1, <3>2, <3>3 DEF Holds
  <2> QED
    BY <1>0, <2>1, <2>2, OpMoves
<1>3. \A x \in held' : Holds(x.ino)'
  <2>1. \A x \in held' : x \in held \/ (\E t \in Threads : op[t] # F!Idle /\ x.ino = op[t].ino)
    <3>1. ASSUME NEW t \in Threads, F!Insert(t)
          PROVE  \A x \in held' : x \in held \/ (op[t] # F!Idle /\ x.ino = op[t].ino)
      BY <1>i, <3>1 DEF F!Insert, F!At
    <3>2. held' \subseteq held \/ \E t \in Threads : F!Insert(t)
      BY StepKinds DEF NoOp, F!GetInode, F!ReadDir, F!Drop, F!ReadFile, F!ForgetInode, F!ReadDirEnd,
         F!Umount, F!Signal, F!Server, F!SelectSignal, F!SelectJoined, F!CloseUnmount, F!CloseRecv,
         F!ServeJoin, F!JoinClose, fuseVars, F!kernelVars, F!Serve, F!LookUpScan, F!LookUpSet,
         F!LookUpReply, F!OpenExtent, F!ReleaseFileHandle, F!LookUpErr, F!OpenExtentErr, F!LookUpInode,
         F!OpenFile, F!Close
    <3> QED
      BY <3>1, <3>2
  <2> QED
    BY <1>1, <2>1 DEF Used, Holds
<1>4. stream'.ino # 0 => stream'.ino \in Inos /\ Holds(stream.ino)'
  <2>1. ASSUME NEW i \in Inos, F!ReadDir(i) PROVE stream'.ino \in Inos /\ Holds(stream.ino)'
    <3>1. stream'.ino = i /\ F!Known(i) /\ nlookup' = nlookup
      BY <2>1 DEF F!ReadDir, F!ReadDirSome
    <3> QED
      BY <2>1, <3>1 DEF F!Known, Holds
  <2>2. CASE F!ReadDirEnd
    BY <2>2 DEF F!ReadDirEnd, F!NoStream
  <2>3. stream' = stream \/ F!ReadDirEnd \/ \E i \in Inos : F!ReadDir(i)
    BY StepKinds DEF NoOp, F!GetInode, F!Drop, F!ReadFile, F!ForgetInode,
         F!Umount, F!Signal, F!Server, F!SelectSignal, F!SelectJoined, F!CloseUnmount, F!CloseRecv,
         F!ServeJoin, F!JoinClose, fuseVars, F!kernelVars, F!Serve, F!LookUpScan, F!LookUpSet,
         F!LookUpReply, F!OpenExtent, F!Insert, F!ReleaseFileHandle, F!LookUpErr, F!OpenExtentErr,
         F!LookUpInode, F!OpenFile, F!Close
  <2>4. CASE stream' = stream
    BY <1>0, <1>1, <2>4 DEF Used, Holds, InUseHeld
  <2> QED
    BY <2>1, <2>2, <2>3, <2>4
<1>5. (\A t \in Threads : op[t] # F!Idle => Holds(op[t].ino))'
  BY <1>2 DEF F!Idle
<1> QED
  BY <1>3, <1>4, <1>5 DEF InUseHeld

----------------------------------------------------------------------------
(* The server knows what the kernel holds *)

\* The forgets of inode i among those on their way, fs, and for how many lookups
\* each is.
ForgetType        == [ino : Inos \ {1}, n : Nat \ {0}]
Forgetting(fs, i) == {k \in DOMAIN fs : fs[k].ino = i}
Amounts(fs)       == [k \in DOMAIN fs |-> fs[k].n]
Forgotten(fs, i)  == Pile(Forgetting(fs, i), Amounts(fs))

LEMMA ForgottenFinite ==
    ASSUME NEW fs \in Seq(ForgetType), NEW i
    PROVE  /\ IsFiniteSet(Forgetting(fs, i))
           /\ \A k \in Forgetting(fs, i) : Amounts(fs)[k] \in Nat /\ Amounts(fs)[k] = fs[k].n
           /\ IsFiniteSet(Forgotten(fs, i)) /\ Cardinality(Forgotten(fs, i)) \in Nat
           /\ Forgotten(fs, i) = UNION {{k} \X (1 .. fs[k].n) : k \in Forgetting(fs, i)}
<1>2. /\ Len(fs) \in Nat /\ DOMAIN fs = 1 .. Len(fs)
      /\ \A k \in DOMAIN fs : fs[k] \in ForgetType
  OBVIOUS
<1>3. IsFiniteSet(DOMAIN fs)
  <2>1. IsFiniteSet(1 .. Len(fs))
    BY <1>2, FS_Interval
  <2> QED
    BY <1>2, <2>1
<1>4. IsFiniteSet(Forgetting(fs, i))
  BY <1>3, FS_Subset DEF Forgetting
<1>5. \A k \in Forgetting(fs, i) : Amounts(fs)[k] \in Nat /\ Amounts(fs)[k] = fs[k].n
  BY <1>2 DEF Forgetting, Amounts, ForgetType
<1> DEFINE U == UNION {{k} \X (1 .. fs[k].n) : k \in Forgetting(fs, i)}
<1>6. Forgotten(fs, i) = U
  <2>1. \A p : p \in U <=> \E k \in Forgetting(fs, i) : \E x \in 1 .. fs[k].n : p = <<k, x>>
    OBVIOUS
  <2> HIDE DEF U
  <2>2. \A p : p \in U <=> p \in Forgotten(fs, i)
    BY <1>5, <2>1, PileMember DEF Forgotten
  <2> QED
    BY <2>2
<1>7. IsFiniteSet(Forgotten(fs, i)) /\ Cardinality(Forgotten(fs, i)) \in Nat
  BY <1>4, <1>5, PileFinite DEF Forgotten
<1> QED
  BY <1>4, <1>5, <1>6, <1>7

\* One more forget is sent.
LEMMA ForgottenAppend ==
    ASSUME NEW fs \in Seq(ForgetType), NEW f \in ForgetType, NEW i
    PROVE  Cardinality(Forgotten(Append(fs, f), i))
              = Cardinality(Forgotten(fs, i)) + (IF f.ino = i THEN f.n ELSE 0)
<1> DEFINE gs == Append(fs, f)
           l  == Len(fs) + 1
           I  == Forgetting(fs, i)
<1>1. /\ Len(fs) \in Nat /\ DOMAIN fs = 1 .. Len(fs) /\ DOMAIN gs = 1 .. l
      /\ gs \in Seq(ForgetType) /\ gs[l] = f /\ \A k \in 1 .. Len(fs) : gs[k] = fs[k]
  OBVIOUS
<1> HIDE DEF gs
<1>2. /\ l \notin I /\ Forgetting(gs, i) = IF f.ino = i THEN I \cup {l} ELSE I
  <2>1. DOMAIN gs = DOMAIN fs \cup {l} /\ l \notin DOMAIN fs /\ \A k \in DOMAIN fs : gs[k] = fs[k]
    BY <1>1
  <2> HIDE DEF l
  <2> QED
    BY <1>1, <2>1 DEF Forgetting
<1> HIDE DEF l, I
<1>3. /\ IsFiniteSet(I) /\ \A k \in I : Amounts(fs)[k] \in Nat /\ Amounts(fs)[k] = fs[k].n
      /\ \A k \in Forgetting(gs, i) : Amounts(gs)[k] \in Nat /\ Amounts(gs)[k] = gs[k].n
      /\ Cardinality(Forgotten(fs, i)) \in Nat
  BY <1>1, ForgottenFinite DEF I
<1>4. Cardinality(Pile(I, Amounts(gs))) = Cardinality(Forgotten(fs, i))
  <2>1. \A k \in I : Amounts(gs)[k] = Amounts(fs)[k]
    BY <1>1, <1>2, <1>3 DEF I, Forgetting
  <2>2. \A p : p \in Pile(I, Amounts(gs)) <=> p \in Pile(I, Amounts(fs))
    BY <2>1, PileMember
  <2>3. Pile(I, Amounts(gs)) = Pile(I, Amounts(fs))
    BY <2>2
  <2> QED
    BY <2>3 DEF Forgotten, I
<1>5. CASE f.ino = i
  <2>1. \A k \in I \cup {l} : Amounts(gs)[k] \in Nat
    BY <1>2, <1>3, <1>5
  <2>2. Amounts(gs)[l] = f.n
    BY <1>1, <1>2, <1>3, <1>5
  <2> DEFINE B == Amounts(gs)
  <2> HIDE DEF B
  <2>a. IsFiniteSet(I) /\ l \notin I /\ (\A k \in I \cup {l} : B[k] \in Nat) /\ B[l] = f.n
    BY <1>2, <1>3, <2>1, <2>2 DEF B
  <2>b. Cardinality(Pile(I \cup {l}, B)) = Cardinality(Pile(I, B)) + B[l]
    BY <2>a, PileAdd
  <2>3. Cardinality(Pile(I \cup {l}, Amounts(gs))) = Cardinality(Pile(I, Amounts(gs))) + f.n
    BY <2>a, <2>b DEF B
  <2> QED
    BY <1>2, <1>4, <1>5, <2>3 DEF Forgotten, gs
<1>6. CASE f.ino # i
  BY <1>2, <1>3, <1>4, <1>6 DEF Forgotten, gs
<1> QED
  BY <1>5, <1>6

\* A forget arrives, whichever it is.
LEMMA ForgottenRemove ==
    ASSUME NEW fs \in Seq(ForgetType), NEW k \in DOMAIN fs, NEW i
    PROVE  Cardinality(Forgotten(fs, i))
              = Cardinality(Forgotten(F!RemoveAt(fs, k), i)) + (IF fs[k].ino = i THEN fs[k].n ELSE 0)
<1> DEFINE gs == F!RemoveAt(fs, k)
           l  == Len(fs)
           I  == Forgetting(fs, i)
           J  == Forgetting(gs, i)
           m  == [j \in J |-> IF j < k THEN j ELSE j + 1]
<1>1. /\ l \in Nat /\ k \in 1 .. l /\ DOMAIN fs = 1 .. l
      /\ gs \in Seq(ForgetType) /\ Len(gs) = l - 1 /\ DOMAIN gs = 1 .. l - 1
      /\ \A j \in 1 .. l - 1 : gs[j] = IF j < k THEN fs[j] ELSE fs[j + 1]
  <2>1. /\ gs \in Seq(ForgetType) /\ l \in Nat /\ k \in 1 .. l /\ Len(gs) = l - 1
        /\ \A j \in 1 .. l - 1 : gs[j] = IF j < k THEN fs[j] ELSE fs[j + 1]
    BY Removed
  <2> HIDE DEF gs
  <2> QED
    BY <2>1
<1> HIDE DEF gs
<1>2. /\ IsFiniteSet(I) /\ \A j \in I : Amounts(fs)[j] \in Nat /\ Amounts(fs)[j] = fs[j].n
      /\ \A j \in J : Amounts(gs)[j] \in Nat /\ Amounts(gs)[j] = gs[j].n
      /\ Cardinality(Forgotten(gs, i)) \in Nat
  BY <1>1, ForgottenFinite
<1> HIDE DEF l
<1>3. ASSUME NEW j \in J
      PROVE  j \in 1 .. l - 1 /\ m[j] \in I \ {k} /\ Amounts(gs)[j] = Amounts(fs)[m[j]]
  <2>1. j \in 1 .. l - 1 /\ gs[j].ino = i
    BY <1>1 DEF Forgetting
  <2> DEFINE c == m[j]
  <2>2. c = IF j < k THEN j ELSE j + 1
    OBVIOUS
  <2>3. c \in 1 .. l /\ c # k /\ gs[j] = fs[c]
    BY <1>1, <2>1, <2>2
  <2> HIDE DEF c
  <2>4. c \in I
    BY <1>1, <2>1, <2>3 DEF Forgetting
  <2>5. Amounts(gs)[j] = Amounts(fs)[c]
    BY <1>2, <2>3, <2>4
  <2> QED
    BY <2>1, <2>3, <2>4, <2>5 DEF c
<1>4. ASSUME NEW a \in J, NEW b \in J, a # b PROVE m[a] # m[b]
  <2>1. a \in 1 .. l - 1 /\ b \in 1 .. l - 1
    BY <1>3
  <2> QED
    BY <1>1, <1>4, <2>1
<1>5. ASSUME NEW c \in I \ {k} PROVE \E j \in J : m[j] = c
  <2>1. c \in 1 .. l /\ c # k /\ fs[c].ino = i
    BY <1>1 DEF Forgetting
  <2> DEFINE j == IF c < k THEN c ELSE c - 1
  <2>2. j \in 1 .. l - 1 /\ c = IF j < k THEN j ELSE j + 1
    BY <1>1, <2>1
  <2> HIDE DEF j
  <2>3. gs[j] = fs[c]
    BY <1>1, <2>2
  <2>4. j \in J
    BY <1>1, <2>1, <2>2, <2>3 DEF Forgetting
  <2> QED
    BY <2>2, <2>4
<1>6. IsFiniteSet(I \ {k})
  BY <1>2, FS_Subset
<1> HIDE DEF I, J, m
<1>7. Cardinality(Pile(J, Amounts(gs))) = Cardinality(Pile(I \ {k}, Amounts(fs)))
  <2> DEFINE K == I \ {k}
             A == Amounts(fs)
             B == Amounts(gs)
  <2>1. /\ IsFiniteSet(K) /\ \A j \in J : m[j] \in K /\ B[j] = A[m[j]]
        /\ \A j \in K : A[j] \in Nat
    BY <1>2, <1>3, <1>6
  <2>2. /\ \A a, b \in J : a # b => m[a] # m[b]
        /\ \A c \in K : \E j \in J : m[j] = c
    BY <1>4, <1>5
  <2> HIDE DEF K, A, B
  <2>3. Cardinality(Pile(J, B)) = Cardinality(Pile(K, A))
    BY <2>1, <2>2, PileMoved
  <2> QED
    BY <2>3 DEF K, A, B
<1>8. CASE fs[k].ino = i
  <2>1. k \in I
    BY <1>8 DEF I, Forgetting
  <2>2. (I \ {k}) \cup {k} = I /\ Amounts(fs)[k] = fs[k].n
    BY <1>2, <2>1
  <2> DEFINE K == I \ {k}
             A == Amounts(fs)
  <2>3. IsFiniteSet(K) /\ k \notin K /\ (\A j \in K \cup {k} : A[j] \in Nat)
    BY <1>2, <1>6, <2>1
  <2> HIDE DEF K, A
  <2>4. Cardinality(Pile(K \cup {k}, A)) = Cardinality(Pile(K, A)) + A[k]
    BY <2>3, PileAdd
  <2>5. Cardinality(Pile(I, Amounts(fs))) = Cardinality(Pile(I \ {k}, Amounts(fs))) + fs[k].n
    BY <2>2, <2>4 DEF K, A
  <2>6. Cardinality(Forgotten(fs, i)) = Cardinality(Forgotten(gs, i)) + fs[k].n
    BY <1>7, <2>5 DEF Forgotten, I, J
  <2> QED
    BY <1>8, <2>6 DEF gs
<1>9. CASE fs[k].ino # i
  <2>1. I \ {k} = I
    BY <1>9 DEF I, Forgetting
  <2>2. Cardinality(Forgotten(fs, i)) = Cardinality(Forgotten(gs, i))
    BY <1>7, <2>1 DEF Forgotten, I, J
  <2> QED
    BY <1>2, <1>9, <2>2 DEF gs
<1> QED
  BY <1>8, <1>9

LEMMA Messages ==
    ASSUME Types, NEW i
    PROVE  /\ F!Going(i) = Forgotten(forgets, i) /\ Cardinality(F!Going(i)) \in Nat
           /\ IsFiniteSet(F!Coming(i)) /\ Cardinality(F!Coming(i)) \in Nat
<1>1. forgets \in Seq(ForgetType)
  BY DEF Types, ForgetType
<1>2. F!Going(i) = UNION {{k} \X (1 .. forgets[k].n) : k \in Forgetting(forgets, i)}
  BY DEF F!Going, Forgetting
<1>3. IsFiniteSet(F!Coming(i))
  <2>1. F!Coming(i) \subseteq Threads
    BY DEF F!Coming
  <2> QED
    BY <2>1, FS_Subset
<1>4. Cardinality(F!Coming(i)) \in Nat
  BY <1>3, FS_CardinalityType
<1> QED
  BY <1>1, <1>2, <1>3, <1>4, ForgottenFinite

LEMMA HeldKnown ==
    ASSUME Types, Counts, NEW i \in Inos, Holds(i)
    PROVE  i \in DOMAIN finfos
<1>1. CASE i = 1
  BY <1>1 DEF Counts
<1>2. CASE i # 1
  <2> DEFINE c == Cardinality(F!Coming(i))
             g == Cardinality(F!Going(i))
  <2>1. c \in Nat /\ g \in Nat
    BY Messages
  <2>2. nlookup[i] \in Nat /\ nlookup[i] > 0
    BY <1>2 DEF Types, Holds
  <2>3. i \notin DOMAIN finfos => nlookup[i] + c + g = 0
    BY <1>2 DEF Counts, CountedRight, Lookups
  <2> HIDE DEF c, g
  <2> QED
    BY <2>1, <2>2, <2>3
<1> QED
  BY <1>1, <1>2

LEMMA NotRefused == FuseInv /\ FuseStep => ~refused'
<1> SUFFICES ASSUME FuseInv, FuseStep PROVE ~refused'
  OBVIOUS
<1>0. Types /\ Counts /\ InUseHeld /\ Handles /\ ~refused
  BY DEF FuseInv
<1>1. ASSUME NEW i \in Inos, F!Known(i) PROVE i \in DOMAIN finfos
  BY <1>0, <1>1, HeldKnown DEF F!Known, Holds
<1>2. ASSUME NEW i \in Inos, F!GetInode(i) \/ F!ReadDir(i) PROVE ~refused'
  BY <1>0, <1>1, <1>2 DEF F!GetInode, F!ReadDir, F!Refuse
<1>3. ASSUME NEW t \in Threads, NEW i \in Inos, F!OpenFile(t, i) PROVE ~refused'
  <2>1. F!Known(i)
    BY <1>3, OpenFileMoves
  <2> QED
    BY <1>0, <1>1, <1>3, <2>1 DEF F!OpenFile, F!Refuse
<1>4. ASSUME NEW t \in Threads, F!LookUpScan(t) PROVE ~refused'
  <2>1. op[t].kind = "LookUpInode" /\ F!Idle.kind = "idle"
    BY <1>4 DEF F!LookUpScan, F!At, F!Idle
  <2>2. op[t] # F!Idle /\ OpShape(op[t])
    BY <1>0, <2>1 DEF Types
  <2>3. op[t].ino \in Inos /\ Holds(op[t].ino)
    BY <1>0, <2>1, <2>2 DEF OpShape, InUseHeld
  <2>4. op[t].ino \in DOMAIN finfos
    BY <1>0, <2>3, HeldKnown
  <2> QED
    BY <1>0, <1>4, <2>4 DEF F!LookUpScan, F!Refuse
<1>5. ASSUME NEW x \in held, F!ReadFile(x) PROVE ~refused'
  BY <1>0, <1>5 DEF F!ReadFile, F!Refuse, Handles
<1>6. ASSUME NEW t \in Threads, F!ReleaseFileHandle(t) PROVE ~refused'
  BY <1>0, <1>6 DEF F!ReleaseFileHandle, F!Refuse, Handles, Releasing
<1>7. \/ refused' = refused
      \/ \E i \in Inos : F!GetInode(i) \/ F!ReadDir(i)
      \/ \E t \in Threads, i \in Inos : F!OpenFile(t, i)
      \/ \E t \in Threads : F!LookUpScan(t) \/ F!ReleaseFileHandle(t)
      \/ \E x \in held : F!ReadFile(x)
  BY StepKinds DEF NoOp, F!Drop, F!ForgetInode, F!ReadDirEnd, F!Umount,
     F!Signal, F!Server, F!SelectSignal, F!SelectJoined, F!CloseUnmount, F!CloseRecv,
     F!ServeJoin, F!JoinClose, fuseVars, F!fsVars, F!Serve, F!LookUpSet,
     F!LookUpReply, F!OpenExtent, F!Insert, F!LookUpErr, F!OpenExtentErr,
     F!LookUpInode, F!Close
<1> QED
  BY <1>0, <1>2, <1>3, <1>4, <1>5, <1>6, <1>7

\* A request that neither was nor is about to be answered with an inode.
LEMMA ComingSame ==
    ASSUME Types, NEW t \in Threads, NEW r, Moves(t, r), ~F!At(t, "LookUpInode", "reply"),
           r.kind # "LookUpInode" \/ r.step # "reply", NEW i
    PROVE  F!Coming(i)' = F!Coming(i)
<1>1. op'[t] = r /\ \A u \in Threads : u # t => op'[u] = op[u]
  BY OneOp DEF Moves
<1>2. \A u \in Threads : (F!At(u, "LookUpInode", "reply") /\ F!Child(u) = i)'
                            <=> F!At(u, "LookUpInode", "reply") /\ F!Child(u) = i
  <2> SUFFICES ASSUME NEW u \in Threads
               PROVE  (F!At(u, "LookUpInode", "reply") /\ F!Child(u) = i)'
                         <=> F!At(u, "LookUpInode", "reply") /\ F!Child(u) = i
    OBVIOUS
  <2>1. CASE u = t
    BY <1>1, <2>1 DEF F!At
  <2>2. CASE u # t
    <3>1. op'[u] = op[u]
      BY <1>1, <2>2
    <3>2. F!Child(u)' = F!Child(u)
      BY <3>1 DEF F!Child, F!Inos
    <3> QED
      BY <3>1, <3>2 DEF F!At
  <2> QED
    BY <2>1, <2>2
<1> QED
  BY <1>2 DEF F!Coming

\* Each step keeps the count of an inode right: lookups are counted when the
\* entry is made, and not again when the kernel hears of them, and a forget is
\* worth what the kernel had counted.
LEMMA CountsStep == FuseInv /\ FuseStep => Counts'
<1> SUFFICES ASSUME FuseInv, FuseStep PROVE Counts'
  OBVIOUS
<1>0. Types /\ Counts /\ Types' /\ nlookup \in [Inos -> Nat] /\ 1 \in DOMAIN finfos
  BY TypesStep DEF FuseInv, Types, Counts
<1>f. forgets \in Seq(ForgetType)
  BY <1>0 DEF Types, ForgetType
<1>i. F!Idle.kind = "idle"
  BY DEF F!Idle
<1>r. 1 \in DOMAIN finfos'
  <2>1. ASSUME NEW k \in DOMAIN forgets, F!ForgetInode(k) PROVE 1 \in DOMAIN finfos'
    <3>0. forgets[k] \in ForgetType
      BY <1>f
    <3>1. forgets[k].ino # 1
      BY <3>0 DEF ForgetType
    <3> QED
      BY <1>0, <2>1, <3>1 DEF F!ForgetInode
  <2>2. ASSUME NEW t \in Threads, F!LookUpSet(t) PROVE 1 \in DOMAIN finfos'
    BY <1>0, <2>2 DEF F!LookUpSet, F!Set
  <2>3. \/ finfos' = finfos \/ (\E k \in DOMAIN forgets : F!ForgetInode(k))
        \/ \E t \in Threads : F!LookUpSet(t)
    BY StepKinds DEF NoOp, F!GetInode, F!Drop, F!ReadFile, F!ReadDir, F!ReadDirEnd,
         F!Umount, F!Signal, F!Server, F!SelectSignal, F!SelectJoined, F!CloseUnmount, F!CloseRecv,
         F!ServeJoin, F!JoinClose, fuseVars, F!fsVars, F!Serve, F!LookUpScan,
         F!LookUpReply, F!OpenExtent, F!Insert, F!ReleaseFileHandle, F!LookUpErr, F!OpenExtentErr,
         F!LookUpInode, F!OpenFile, F!Close
  <2> QED
    BY <1>0, <2>1, <2>2, <2>3
<1> SUFFICES ASSUME NEW i \in Inos \ {1} PROVE CountedRight(i)'
  BY <1>r DEF Counts, Inos
<1> DEFINE c == Cardinality(F!Coming(i))
           g == Cardinality(F!Going(i))
           n == nlookup[i]
<1>1. /\ n \in Nat /\ c \in Nat /\ g \in Nat /\ IsFiniteSet(F!Coming(i))
      /\ g = Cardinality(Forgotten(forgets, i))
  BY <1>0, Messages
<1>2. g' = Cardinality(Forgotten(forgets', i))
  <2>1. forgets' \in Seq(ForgetType)
    BY <1>0 DEF Types, ForgetType, Inos
  <2>2. F!Going(i)' = UNION {{k} \X (1 .. forgets'[k].n) : k \in Forgetting(forgets', i)}
    BY DEF F!Going, Forgetting
  <2> QED
    BY <2>1, <2>2, ForgottenFinite
<1>3. IF i \in DOMAIN finfos THEN finfos[i] = [RefCnt |-> n + c + g, Info |-> Info[i]] ELSE n + c + g = 0
  BY <1>0 DEF Counts, CountedRight, Lookups
<1>4. ASSUME IF i \in DOMAIN finfos' THEN finfos'[i] = [RefCnt |-> n' + c' + g', Info |-> Info[i]]
             ELSE n' + c' + g' = 0
      PROVE  CountedRight(i)'
  BY <1>4 DEF CountedRight, Lookups
<1>5. ASSUME UNCHANGED <<finfos, nlookup, forgets>>,
             \/ op' = op
             \/ \E t \in Threads : \E r : /\ Moves(t, r) /\ ~F!At(t, "LookUpInode", "reply")
                                          /\ r.kind # "LookUpInode" \/ r.step # "reply"
      PROVE  CountedRight(i)'
  <2>1. F!Coming(i)' = F!Coming(i)
    <3>1. CASE op' = op
      BY <3>1 DEF F!Coming, F!At, F!Child, F!Inos
    <3> QED
      BY <1>0, <1>5, <3>1, ComingSame
  <2>2. n' = n /\ c' = c /\ g' = g
    BY <1>1, <1>2, <1>5, <2>1
  <2> HIDE DEF n, c, g
  <2> QED
    BY <1>3, <1>4, <1>5, <2>2
<1>6. ASSUME NEW k \in DOMAIN forgets, F!ForgetInode(k) PROVE CountedRight(i)'
  <2> DEFINE f == forgets[k]
  <2>1. /\ forgets' = F!RemoveAt(forgets, k) /\ nlookup' = nlookup /\ op' = op
        /\ finfos' = IF f.ino \notin DOMAIN finfos THEN finfos
                     ELSE IF finfos[f.ino].RefCnt > f.n
                     THEN [finfos EXCEPT ![f.ino].RefCnt = @ - f.n]
                     ELSE [j \in DOMAIN finfos \ {f.ino} |-> finfos[j]]
    BY <1>6 DEF F!ForgetInode
  <2>2. F!Coming(i)' = F!Coming(i)
    BY <2>1 DEF F!Coming, F!At, F!Child, F!Inos
  <2>3. n' = n /\ c' = c
    BY <2>1, <2>2
  <2>4. g = g' + (IF f.ino = i THEN f.n ELSE 0)
    BY <1>1, <1>2, <1>f, <2>1, ForgottenRemove
  <2>5. g' \in Nat /\ f.n \in Nat
    <3>1. f \in ForgetType
      BY <1>f
    <3>2. f.n \in Nat
      BY <3>1 DEF ForgetType
    <3>3. F!RemoveAt(forgets, k) \in Seq(ForgetType)
      BY <1>f, Removed
    <3>4. g' \in Nat
      BY <1>2, <2>1, <3>3, ForgottenFinite
    <3> QED
      BY <3>2, <3>4
  <2> DEFINE h == g'
             e == f.ino
             d == f.n
  <2> HIDE DEF n, c, g, f, h, e, d
  <2>6. CASE e = i
    <3>1. g = h + d /\ h \in Nat /\ d \in Nat
      BY <2>4, <2>5, <2>6 DEF h, d, e
    <3>2. CASE i \notin DOMAIN finfos
      <4>1. n + c + g = 0 /\ finfos' = finfos
        BY <1>3, <2>1, <2>6, <3>2 DEF e
      <4>2. n + c + h = 0
        BY <1>1, <3>1, <4>1
      <4> QED
        BY <1>4, <2>3, <3>2, <4>1, <4>2 DEF h
    <3>3. CASE i \in DOMAIN finfos /\ n + c + g > d
      <4>1. finfos[i] = [RefCnt |-> n + c + g, Info |-> Info[i]]
        BY <1>3, <3>3
      <4>2. finfos' = [finfos EXCEPT ![i].RefCnt = @ - d]
        BY <2>1, <2>6, <3>3, <4>1 DEF e, d
      <4>3. i \in DOMAIN finfos' /\ finfos'[i] = [RefCnt |-> (n + c + g) - d, Info |-> Info[i]]
        BY <3>3, <4>1, <4>2
      <4>4. (n + c + g) - d = n + c + h
        BY <1>1, <3>1
      <4> QED
        BY <1>4, <2>3, <4>3, <4>4 DEF h
    <3>4. CASE i \in DOMAIN finfos /\ ~(n + c + g > d)
      <4>1. finfos[i].RefCnt = n + c + g
        BY <1>3, <3>4
      <4>2. finfos' = [j \in DOMAIN finfos \ {i} |-> finfos[j]]
        BY <2>1, <2>6, <3>4, <4>1 DEF e, d
      <4>3. n + c + h = 0
        BY <1>1, <3>1, <3>4
      <4> QED
        BY <1>4, <2>3, <4>2, <4>3 DEF h
    <3> QED
      BY <3>2, <3>3, <3>4
  <2>7. CASE e # i
    <3>1. g = h
      BY <2>4, <2>5, <2>7 DEF h, e
    <3>2. (i \in DOMAIN finfos' <=> i \in DOMAIN finfos) /\ (i \in DOMAIN finfos => finfos'[i] = finfos[i])
      BY <2>1, <2>7 DEF e
    <3> QED
      BY <1>3, <1>4, <2>3, <3>1, <3>2 DEF h
  <2> QED
    BY <2>6, <2>7
<1>7. ASSUME NEW j \in Inos, F!Drop(j) PROVE CountedRight(i)'
  <2> DEFINE f == [ino |-> j, n |-> nlookup[j]]
  <2>1. /\ forgets' = Append(forgets, f) /\ nlookup' = [nlookup EXCEPT ![j] = 0]
        /\ op' = op /\ finfos' = finfos /\ j # 1 /\ nlookup[j] > 0
    BY <1>7 DEF F!Drop, F!fsVars
  <2>2. F!Coming(i)' = F!Coming(i)
    BY <2>1 DEF F!Coming, F!At, F!Child, F!Inos
  <2>3. f \in ForgetType /\ f.ino = j /\ f.n = nlookup[j]
    BY <1>0, <2>1 DEF ForgetType
  <2> HIDE DEF f
  <2>4. g' = g + (IF j = i THEN nlookup[j] ELSE 0)
    BY <1>1, <1>2, <1>f, <2>1, <2>3, ForgottenAppend
  <2>5. c' = c /\ n' = IF j = i THEN 0 ELSE n
    BY <1>0, <2>1, <2>2
  <2>6. n' + c' + g' = n + c + g
    <3>1. CASE j = i
      <4>1. g' = g + n /\ c' = c /\ n' = 0
        BY <2>4, <2>5, <3>1
      <4> HIDE DEF n, c, g
      <4> QED
        BY <1>1, <4>1
    <3>2. CASE j # i
      <4>1. g' = g /\ c' = c /\ n' = n
        BY <1>1, <2>4, <2>5, <3>2
      <4> HIDE DEF n, c, g
      <4> QED
        BY <4>1
    <3> QED
      BY <3>1, <3>2
  <2> HIDE DEF n, c, g
  <2> QED
    BY <1>3, <1>4, <2>1, <2>6
<1>8. ASSUME NEW t \in Threads, F!LookUpSet(t) PROVE CountedRight(i)'
  <2> DEFINE k == F!Child(t)
  <2>1. /\ F!At(t, "LookUpInode", "set") /\ op' = [op EXCEPT ![t].step = "reply"]
        /\ finfos' = [j \in DOMAIN finfos \cup {k} |->
                         IF j \notin DOMAIN finfos THEN [RefCnt |-> 1, Info |-> Info[k]]
                         ELSE IF j = k THEN [finfos[j] EXCEPT !.RefCnt = @ + 1] ELSE finfos[j]]
        /\ nlookup' = nlookup /\ forgets' = forgets
    BY <1>8 DEF F!LookUpSet, F!Set, F!kernelVars
  <2>2. PICK r : Moves(t, r) /\ r.kind = op[t].kind /\ r.step = "reply" /\ r.ino = op[t].ino /\ r.name = op[t].name
    BY <1>0, <2>1, GoesOn
  <2>3. op'[t] = r /\ \A u \in Threads : u # t => op'[u] = op[u]
    BY <1>0, <2>2, OneOp DEF Moves
  <2>4. \A u \in Threads : F!Child(u)' = F!Child(u)
    <3>1. \A u \in Threads : op'[u].ino = op[u].ino /\ op'[u].name = op[u].name
      BY <2>2, <2>3
    <3> QED
      BY <3>1 DEF F!Child, F!Inos
  <2>5. F!Coming(i)' = IF k = i THEN F!Coming(i) \cup {t} ELSE F!Coming(i)
    <3>1. F!At(t, "LookUpInode", "reply")' /\ ~F!At(t, "LookUpInode", "reply")
      BY <2>1, <2>2, <2>3 DEF F!At
    <3>2. \A u \in Threads : u # t => (F!At(u, "LookUpInode", "reply")' <=> F!At(u, "LookUpInode", "reply"))
      BY <2>3 DEF F!At
    <3>3. F!Coming(i)' = {u \in Threads : F!At(u, "LookUpInode", "reply")' /\ F!Child(u) = i}
      BY <2>4 DEF F!Coming
    <3> QED
      BY <3>1, <3>2, <3>3 DEF F!Coming
  <2>6. c' = c + (IF k = i THEN 1 ELSE 0)
    <3>1. CASE k = i
      <4>1. t \notin F!Coming(i)
        BY <2>1 DEF F!Coming, F!At
      <4> QED
        <5>1. Cardinality(F!Coming(i) \cup {t}) = Cardinality(F!Coming(i)) + 1
          BY <1>1, <4>1, FS_AddElement
        <5> QED
          BY <2>5, <3>1, <5>1
    <3>2. CASE k # i
      BY <1>1, <2>5, <3>2
    <3> QED
      BY <3>1, <3>2
  <2>7. n' = n /\ g' = g
    BY <1>1, <1>2, <2>1
  <2> HIDE DEF n, c, g, k
  <2>8. CASE k = i
    <3>1. n' + c' + g' = n + c + g + 1
      BY <1>1, <2>6, <2>7, <2>8
    <3>2. CASE i \in DOMAIN finfos
      <4>1. finfos[i] = [RefCnt |-> n + c + g, Info |-> Info[i]]
        BY <1>3, <3>2
      <4>2. i \in DOMAIN finfos' /\ finfos'[i] = [finfos[i] EXCEPT !.RefCnt = @ + 1]
        BY <2>1, <2>8, <3>2
      <4>3. finfos'[i] = [RefCnt |-> n + c + g + 1, Info |-> Info[i]]
        BY <4>1, <4>2
      <4> QED
        BY <1>4, <3>1, <4>2, <4>3
    <3>3. CASE i \notin DOMAIN finfos
      <4>1. n + c + g + 1 = 1
        BY <1>1, <1>3, <3>3
      <4>2. i \in DOMAIN finfos' /\ finfos'[i] = [RefCnt |-> 1, Info |-> Info[i]]
        BY <2>1, <2>8, <3>3
      <4> QED
        BY <1>4, <3>1, <4>1, <4>2
    <3> QED
      BY <3>2, <3>3
  <2>9. CASE k # i
    <3>1. n' + c' + g' = n + c + g
      BY <1>1, <2>6, <2>7, <2>9
    <3>2. (i \in DOMAIN finfos' <=> i \in DOMAIN finfos) /\ (i \in DOMAIN finfos => finfos'[i] = finfos[i])
      BY <2>1, <2>9
    <3> QED
      BY <1>3, <1>4, <3>1, <3>2
  <2> QED
    BY <2>8, <2>9
<1>9. ASSUME NEW t \in Threads, F!LookUpReply(t) PROVE CountedRight(i)'
  <2> DEFINE k == F!Child(t)
  <2>1. /\ F!At(t, "LookUpInode", "reply") /\ F!Done(t) /\ finfos' = finfos /\ forgets' = forgets
        /\ nlookup' = [nlookup EXCEPT ![k] = @ + 1]
    BY <1>9 DEF F!LookUpReply, F!fsVars
  <2>2. op'[t] = F!Idle /\ \A u \in Threads : u # t => op'[u] = op[u]
    <3>1. Moves(t, F!Idle)
      BY <2>1, DoneMoves
    <3> QED
      BY <1>0, <3>1, OneOp DEF Moves
  <2>3. F!Coming(i)' = F!Coming(i) \ {t}
    <3>1. ~F!At(t, "LookUpInode", "reply")'
      BY <1>i, <2>2 DEF F!At
    <3>2. \A u \in Threads : u # t => (F!At(u, "LookUpInode", "reply")' <=> F!At(u, "LookUpInode", "reply"))
      BY <2>2 DEF F!At
    <3>3. \A u \in Threads : u # t => F!Child(u)' = F!Child(u)
      BY <2>2 DEF F!Child, F!Inos
    <3> QED
      BY <3>1, <3>2, <3>3 DEF F!Coming
  <2>4. n' = (IF k = i THEN n + 1 ELSE n) /\ g' = g
    BY <1>0, <1>1, <1>2, <2>1
  <2>5. c' = c - (IF k = i THEN 1 ELSE 0)
    <3>1. CASE k = i
      <4>1. t \in F!Coming(i)
        BY <2>1, <3>1 DEF F!Coming
      <4> QED
        <5>1. Cardinality(F!Coming(i) \ {t}) = Cardinality(F!Coming(i)) - 1
          BY <1>1, <4>1, FS_RemoveElement
        <5> QED
          BY <2>3, <3>1, <5>1
    <3>2. CASE k # i
      <4>1. F!Coming(i) \ {t} = F!Coming(i)
        BY <3>2 DEF F!Coming
      <4>2. c' = c
        BY <2>3, <4>1
      <4> HIDE DEF c
      <4> QED
        BY <1>1, <3>2, <4>2
    <3> QED
      BY <3>1, <3>2
  <2> HIDE DEF n, c, g, k
  <2>6. n' + c' + g' = n + c + g
    BY <1>1, <2>4, <2>5
  <2> QED
    BY <1>3, <1>4, <2>1, <2>6
<1> HIDE DEF n, c, g
\* The other steps leave the counts alone.
<1>10. ASSUME NEW t \in Threads, \/ F!LookUpScan(t) \/ F!OpenExtent(t) \/ F!Insert(t)
                                 \/ F!ReleaseFileHandle(t) \/ F!LookUpErr(t) \/ F!OpenExtentErr(t)
       PROVE  CountedRight(i)'
  <2>1. UNCHANGED <<finfos, nlookup, forgets>> /\ ~F!At(t, "LookUpInode", "reply")
    BY <1>10 DEF F!LookUpScan, F!OpenExtent, F!Insert, F!ReleaseFileHandle, F!LookUpErr, F!OpenExtentErr,
       F!fsVars, F!kernelVars, F!At
  <2>2. \E r : Moves(t, r) /\ (r.kind # "LookUpInode" \/ r.step # "reply")
    <3>1. \/ F!Done(t)
          \/ F!At(t, "LookUpInode", "miss") /\ op' = [op EXCEPT ![t].step = "set"]
          \/ F!At(t, "OpenFile", "open") /\ op' = [op EXCEPT ![t].step = "insert"]
      BY <1>10 DEF F!LookUpScan, F!OpenExtent, F!Insert, F!ReleaseFileHandle, F!LookUpErr, F!OpenExtentErr
    <3>2. CASE F!Done(t)
      BY <1>i, <3>2, DoneMoves
    <3>3. CASE ~F!Done(t)
      BY <1>0, <3>1, <3>3, GoesOn DEF F!At
    <3> QED
      BY <3>2, <3>3
  <2> QED
    BY <1>5, <2>1, <2>2
<1>11. ASSUME NEW t \in Threads,
              \/ \E k \in Inos, j \in Inos \ {1} : F!LookUpInode(t, k, Info[j].name)
              \/ \E k \in Inos : F!OpenFile(t, k)
              \/ \E x \in held : F!Close(t, x)
       PROVE  CountedRight(i)'
  <2>1. UNCHANGED <<finfos, nlookup, forgets>>
    BY <1>11 DEF F!LookUpInode, F!OpenFile, F!Close, F!fsVars, F!kernelVars
  <2>2. \E r : Moves(t, r) /\ op[t] = F!Idle /\ (r.kind # "LookUpInode" \/ r.step # "reply")
    BY <1>0, <1>11, LookUpInodeMoves, OpenFileMoves, CloseMoves
  <2> QED
    BY <1>5, <1>i, <2>1, <2>2 DEF F!At
<1>12. ASSUME NoOp, ~\E j \in Inos : F!Drop(j), ~\E k \in DOMAIN forgets : F!ForgetInode(k)
       PROVE  CountedRight(i)'
  <2>1. UNCHANGED <<finfos, nlookup, forgets>>
    BY <1>12 DEF NoOp, F!GetInode, F!ReadDir, F!ReadFile, F!ReadDirEnd, F!Umount,
         F!Signal, F!Server, F!SelectSignal, F!SelectJoined, F!CloseUnmount, F!CloseRecv, F!ServeJoin,
         F!JoinClose, fuseVars, F!fsVars, F!kernelVars
  <2> QED
    BY <1>5, <1>12, <2>1, NoOpStays
<1> QED
  BY <1>6, <1>7, <1>8, <1>9, <1>10, <1>11, <1>12, StepKinds DEF F!Serve

----------------------------------------------------------------------------
(* Where a directory is read on *)

DirOK(infos) == /\ infos \in Seq({infos[j] : j \in DOMAIN infos})
                /\ \A j \in DOMAIN infos : infos[j].len \in Nat \ {0}

LEMMA DirsOK == ASSUME NEW i \in Inos, Info[i].dir PROVE DirOK(F!Entries(i))
  BY DEF DirOK, F!Entries, Inos

\* The bytes of the first n FileInfos.
End(infos, n) == Cardinality(F!Bytes(infos, n))

LEMMA EndFacts ==
    ASSUME NEW infos, DirOK(infos)
    PROVE  /\ Len(infos) \in Nat /\ DOMAIN infos = 1 .. Len(infos)
           /\ \A n \in 0 .. Len(infos) : End(infos, n) \in Nat /\ IsFiniteSet(F!Bytes(infos, n))
           /\ \A n \in 1 .. Len(infos) : End(infos, n) = End(infos, n - 1) + infos[n].len
           /\ End(infos, 0) = 0
<1> DEFINE L == [k \in DOMAIN infos |-> infos[k].len]
           l == Len(infos)
<1>1. l \in Nat /\ DOMAIN infos = 1 .. l /\ \A k \in 1 .. l : L[k] = infos[k].len /\ L[k] \in Nat
  BY DEF DirOK
<1> HIDE DEF L, l
<1>2. ASSUME NEW n \in 0 .. l PROVE F!Bytes(infos, n) = Pile(1 .. n, L) /\ IsFiniteSet(1 .. n)
  <2>1. \A k \in 1 .. n : infos[k].len = L[k]
    BY <1>1
  <2>2. \A p : p \in F!Bytes(infos, n) <=> \E k \in 1 .. n : \E x \in 1 .. infos[k].len : p = <<k, x>>
    BY DEF F!Bytes
  <2>3. \A p : p \in F!Bytes(infos, n) <=> p \in Pile(1 .. n, L)
    BY <2>1, <2>2, PileMember
  <2>4. F!Bytes(infos, n) = Pile(1 .. n, L)
    BY <2>3
  <2>5. IsFiniteSet(1 .. n)
    BY <1>1, FS_Interval
  <2> QED
    BY <2>4, <2>5
<1>3. ASSUME NEW n \in 0 .. l PROVE End(infos, n) \in Nat /\ IsFiniteSet(F!Bytes(infos, n))
  <2>1. \A k \in 1 .. n : L[k] \in Nat
    BY <1>1
  <2> DEFINE I == 1 .. n
  <2>2. IsFiniteSet(I) /\ (\A k \in I : L[k] \in Nat) /\ F!Bytes(infos, n) = Pile(I, L)
    BY <1>2, <2>1
  <2> HIDE DEF I
  <2> QED
    BY <2>2, PileFinite DEF End
<1>4. ASSUME NEW n \in 1 .. l PROVE End(infos, n) = End(infos, n - 1) + infos[n].len
  <2> DEFINE I == 1 .. n - 1
             A == F!Bytes(infos, n)
             B == F!Bytes(infos, n - 1)
  <2>1. n - 1 \in 0 .. l /\ n \in 0 .. l
    BY <1>1
  <2>2. 1 .. n = I \cup {n} /\ n \notin I
    BY <1>1
  <2>3. A = Pile(1 .. n, L) /\ B = Pile(I, L) /\ IsFiniteSet(I)
    BY <1>2, <2>1
  <2>4. \A k \in I \cup {n} : L[k] \in Nat
    BY <1>1, <2>2
  <2> HIDE DEF I, A, B
  <2>5. Cardinality(Pile(I \cup {n}, L)) = Cardinality(Pile(I, L)) + L[n]
    BY <2>2, <2>3, <2>4, PileAdd
  <2>6. Cardinality(A) = Cardinality(B) + infos[n].len
    BY <1>1, <2>2, <2>3, <2>5
  <2> QED
    BY <2>6 DEF A, B, End
<1>5. End(infos, 0) = 0
  <2>1. \A p : p \notin F!Bytes(infos, 0)
    BY DEF F!Bytes
  <2>2. F!Bytes(infos, 0) = {}
    BY <2>1
  <2> QED
    BY <2>2, FS_EmptySet DEF End
<1> QED
  BY <1>1, <1>3, <1>4, <1>5 DEF l

\* The FileInfos lie one after the other.
LEMMA EndsOrder ==
    ASSUME NEW infos, DirOK(infos), NEW m \in 0 .. Len(infos), NEW n \in 0 .. Len(infos)
    PROVE  (m <= n => End(infos, m) <= End(infos, n)) /\ (m < n => End(infos, m) < End(infos, n))
<1>1. /\ Len(infos) \in Nat /\ DOMAIN infos = 1 .. Len(infos)
      /\ \A k \in 0 .. Len(infos) : End(infos, k) \in Nat /\ IsFiniteSet(F!Bytes(infos, k))
      /\ \A k \in 1 .. Len(infos) : End(infos, k) = End(infos, k - 1) + infos[k].len
  BY EndFacts
<1>2. ASSUME NEW a \in 0 .. Len(infos), NEW b \in 0 .. Len(infos), a <= b
      PROVE  End(infos, a) <= End(infos, b)
  <2>1. 1 .. a \subseteq 1 .. b
    BY <1>1, <1>2
  <2>2. F!Bytes(infos, a) \subseteq F!Bytes(infos, b)
    BY <2>1 DEF F!Bytes
  <2> QED
    BY <1>1, <2>2, FS_Subset DEF End
<1>3. ASSUME m < n PROVE End(infos, m) < End(infos, n)
  <2> DEFINE k == n - 1
             x == End(infos, m)
             y == End(infos, k)
             z == End(infos, n)
  <2>1. k \in 0 .. Len(infos) /\ m <= k /\ n \in 1 .. Len(infos)
    BY <1>1, <1>3
  <2>2. x <= y /\ z = y + infos[n].len /\ x \in Nat /\ y \in Nat /\ z \in Nat
    BY <1>1, <1>2, <2>1
  <2>3. infos[n].len \in Nat \ {0}
    BY <1>1, <2>1 DEF DirOK
  <2> HIDE DEF k, x, y, z
  <2>4. x < z
    BY <2>2, <2>3
  <2> QED
    BY <2>4 DEF x, z
<1> QED
  BY <1>2, <1>3

\* A dirent carries the end of its FileInfo, and the read goes on with the next one.
LEMMA ReadOn ==
    ASSUME NEW infos, DirOK(infos)
    PROVE  /\ \A n \in 1 .. Len(infos) : F!DirentOffset(infos, n) = End(infos, n)
           /\ \A n \in 0 .. Len(infos) : F!From(infos, End(infos, n)) = (n + 1) .. Len(infos)
<1>1. /\ Len(infos) \in Nat /\ DOMAIN infos = 1 .. Len(infos)
      /\ \A k \in 0 .. Len(infos) : End(infos, k) \in Nat
      /\ \A k \in 1 .. Len(infos) : End(infos, k) = End(infos, k - 1) + infos[k].len
  BY EndFacts
<1>2. ASSUME NEW n PROVE F!Pos(infos, n) = End(infos, n - 1)
  BY SameCount DEF F!Pos, End
<1>3. ASSUME NEW n \in 1 .. Len(infos) PROVE F!DirentOffset(infos, n) = End(infos, n)
  BY <1>1, <1>2 DEF F!DirentOffset
<1>4. ASSUME NEW n \in 0 .. Len(infos)
      PROVE  F!From(infos, End(infos, n)) = (n + 1) .. Len(infos)
  <2>1. ASSUME NEW j \in 1 .. Len(infos)
        PROVE  F!Pos(infos, j) >= End(infos, n) <=> j >= n + 1
    <3> DEFINE k == j - 1
               x == End(infos, k)
               y == End(infos, n)
    <3>1. k \in 0 .. Len(infos)
      BY <1>1
    <3>2. x \in Nat /\ y \in Nat /\ (n <= k => y <= x) /\ (k < n => x < y)
      BY <1>1, <3>1, EndsOrder
    <3>3. F!Pos(infos, j) = x
      BY <1>2
    <3> HIDE DEF x, y
    <3>4. x >= y <=> n <= k
      BY <1>1, <3>1, <3>2
    <3> QED
      BY <1>1, <3>3, <3>4 DEF y
  <2>2. F!From(infos, End(infos, n)) = {j \in 1 .. Len(infos) : F!Pos(infos, j) >= End(infos, n)}
    BY <1>1 DEF F!From
  <2>3. F!From(infos, End(infos, n)) = {j \in 1 .. Len(infos) : j >= n + 1}
    BY <2>1, <2>2
  <2>4. {j \in 1 .. Len(infos) : j >= n + 1} = (n + 1) .. Len(infos)
    BY <1>1
  <2> QED
    BY <2>3, <2>4
<1> QED
  BY <1>3, <1>4

LEMMA FirstOf ==
    ASSUME NEW a \in Nat, NEW b \in Nat, a .. b # {}
    PROVE  F!Min(a .. b) = a /\ a <= b
<1>1. a \in a .. b /\ a <= b /\ \A y \in a .. b : a <= y
  OBVIOUS
<1>2. \A x \in a .. b : (\A y \in a .. b : x <= y) => x = a
  BY <1>1
<1> QED
  BY <1>1, <1>2 DEF F!Min

\* The names that were listed, and those of the next piece.
LEMMA NamesOn ==
    ASSUME NEW infos, DirOK(infos), NEW n \in 0 .. Len(infos), NEW last \in (n + 1) .. Len(infos)
    PROVE  [j \in 1 .. n |-> infos[j].name] \o [j \in 1 .. last + 1 - (n + 1) |-> infos[(n + 1) + j - 1].name]
              = [j \in 1 .. last |-> infos[j].name]
<1> DEFINE N == {infos[j].name : j \in DOMAIN infos}
           a == [j \in 1 .. n |-> infos[j].name]
           b == [j \in 1 .. last + 1 - (n + 1) |-> infos[(n + 1) + j - 1].name]
           c == [j \in 1 .. last |-> infos[j].name]
           d == last - n
<1>1. /\ Len(infos) \in Nat /\ DOMAIN infos = 1 .. Len(infos)
  BY EndFacts
<1>2. n \in Nat /\ last \in Nat /\ d \in Nat /\ n + d = last /\ last + 1 - (n + 1) = d /\ last <= Len(infos)
  BY <1>1
<1>3. \A j \in 1 .. Len(infos) : infos[j].name \in N
  BY <1>1
<1> HIDE DEF N
<1>4. a \in Seq(N) /\ Len(a) = n /\ \A j \in 1 .. n : a[j] = infos[j].name
  <2>1. a \in [1 .. n -> N]
    BY <1>1, <1>2, <1>3
  <2> QED
    BY <1>2, <2>1
<1>5. b \in Seq(N) /\ Len(b) = d /\ \A j \in 1 .. d : b[j] = infos[j + n].name
  <2> HIDE DEF d
  <2>1. b = [j \in 1 .. d |-> infos[(n + 1) + j - 1].name]
    BY <1>2
  <2>2. \A j \in 1 .. d : (n + 1) + j - 1 = j + n /\ j + n \in 1 .. Len(infos)
    BY <1>1, <1>2
  <2>3. b \in [1 .. d -> N] /\ \A j \in 1 .. d : b[j] = infos[j + n].name
    BY <1>3, <2>1, <2>2
  <2> HIDE DEF b
  <2> QED
    BY <1>2, <2>3
<1>6. c \in Seq(N) /\ Len(c) = last /\ \A j \in 1 .. last : c[j] = infos[j].name
  <2>1. c \in [1 .. last -> N]
    BY <1>1, <1>2, <1>3
  <2>2. \A j \in 1 .. last : c[j] = infos[j].name
    OBVIOUS
  <2>3. last \in Nat
    BY <1>2
  <2> HIDE DEF a, b, c, d
  <2>4. c \in Seq(N) /\ Len(c) = last
    BY <2>1, <2>3
  <2> QED
    BY <2>2, <2>4
<1> HIDE DEF a, b, c, d
<1> DEFINE e == a \o b
<1>7. e \in Seq(N) /\ Len(e) = last /\ \A j \in 1 .. last : e[j] = IF j <= n THEN a[j] ELSE b[j - n]
  <2>1. /\ e \in Seq(N) /\ Len(e) = Len(a) + Len(b)
        /\ \A j \in 1 .. Len(a) + Len(b) : e[j] = IF j <= Len(a) THEN a[j] ELSE b[j - Len(a)]
    <3>1. a \in Seq(N) /\ b \in Seq(N)
      BY <1>4, <1>5
    <3> QED
      BY <3>1, ConcatProperties, Zenon
  <2> HIDE DEF e
  <2> QED
    BY <1>2, <1>4, <1>5, <2>1
<1> HIDE DEF e
<1>8. ASSUME NEW j \in 1 .. last PROVE e[j] = c[j]
  <2>1. CASE j <= n
    <3>1. j \in 1 .. n
      BY <1>2, <2>1
    <3> QED
      BY <1>4, <1>6, <1>7, <2>1, <3>1
  <2>2. CASE ~(j <= n)
    <3> DEFINE i == j - n
    <3>1. i \in 1 .. d /\ i + n = j
      BY <1>2, <2>2
    <3>2. e[j] = b[i]
      BY <1>7, <2>2
    <3> HIDE DEF i
    <3>3. b[i] = infos[i + n].name
      BY <1>5, <3>1
    <3> QED
      BY <1>6, <3>1, <3>2, <3>3
  <2> QED
    BY <2>1, <2>2
<1>9. e = c
  BY <1>6, <1>7, <1>8
<1> QED
  BY <1>9 DEF a, b, c, e

LEMMA StreamsStep == FuseInv /\ FuseStep => Streams'
<1> SUFFICES ASSUME FuseInv, FuseStep PROVE Streams'
  OBVIOUS
<1>0. Streams
  BY DEF FuseInv
<1>n. F!NoStream.ino = 0 /\ F!NoStream.off = 0 /\ F!NoStream.names = <<>>
  BY DEF F!NoStream
<1>1. ASSUME NEW i \in Inos, F!ReadDir(i) PROVE Streams'
  <2> DEFINE infos == F!Entries(i)
  <2>1. /\ Info[i].dir /\ stream.ino \in {0, i}
        /\ F!From(infos, stream.off) # {}
        /\ F!ReadDirSome(i, infos, F!Min(F!From(infos, stream.off)))
    BY <1>1 DEF F!ReadDir
  <2>2. DirOK(infos)
    BY <2>1, DirsOK
  <2> HIDE DEF infos
  <2>3. Len(infos) \in Nat /\ End(infos, 0) = 0
    BY <2>2, EndFacts
  <2>4. PICK n \in 0 .. Len(infos) : /\ stream.off = End(infos, n)
                                     /\ stream.names = [j \in 1 .. n |-> infos[j].name]
    <3>1. CASE stream.ino = 0
      <4>1. stream.off = End(infos, 0) /\ stream.names = <<>>
        BY <1>0, <1>n, <2>3, <3>1 DEF Streams
      <4>2. [j \in 1 .. 0 |-> infos[j].name] = <<>>
        OBVIOUS
      <4> QED
        BY <2>3, <4>1, <4>2
    <3>2. CASE stream.ino # 0
      <4>1. stream.ino = i
        BY <2>1, <3>2
      <4>2. PICK n \in 1 .. Len(infos) : /\ stream.off = F!DirentOffset(infos, n)
                                         /\ stream.names = [j \in 1 .. n |-> infos[j].name]
        BY <1>0, <3>2, <4>1 DEF Streams, ReadUpTo, infos
      <4>3. stream.off = End(infos, n) /\ n \in 0 .. Len(infos)
        BY <2>2, <2>3, <4>2, ReadOn
      <4> QED
        BY <4>2, <4>3
    <3> QED
      BY <3>1, <3>2
  <2>5. F!From(infos, stream.off) = (n + 1) .. Len(infos)
    BY <2>2, <2>4, ReadOn
  <2> DEFINE first == n + 1
  <2>6. first \in Nat
    BY <2>3
  <2>7. F!Min(first .. Len(infos)) = first
    BY <2>1, <2>3, <2>5, <2>6, FirstOf
  <2>8. F!ReadDirSome(i, infos, F!Min(F!From(infos, stream.off)))
    BY <2>1
  <2>9. PICK last \in first .. Len(infos) :
           stream' = [ino   |-> i,
                      off   |-> F!DirentOffset(infos, last),
                      names |-> stream.names \o [j \in 1 .. last + 1 - first |-> infos[first + j - 1].name]]
    BY <2>5, <2>7, <2>8 DEF F!ReadDirSome
  <2>10. stream'.ino = i /\ stream'.off = F!DirentOffset(infos, last)
         /\ stream'.names = [j \in 1 .. last |-> infos[j].name]
    <3>1. [j \in 1 .. n |-> infos[j].name] \o [j \in 1 .. last + 1 - (n + 1) |-> infos[(n + 1) + j - 1].name]
             = [j \in 1 .. last |-> infos[j].name]
      BY <2>2, NamesOn
    <3> QED
      BY <2>4, <2>9, <3>1
  <2>11. last \in 1 .. Len(infos)
    BY <2>3
  <2>12. F!Entries(stream.ino)' = infos
    BY <2>10 DEF F!Entries, infos
  <2>13. i # 0
    BY DEF Inos
  <2>14. ReadUpTo(last)'
    <3>1. (F!DirentOffset(F!Entries(stream.ino), last))' = F!DirentOffset(infos, last)
      BY <2>12 DEF F!DirentOffset, F!Pos, F!Bytes
    <3> QED
      BY <2>10, <2>12, <3>1 DEF ReadUpTo
  <2>15. stream'.ino \in Inos' /\ Info[stream'.ino].dir /\ stream'.ino # 0
    BY <2>1, <2>10, <2>13 DEF Inos
  <2> QED
    BY <2>11, <2>12, <2>14, <2>15 DEF Streams
<1>2. CASE F!ReadDirEnd
  BY <1>2, <1>n DEF F!ReadDirEnd, Streams, F!NoStream
<1>3. stream' = stream \/ F!ReadDirEnd \/ \E i \in Inos : F!ReadDir(i)
  BY StepKinds DEF NoOp, F!GetInode, F!Drop, F!ReadFile, F!ForgetInode,
     F!Umount, F!Signal, F!Server, F!SelectSignal, F!SelectJoined, F!CloseUnmount, F!CloseRecv,
     F!ServeJoin, F!JoinClose, fuseVars, F!kernelVars, F!Serve, F!LookUpScan, F!LookUpSet,
     F!LookUpReply, F!OpenExtent, F!Insert, F!ReleaseFileHandle, F!LookUpErr, F!OpenExtentErr,
     F!LookUpInode, F!OpenFile, F!Close
<1>4. CASE stream' = stream
  <2>1. F!Entries(stream.ino)' = F!Entries(stream.ino)
    BY <1>4 DEF F!Entries
  <2>2. \A n : ReadUpTo(n)' = ReadUpTo(n)
    BY <1>4 DEF ReadUpTo, F!Entries, F!DirentOffset, F!Pos, F!Bytes
  <2> QED
    BY <1>0, <1>4, <2>1, <2>2 DEF Streams, Inos, F!NoStream
<1> QED
  BY <1>1, <1>2, <1>3, <1>4

LEMMA StreamsList == Streams => DirListed
<1> SUFFICES ASSUME Streams, stream.ino # 0
             PROVE  LET infos == F!Entries(stream.ino)
                        all   == [j \in DOMAIN infos |-> infos[j].name]
                    IN /\ stream.names = SubSeq(all, 1, Len(stream.names))
                       /\ F!From(infos, stream.off) = {} => stream.names = all
  BY DEF DirListed, F!DirListed
<1> DEFINE infos == F!Entries(stream.ino)
           all   == [j \in DOMAIN infos |-> infos[j].name]
           N     == {infos[j].name : j \in DOMAIN infos}
<1>1. DirOK(infos)
  BY DirsOK DEF Streams
<1>2. PICK n \in 1 .. Len(infos) : /\ stream.off = F!DirentOffset(infos, n)
                                   /\ stream.names = [j \in 1 .. n |-> infos[j].name]
  BY DEF Streams, ReadUpTo
<1> HIDE DEF infos
<1>3. Len(infos) \in Nat /\ DOMAIN infos = 1 .. Len(infos)
  BY <1>1, EndFacts
<1>4. F!From(infos, stream.off) = (n + 1) .. Len(infos)
  <2>1. stream.off = End(infos, n) /\ n \in 0 .. Len(infos)
    BY <1>1, <1>2, <1>3, ReadOn
  <2> QED
    BY <1>1, <2>1, ReadOn
<1>5. (n + 1) .. Len(infos) = {} => n = Len(infos)
  <2> DEFINE l == Len(infos)
             S == (n + 1) .. l
  <2>1. l \in Nat /\ n \in 1 .. l
    BY <1>3
  <2> HIDE DEF l
  <2>2. n \in Nat /\ n <= l /\ (n < l => n + 1 \in S)
    BY <2>1
  <2> HIDE DEF S
  <2>3. S = {} => n = l
    BY <2>1, <2>2
  <2> QED
    BY <2>3 DEF l, S
<1>6. F!From(infos, stream.off) = {} => stream.names = all
  BY <1>2, <1>3, <1>4, <1>5
<1>7. all \in Seq(N) /\ Len(all) = Len(infos) /\ \A j \in 1 .. Len(infos) : all[j] = infos[j].name
  <2>1. all \in [1 .. Len(infos) -> N]
    BY <1>3
  <2> QED
    BY <1>3, <2>1
<1> DEFINE s == stream.names
<1>8. s \in Seq(N) /\ Len(s) = n /\ \A j \in 1 .. n : s[j] = infos[j].name
  <2>1. s \in [1 .. n -> N] /\ n \in Nat
    BY <1>2, <1>3
  <2>2. \A j \in 1 .. n : s[j] = infos[j].name
    BY <1>2
  <2> HIDE DEF s
  <2> QED
    BY <2>1, <2>2
<1> HIDE DEF all, N, s
<1>9. /\ SubSeq(all, 1, n) \in Seq(N) /\ Len(SubSeq(all, 1, n)) = n
      /\ \A j \in 1 .. n : SubSeq(all, 1, n)[j] = all[j]
  BY <1>3, <1>7
<1>10. s = SubSeq(all, 1, Len(s))
  BY <1>3, <1>7, <1>8, <1>9
<1> QED
  BY <1>6, <1>10 DEF infos, all, s

----------------------------------------------------------------------------
(* The theorems *)

LEMMA FuseInit == Init => FuseInv
<1> SUFFICES ASSUME F!Init PROVE FuseInv
  BY DEF Init
<1> USE DEF F!Init
<1>i. F!Idle.kind = "idle" /\ F!Idle.step = "none"
  BY DEF F!Idle
<1>e. \A t \in Threads : op[t] = F!Idle
  OBVIOUS
<1>1. Types
  <2>1. IsFiniteSet(DOMAIN fileHandles) /\ DOMAIN fileHandles = {}
    <3>1. DOMAIN fileHandles = {}
      OBVIOUS
    <3> QED
      BY <3>1, FS_EmptySet
  <2>2. op \in [Threads -> OpType] /\ \A t \in Threads : OpShape(op[t])
    BY IdleFits
  <2>3. forgets \in Seq([ino : Inos \ {1}, n : Nat \ {0}])
    OBVIOUS
  <2>4. nextFileHandle \in Nat /\ held \in SUBSET [h : Nat, ino : Files]
    OBVIOUS
  <2>5. opened \in [Files -> Int] /\ nlookup \in [Inos -> Nat]
    BY DEF Files, F!Inos, Inos
  <2> QED
    BY <2>1, <2>2, <2>3, <2>4, <2>5 DEF Types
<1>2. Ends
  BY DEF Ends
<1>3. Handles
  BY <1>i, <1>e DEF Handles, Releasing, F!At
<1>4. ObjectsCounted
  <2> SUFFICES ASSUME NEW i \in Files
               PROVE  opened[i] = Cardinality(HandlesOf(i)) + Cardinality(Opening(i))
    BY DEF ObjectsCounted
  <2>1. HandlesOf(i) = {}
    BY DEF HandlesOf
  <2>2. Opening(i) = {}
    BY <1>i, <1>e DEF Opening, F!At
  <2>3. opened[i] = 0
    BY DEF Files
  <2>4. Cardinality({}) = 0
    BY FS_EmptySet
  <2> QED
    BY <2>1, <2>2, <2>3, <2>4
<1>5. InUseHeld
  BY <1>e DEF InUseHeld, F!NoStream
<1>6. Counts
  <2> SUFFICES ASSUME NEW i \in Inos \ {1} PROVE CountedRight(i)
    BY DEF Counts
  <2>1. F!Coming(i) = {}
    BY <1>i, <1>e DEF F!Coming, F!At
  <2>2. F!Going(i) = {}
    <3>1. DOMAIN forgets = {}
      OBVIOUS
    <3> QED
      BY <3>1 DEF F!Going
  <2>3. nlookup[i] = 0
    BY DEF F!Inos, Inos
  <2>4. Cardinality({}) = 0
    BY FS_EmptySet
  <2>5. Lookups(i) = 0
    BY <2>1, <2>2, <2>3, <2>4 DEF Lookups
  <2> QED
    BY <2>5 DEF CountedRight
<1>7. Streams
  BY DEF Streams, F!NoStream
<1> QED
  BY <1>1, <1>2, <1>3, <1>4, <1>5, <1>6, <1>7 DEF FuseInv

LEMMA FuseInvariant == Init /\ [][Next]_vars => []FuseInv
<1>1. FuseInv /\ [Next]_vars => FuseInv'
  BY Steps, TypesStep, EndsStep, HandlesStep, ObjectsStep, InUseStep, CountsStep, NotRefused,
     StreamsStep DEF FuseInv
<1> QED
  BY <1>1, FuseInit, PTL

\* The disc is closed only when no request is in progress, whichever of a signal,
\* an unmount and the end of the serving goroutine comes first (doFuse,
\* Server.Close).
THEOREM DiscClosed == Init /\ [][Next]_vars => []DiscClosedLast
<1>1. FuseInv => DiscClosedLast
  BY DEF FuseInv, Ends, Over, DiscClosedLast, F!DiscClosedLast
<1> QED
  BY <1>1, FuseInvariant, PTL

\* However lookups, their answers and forgets of an inode cross, the server has it
\* in its table as often as the kernel holds it or is going to, and refuses no
\* request for an inode or a handle (LookUpInode, ForgetInode, isoFS.get).
THEOREM InodesCounted == Init /\ [][Next]_vars => []InodesKnown
<1>1. FuseInv => InodesKnown
  <2> SUFFICES ASSUME FuseInv PROVE InodesKnown
    OBVIOUS
  <2>1. ASSUME NEW i \in Inos \ {1}
        PROVE  IF i \in DOMAIN finfos THEN finfos[i].RefCnt = Lookups(i) /\ finfos[i].Info = Info[i]
               ELSE Lookups(i) = 0
    BY DEF FuseInv, Counts, CountedRight
  <2>2. ASSUME NEW i
        PROVE  Lookups(i) = nlookup[i] + F!Cardinality(F!Coming(i)) + F!Cardinality(F!Going(i))
    BY SameCount DEF Lookups
  <2>3. ~refused
    BY DEF FuseInv
  <2> QED
    BY <2>1, <2>2, <2>3 DEF InodesKnown, F!InodesKnown, F!Inos, Inos
<1> QED
  BY <1>1, FuseInvariant, PTL

\* A handle reads the file it was opened for, whatever was opened and released
\* meanwhile, and no object of the disc stays open (OpenFile, ReleaseFileHandle).
THEOREM HandlesCorrect == Init /\ [][Next]_vars => []HandlesSound
<1>1. FuseInv => HandlesSound
  BY CountedIsSound DEF FuseInv
<1> QED
  BY <1>1, FuseInvariant, PTL

\* A directory read in pieces of any sizes is listed completely, in order and
\* without repetition, whatever lengths its FileInfos have (ReadDir).
THEOREM DirComplete == Init /\ [][Next]_vars => []DirListed
<1>1. FuseInv => DirListed
  BY StreamsList DEF FuseInv
<1> QED
  BY <1>1, FuseInvariant, PTL

HIDE DiscAssumption

----------------------------------------------------------------------------
(* Lookups of the Walker.  What is at a path, and what a path is when it is *)
(* cleaned, are folds over its names: each is followed name by name, and so  *)
(* is what a scan leaves in the cache and what a listing shows.             *)

\* A set of numbers that is not empty has a least one.
LEMMA Least ==
    ASSUME NEW T \in SUBSET Nat, T # {}
    PROVE  \E m \in T : \A b \in T : m <= b
<1> DEFINE Under == OpToRel(<, Nat)
<1>1. PICK m \in T : \A b \in T : ~(<<b, m>> \in Under)
  BY NatLessThanWellFounded, WFMin
<1>2. \A b \in T : ~(b < m)
  BY <1>1 DEF OpToRel
<1> QED
  BY <1>2

\* Induction over the numbers, for a set.
LEMMA Numbers ==
    ASSUME NEW Good, 0 \in Good, \A m \in Nat : m \in Good => m + 1 \in Good
    PROVE  Nat \subseteq Good
<1> SUFFICES ASSUME Nat \ Good # {} PROVE FALSE
  OBVIOUS
<1>1. PICK m \in Nat \ Good : \A b \in Nat \ Good : m <= b
  BY Least
<1>2. m # 0 /\ m - 1 \in Nat
  BY <1>1
<1>3. m - 1 \in Good
  BY <1>1, <1>2
<1> QED
  BY <1>1, <1>2, <1>3

\* The greatest of some numbers.
LEMMA Upper ==
    ASSUME NEW n \in Nat, NEW T \in SUBSET (0 .. n), T # {}
    PROVE  /\ W!Max(T) \in T /\ \A b \in T : b <= W!Max(T)
           /\ \A m \in T : (\A b \in T : b <= m) => W!Max(T) = m
<1> DEFINE bounds == {m \in Nat : \A b \in T : b <= m}
<1>1. n \in bounds
  OBVIOUS
<1>2. PICK m \in bounds : \A c \in bounds : m <= c
  BY <1>1, Least
<1>3. m \in T
  <2> SUFFICES ASSUME m \notin T PROVE FALSE
    OBVIOUS
  <2>1. PICK t \in T : TRUE
    OBVIOUS
  <2>2. t <= m /\ t # m /\ t \in Nat /\ m \in Nat
    BY <2>1
  <2>3. m - 1 \in Nat /\ \A b \in T : b <= m - 1
    BY <2>2
  <2> QED
    BY <1>2, <2>2, <2>3
<1>4. \E x \in T : \A y \in T : x >= y
  BY <1>3
<1>5. W!Max(T) \in T /\ \A y \in T : W!Max(T) >= y
  BY <1>4, Zenon DEF W!Max
<1>6. ASSUME NEW k \in T, \A b \in T : b <= k PROVE W!Max(T) = k
  <2>1. W!Max(T) <= k /\ W!Max(T) >= k
    BY <1>5, <1>6, Zenon
  <2>2. T \subseteq Nat
    OBVIOUS
  <2>3. W!Max(T) \in Nat /\ k \in Nat
    BY <1>5, <2>2, Zenon
  <2> QED
    BY <2>1, <2>3
<1> QED
  BY <1>5, <1>6

AtSteps(w, p, n) == /\ w[0] = Listed[RootStart][1]
                    /\ \A k \in 1 .. n : w[k] = W!Child(w[k - 1], p[k])

\* A cleaned path with one more name.
Onto(acc, x) == IF x = "." THEN acc
                ELSE IF x = ".." THEN SubSeq(acc, 1, Len(acc) - 1)
                ELSE Append(acc, x)

CleanSteps(w, p, n) == w[0] = <<>> /\ \A k \in 1 .. n : w[k] = Onto(w[k - 1], p[k])

\* A visited record is cached if it is a directory.
Visited(cache, p, fi) == IF fi.dir THEN W!lstatCacheAdd(cache, p, fi) ELSE cache

DirsSteps(w, p, infos, n) ==
    /\ w[0] = lstatCache
    /\ \A k \in 1 .. n : w[k] = Visited(w[k - 1], p, infos[k])

ListSteps(w, infos, n) ==
    /\ w[0] = lstatCache
    /\ \A k \in 1 .. n : w[k] = W!lstatCacheAdd(w[k - 1], asked, infos[k])

\* A listing grows by a record.
Told(acc, p, fi) == IF fi.name \in {".", ".."} THEN acc ELSE Append(acc, [of |-> p, info |-> fi])

ShownSteps(w, p, infos, n) ==
    /\ w[0] = <<>>
    /\ \A k \in 1 .. n : w[k] = Told(w[k - 1], p, infos[k])

\* The states of the folds: each is the step of the one before.
LEMMA FoldAt ==
    ASSUME NEW p, NEW n \in Nat, DOMAIN p = 1 .. n
    PROVE  \E w : AtSteps(w, p, n) /\ W!At(p) = w[n]
<1> DEFINE origin == Listed[RootStart][1]
           Iter(it, m) == it = [t \in SUBSET (1 .. m) |->
                             IF t = {} THEN origin ELSE W!Child(it[t \ {W!Max(t)}], p[W!Max(t)])]
           Good == {m \in Nat : \E it : Iter(it, m)}
<1>1. 0 \in Good
  <2> DEFINE it == [t \in {{}} |-> origin]
  <2>1. SUBSET (1 .. 0) = {{}}
    OBVIOUS
  <2>2. Iter(it, 0)
    BY <2>1, Zenon
  <2> QED
    BY <2>2
<1>2. ASSUME NEW m \in Nat, m \in Good PROVE m + 1 \in Good
  <2>1. PICK f : Iter(f, m)
    BY <1>2
  <2> DEFINE it == [t \in SUBSET (1 .. m + 1) |->
                      IF m + 1 \in t THEN W!Child(f[t \ {m + 1}], p[m + 1]) ELSE f[t]]
  <2>2. ASSUME NEW t \in SUBSET (1 .. m + 1)
        PROVE  it[t] = IF t = {} THEN origin ELSE W!Child(it[t \ {W!Max(t)}], p[W!Max(t)])
    <3>1. CASE m + 1 \in t
      <4>1. W!Max(t) = m + 1 /\ t # {}
        <5>1. t # {} /\ t \in SUBSET (0 .. m + 1) /\ m + 1 \in Nat /\ \A b \in t : b <= m + 1
          BY <3>1
        <5> HIDE DEF it
        <5> QED
          BY <3>1, <5>1, Upper
      <4>2. t \ {m + 1} \in SUBSET (1 .. m + 1) /\ m + 1 \notin t \ {m + 1}
        OBVIOUS
      <4>3. it[t \ {m + 1}] = f[t \ {m + 1}]
        BY <4>2, Zenon
      <4>4. it[t] = W!Child(f[t \ {m + 1}], p[m + 1])
        BY <3>1, Zenon
      <4> QED
        BY <4>1, <4>3, <4>4, Zenon
    <3>2. CASE m + 1 \notin t
      <4>1. t \in SUBSET (1 .. m)
        BY <3>2
      <4>2. t \ {W!Max(t)} \in SUBSET (1 .. m + 1) /\ m + 1 \notin t \ {W!Max(t)}
        BY <3>2
      <4>3. it[t] = f[t] /\ it[t \ {W!Max(t)}] = f[t \ {W!Max(t)}]
        BY <3>2, <4>2, Zenon
      <4>4. f[t] = IF t = {} THEN origin ELSE W!Child(f[t \ {W!Max(t)}], p[W!Max(t)])
        BY <2>1, <4>1, Zenon
      <4> QED
        BY <4>3, <4>4, Zenon
    <3> QED
      BY <3>1, <3>2
  <2>3. Iter(it, m + 1)
    <3> HIDE DEF origin
    <3> QED
      BY <2>2, Zenon
  <2> HIDE DEF Iter, it
  <2> QED
    BY <2>3
<1>3. PICK it : Iter(it, n) /\ W!At(p) = it[1 .. n]
  <2>1. \E it : Iter(it, n)
    <3> HIDE DEF Iter
    <3> QED
      BY <1>1, <1>2, Numbers
  <2> QED
    BY <2>1 DEF W!At, W!FoldLeft, W!MapThenFoldSet
<1> DEFINE w == [k \in 0 .. n |-> it[1 .. k]]
<1>4. w[0] = origin
  <2>1. 1 .. 0 = {} /\ {} \in SUBSET (1 .. n) /\ 0 \in 0 .. n
    OBVIOUS
  <2>2. it[{}] = origin
    BY <1>3, <2>1, Zenon
  <2>3. w[0] = it[1 .. 0]
    BY <2>1, Zenon
  <2> QED
    BY <2>1, <2>2, <2>3, Zenon
<1>5. ASSUME NEW k \in 1 .. n PROVE w[k] = W!Child(w[k - 1], p[k])
  <2>1. 1 .. k # {} /\ (1 .. k) \ {k} = 1 .. k - 1 /\ 1 .. k \in SUBSET (1 .. n) /\ 1 .. k \in SUBSET (0 .. n) /\ k \in 1 .. k
        /\ \A b \in 1 .. k : b <= k
    OBVIOUS
  <2>3. W!Max(1 .. k) = k
    BY <2>1, Upper
  <2>2. it[1 .. k] = W!Child(it[(1 .. k) \ {k}], p[k])
    BY <1>3, <2>1, <2>3, Zenon
  <2>4. w[k] = it[1 .. k] /\ w[k - 1] = it[1 .. k - 1]
    OBVIOUS
  <2> QED
    BY <2>1, <2>2, <2>4, Zenon
<1>6. DOMAIN w = 0 .. n /\ w[n] = it[1 .. n]
  OBVIOUS
<1> HIDE DEF w, Iter
<1> QED
  BY <1>3, <1>4, <1>5, <1>6, Zenon DEF AtSteps

LEMMA FoldClean ==
    ASSUME NEW p, NEW n \in Nat, DOMAIN p = 1 .. n
    PROVE  \E w : CleanSteps(w, p, n) /\ W!Clean(p) = w[n]
<1> DEFINE origin == <<>>
           Iter(it, m) == it = [t \in SUBSET (1 .. m) |->
                             IF t = {} THEN origin ELSE Onto(it[t \ {W!Max(t)}], p[W!Max(t)])]
           Good == {m \in Nat : \E it : Iter(it, m)}
<1>1. 0 \in Good
  <2> DEFINE it == [t \in {{}} |-> origin]
  <2>1. SUBSET (1 .. 0) = {{}}
    OBVIOUS
  <2>2. Iter(it, 0)
    BY <2>1, Zenon
  <2> QED
    BY <2>2
<1>2. ASSUME NEW m \in Nat, m \in Good PROVE m + 1 \in Good
  <2>1. PICK f : Iter(f, m)
    BY <1>2
  <2> DEFINE it == [t \in SUBSET (1 .. m + 1) |->
                      IF m + 1 \in t THEN Onto(f[t \ {m + 1}], p[m + 1]) ELSE f[t]]
  <2>2. ASSUME NEW t \in SUBSET (1 .. m + 1)
        PROVE  it[t] = IF t = {} THEN origin ELSE Onto(it[t \ {W!Max(t)}], p[W!Max(t)])
    <3>1. CASE m + 1 \in t
      <4>1. W!Max(t) = m + 1 /\ t # {}
        <5>1. t # {} /\ t \in SUBSET (0 .. m + 1) /\ m + 1 \in Nat /\ \A b \in t : b <= m + 1
          BY <3>1
        <5> HIDE DEF it
        <5> QED
          BY <3>1, <5>1, Upper
      <4>2. t \ {m + 1} \in SUBSET (1 .. m + 1) /\ m + 1 \notin t \ {m + 1}
        OBVIOUS
      <4>3. it[t \ {m + 1}] = f[t \ {m + 1}]
        BY <4>2, Zenon
      <4>4. it[t] = Onto(f[t \ {m + 1}], p[m + 1])
        BY <3>1, Zenon
      <4> QED
        BY <4>1, <4>3, <4>4, Zenon
    <3>2. CASE m + 1 \notin t
      <4>1. t \in SUBSET (1 .. m)
        BY <3>2
      <4>2. t \ {W!Max(t)} \in SUBSET (1 .. m + 1) /\ m + 1 \notin t \ {W!Max(t)}
        BY <3>2
      <4>3. it[t] = f[t] /\ it[t \ {W!Max(t)}] = f[t \ {W!Max(t)}]
        BY <3>2, <4>2, Zenon
      <4>4. f[t] = IF t = {} THEN origin ELSE Onto(f[t \ {W!Max(t)}], p[W!Max(t)])
        BY <2>1, <4>1, Zenon
      <4> QED
        BY <4>3, <4>4, Zenon
    <3> QED
      BY <3>1, <3>2
  <2>3. Iter(it, m + 1)
    <3> HIDE DEF origin
    <3> QED
      BY <2>2, Zenon
  <2> HIDE DEF Iter, it
  <2> QED
    BY <2>3
<1>3. PICK it : Iter(it, n) /\ W!Clean(p) = it[1 .. n]
  <2>1. \E it : Iter(it, n)
    <3> HIDE DEF Iter
    <3> QED
      BY <1>1, <1>2, Numbers
  <2> QED
    BY <2>1 DEF W!Clean, Onto, W!FoldLeft, W!MapThenFoldSet
<1> DEFINE w == [k \in 0 .. n |-> it[1 .. k]]
<1>4. w[0] = origin
  <2>1. 1 .. 0 = {} /\ {} \in SUBSET (1 .. n) /\ 0 \in 0 .. n
    OBVIOUS
  <2>2. it[{}] = origin
    BY <1>3, <2>1, Zenon
  <2>3. w[0] = it[1 .. 0]
    BY <2>1, Zenon
  <2> QED
    BY <2>1, <2>2, <2>3, Zenon
<1>5. ASSUME NEW k \in 1 .. n PROVE w[k] = Onto(w[k - 1], p[k])
  <2>1. 1 .. k # {} /\ (1 .. k) \ {k} = 1 .. k - 1 /\ 1 .. k \in SUBSET (1 .. n) /\ 1 .. k \in SUBSET (0 .. n) /\ k \in 1 .. k
        /\ \A b \in 1 .. k : b <= k
    OBVIOUS
  <2>3. W!Max(1 .. k) = k
    BY <2>1, Upper
  <2>2. it[1 .. k] = Onto(it[(1 .. k) \ {k}], p[k])
    BY <1>3, <2>1, <2>3, Zenon
  <2>4. w[k] = it[1 .. k] /\ w[k - 1] = it[1 .. k - 1]
    OBVIOUS
  <2> QED
    BY <2>1, <2>2, <2>4, Zenon
<1>6. DOMAIN w = 0 .. n /\ w[n] = it[1 .. n]
  OBVIOUS
<1> HIDE DEF w, Iter
<1> QED
  BY <1>3, <1>4, <1>5, <1>6, Zenon DEF CleanSteps

LEMMA FoldDirs ==
    ASSUME NEW p, NEW infos, NEW n \in Nat, DOMAIN infos = 1 .. n
    PROVE  \E w : DirsSteps(w, p, infos, n) /\ W!CacheDirs(p, infos) = w[n]
<1> DEFINE origin == lstatCache
           Iter(it, m) == it = [t \in SUBSET (1 .. m) |->
                             IF t = {} THEN origin ELSE Visited(it[t \ {W!Max(t)}], p, infos[W!Max(t)])]
           Good == {m \in Nat : \E it : Iter(it, m)}
<1>1. 0 \in Good
  <2> DEFINE it == [t \in {{}} |-> origin]
  <2>1. SUBSET (1 .. 0) = {{}}
    OBVIOUS
  <2>2. Iter(it, 0)
    BY <2>1, Zenon
  <2> QED
    BY <2>2
<1>2. ASSUME NEW m \in Nat, m \in Good PROVE m + 1 \in Good
  <2>1. PICK f : Iter(f, m)
    BY <1>2
  <2> DEFINE it == [t \in SUBSET (1 .. m + 1) |->
                      IF m + 1 \in t THEN Visited(f[t \ {m + 1}], p, infos[m + 1]) ELSE f[t]]
  <2>2. ASSUME NEW t \in SUBSET (1 .. m + 1)
        PROVE  it[t] = IF t = {} THEN origin ELSE Visited(it[t \ {W!Max(t)}], p, infos[W!Max(t)])
    <3>1. CASE m + 1 \in t
      <4>1. W!Max(t) = m + 1 /\ t # {}
        <5>1. t # {} /\ t \in SUBSET (0 .. m + 1) /\ m + 1 \in Nat /\ \A b \in t : b <= m + 1
          BY <3>1
        <5> HIDE DEF it
        <5> QED
          BY <3>1, <5>1, Upper
      <4>2. t \ {m + 1} \in SUBSET (1 .. m + 1) /\ m + 1 \notin t \ {m + 1}
        OBVIOUS
      <4>3. it[t \ {m + 1}] = f[t \ {m + 1}]
        BY <4>2, Zenon
      <4>4. it[t] = Visited(f[t \ {m + 1}], p, infos[m + 1])
        BY <3>1, Zenon
      <4> QED
        BY <4>1, <4>3, <4>4, Zenon
    <3>2. CASE m + 1 \notin t
      <4>1. t \in SUBSET (1 .. m)
        BY <3>2
      <4>2. t \ {W!Max(t)} \in SUBSET (1 .. m + 1) /\ m + 1 \notin t \ {W!Max(t)}
        BY <3>2
      <4>3. it[t] = f[t] /\ it[t \ {W!Max(t)}] = f[t \ {W!Max(t)}]
        BY <3>2, <4>2, Zenon
      <4>4. f[t] = IF t = {} THEN origin ELSE Visited(f[t \ {W!Max(t)}], p, infos[W!Max(t)])
        BY <2>1, <4>1, Zenon
      <4> QED
        BY <4>3, <4>4, Zenon
    <3> QED
      BY <3>1, <3>2
  <2>3. Iter(it, m + 1)
    <3> HIDE DEF origin
    <3> QED
      BY <2>2, Zenon
  <2> HIDE DEF Iter, it
  <2> QED
    BY <2>3
<1>3. PICK it : Iter(it, n) /\ W!CacheDirs(p, infos) = it[1 .. n]
  <2>1. \E it : Iter(it, n)
    <3> HIDE DEF Iter
    <3> QED
      BY <1>1, <1>2, Numbers
  <2> QED
    BY <2>1 DEF W!CacheDirs, Visited, W!FoldLeft, W!MapThenFoldSet
<1> DEFINE w == [k \in 0 .. n |-> it[1 .. k]]
<1>4. w[0] = origin
  <2>1. 1 .. 0 = {} /\ {} \in SUBSET (1 .. n) /\ 0 \in 0 .. n
    OBVIOUS
  <2>2. it[{}] = origin
    BY <1>3, <2>1, Zenon
  <2>3. w[0] = it[1 .. 0]
    BY <2>1, Zenon
  <2> QED
    BY <2>1, <2>2, <2>3, Zenon
<1>5. ASSUME NEW k \in 1 .. n PROVE w[k] = Visited(w[k - 1], p, infos[k])
  <2>1. 1 .. k # {} /\ (1 .. k) \ {k} = 1 .. k - 1 /\ 1 .. k \in SUBSET (1 .. n) /\ 1 .. k \in SUBSET (0 .. n) /\ k \in 1 .. k
        /\ \A b \in 1 .. k : b <= k
    OBVIOUS
  <2>3. W!Max(1 .. k) = k
    BY <2>1, Upper
  <2>2. it[1 .. k] = Visited(it[(1 .. k) \ {k}], p, infos[k])
    BY <1>3, <2>1, <2>3, Zenon
  <2>4. w[k] = it[1 .. k] /\ w[k - 1] = it[1 .. k - 1]
    OBVIOUS
  <2> QED
    BY <2>1, <2>2, <2>4, Zenon
<1>6. DOMAIN w = 0 .. n /\ w[n] = it[1 .. n]
  OBVIOUS
<1> HIDE DEF w, Iter
<1> QED
  BY <1>3, <1>4, <1>5, <1>6, Zenon DEF DirsSteps

LEMMA FoldList ==
    ASSUME NEW infos, NEW n \in Nat, DOMAIN infos = 1 .. n
    PROVE  \E w : ListSteps(w, infos, n) /\ W!CacheList(infos) = w[n]
<1> DEFINE origin == lstatCache
           Iter(it, m) == it = [t \in SUBSET (1 .. m) |->
                             IF t = {} THEN origin ELSE W!lstatCacheAdd(it[t \ {W!Max(t)}], asked, infos[W!Max(t)])]
           Good == {m \in Nat : \E it : Iter(it, m)}
<1>1. 0 \in Good
  <2> DEFINE it == [t \in {{}} |-> origin]
  <2>1. SUBSET (1 .. 0) = {{}}
    OBVIOUS
  <2>2. Iter(it, 0)
    BY <2>1, Zenon
  <2> QED
    BY <2>2
<1>2. ASSUME NEW m \in Nat, m \in Good PROVE m + 1 \in Good
  <2>1. PICK f : Iter(f, m)
    BY <1>2
  <2> DEFINE it == [t \in SUBSET (1 .. m + 1) |->
                      IF m + 1 \in t THEN W!lstatCacheAdd(f[t \ {m + 1}], asked, infos[m + 1]) ELSE f[t]]
  <2>2. ASSUME NEW t \in SUBSET (1 .. m + 1)
        PROVE  it[t] = IF t = {} THEN origin ELSE W!lstatCacheAdd(it[t \ {W!Max(t)}], asked, infos[W!Max(t)])
    <3>1. CASE m + 1 \in t
      <4>1. W!Max(t) = m + 1 /\ t # {}
        <5>1. t # {} /\ t \in SUBSET (0 .. m + 1) /\ m + 1 \in Nat /\ \A b \in t : b <= m + 1
          BY <3>1
        <5> HIDE DEF it
        <5> QED
          BY <3>1, <5>1, Upper
      <4>2. t \ {m + 1} \in SUBSET (1 .. m + 1) /\ m + 1 \notin t \ {m + 1}
        OBVIOUS
      <4>3. it[t \ {m + 1}] = f[t \ {m + 1}]
        BY <4>2, Zenon
      <4>4. it[t] = W!lstatCacheAdd(f[t \ {m + 1}], asked, infos[m + 1])
        BY <3>1, Zenon
      <4> QED
        BY <4>1, <4>3, <4>4, Zenon
    <3>2. CASE m + 1 \notin t
      <4>1. t \in SUBSET (1 .. m)
        BY <3>2
      <4>2. t \ {W!Max(t)} \in SUBSET (1 .. m + 1) /\ m + 1 \notin t \ {W!Max(t)}
        BY <3>2
      <4>3. it[t] = f[t] /\ it[t \ {W!Max(t)}] = f[t \ {W!Max(t)}]
        BY <3>2, <4>2, Zenon
      <4>4. f[t] = IF t = {} THEN origin ELSE W!lstatCacheAdd(f[t \ {W!Max(t)}], asked, infos[W!Max(t)])
        BY <2>1, <4>1, Zenon
      <4> QED
        BY <4>3, <4>4, Zenon
    <3> QED
      BY <3>1, <3>2
  <2>3. Iter(it, m + 1)
    <3> HIDE DEF origin
    <3> QED
      BY <2>2, Zenon
  <2> HIDE DEF Iter, it
  <2> QED
    BY <2>3
<1>3. PICK it : Iter(it, n) /\ W!CacheList(infos) = it[1 .. n]
  <2>1. \E it : Iter(it, n)
    <3> HIDE DEF Iter
    <3> QED
      BY <1>1, <1>2, Numbers
  <2> QED
    BY <2>1 DEF W!CacheList, W!FoldLeft, W!MapThenFoldSet
<1> DEFINE w == [k \in 0 .. n |-> it[1 .. k]]
<1>4. w[0] = origin
  <2>1. 1 .. 0 = {} /\ {} \in SUBSET (1 .. n) /\ 0 \in 0 .. n
    OBVIOUS
  <2>2. it[{}] = origin
    BY <1>3, <2>1, Zenon
  <2>3. w[0] = it[1 .. 0]
    BY <2>1, Zenon
  <2> QED
    BY <2>1, <2>2, <2>3, Zenon
<1>5. ASSUME NEW k \in 1 .. n PROVE w[k] = W!lstatCacheAdd(w[k - 1], asked, infos[k])
  <2>1. 1 .. k # {} /\ (1 .. k) \ {k} = 1 .. k - 1 /\ 1 .. k \in SUBSET (1 .. n) /\ 1 .. k \in SUBSET (0 .. n) /\ k \in 1 .. k
        /\ \A b \in 1 .. k : b <= k
    OBVIOUS
  <2>3. W!Max(1 .. k) = k
    BY <2>1, Upper
  <2>2. it[1 .. k] = W!lstatCacheAdd(it[(1 .. k) \ {k}], asked, infos[k])
    BY <1>3, <2>1, <2>3, Zenon
  <2>4. w[k] = it[1 .. k] /\ w[k - 1] = it[1 .. k - 1]
    OBVIOUS
  <2> QED
    BY <2>1, <2>2, <2>4, Zenon
<1>6. DOMAIN w = 0 .. n /\ w[n] = it[1 .. n]
  OBVIOUS
<1> HIDE DEF w, Iter
<1> QED
  BY <1>3, <1>4, <1>5, <1>6, Zenon DEF ListSteps

LEMMA FoldShown ==
    ASSUME NEW p, NEW infos, NEW n \in Nat, DOMAIN infos = 1 .. n
    PROVE  \E w : ShownSteps(w, p, infos, n) /\ W!Shown(p, infos) = w[n]
<1> DEFINE origin == <<>>
           Iter(it, m) == it = [t \in SUBSET (1 .. m) |->
                             IF t = {} THEN origin ELSE Told(it[t \ {W!Max(t)}], p, infos[W!Max(t)])]
           Good == {m \in Nat : \E it : Iter(it, m)}
<1>1. 0 \in Good
  <2> DEFINE it == [t \in {{}} |-> origin]
  <2>1. SUBSET (1 .. 0) = {{}}
    OBVIOUS
  <2>2. Iter(it, 0)
    BY <2>1, Zenon
  <2> QED
    BY <2>2
<1>2. ASSUME NEW m \in Nat, m \in Good PROVE m + 1 \in Good
  <2>1. PICK f : Iter(f, m)
    BY <1>2
  <2> DEFINE it == [t \in SUBSET (1 .. m + 1) |->
                      IF m + 1 \in t THEN Told(f[t \ {m + 1}], p, infos[m + 1]) ELSE f[t]]
  <2>2. ASSUME NEW t \in SUBSET (1 .. m + 1)
        PROVE  it[t] = IF t = {} THEN origin ELSE Told(it[t \ {W!Max(t)}], p, infos[W!Max(t)])
    <3>1. CASE m + 1 \in t
      <4>1. W!Max(t) = m + 1 /\ t # {}
        <5>1. t # {} /\ t \in SUBSET (0 .. m + 1) /\ m + 1 \in Nat /\ \A b \in t : b <= m + 1
          BY <3>1
        <5> HIDE DEF it
        <5> QED
          BY <3>1, <5>1, Upper
      <4>2. t \ {m + 1} \in SUBSET (1 .. m + 1) /\ m + 1 \notin t \ {m + 1}
        OBVIOUS
      <4>3. it[t \ {m + 1}] = f[t \ {m + 1}]
        BY <4>2, Zenon
      <4>4. it[t] = Told(f[t \ {m + 1}], p, infos[m + 1])
        BY <3>1, Zenon
      <4> QED
        BY <4>1, <4>3, <4>4, Zenon
    <3>2. CASE m + 1 \notin t
      <4>1. t \in SUBSET (1 .. m)
        BY <3>2
      <4>2. t \ {W!Max(t)} \in SUBSET (1 .. m + 1) /\ m + 1 \notin t \ {W!Max(t)}
        BY <3>2
      <4>3. it[t] = f[t] /\ it[t \ {W!Max(t)}] = f[t \ {W!Max(t)}]
        BY <3>2, <4>2, Zenon
      <4>4. f[t] = IF t = {} THEN origin ELSE Told(f[t \ {W!Max(t)}], p, infos[W!Max(t)])
        BY <2>1, <4>1, Zenon
      <4> QED
        BY <4>3, <4>4, Zenon
    <3> QED
      BY <3>1, <3>2
  <2>3. Iter(it, m + 1)
    <3> HIDE DEF origin
    <3> QED
      BY <2>2, Zenon
  <2> HIDE DEF Iter, it
  <2> QED
    BY <2>3
<1>3. PICK it : Iter(it, n) /\ W!Shown(p, infos) = it[1 .. n]
  <2>1. \E it : Iter(it, n)
    <3> HIDE DEF Iter
    <3> QED
      BY <1>1, <1>2, Numbers
  <2> QED
    BY <2>1 DEF W!Shown, Told, W!FoldLeft, W!MapThenFoldSet
<1> DEFINE w == [k \in 0 .. n |-> it[1 .. k]]
<1>4. w[0] = origin
  <2>1. 1 .. 0 = {} /\ {} \in SUBSET (1 .. n) /\ 0 \in 0 .. n
    OBVIOUS
  <2>2. it[{}] = origin
    BY <1>3, <2>1, Zenon
  <2>3. w[0] = it[1 .. 0]
    BY <2>1, Zenon
  <2> QED
    BY <2>1, <2>2, <2>3, Zenon
<1>5. ASSUME NEW k \in 1 .. n PROVE w[k] = Told(w[k - 1], p, infos[k])
  <2>1. 1 .. k # {} /\ (1 .. k) \ {k} = 1 .. k - 1 /\ 1 .. k \in SUBSET (1 .. n) /\ 1 .. k \in SUBSET (0 .. n) /\ k \in 1 .. k
        /\ \A b \in 1 .. k : b <= k
    OBVIOUS
  <2>3. W!Max(1 .. k) = k
    BY <2>1, Upper
  <2>2. it[1 .. k] = Told(it[(1 .. k) \ {k}], p, infos[k])
    BY <1>3, <2>1, <2>3, Zenon
  <2>4. w[k] = it[1 .. k] /\ w[k - 1] = it[1 .. k - 1]
    OBVIOUS
  <2> QED
    BY <2>1, <2>2, <2>4, Zenon
<1>6. DOMAIN w = 0 .. n /\ w[n] = it[1 .. n]
  OBVIOUS
<1> HIDE DEF w, Iter
<1> QED
  BY <1>3, <1>4, <1>5, <1>6, Zenon DEF ShownSteps

FileInfos == UNION {{Listed[e][j] : j \in DOMAIN Listed[e]} : e \in DOMAIN Listed}

\* Names, and those of files: "." and ".." are not.
Elements(s) == {s[i] : i \in DOMAIN s}
Words  == {".", ".."} \cup {fi.name : fi \in FileInfos}
          \cup (UNION {Elements(fi.target) : fi \in FileInfos})
          \cup (UNION {Elements(c.path) : c \in Commands})
Proper == Words \ {".", ".."}

LEMMA Dots == "." \in Words /\ ".." \in Words
  BY DEF Words

LEMMA AtEmpty == W!At(<<>>) = Listed[RootStart][1]
<1>1. PICK w : AtSteps(w, <<>>, 0) /\ W!At(<<>>) = w[0]
  <2>1. DOMAIN <<>> = 1 .. 0 /\ 0 \in Nat
    OBVIOUS
  <2> QED
    BY <2>1, FoldAt
<1> QED
  BY <1>1 DEF AtSteps

LEMMA AtAppend ==
    ASSUME NEW p \in Seq(Words), NEW x \in Words
    PROVE  W!At(Append(p, x)) = W!Child(W!At(p), x)
<1> DEFINE n == Len(p)
           r == Append(p, x)
<1>1. /\ n \in Nat /\ DOMAIN p = 1 .. n /\ DOMAIN r = 1 .. n + 1
      /\ r[n + 1] = x /\ \A k \in 1 .. n : r[k] = p[k]
  <2>1. r \in Seq(Words) /\ Len(r) = n + 1 /\ n \in Nat
    BY AppendProperties
  <2>2. r[n + 1] = x /\ \A k \in 1 .. n : r[k] = p[k]
    BY AppendProperties
  <2> HIDE DEF r
  <2> QED
    BY <2>1, <2>2
<1> HIDE DEF n, r
<1>2. PICK w : AtSteps(w, p, n) /\ W!At(p) = w[n]
  BY <1>1, FoldAt
<1>3. PICK v : AtSteps(v, r, n + 1) /\ W!At(r) = v[n + 1]
  <2>1. n + 1 \in Nat
    BY <1>1
  <2> QED
    BY <1>1, <2>1, FoldAt
<1> DEFINE Good == {k \in Nat : k <= n => w[k] = v[k]}
<1>4. 0 \in Good
  BY <1>2, <1>3 DEF AtSteps
<1>5. ASSUME NEW k \in Nat, k \in Good PROVE k + 1 \in Good
  <2> SUFFICES ASSUME k + 1 <= n PROVE w[k + 1] = v[k + 1]
    OBVIOUS
  <2>1. w[k] = v[k] /\ (k + 1) - 1 = k
    BY <1>1, <1>5
  <2>2. k + 1 \in 1 .. n /\ k + 1 \in 1 .. n + 1
    BY <1>1
  <2>3. w[k + 1] = W!Child(w[(k + 1) - 1], p[k + 1]) /\ v[k + 1] = W!Child(v[(k + 1) - 1], r[k + 1])
    BY <1>2, <1>3, <2>2, Zenon DEF AtSteps
  <2> QED
    BY <1>1, <2>1, <2>2, <2>3
<1> HIDE DEF Good
<1>6. n \in Good
  BY <1>1, <1>4, <1>5, Numbers
<1>7. w[n] = v[n]
  BY <1>1, <1>6 DEF Good
<1>8. v[n + 1] = W!Child(v[(n + 1) - 1], r[n + 1]) /\ (n + 1) - 1 = n
  <2>1. n + 1 \in 1 .. n + 1 /\ (n + 1) - 1 = n
    BY <1>1
  <2> QED
    BY <1>3, <2>1, Zenon DEF AtSteps
<1> QED
  BY <1>1, <1>2, <1>3, <1>7, <1>8 DEF r

LEMMA CleanEmpty == W!Clean(<<>>) = <<>>
<1>1. PICK w : CleanSteps(w, <<>>, 0) /\ W!Clean(<<>>) = w[0]
  <2>1. DOMAIN <<>> = 1 .. 0 /\ 0 \in Nat
    OBVIOUS
  <2> QED
    BY <2>1, FoldClean
<1> QED
  BY <1>1 DEF CleanSteps

LEMMA CleanAppend ==
    ASSUME NEW p \in Seq(Words), NEW x \in Words
    PROVE  W!Clean(Append(p, x)) = Onto(W!Clean(p), x)
<1> DEFINE n == Len(p)
           r == Append(p, x)
<1>1. /\ n \in Nat /\ DOMAIN p = 1 .. n /\ DOMAIN r = 1 .. n + 1
      /\ r[n + 1] = x /\ \A k \in 1 .. n : r[k] = p[k]
  <2>1. r \in Seq(Words) /\ Len(r) = n + 1 /\ n \in Nat
    BY AppendProperties
  <2>2. r[n + 1] = x /\ \A k \in 1 .. n : r[k] = p[k]
    BY AppendProperties
  <2> HIDE DEF r
  <2> QED
    BY <2>1, <2>2
<1> HIDE DEF n, r
<1>2. PICK w : CleanSteps(w, p, n) /\ W!Clean(p) = w[n]
  BY <1>1, FoldClean
<1>3. PICK v : CleanSteps(v, r, n + 1) /\ W!Clean(r) = v[n + 1]
  <2>1. n + 1 \in Nat
    BY <1>1
  <2> QED
    BY <1>1, <2>1, FoldClean
<1> DEFINE Good == {k \in Nat : k <= n => w[k] = v[k]}
<1>4. 0 \in Good
  BY <1>2, <1>3 DEF CleanSteps
<1>5. ASSUME NEW k \in Nat, k \in Good PROVE k + 1 \in Good
  <2> SUFFICES ASSUME k + 1 <= n PROVE w[k + 1] = v[k + 1]
    OBVIOUS
  <2>1. w[k] = v[k] /\ (k + 1) - 1 = k
    BY <1>1, <1>5
  <2>2. k + 1 \in 1 .. n /\ k + 1 \in 1 .. n + 1
    BY <1>1
  <2>3. w[k + 1] = Onto(w[(k + 1) - 1], p[k + 1]) /\ v[k + 1] = Onto(v[(k + 1) - 1], r[k + 1])
    BY <1>2, <1>3, <2>2, Zenon DEF CleanSteps
  <2> QED
    BY <1>1, <2>1, <2>2, <2>3
<1> HIDE DEF Good
<1>6. n \in Good
  BY <1>1, <1>4, <1>5, Numbers
<1>7. w[n] = v[n]
  BY <1>1, <1>6 DEF Good
<1>8. v[n + 1] = Onto(v[(n + 1) - 1], r[n + 1]) /\ (n + 1) - 1 = n
  <2>1. n + 1 \in 1 .. n + 1 /\ (n + 1) - 1 = n
    BY <1>1
  <2> QED
    BY <1>3, <2>1, Zenon DEF CleanSteps
<1> QED
  BY <1>1, <1>2, <1>3, <1>7, <1>8 DEF r

\* A path that is not empty, without its last name.
LEMMA LastName ==
    ASSUME NEW S, NEW p \in Seq(S), NEW n \in Nat, Len(p) = n + 1
    PROVE  /\ SubSeq(p, 1, n) \in Seq(S) /\ Len(SubSeq(p, 1, n)) = n
           /\ p[n + 1] \in S
           /\ p = Append(SubSeq(p, 1, n), p[n + 1])
  OBVIOUS

\* A cleaned path has no dots.
LEMMA CleanProper == \A p \in Seq(Words) : W!Clean(p) \in Seq(Proper)
<1> DEFINE Good == {n \in Nat : \A p \in Seq(Words) : Len(p) = n => W!Clean(p) \in Seq(Proper)}
<1>1. 0 \in Good
  <2> SUFFICES ASSUME NEW p \in Seq(Words), Len(p) = 0 PROVE W!Clean(p) \in Seq(Proper)
    OBVIOUS
  <2>1. p = <<>>
    OBVIOUS
  <2>2. <<>> \in Seq(Proper)
    OBVIOUS
  <2> QED
    BY <2>1, <2>2, CleanEmpty, Zenon
<1>2. ASSUME NEW n \in Nat, n \in Good PROVE n + 1 \in Good
  <2> SUFFICES ASSUME NEW p \in Seq(Words), Len(p) = n + 1 PROVE W!Clean(p) \in Seq(Proper)
    OBVIOUS
  <2> DEFINE r == SubSeq(p, 1, n)
             x == p[n + 1]
  <2>1. r \in Seq(Words) /\ Len(r) = n /\ x \in Words /\ p = Append(r, x)
    BY LastName
  <2> HIDE DEF r, x
  <2>2. W!Clean(r) \in Seq(Proper)
    BY <1>2, <2>1
  <2>3. W!Clean(p) = Onto(W!Clean(r), x)
    BY <2>1, CleanAppend
  <2>4. Onto(W!Clean(r), x) \in Seq(Proper)
    <3> DEFINE c == W!Clean(r)
    <3>1. x \notin {".", ".."} => Append(c, x) \in Seq(Proper)
      BY <2>1, <2>2 DEF Proper
    <3>2. SubSeq(c, 1, Len(c) - 1) \in Seq(Proper)
      <4> HIDE DEF c
      <4> QED
        BY <2>2 DEF c
    <3> QED
      BY <2>2, <3>1, <3>2, Zenon DEF Onto
  <2> QED
    BY <2>3, <2>4
<1> HIDE DEF Good
<1>3. Nat \subseteq Good
  BY <1>1, <1>2, Numbers
<1> QED
  <2> SUFFICES ASSUME NEW p \in Seq(Words) PROVE W!Clean(p) \in Seq(Proper)
    OBVIOUS
  <2>1. Len(p) \in Good
    BY <1>3
  <2> QED
    BY <2>1 DEF Good

\* The first names of a path, after the "." that a lookup begins with.
Upto(p, k) == SubSeq(p, 1, k - 1)
Dotted(p)  == <<".">> \o p

LEMMA ProperNames == Proper \subseteq Words /\ \A p \in Seq(Proper) : p \in Seq(Words)
  BY DEF Proper

LEMMA UptoNext ==
    ASSUME NEW S, NEW p \in Seq(S), NEW k \in 1 .. Len(p)
    PROVE  /\ Upto(p, k) \in Seq(S) /\ p[k] \in S
           /\ Upto(p, k + 1) = Append(Upto(p, k), p[k])
  BY DEF Upto

LEMMA UptoEnds ==
    ASSUME NEW S, NEW p \in Seq(S)
    PROVE  /\ Upto(p, 0) = <<>> /\ Upto(p, 1) = <<>> /\ Upto(p, Len(p) + 1) = p
           /\ \A k \in 0 .. Len(p) + 1 : Upto(p, k) \in Seq(S)
  BY DEF Upto

LEMMA DottedNext ==
    ASSUME NEW p \in Seq(Words)
    PROVE  /\ Dotted(p) \in Seq(Words) /\ Len(Dotted(p)) = Len(p) + 1
           /\ Dotted(p)[1] = "." /\ \A k \in 1 .. Len(p) : Dotted(p)[k + 1] = p[k]
           /\ \A k \in 0 .. Len(p) : SubSeq(Dotted(p), 1, k) \in Seq(Words)
           /\ SubSeq(Dotted(p), 1, 0) = <<>>
           /\ \A k \in 0 .. Len(p) :
                 SubSeq(Dotted(p), 1, k + 1) = Append(SubSeq(Dotted(p), 1, k), Dotted(p)[k + 1])
<1> DEFINE d == Dotted(p)
<1>1. /\ d \in Seq(Words) /\ Len(d) = Len(p) + 1
      /\ d[1] = "." /\ \A k \in 1 .. Len(p) : d[k + 1] = p[k]
  <2>1. <<".">> \in Seq(Words) /\ Len(<<".">>) = 1 /\ <<".">>[1] = "."
    BY Dots
  <2>2. /\ d \in Seq(Words) /\ Len(d) = 1 + Len(p)
        /\ d[1] = "." /\ \A i \in 1 .. Len(p) : d[1 + i] = p[i]
    BY <2>1, ConcatProperties DEF Dotted
  <2> QED
    BY <2>2
<1> HIDE DEF d
<1>2. ASSUME NEW k \in 0 .. Len(p)
      PROVE  SubSeq(d, 1, k) \in Seq(Words) /\ SubSeq(d, 1, k + 1) = Append(SubSeq(d, 1, k), d[k + 1])
  BY <1>1
<1>3. SubSeq(d, 1, 0) = <<>>
  BY <1>1
<1> QED
  BY <1>1, <1>2, <1>3 DEF d

\* The keys that lstatCacheSearch looks for.
LEMMA CleanUpto ==
    ASSUME NEW p \in Seq(Proper), NEW k \in 0 .. Len(p) + 1
    PROVE  W!Clean(SubSeq(Dotted(p), 1, k)) = Upto(p, k)
<1> DEFINE d == Dotted(p)
           Good == {i \in Nat : i <= Len(p) + 1 => W!Clean(SubSeq(d, 1, i)) = Upto(p, i)}
<1>1. p \in Seq(Words) /\ Len(p) \in Nat
  BY ProperNames
<1>2. 0 \in Good
  BY <1>1, CleanEmpty, DottedNext, UptoEnds
<1>3. ASSUME NEW i \in Nat, i \in Good PROVE i + 1 \in Good
  <2> SUFFICES ASSUME i + 1 <= Len(p) + 1 PROVE W!Clean(SubSeq(d, 1, i + 1)) = Upto(p, i + 1)
    OBVIOUS
  <2>1. i \in 0 .. Len(p)
    BY <1>1
  <2>2. W!Clean(SubSeq(d, 1, i)) = Upto(p, i)
    BY <1>1, <1>3
  <2>3. /\ SubSeq(d, 1, i) \in Seq(Words) /\ d[i + 1] \in Words
        /\ SubSeq(d, 1, i + 1) = Append(SubSeq(d, 1, i), d[i + 1])
    <3> HIDE DEF d
    <3>1. /\ d \in Seq(Words) /\ Len(d) = Len(p) + 1
          /\ SubSeq(d, 1, i) \in Seq(Words)
          /\ SubSeq(d, 1, i + 1) = Append(SubSeq(d, 1, i), d[i + 1])
      BY <1>1, <2>1, DottedNext DEF d
    <3>2. d[i + 1] \in Words
      BY <1>1, <2>1, <3>1
    <3> QED
      BY <3>1, <3>2
  <2> HIDE DEF d
  <2>4. W!Clean(SubSeq(d, 1, i + 1)) = Onto(Upto(p, i), d[i + 1])
    BY <2>2, <2>3, CleanAppend
  <2>5. CASE i = 0
    <3>1. d[i + 1] = "."
      BY <1>1, <2>5, DottedNext DEF d
    <3>2. Upto(p, i) = <<>> /\ Upto(p, i + 1) = <<>>
      BY <2>5, UptoEnds
    <3> QED
      BY <2>4, <3>1, <3>2 DEF Onto
  <2>6. CASE i # 0
    <3>1. i \in 1 .. Len(p)
      BY <2>1, <2>6
    <3>2. d[i + 1] = p[i]
      BY <1>1, <3>1, DottedNext DEF d
    <3>3. p[i] \in Proper /\ Upto(p, i + 1) = Append(Upto(p, i), p[i])
      BY <3>1, UptoNext
    <3> QED
      BY <2>4, <3>2, <3>3 DEF Onto, Proper
  <2> QED
    BY <2>5, <2>6
<1> HIDE DEF Good
<1>4. k \in Good /\ k \in Nat
  BY <1>1, <1>2, <1>3, Numbers
<1> QED
  BY <1>1, <1>4 DEF Good

\* The listed disc, directory by directory.
LEMMA DirFacts ==
    ASSUME NEW e \in DOMAIN Listed
    PROVE  /\ Listed[e] \in Seq(FileInfos)
           /\ Len(Listed[e]) \in Nat /\ Len(Listed[e]) >= 2 /\ DOMAIN Listed[e] = 1 .. Len(Listed[e])
           /\ 1 \in DOMAIN Listed[e] /\ 2 \in DOMAIN Listed[e]
           /\ Listed[e][1].name = "." /\ Listed[e][1].dir /\ Listed[e][1].extent = e
           /\ Listed[e][2].name = ".." /\ Listed[e][2].dir
<1> DEFINE infos == Listed[e]
<1>1. /\ infos \in Seq({infos[j] : j \in DOMAIN infos}) /\ Len(infos) >= 2
      /\ infos[1].name = "." /\ infos[1].dir /\ infos[1].extent = e
      /\ infos[2].name = ".." /\ infos[2].dir
  BY ListedAssumption, Zenon DEF IsSeq
<1>2. {infos[j] : j \in DOMAIN infos} \subseteq FileInfos
  BY DEF FileInfos
<1> HIDE DEF infos
<1>3. infos \in Seq(FileInfos)
  BY <1>1, <1>2, SeqMonotonic
<1>4. /\ Len(infos) \in Nat /\ Len(infos) >= 2 /\ DOMAIN infos = 1 .. Len(infos)
      /\ 1 \in DOMAIN infos /\ 2 \in DOMAIN infos
  BY <1>1, <1>3
<1> QED
  BY <1>1, <1>3, <1>4 DEF infos

LEMMA InfoFacts ==
    ASSUME NEW e \in DOMAIN Listed, NEW j \in DOMAIN Listed[e]
    PROVE  /\ Listed[e][j] \in FileInfos /\ IsInfo(Listed[e][j]) /\ Listed[e][j].name \in Words
           /\ \A k \in DOMAIN Listed[e] : Listed[e][j].name = Listed[e][k].name => j = k
<1>1. /\ IsInfo(Listed[e][j])
      /\ \A k \in DOMAIN Listed[e] : Listed[e][j].name = Listed[e][k].name => j = k
  <2>1. \A x \in DOMAIN Listed : \A i \in DOMAIN Listed[x] :
           /\ IsInfo(Listed[x][i])
           /\ \A k \in DOMAIN Listed[x] : Listed[x][i].name = Listed[x][k].name => i = k
    BY ListedAssumption
  <2> QED
    BY <2>1, Zenon
<1>2. Listed[e][j] \in FileInfos
  BY DEF FileInfos
<1>3. Listed[e][j].name \in Words
  BY <1>2 DEF Words
<1> QED
  BY <1>1, <1>2, <1>3

LEMMA DirLinks ==
    ASSUME NEW e \in DOMAIN Listed, NEW j \in DOMAIN Listed[e], j # 2, Listed[e][j].dir
    PROVE  /\ Listed[e][j].extent \in DOMAIN Listed
           /\ W!Same(Listed[Listed[e][j].extent][1], Listed[e][j])
           /\ j > 2 => W!Same(Listed[Listed[e][j].extent][2], Listed[e][1])
  BY ListedAssumption, Zenon

\* Files are the same when they differ in their names only.
LEMMA SameFields ==
    ASSUME NEW fi, NEW gi, InfoFields \subseteq DOMAIN fi, W!Same(fi, gi)
    PROVE  /\ InfoFields \subseteq DOMAIN gi
           /\ gi.dir = fi.dir /\ gi.extent = fi.extent /\ gi.link = fi.link /\ gi.target = fi.target
<1>1. [x \in DOMAIN fi |-> IF x = "name" THEN "" ELSE fi[x]]
      = [x \in DOMAIN gi |-> IF x = "name" THEN "" ELSE gi[x]]
  BY DEF W!Same
<1>2. DOMAIN fi = DOMAIN gi
  BY <1>1
<1>3. ASSUME NEW x \in DOMAIN fi, x # "name" PROVE fi[x] = gi[x]
  BY <1>1, <1>2, <1>3
<1> QED
  BY <1>2, <1>3 DEF InfoFields

LEMMA SameOrder ==
    /\ \A fi : W!Same(fi, fi)
    /\ \A fi, gi : W!Same(fi, gi) => W!Same(gi, fi)
    /\ \A fi, gi, hi : W!Same(fi, gi) /\ W!Same(gi, hi) => W!Same(fi, hi)
  BY DEF W!Same

\* A name is met at most once in a directory.
LEMMA MatchOne ==
    ASSUME NEW e \in DOMAIN Listed, NEW j \in DOMAIN Listed[e]
    PROVE  W!Match(Listed[e], Listed[e][j].name) = j
<1> DEFINE found == {i \in DOMAIN Listed[e] : Listed[e][i].name = Listed[e][j].name}
<1>1. found = {j}
  BY InfoFacts
<1>2. W!Min({j}) = j
  <2>1. j <= j
    BY DirFacts
  <2> QED
    BY <2>1 DEF W!Min
<1>3. {j} # {}
  OBVIOUS
<1> QED
  BY <1>1, <1>2, <1>3, Zenon DEF W!Match

LEMMA MatchNone ==
    ASSUME NEW e \in DOMAIN Listed, NEW x
    PROVE  \/ W!Match(Listed[e], x) = 0 /\ \A j \in DOMAIN Listed[e] : Listed[e][j].name # x
           \/ \E j \in DOMAIN Listed[e] : W!Match(Listed[e], x) = j /\ Listed[e][j].name = x /\ j # 0
<1>1. CASE \E j \in DOMAIN Listed[e] : Listed[e][j].name = x
  <2>1. PICK j \in DOMAIN Listed[e] : Listed[e][j].name = x
    BY <1>1
  <2>2. W!Match(Listed[e], x) = j /\ j # 0
    BY <2>1, MatchOne, DirFacts
  <2> QED
    BY <2>1, <2>2
<1>2. CASE \A j \in DOMAIN Listed[e] : Listed[e][j].name # x
  BY <1>2 DEF W!Match
<1> QED
  BY <1>1, <1>2

\* What a path leads to is no file or one of the disc; a directory begins with
\* itself and with what is one name above.
DirAt(p) ==
    /\ W!At(p).extent \in DOMAIN Listed
    /\ W!Same(Listed[W!At(p).extent][1], W!At(p))
    /\ W!Same(Listed[W!At(p).extent][2], W!At(W!DirName(p)))

Placed(p) == /\ W!At(p) = W!NoInfo \/ W!At(p) \in FileInfos
             /\ W!At(p).dir \in BOOLEAN
             /\ W!At(p).dir => DirAt(p)

LEMMA PlacedEmpty == Placed(<<>>)
<1> DEFINE r == RootStart
<1>1. r \in DOMAIN Listed /\ W!Same(Listed[r][2], Listed[r][1])
  BY ListedAssumption
<1>2. /\ 1 \in DOMAIN Listed[r] /\ Listed[r][1].dir /\ Listed[r][1].extent = r
      /\ Listed[r][1] \in FileInfos /\ IsInfo(Listed[r][1])
  BY <1>1, DirFacts, InfoFacts
<1>3. W!DirName(<<>>) = <<>>
  BY DEF W!DirName
<1> HIDE DEF r
<1>4. W!At(<<>>) = Listed[r][1]
  BY AtEmpty DEF r
<1> QED
  BY <1>1, <1>2, <1>3, <1>4, SameOrder, Zenon DEF Placed, DirAt, IsInfo

LEMMA NoInfoFields == ~W!NoInfo.dir /\ W!NoInfo.dir \in BOOLEAN /\ InfoFields \subseteq DOMAIN W!NoInfo
  BY DEF W!NoInfo, InfoFields

LEMMA PlacedAppend ==
    ASSUME NEW p \in Seq(Proper), Placed(p), NEW x \in Proper
    PROVE  Placed(Append(p, x))
<1> DEFINE r == Append(p, x)
           e == W!At(p).extent
           m == W!Match(Listed[e], x)
<1>1. W!At(r) = W!Child(W!At(p), x)
  BY ProperNames, AtAppend
<1>2. CASE ~(W!At(p).dir /\ m # 0)
  <2>1. W!At(r) = W!NoInfo
    BY <1>1, <1>2, Zenon DEF W!Child
  <2> QED
    BY <2>1, NoInfoFields DEF Placed
<1>3. CASE W!At(p).dir /\ m # 0
  <2>1. DirAt(p)
    BY <1>3 DEF Placed
  <2>2. e \in DOMAIN Listed
    BY <2>1 DEF DirAt
  <2>3. W!At(r) = Listed[e][m]
    BY <1>1, <1>3, Zenon DEF W!Child
  <2>4. m \in DOMAIN Listed[e] /\ Listed[e][m].name = x
    BY <1>3, <2>2, MatchNone
  <2>5. x # "." /\ x # ".."
    BY DEF Proper
  <2>6. m # 1 /\ m # 2 /\ m > 2
    <3>1. m # 1 /\ m # 2
      BY <2>2, <2>4, <2>5, DirFacts
    <3> HIDE DEF m
    <3> QED
      BY <2>2, <2>4, <3>1, DirFacts
  <2>7. W!At(r) \in FileInfos /\ W!At(r).dir \in BOOLEAN
    BY <2>2, <2>3, <2>4, InfoFacts DEF IsInfo
  <2>8. ASSUME W!At(r).dir PROVE DirAt(r)
    <3> DEFINE b == Listed[e][m].extent
    <3>1. /\ b \in DOMAIN Listed /\ W!Same(Listed[b][1], Listed[e][m])
          /\ W!Same(Listed[b][2], Listed[e][1])
      BY <2>2, <2>3, <2>4, <2>6, <2>8, DirLinks, Zenon
    <3>2. W!Same(Listed[e][1], W!At(p))
      BY <2>1 DEF DirAt
    <3>3. W!DirName(r) = p
      BY DEF W!DirName
    <3> HIDE DEF r, m, e, b
    <3>4. W!Same(Listed[b][2], W!At(p))
      BY <3>1, <3>2, SameOrder
    <3> QED
      BY <2>3, <3>1, <3>3, <3>4, Zenon DEF DirAt, b
  <2> QED
    BY <2>7, <2>8 DEF Placed
<1> QED
  BY <1>2, <1>3

LEMMA AllPlaced == \A p \in Seq(Proper) : Placed(p)
<1> DEFINE Good == {n \in Nat : \A p \in Seq(Proper) : Len(p) = n => Placed(p)}
<1>1. 0 \in Good
  <2> SUFFICES ASSUME NEW p \in Seq(Proper), Len(p) = 0 PROVE Placed(p)
    OBVIOUS
  <2>1. p = <<>>
    OBVIOUS
  <2> QED
    BY <2>1, PlacedEmpty
<1>2. ASSUME NEW n \in Nat, n \in Good PROVE n + 1 \in Good
  <2> SUFFICES ASSUME NEW p \in Seq(Proper), Len(p) = n + 1 PROVE Placed(p)
    OBVIOUS
  <2> DEFINE r == SubSeq(p, 1, n)
             x == p[n + 1]
  <2>1. r \in Seq(Proper) /\ Len(r) = n /\ x \in Proper /\ p = Append(r, x)
    BY LastName
  <2> HIDE DEF r, x
  <2>2. Placed(r)
    BY <1>2, <2>1
  <2>3. Placed(Append(r, x))
    BY <2>1, <2>2, PlacedAppend
  <2> QED
    BY <2>1, <2>3
<1> HIDE DEF Good
<1>3. Nat \subseteq Good
  BY <1>1, <1>2, Numbers
<1> QED
  <2> SUFFICES ASSUME NEW p \in Seq(Proper) PROVE Placed(p)
    OBVIOUS
  <2>1. Len(p) \in Good
    BY <1>3
  <2> QED
    BY <2>1 DEF Good

\* Nothing is below what is no directory.
LEMMA BelowFile ==
    ASSUME NEW p \in Seq(Proper), NEW k \in 1 .. Len(p), ~W!At(Upto(p, k)).dir
    PROVE  W!At(p) = W!NoInfo
<1> DEFINE Good == {i \in Nat : k + 1 + i <= Len(p) + 1 => W!At(Upto(p, k + 1 + i)) = W!NoInfo}
<1>0. Len(p) \in Nat /\ k \in Nat
  OBVIOUS
<1>1. ASSUME NEW i \in 1 .. Len(p), ~W!At(Upto(p, i)).dir PROVE W!At(Upto(p, i + 1)) = W!NoInfo
  <2>1. Upto(p, i) \in Seq(Proper) /\ p[i] \in Proper /\ Upto(p, i + 1) = Append(Upto(p, i), p[i])
    BY UptoNext
  <2>2. W!At(Upto(p, i + 1)) = W!Child(W!At(Upto(p, i)), p[i])
    BY <2>1, ProperNames, AtAppend
  <2> QED
    BY <1>1, <2>2, Zenon DEF W!Child
<1>2. 0 \in Good
  <2>1. k + 1 + 0 = k + 1
    BY <1>0
  <2> QED
    BY <1>1, <2>1
<1>3. ASSUME NEW i \in Nat, i \in Good PROVE i + 1 \in Good
  <2> SUFFICES ASSUME k + 1 + (i + 1) <= Len(p) + 1 PROVE W!At(Upto(p, k + 1 + (i + 1))) = W!NoInfo
    OBVIOUS
  <2> DEFINE b == k + 1 + i
  <2>1. b \in 1 .. Len(p) /\ k + 1 + (i + 1) = b + 1 /\ b <= Len(p) + 1
    BY <1>0
  <2>2. W!At(Upto(p, b)) = W!NoInfo
    BY <1>3, <2>1
  <2> HIDE DEF b
  <2>3. W!At(Upto(p, b + 1)) = W!NoInfo
    BY <1>1, <2>1, <2>2, NoInfoFields
  <2> QED
    BY <2>1, <2>3
<1> HIDE DEF Good
<1>4. Nat \subseteq Good
  BY <1>2, <1>3, Numbers
<1>5. Len(p) - k \in Good /\ k + 1 + (Len(p) - k) = Len(p) + 1
  BY <1>0, <1>4
<1>6. W!At(Upto(p, Len(p) + 1)) = W!NoInfo
  BY <1>0, <1>5 DEF Good
<1> QED
  BY <1>6, UptoEnds

\* A record of a directory is filed under its own path.
LEMMA KeyRight ==
    ASSUME NEW p \in Seq(Proper), W!At(p).dir, NEW r \in Seq(Words), W!Clean(r) = p,
           NEW j \in DOMAIN Listed[W!At(p).extent]
    PROVE  LET fi  == Listed[W!At(p).extent][j]
               key == W!Clean(Append(r, fi.name))
           IN key \in Seq(Proper) /\ W!Same(fi, W!At(key))
<1> DEFINE e   == W!At(p).extent
           fi  == Listed[e][j]
           key == W!Clean(Append(r, fi.name))
<1>1. DirAt(p)
  BY AllPlaced DEF Placed
<1>2. e \in DOMAIN Listed /\ W!Same(Listed[e][1], W!At(p)) /\ W!Same(Listed[e][2], W!At(W!DirName(p)))
  BY <1>1 DEF DirAt
<1>3. fi \in FileInfos /\ fi.name \in Words
  BY <1>2, InfoFacts
<1>4. key = Onto(p, fi.name)
  BY <1>3, CleanAppend
<1> HIDE DEF key
<1>5. CASE j = 1
  <2>1. fi.name = "."
    BY <1>2, <1>5, DirFacts
  <2>2. key = p
    BY <1>4, <2>1 DEF Onto
  <2> QED
    BY <1>2, <1>5, <2>2 DEF key
<1>6. CASE j = 2
  <2>1. fi.name = ".."
    BY <1>2, <1>6, DirFacts
  <2>2. key = W!DirName(p) /\ key \in Seq(Proper)
    BY <1>4, <2>1 DEF Onto, W!DirName
  <2> QED
    BY <1>2, <1>6, <2>2 DEF key
<1>7. CASE j # 1 /\ j # 2
  <2>1. fi.name # "." /\ fi.name # ".."
    <3>1. Listed[e][1].name = "." /\ Listed[e][2].name = ".." /\ 1 \in DOMAIN Listed[e] /\ 2 \in DOMAIN Listed[e]
      BY <1>2, DirFacts
    <3>2. \A k \in DOMAIN Listed[e] : Listed[e][j].name = Listed[e][k].name => j = k
      BY <1>2, InfoFacts
    <3> QED
      BY <1>7, <3>1, <3>2
  <2>2. fi.name \in Proper /\ key = Append(p, fi.name)
    BY <1>3, <1>4, <2>1 DEF Onto, Proper
  <2>3. W!At(key) = W!Child(W!At(p), fi.name)
    BY <2>2, ProperNames, AtAppend
  <2>4. W!Match(Listed[e], fi.name) = j /\ j # 0
    BY <1>2, MatchOne, DirFacts
  <2>5. W!At(key) = fi
    BY <2>3, <2>4, Zenon DEF W!Child
  <2>6. key \in Seq(Proper)
    <3> HIDE DEF fi
    <3> QED
      BY <2>2
  <2> QED
    BY <2>5, <2>6, SameOrder DEF key
<1> QED
  BY <1>5, <1>6, <1>7

\* The cache tells of each path what is there.
CacheRight(cache)  == \A k \in DOMAIN cache : k \in Seq(Proper) /\ W!Same(cache[k], W!At(k))
CacheOfDirs(cache) == \A k \in DOMAIN cache : cache[k].dir

\* The first n records of the directory at a path.
FirstOfDir(infos, n, p) ==
    /\ n \in Nat /\ DOMAIN infos = 1 .. n
    /\ \A j \in 1 .. n : /\ j \in DOMAIN Listed[W!At(p).extent]
                         /\ infos[j] = Listed[W!At(p).extent][j]

LEMMA FirstTaken ==
    ASSUME NEW p \in Seq(Proper), W!At(p).dir
    PROVE  LET infos == Listed[W!At(p).extent]
           IN /\ Len(infos) \in Nat /\ FirstOfDir(infos, Len(infos), p)
              /\ \A n \in 0 .. Len(infos) : FirstOfDir(SubSeq(infos, 1, n), n, p)
<1> DEFINE e == W!At(p).extent
           infos == Listed[e]
<1>1. e \in DOMAIN Listed
  BY AllPlaced DEF Placed, DirAt
<1>2. infos \in Seq(FileInfos)
  BY <1>1, DirFacts
<1> HIDE DEF infos
<1>3. ASSUME NEW n \in 0 .. Len(infos)
      PROVE  n \in Nat /\ DOMAIN SubSeq(infos, 1, n) = 1 .. n
             /\ \A j \in 1 .. n : j \in DOMAIN infos /\ SubSeq(infos, 1, n)[j] = infos[j]
  BY <1>2
<1>4. Len(infos) \in Nat /\ DOMAIN infos = 1 .. Len(infos)
  BY <1>2
<1> QED
  BY <1>3, <1>4 DEF FirstOfDir, infos

LEMMA AddKeeps ==
    ASSUME NEW cache, CacheRight(cache), NEW r, NEW fi,
           W!Clean(Append(r, fi.name)) \in Seq(Proper),
           W!Same(fi, W!At(W!Clean(Append(r, fi.name))))
    PROVE  CacheRight(W!lstatCacheAdd(cache, r, fi))
<1> DEFINE key == W!Clean(Append(r, fi.name))
           new == W!lstatCacheAdd(cache, r, fi)
<1>1. new = [k \in DOMAIN cache \cup {key} |-> IF k = key THEN fi ELSE cache[k]]
  BY Zenon DEF W!lstatCacheAdd
<1> HIDE DEF key, new
<1>2. key \in Seq(Proper) /\ W!Same(fi, W!At(key))
  BY DEF key
<1>3. CacheRight(new)
  BY <1>1, <1>2 DEF CacheRight
<1> QED
  BY <1>3 DEF new

\* A scan of the directory at a path leaves the cache right, if its own path
\* leads there ...
LEMMA DirsKeep ==
    ASSUME CacheRight(lstatCache), NEW p \in Seq(Proper), W!At(p).dir,
           NEW r \in Seq(Words), W!Clean(r) = p,
           NEW infos, NEW n, FirstOfDir(infos, n, p)
    PROVE  CacheRight(W!CacheDirs(r, infos))
<1>1. n \in Nat /\ DOMAIN infos = 1 .. n
  BY DEF FirstOfDir
<1>2. PICK w : DirsSteps(w, r, infos, n) /\ W!CacheDirs(r, infos) = w[n]
  BY <1>1, FoldDirs
<1> DEFINE Good == {k \in Nat : k <= n => CacheRight(w[k])}
<1>3. 0 \in Good
  BY <1>2 DEF DirsSteps
<1>4. ASSUME NEW k \in Nat, k \in Good PROVE k + 1 \in Good
  <2> SUFFICES ASSUME k + 1 <= n PROVE CacheRight(w[k + 1])
    OBVIOUS
  <2> DEFINE j == k + 1
  <2>1. j \in 1 .. n /\ j - 1 = k /\ k <= n
    BY <1>1
  <2>2. CacheRight(w[k])
    BY <1>4, <2>1
  <2> HIDE DEF j
  <2>3. w[j] = Visited(w[k], r, infos[j])
    BY <1>2, <2>1 DEF DirsSteps
  <2>4. j \in DOMAIN Listed[W!At(p).extent] /\ infos[j] = Listed[W!At(p).extent][j]
    BY <2>1 DEF FirstOfDir
  <2>5. /\ W!Clean(Append(r, infos[j].name)) \in Seq(Proper)
        /\ W!Same(infos[j], W!At(W!Clean(Append(r, infos[j].name))))
    BY <2>4, KeyRight
  <2>6. CacheRight(W!lstatCacheAdd(w[k], r, infos[j]))
    BY <2>2, <2>5, AddKeeps
  <2>7. CacheRight(w[j])
    BY <2>2, <2>3, <2>6, Zenon DEF Visited
  <2> QED
    BY <2>7 DEF j
<1> HIDE DEF Good
<1>5. n \in Good
  BY <1>1, <1>3, <1>4, Numbers
<1> QED
  BY <1>1, <1>2, <1>5 DEF Good

\* ... and so does a directory that is read.
LEMMA ListKeep ==
    ASSUME CacheRight(lstatCache), NEW p \in Seq(Proper), W!At(p).dir,
           asked \in Seq(Words), W!Clean(asked) = p,
           NEW infos, NEW n, FirstOfDir(infos, n, p)
    PROVE  CacheRight(W!CacheList(infos))
<1>1. n \in Nat /\ DOMAIN infos = 1 .. n
  BY DEF FirstOfDir
<1>2. PICK w : ListSteps(w, infos, n) /\ W!CacheList(infos) = w[n]
  BY <1>1, FoldList
<1> DEFINE Good == {k \in Nat : k <= n => CacheRight(w[k])}
<1>3. 0 \in Good
  BY <1>2 DEF ListSteps
<1>4. ASSUME NEW k \in Nat, k \in Good PROVE k + 1 \in Good
  <2> SUFFICES ASSUME k + 1 <= n PROVE CacheRight(w[k + 1])
    OBVIOUS
  <2> DEFINE j == k + 1
  <2>1. j \in 1 .. n /\ j - 1 = k /\ k <= n
    BY <1>1
  <2>2. CacheRight(w[k])
    BY <1>4, <2>1
  <2> HIDE DEF j
  <2>3. w[j] = W!lstatCacheAdd(w[k], asked, infos[j])
    BY <1>2, <2>1 DEF ListSteps
  <2>4. j \in DOMAIN Listed[W!At(p).extent] /\ infos[j] = Listed[W!At(p).extent][j]
    BY <2>1 DEF FirstOfDir
  <2>5. /\ W!Clean(Append(asked, infos[j].name)) \in Seq(Proper)
        /\ W!Same(infos[j], W!At(W!Clean(Append(asked, infos[j].name))))
    BY <2>4, KeyRight
  <2>6. CacheRight(W!lstatCacheAdd(w[k], asked, infos[j]))
    BY <2>2, <2>5, AddKeeps
  <2>7. CacheRight(w[j])
    BY <2>3, <2>6, Zenon
  <2> QED
    BY <2>7 DEF j
<1> HIDE DEF Good
<1>5. n \in Good
  BY <1>1, <1>3, <1>4, Numbers
<1> QED
  BY <1>1, <1>2, <1>5 DEF Good

\* Scans cache directories only.
LEMMA DirsOfDirs ==
    ASSUME CacheOfDirs(lstatCache), NEW r, NEW infos, NEW n \in Nat, DOMAIN infos = 1 .. n
    PROVE  CacheOfDirs(W!CacheDirs(r, infos))
<1>2. PICK w : DirsSteps(w, r, infos, n) /\ W!CacheDirs(r, infos) = w[n]
  BY FoldDirs
<1> DEFINE Good == {k \in Nat : k <= n => CacheOfDirs(w[k])}
<1>3. 0 \in Good
  BY <1>2 DEF DirsSteps
<1>4. ASSUME NEW k \in Nat, k \in Good PROVE k + 1 \in Good
  <2> SUFFICES ASSUME k + 1 <= n PROVE CacheOfDirs(w[k + 1])
    OBVIOUS
  <2> DEFINE j == k + 1
  <2>1. j \in 1 .. n /\ j - 1 = k /\ k <= n
    OBVIOUS
  <2>2. CacheOfDirs(w[k])
    BY <1>4, <2>1
  <2> HIDE DEF j
  <2>3. w[j] = Visited(w[k], r, infos[j])
    BY <1>2, <2>1 DEF DirsSteps
  <2>4. ASSUME infos[j].dir PROVE CacheOfDirs(W!lstatCacheAdd(w[k], r, infos[j]))
    <3> DEFINE key == W!Clean(Append(r, infos[j].name))
               new == W!lstatCacheAdd(w[k], r, infos[j])
    <3>1. new = [x \in DOMAIN w[k] \cup {key} |-> IF x = key THEN infos[j] ELSE w[k][x]]
      BY Zenon DEF W!lstatCacheAdd
    <3> HIDE DEF key, new
    <3>2. CacheOfDirs(new)
      BY <2>2, <2>4, <3>1 DEF CacheOfDirs
    <3> QED
      BY <3>2 DEF new
  <2>5. CacheOfDirs(w[j])
    BY <2>2, <2>3, <2>4, Zenon DEF Visited
  <2> QED
    BY <2>5 DEF j
<1> HIDE DEF Good
<1>5. n \in Good
  BY <1>3, <1>4, Numbers
<1> QED
  BY <1>2, <1>5 DEF Good

\* A cleaned path is clean.
LEMMA CleanSame == \A p \in Seq(Proper) : W!Clean(p) = p
<1> DEFINE Good == {n \in Nat : \A p \in Seq(Proper) : Len(p) = n => W!Clean(p) = p}
<1>1. 0 \in Good
  <2> SUFFICES ASSUME NEW p \in Seq(Proper), Len(p) = 0 PROVE W!Clean(p) = p
    OBVIOUS
  <2>1. p = <<>>
    OBVIOUS
  <2> QED
    BY <2>1, CleanEmpty
<1>2. ASSUME NEW n \in Nat, n \in Good PROVE n + 1 \in Good
  <2> SUFFICES ASSUME NEW p \in Seq(Proper), Len(p) = n + 1 PROVE W!Clean(p) = p
    OBVIOUS
  <2> DEFINE r == SubSeq(p, 1, n)
             x == p[n + 1]
  <2>1. r \in Seq(Proper) /\ Len(r) = n /\ x \in Proper /\ p = Append(r, x)
    BY LastName
  <2> HIDE DEF r, x
  <2>2. W!Clean(r) = r
    BY <1>2, <2>1
  <2>3. W!Clean(Append(r, x)) = Onto(r, x)
    BY <2>1, <2>2, ProperNames, CleanAppend
  <2> QED
    BY <2>1, <2>3 DEF Onto, Proper
<1> HIDE DEF Good
<1>3. Nat \subseteq Good
  BY <1>1, <1>2, Numbers
<1> QED
  <2> SUFFICES ASSUME NEW p \in Seq(Proper) PROVE W!Clean(p) = p
    OBVIOUS
  <2>1. Len(p) \in Good
    BY <1>3
  <2> QED
    BY <2>1 DEF Good

\* What tree has still to print: a file, below its directory.
Items == {s \in [of : Seq(Proper), info : FileInfos] :
             s.info.name \in Proper /\ W!Same(s.info, W!At(Append(s.of, s.info.name)))}

LEMMA ShownItems ==
    ASSUME NEW p \in Seq(Proper), W!At(p).dir, NEW infos, NEW n, FirstOfDir(infos, n, p)
    PROVE  W!Shown(p, infos) \in Seq(Items)
<1>1. n \in Nat /\ DOMAIN infos = 1 .. n
  BY DEF FirstOfDir
<1>2. PICK w : ShownSteps(w, p, infos, n) /\ W!Shown(p, infos) = w[n]
  BY <1>1, FoldShown
<1> DEFINE Good == {k \in Nat : k <= n => w[k] \in Seq(Items)}
<1>3. 0 \in Good
  <2>1. <<>> \in Seq(Items)
    OBVIOUS
  <2> QED
    BY <1>2, <2>1, Zenon DEF ShownSteps
<1>4. ASSUME NEW k \in Nat, k \in Good PROVE k + 1 \in Good
  <2> SUFFICES ASSUME k + 1 <= n PROVE w[k + 1] \in Seq(Items)
    OBVIOUS
  <2> DEFINE j == k + 1
             fi == infos[j]
             s == [of |-> p, info |-> fi]
             e == W!At(p).extent
  <2>1. j \in 1 .. n /\ j - 1 = k /\ k <= n
    BY <1>1
  <2>2. w[k] \in Seq(Items)
    BY <1>4, <2>1
  <2> HIDE DEF j
  <2>3. w[j] = Told(w[k], p, fi)
    BY <1>2, <2>1 DEF ShownSteps
  <2>4. j \in DOMAIN Listed[e] /\ fi = Listed[e][j] /\ e \in DOMAIN Listed
    BY <2>1, AllPlaced DEF FirstOfDir, Placed, DirAt
  <2>5. fi \in FileInfos /\ fi.name \in Words
    BY <2>4, InfoFacts
  <2>6. ASSUME fi.name \notin {".", ".."} PROVE s \in Items
    <3>1. fi.name \in Proper
      BY <2>5, <2>6 DEF Proper
    <3>2. W!Clean(Append(p, fi.name)) = Append(p, fi.name)
      <4>1. Append(p, fi.name) \in Seq(Proper)
        <5> HIDE DEF fi
        <5> QED
          BY <3>1
      <4> QED
        BY <4>1, CleanSame
    <3>3. W!Same(fi, W!At(W!Clean(Append(p, fi.name))))
      BY <2>4, ProperNames, CleanSame, KeyRight
    <3>4. W!Same(fi, W!At(Append(p, fi.name)))
      BY <3>2, <3>3
    <3> HIDE DEF fi
    <3> QED
      BY <2>5, <3>1, <3>4 DEF Items
  <2> HIDE DEF s, fi, e
  <2>7. s \in Items => Append(w[k], s) \in Seq(Items)
    BY <2>2
  <2>8. w[j] = IF fi.name \in {".", ".."} THEN w[k] ELSE Append(w[k], s)
    BY <2>3, Zenon DEF Told, s
  <2>9. w[j] \in Seq(Items)
    BY <2>2, <2>6, <2>7, <2>8, Zenon
  <2> QED
    BY <2>9 DEF j
<1> HIDE DEF Good
<1>5. n \in Good
  BY <1>1, <1>3, <1>4, Numbers
<1> QED
  BY <1>1, <1>2, <1>5 DEF Good

\* The inductive invariant of the Walker, as long as no lookup has gone on from
\* what a lookup below a cached directory left behind.
KeysRight == ~deep => CacheRight(lstatCache)

\* A scan looks for name k of the path, in the directory that the names before
\* it lead to; its own path leads there too if the lookup began at the root.
ScansFor(k) ==
    /\ parts = SubSeq(Dotted(asked), k + 1, Len(asked) + 1)
    /\ W!At(Upto(asked, k)).dir
    /\ start = W!At(Upto(asked, k)).extent
    /\ ~deep => path \in Seq(Words) /\ W!Clean(path) = Upto(asked, k)

Scanning    == pc = "scan" => \E k \in 0 .. Len(asked) : ScansFor(k)
Stages      == (pc = "search" => ~deep) /\ (pc = "walk" => api = "Walk")
FoundRight  == pc = "found" => W!Same(partInfo, W!At(asked))
FailedRight == pc = "failed" /\ hops < W!SymlinkRecursionLimit /\ faults = 0
                  => IF api = "ReadDir" THEN ~W!At(asked).dir ELSE W!At(asked) = W!NoInfo

\* A lookup goes on from a directory: only tree has files in the cache, and it
\* asks for directories.
Printing == cmd.cmd = "tree" /\ api = "ReadDir" /\ (pc = "search" => W!At(asked).dir)
DirsOnly == CacheOfDirs(lstatCache) \/ pc \in {"exit", "failed"} \/ Printing

QueueRight == api # "Walk" => q \in Seq(Items)

WalkTrue == /\ asked \in Seq(Proper)
            /\ KeysRight /\ Stages /\ Scanning /\ FoundRight /\ FailedRight /\ DirsOnly /\ QueueRight

WalkInv == session = "walk" => cmd \in Commands /\ faults \in Nat /\ (~resumed => WalkTrue)

LEMMA CommandFacts ==
    ASSUME NEW c \in Commands
    PROVE  c.cmd \in {"ls", "lsr", "cp", "tree"} /\ c.path \in Seq(Words)
<1>1. c.cmd \in {"ls", "lsr", "cp", "tree"} /\ c.path \in Seq(Elements(c.path))
  BY CommandAssumption DEF IsSeq, Elements
<1>2. Elements(c.path) \subseteq Words
  BY DEF Words
<1> QED
  BY <1>1, <1>2, SeqMonotonic

LEMMA WalkInit == Init => WalkInv
<1> SUFFICES ASSUME Init, session = "walk" PROVE WalkInv
  BY DEF WalkInv
<1>1. W!Init
  BY DEF Init
<1>2. cmd \in Commands /\ faults = 0 /\ asked = <<>> /\ q = <<>> /\ pc = "cmd" /\ lstatCache = [p \in {} |-> W!NoInfo]
  BY <1>1 DEF W!Init
<1>3. CacheRight(lstatCache) /\ CacheOfDirs(lstatCache)
  BY <1>2 DEF CacheRight, CacheOfDirs
<1>4. asked \in Seq(Proper) /\ q \in Seq(Items)
  BY <1>2
<1> QED
  BY <1>2, <1>3, <1>4 DEF WalkInv, WalkTrue, KeysRight, Stages, Scanning, FoundRight, FailedRight, DirsOnly, QueueRight

\* A lookup begins at what the path leads to.
LEMMA Asking ==
    ASSUME WalkTrue, ~resumed', NEW method, NEW p \in Seq(Words), W!Lookup(method, p),
           UNCHANGED <<lstatCache, cmd, q, deep>>,
           CacheOfDirs(lstatCache) \/ (cmd.cmd = "tree" /\ method = "ReadDir" /\ W!At(W!Clean(p)).dir),
           method = "Walk" \/ q \in Seq(Items)
    PROVE  WalkTrue'
<1>1. asked' = W!Clean(p) /\ pc' = "search" /\ api' = method /\ ~deep
  BY DEF W!Lookup
<1>2. asked' \in Seq(Proper)
  BY <1>1, CleanProper
<1>3. KeysRight' /\ Stages' /\ Scanning' /\ FoundRight' /\ FailedRight'
  BY <1>1 DEF WalkTrue, KeysRight, Stages, Scanning, FoundRight, FailedRight
<1>4. DirsOnly' /\ QueueRight'
  BY <1>1 DEF DirsOnly, Printing, QueueRight
<1> QED
  BY <1>2, <1>3, <1>4 DEF WalkTrue

LEMMA BeginStep ==
    ASSUME WalkTrue, cmd \in Commands, ~resumed', W!Begin
    PROVE  WalkTrue'
<1> DEFINE method == [ls |-> "Lstat", lsr |-> "Walk", cp |-> "Open", tree |-> "ReadDir"][cmd.cmd]
<1>1. W!Lookup(method, cmd.path) /\ pc = "cmd" /\ api = "none" /\ UNCHANGED <<lstatCache, cmd, q, deep>>
  BY DEF W!Begin, W!listVars
<1>2. CacheOfDirs(lstatCache) /\ q \in Seq(Items)
  BY <1>1 DEF WalkTrue, DirsOnly, Printing, QueueRight
<1>3. cmd.path \in Seq(Words)
  BY CommandFacts
<1> HIDE DEF method
<1> QED
  BY <1>1, <1>2, <1>3, Asking

LEMMA LsFoundStep ==
    ASSUME WalkTrue, cmd \in Commands, ~resumed', W!LsFound
    PROVE  WalkTrue'
<1>0. pc = "found" /\ api = "Lstat" /\ UNCHANGED <<lstatCache, cmd, parts, start, path, partInfo, hops, heap, q, deep, faults, evicts>>
  BY DEF W!LsFound
<1>2. CacheOfDirs(lstatCache) /\ q \in Seq(Items) /\ cmd.path \in Seq(Words)
  BY <1>0, CommandFacts DEF WalkTrue, DirsOnly, Printing, QueueRight
<1>1. CASE partInfo.dir
  <2>1. W!Lookup("ReadDir", cmd.path)
    BY <1>1 DEF W!LsFound
  <2> QED
    BY <1>0, <1>2, <2>1, Asking
<1>3. CASE ~partInfo.dir
  <2>1. pc' = "exit" /\ UNCHANGED <<api, asked, resumed>>
    BY <1>3 DEF W!LsFound
  <2> QED
    BY <1>0, <1>2, <2>1 DEF WalkTrue, KeysRight, Stages, Scanning, FoundRight, FailedRight, DirsOnly, QueueRight
<1> QED
  BY <1>1, <1>3

LEMMA PrintTreeStep ==
    ASSUME WalkTrue, cmd \in Commands, ~resumed', W!PrintTree
    PROVE  WalkTrue'
<1>0. /\ pc = "cmd" /\ api = "ReadDir" /\ q # <<>> /\ q' = Tail(q)
      /\ UNCHANGED <<lstatCache, cmd, parts, start, path, partInfo, hops, heap, deep, faults, evicts>>
  BY DEF W!PrintTree
<1>1. q \in Seq(Items)
  BY <1>0 DEF WalkTrue, QueueRight
<1>2. Head(q) \in Items /\ q' \in Seq(Items)
  BY <1>0, <1>1, HeadTailProperties
<1> DEFINE s == Head(q)
           p == Append(s.of, s.info.name)
<1>3. CASE s.info.dir
  <2>1. W!Lookup("ReadDir", p)
    BY <1>3 DEF W!PrintTree
  <2> HIDE DEF s
  <2>2. /\ s.of \in Seq(Proper) /\ s.info.name \in Proper /\ s.info \in FileInfos
        /\ W!Same(s.info, W!At(p))
    BY <1>2 DEF Items, s
  <2>3. p \in Seq(Proper)
    <3> DEFINE x == s.info.name
    <3> HIDE DEF x
    <3>1. s.of \in Seq(Proper) /\ x \in Proper
      BY <2>2 DEF x
    <3>2. Append(s.of, x) \in Seq(Proper)
      BY <3>1
    <3> QED
      BY <3>2 DEF x
  <2>4. W!At(p).dir
    <3>1. InfoFields \subseteq DOMAIN s.info
      <4>1. PICK e \in DOMAIN Listed : \E j \in DOMAIN Listed[e] : s.info = Listed[e][j]
        BY <2>2 DEF FileInfos
      <4> QED
        BY <4>1, InfoFacts DEF IsInfo
    <3> QED
      BY <1>3, <2>2, <3>1, SameFields
  <2> HIDE DEF p
  <2>5. p \in Seq(Words) /\ W!Clean(p) = p
    BY <2>3, ProperNames, CleanSame
  <2>6. asked' = p /\ pc' = "search" /\ api' = "ReadDir" /\ ~deep
    BY <2>1, <2>5 DEF W!Lookup
  <2>7. KeysRight' /\ Stages' /\ Scanning' /\ FoundRight' /\ FailedRight'
    BY <1>0, <2>6 DEF WalkTrue, KeysRight, Stages, Scanning, FoundRight, FailedRight
  <2>8. DirsOnly'
    BY <1>0, <2>4, <2>6 DEF WalkTrue, DirsOnly, Printing
  <2> QED
    BY <1>2, <2>3, <2>6, <2>7, <2>8 DEF WalkTrue, QueueRight
<1>4. CASE ~s.info.dir
  <2>1. UNCHANGED <<api, asked, pc, resumed>>
    BY <1>4 DEF W!PrintTree
  <2> QED
    BY <1>0, <1>2, <2>1 DEF WalkTrue, KeysRight, Stages, Scanning, FoundRight, FailedRight, DirsOnly, Printing, QueueRight
<1> QED
  BY <1>3, <1>4

\* What a lookup found has the fields of a FileInfo.
LEMMA FoundFields ==
    ASSUME WalkTrue, pc = "found"
    PROVE  /\ partInfo.dir = W!At(asked).dir /\ partInfo.extent = W!At(asked).extent
           /\ partInfo.target \in Seq(Words)
<1>1. W!Same(partInfo, W!At(asked)) /\ Placed(asked)
  BY AllPlaced DEF WalkTrue, FoundRight
<1>2. InfoFields \subseteq DOMAIN W!At(asked) /\ W!At(asked).target \in Seq(Words)
  <2>1. CASE W!At(asked) = W!NoInfo
    <3>1. W!NoInfo.target = <<>> /\ <<>> \in Seq(Words)
      BY DEF W!NoInfo
    <3> QED
      BY <2>1, <3>1, NoInfoFields
  <2>2. CASE W!At(asked) \in FileInfos
    <3> DEFINE fi == W!At(asked)
    <3>1. PICK e \in DOMAIN Listed : \E j \in DOMAIN Listed[e] : fi = Listed[e][j]
      BY <2>2 DEF FileInfos
    <3>2. IsInfo(fi)
      BY <3>1, InfoFacts
    <3> HIDE DEF fi
    <3>3. fi.target \in Seq(Elements(fi.target))
      BY <3>2 DEF IsInfo, IsSeq, Elements
    <3>4. Elements(fi.target) \subseteq Words
      BY <2>2 DEF Words, fi
    <3> QED
      BY <3>2, <3>3, <3>4, SeqMonotonic DEF IsInfo, fi
  <2> QED
    BY <1>1, <2>1, <2>2 DEF Placed
<1>3. W!Same(W!At(asked), partInfo)
  BY <1>1, SameOrder
<1> QED
  BY <1>2, <1>3, SameFields

LEMMA FollowStep ==
    ASSUME WalkTrue, ~resumed', W!Follow
    PROVE  WalkTrue'
<1>0. /\ pc = "found" /\ api = "Open" /\ hops' = hops + 1
      /\ UNCHANGED <<lstatCache, cmd, parts, start, path, partInfo, q, deep, faults, evicts>>
  BY DEF W!Follow, W!listVars
<1>1. CacheOfDirs(lstatCache) /\ q \in Seq(Items) /\ asked \in Seq(Proper)
  BY <1>0 DEF WalkTrue, DirsOnly, Printing, QueueRight
<1>2. CASE hops' < W!SymlinkRecursionLimit
  <2> DEFINE p == W!DirName(asked) \o partInfo.target
  <2>1. W!Lookup("Open", p)
    BY <1>2 DEF W!Follow
  <2>2. partInfo.target \in Seq(Words) /\ asked \in Seq(Words)
    BY <1>0, <1>1, FoundFields, ProperNames
  <2>3. W!DirName(asked) \in Seq(Words)
    BY <2>2 DEF W!DirName
  <2>4. p \in Seq(Words)
    BY <2>2, <2>3, ConcatProperties
  <2> HIDE DEF p
  <2> QED
    BY <1>0, <1>1, <2>1, <2>4, Asking
<1>3. CASE ~(hops' < W!SymlinkRecursionLimit)
  <2>1. pc' = "failed" /\ UNCHANGED <<api, asked, resumed>>
    BY <1>3 DEF W!Follow
  <2> QED
    BY <1>0, <1>3, <2>1 DEF WalkTrue, KeysRight, Stages, Scanning, FoundRight, FailedRight, DirsOnly, QueueRight
<1> QED
  BY <1>2, <1>3

\* A directory that was found is read, whole or up to an error.
LEMMA Reading ==
    ASSUME WalkTrue, pc = "found", partInfo.dir, NEW infos,
           \/ infos = Listed[partInfo.extent]
           \/ \E n \in 0 .. Len(Listed[partInfo.extent]) : infos = SubSeq(Listed[partInfo.extent], 1, n)
    PROVE  /\ ~deep => CacheRight(W!CacheList(infos))
           /\ W!Shown(asked, infos) \in Seq(Items)
<1>1. asked \in Seq(Proper) /\ W!At(asked).dir /\ partInfo.extent = W!At(asked).extent
  BY FoundFields DEF WalkTrue
<1>2. \E n : FirstOfDir(infos, n, asked)
  BY <1>1, FirstTaken
<1>3. PICK n : FirstOfDir(infos, n, asked)
  BY <1>2
<1>4. asked \in Seq(Words) /\ W!Clean(asked) = asked
  BY <1>1, ProperNames, CleanSame
<1>5. ASSUME ~deep PROVE CacheRight(W!CacheList(infos))
  BY <1>1, <1>3, <1>4, <1>5, ListKeep DEF WalkTrue, KeysRight
<1>6. W!Shown(asked, infos) \in Seq(Items)
  BY <1>1, <1>3, ShownItems
<1> QED
  BY <1>5, <1>6

LEMMA ReadDirStep ==
    ASSUME WalkTrue, W!ReadDir
    PROVE  WalkTrue'
<1> DEFINE infos == Listed[partInfo.extent]
<1>0. /\ pc = "found" /\ api = "ReadDir" /\ partInfo.dir /\ lstatCache' = W!CacheList(infos)
      /\ UNCHANGED <<cmd, api, asked, deep, faults, hops>>
  BY DEF W!ReadDir, W!lookupVars
<1>1. /\ ~deep => CacheRight(W!CacheList(infos))
      /\ W!Shown(asked, infos) \in Seq(Items)
  BY <1>0, Reading
<1>2. q \in Seq(Items)
  BY <1>0 DEF WalkTrue, QueueRight
<1>3. KeysRight'
  BY <1>0, <1>1 DEF KeysRight
<1>4. CASE cmd.cmd = "tree"
  <2>1. q' = W!Shown(asked, infos) \o q /\ pc' = "cmd"
    BY <1>4 DEF W!ReadDir
  <2> DEFINE s == W!Shown(asked, infos)
  <2> HIDE DEF s
  <2>2. s \o q \in Seq(Items)
    BY <1>1, <1>2 DEF s
  <2> QED
    BY <1>0, <1>3, <1>4, <2>1, <2>2 DEF s, WalkTrue, Stages, Scanning, FoundRight, FailedRight, DirsOnly, Printing, QueueRight
<1>5. CASE cmd.cmd # "tree"
  <2>1. q' = q /\ pc' = "exit"
    BY <1>5 DEF W!ReadDir
  <2> QED
    BY <1>0, <1>2, <1>3, <2>1 DEF WalkTrue, Stages, Scanning, FoundRight, FailedRight, DirsOnly, QueueRight
<1> QED
  BY <1>4, <1>5

LEMMA ReadDirErrStep ==
    ASSUME WalkTrue, faults \in Nat, W!ReadDirErr
    PROVE  WalkTrue'
<1>1. PICK n \in 0 .. Len(Listed[partInfo.extent]) :
         lstatCache' = W!CacheList(SubSeq(Listed[partInfo.extent], 1, n))
  BY DEF W!ReadDirErr
<1>0. /\ pc = "found" /\ api = "ReadDir" /\ partInfo.dir /\ pc' = "failed" /\ faults' = faults + 1
      /\ UNCHANGED <<cmd, api, asked, deep, q>>
  BY DEF W!ReadDirErr, W!lookupVars, W!listVars
<1>2. KeysRight'
  BY <1>0, <1>1, Reading DEF KeysRight
<1>3. faults' # 0
  BY <1>0
<1> QED
  BY <1>0, <1>2, <1>3 DEF WalkTrue, Stages, Scanning, FoundRight, FailedRight, DirsOnly, QueueRight

\* Steps that end a command or that Walk takes.
LEMMA OtherSteps ==
    ASSUME WalkTrue, W!Copy \/ W!ReadDirOfFile \/ W!WalkRoot \/ W!WalkNext \/ W!WalkErr \/ W!WalkEnd
                     \/ W!TreeEnd \/ W!Fatal \/ W!Evict
    PROVE  WalkTrue'
<1>1. CASE W!Evict
  <2>1. PICK k \in DOMAIN lstatCache : lstatCache' = [p \in DOMAIN lstatCache \ {k} |-> lstatCache[p]]
    BY <1>1 DEF W!Evict
  <2>2. /\ UNCHANGED <<cmd, api, pc, asked, deep, hops, q, faults, parts, start, path, partInfo>>
        /\ pc \in {"cmd", "search"}
    BY <1>1 DEF W!Evict, W!lookupVars, W!listVars
  <2>3. CacheRight(lstatCache) => CacheRight(lstatCache')
    BY <2>1 DEF CacheRight
  <2>4. CacheOfDirs(lstatCache) => CacheOfDirs(lstatCache')
    BY <2>1 DEF CacheOfDirs
  <2> QED
    BY <2>2, <2>3, <2>4 DEF WalkTrue, KeysRight, Stages, Scanning, FoundRight, FailedRight, DirsOnly, Printing, QueueRight
<1>2. CASE W!Copy \/ W!ReadDirOfFile \/ W!TreeEnd \/ W!Fatal
  <2>1. /\ UNCHANGED <<lstatCache, cmd, api, asked, deep, hops, q, faults>>
        /\ \/ pc' = "exit"
           \/ pc = "found" /\ ~partInfo.dir /\ pc' = "failed" /\ api = "ReadDir"
    BY <1>2 DEF W!Copy, W!ReadDirOfFile, W!TreeEnd, W!Fatal, W!lookupVars, W!listVars
  <2>2. pc = "found" => partInfo.dir = W!At(asked).dir
    BY FoundFields
  <2> QED
    BY <2>1, <2>2 DEF WalkTrue, KeysRight, Stages, Scanning, FoundRight, FailedRight, DirsOnly, QueueRight
<1>3. CASE W!WalkRoot
  <2>1. /\ UNCHANGED <<lstatCache, cmd, api, asked, deep, hops, faults>>
        /\ pc' \in {"walk", "exit"} /\ pc = "found" /\ api = "Walk"
    BY <1>3 DEF W!WalkRoot, W!lookupVars
  <2>2. CacheOfDirs(lstatCache)
    BY <2>1 DEF WalkTrue, DirsOnly, Printing
  <2> QED
    BY <2>1, <2>2 DEF WalkTrue, KeysRight, Stages, Scanning, FoundRight, FailedRight, DirsOnly, QueueRight
<1>4. CASE W!WalkNext \/ W!WalkErr \/ W!WalkEnd
  <2>1. /\ UNCHANGED <<lstatCache, cmd, api, asked, deep, hops>>
        /\ pc' \in {"walk", "exit"} /\ pc = "walk"
    BY <1>4 DEF W!WalkNext, W!WalkErr, W!WalkEnd, W!lookupVars
  <2>2. api = "Walk" /\ CacheOfDirs(lstatCache)
    BY <2>1 DEF WalkTrue, Stages, DirsOnly, Printing
  <2> QED
    BY <2>1, <2>2 DEF WalkTrue, KeysRight, Stages, Scanning, FoundRight, FailedRight, DirsOnly, Printing, QueueRight
<1> QED
  BY <1>1, <1>2, <1>3, <1>4

LEMMA AtFields ==
    ASSUME NEW p \in Seq(Proper)
    PROVE  InfoFields \subseteq DOMAIN W!At(p)
<1>1. CASE W!At(p) = W!NoInfo
  BY <1>1, NoInfoFields
<1>2. CASE W!At(p) \in FileInfos
  <2>1. PICK e \in DOMAIN Listed : \E j \in DOMAIN Listed[e] : W!At(p) = Listed[e][j]
    BY <1>2 DEF FileInfos
  <2> QED
    BY <2>1, InfoFacts DEF IsInfo
<1> QED
  BY <1>1, <1>2, AllPlaced DEF Placed

LEMMA RootIsDir == W!At(<<>>).dir /\ W!At(<<>>).extent = RootStart
  BY AtEmpty, ListedAssumption, DirFacts

\* lstatCacheSearch finds a directory from which the path goes on, or the file.
LEMMA SearchStep ==
    ASSUME WalkTrue, W!Search
    PROVE  WalkTrue'
<1> DEFINE ps   == Dotted(asked)
           n    == Len(asked)
           hits == W!lstatCacheSearch(ps)
           i    == IF hits = {} THEN 0 ELSE W!Max(hits)
           at   == W!Clean(SubSeq(ps, 1, i))
<1>0. asked \in Seq(Proper) /\ n \in Nat /\ asked \in Seq(Words) /\ pc = "search" /\ ~deep /\ CacheRight(lstatCache)
  BY ProperNames DEF WalkTrue, Stages, KeysRight, W!Search
<1>1. Len(ps) = n + 1
  BY <1>0, DottedNext
<1>2. hits = {x \in 0 .. n + 1 : Upto(asked, x) \in DOMAIN lstatCache}
  BY <1>0, <1>1, CleanUpto DEF W!lstatCacheSearch
<1>3. /\ path' = <<>> /\ parts' = SubSeq(ps, i + 1, n + 1)
      /\ deep' = (hits # {} /\ i < n + 1 /\ at # <<>>)
      /\ UNCHANGED <<lstatCache, cmd, api, asked, hops, q, faults>>
  BY <1>1 DEF W!Search, W!listVars, Dotted
<1>4. hits = {} => pc' = "scan" /\ start' = RootStart
  BY DEF W!Search, Dotted
<1>5. hits # {} => /\ pc' = IF i = n + 1 THEN "found" ELSE "scan"
                   /\ start' = lstatCache[at].extent
                   /\ partInfo' = lstatCache[at]
  BY <1>1 DEF W!Search, Dotted
<1>6. hits # {} => W!Max(hits) \in hits
  <2>1. n + 1 \in Nat /\ hits \in SUBSET (0 .. n + 1)
    BY <1>0, <1>2
  <2> QED
    BY <2>1, Upper
<1> HIDE DEF hits
<1>7. i \in 0 .. n + 1 /\ (hits # {} => i \in hits)
  BY <1>0, <1>2, <1>6
<1> HIDE DEF i
<1>8. at = Upto(asked, i) /\ at \in Seq(Proper)
  BY <1>0, <1>7, CleanUpto, UptoEnds
<1> HIDE DEF at, ps, n
<1>9. ~deep' => at = <<>> \/ hits = {} \/ i = n + 1
  <2>1. ASSUME ~deep' PROVE ~(hits # {} /\ i < n + 1 /\ at # <<>>)
    BY <1>3, <2>1, Zenon
  <2>2. i < n + 1 \/ i = n + 1
    BY <1>0, <1>7
  <2> QED
    BY <2>1, <2>2, Zenon
<1>10. KeysRight' /\ QueueRight'
  BY <1>0, <1>3 DEF KeysRight, QueueRight, WalkTrue
<1>11. CASE hits = {}
  <2>1. i = 0
    BY <1>11 DEF i
  <2>2. Upto(asked, 0) = <<>>
    BY <1>0, UptoEnds
  <2>3. ScansFor(0)'
    <3>1. path' \in Seq(Words) /\ W!Clean(path') = Upto(asked, 0)
      BY <1>3, <2>2, CleanEmpty
    <3> QED
      BY <1>3, <1>4, <1>11, <2>1, <2>2, <3>1, RootIsDir DEF ScansFor, ps, n
  <2>4. Scanning'
    BY <1>0, <1>3, <2>3 DEF Scanning, n
  <2>5. pc' = "scan"
    BY <1>4, <1>11
  <2> QED
    BY <1>0, <1>3, <1>10, <2>4, <2>5
    DEF WalkTrue, Stages, FoundRight, FailedRight, DirsOnly, Printing
<1>12. CASE hits # {}
  <2>1. at \in DOMAIN lstatCache /\ W!Same(lstatCache[at], W!At(at))
    <3>1. at \in DOMAIN lstatCache
      BY <1>2, <1>7, <1>8, <1>12
    <3> QED
      BY <1>0, <3>1 DEF CacheRight
  <2>2. lstatCache[at].dir = W!At(at).dir /\ lstatCache[at].extent = W!At(at).extent
    BY <1>8, <2>1, AtFields, SameFields, SameOrder
  <2>3. CASE i = n + 1
    <3>1. at = asked
      BY <1>0, <1>8, <2>3, UptoEnds DEF n
    <3>2. pc' = "found" /\ partInfo' = lstatCache[at]
      BY <1>5, <1>12, <2>3
    <3>3. FoundRight'
      BY <1>3, <2>1, <3>1, <3>2 DEF FoundRight
    <3> QED
      BY <1>0, <1>3, <1>10, <3>2, <3>3
      DEF WalkTrue, Stages, Scanning, FailedRight, DirsOnly, Printing
  <2>4. CASE i # n + 1
    <3>1. i \in 0 .. n /\ pc' = "scan" /\ start' = lstatCache[at].extent
      BY <1>0, <1>5, <1>7, <1>12, <2>4
    <3>2. W!At(at).dir
      <4>1. CASE CacheOfDirs(lstatCache)
        BY <2>1, <2>2, <4>1 DEF CacheOfDirs
      <4>2. CASE W!At(asked).dir /\ i # 0
        <5>1. i \in 1 .. Len(asked)
          BY <1>0, <3>1, <4>2 DEF n
        <5> QED
          BY <1>0, <1>8, <4>2, <5>1, BelowFile, NoInfoFields
      <4>3. CASE i = 0
        BY <1>0, <1>8, <4>3, UptoEnds, RootIsDir
      <4> QED
        BY <1>0, <4>1, <4>2, <4>3 DEF WalkTrue, DirsOnly, Printing
    <3>3. PICK k \in 0 .. n : k = i
      BY <3>1
    <3>5. ScansFor(k)'
      <4>1. ASSUME ~deep' PROVE path' \in Seq(Words) /\ W!Clean(path') = Upto(asked, k)
        <5>1. at = <<>>
          BY <1>9, <1>12, <2>4, <4>1
        <5>2. path' = <<>> /\ <<>> \in Seq(Words) /\ Upto(asked, k) = <<>>
          BY <1>3, <1>8, <3>3, <5>1
        <5> QED
          BY <5>2, CleanEmpty
      <4>2. parts' = SubSeq(Dotted(asked), k + 1, Len(asked) + 1)
        BY <1>3, <3>3 DEF ps, n
      <4>3. W!At(Upto(asked, k)).dir /\ start' = W!At(Upto(asked, k)).extent
        BY <1>8, <2>2, <3>1, <3>2, <3>3
      <4> QED
        BY <1>3, <4>1, <4>2, <4>3 DEF ScansFor
    <3>4. Scanning'
      BY <1>3, <3>3, <3>5 DEF Scanning, n
    <3> QED
      BY <1>0, <1>3, <1>10, <3>1, <3>4
      DEF WalkTrue, Stages, FoundRight, FailedRight, DirsOnly, Printing
  <2> QED
    BY <2>3, <2>4
<1> QED
  BY <1>11, <1>12

\* What is left of the path, and what a scan meets in the directory.
LEMMA PartsLeft ==
    ASSUME asked \in Seq(Proper), NEW k \in 0 .. Len(asked), ScansFor(k)
    PROVE  /\ Head(parts) = Dotted(asked)[k + 1] /\ Head(parts) \in Words
           /\ Tail(parts) = SubSeq(Dotted(asked), k + 2, Len(asked) + 1)
           /\ Len(parts) = 1 <=> k = Len(asked)
<1> DEFINE d == Dotted(asked)
           n == Len(asked)
<1>1. d \in Seq(Words) /\ Len(d) = n + 1 /\ n \in Nat
  BY ProperNames, DottedNext
<1>2. parts = SubSeq(d, k + 1, n + 1)
  BY DEF ScansFor
<1> HIDE DEF d
<1>3. k + 1 \in 1 .. Len(d) /\ n + 1 \in k + 1 .. Len(d)
  BY <1>1
<1>4. Head(parts) = d[k + 1] /\ Tail(parts) = SubSeq(d, k + 1 + 1, n + 1)
  BY <1>1, <1>2, <1>3, HeadTailOfSubSeq
<1>5. k + 1 + 1 = k + 2 /\ d[k + 1] \in Words
  BY <1>1, <1>3
<1>6. Len(parts) = n + 1 - k
  BY <1>1, <1>2, <1>3
<1>7. Len(parts) = 1 <=> k = n
  BY <1>1, <1>6
<1> QED
  BY <1>4, <1>5, <1>7 DEF d

LEMMA ScanMeets ==
    ASSUME asked \in Seq(Proper), NEW k \in 0 .. Len(asked), ScansFor(k)
    PROVE  LET infos == Listed[start]
               m     == W!Match(infos, Head(parts))
           IN /\ start \in DOMAIN Listed
              /\ W!Visits(infos, Head(parts)) \in 0 .. Len(infos)
              /\ m = 0 => W!At(Upto(asked, k + 1)) = W!NoInfo
              /\ m # 0 => W!Same(infos[m], W!At(Upto(asked, k + 1)))
<1> DEFINE infos == Listed[start]
           name  == Head(parts)
           m     == W!Match(infos, name)
           p     == Upto(asked, k)
<1>1. p \in Seq(Proper) /\ W!At(p).dir /\ start = W!At(p).extent /\ name = Dotted(asked)[k + 1]
  <2>1. k \in 0 .. Len(asked) + 1
    OBVIOUS
  <2> QED
    BY <2>1, UptoEnds, PartsLeft DEF ScansFor
<1>2. start \in DOMAIN Listed /\ W!Same(infos[1], W!At(p))
  BY <1>1, AllPlaced DEF Placed, DirAt
<1>3. /\ Len(infos) \in Nat /\ Len(infos) >= 2 /\ DOMAIN infos = 1 .. Len(infos)
      /\ 1 \in DOMAIN infos /\ infos[1].name = "."
  BY <1>2, DirFacts
<1>4. \/ m = 0 /\ \A j \in DOMAIN infos : infos[j].name # name
      \/ m \in DOMAIN infos /\ infos[m].name = name /\ m # 0
  BY <1>2, MatchNone
<1>5. W!Visits(infos, name) \in 0 .. Len(infos)
  <2>1. W!Visits(infos, name) = IF m = 0 THEN Len(infos) ELSE m
    BY DEF W!Visits
  <2> HIDE DEF infos, m
  <2> QED
    BY <1>3, <1>4, <2>1
<1>6. CASE k = 0
  <2>1. name = "." /\ Upto(asked, k) = <<>> /\ Upto(asked, k + 1) = <<>>
    <3>1. asked \in Seq(Words) /\ k + 1 = 1
      BY <1>6, ProperNames
    <3>2. Dotted(asked)[1] = "."
      BY <3>1, DottedNext
    <3>3. Upto(asked, 0) = <<>> /\ Upto(asked, 1) = <<>>
      BY <3>1, UptoEnds
    <3> HIDE DEF name
    <3> QED
      BY <1>1, <1>6, <3>1, <3>2, <3>3
  <2>2. m = 1
    BY <1>2, <1>3, <2>1, MatchOne
  <2> QED
    BY <1>2, <1>5, <2>1, <2>2
<1>7. CASE k # 0
  <2>1. k \in 1 .. Len(asked)
    BY <1>7
  <2>2. name = asked[k]
    BY <1>1, <2>1, ProperNames, DottedNext
  <2>3. asked[k] \in Proper /\ Upto(asked, k + 1) = Append(p, asked[k])
    BY <2>1, UptoNext
  <2>4. W!At(Upto(asked, k + 1)) = W!Child(W!At(p), name)
    BY <1>1, <2>2, <2>3, ProperNames, AtAppend
  <2>5. W!At(Upto(asked, k + 1)) = IF m # 0 THEN infos[m] ELSE W!NoInfo
    BY <1>1, <2>4, Zenon DEF W!Child
  <2> HIDE DEF infos, m
  <2>6. (m = 0 => W!At(Upto(asked, k + 1)) = W!NoInfo) /\ (m # 0 => W!Same(infos[m], W!At(Upto(asked, k + 1))))
    BY <2>5, SameOrder
  <2> QED
    BY <1>2, <1>5, <2>6 DEF infos, m
<1> QED
  BY <1>6, <1>7

\* What is cached by a scan.
LEMMA ScanKeeps ==
    ASSUME asked \in Seq(Proper), KeysRight, NEW k \in 0 .. Len(asked), ScansFor(k),
           NEW n \in 0 .. Len(Listed[start])
    PROVE  LET new == W!CacheDirs(path, SubSeq(Listed[start], 1, n))
           IN /\ ~deep => CacheRight(new)
              /\ CacheOfDirs(lstatCache) => CacheOfDirs(new)
<1> DEFINE p == Upto(asked, k)
           infos == SubSeq(Listed[start], 1, n)
<1>1. p \in Seq(Proper) /\ W!At(p).dir /\ start = W!At(p).extent
  <2>1. k \in 0 .. Len(asked) + 1
    OBVIOUS
  <2> QED
    BY <2>1, UptoEnds DEF ScansFor
<1>2. FirstOfDir(infos, n, p)
  BY <1>1, FirstTaken
<1>3. n \in Nat /\ DOMAIN infos = 1 .. n
  BY <1>2 DEF FirstOfDir
<1>4. ASSUME ~deep PROVE CacheRight(W!CacheDirs(path, infos))
  BY <1>1, <1>2, <1>4, DirsKeep DEF KeysRight, ScansFor
<1>5. ASSUME CacheOfDirs(lstatCache) PROVE CacheOfDirs(W!CacheDirs(path, infos))
  BY <1>3, <1>5, DirsOfDirs
<1> QED
  BY <1>4, <1>5

LEMMA ScanStep ==
    ASSUME WalkTrue, W!Scan
    PROVE  WalkTrue'
<1> DEFINE infos == Listed[start]
           name  == Head(parts)
           m     == W!Match(infos, name)
           n     == Len(asked)
<1>0. /\ pc = "scan" /\ asked \in Seq(Proper) /\ n \in Nat
      /\ UNCHANGED <<cmd, api, asked, hops, q, deep, faults>>
  BY DEF WalkTrue, W!Scan, W!listVars
<1>1. PICK k \in 0 .. n : ScansFor(k)
  BY <1>0 DEF WalkTrue, Scanning
<1>2. /\ lstatCache' = W!CacheDirs(path, SubSeq(infos, 1, W!Visits(infos, name)))
      /\ parts' = Tail(parts)
      /\ m = 0 => pc' = "failed"
      /\ m # 0 => /\ partInfo' = infos[m] /\ path' = Append(path, name)
                  /\ Len(parts) = 1 => pc' = "found"
                  /\ Len(parts) # 1 /\ ~infos[m].dir => pc' = "failed"
                  /\ Len(parts) # 1 /\ infos[m].dir => start' = infos[m].extent /\ pc' = "scan"
  BY <1>0 DEF W!Scan
<1>3. /\ name = Dotted(asked)[k + 1] /\ name \in Words
      /\ Tail(parts) = SubSeq(Dotted(asked), k + 2, n + 1)
      /\ Len(parts) = 1 <=> k = n
  BY <1>0, <1>1, PartsLeft
<1>4. /\ W!Visits(infos, name) \in 0 .. Len(infos)
      /\ m = 0 => W!At(Upto(asked, k + 1)) = W!NoInfo
      /\ m # 0 => W!Same(infos[m], W!At(Upto(asked, k + 1)))
  BY <1>0, <1>1, ScanMeets
<1>5. (~deep => CacheRight(lstatCache')) /\ (CacheOfDirs(lstatCache) => CacheOfDirs(lstatCache'))
  BY <1>0, <1>1, <1>2, <1>4, ScanKeeps DEF WalkTrue
<1> DEFINE to == W!At(Upto(asked, k + 1))
<1>6. Upto(asked, k + 1) \in Seq(Proper) /\ InfoFields \subseteq DOMAIN to
  <2>1. k + 1 \in 0 .. Len(asked) + 1
    BY <1>0, <1>1
  <2>2. Upto(asked, k + 1) \in Seq(Proper)
    BY <1>0, <2>1, UptoEnds
  <2> QED
    BY <2>2, AtFields
<1>7. m # 0 => infos[m].dir = to.dir /\ infos[m].extent = to.extent
  <2>1. m # 0 => W!Same(to, infos[m])
    BY <1>4, SameOrder
  <2> QED
    BY <1>6, <2>1, SameFields
<1>8. k = n => Upto(asked, k + 1) = asked
  BY <1>0, UptoEnds
<1>9. ~to.dir /\ k # n => W!At(asked) = W!NoInfo
  <2>1. k # n => k + 1 \in 1 .. Len(asked)
    BY <1>0, <1>1
  <2> QED
    BY <1>0, <2>1, BelowFile
<1> HIDE DEF infos, name, m, n
<1>10. KeysRight' /\ QueueRight'
  BY <1>0, <1>5 DEF KeysRight, QueueRight, WalkTrue
<1>11. ASSUME pc' # "search" PROVE DirsOnly'
  BY <1>0, <1>5, <1>11 DEF DirsOnly, Printing, WalkTrue
<1>12. CASE m = 0
  <2>1. W!At(asked) = W!NoInfo
    BY <1>4, <1>8, <1>9, <1>12, NoInfoFields
  <2>2. FailedRight'
    BY <1>0, <2>1, NoInfoFields DEF FailedRight
  <2> QED
    BY <1>0, <1>2, <1>10, <1>11, <1>12, <2>2 DEF WalkTrue, Stages, Scanning, FoundRight
<1>13. CASE m # 0 /\ k = n
  <2>1. pc' = "found" /\ partInfo' = infos[m]
    BY <1>2, <1>3, <1>13
  <2>2. FoundRight'
    BY <1>0, <1>4, <1>8, <1>13, <2>1 DEF FoundRight
  <2> QED
    BY <1>0, <1>10, <1>11, <2>1, <2>2 DEF WalkTrue, Stages, Scanning, FailedRight
<1>14. CASE m # 0 /\ k # n /\ ~infos[m].dir
  <2>1. W!At(asked) = W!NoInfo /\ pc' = "failed"
    BY <1>2, <1>3, <1>7, <1>9, <1>14
  <2>2. FailedRight'
    BY <1>0, <2>1, NoInfoFields DEF FailedRight
  <2> QED
    BY <1>0, <1>10, <1>11, <2>1, <2>2 DEF WalkTrue, Stages, Scanning, FoundRight
<1>15. CASE m # 0 /\ k # n /\ infos[m].dir
  <2>1. start' = infos[m].extent /\ pc' = "scan" /\ path' = Append(path, name)
    BY <1>2, <1>3, <1>15
  <2>2. k + 1 \in 0 .. n /\ k + 1 + 1 = k + 2
    BY <1>0, <1>1, <1>15
  <2>3. ASSUME ~deep PROVE path' \in Seq(Words) /\ W!Clean(path') = Upto(asked, k + 1)
    <3>1. path \in Seq(Words) /\ W!Clean(path) = Upto(asked, k)
      BY <1>1, <2>3 DEF ScansFor
    <3>2. path' \in Seq(Words) /\ W!Clean(path') = Onto(Upto(asked, k), name)
      <4>1. W!Clean(Append(path, name)) = Onto(W!Clean(path), name)
        BY <1>3, <3>1, CleanAppend
      <4>2. Append(path, name) \in Seq(Words)
        BY <1>3, <3>1
      <4> QED
        BY <2>1, <3>1, <4>1, <4>2
    <3>3. CASE k = 0
      <4>1. name = "." /\ Upto(asked, k) = <<>> /\ Upto(asked, k + 1) = <<>>
        BY <1>0, <1>3, <3>3, ProperNames, DottedNext, UptoEnds
      <4> QED
        BY <3>2, <4>1 DEF Onto
    <3>4. CASE k # 0
      <4>1. k \in 1 .. Len(asked)
        BY <1>0, <1>1, <3>4 DEF n
      <4>2. name = asked[k]
        BY <1>0, <1>3, <4>1, ProperNames, DottedNext
      <4>3. asked[k] \in Proper /\ Upto(asked, k + 1) = Append(Upto(asked, k), asked[k])
        BY <1>0, <4>1, UptoNext
      <4> QED
        BY <3>2, <4>2, <4>3 DEF Onto, Proper
    <3> QED
      BY <3>3, <3>4
  <2>4. ScansFor(k + 1)'
    <3>1. parts' = SubSeq(Dotted(asked), k + 1 + 1, n + 1)
      BY <1>2, <1>3, <2>2
    <3>2. W!At(Upto(asked, k + 1)).dir /\ start' = W!At(Upto(asked, k + 1)).extent
      BY <1>7, <1>15, <2>1
    <3> QED
      BY <1>0, <2>3, <3>1, <3>2 DEF ScansFor, n
  <2>5. Scanning'
    BY <1>0, <2>2, <2>4 DEF Scanning, n
  <2> QED
    BY <1>0, <1>10, <1>11, <2>1, <2>5 DEF WalkTrue, Stages, FoundRight, FailedRight
<1> QED
  BY <1>12, <1>13, <1>14, <1>15

LEMMA ScanErrStep ==
    ASSUME WalkTrue, faults \in Nat, W!ScanErr
    PROVE  WalkTrue'
<1> DEFINE infos == Listed[start]
<1>0. /\ pc = "scan" /\ asked \in Seq(Proper) /\ pc' = "failed" /\ faults' = faults + 1
      /\ UNCHANGED <<cmd, api, asked, q, deep>>
  BY DEF WalkTrue, W!ScanErr, W!listVars, W!lookupVars
<1>1. PICK k \in 0 .. Len(asked) : ScansFor(k)
  BY <1>0 DEF WalkTrue, Scanning
<1>2. PICK n \in 0 .. W!Visits(infos, Head(parts)) : lstatCache' = W!CacheDirs(path, SubSeq(infos, 1, n))
  BY DEF W!ScanErr
<1>3. W!Visits(infos, Head(parts)) \in 0 .. Len(infos) /\ Len(infos) \in Nat
  <2>1. start \in DOMAIN Listed /\ W!Visits(infos, Head(parts)) \in 0 .. Len(infos)
    BY <1>0, <1>1, ScanMeets
  <2> QED
    BY <2>1, DirFacts
<1> HIDE DEF infos
<1>4. n \in 0 .. Len(infos)
  BY <1>2, <1>3
<1>5. ~deep => CacheRight(lstatCache')
  BY <1>0, <1>1, <1>2, <1>4, ScanKeeps DEF WalkTrue, infos
<1>6. faults' # 0
  BY <1>0
<1> QED
  BY <1>0, <1>5, <1>6 DEF WalkTrue, KeysRight, Stages, Scanning, FoundRight, FailedRight, DirsOnly, QueueRight

\* A step of the Walker is of the same command.
LEMMA SameCommand ==
    W!Next => cmd' = cmd /\ (faults' = faults \/ faults' = faults + 1) /\ (~resumed' => ~resumed)
<1> SUFFICES ASSUME W!Next
             PROVE  cmd' = cmd /\ (faults' = faults \/ faults' = faults + 1) /\ (~resumed' => ~resumed)
  OBVIOUS
<1>1. CASE W!Search \/ W!Scan \/ W!ScanErr \/ W!Evict
  BY <1>1 DEF W!Search, W!Scan, W!ScanErr, W!Evict, W!lookupVars, W!listVars
<1>2. CASE W!Copy \/ W!ReadDir \/ W!ReadDirErr \/ W!ReadDirOfFile \/ W!TreeEnd \/ W!Fatal
  BY <1>2 DEF W!Copy, W!ReadDir, W!ReadDirErr, W!ReadDirOfFile, W!TreeEnd, W!Fatal, W!lookupVars
<1>3. CASE W!WalkRoot \/ W!WalkNext \/ W!WalkErr \/ W!WalkEnd
  BY <1>3 DEF W!WalkRoot, W!WalkNext, W!WalkErr, W!WalkEnd, W!lookupVars
<1>4. CASE W!Follow \/ W!Begin
  BY <1>4 DEF W!Follow, W!Begin, W!Lookup
<1>5. CASE W!LsFound \/ W!PrintTree
  BY <1>5 DEF W!LsFound, W!PrintTree, W!Lookup
<1> QED
  BY <1>1, <1>2, <1>3, <1>4, <1>5 DEF W!Next

LEMMA WalkStep == WalkInv /\ [Next]_vars => WalkInv'
<1> SUFFICES ASSUME WalkInv, [Next]_vars, session' = "walk" PROVE WalkInv'
  BY DEF WalkInv
<1>1. CASE UNCHANGED vars
  <2>1. UNCHANGED <<lstatCache, cmd, api, pc, asked, parts, start, path, partInfo, hops, q, deep, resumed, faults, session>>
    BY <1>1 DEF vars, walkVars
  <2> QED
    BY <2>1 DEF WalkInv, WalkTrue, KeysRight, Stages, Scanning, ScansFor, FoundRight, FailedRight, DirsOnly, Printing, QueueRight
<1>2. CASE Walk
  <2>0. W!Next /\ cmd \in Commands /\ faults \in Nat /\ (~resumed => WalkTrue)
    BY <1>2 DEF Walk, WalkInv
  <2>1. cmd' = cmd /\ (faults' = faults \/ faults' = faults + 1) /\ (~resumed' => ~resumed)
    BY <2>0, SameCommand
  <2>2. ASSUME ~resumed' PROVE WalkTrue'
    <3>1. WalkTrue
      BY <2>0, <2>1, <2>2
    <3> QED
      BY <2>0, <2>2, <3>1, SearchStep, ScanStep, ScanErrStep, FollowStep, ReadDirStep, ReadDirErrStep,
         BeginStep, LsFoundStep, PrintTreeStep, OtherSteps DEF W!Next
  <2>3. faults' \in Nat
    BY <2>0, <2>1
  <2> QED
    BY <2>0, <2>1, <2>2, <2>3 DEF WalkInv
<1>3. CASE Serve
  BY <1>3 DEF Serve
<1> QED
  BY <1>1, <1>2, <1>3 DEF Next

\* For every disc that is a tree, every command and every error of the image:
\* until a lookup has gone on from below a cached directory, what Lstat, Open and
\* ReadDir find is what the path leads to, name by name, and a lookup that fails
\* fails for a path that leads nowhere; and so is all that is cached (lstat,
\* lstatCacheSearch).
THEOREM LookupsRight == Init /\ [][Next]_vars => []LookupRight
<1>1. WalkInv => LookupRight
  <2> SUFFICES ASSUME WalkInv, session = "walk", ~resumed
               PROVE  W!LstatDescribes /\ (~deep => \A p \in DOMAIN lstatCache : W!Same(lstatCache[p], W!At(p)))
    BY DEF LookupRight, W!LookupRight
  <2>1. WalkTrue
    BY DEF WalkInv
  <2> QED
    BY <2>1 DEF WalkTrue, KeysRight, CacheRight, FoundRight, FailedRight, W!LstatDescribes
<1> QED
  BY <1>1, WalkInit, WalkStep, PTL

----------------------------------------------------------------------------
(* Listings of the Walker.  Every file below a path has one path, found by  *)
(* its FileInfo: a listing is right when the paths of what it shows are     *)
(* the paths below the one that was asked for, each once.                   *)

\* There is a file at the path.
IsThere(p) == W!At(p) # W!NoInfo

\* A path is the path of its directory and a name.
LEMMA PathSteps ==
    ASSUME NEW S, NEW p \in Seq(S)
    PROVE  /\ \A x \in S : /\ Append(p, x) \in Seq(S) /\ Append(p, x) # <<>>
                           /\ Len(Append(p, x)) = Len(p) + 1
                           /\ W!DirName(Append(p, x)) = p
                           /\ Append(p, x)[Len(p) + 1] = x
           /\ p # <<>> => /\ W!DirName(p) \in Seq(S) /\ Len(p) \in Nat \ {0}
                          /\ Len(W!DirName(p)) = Len(p) - 1
                          /\ p[Len(p)] \in S
                          /\ p = Append(W!DirName(p), p[Len(p)])
<1>1. ASSUME NEW x \in S
      PROVE  /\ Append(p, x) \in Seq(S) /\ Append(p, x) # <<>>
             /\ Len(Append(p, x)) = Len(p) + 1
             /\ W!DirName(Append(p, x)) = p
             /\ Append(p, x)[Len(p) + 1] = x
  BY DEF W!DirName
<1>2. ASSUME p # <<>>
      PROVE  /\ W!DirName(p) \in Seq(S) /\ Len(p) \in Nat \ {0}
             /\ Len(W!DirName(p)) = Len(p) - 1
             /\ p[Len(p)] \in S
             /\ p = Append(W!DirName(p), p[Len(p)])
  <2>1. PICK n \in Nat : Len(p) = n + 1
    <3>1. Len(p) \in Nat /\ Len(p) # 0
      BY <1>2
    <3>2. Len(p) - 1 \in Nat /\ Len(p) = (Len(p) - 1) + 1
      BY <3>1
    <3> QED
      BY <3>2
  <2>2. Len(p) - 1 = n
    BY <2>1
  <2> QED
    BY <2>1, <2>2, LastName DEF W!DirName
<1> QED
  BY <1>1, <1>2

LEMMA OneDown ==
    \A d \in Seq(Proper) : \A x \in Proper :
        /\ Append(d, x) \in Seq(Proper) /\ Append(d, x) # <<>>
        /\ Len(Append(d, x)) = Len(d) + 1 /\ Append(d, x)[Len(d) + 1] = x
        /\ W!DirName(Append(d, x)) = d
<1> SUFFICES ASSUME NEW d \in Seq(Proper), NEW x \in Proper
             PROVE  /\ Append(d, x) \in Seq(Proper) /\ Append(d, x) # <<>>
                    /\ Len(Append(d, x)) = Len(d) + 1 /\ Append(d, x)[Len(d) + 1] = x
                    /\ W!DirName(Append(d, x)) = d
  OBVIOUS
<1> QED
  BY DEF W!DirName

\* A file below a directory is one of its records, and one of no other.
LEMMA RecordAt ==
    ASSUME NEW p \in Seq(Proper), NEW x \in Proper, IsThere(Append(p, x))
    PROVE  /\ W!At(p).dir /\ W!At(p).extent \in DOMAIN Listed
           /\ \E j \in DOMAIN Listed[W!At(p).extent] :
                 /\ j > 2 /\ Listed[W!At(p).extent][j].name = x
                 /\ W!At(Append(p, x)) = Listed[W!At(p).extent][j]
<1> DEFINE e == W!At(p).extent
           m == W!Match(Listed[e], x)
<1>1. W!At(Append(p, x)) = W!Child(W!At(p), x)
  BY ProperNames, AtAppend
<1>2. W!At(p).dir /\ m # 0
  BY <1>1, Zenon DEF W!Child, IsThere
<1>3. W!At(Append(p, x)) = Listed[e][m]
  BY <1>1, <1>2, Zenon DEF W!Child
<1>4. e \in DOMAIN Listed
  BY <1>2, AllPlaced DEF Placed, DirAt
<1>5. m \in DOMAIN Listed[e] /\ Listed[e][m].name = x
  BY <1>2, <1>4, MatchNone
<1>6. x # "." /\ x # ".."
  BY DEF Proper
<1>7. m # 1 /\ m # 2
  BY <1>4, <1>5, <1>6, DirFacts
<1> HIDE DEF m
<1>8. m > 2
  BY <1>4, <1>5, <1>7, DirFacts
<1> QED
  BY <1>2, <1>3, <1>4, <1>5, <1>8

LEMMA ChildAt ==
    ASSUME NEW p \in Seq(Proper), W!At(p).dir,
           NEW j \in DOMAIN Listed[W!At(p).extent], j > 2
    PROVE  LET fi == Listed[W!At(p).extent][j]
           IN /\ fi.name \in Proper /\ fi \in FileInfos
              /\ W!At(Append(p, fi.name)) = fi /\ IsThere(Append(p, fi.name))
<1> DEFINE e == W!At(p).extent
           fi == Listed[e][j]
<1>1. e \in DOMAIN Listed
  BY AllPlaced DEF Placed, DirAt
<1>2. fi \in FileInfos /\ fi.name \in Words
  BY <1>1, InfoFacts
<1>3. fi.name # "." /\ fi.name # ".."
  <2>1. Listed[e][1].name = "." /\ Listed[e][2].name = ".." /\ 1 \in DOMAIN Listed[e] /\ 2 \in DOMAIN Listed[e]
    BY <1>1, DirFacts
  <2>2. \A k \in DOMAIN Listed[e] : fi.name = Listed[e][k].name => j = k
    BY <1>1, InfoFacts
  <2>3. j # 1 /\ j # 2
    OBVIOUS
  <2> QED
    BY <2>1, <2>2, <2>3
<1>4. fi.name \in Proper
  BY <1>2, <1>3 DEF Proper
<1>5. W!Match(Listed[e], fi.name) = j
  BY <1>1, MatchOne
<1>6. W!At(Append(p, fi.name)) = W!Child(W!At(p), fi.name)
  BY <1>2, ProperNames, AtAppend
<1>7. W!At(Append(p, fi.name)) = fi
  <2>1. j # 0
    OBVIOUS
  <2> QED
    BY <1>5, <1>6, <2>1, Zenon DEF W!Child
<1>8. fi # W!NoInfo
  <2>1. fi.name # ""
    BY <1>1, FilesAssumption
  <2>2. W!NoInfo.name = ""
    BY DEF W!NoInfo
  <2> QED
    BY <2>1, <2>2
<1> QED
  BY <1>2, <1>4, <1>7, <1>8 DEF IsThere

\* The root is there.
LEMMA RootThere == IsThere(<<>>)
<1>1. W!NoInfo.dir = FALSE
  BY DEF W!NoInfo
<1> QED
  BY <1>1, RootIsDir DEF IsThere

\* A file has one path.
LEMMA OnePath ==
    \A p, r \in Seq(Proper) : IsThere(p) /\ IsThere(r) /\ W!Same(W!At(p), W!At(r)) => p = r
<1> DEFINE Good == {n \in Nat : \A p, r \in Seq(Proper) :
                       Len(p) = n /\ IsThere(p) /\ IsThere(r) /\ W!Same(W!At(p), W!At(r)) => p = r}
<1>1. ASSUME NEW p \in Seq(Proper), IsThere(p), W!Same(W!At(p), W!At(<<>>)) PROVE p = <<>>
  <2> SUFFICES ASSUME p # <<>> PROVE FALSE
    OBVIOUS
  <2> DEFINE d == W!DirName(p)
             x == p[Len(p)]
  <2>1. d \in Seq(Proper) /\ x \in Proper /\ p = Append(d, x)
    BY PathSteps
  <2> HIDE DEF d, x
  <2>2. PICK j \in DOMAIN Listed[W!At(d).extent] :
           j > 2 /\ W!At(p) = Listed[W!At(d).extent][j]
    BY <1>1, <2>1, RecordAt
  <2>3. W!At(d).extent \in DOMAIN Listed
    BY <1>1, <2>1, RecordAt
  <2>4. ~W!Same(W!At(p), Listed[RootStart][1])
    BY <2>2, <2>3, FilesAssumption
  <2> QED
    BY <1>1, <2>4, AtEmpty
<1>2. 0 \in Good
  <2> SUFFICES ASSUME NEW p \in Seq(Proper), NEW r \in Seq(Proper), Len(p) = 0,
                      IsThere(r), W!Same(W!At(p), W!At(r))
               PROVE  p = r
    OBVIOUS
  <2>1. p = <<>>
    OBVIOUS
  <2>2. W!Same(W!At(r), W!At(<<>>))
    BY <2>1, SameOrder
  <2> QED
    BY <1>1, <2>1, <2>2
<1>3. ASSUME NEW n \in Nat, n \in Good PROVE n + 1 \in Good
  <2> SUFFICES ASSUME NEW p \in Seq(Proper), NEW r \in Seq(Proper), Len(p) = n + 1,
                      IsThere(p), IsThere(r), W!Same(W!At(p), W!At(r))
               PROVE  p = r
    OBVIOUS
  <2>1. p # <<>>
    OBVIOUS
  <2>2. r # <<>>
    BY <1>1, <2>1
  <2> DEFINE d == W!DirName(p)
             x == p[Len(p)]
             c == W!DirName(r)
             y == r[Len(r)]
  <2>3. d \in Seq(Proper) /\ x \in Proper /\ p = Append(d, x) /\ Len(d) = n
    <3>1. d \in Seq(Proper) /\ x \in Proper /\ p = Append(d, x) /\ Len(d) = Len(p) - 1
      BY <2>1, PathSteps
    <3> QED
      BY <3>1
  <2>4. c \in Seq(Proper) /\ y \in Proper /\ r = Append(c, y)
    BY <2>2, PathSteps
  <2> HIDE DEF d, x, c, y
  <2> DEFINE e == W!At(d).extent
             f == W!At(c).extent
  <2>5. /\ W!At(d).dir /\ e \in DOMAIN Listed
        /\ \E j \in DOMAIN Listed[e] : j > 2 /\ Listed[e][j].name = x /\ W!At(p) = Listed[e][j]
    BY <2>3, RecordAt
  <2>6. /\ W!At(c).dir /\ f \in DOMAIN Listed
        /\ \E k \in DOMAIN Listed[f] : k > 2 /\ Listed[f][k].name = y /\ W!At(r) = Listed[f][k]
    BY <2>4, RecordAt
  <2>7. PICK j \in DOMAIN Listed[e] : j > 2 /\ Listed[e][j].name = x /\ W!At(p) = Listed[e][j]
    BY <2>5
  <2>8. PICK k \in DOMAIN Listed[f] : k > 2 /\ Listed[f][k].name = y /\ W!At(r) = Listed[f][k]
    BY <2>6
  <2>9. e = f /\ j = k
    <3>1. W!Same(Listed[e][j], Listed[f][k])
      BY <2>7, <2>8
    <3>2. \A g \in DOMAIN Listed : \A i \in DOMAIN Listed[g] :
             i > 2 /\ W!Same(Listed[e][j], Listed[g][i]) => e = g /\ j = i
      BY <2>5, <2>7, FilesAssumption
    <3> HIDE DEF e, f
    <3> QED
      BY <2>6, <2>8, <3>1, <3>2
  <2>10. x = y
    BY <2>7, <2>8, <2>9
  <2>11. W!Same(W!At(d), W!At(c))
    <3>1. W!Same(Listed[e][1], W!At(d)) /\ W!Same(Listed[f][1], W!At(c))
      BY <2>3, <2>4, <2>5, <2>6, AllPlaced DEF Placed, DirAt
    <3> QED
      BY <2>9, <3>1, SameOrder
  <2>12. IsThere(d) /\ IsThere(c)
    BY <2>5, <2>6, NoInfoFields DEF IsThere
  <2>13. d = c
    BY <1>3, <2>3, <2>4, <2>11, <2>12
  <2> QED
    BY <2>3, <2>4, <2>10, <2>13
<1> HIDE DEF Good
<1>4. Nat \subseteq Good
  BY <1>2, <1>3, Numbers
<1> QED
  <2> SUFFICES ASSUME NEW p \in Seq(Proper), NEW r \in Seq(Proper),
                      IsThere(p), IsThere(r), W!Same(W!At(p), W!At(r))
               PROVE  p = r
    OBVIOUS
  <2>1. Len(p) \in Good
    BY <1>4
  <2> QED
    BY <2>1 DEF Good

\* The path of a file.
PathOf(fi) == CHOOSE p \in Seq(Proper) : IsThere(p) /\ W!Same(fi, W!At(p))

LEMMA PathIs ==
    ASSUME NEW p \in Seq(Proper), IsThere(p), NEW fi, W!Same(fi, W!At(p))
    PROVE  PathOf(fi) = p
<1>1. ASSUME NEW r \in Seq(Proper), IsThere(r), W!Same(fi, W!At(r)) PROVE r = p
  <2>1. W!Same(W!At(r), W!At(p))
    BY <1>1, SameOrder
  <2> QED
    BY <1>1, <2>1, OnePath
<1>2. PathOf(fi) \in Seq(Proper) /\ IsThere(PathOf(fi)) /\ W!Same(fi, W!At(PathOf(fi)))
  BY Zenon DEF PathOf
<1> QED
  BY <1>1, <1>2

\* One level more of a tree.
Deepen(S) == S \cup UNION {W!Below(r) : r \in S}

TreeSteps(w, top, n) == /\ w[0] = W!Below(top)
                        /\ \A k \in 1 .. n : w[k] = Deepen(w[k - 1])

\* The tree below a path, level by level.
LEMMA FoldTree ==
    ASSUME NEW top, NEW n \in Nat
    PROVE  \E w : TreeSteps(w, top, n) /\ W!Tree(top, n) = w[n]
<1> DEFINE origin == W!Below(top)
           Iter(it, m) == it = [t \in SUBSET (1 .. m) |->
                             IF t = {} THEN origin ELSE Deepen(it[t \ {W!Max(t)}])]
           Good == {m \in Nat : \E it : Iter(it, m)}
<1>1. 0 \in Good
  <2> DEFINE it == [t \in {{}} |-> origin]
  <2>1. SUBSET (1 .. 0) = {{}}
    OBVIOUS
  <2>2. Iter(it, 0)
    BY <2>1, Zenon
  <2> QED
    BY <2>2
<1>2. ASSUME NEW m \in Nat, m \in Good PROVE m + 1 \in Good
  <2>1. PICK f : Iter(f, m)
    BY <1>2
  <2> DEFINE it == [t \in SUBSET (1 .. m + 1) |->
                      IF m + 1 \in t THEN Deepen(f[t \ {m + 1}]) ELSE f[t]]
  <2>2. ASSUME NEW t \in SUBSET (1 .. m + 1)
        PROVE  it[t] = IF t = {} THEN origin ELSE Deepen(it[t \ {W!Max(t)}])
    <3>1. CASE m + 1 \in t
      <4>1. W!Max(t) = m + 1 /\ t # {}
        <5>1. t # {} /\ t \in SUBSET (0 .. m + 1) /\ m + 1 \in Nat /\ \A b \in t : b <= m + 1
          BY <3>1
        <5> HIDE DEF it
        <5> QED
          BY <3>1, <5>1, Upper
      <4>2. t \ {m + 1} \in SUBSET (1 .. m + 1) /\ m + 1 \notin t \ {m + 1}
        OBVIOUS
      <4>3. it[t \ {m + 1}] = f[t \ {m + 1}]
        BY <4>2, Zenon
      <4>4. it[t] = Deepen(f[t \ {m + 1}])
        BY <3>1, Zenon
      <4> QED
        BY <4>1, <4>3, <4>4, Zenon
    <3>2. CASE m + 1 \notin t
      <4>1. t \in SUBSET (1 .. m)
        BY <3>2
      <4>2. t \ {W!Max(t)} \in SUBSET (1 .. m + 1) /\ m + 1 \notin t \ {W!Max(t)}
        BY <3>2
      <4>3. it[t] = f[t] /\ it[t \ {W!Max(t)}] = f[t \ {W!Max(t)}]
        BY <3>2, <4>2, Zenon
      <4>4. f[t] = IF t = {} THEN origin ELSE Deepen(f[t \ {W!Max(t)}])
        BY <2>1, <4>1, Zenon
      <4> QED
        BY <4>3, <4>4, Zenon
    <3> QED
      BY <3>1, <3>2
  <2>3. Iter(it, m + 1)
    <3> HIDE DEF origin
    <3> QED
      BY <2>2, Zenon
  <2> HIDE DEF Iter, it
  <2> QED
    BY <2>3
<1>3. PICK it : Iter(it, n) /\ W!Tree(top, n) = it[1 .. n]
  <2>1. \E it : Iter(it, n)
    <3> HIDE DEF Iter
    <3> QED
      BY <1>1, <1>2, Numbers
  <2> QED
    BY <2>1 DEF W!Tree, W!FoldLeft, W!MapThenFoldSet, Deepen
<1> DEFINE w == [k \in 0 .. n |-> it[1 .. k]]
<1>4. w[0] = origin
  <2>1. 1 .. 0 = {} /\ {} \in SUBSET (1 .. n) /\ 0 \in 0 .. n
    OBVIOUS
  <2>2. it[{}] = origin
    BY <1>3, <2>1, Zenon
  <2>3. w[0] = it[1 .. 0]
    BY <2>1, Zenon
  <2> QED
    BY <2>1, <2>2, <2>3, Zenon
<1>5. ASSUME NEW k \in 1 .. n PROVE w[k] = Deepen(w[k - 1])
  <2>1. 1 .. k # {} /\ (1 .. k) \ {k} = 1 .. k - 1 /\ 1 .. k \in SUBSET (1 .. n) /\ 1 .. k \in SUBSET (0 .. n) /\ k \in 1 .. k
        /\ \A b \in 1 .. k : b <= k
    OBVIOUS
  <2>3. W!Max(1 .. k) = k
    BY <2>1, Upper
  <2>2. it[1 .. k] = Deepen(it[(1 .. k) \ {k}])
    BY <1>3, <2>1, <2>3, Zenon
  <2>4. w[k] = it[1 .. k] /\ w[k - 1] = it[1 .. k - 1]
    OBVIOUS
  <2> QED
    BY <2>1, <2>2, <2>4, Zenon
<1>6. DOMAIN w = 0 .. n /\ w[n] = it[1 .. n]
  OBVIOUS
<1> HIDE DEF w, Iter
<1> QED
  BY <1>3, <1>4, <1>5, <1>6, Zenon DEF TreeSteps

\* The files of a directory, and all that are below it.
LEMMA BelowIs ==
    ASSUME NEW p \in Seq(Proper)
    PROVE  W!Below(p) = {r \in Seq(Proper) : r # <<>> /\ W!DirName(r) = p /\ IsThere(r)}
<1> DEFINE e == W!At(p).extent
           names == {Append(p, fi.name) : fi \in W!ToSet(Listed[e])}
<1>1. W!Level({p}) = IF W!At(p).dir THEN names ELSE {}
  <2>1. CASE W!At(p).dir
    <3>1. {r \in {p} : W!At(r).dir} = {p}
      BY <2>1
    <3> QED
      BY <2>1, <3>1 DEF W!Level
  <2>2. CASE ~W!At(p).dir
    <3>1. {r \in {p} : W!At(r).dir} = {}
      BY <2>2
    <3> QED
      BY <2>2, <3>1 DEF W!Level
  <2> QED
    BY <2>1, <2>2
<1>2. ASSUME NEW r \in W!Below(p)
      PROVE  r \in Seq(Proper) /\ r # <<>> /\ W!DirName(r) = p /\ IsThere(r)
  <2>1. r \in W!Level({p}) /\ W!Last(r) \notin {".", ".."}
    BY DEF W!Below, W!Plain
  <2>2. W!At(p).dir /\ r \in names
    BY <1>1, <2>1
  <2>3. PICK j \in DOMAIN Listed[e] : r = Append(p, Listed[e][j].name)
    BY <2>2 DEF W!ToSet
  <2>4. e \in DOMAIN Listed
    BY <2>2, AllPlaced DEF Placed, DirAt
  <2>5. Listed[e][j].name \in Words
    BY <2>4, InfoFacts
  <2> DEFINE x == Listed[e][j].name
  <2> HIDE DEF x
  <2>6. W!Last(r) = x
    <3>1. r = Append(p, x)
      BY <2>3 DEF x
    <3> QED
      BY <3>1 DEF W!Last
  <2>7. j # 1 /\ j # 2
    BY <2>1, <2>4, <2>6, DirFacts DEF x
  <2>8. j > 2
    BY <2>4, <2>7, DirFacts
  <2>9. x \in Proper /\ IsThere(Append(p, x))
    BY <2>2, <2>8, ChildAt DEF x
  <2>10. r = Append(p, x)
    BY <2>3 DEF x
  <2> QED
    BY <2>9, <2>10, OneDown
<1>3. ASSUME NEW r \in Seq(Proper), r # <<>>, W!DirName(r) = p, IsThere(r)
      PROVE  r \in W!Below(p)
  <2> DEFINE x == r[Len(r)]
  <2>1. x \in Proper /\ r = Append(p, x)
    BY <1>3, PathSteps
  <2> HIDE DEF x
  <2>2. W!At(p).dir /\ \E j \in DOMAIN Listed[e] : Listed[e][j].name = x
    BY <1>3, <2>1, RecordAt
  <2>3. r \in names
    BY <2>1, <2>2 DEF W!ToSet
  <2>4. W!Last(r) = x
    BY <2>1 DEF W!Last
  <2>5. x \notin {".", ".."}
    BY <2>1 DEF Proper
  <2> QED
    BY <1>1, <2>2, <2>3, <2>4, <2>5 DEF W!Below, W!Plain
<1> QED
  BY <1>2, <1>3

Under(top) == {p \in Seq(Proper) : IsThere(p) /\ Len(p) > Len(top) /\ SubSeq(p, 1, Len(top)) = top}

\* A file is below a path if its directory is, or is at the path.
LEMMA UnderNext ==
    ASSUME NEW top \in Seq(Proper), NEW d \in Seq(Proper), NEW x \in Proper, IsThere(Append(d, x))
    PROVE  /\ Append(d, x) \in Under(top) <=> d = top \/ d \in Under(top)
           /\ IsThere(d)
<1> DEFINE p == Append(d, x)
           n == Len(top)
<1>1. IsThere(d)
  BY RecordAt, NoInfoFields DEF IsThere
<1>2. p \in Seq(Proper) /\ Len(p) = Len(d) + 1 /\ n \in Nat /\ Len(d) \in Nat
  BY PathSteps
<1>3. ASSUME n <= Len(d) PROVE SubSeq(p, 1, n) = SubSeq(d, 1, n)
  BY <1>3
<1>4. SubSeq(d, 1, Len(d)) = d
  OBVIOUS
<1> HIDE DEF p, n
<1>5. Len(p) > n <=> n <= Len(d)
  BY <1>2
<1>6. ASSUME n <= Len(d), SubSeq(d, 1, n) = top PROVE d = top \/ Len(d) > n
  <2>1. CASE n = Len(d)
    BY <1>4, <1>6, <2>1
  <2>2. CASE n # Len(d)
    BY <1>2, <1>6, <2>2
  <2> QED
    BY <2>1, <2>2
<1>7. d = top => n = Len(d) /\ SubSeq(d, 1, n) = top
  BY <1>4 DEF n
<1>8. Len(d) > n => n <= Len(d)
  BY <1>2
<1>9. n = Len(d) => n <= Len(d)
  BY <1>2
<1>10. p \in Under(top) <=> n <= Len(d) /\ SubSeq(d, 1, n) = top
  BY <1>2, <1>3, <1>5 DEF Under, p, n
<1>11. d \in Under(top) <=> Len(d) > n /\ SubSeq(d, 1, n) = top
  BY <1>1 DEF Under, n
<1> QED
  BY <1>1, <1>6, <1>7, <1>8, <1>9, <1>10, <1>11 DEF p

\* What is below a path is in a directory that is there too.
LEMMA UnderFacts ==
    ASSUME NEW top \in Seq(Proper), NEW p \in Under(top)
    PROVE  /\ p \in Seq(Proper) /\ p # <<>> /\ p # top /\ IsThere(p)
           /\ W!DirName(p) \in Seq(Proper) /\ W!DirName(p) # p
           /\ W!At(W!DirName(p)).dir
           /\ W!DirName(p) = top \/ W!DirName(p) \in Under(top)
<1>1. p \in Seq(Proper) /\ IsThere(p) /\ Len(p) > Len(top) /\ Len(p) \in Nat /\ Len(top) \in Nat
  BY DEF Under
<1>2. p # <<>> /\ p # top
  BY <1>1
<1> DEFINE d == W!DirName(p)
           x == p[Len(p)]
<1>3. d \in Seq(Proper) /\ x \in Proper /\ p = Append(d, x) /\ Len(d) = Len(p) - 1
  BY <1>1, <1>2, PathSteps
<1> HIDE DEF d, x
<1>4. d # p
  BY <1>1, <1>3
<1>5. W!At(d).dir
  BY <1>1, <1>3, RecordAt
<1>6. d = top \/ d \in Under(top)
  BY <1>1, <1>3, UnderNext
<1> QED
  BY <1>1, <1>2, <1>3, <1>4, <1>5, <1>6 DEF d

\* No path is longer than there are directories.
LEMMA DepthBound ==
    ASSUME NEW p \in Seq(Proper), IsThere(p)
    PROVE  Len(p) <= Cardinality(DOMAIN Listed)
<1> DEFINE n == Len(p)
           f == [i \in 1 .. n |-> W!At(Upto(p, i)).extent]
<1>1. n \in Nat /\ \A i \in 1 .. n : Upto(p, i) \in Seq(Proper)
  BY UptoEnds
<1>2. ASSUME NEW i \in 1 .. n
      PROVE  W!At(Upto(p, i)).dir /\ IsThere(Upto(p, i))
  <2>1. W!At(Upto(p, i)).dir
    BY BelowFile DEF IsThere
  <2> QED
    BY <2>1, NoInfoFields DEF IsThere
<1>3. ASSUME NEW i \in 1 .. n
      PROVE  f[i] \in DOMAIN Listed /\ W!Same(Listed[f[i]][1], W!At(Upto(p, i)))
  BY <1>1, <1>2, AllPlaced DEF Placed, DirAt
<1>4. ASSUME NEW i \in 1 .. n, NEW j \in 1 .. n, f[i] = f[j] PROVE i = j
  <2>1. W!Same(W!At(Upto(p, i)), W!At(Upto(p, j)))
    <3>1. W!Same(Listed[f[i]][1], W!At(Upto(p, i))) /\ W!Same(Listed[f[i]][1], W!At(Upto(p, j)))
      BY <1>3, <1>4
    <3> QED
      BY <3>1, SameOrder
  <2>2. Upto(p, i) = Upto(p, j)
    BY <1>1, <1>2, <2>1, OnePath
  <2>3. Len(Upto(p, i)) = i - 1 /\ Len(Upto(p, j)) = j - 1
    BY <1>1 DEF Upto
  <2>4. i - 1 = j - 1
    BY <2>2, <2>3
  <2> QED
    BY <2>4
<1>5. f \in [1 .. n -> DOMAIN Listed]
  BY <1>3
<1> HIDE DEF f, n
<1>6. f \in Injection(1 .. n, DOMAIN Listed)
  BY <1>4, <1>5 DEF Injection, IsInjective
<1>7. Cardinality(1 .. n) <= Cardinality(DOMAIN Listed)
  BY <1>6, FilesAssumption, FS_Injection
<1>8. Cardinality(1 .. n) = n
  <2>1. 1 \in Int /\ n \in Int
    BY <1>1
  <2>2. Cardinality(1 .. n) = IF 1 > n THEN 0 ELSE n - 1 + 1
    BY <2>1, FS_Interval
  <2> QED
    BY <1>1, <2>2
<1> QED
  BY <1>7, <1>8 DEF n

\* The directories are counted as in the Walker.
LEMMA DirsCounted == Cardinality(DOMAIN Listed) \in Nat /\ W!Cardinality(DOMAIN Listed) = Cardinality(DOMAIN Listed)
<1>1. Cardinality(DOMAIN Listed) \in Nat
  BY FilesAssumption, FS_CardinalityType
<1>2. W!Cardinality(DOMAIN Listed) = Cardinality(DOMAIN Listed)
  BY DEF W!Cardinality, Cardinality
<1> QED
  BY <1>1, <1>2

\* As many levels as there are directories reach every file below a path.
LEMMA TreeIs ==
    ASSUME NEW top \in Seq(Proper)
    PROVE  W!Tree(top, Cardinality(DOMAIN Listed)) = Under(top)
<1> DEFINE n == Cardinality(DOMAIN Listed)
           t == Len(top)
           Near(k) == {p \in Under(top) : Len(p) <= t + 1 + k}
<1>1. n \in Nat /\ t \in Nat
  BY DirsCounted
<1>2. PICK w : TreeSteps(w, top, n) /\ W!Tree(top, n) = w[n]
  BY <1>1, FoldTree
<1>3. \A p \in Under(top) : Len(p) \in Nat /\ Len(p) > t /\ Len(p) <= n
  BY <1>1, DepthBound DEF Under
<1>4. ASSUME NEW p \in Under(top)
      PROVE  /\ Len(W!DirName(p)) = Len(p) - 1 /\ Len(p) \in Nat
             /\ W!DirName(p) = top => Len(p) = t + 1
             /\ Len(p) = t + 1 => W!DirName(p) = top
  <2>1. p \in Seq(Proper) /\ p # <<>> /\ SubSeq(p, 1, t) = top
    BY UnderFacts DEF Under
  <2>2. Len(W!DirName(p)) = Len(p) - 1 /\ Len(p) \in Nat
    BY <2>1, PathSteps
  <2>3. W!DirName(p) = SubSeq(p, 1, Len(p) - 1)
    BY DEF W!DirName
  <2>4. Len(p) = t + 1 => Len(p) - 1 = t
    BY <1>1
  <2>5. W!DirName(p) = top => Len(p) - 1 = t
    BY <2>2
  <2>6. Len(p) - 1 = t => Len(p) = t + 1
    BY <1>1, <2>2
  <2> QED
    BY <2>1, <2>2, <2>3, <2>4, <2>5, <2>6
<1>5. ASSUME NEW d \in Seq(Proper), NEW p \in W!Below(d), d = top \/ d \in Under(top)
      PROVE  p \in Under(top) /\ W!DirName(p) = d
  <2>1. p \in Seq(Proper) /\ p # <<>> /\ W!DirName(p) = d /\ IsThere(p)
    BY BelowIs
  <2> DEFINE x == p[Len(p)]
  <2>2. x \in Proper /\ p = Append(d, x)
    BY <2>1, PathSteps
  <2> HIDE DEF x
  <2>3. IsThere(Append(d, x))
    BY <2>1, <2>2
  <2>4. Append(d, x) \in Under(top)
    BY <1>5, <2>2, <2>3, UnderNext
  <2> QED
    BY <2>1, <2>2, <2>4
<1>6. ASSUME NEW p \in Under(top) PROVE p \in W!Below(W!DirName(p))
  BY UnderFacts, BelowIs
<1> DEFINE Good == {k \in Nat : k <= n => w[k] = Near(k)}
<1> HIDE DEF t, n
<1>7. 0 \in Good
  <2>1. w[0] = W!Below(top)
    BY <1>2 DEF TreeSteps
  <2>2. ASSUME NEW p \in W!Below(top) PROVE p \in Near(0)
    <3>1. p \in Under(top) /\ W!DirName(p) = top
      BY <1>5
    <3>2. Len(p) = t + 1
      BY <1>4, <3>1
    <3> QED
      BY <1>1, <3>1, <3>2
  <2>3. ASSUME NEW p \in Near(0) PROVE p \in W!Below(top)
    <3>1. Len(p) = t + 1
      BY <1>1, <1>3
    <3> QED
      BY <1>4, <1>6, <3>1
  <2> QED
    BY <2>1, <2>2, <2>3
<1>8. ASSUME NEW k \in Nat, k \in Good PROVE k + 1 \in Good
  <2> SUFFICES ASSUME k + 1 <= n PROVE w[k + 1] = Near(k + 1)
    OBVIOUS
  <2>1. w[k] = Near(k) /\ k + 1 \in 1 .. n /\ (k + 1) - 1 = k
    BY <1>1, <1>8
  <2>2. w[k + 1] = Deepen(Near(k))
    BY <1>2, <2>1 DEF TreeSteps
  <2>3. ASSUME NEW p \in Deepen(Near(k)) PROVE p \in Near(k + 1)
    <3>1. CASE p \in Near(k)
      <4>1. Len(p) <= t + 1 + (k + 1)
        BY <1>1, <1>3, <3>1
      <4> QED
        BY <3>1, <4>1
    <3>2. CASE \E d \in Near(k) : p \in W!Below(d)
      <4>1. PICK d \in Near(k) : p \in W!Below(d)
        BY <3>2
      <4>2. d \in Seq(Proper) /\ d \in Under(top)
        BY DEF Under
      <4>3. p \in Under(top) /\ W!DirName(p) = d
        BY <1>5, <4>1, <4>2
      <4>4. Len(d) = Len(p) - 1 /\ Len(p) \in Nat /\ Len(d) <= t + 1 + k
        BY <1>4, <4>3
      <4>5. Len(p) <= t + 1 + (k + 1)
        BY <1>1, <4>4
      <4> QED
        BY <4>3, <4>5
    <3> QED
      BY <3>1, <3>2 DEF Deepen
  <2>4. ASSUME NEW p \in Near(k + 1) PROVE p \in Deepen(Near(k))
    <3> DEFINE d == W!DirName(p)
    <3>1. Len(d) = Len(p) - 1 /\ Len(p) \in Nat /\ Len(p) <= t + 1 + (k + 1) /\ Len(p) > t
      BY <1>3, <1>4
    <3>2. CASE Len(p) = t + 1
      <4>1. Len(p) <= t + 1 + k
        BY <1>1, <3>2
      <4> QED
        BY <4>1 DEF Deepen
    <3>3. CASE Len(p) # t + 1
      <4>1. d # top
        BY <1>4, <3>3
      <4>2. d \in Under(top)
        BY <4>1, UnderFacts
      <4>3. Len(d) <= t + 1 + k
        BY <1>1, <3>1
      <4> HIDE DEF d
      <4>4. d \in Near(k)
        BY <4>2, <4>3
      <4>5. p \in W!Below(d)
        BY <1>6 DEF d
      <4> QED
        BY <4>4, <4>5 DEF Deepen
    <3> QED
      BY <3>2, <3>3
  <2> HIDE DEF Near
  <2> QED
    BY <2>2, <2>3, <2>4
<1> HIDE DEF Good
<1>9. n \in Good
  BY <1>1, <1>7, <1>8, Numbers
<1>10. w[n] = Near(n)
  BY <1>1, <1>9 DEF Good
<1>11. Near(n) = Under(top)
  <2>1. ASSUME NEW p \in Under(top) PROVE Len(p) <= t + 1 + n
    BY <1>1, <1>3
  <2> QED
    BY <2>1
<1> QED
  BY <1>2, <1>10, <1>11 DEF n

----------------------------------------------------------------------------
(* What a listing shows, and what it has still to read *)

\* Sequences of anything.
LEMMA Joins ==
    ASSUME NEW a, NEW b, IsSeq(a), IsSeq(b)
    PROVE  /\ IsSeq(a \o b)
           /\ Len(a) \in Nat /\ Len(b) \in Nat
           /\ DOMAIN a = 1 .. Len(a) /\ DOMAIN b = 1 .. Len(b)
           /\ DOMAIN (a \o b) = 1 .. Len(a) + Len(b)
           /\ \A i \in 1 .. Len(a) : (a \o b)[i] = a[i]
           /\ \A i \in 1 .. Len(b) : (a \o b)[Len(a) + i] = b[i]
<1> DEFINE S == Elements(a) \cup Elements(b)
<1>1. a \in Seq(S) /\ b \in Seq(S)
  <2>1. a \in Seq(Elements(a)) /\ b \in Seq(Elements(b))
    BY DEF IsSeq, Elements
  <2>2. Elements(a) \subseteq S /\ Elements(b) \subseteq S
    OBVIOUS
  <2> HIDE DEF S
  <2> QED
    BY <2>1, <2>2, SeqMonotonic
<1> HIDE DEF S
<1>2. /\ a \o b \in Seq(S) /\ Len(a \o b) = Len(a) + Len(b)
      /\ \A i \in 1 .. Len(a) : (a \o b)[i] = a[i]
      /\ \A i \in 1 .. Len(b) : (a \o b)[Len(a) + i] = b[i]
  BY <1>1, ConcatProperties
<1>3. IsSeq(a \o b)
  <2> DEFINE c == a \o b
  <2> HIDE DEF c
  <2>1. c \in Seq(S)
    BY <1>2 DEF c
  <2>2. IsSeq(c)
    BY <2>1 DEF IsSeq
  <2> QED
    BY <2>2 DEF c
<1>4. Len(a) \in Nat /\ Len(b) \in Nat /\ DOMAIN a = 1 .. Len(a) /\ DOMAIN b = 1 .. Len(b)
  BY <1>1
<1>5. DOMAIN (a \o b) = 1 .. Len(a) + Len(b)
  BY <1>2, Zenon, LenProperties
<1> QED
  BY <1>2, <1>3, <1>4, <1>5

\* A sequence without its head.
LEMMA Heads ==
    ASSUME NEW a, IsSeq(a), a # <<>>
    PROVE  /\ Len(a) \in Nat \ {0} /\ DOMAIN a = 1 .. Len(a)
           /\ Head(a) = a[1] /\ IsSeq(Tail(a)) /\ Len(Tail(a)) = Len(a) - 1
           /\ DOMAIN Tail(a) = 1 .. Len(a) - 1
           /\ \A i \in 1 .. Len(a) - 1 : Tail(a)[i] = a[i + 1]
<1> DEFINE S == Elements(a)
           t == Tail(a)
<1>1. a \in Seq(S)
  BY DEF IsSeq, Elements
<1> HIDE DEF S
<1>2. /\ Len(a) \in Nat \ {0} /\ DOMAIN a = 1 .. Len(a)
      /\ Head(a) = a[1] /\ t \in Seq(S) /\ Len(t) = Len(a) - 1
      /\ DOMAIN t = 1 .. Len(a) - 1
      /\ \A i \in 1 .. Len(a) - 1 : t[i] = a[i + 1]
  BY <1>1
<1> HIDE DEF t
<1>3. IsSeq(t)
  <2>1. t \in Seq(S)
    BY <1>2
  <2> QED
    BY <2>1 DEF IsSeq
<1> QED
  BY <1>2, <1>3 DEF t

\* A sequence with one more.
LEMMA AppendEnds ==
    ASSUME NEW a, IsSeq(a), NEW x
    PROVE  /\ IsSeq(Append(a, x)) /\ Len(a) \in Nat /\ DOMAIN a = 1 .. Len(a)
           /\ Len(Append(a, x)) = Len(a) + 1
           /\ DOMAIN Append(a, x) = 1 .. Len(a) + 1
           /\ \A i \in 1 .. Len(a) : Append(a, x)[i] = a[i]
           /\ Append(a, x)[Len(a) + 1] = x
<1> DEFINE S == Elements(a) \cup {x}
           t == Append(a, x)
<1>1. a \in Seq(S) /\ x \in S
  <2>1. a \in Seq(Elements(a))
    BY DEF IsSeq, Elements
  <2>2. Elements(a) \subseteq S /\ x \in S
    OBVIOUS
  <2> HIDE DEF S
  <2> QED
    BY <2>1, <2>2, SeqMonotonic
<1> HIDE DEF S
<1>2. /\ t \in Seq(S) /\ Len(a) \in Nat /\ DOMAIN a = 1 .. Len(a)
      /\ Len(t) = Len(a) + 1 /\ DOMAIN t = 1 .. Len(a) + 1
      /\ \A i \in 1 .. Len(a) : t[i] = a[i]
      /\ t[Len(a) + 1] = x
  BY <1>1
<1> HIDE DEF t
<1>3. IsSeq(t)
  BY <1>2 DEF IsSeq
<1> QED
  BY <1>2, <1>3 DEF t

\* The paths of what is listed, each listed once.
PathAt(s, i) == PathOf(s[i].info)
Paths(s)     == {PathAt(s, i) : i \in DOMAIN s}
Once(s)      == \A i, j \in DOMAIN s : PathAt(s, i) = PathAt(s, j) => i = j

LEMMA OnceJoins ==
    ASSUME NEW a, NEW b, IsSeq(a), IsSeq(b), Once(a), Once(b), Paths(a) \cap Paths(b) = {}
    PROVE  /\ IsSeq(a \o b) /\ Once(a \o b) /\ Paths(a \o b) = Paths(a) \cup Paths(b)
           /\ \A i \in DOMAIN (a \o b) : \/ \E j \in DOMAIN a : (a \o b)[i] = a[j]
                                         \/ \E j \in DOMAIN b : (a \o b)[i] = b[j]
<1> DEFINE c == a \o b
           m == Len(a)
           n == Len(b)
<1>1. /\ IsSeq(c) /\ m \in Nat /\ n \in Nat /\ DOMAIN a = 1 .. m /\ DOMAIN b = 1 .. n
      /\ DOMAIN c = 1 .. m + n
      /\ \A i \in 1 .. m : c[i] = a[i]
      /\ \A i \in 1 .. n : c[m + i] = b[i]
  BY Joins
<1> HIDE DEF c, m, n
<1>2. ASSUME NEW i \in DOMAIN c
      PROVE  \/ i \in DOMAIN a /\ c[i] = a[i]
             \/ i - m \in DOMAIN b /\ c[i] = b[i - m]
  <2>1. CASE i <= m
    BY <1>1, <2>1
  <2>2. CASE ~(i <= m)
    <3>1. i - m \in 1 .. n /\ m + (i - m) = i
      BY <1>1, <2>2
    <3> QED
      BY <1>1, <3>1
  <2> QED
    BY <2>1, <2>2
<1>3. ASSUME NEW i \in DOMAIN c, NEW j \in DOMAIN c, PathAt(c, i) = PathAt(c, j) PROVE i = j
  <2>1. CASE i \in DOMAIN a /\ c[i] = a[i] /\ j \in DOMAIN a /\ c[j] = a[j]
    BY <1>3, <2>1 DEF Once, PathAt
  <2>2. CASE i - m \in DOMAIN b /\ c[i] = b[i - m] /\ j - m \in DOMAIN b /\ c[j] = b[j - m]
    <3>1. i - m = j - m
      BY <1>3, <2>2 DEF Once, PathAt
    <3> QED
      BY <1>1, <3>1
  <2>3. CASE i \in DOMAIN a /\ c[i] = a[i] /\ j - m \in DOMAIN b /\ c[j] = b[j - m]
    BY <1>3, <2>3 DEF Paths, PathAt
  <2>4. CASE i - m \in DOMAIN b /\ c[i] = b[i - m] /\ j \in DOMAIN a /\ c[j] = a[j]
    BY <1>3, <2>4 DEF Paths, PathAt
  <2> QED
    BY <1>2, <2>1, <2>2, <2>3, <2>4
<1>4. ASSUME NEW j \in DOMAIN a PROVE j \in DOMAIN c /\ c[j] = a[j]
  BY <1>1
<1>5. ASSUME NEW j \in DOMAIN b PROVE m + j \in DOMAIN c /\ c[m + j] = b[j]
  BY <1>1
<1>6. Paths(c) = Paths(a) \cup Paths(b)
  <2>1. Paths(c) \subseteq Paths(a) \cup Paths(b)
    BY <1>2 DEF Paths, PathAt
  <2>2. Paths(a) \subseteq Paths(c)
    BY <1>4 DEF Paths, PathAt
  <2>3. Paths(b) \subseteq Paths(c)
    BY <1>5 DEF Paths, PathAt
  <2> QED
    BY <2>1, <2>2, <2>3
<1> QED
  BY <1>1, <1>2, <1>3, <1>6 DEF Once, c

LEMMA OnceTail ==
    ASSUME NEW a, IsSeq(a), a # <<>>, Once(a)
    PROVE  LET h == PathOf(Head(a).info)
           IN /\ IsSeq(Tail(a)) /\ Once(Tail(a))
              /\ Paths(a) = {h} \cup Paths(Tail(a)) /\ h \notin Paths(Tail(a))
              /\ \E i \in DOMAIN a : Head(a) = a[i]
              /\ \A i \in DOMAIN Tail(a) : \E j \in DOMAIN a : Tail(a)[i] = a[j]
<1> DEFINE t == Tail(a)
           n == Len(a)
<1>1. /\ n \in Nat \ {0} /\ DOMAIN a = 1 .. n /\ Head(a) = a[1] /\ IsSeq(t)
      /\ DOMAIN t = 1 .. n - 1 /\ \A i \in 1 .. n - 1 : t[i] = a[i + 1]
  BY Heads
<1> HIDE DEF t, n
<1>2. ASSUME NEW i \in DOMAIN t PROVE i + 1 \in DOMAIN a /\ i + 1 # 1 /\ t[i] = a[i + 1]
  BY <1>1
<1>3. 1 \in DOMAIN a
  BY <1>1
<1>4. ASSUME NEW j \in DOMAIN a, j # 1 PROVE j - 1 \in DOMAIN t /\ t[j - 1] = a[j]
  <2>1. j - 1 \in 1 .. n - 1 /\ (j - 1) + 1 = j
    BY <1>1, <1>4
  <2> QED
    BY <1>1, <2>1
<1>5. Once(t)
  <2> SUFFICES ASSUME NEW i \in DOMAIN t, NEW j \in DOMAIN t, PathAt(t, i) = PathAt(t, j) PROVE i = j
    BY DEF Once
  <2>1. i + 1 = j + 1
    BY <1>2 DEF Once, PathAt
  <2> QED
    BY <1>1, <2>1
<1>6. PathAt(a, 1) \notin Paths(t)
  BY <1>2, <1>3 DEF Once, Paths, PathAt
<1>7. Paths(a) = {PathAt(a, 1)} \cup Paths(t)
  <2>1. Paths(t) \subseteq Paths(a)
    BY <1>2 DEF Paths, PathAt
  <2>2. \A j \in DOMAIN a : j # 1 => PathAt(a, j) \in Paths(t)
    BY <1>4 DEF Paths, PathAt
  <2> QED
    BY <1>3, <2>1, <2>2 DEF Paths
<1> QED
  BY <1>1, <1>2, <1>3, <1>5, <1>6, <1>7 DEF t, PathAt

LEMMA OnceAppend ==
    ASSUME NEW a, IsSeq(a), Once(a), NEW s, PathOf(s.info) \notin Paths(a)
    PROVE  /\ IsSeq(Append(a, s)) /\ Once(Append(a, s))
           /\ Paths(Append(a, s)) = Paths(a) \cup {PathOf(s.info)}
           /\ \A i \in DOMAIN Append(a, s) : Append(a, s)[i] = s \/ \E j \in DOMAIN a : Append(a, s)[i] = a[j]
<1> DEFINE t == Append(a, s)
           n == Len(a)
<1>1. /\ IsSeq(t) /\ n \in Nat /\ DOMAIN a = 1 .. n /\ DOMAIN t = 1 .. n + 1
      /\ \A i \in 1 .. n : t[i] = a[i]
      /\ t[n + 1] = s
  BY AppendEnds
<1> HIDE DEF t, n
<1>2. ASSUME NEW i \in DOMAIN t PROVE (i \in DOMAIN a /\ t[i] = a[i]) \/ (i = n + 1 /\ t[i] = s)
  BY <1>1
<1>3. n + 1 \in DOMAIN t /\ \A j \in DOMAIN a : j \in DOMAIN t /\ t[j] = a[j]
  BY <1>1
<1>4. Once(t)
  <2> SUFFICES ASSUME NEW i \in DOMAIN t, NEW j \in DOMAIN t, PathAt(t, i) = PathAt(t, j) PROVE i = j
    BY DEF Once
  <2> QED
    BY <1>2 DEF Once, Paths, PathAt
<1>5. Paths(t) = Paths(a) \cup {PathOf(s.info)}
  <2>1. Paths(t) \subseteq Paths(a) \cup {PathOf(s.info)}
    BY <1>2 DEF Paths, PathAt
  <2>2. PathOf(s.info) \in Paths(t)
    BY <1>1, <1>3 DEF Paths, PathAt
  <2>3. Paths(a) \subseteq Paths(t)
    BY <1>3 DEF Paths, PathAt
  <2> QED
    BY <2>1, <2>2, <2>3
<1> QED
  BY <1>1, <1>2, <1>4, <1>5 DEF t

\* The names of a directory's files, below the two that stand for directories.
LEMMA DotsFirst ==
    ASSUME NEW d \in Seq(Proper), W!At(d).dir, NEW infos, NEW n, FirstOfDir(infos, n, d),
           NEW j \in 1 .. n
    PROVE  /\ infos[j] \in FileInfos
           /\ j > 2 => /\ infos[j].name \in Proper /\ infos[j].name \notin {".", ".."}
                       /\ W!At(Append(d, infos[j].name)) = infos[j]
                       /\ IsThere(Append(d, infos[j].name))
                       /\ PathOf(infos[j]) = Append(d, infos[j].name)
                       /\ Append(d, infos[j].name) \in W!Below(d)
           /\ ~(j > 2) => infos[j].name \in {".", ".."}
<1> DEFINE e == W!At(d).extent
           fi == infos[j]
<1>1. j \in DOMAIN Listed[e] /\ fi = Listed[e][j]
  BY DEF FirstOfDir
<1>2. e \in DOMAIN Listed
  BY AllPlaced DEF Placed, DirAt
<1>3. fi \in FileInfos
  BY <1>1, <1>2, InfoFacts
<1>4. ASSUME j > 2
      PROVE  /\ fi.name \in Proper /\ W!At(Append(d, fi.name)) = fi
             /\ IsThere(Append(d, fi.name))
  BY <1>1, <1>4, ChildAt
<1>5. ASSUME ~(j > 2) PROVE fi.name \in {".", ".."}
  <2>1. j = 1 \/ j = 2
    <3>1. n \in Nat
      BY DEF FirstOfDir
    <3> QED
      BY <1>5, <3>1
  <2> QED
    BY <1>1, <1>2, <2>1, DirFacts
<1>6. ASSUME j > 2
      PROVE  /\ fi.name \notin {".", ".."}
             /\ PathOf(fi) = Append(d, fi.name)
             /\ Append(d, fi.name) \in W!Below(d)
  <2> DEFINE x == fi.name
             p == Append(d, x)
  <2>1. x \in Proper /\ W!At(p) = fi /\ IsThere(p)
    BY <1>4, <1>6
  <2> HIDE DEF x
  <2>2. p \in Seq(Proper) /\ p # <<>> /\ W!DirName(p) = d
    BY <2>1, OneDown
  <2> HIDE DEF p, fi
  <2>3. PathOf(fi) = p
    <3>1. W!Same(fi, W!At(p))
      BY <2>1, SameOrder
    <3> QED
      BY <2>1, <2>2, <3>1, PathIs
  <2>4. p \in W!Below(d)
    BY <2>1, <2>2, BelowIs
  <2>5. x \notin {".", ".."}
    BY <2>1 DEF Proper
  <2> QED
    BY <2>3, <2>4, <2>5 DEF p, x
<1> HIDE DEF fi
<1>7. /\ fi \in FileInfos
      /\ j > 2 => /\ fi.name \in Proper /\ fi.name \notin {".", ".."}
                  /\ W!At(Append(d, fi.name)) = fi
                  /\ IsThere(Append(d, fi.name))
                  /\ PathOf(fi) = Append(d, fi.name)
                  /\ Append(d, fi.name) \in W!Below(d)
      /\ ~(j > 2) => fi.name \in {".", ".."}
  BY <1>3, <1>4, <1>5, <1>6
<1> QED
  BY <1>7 DEF fi

\* What is shown of a directory: its files, under the path that is passed on.
ShownOf(s, of, d, k, infos) ==
    /\ IsSeq(s) /\ Once(s)
    /\ \A i \in DOMAIN s : /\ s[i].of = of /\ s[i].info = W!At(PathAt(s, i))
                           /\ s[i] = [of |-> of, info |-> s[i].info]
                           /\ PathAt(s, i) \in W!Below(d)
    /\ Paths(s) = {PathOf(infos[j]) : j \in 3 .. k}

\* What is shown of the records of a directory.
LEMMA Listing ==
    ASSUME NEW d \in Seq(Proper), W!At(d).dir, NEW infos, NEW n, FirstOfDir(infos, n, d), NEW of
    PROVE  ShownOf(W!Shown(of, infos), of, d, n, infos)
<1>1. n \in Nat /\ DOMAIN infos = 1 .. n
  BY DEF FirstOfDir
<1>2. PICK w : ShownSteps(w, of, infos, n) /\ W!Shown(of, infos) = w[n]
  BY <1>1, FoldShown
<1> DEFINE Good == {k \in Nat : k <= n => ShownOf(w[k], of, d, k, infos)}
<1>3. 0 \in Good
  <2>1. w[0] = <<>>
    BY <1>2 DEF ShownSteps
  <2>2. IsSeq(<<>>) /\ DOMAIN <<>> = {}
    BY DEF IsSeq
  <2>3. 3 .. 0 = {}
    OBVIOUS
  <2>4. ShownOf(<<>>, of, d, 0, infos)
    BY <2>2, <2>3 DEF ShownOf, Once, Paths
  <2> QED
    BY <2>1, <2>4
<1>4. ASSUME NEW k \in Nat, k \in Good PROVE k + 1 \in Good
  <2> SUFFICES ASSUME k + 1 <= n PROVE ShownOf(w[k + 1], of, d, k + 1, infos)
    OBVIOUS
  <2> DEFINE j == k + 1
             fi == infos[j]
             s == [of |-> of, info |-> fi]
             t == w[k]
  <2>1. j \in 1 .. n /\ j - 1 = k /\ k <= n /\ j \in Nat
    BY <1>1
  <2>2. ShownOf(t, of, d, k, infos)
    BY <1>4, <2>1
  <2> HIDE DEF j
  <2>3. w[j] = Told(t, of, fi)
    BY <1>2, <2>1 DEF ShownSteps
  <2>4. CASE ~(j > 2)
    <3>1. fi.name \in {".", ".."}
      BY <2>1, <2>4, DotsFirst
    <3>2. w[j] = t
      BY <2>3, <3>1, Zenon DEF Told
    <3>3. 3 .. j = {} /\ 3 .. k = {}
      BY <2>1, <2>4
    <3>4. ShownOf(t, of, d, j, infos)
      BY <2>2, <3>3 DEF ShownOf
    <3> QED
      BY <3>2, <3>4 DEF j
  <2>5. CASE j > 2
    <3> DEFINE p == Append(d, fi.name)
    <3>1. /\ fi.name \notin {".", ".."} /\ W!At(p) = fi /\ PathOf(fi) = p /\ p \in W!Below(d)
      BY <2>1, <2>5, DotsFirst
    <3>2. w[j] = Append(t, s)
      BY <2>3, <3>1, Zenon DEF Told
    <3>3. ASSUME NEW i \in 3 .. k PROVE PathOf(infos[i]) # p
      <4>1. i \in 1 .. n /\ i > 2 /\ i # j
        BY <1>1, <2>1, <3>3
      <4> DEFINE e == W!At(d).extent
                 y == infos[i].name
                 x == fi.name
      <4>2. PathOf(infos[i]) = Append(d, y) /\ y \in Proper /\ x \in Proper
        BY <2>1, <2>5, <4>1, DotsFirst
      <4>3. x # y
        <5>1. e \in DOMAIN Listed
          BY AllPlaced DEF Placed, DirAt
        <5>2. i \in DOMAIN Listed[e] /\ infos[i] = Listed[e][i] /\ j \in DOMAIN Listed[e] /\ fi = Listed[e][j]
          BY <2>1, <4>1 DEF FirstOfDir
        <5> QED
          BY <4>1, <5>1, <5>2, InfoFacts
      <4> HIDE DEF x, y
      <4>4. Append(d, x)[Len(d) + 1] = x /\ Append(d, y)[Len(d) + 1] = y
        BY <4>2, PathSteps
      <4> QED
        BY <4>2, <4>3, <4>4 DEF x
    <3>4. PathOf(s.info) = p /\ s.info = fi /\ s.of = of /\ s = [of |-> of, info |-> s.info]
      BY <3>1
    <3> HIDE DEF s, fi, p
    <3>5. p \notin Paths(t)
      BY <2>2, <3>3 DEF ShownOf
    <3>6. /\ IsSeq(w[j]) /\ Once(w[j]) /\ Paths(w[j]) = Paths(t) \cup {p}
          /\ \A i \in DOMAIN w[j] : w[j][i] = s \/ \E g \in DOMAIN t : w[j][i] = t[g]
      BY <2>2, <3>2, <3>4, <3>5, OnceAppend DEF ShownOf
    <3>7. ASSUME NEW i \in DOMAIN w[j]
          PROVE  /\ w[j][i].of = of /\ w[j][i].info = W!At(PathAt(w[j], i))
                 /\ w[j][i] = [of |-> of, info |-> w[j][i].info]
                 /\ PathAt(w[j], i) \in W!Below(d)
      <4>1. CASE w[j][i] = s
        BY <3>1, <3>4, <4>1 DEF PathAt
      <4>2. CASE \E g \in DOMAIN t : w[j][i] = t[g]
        BY <2>2, <4>2 DEF ShownOf, PathAt
      <4> QED
        BY <3>6, <4>1, <4>2
    <3>8. {PathOf(infos[i]) : i \in 3 .. j} = {PathOf(infos[i]) : i \in 3 .. k} \cup {p}
      <4>1. 3 .. j = (3 .. k) \cup {j}
        BY <2>1, <2>5
      <4> QED
        BY <3>1, <4>1 DEF fi
    <3>9. Paths(w[j]) = {PathOf(infos[i]) : i \in 3 .. j}
      BY <2>2, <3>6, <3>8 DEF ShownOf
    <3> QED
      BY <3>6, <3>7, <3>9 DEF ShownOf, j
  <2> QED
    BY <2>4, <2>5
<1> HIDE DEF Good
<1>5. n \in Good
  BY <1>1, <1>3, <1>4, Numbers
<1> QED
  BY <1>1, <1>2, <1>5 DEF Good

\* A directory that is read to its end has shown all that is in it.
LEMMA AllShown ==
    ASSUME NEW d \in Seq(Proper), W!At(d).dir
    PROVE  LET infos == Listed[W!At(d).extent]
           IN W!Below(d) = {PathOf(infos[j]) : j \in 3 .. Len(infos)}
<1> DEFINE infos == Listed[W!At(d).extent]
           n == Len(infos)
<1>1. FirstOfDir(infos, n, d) /\ n \in Nat
  BY FirstTaken
<1>2. ASSUME NEW j \in 3 .. n PROVE PathOf(infos[j]) \in W!Below(d)
  <2>1. j \in 1 .. n /\ j > 2
    BY <1>1
  <2> HIDE DEF infos, n
  <2>2. /\ PathOf(infos[j]) = Append(d, infos[j].name)
        /\ Append(d, infos[j].name) \in W!Below(d)
    BY <1>1, <2>1, DotsFirst
  <2> QED
    BY <2>2, Zenon
<1>3. ASSUME NEW r \in W!Below(d) PROVE \E j \in 3 .. n : r = PathOf(infos[j])
  <2>1. r \in Seq(Proper) /\ r # <<>> /\ W!DirName(r) = d /\ IsThere(r)
    BY BelowIs
  <2> DEFINE x == r[Len(r)]
  <2>2. x \in Proper /\ r = Append(d, x)
    BY <2>1, PathSteps
  <2> HIDE DEF x
  <2>3. PICK j \in DOMAIN infos : j > 2 /\ W!At(r) = infos[j]
    BY <2>1, <2>2, RecordAt
  <2>4. j \in 3 .. n
    <3>1. j \in 1 .. n
      BY <1>1 DEF FirstOfDir
    <3> QED
      BY <2>3, <3>1
  <2>5. PathOf(infos[j]) = r
    <3>1. W!Same(infos[j], W!At(r))
      BY <2>3, SameOrder
    <3> QED
      BY <2>1, <3>1, PathIs
  <2> QED
    BY <2>4, <2>5
<1> QED
  BY <1>2, <1>3

\* What has been shown (S) and what has still to be read (U) of a tree: a file
\* is shown when its directory is read.
Cover(top, S, U) ==
    /\ S \subseteq Under(top)
    /\ U \subseteq S \cup {top} /\ \A d \in U : W!At(d).dir
    /\ \A p \in S : (W!DirName(p) = top \/ W!DirName(p) \in S) /\ W!DirName(p) \notin U

\* Unless something failed a file is shown or has something above it that is
\* still to be read.
Due(top, S, U) ==
    \A p \in Under(top) : \/ p \in S
                          \/ W!DirName(p) \in U
                          \/ W!DirName(p) # top /\ W!DirName(p) \notin S

\* At first nothing is shown, and the directory at the path is to be read.
LEMMA CoverStart ==
    ASSUME NEW top, W!At(top).dir
    PROVE  Cover(top, {}, {top}) /\ Due(top, {}, {top})
  BY DEF Cover, Due

\* A directory is read, to its end or not.
LEMMA CoverRead ==
    ASSUME NEW top \in Seq(Proper), NEW S, NEW U, Cover(top, S, U),
           NEW d \in U, NEW T \in SUBSET W!Below(d), NEW V, \A p : p \in V <=> p \in T /\ W!At(p).dir
    PROVE  T \cap S = {} /\ T \subseteq Under(top) /\ Cover(top, S \cup T, (U \ {d}) \cup V)
<1> DEFINE U2 == (U \ {d}) \cup V
           S2 == S \cup T
<1>1. d \in Seq(Proper) /\ (d = top \/ d \in Under(top)) /\ W!At(d).dir
  BY UnderFacts DEF Cover
<1>2. ASSUME NEW p \in T
      PROVE  /\ p \in Under(top) /\ W!DirName(p) = d /\ p # top /\ p \in Seq(Proper)
             /\ p \notin S /\ p \notin U /\ p # d
  <2>1. p \in Seq(Proper) /\ p # <<>> /\ W!DirName(p) = d /\ IsThere(p)
    BY <1>1, BelowIs
  <2> DEFINE x == p[Len(p)]
  <2>2. x \in Proper /\ p = Append(d, x)
    BY <2>1, PathSteps
  <2> HIDE DEF x
  <2>3. p \in Under(top)
    BY <1>1, <2>1, <2>2, UnderNext
  <2>4. p # top /\ p # d
    BY <2>1, <2>3, UnderFacts
  <2>5. p \notin S
    BY <2>1 DEF Cover
  <2>6. p \notin U
    BY <2>4, <2>5 DEF Cover
  <2> QED
    BY <2>1, <2>3, <2>4, <2>5, <2>6
<1>3. S2 \subseteq Under(top)
  BY <1>2 DEF Cover
<1>4. U2 \subseteq S2 \cup {top} /\ \A c \in U2 : W!At(c).dir
  BY DEF Cover
<1>5. ASSUME NEW p \in S2
      PROVE  (W!DirName(p) = top \/ W!DirName(p) \in S2) /\ W!DirName(p) \notin U2
  <2>1. CASE p \in S
    <3>1. (W!DirName(p) = top \/ W!DirName(p) \in S) /\ W!DirName(p) \notin U
      BY <2>1 DEF Cover
    <3>2. W!DirName(p) \notin V
      BY <1>2, <3>1
    <3> QED
      BY <3>1, <3>2
  <2>2. CASE p \in T
    <3>1. W!DirName(p) = d /\ d \notin V
      BY <1>2, <2>2
    <3>2. d = top \/ d \in S
      BY DEF Cover
    <3> QED
      BY <3>1, <3>2
  <2> QED
    BY <2>1, <2>2
<1>6. Cover(top, S2, U2)
  BY <1>3, <1>4, <1>5 DEF Cover
<1> QED
  BY <1>1, <1>2, <1>6

\* A directory that is read to its end owes nothing.
LEMMA DueRead ==
    ASSUME NEW top \in Seq(Proper), NEW S, NEW U, Cover(top, S, U), Due(top, S, U),
           NEW d \in U, NEW T, T = W!Below(d), NEW V, \A p : p \in V <=> p \in T /\ W!At(p).dir
    PROVE  Due(top, S \cup T, (U \ {d}) \cup V)
<1> DEFINE U2 == (U \ {d}) \cup V
           S2 == S \cup T
<1>1. d \in Seq(Proper)
  BY UnderFacts DEF Cover
<1>2. ASSUME NEW p \in Under(top)
      PROVE  \/ p \in S2
             \/ W!DirName(p) \in U2
             \/ W!DirName(p) # top /\ W!DirName(p) \notin S2
  <2> DEFINE c == W!DirName(p)
  <2>1. p \in S \/ c \in U \/ (c # top /\ c \notin S)
    BY DEF Due
  <2>2. p \in Seq(Proper) /\ p # <<>> /\ IsThere(p) /\ W!At(c).dir
    BY UnderFacts
  <2>3. CASE c = d
    <3>1. p \in W!Below(d)
      BY <1>1, <2>2, <2>3, BelowIs
    <3> QED
      BY <3>1
  <2>4. CASE c \in T
    BY <2>2, <2>4
  <2>5. CASE c # d /\ c \notin T
    BY <2>1, <2>5
  <2> QED
    BY <2>3, <2>4, <2>5
<1> QED
  BY <1>2 DEF Due

\* When nothing is left to be read, all is shown.
LEMMA CoverAll ==
    ASSUME NEW top \in Seq(Proper), NEW S, Cover(top, S, {}), Due(top, S, {})
    PROVE  S = Under(top)
<1> DEFINE left == {p \in Under(top) : p \notin S}
<1> SUFFICES ASSUME left # {} PROVE FALSE
  BY DEF Cover
<1>1. \A p \in Under(top) : p \in Seq(Proper) /\ Len(p) \in Nat
  BY UnderFacts
<1>2. PICK m \in {Len(p) : p \in left} : \A b \in {Len(p) : p \in left} : m <= b
  <2>1. {Len(p) : p \in left} \in SUBSET Nat /\ {Len(p) : p \in left} # {}
    BY <1>1
  <2> HIDE DEF left
  <2> QED
    BY <2>1, Least
<1>3. PICK p \in left : Len(p) = m
  BY <1>2
<1> DEFINE c == W!DirName(p)
<1>4. p \in Under(top) /\ p \notin S
  OBVIOUS
<1>5. c # top /\ c \notin S
  BY <1>4 DEF Due
<1>6. c \in Under(top)
  BY <1>4, <1>5, UnderFacts
<1>7. Len(c) = Len(p) - 1 /\ Len(p) \in Nat
  BY <1>4, UnderFacts, PathSteps
<1>8. c \in left
  BY <1>5, <1>6
<1>9. m <= Len(c)
  BY <1>2, <1>8
<1> QED
  BY <1>3, <1>7, <1>9

\* What is below a directory that shares an array is in shared arrays too.
LEMMA SharesDown ==
    ASSUME NEW top \in Seq(Proper), NEW d \in Seq(Proper), NEW x \in Proper, W!Shares(top, d)
    PROVE  W!Shares(top, Append(d, x))
<1> DEFINE p == Append(d, x)
<1>1. PICK n \in Len(top) + 1 .. Len(d) :
         /\ n >= 4
         /\ \E r \in W!Below(SubSeq(d, 1, n - 1)) : r # SubSeq(d, 1, n) /\ W!At(r).dir
  BY DEF W!Shares
<1>2. Len(top) \in Nat /\ Len(d) \in Nat /\ Len(p) = Len(d) + 1
  BY OneDown
<1>3. n \in Nat /\ n <= Len(d) /\ n >= 1
  BY <1>1, <1>2
<1>4. SubSeq(p, 1, n - 1) = SubSeq(d, 1, n - 1) /\ SubSeq(p, 1, n) = SubSeq(d, 1, n)
  BY <1>3
<1> HIDE DEF p
<1>5. n \in Len(top) + 1 .. Len(p)
  BY <1>1, <1>2
<1> QED
  BY <1>1, <1>4, <1>5 DEF W!Shares, p

\* Two directories side by side.
LEMMA SharesBeside ==
    ASSUME NEW top \in Seq(Proper), NEW d \in Seq(Proper), Len(d) >= Len(top), Len(d) >= 3,
           NEW x \in Proper, NEW y \in Proper, x # y, W!At(Append(d, y)).dir
    PROVE  W!Shares(top, Append(d, x))
<1> DEFINE p == Append(d, x)
           r == Append(d, y)
           n == Len(d) + 1
<1>1. /\ p \in Seq(Proper) /\ Len(p) = n /\ r \in Seq(Proper) /\ r # <<>> /\ W!DirName(r) = d
      /\ p[n] = x /\ r[n] = y
      /\ Len(top) \in Nat /\ Len(d) \in Nat
  BY OneDown
<1>2. SubSeq(p, 1, n - 1) = d /\ SubSeq(p, 1, n) = p
  <2>1. n - 1 = Len(d)
    BY <1>1
  <2>2. SubSeq(p, 1, Len(d)) = d
    OBVIOUS
  <2>3. SubSeq(p, 1, Len(p)) = p
    <3> HIDE DEF p
    <3> QED
      BY <1>1
  <2> QED
    BY <1>1, <2>1, <2>2, <2>3
<1> HIDE DEF p, r, n
<1>3. IsThere(r) /\ W!At(r).dir
  BY NoInfoFields DEF IsThere, r
<1>4. r \in W!Below(d) /\ r # p
  BY <1>1, <1>3, BelowIs
<1>5. n \in Len(top) + 1 .. Len(p) /\ n >= 4
  BY <1>1 DEF n
<1>6. \E t \in W!Below(SubSeq(p, 1, n - 1)) : t # SubSeq(p, 1, n) /\ W!At(t).dir
  BY <1>2, <1>3, <1>4
<1>7. W!Shares(top, p)
  BY <1>5, <1>6 DEF W!Shares
<1> QED
  BY <1>7 DEF p

\* An entry shows what is at its path, in the directory that it is in.
Telling(top, s) ==
    \A i \in DOMAIN s :
        LET p == PathAt(s, i)
        IN /\ p \in Seq(Proper) /\ W!Same(s[i].info, W!At(p))
           /\ p # top => /\ p \in Under(top) /\ s[i].info = W!At(p)
                         /\ s[i] = [of |-> s[i].of, info |-> s[i].info]
                         /\ s[i].of = W!DirName(p) \/ W!Shares(top, W!DirName(p))

\* What ListedOnce says, path by path.
Outcome(top) ==
    /\ IsSeq(out) /\ Once(out) /\ Telling(top, out)
    /\ pc = "exit" /\ faults = 0 => Under(top) \subseteq Paths(out)

\* Path by path is what the property says, file by file.
LEMMA OutcomeListed ==
    ASSUME W!At(W!Clean(cmd.path)).dir, W!Clean(cmd.path) \in Seq(Proper), Outcome(W!Clean(cmd.path))
    PROVE  W!ListedOnce
<1> DEFINE top == W!Clean(cmd.path)
           Entry(p) == [of |-> W!DirName(p), info |-> W!At(p)]
           there == {Entry(p) : p \in W!Tree(top, W!Cardinality(DOMAIN Listed))}
           told == {i \in DOMAIN out : ~W!Same(out[i].info, W!At(top))}
<1>0. top \in Seq(Proper) /\ Outcome(top) /\ IsThere(top)
  BY NoInfoFields DEF IsThere
<1> HIDE DEF top
<1>1. there = {Entry(p) : p \in Under(top)}
  BY <1>0, DirsCounted, TreeIs
<1>2. ASSUME NEW i \in DOMAIN out PROVE i \in told <=> PathAt(out, i) # top
  <2> DEFINE p == PathAt(out, i)
  <2>1. W!Same(out[i].info, W!At(p))
    BY <1>0 DEF Outcome, Telling
  <2>2. W!Same(out[i].info, W!At(top)) => p = top
    BY <1>0, PathIs DEF PathAt
  <2> QED
    BY <2>1, <2>2
<1>3. ASSUME NEW i \in told
      PROVE  LET p == PathAt(out, i)
             IN /\ p \in Under(top) /\ out[i].info = W!At(p) /\ out[i].info = Entry(p).info
                /\ out[i] = [of |-> out[i].of, info |-> out[i].info]
                /\ out[i].of = W!DirName(p) \/ W!Shares(top, W!DirName(p))
  BY <1>0, <1>2 DEF Outcome, Telling
<1>4. ASSUME NEW i \in told, NEW j \in told, out[i].info = out[j].info PROVE i = j
  BY <1>0, <1>4 DEF Outcome, Once, PathAt
<1>5. {out[i].info : i \in told} \subseteq {s.info : s \in there}
  <2> SUFFICES ASSUME NEW i \in told PROVE \E s \in there : out[i].info = s.info
    OBVIOUS
  <2>1. Entry(PathAt(out, i)) \in there
    BY <1>1, <1>3
  <2> QED
    BY <1>3, <2>1
<1>6. ASSUME NEW p \in Under(top), NEW r \in Under(top), Entry(p) = Entry(r) PROVE p = r
  <2>1. W!At(p) = W!At(r)
    BY <1>6
  <2> QED
    BY <2>1, <1>0, UnderFacts, SameOrder, OnePath
<1>7. ASSUME pc = "exit", faults = 0, NEW p \in Under(top)
      PROVE  \E i \in told : PathAt(out, i) = p
  <2>1. PICK i \in DOMAIN out : PathAt(out, i) = p
    BY <1>0, <1>7 DEF Outcome, Paths
  <2>2. p # top
    BY <1>0, UnderFacts
  <2> QED
    BY <1>2, <2>1, <2>2
<1>8. ASSUME pc = "exit", faults = 0 PROVE W!Cardinality(told) = W!Cardinality(there)
  <2> DEFINE f == [i \in told |-> Entry(PathAt(out, i))]
  <2> HIDE DEF Entry, told
  <2>1. f \in [told -> there]
    BY <1>1, <1>3
  <2>2. ASSUME NEW i \in told, NEW j \in told, f[i] = f[j] PROVE i = j
    <3>1. PathAt(out, i) = PathAt(out, j)
      BY <1>3, <1>6, <2>2
    <3>2. i \in DOMAIN out /\ j \in DOMAIN out
      BY DEF told
    <3> QED
      BY <1>0, <3>1, <3>2 DEF Outcome, Once
  <2>3. ASSUME NEW s \in there PROVE \E i \in told : f[i] = s
    <3>1. PICK p \in Under(top) : s = Entry(p)
      BY <1>1
    <3> QED
      BY <1>7, <1>8, <3>1
  <2>4. IsFiniteSet(told)
    <3>1. Len(out) \in Nat /\ DOMAIN out = 1 .. Len(out)
      BY <1>0, Joins DEF Outcome
    <3>2. IsFiniteSet(1 .. Len(out))
      BY <3>1, FS_Interval
    <3>3. told \subseteq 1 .. Len(out)
      BY <3>1 DEF told
    <3> QED
      BY <3>2, <3>3, FS_Subset
  <2> HIDE DEF there, f
  <2>5. f \in Surjection(told, there)
    BY <2>1, <2>3 DEF Surjection
  <2>6. f \in Injection(told, there)
    BY <2>1, <2>2 DEF Injection, IsInjective
  <2>7. Cardinality(told) = Cardinality(there)
    BY <2>4, <2>5, <2>6, FS_Surjection
  <2>8. W!Cardinality(told) = Cardinality(told) /\ W!Cardinality(there) = Cardinality(there)
    BY DEF W!Cardinality, Cardinality
  <2> QED
    BY <2>7, <2>8
<1>9. ASSUME pc = "exit", faults = 0, NEW s \in there
      PROVE  W!Shares(top, s.of) \/ \E i \in told : out[i] = s
  <2>1. PICK p \in Under(top) : s = Entry(p)
    BY <1>1
  <2>2. PICK i \in told : PathAt(out, i) = p
    BY <1>7, <1>9
  <2>3. s.of = W!DirName(p) /\ s.info = W!At(p) /\ s = [of |-> W!DirName(p), info |-> W!At(p)]
    BY <2>1
  <2>4. /\ out[i].info = W!At(p) /\ out[i] = [of |-> out[i].of, info |-> out[i].info]
        /\ out[i].of = W!DirName(p) \/ W!Shares(top, W!DirName(p))
    BY <1>3, <2>2
  <2>5. CASE out[i].of = W!DirName(p)
    BY <2>3, <2>4, <2>5
  <2> QED
    BY <2>3, <2>4, <2>5
<1> HIDE DEF told, there
<1> QED
  BY <1>4, <1>5, <1>8, <1>9 DEF W!ListedOnce, top, told, there

----------------------------------------------------------------------------
(* tree: what it has printed (out) and what it has still to print (q) *)

Top == W!Clean(cmd.path)

\* The directory that is asked for, from the beginning of its lookup.
Wanted == pc \in {"search", "scan", "found", "failed"}
Now    == IF api = "none" THEN {Top} ELSE IF Wanted THEN {asked} ELSE {}

Met(s, t)    == Paths(s) \cup Paths(t)
DirsIn(s)    == {p \in Paths(s) : W!At(p).dir}
Unread       == DirsIn(q) \cup Now

\* Entries show files below the command's path, in the directories they are in.
Entries(s) == \A i \in DOMAIN s :
                 LET p == PathAt(s, i)
                 IN p \in Under(Top) /\ s[i] = [of |-> W!DirName(p), info |-> W!At(p)]

TreeTrue ==
    /\ api \in {"none", "ReadDir"} /\ hops = 0
    /\ api = "none" => pc = "cmd" /\ out = <<>> /\ q = <<>>
    /\ pc = "cmd" \/ Wanted \/ pc = "exit"
    /\ IsSeq(out) /\ Once(out) /\ Entries(out)
    /\ IsSeq(q) /\ Once(q) /\ Entries(q) /\ Paths(out) \cap Paths(q) = {}
    /\ Wanted => asked = Top \/ asked \in Paths(out)
    /\ Cover(Top, Met(out, q), Unread)
    /\ faults = 0 => Due(Top, Met(out, q), Unread)
    /\ pc = "failed" => faults # 0
    /\ pc = "exit" => q = <<>> \/ faults # 0

\* Nothing is printed.
LEMMA NoEntry == IsSeq(<<>>) /\ Once(<<>>) /\ Paths(<<>>) = {} /\ Entries(<<>>) /\ DirsIn(<<>>) = {}
<1>1. DOMAIN <<>> = {}
  OBVIOUS
<1>2. IsSeq(<<>>)
  BY DEF IsSeq
<1> QED
  BY <1>1, <1>2 DEF Once, Paths, Entries, DirsIn

LEMMA TreeInit ==
    ASSUME W!Init, W!At(Top).dir
    PROVE  TreeTrue
<1>1. api = "none" /\ pc = "cmd" /\ out = <<>> /\ q = <<>> /\ hops = 0
  BY DEF W!Init
<1>2. Now = {Top} /\ ~Wanted
  BY <1>1 DEF Now, Wanted
<1>3. Met(out, q) = {} /\ Unread = {Top}
  BY <1>1, <1>2, NoEntry DEF Met, Unread
<1>4. Cover(Top, Met(out, q), Unread) /\ Due(Top, Met(out, q), Unread)
  BY <1>3, CoverStart
<1> QED
  BY <1>1, <1>2, <1>4, NoEntry DEF TreeTrue

\* A step of a lookup, or of none.
LEMMA TreeLooks ==
    ASSUME TreeTrue, WalkTrue', faults \in Nat, UNCHANGED <<cmd, api, asked, out, q, hops>>,
           \/ pc' = pc /\ pc # "failed"
           \/ Wanted /\ Wanted',
           faults' = faults \/ faults' = faults + 1
    PROVE  TreeTrue'
<1>1. Top' = Top /\ Met(out, q)' = Met(out, q) /\ Wanted' = Wanted
  BY DEF Top, Met, Wanted
<1>2. Now' = Now
  BY <1>1 DEF Now
<1>3. Unread' = Unread
  BY <1>2 DEF Unread
<1>4. faults' = 0 => faults = 0
  BY DEF TreeTrue
<1>5. ASSUME pc' = "failed" PROVE faults' # 0
  <2>1. Wanted /\ asked' = asked /\ api = "ReadDir" /\ hops' = 0
    BY <1>1, <1>5 DEF Wanted, TreeTrue
  <2>2. W!At(asked).dir
    <3>1. asked \in Unread
      BY <2>1 DEF Unread, Now
    <3> QED
      BY <3>1 DEF TreeTrue, Cover
  <2>3. FailedRight'
    BY DEF WalkTrue
  <2>4. hops' < W!SymlinkRecursionLimit
    BY <2>1 DEF W!SymlinkRecursionLimit
  <2> QED
    BY <1>5, <2>1, <2>2, <2>3, <2>4 DEF FailedRight
<1>6. Cover(Top, Met(out, q), Unread)' /\ (faults' = 0 => Due(Top, Met(out, q), Unread)')
  BY <1>1, <1>3, <1>4 DEF TreeTrue, Cover, Due
<1>7. Entries(out)' /\ Entries(q)' /\ IsSeq(out)' /\ IsSeq(q)' /\ Once(out)' /\ Once(q)' /\ (Paths(out) \cap Paths(q) = {})'
  BY <1>1 DEF TreeTrue, Entries, Once, Paths, PathAt
<1>8. pc' = "exit" => q' = <<>> \/ faults' # 0
  BY <1>4 DEF TreeTrue, Wanted
<1>9. /\ api' = "none" => pc' = "cmd" /\ out' = <<>> /\ q' = <<>>
      /\ pc' = "cmd" \/ Wanted' \/ pc' = "exit"
  BY DEF TreeTrue, Wanted
<1> QED
  BY <1>1, <1>5, <1>6, <1>7, <1>8, <1>9 DEF TreeTrue, Paths, PathAt

\* The command begins with its own path.
LEMMA TreeBegin ==
    ASSUME TreeTrue, cmd \in Commands, cmd.cmd = "tree", W!Begin
    PROVE  TreeTrue'
<1>1. /\ api = "none" /\ api' = "ReadDir" /\ asked' = Top /\ pc' = "search"
      /\ UNCHANGED <<cmd, hops, out, q, faults>>
  BY DEF W!Begin, W!Lookup, W!listVars, Top
<1>2. Top' = Top /\ Met(out, q)' = Met(out, q) /\ Wanted'
  BY <1>1 DEF Top, Met, Wanted
<1>3. Now' = Now
  BY <1>1, <1>2 DEF Now
<1>4. Unread' = Unread
  BY <1>1, <1>3 DEF Unread
<1>5. Cover(Top, Met(out, q), Unread)' /\ (faults' = 0 => Due(Top, Met(out, q), Unread)')
  BY <1>1, <1>2, <1>4 DEF TreeTrue, Cover, Due
<1>6. Entries(out)' /\ Entries(q)' /\ IsSeq(out)' /\ IsSeq(q)' /\ Once(out)' /\ Once(q)' /\ (Paths(out) \cap Paths(q) = {})'
  BY <1>1, <1>2 DEF TreeTrue, Entries, Once, Paths, PathAt
<1> QED
  BY <1>1, <1>2, <1>5, <1>6 DEF TreeTrue

\* The next entry is printed; a directory is asked for.
LEMMA TreePrint ==
    ASSUME TreeTrue, Top \in Seq(Proper), W!PrintTree
    PROVE  TreeTrue'
<1> DEFINE s == Head(q)
           p == PathOf(s.info)
<1>0. /\ pc = "cmd" /\ api = "ReadDir" /\ q # <<>> /\ out' = Append(out, s) /\ q' = Tail(q)
      /\ UNCHANGED <<cmd, hops, faults>>
  BY DEF W!PrintTree
<1>1. /\ IsSeq(q') /\ Once(q') /\ Paths(q) = {p} \cup Paths(q') /\ p \notin Paths(q')
      /\ \E i \in DOMAIN q : s = q[i]
      /\ \A i \in DOMAIN q' : \E j \in DOMAIN q : q'[i] = q[j]
  BY <1>0, OnceTail DEF TreeTrue
<1>2. p \notin Paths(out)
  BY <1>1 DEF TreeTrue
<1>3. /\ IsSeq(out') /\ Once(out') /\ Paths(out') = Paths(out) \cup {p}
      /\ \A i \in DOMAIN out' : out'[i] = s \/ \E j \in DOMAIN out : out'[i] = out[j]
  BY <1>0, <1>2, OnceAppend DEF TreeTrue
<1>4. p \in Under(Top) /\ s = [of |-> W!DirName(p), info |-> W!At(p)]
  BY <1>1 DEF TreeTrue, Entries, PathAt
<1>5. Top' = Top
  BY <1>0 DEF Top
<1> HIDE DEF s, p
<1>6. Entries(out') /\ Entries(q')
  <2>1. ASSUME NEW i \in DOMAIN out'
        PROVE  PathAt(out', i) \in Under(Top) /\ out'[i] = [of |-> W!DirName(PathAt(out', i)), info |-> W!At(PathAt(out', i))]
    <3>1. CASE out'[i] = s
      BY <1>4, <3>1 DEF PathAt, p
    <3>2. CASE \E j \in DOMAIN out : out'[i] = out[j]
      BY <3>2 DEF PathAt, TreeTrue, Entries
    <3> QED
      BY <1>3, <3>1, <3>2
  <2>2. ASSUME NEW i \in DOMAIN q'
        PROVE  PathAt(q', i) \in Under(Top) /\ q'[i] = [of |-> W!DirName(PathAt(q', i)), info |-> W!At(PathAt(q', i))]
    BY <1>1 DEF PathAt, TreeTrue, Entries
  <2> QED
    BY <2>1, <2>2 DEF Entries
<1>7. Paths(out') \cap Paths(q') = {} /\ Met(out', q') = Met(out, q)
  BY <1>1, <1>3 DEF TreeTrue, Met
<1>8. Now = {} /\ Unread = DirsIn(q)
  BY <1>0 DEF Now, Wanted, Unread
<1>9. DirsIn(q) = DirsIn(q') \cup (IF W!At(p).dir THEN {p} ELSE {})
  BY <1>1 DEF DirsIn
<1>10. CASE s.info.dir
  <2>1. W!At(p).dir
    BY <1>4, <1>10
  <2>2. api' = "ReadDir" /\ asked' = W!Clean(Append(s.of, s.info.name)) /\ pc' = "search"
    BY <1>10 DEF W!PrintTree, W!Lookup, s
  <2>3. p \in Seq(Proper) /\ p # <<>> /\ IsThere(p)
    BY <1>4, UnderFacts
  <2> DEFINE d == W!DirName(p)
             x == p[Len(p)]
  <2>4. d \in Seq(Proper) /\ x \in Proper /\ p = Append(d, x)
    BY <2>3, PathSteps
  <2> HIDE DEF d, x
  <2>5. W!At(p).name = x
    <3>1. IsThere(Append(d, x))
      BY <2>3, <2>4
    <3>2. W!At(Append(d, x)).name = x
      BY <2>4, <3>1, RecordAt
    <3> QED
      BY <2>4, <3>2
  <2>6. s.of = d /\ s.info.name = x
    BY <1>4, <2>5 DEF d
  <2>7. asked' = p
    BY <2>2, <2>3, <2>4, <2>6, CleanSame
  <2>8. Unread' = Unread
    <3>1. Unread' = DirsIn(q') \cup {p}
      BY <2>2, <2>7 DEF Unread, Now, Wanted, DirsIn, Paths, PathAt
    <3> QED
      BY <1>8, <1>9, <2>1, <3>1
  <2>9. Cover(Top, Met(out, q), Unread)' /\ (faults' = 0 => Due(Top, Met(out, q), Unread)')
    <3>1. Met(out, q)' = Met(out', q')
      BY DEF Met, Paths, PathAt
    <3> QED
      BY <1>0, <1>5, <1>7, <2>8, <3>1 DEF TreeTrue, Cover, Due
  <2>10. Wanted' /\ pc' = "search"
    BY <2>2 DEF Wanted
  <2>11. asked' \in Paths(out)'
    BY <1>3, <2>7 DEF Paths, PathAt
  <2> QED
    BY <1>0, <1>1, <1>3, <1>5, <1>6, <1>7, <2>2, <2>9, <2>10, <2>11 DEF TreeTrue, Entries, Once, Paths, PathAt
<1>11. CASE ~s.info.dir
  <2>1. UNCHANGED <<api, asked, pc>>
    BY <1>11 DEF W!PrintTree, s
  <2>2. ~W!At(p).dir
    BY <1>4, <1>11
  <2>3. Unread' = Unread /\ ~Wanted'
    BY <1>0, <1>8, <1>9, <2>1, <2>2 DEF Unread, Now, Wanted, DirsIn, Paths, PathAt
  <2>4. Cover(Top, Met(out, q), Unread)' /\ (faults' = 0 => Due(Top, Met(out, q), Unread)')
    <3>1. Met(out, q)' = Met(out', q')
      BY DEF Met, Paths, PathAt
    <3> QED
      BY <1>0, <1>5, <1>7, <2>3, <3>1 DEF TreeTrue, Cover, Due
  <2> QED
    BY <1>0, <1>1, <1>3, <1>5, <1>6, <1>7, <2>1, <2>3, <2>4 DEF TreeTrue, Entries, Once, Paths, PathAt
<1> QED
  BY <1>10, <1>11

\* The directory that was asked for is read: what is in it is printed next.
LEMMA TreeRead ==
    ASSUME TreeTrue, WalkTrue, Top \in Seq(Proper), cmd.cmd = "tree", W!ReadDir
    PROVE  TreeTrue'
<1> DEFINE infos == Listed[partInfo.extent]
           n == Len(infos)
           s == W!Shown(asked, infos)
           S == Met(out, q)
           T == Paths(s)
<1>0. /\ pc = "found" /\ api = "ReadDir" /\ partInfo.dir /\ q' = s \o q /\ pc' = "cmd"
      /\ UNCHANGED <<cmd, api, asked, hops, out, faults>>
  BY DEF W!ReadDir, W!lookupVars
<1>1. asked \in Seq(Proper) /\ W!At(asked).dir /\ partInfo.extent = W!At(asked).extent
  BY <1>0, FoundFields DEF WalkTrue
<1>2. FirstOfDir(infos, n, asked)
  BY <1>1, FirstTaken
<1>3. ShownOf(s, asked, asked, n, infos)
  BY <1>1, <1>2, Listing
<1>4. T = W!Below(asked)
  <2>1. T = {PathOf(infos[j]) : j \in 3 .. n}
    BY <1>3 DEF ShownOf
  <2>2. W!Below(asked) = {PathOf(infos[j]) : j \in 3 .. n}
    BY <1>1, AllShown
  <2> QED
    BY <2>1, <2>2
<1>5. Now = {asked} /\ Unread = DirsIn(q) \cup {asked} /\ Wanted /\ asked \in Unread
  BY <1>0 DEF Now, Wanted, Unread
<1>6. asked \notin Paths(q)
  <2>1. \A p \in Paths(q) : p \in Under(Top)
    BY DEF TreeTrue, Entries, Paths
  <2>2. Top \notin Under(Top)
    BY UnderFacts
  <2> QED
    BY <1>5, <2>1, <2>2 DEF TreeTrue
<1> HIDE DEF infos, n, s, S, T
<1> DEFINE V == {p \in T : W!At(p).dir}
<1>7. /\ T \cap S = {} /\ Cover(Top, S \cup T, (Unread \ {asked}) \cup V) /\ T \subseteq Under(Top)
      /\ Due(Top, S, Unread) => Due(Top, S \cup T, (Unread \ {asked}) \cup V)
  <2>1. Cover(Top, S, Unread)
    BY DEF TreeTrue, S
  <2>2. T \in SUBSET W!Below(asked)
    BY <1>4
  <2>3. \A p : p \in V <=> p \in T /\ W!At(p).dir
    OBVIOUS
  <2>4. asked \in Unread
    BY <1>5
  <2> HIDE DEF V
  <2>5. T \cap S = {} /\ T \subseteq Under(Top) /\ Cover(Top, S \cup T, (Unread \ {asked}) \cup V)
    BY <2>1, <2>2, <2>3, <2>4, CoverRead
  <2>6. ASSUME Due(Top, S, Unread) PROVE Due(Top, S \cup T, (Unread \ {asked}) \cup V)
    BY <1>4, <2>1, <2>3, <2>4, <2>6, DueRead
  <2> QED
    BY <2>5, <2>6
<1>8. Top' = Top
  BY <1>0 DEF Top
<1>9. IsSeq(s) /\ Once(s) /\ Paths(s) \cap Paths(q) = {} /\ Paths(s) \cap Paths(out) = {}
  BY <1>3, <1>7 DEF ShownOf, S, T, Met
<1>10. /\ IsSeq(q') /\ Once(q') /\ Paths(q') = T \cup Paths(q)
       /\ \A i \in DOMAIN q' : \/ \E j \in DOMAIN s : q'[i] = s[j]
                               \/ \E j \in DOMAIN q : q'[i] = q[j]
  <2>1. IsSeq(q) /\ Once(q)
    BY DEF TreeTrue
  <2> DEFINE r == s \o q
  <2>2. /\ IsSeq(r) /\ Once(r) /\ Paths(r) = Paths(s) \cup Paths(q)
        /\ \A i \in DOMAIN r : \/ \E j \in DOMAIN s : r[i] = s[j]
                             \/ \E j \in DOMAIN q : r[i] = q[j]
    BY <1>9, <2>1, OnceJoins
  <2>3. q' = r
    BY <1>0
  <2> HIDE DEF r
  <2> QED
    BY <2>2, <2>3 DEF T
<1>11. Entries(q')
  <2>1. ASSUME NEW i \in DOMAIN q'
        PROVE  PathAt(q', i) \in Under(Top) /\ q'[i] = [of |-> W!DirName(PathAt(q', i)), info |-> W!At(PathAt(q', i))]
    <3>1. CASE \E j \in DOMAIN s : q'[i] = s[j]
      <4>1. PICK j \in DOMAIN s : q'[i] = s[j]
        BY <3>1
      <4>2. /\ s[j] = [of |-> asked, info |-> s[j].info] /\ s[j].info = W!At(PathAt(s, j))
            /\ PathAt(s, j) \in W!Below(asked)
        BY <1>3 DEF ShownOf
      <4>3. W!DirName(PathAt(s, j)) = asked
        BY <1>1, <4>2, BelowIs
      <4>4. PathAt(s, j) \in Under(Top)
        BY <1>4, <1>7, <4>2
      <4> QED
        BY <4>1, <4>2, <4>3, <4>4 DEF PathAt
    <3>2. CASE \E j \in DOMAIN q : q'[i] = q[j]
      BY <3>2 DEF PathAt, TreeTrue, Entries
    <3> QED
      BY <1>10, <3>1, <3>2
  <2> QED
    BY <2>1 DEF Entries
<1>12. ~Wanted' /\ Now' = {}
  BY <1>0 DEF Wanted, Now
<1>13. Unread' = (Unread \ {asked}) \cup V
  <2>1. Unread' = {p \in Paths(q') : W!At(p).dir}
    BY <1>12 DEF Unread, DirsIn, Paths, PathAt
  <2> QED
    BY <1>5, <1>6, <1>10, <2>1 DEF DirsIn
<1>14. Met(out, q)' = S \cup T
  <2>1. Met(out, q)' = Paths(out) \cup Paths(q')
    BY <1>0 DEF Met, Paths, PathAt
  <2> QED
    BY <1>10, <2>1 DEF S, Met
<1>15. Paths(out) \cap Paths(q') = {}
  BY <1>9, <1>10 DEF TreeTrue, T
<1>16. Cover(Top, Met(out, q), Unread)' /\ (faults' = 0 => Due(Top, Met(out, q), Unread)')
  BY <1>0, <1>7, <1>8, <1>13, <1>14 DEF TreeTrue, Cover, Due, S
<1>17. IsSeq(out)' /\ Once(out)' /\ Entries(out)' /\ hops' = 0 /\ api' = "ReadDir"
  BY <1>0, <1>8 DEF TreeTrue, Entries, Once, PathAt
<1>18. IsSeq(q)' /\ Once(q)' /\ Entries(q)' /\ (Paths(out) \cap Paths(q) = {})'
  <2>1. IsSeq(q)' <=> IsSeq(q')
    OBVIOUS
  <2>2. Once(q)' <=> Once(q')
    BY DEF Once, PathAt
  <2>3. Entries(q)' <=> Entries(q')
    BY <1>8 DEF Entries, PathAt
  <2>4. (Paths(out) \cap Paths(q))' = Paths(out) \cap Paths(q')
    BY <1>0 DEF Paths, PathAt
  <2> QED
    BY <1>10, <1>11, <1>15, <2>1, <2>2, <2>3, <2>4
<1> QED
  BY <1>0, <1>12, <1>16, <1>17, <1>18 DEF TreeTrue

\* The command ends.
LEMMA TreeEnds ==
    ASSUME TreeTrue, W!TreeEnd \/ W!Fatal
    PROVE  TreeTrue'
<1>0. /\ pc' = "exit" /\ UNCHANGED <<cmd, api, asked, out, q, hops, faults>>
      /\ \/ pc = "cmd" /\ api = "ReadDir" /\ q = <<>>
         \/ pc = "failed"
  BY DEF W!TreeEnd, W!Fatal, W!lookupVars, W!listVars
<1>1. api # "none" /\ (faults = 0 => q = <<>> /\ ~Wanted)
  BY <1>0 DEF TreeTrue, Wanted
<1>2. Top' = Top /\ Met(out, q)' = Met(out, q) /\ ~Wanted' /\ Now' = {}
  BY <1>0, <1>1 DEF Top, Met, Wanted, Now
<1>3. Unread' \subseteq Unread /\ (faults = 0 => Unread' = Unread)
  BY <1>0, <1>1, <1>2 DEF Unread, Now
<1>4. Cover(Top, Met(out, q), Unread)' /\ (faults' = 0 => Due(Top, Met(out, q), Unread)')
  BY <1>0, <1>2, <1>3 DEF TreeTrue, Cover, Due
<1>5. Entries(out)' /\ Entries(q)' /\ IsSeq(out)' /\ IsSeq(q)' /\ Once(out)' /\ Once(q)' /\ (Paths(out) \cap Paths(q) = {})'
  BY <1>0, <1>2 DEF TreeTrue, Entries, Once, Paths, PathAt
<1> QED
  BY <1>0, <1>1, <1>2, <1>4, <1>5 DEF TreeTrue

\* Every step of the Walker keeps what is known of tree.
LEMMA TreeStep ==
    ASSUME TreeTrue, WalkTrue, WalkTrue', cmd \in Commands, faults \in Nat, Top \in Seq(Proper),
           cmd.cmd = "tree", W!Next
    PROVE  TreeTrue'
<1>1. CASE W!Search \/ W!Scan \/ W!ScanErr \/ W!Evict
  <2>1. /\ UNCHANGED <<cmd, api, asked, out, q, hops>> /\ (faults' = faults \/ faults' = faults + 1)
        /\ \/ pc' = pc /\ pc # "failed"
           \/ Wanted /\ Wanted'
    BY <1>1 DEF W!Search, W!Scan, W!ScanErr, W!Evict, W!lookupVars, W!listVars, Wanted
  <2> QED
    BY <2>1, TreeLooks
<1>2. CASE W!ReadDirErr \/ W!ReadDirOfFile
  <2>1. /\ UNCHANGED <<cmd, api, asked, out, q, hops>> /\ (faults' = faults \/ faults' = faults + 1)
        /\ Wanted /\ Wanted'
    BY <1>2 DEF W!ReadDirErr, W!ReadDirOfFile, W!lookupVars, W!listVars, Wanted
  <2> QED
    BY <2>1, TreeLooks
<1>3. CASE W!Follow \/ W!Copy \/ W!WalkRoot \/ W!WalkNext \/ W!WalkErr \/ W!WalkEnd \/ W!LsFound
  <2>1. api \in {"Open", "Walk", "Lstat"} \/ pc = "walk"
    BY <1>3 DEF W!Follow, W!Copy, W!WalkRoot, W!WalkNext, W!WalkErr, W!WalkEnd, W!LsFound
  <2> QED
    BY <2>1 DEF TreeTrue, Wanted
<1> QED
  BY <1>1, <1>2, <1>3, TreeBegin, TreePrint, TreeRead, TreeEnds DEF W!Next

\* What tree has printed is what a listing should show.
LEMMA TreeOutcome ==
    ASSUME TreeTrue, Top \in Seq(Proper)
    PROVE  Outcome(Top)
<1>1. ASSUME NEW i \in DOMAIN out
      PROVE  LET p == PathAt(out, i)
             IN /\ p \in Seq(Proper) /\ W!Same(out[i].info, W!At(p))
                /\ p # Top => /\ p \in Under(Top) /\ out[i].info = W!At(p)
                              /\ out[i] = [of |-> out[i].of, info |-> out[i].info]
                              /\ out[i].of = W!DirName(p) \/ W!Shares(Top, W!DirName(p))
  <2> DEFINE p == PathAt(out, i)
             s == out[i]
  <2>1. p \in Under(Top) /\ s = [of |-> W!DirName(p), info |-> W!At(p)]
    BY DEF TreeTrue, Entries
  <2>2. p \in Seq(Proper)
    BY <2>1, UnderFacts
  <2> HIDE DEF p, s
  <2>3. s.of = W!DirName(p) /\ s.info = W!At(p) /\ W!Same(s.info, W!At(p))
    BY <2>1, SameOrder
  <2> QED
    BY <2>1, <2>2, <2>3 DEF p, s
<1>2. ASSUME pc = "exit", faults = 0 PROVE Under(Top) \subseteq Paths(out)
  <2>1. q = <<>> /\ ~Wanted /\ api # "none"
    BY <1>2 DEF TreeTrue, Wanted
  <2>2. Unread = {} /\ Met(out, q) = Paths(out)
    BY <2>1, NoEntry DEF Unread, Now, Met
  <2>3. Cover(Top, Paths(out), {}) /\ Due(Top, Paths(out), {})
    BY <1>2, <2>2 DEF TreeTrue
  <2> QED
    BY <2>3, CoverAll
<1> QED
  BY <1>1, <1>2 DEF Outcome, Telling, TreeTrue

----------------------------------------------------------------------------
(* Walk: the arrays behind the items' names *)

\* Two sequences that begin alike.
LEMMA SameFront ==
    ASSUME NEW u, NEW v, IsSeq(u), IsSeq(v), NEW n \in Nat, n <= Len(u), n <= Len(v),
           \A i \in 1 .. n : u[i] = v[i]
    PROVE  SubSeq(u, 1, n) = SubSeq(v, 1, n)
<1> DEFINE S == Elements(u) \cup Elements(v)
<1>1. u \in Seq(S) /\ v \in Seq(S)
  <2>1. u \in Seq(Elements(u)) /\ v \in Seq(Elements(v))
    BY DEF IsSeq, Elements
  <2>2. Elements(u) \subseteq S /\ Elements(v) \subseteq S
    OBVIOUS
  <2> HIDE DEF S
  <2> QED
    BY <2>1, <2>2, SeqMonotonic
<1> HIDE DEF S
<1> QED
  BY <1>1

LEMMA FrontNext ==
    ASSUME NEW u, IsSeq(u), NEW n \in Nat, n + 1 <= Len(u)
    PROVE  SubSeq(u, 1, n + 1) = Append(SubSeq(u, 1, n), u[n + 1])
<1> DEFINE S == Elements(u)
<1>1. u \in Seq(S)
  BY DEF IsSeq, Elements
<1> HIDE DEF S
<1> QED
  BY <1>1

LEMMA OfLength ==
    ASSUME NEW n \in Nat, NEW f, f = [i \in 1 .. n |-> f[i]]
    PROVE  IsSeq(f) /\ Len(f) = n /\ DOMAIN f = 1 .. n
<1> DEFINE S == Elements(f)
<1>1. DOMAIN f = 1 .. n
  OBVIOUS
<1>2. f \in [1 .. n -> S]
  BY DEF Elements
<1> HIDE DEF S
<1>3. f \in Seq(S) /\ Len(f) = n
  BY <1>2
<1> QED
  BY <1>1, <1>3 DEF IsSeq

\* An item's names with one more: in its array, while there is room, and else in
\* a new one.
LEMMA Named ==
    ASSUME NEW h, IsSeq(h), NEW it, it.arr \in DOMAIN h, IsSeq(h[it.arr]),
           it.len \in Nat, it.len <= Len(h[it.arr]), NEW name
    PROVE  LET a == W!AppendName(h, it, name)
               u == a.heap[a.arr]
           IN /\ IsSeq(a.heap) /\ DOMAIN h \subseteq DOMAIN a.heap /\ a.arr \in DOMAIN a.heap
              /\ \A b \in DOMAIN h : b # it.arr => a.heap[b] = h[b]
              /\ IsSeq(a.heap[it.arr]) /\ Len(a.heap[it.arr]) = Len(h[it.arr])
              /\ \A i \in 1 .. it.len : a.heap[it.arr][i] = h[it.arr][i]
              /\ IsSeq(u) /\ it.len + 1 <= Len(u) /\ u[it.len + 1] = name
              /\ \A i \in 1 .. it.len : u[i] = h[it.arr][i]
              /\ IF Len(h[it.arr]) > it.len THEN a.arr = it.arr
                 ELSE a.arr \notin DOMAIN h /\ (Len(u) > it.len + 1 => it.len >= 2)
<1> DEFINE a == W!AppendName(h, it, name)
           b == it.arr
           v == h[b]
           l == it.len
           m == Len(h)
<1>1. m \in Nat /\ DOMAIN h = 1 .. m /\ b \in 1 .. m /\ Len(v) \in Nat /\ DOMAIN v = 1 .. Len(v)
  <2>1. h \in Seq(Elements(h)) /\ v \in Seq(Elements(v))
    BY DEF IsSeq, Elements
  <2> QED
    BY <2>1
<1>2. CASE Len(v) > l
  <2> DEFINE u == [v EXCEPT ![l + 1] = name]
             g == [h EXCEPT ![b] = u]
  <2>1. a = [heap |-> g, arr |-> b]
    BY <1>2 DEF W!AppendName
  <2>2. u = [i \in 1 .. Len(v) |-> u[i]] /\ g = [i \in 1 .. m |-> g[i]]
    BY <1>1
  <2>3. g[b] = u /\ \A c \in 1 .. m : c # b => g[c] = h[c]
    BY <1>1
  <2>4. l + 1 \in 1 .. Len(v) /\ u[l + 1] = name /\ \A i \in 1 .. l : u[i] = v[i]
    <3>1. l + 1 \in 1 .. Len(v)
      BY <1>1, <1>2
    <3>2. l \in Nat /\ DOMAIN v = 1 .. Len(v) /\ \A i \in 1 .. l : i # l + 1 /\ i \in 1 .. Len(v)
      BY <1>1, <1>2
    <3> HIDE DEF l, v
    <3> QED
      BY <3>1, <3>2
  <2> HIDE DEF u, g
  <2>5. IsSeq(u) /\ Len(u) = Len(v) /\ IsSeq(g) /\ DOMAIN g = 1 .. m
    BY <1>1, <2>2, OfLength
  <2>6. a.heap = g /\ a.arr = b
    BY <2>1
  <2> HIDE DEF a, l, v, b, m
  <2>7. l + 1 <= Len(u)
    BY <1>1, <2>4, <2>5
  <2> QED
    BY <1>1, <1>2, <2>3, <2>4, <2>5, <2>6, <2>7 DEF a, l, v, b, m
<1>3. CASE ~(Len(v) > l)
  <2> DEFINE c == W!Max({1, 2 * l})
             u == [i \in 1 .. c |-> IF i <= l THEN v[i] ELSE IF i = l + 1 THEN name ELSE ""]
             g == Append(h, u)
  <2>1. a = [heap |-> g, arr |-> m + 1]
    BY <1>3 DEF W!AppendName
  <2>2. c \in Nat /\ c >= l + 1 /\ (c > l + 1 => l >= 2)
    <3> DEFINE T == {1, 2 * l}
    <3>1. T \in SUBSET (0 .. 2 * l + 1) /\ T # {} /\ 2 * l + 1 \in Nat
      OBVIOUS
    <3>2. c \in T /\ \A x \in T : x <= c
      <4> HIDE DEF T
      <4>1. W!Max(T) \in T /\ \A x \in T : x <= W!Max(T)
        BY <3>1, Upper
      <4> QED
        BY <4>1 DEF T
    <3>3. 1 <= c /\ 2 * l <= c /\ (c = 1 \/ c = 2 * l)
      BY <3>2
    <3> HIDE DEF c
    <3> QED
      BY <3>3
  <2>3. u = [i \in 1 .. c |-> u[i]]
    OBVIOUS
  <2>4. u[l + 1] = name /\ \A i \in 1 .. l : u[i] = v[i]
    <3>1. l + 1 \in 1 .. c /\ ~(l + 1 <= l) /\ \A i \in 1 .. l : i \in 1 .. c /\ i <= l
      <4> HIDE DEF c
      <4> QED
        BY <2>2
    <3> HIDE DEF c, l, v
    <3> QED
      BY <3>1
  <2> HIDE DEF c, u
  <2>5. IsSeq(u) /\ Len(u) = c
    BY <2>2, <2>3, OfLength
  <2>6. IsSeq(g) /\ DOMAIN g = 1 .. m + 1 /\ g[m + 1] = u /\ \A i \in 1 .. m : g[i] = h[i]
    BY AppendEnds
  <2> HIDE DEF g
  <2>7. a.heap = g /\ a.arr = m + 1
    BY <2>1
  <2>8. m + 1 \notin 1 .. m /\ 1 .. m \subseteq 1 .. m + 1 /\ m + 1 \in 1 .. m + 1
    BY <1>1
  <2> HIDE DEF a, l, v, b, m
  <2> QED
    BY <1>1, <1>3, <2>2, <2>4, <2>5, <2>6, <2>7, <2>8 DEF a, l, v, b, m
<1> QED
  BY <1>2, <1>3

----------------------------------------------------------------------------
(* Walk: its queue *)

\* The directory of an item, and those of a queue, where each is once.
Way(it)  == PathOf(it.fi)
Ways(s)  == {Way(s[i]) : i \in DOMAIN s}
Apart(s) == \A i, j \in DOMAIN s : Way(s[i]) = Way(s[j]) => i = j

\* An item has its directory's names, unless they share their array: an array
\* has room for more only when it was made for two names and more.
Sound(top, h, it) ==
    /\ Way(it) \in Seq(Proper) /\ IsThere(Way(it))
    /\ W!Same(it.fi, W!At(Way(it))) /\ W!At(Way(it)).dir
    /\ Way(it) = top \/ Way(it) \in Under(top)
    /\ it.len = Len(Way(it))
    /\ it.arr \in DOMAIN h /\ IsSeq(h[it.arr]) /\ it.len <= Len(h[it.arr])
    /\ Len(h[it.arr]) > it.len => it.len >= 3
    /\ W!Shares(top, Way(it)) \/ W!ItemPath(h, it) = Way(it)

Queued(top, h, s) ==
    /\ IsSeq(h) /\ IsSeq(s) /\ Apart(s)
    /\ \A i \in DOMAIN s : Sound(top, h, s[i])
    /\ \A i, j \in DOMAIN s :
          s[i].arr = s[j].arr => i = j \/ (W!Shares(top, Way(s[i])) /\ W!Shares(top, Way(s[j])))

\* While directory d is read: the items in its array are of its subdirectories.
Beside(top, h, s, d) ==
    \A i \in DOMAIN s :
        s[i].arr = d.arr => \/ W!Shares(top, Way(s[i])) /\ W!Shares(top, Way(d))
                            \/ /\ Way(s[i]) # <<>> /\ W!DirName(Way(s[i])) = Way(d)
                               /\ Len(h[d.arr]) > d.len

\* A subdirectory is put in the queue.
LEMMA OneMore ==
    ASSUME NEW top \in Seq(Proper), NEW w, NEW d, Queued(top, w.heap, w.q), Sound(top, w.heap, d),
           Beside(top, w.heap, w.q, d), NEW fi, fi.dir, fi.name \in Proper,
           W!At(Append(Way(d), fi.name)) = fi, PathOf(fi) = Append(Way(d), fi.name),
           IsThere(Append(Way(d), fi.name)), PathOf(fi) \notin Ways(w.q)
    PROVE  LET t == W!Enqueue(w, d, fi)
           IN /\ Queued(top, t.heap, t.q) /\ Sound(top, t.heap, d) /\ Beside(top, t.heap, t.q, d)
              /\ \A r : r \in Ways(t.q) <=> r \in Ways(w.q) \/ r = PathOf(fi)
<1> DEFINE h == w.heap
           s == w.q
           t == W!Enqueue(w, d, fi)
           p == Way(d)
           x == fi.name
           c == Append(p, x)
           a == W!AppendName(h, d, x)
           g == a.heap
           n == W!Item(a.arr, d.len + 1, fi)
           l == d.len
           m == Len(s)
<1>1. t.heap = g /\ t.q = Append(s, n)
  <2>1. ~(~fi.dir \/ x \in {".", ".."})
    BY DEF Proper
  <2>2. t = [heap |-> a.heap, q |-> Append(s, n)]
    BY <2>1, Zenon DEF W!Enqueue
  <2> HIDE DEF t, a, n
  <2> QED
    BY <2>2
<1>2. n.arr = a.arr /\ n.len = l + 1 /\ n.fi = fi /\ Way(n) = c
  BY DEF W!Item, Way
<1>3. /\ p \in Seq(Proper) /\ IsThere(p) /\ W!At(p).dir /\ (p = top \/ p \in Under(top))
      /\ l = Len(p) /\ d.arr \in DOMAIN h /\ IsSeq(h[d.arr]) /\ l <= Len(h[d.arr])
      /\ Len(h[d.arr]) > l => l >= 3
      /\ W!Shares(top, p) \/ W!ItemPath(h, d) = p
  BY DEF Sound
<1>4. /\ c \in Seq(Proper) /\ c # <<>> /\ Len(c) = l + 1 /\ W!DirName(c) = p /\ c \in Under(top)
      /\ l \in Nat /\ Len(top) \in Nat /\ l >= Len(top) /\ x \in Proper
      /\ W!At(c).dir /\ IsThere(c)
  <2>1. c \in Seq(Proper) /\ c # <<>> /\ Len(c) = l + 1 /\ W!DirName(c) = p
    BY <1>3, OneDown
  <2>2. c \in Under(top)
    BY <1>3, UnderNext
  <2>3. l \in Nat /\ Len(top) \in Nat /\ l >= Len(top)
    <3>1. p = top \/ Len(p) > Len(top)
      BY <1>3 DEF Under
    <3> HIDE DEF p, l
    <3> QED
      BY <1>3, <3>1
  <2> QED
    BY <2>1, <2>2, <2>3
<1>5. W!Shares(top, p) => W!Shares(top, c)
  BY <1>3, SharesDown
<1>6. IsSeq(h) /\ IsSeq(s) /\ Apart(s) /\ c \notin Ways(s)
  BY DEF Queued
<1> DEFINE u == g[a.arr]
<1>7. /\ IsSeq(g) /\ DOMAIN h \subseteq DOMAIN g /\ a.arr \in DOMAIN g
      /\ \A b \in DOMAIN h : b # d.arr => g[b] = h[b]
      /\ IsSeq(g[d.arr]) /\ Len(g[d.arr]) = Len(h[d.arr])
      /\ \A i \in 1 .. l : g[d.arr][i] = h[d.arr][i]
      /\ IsSeq(u) /\ l + 1 <= Len(u) /\ u[l + 1] = x
      /\ \A i \in 1 .. l : u[i] = h[d.arr][i]
      /\ IF Len(h[d.arr]) > l THEN a.arr = d.arr
         ELSE a.arr \notin DOMAIN h /\ (Len(u) > l + 1 => l >= 2)
  BY <1>3, <1>4, <1>6, Named
<1> HIDE DEF h, s, t, p, x, c, a, g, n, l, m, u
<1>8. Sound(top, g, d)
  <2>1. W!ItemPath(g, d) = W!ItemPath(h, d)
    <3>1. SubSeq(g[d.arr], 1, l) = SubSeq(h[d.arr], 1, l)
      BY <1>3, <1>4, <1>7, SameFront
    <3> QED
      BY <3>1 DEF W!ItemPath, l
  <2>2. l = d.len
    BY DEF l
  <2> QED
    BY <1>3, <1>7, <2>1, <2>2 DEF Sound, p, h
<1>9. Sound(top, g, n)
  <2>1. W!Shares(top, c) \/ W!ItemPath(g, n) = c
    <3> SUFFICES ASSUME ~W!Shares(top, c) PROVE W!ItemPath(g, n) = c
      OBVIOUS
    <3>1. W!ItemPath(h, d) = p
      BY <1>3, <1>5
    <3>2. SubSeq(h[d.arr], 1, l) = p
      BY <3>1 DEF W!ItemPath, l
    <3>3. SubSeq(u, 1, l + 1) = Append(SubSeq(u, 1, l), u[l + 1])
      BY <1>4, <1>7, FrontNext
    <3>4. SubSeq(u, 1, l) = SubSeq(h[d.arr], 1, l)
      <4>1. l <= Len(u)
        <5>1. Len(u) \in Nat
          BY <1>7, AppendEnds
        <5> QED
          BY <1>4, <1>7, <5>1
      <4> QED
        BY <1>3, <1>4, <1>7, <4>1, SameFront
    <3>5. SubSeq(u, 1, l + 1) = Append(p, x)
      BY <1>7, <3>2, <3>3, <3>4
    <3> QED
      BY <1>2, <3>5 DEF W!ItemPath, u, c
  <2>2. Len(u) > l + 1 => l + 1 >= 3
    <3>1. l >= 3 => l + 1 >= 3
      BY <1>4
    <3>2. l >= 2 => l + 1 >= 3
      BY <1>4
    <3>3. CASE Len(h[d.arr]) > l
      BY <1>3, <3>1, <3>3
    <3>4. CASE ~(Len(h[d.arr]) > l)
      BY <1>7, <3>2, <3>4
    <3> QED
      BY <3>3, <3>4
  <2>3. W!Same(n.fi, W!At(c))
    BY <1>2, SameOrder DEF c, p, x
  <2> QED
    BY <1>2, <1>4, <1>7, <2>1, <2>2, <2>3 DEF Sound, u
<1>10. ASSUME NEW i \in DOMAIN s, s[i].arr = d.arr
       PROVE  W!Shares(top, Way(s[i])) /\ (Len(h[d.arr]) > l => W!Shares(top, c))
  <2> DEFINE r == Way(s[i])
  <2>1. \/ W!Shares(top, r) /\ W!Shares(top, p)
        \/ r # <<>> /\ W!DirName(r) = p /\ Len(h[d.arr]) > l
    BY <1>10 DEF Beside, s, h, l, p
  <2>2. CASE r # <<>> /\ W!DirName(r) = p /\ Len(h[d.arr]) > l
    <3>1. r \in Seq(Proper) /\ IsThere(r) /\ W!At(r).dir
      BY DEF Queued, Sound, s
    <3> DEFINE y == r[Len(r)]
    <3>2. y \in Proper /\ r = Append(p, y)
      BY <2>2, <3>1, PathSteps
    <3> HIDE DEF y
    <3>3. r # c
      BY <1>6 DEF Ways
    <3>4. y # x
      BY <3>2, <3>3 DEF c
    <3> HIDE DEF r
    <3>5. Len(p) >= Len(top) /\ Len(p) >= 3
      BY <1>3, <1>4, <2>2
    <3>6. W!At(Append(p, x)).dir /\ W!At(Append(p, y)).dir
      BY <1>4, <3>1, <3>2 DEF c
    <3>7. W!Shares(top, Append(p, y))
      BY <1>3, <1>4, <3>2, <3>4, <3>5, <3>6, SharesBeside
    <3>8. W!Shares(top, Append(p, x))
      BY <1>3, <1>4, <3>2, <3>4, <3>5, <3>6, SharesBeside
    <3> QED
      BY <3>2, <3>7, <3>8 DEF c, r
  <2> QED
    BY <1>5, <2>1, <2>2
<1>11. ASSUME NEW i \in DOMAIN s PROVE Sound(top, g, s[i]) /\ s[i].arr \in DOMAIN h
  <2>1. Sound(top, h, s[i])
    BY DEF Queued, s, h
  <2>2. CASE s[i].arr # d.arr
    BY <1>7, <2>1, <2>2 DEF Sound, W!ItemPath
  <2>3. CASE s[i].arr = d.arr
    <3>1. W!Shares(top, Way(s[i]))
      BY <1>10, <2>3
    <3> QED
      BY <1>7, <2>1, <2>3, <3>1 DEF Sound
  <2> QED
    BY <2>1, <2>2, <2>3 DEF Sound
<1>12. ASSUME NEW i \in DOMAIN s, s[i].arr = n.arr
       PROVE  W!Shares(top, Way(s[i])) /\ W!Shares(top, c)
  <2>1. Len(h[d.arr]) > l /\ n.arr = d.arr
    BY <1>2, <1>7, <1>11, <1>12
  <2> QED
    BY <1>10, <1>12, <2>1
<1> DEFINE r == Append(s, n)
<1>13. /\ IsSeq(r) /\ m \in Nat /\ DOMAIN s = 1 .. m /\ DOMAIN r = 1 .. m + 1
       /\ r[m + 1] = n /\ \A i \in 1 .. m : r[i] = s[i]
  BY <1>6, AppendEnds DEF m
<1> HIDE DEF r
<1>14. \A i \in DOMAIN r : (i \in DOMAIN s /\ r[i] = s[i]) \/ (i = m + 1 /\ r[i] = n)
  BY <1>13
<1>15. Apart(r) /\ Ways(r) = Ways(s) \cup {c}
  <2>1. \A i \in DOMAIN s : Way(s[i]) # c
    BY <1>6 DEF Ways
  <2>2. Apart(r)
    BY <1>2, <1>6, <1>14, <2>1 DEF Apart
  <2>3. Ways(r) \subseteq Ways(s) \cup {c}
    BY <1>2, <1>14 DEF Ways
  <2>4. c \in Ways(r)
    <3>1. m + 1 \in DOMAIN r /\ Way(r[m + 1]) = c
      BY <1>2, <1>13
    <3> QED
      BY <3>1 DEF Ways
  <2>5. Ways(s) \subseteq Ways(r)
    <3>1. \A i \in DOMAIN s : i \in DOMAIN r /\ r[i] = s[i]
      BY <1>13
    <3> QED
      BY <3>1 DEF Ways
  <2> QED
    BY <2>2, <2>3, <2>4, <2>5
<1>16. ASSUME NEW i \in DOMAIN r, NEW j \in DOMAIN r, r[i].arr = r[j].arr
       PROVE  i = j \/ (W!Shares(top, Way(r[i])) /\ W!Shares(top, Way(r[j])))
  <2>1. CASE i \in DOMAIN s /\ r[i] = s[i] /\ j \in DOMAIN s /\ r[j] = s[j]
    BY <1>16, <2>1 DEF Queued, s
  <2>2. CASE i \in DOMAIN s /\ r[i] = s[i] /\ j = m + 1 /\ r[j] = n
    BY <1>2, <1>12, <1>16, <2>2
  <2>3. CASE i = m + 1 /\ r[i] = n /\ j \in DOMAIN s /\ r[j] = s[j]
    BY <1>2, <1>12, <1>16, <2>3
  <2>4. CASE i = m + 1 /\ j = m + 1
    BY <2>4
  <2> QED
    BY <1>14, <2>1, <2>2, <2>3, <2>4
<1>17. Queued(top, g, r)
  <2>1. \A i \in DOMAIN r : Sound(top, g, r[i])
    BY <1>9, <1>11, <1>14
  <2> QED
    BY <1>7, <1>13, <1>15, <1>16, <2>1 DEF Queued
<1>18. Beside(top, g, r, d)
  <2> SUFFICES ASSUME NEW i \in DOMAIN r, r[i].arr = d.arr
               PROVE  \/ W!Shares(top, Way(r[i])) /\ W!Shares(top, Way(d))
                      \/ /\ Way(r[i]) # <<>> /\ W!DirName(Way(r[i])) = Way(d)
                         /\ Len(g[d.arr]) > d.len
    BY DEF Beside
  <2>1. CASE i \in DOMAIN s /\ r[i] = s[i]
    BY <1>7, <2>1 DEF Beside, s, h
  <2>2. CASE r[i] = n
    <3>1. n.arr = d.arr
      BY <2>2
    <3>2. Len(h[d.arr]) > l
      BY <1>2, <1>3, <1>7, <3>1
    <3> QED
      BY <1>2, <1>4, <1>7, <2>2, <3>2 DEF p, l
  <2> QED
    BY <1>14, <2>1, <2>2
<1> QED
  BY <1>1, <1>8, <1>15, <1>17, <1>18 DEF r, t, s, c, p, x

\* What Walk does with the records of a directory, one by one.
Enqueued(infos) == W!FoldLeft(LAMBDA t, fi : W!Enqueue(t, Head(q), fi), [heap |-> heap, q |-> Tail(q)], infos)

WalkSteps(w, infos, n) ==
    /\ w[0] = [heap |-> heap, q |-> Tail(q)]
    /\ \A k \in 1 .. n : w[k] = W!Enqueue(w[k - 1], Head(q), infos[k])

LEMMA FoldWalk ==
    ASSUME NEW infos, NEW n \in Nat, DOMAIN infos = 1 .. n
    PROVE  \E w : WalkSteps(w, infos, n) /\ Enqueued(infos) = w[n]
<1> DEFINE origin == [heap |-> heap, q |-> Tail(q)]
           Iter(it, m) == it = [t \in SUBSET (1 .. m) |->
                             IF t = {} THEN origin ELSE W!Enqueue(it[t \ {W!Max(t)}], Head(q), infos[W!Max(t)])]
           Good == {m \in Nat : \E it : Iter(it, m)}
<1>1. 0 \in Good
  <2> DEFINE it == [t \in {{}} |-> origin]
  <2>1. SUBSET (1 .. 0) = {{}}
    OBVIOUS
  <2>2. Iter(it, 0)
    BY <2>1, Zenon
  <2> QED
    BY <2>2
<1>2. ASSUME NEW m \in Nat, m \in Good PROVE m + 1 \in Good
  <2>1. PICK f : Iter(f, m)
    BY <1>2
  <2> DEFINE it == [t \in SUBSET (1 .. m + 1) |->
                      IF m + 1 \in t THEN W!Enqueue(f[t \ {m + 1}], Head(q), infos[m + 1]) ELSE f[t]]
  <2>2. ASSUME NEW t \in SUBSET (1 .. m + 1)
        PROVE  it[t] = IF t = {} THEN origin ELSE W!Enqueue(it[t \ {W!Max(t)}], Head(q), infos[W!Max(t)])
    <3>1. CASE m + 1 \in t
      <4>1. W!Max(t) = m + 1 /\ t # {}
        <5>1. t # {} /\ t \in SUBSET (0 .. m + 1) /\ m + 1 \in Nat /\ \A b \in t : b <= m + 1
          BY <3>1
        <5> HIDE DEF it
        <5> QED
          BY <3>1, <5>1, Upper
      <4>2. t \ {m + 1} \in SUBSET (1 .. m + 1) /\ m + 1 \notin t \ {m + 1}
        OBVIOUS
      <4>3. it[t \ {m + 1}] = f[t \ {m + 1}]
        BY <4>2, Zenon
      <4>4. it[t] = W!Enqueue(f[t \ {m + 1}], Head(q), infos[m + 1])
        BY <3>1, Zenon
      <4> QED
        BY <4>1, <4>3, <4>4, Zenon
    <3>2. CASE m + 1 \notin t
      <4>1. t \in SUBSET (1 .. m)
        BY <3>2
      <4>2. t \ {W!Max(t)} \in SUBSET (1 .. m + 1) /\ m + 1 \notin t \ {W!Max(t)}
        BY <3>2
      <4>3. it[t] = f[t] /\ it[t \ {W!Max(t)}] = f[t \ {W!Max(t)}]
        BY <3>2, <4>2, Zenon
      <4>4. f[t] = IF t = {} THEN origin ELSE W!Enqueue(f[t \ {W!Max(t)}], Head(q), infos[W!Max(t)])
        BY <2>1, <4>1, Zenon
      <4> QED
        BY <4>3, <4>4, Zenon
    <3> QED
      BY <3>1, <3>2
  <2>3. Iter(it, m + 1)
    <3> HIDE DEF origin
    <3> QED
      BY <2>2, Zenon
  <2> HIDE DEF Iter, it
  <2> QED
    BY <2>3
<1>3. PICK it : Iter(it, n) /\ Enqueued(infos) = it[1 .. n]
  <2>1. \E it : Iter(it, n)
    <3> HIDE DEF Iter
    <3> QED
      BY <1>1, <1>2, Numbers
  <2> QED
    BY <2>1 DEF Enqueued, W!FoldLeft, W!MapThenFoldSet
<1> DEFINE w == [k \in 0 .. n |-> it[1 .. k]]
<1>4. w[0] = origin
  <2>1. 1 .. 0 = {} /\ {} \in SUBSET (1 .. n) /\ 0 \in 0 .. n
    OBVIOUS
  <2>2. it[{}] = origin
    BY <1>3, <2>1, Zenon
  <2>3. w[0] = it[1 .. 0]
    BY <2>1, Zenon
  <2> QED
    BY <2>1, <2>2, <2>3, Zenon
<1>5. ASSUME NEW k \in 1 .. n PROVE w[k] = W!Enqueue(w[k - 1], Head(q), infos[k])
  <2>1. 1 .. k # {} /\ (1 .. k) \ {k} = 1 .. k - 1 /\ 1 .. k \in SUBSET (1 .. n) /\ 1 .. k \in SUBSET (0 .. n) /\ k \in 1 .. k
        /\ \A b \in 1 .. k : b <= k
    OBVIOUS
  <2>3. W!Max(1 .. k) = k
    BY <2>1, Upper
  <2>2. it[1 .. k] = W!Enqueue(it[(1 .. k) \ {k}], Head(q), infos[k])
    BY <1>3, <2>1, <2>3, Zenon
  <2>4. w[k] = it[1 .. k] /\ w[k - 1] = it[1 .. k - 1]
    OBVIOUS
  <2> QED
    BY <2>1, <2>2, <2>4, Zenon
<1>6. DOMAIN w = 0 .. n /\ w[n] = it[1 .. n]
  OBVIOUS
<1> HIDE DEF w, Iter
<1> QED
  BY <1>3, <1>4, <1>5, <1>6, Zenon DEF WalkSteps

\* The next item is taken.
LEMMA OneTaken ==
    ASSUME NEW top, NEW h, NEW s, Queued(top, h, s), s # <<>>
    PROVE  LET d == Head(s)
           IN /\ Sound(top, h, d) /\ Queued(top, h, Tail(s)) /\ Beside(top, h, Tail(s), d)
              /\ Ways(Tail(s)) = Ways(s) \ {Way(d)} /\ Way(d) \in Ways(s)
<1> DEFINE t == Tail(s)
           d == Head(s)
           n == Len(s)
<1>1. /\ n \in Nat \ {0} /\ DOMAIN s = 1 .. n /\ d = s[1] /\ IsSeq(t)
      /\ DOMAIN t = 1 .. n - 1 /\ \A i \in 1 .. n - 1 : t[i] = s[i + 1]
  BY Heads DEF Queued
<1> HIDE DEF t, d, n
<1>2. ASSUME NEW i \in DOMAIN t PROVE i + 1 \in DOMAIN s /\ i + 1 # 1 /\ t[i] = s[i + 1]
  BY <1>1
<1>3. 1 \in DOMAIN s
  BY <1>1
<1>4. ASSUME NEW j \in DOMAIN s, j # 1 PROVE j - 1 \in DOMAIN t /\ t[j - 1] = s[j]
  <2>1. j - 1 \in 1 .. n - 1 /\ (j - 1) + 1 = j
    BY <1>1, <1>4
  <2> QED
    BY <1>1, <2>1
<1>5. \A i, j \in DOMAIN t : i + 1 = j + 1 => i = j
  BY <1>1
<1>6. Apart(t)
  BY <1>2, <1>5 DEF Queued, Apart
<1>7. Way(d) \notin Ways(t)
  BY <1>1, <1>2, <1>3 DEF Queued, Apart, Ways
<1>8. Ways(s) = {Way(d)} \cup Ways(t)
  <2>1. Ways(t) \subseteq Ways(s)
    BY <1>2 DEF Ways
  <2>2. \A j \in DOMAIN s : j # 1 => Way(s[j]) \in Ways(t)
    BY <1>4 DEF Ways
  <2> QED
    BY <1>1, <1>3, <2>1, <2>2 DEF Ways
<1>9. \A i \in DOMAIN t : Sound(top, h, t[i])
  BY <1>2 DEF Queued
<1>10. ASSUME NEW i \in DOMAIN t, NEW j \in DOMAIN t, t[i].arr = t[j].arr
       PROVE  i = j \/ (W!Shares(top, Way(t[i])) /\ W!Shares(top, Way(t[j])))
  BY <1>2, <1>5, <1>10 DEF Queued
<1>11. Beside(top, h, t, d)
  BY <1>1, <1>2, <1>3 DEF Queued, Beside
<1>12. Queued(top, h, t)
  BY <1>1, <1>6, <1>9, <1>10 DEF Queued
<1>13. Sound(top, h, d)
  BY <1>1, <1>3 DEF Queued
<1> QED
  BY <1>7, <1>8, <1>11, <1>12, <1>13 DEF t, d

\* The directory of the next item is read, to its end or not.
LEMMA WalkReads ==
    ASSUME NEW top \in Seq(Proper), Queued(top, heap, q), q # <<>>,
           NEW infos, NEW n, FirstOfDir(infos, n, Way(Head(q))),
           \A r \in W!Below(Way(Head(q))) : r \notin Ways(q),
           W!WalkDir(infos)
    PROVE  /\ Queued(top, heap', q')
           /\ \A r : r \in Ways(q') <=> \/ r \in Ways(q) \ {Way(Head(q))}
                                        \/ \E j \in 3 .. n : infos[j].dir /\ r = PathOf(infos[j])
           /\ out' = out \o W!Shown(W!ItemPath(heap, Head(q)), infos)
<1> DEFINE d == Head(q)
           p == Way(d)
           Kids(k) == {r \in W!Below(p) : \E j \in 3 .. k : infos[j].dir /\ r = PathOf(infos[j])}
           rest == Ways(q) \ {p}
<1>1. heap' = Enqueued(infos).heap /\ q' = Enqueued(infos).q
      /\ out' = out \o W!Shown(W!ItemPath(heap, d), infos)
  BY Zenon DEF W!WalkDir, Enqueued
<1>2. n \in Nat /\ DOMAIN infos = 1 .. n
  BY DEF FirstOfDir
<1>3. PICK w : WalkSteps(w, infos, n) /\ Enqueued(infos) = w[n]
  BY <1>2, FoldWalk
<1>4. /\ Sound(top, heap, d) /\ Queued(top, heap, Tail(q)) /\ Beside(top, heap, Tail(q), d)
      /\ Ways(Tail(q)) = rest
  BY OneTaken
<1>5. p \in Seq(Proper) /\ W!At(p).dir
  BY <1>4 DEF Sound
<1>6. FirstOfDir(infos, n, p)
  OBVIOUS
<1>7. \A r \in W!Below(p) : r \notin Ways(q)
  OBVIOUS
<1> HIDE DEF d, p, rest
<1> DEFINE Fine(k) == /\ Queued(top, w[k].heap, w[k].q) /\ Sound(top, w[k].heap, d)
                      /\ Beside(top, w[k].heap, w[k].q, d)
                      /\ Ways(w[k].q) = rest \cup Kids(k)
           Good == {k \in Nat : k <= n => Fine(k)}
<1>8. 0 \in Good
  <2>1. w[0].heap = heap /\ w[0].q = Tail(q)
    BY <1>3 DEF WalkSteps
  <2>2. Kids(0) = {}
    OBVIOUS
  <2> HIDE DEF Kids
  <2>3. Ways(w[0].q) = rest \cup Kids(0)
    BY <1>4, <2>1, <2>2
  <2> QED
    BY <1>4, <2>1, <2>3
<1>9. ASSUME NEW k \in Nat, k \in Good PROVE k + 1 \in Good
  <2> SUFFICES ASSUME k + 1 <= n PROVE Fine(k + 1)
    OBVIOUS
  <2> DEFINE j == k + 1
             fi == infos[j]
             c == Append(p, fi.name)
  <2>1. j \in 1 .. n /\ j - 1 = k /\ k <= n /\ j \in Nat /\ \A i : i \in 3 .. j <=> i \in 3 .. k \/ (i = j /\ j > 2)
    BY <1>2
  <2>2. Fine(k)
    BY <1>9, <2>1
  <2> HIDE DEF j
  <2>3. w[j] = W!Enqueue(w[k], d, fi)
    BY <1>3, <2>1 DEF WalkSteps, d
  <2>4. /\ fi \in FileInfos
        /\ j > 2 => /\ fi.name \in Proper /\ fi.name \notin {".", ".."}
                    /\ W!At(c) = fi /\ IsThere(c) /\ PathOf(fi) = c /\ c \in W!Below(p)
        /\ ~(j > 2) => fi.name \in {".", ".."}
    BY <1>5, <1>6, <2>1, DotsFirst
  <2> HIDE DEF c
  <2>5. CASE ~(j > 2) \/ ~fi.dir
    <3>1. w[j] = w[k]
      BY <2>3, <2>4, <2>5, Zenon DEF W!Enqueue
    <3>2. Kids(j) = Kids(k)
      BY <2>1, <2>5
    <3> HIDE DEF Kids, fi
    <3> QED
      BY <2>2, <3>1, <3>2 DEF j
  <2>6. CASE j > 2 /\ fi.dir
    <3>1. Kids(j) = Kids(k) \cup {c}
      BY <2>1, <2>4, <2>6
    <3>2. c \notin Kids(k)
      <4> SUFFICES ASSUME NEW i \in 3 .. k, c = PathOf(infos[i]) PROVE FALSE
        OBVIOUS
      <4>1. i \in 1 .. n /\ i > 2 /\ i # j
        BY <1>2, <2>1
      <4>2. PathOf(infos[i]) = Append(p, infos[i].name) /\ infos[i].name \in Proper
        BY <1>5, <1>6, <4>1, DotsFirst
      <4> DEFINE x == fi.name
                 y == infos[i].name
      <4>3. x \in Proper /\ y \in Proper /\ Append(p, x) = Append(p, y)
        BY <2>4, <2>6, <4>2 DEF c
      <4>4. x = y
        <5> HIDE DEF x, y
        <5> QED
          BY <1>5, <4>3, OneDown
      <4>5. W!At(p).extent \in DOMAIN Listed
        BY <1>5, AllPlaced DEF Placed, DirAt
      <4> QED
        BY <1>6, <2>1, <4>1, <4>4, <4>5, InfoFacts DEF FirstOfDir
    <3>3. c \notin Ways(w[k].q)
      BY <1>7, <2>2, <2>4, <2>6, <3>2 DEF rest
    <3> DEFINE t == W!Enqueue(w[k], d, fi)
    <3>4. /\ Queued(top, t.heap, t.q) /\ Sound(top, t.heap, d) /\ Beside(top, t.heap, t.q, d)
          /\ Ways(t.q) = Ways(w[k].q) \cup {PathOf(fi)}
      <4>1. /\ Queued(top, w[k].heap, w[k].q) /\ Sound(top, w[k].heap, d)
            /\ Beside(top, w[k].heap, w[k].q, d)
        BY <2>2
      <4>2. /\ fi.dir /\ fi.name \in Proper /\ W!At(Append(Way(d), fi.name)) = fi
            /\ PathOf(fi) = Append(Way(d), fi.name) /\ IsThere(Append(Way(d), fi.name))
            /\ PathOf(fi) \notin Ways(w[k].q)
        BY <2>4, <2>6, <3>3 DEF c, p
      <4> HIDE DEF fi
      <4>3. /\ Queued(top, t.heap, t.q) /\ Sound(top, t.heap, d) /\ Beside(top, t.heap, t.q, d)
            /\ \A r : r \in Ways(t.q) <=> r \in Ways(w[k].q) \/ r = PathOf(fi)
        BY <4>1, <4>2, OneMore
      <4> QED
        BY <4>3
    <3> HIDE DEF t, Kids, fi
    <3>5. Ways(t.q) = rest \cup Kids(j)
      BY <2>2, <2>4, <2>6, <3>1, <3>4
    <3>6. w[j] = t
      BY <2>3 DEF t
    <3> QED
      BY <3>4, <3>5, <3>6 DEF j
  <2> QED
    BY <2>5, <2>6
<1> HIDE DEF Good
<1>10. n \in Good
  BY <1>2, <1>8, <1>9, Numbers
<1>11. Fine(n)
  BY <1>2, <1>10 DEF Good
<1>12. ASSUME NEW j \in 3 .. n PROVE PathOf(infos[j]) \in W!Below(p)
  <2>1. j \in 1 .. n /\ j > 2
    BY <1>2
  <2>2. PathOf(infos[j]) = Append(p, infos[j].name) /\ Append(p, infos[j].name) \in W!Below(p)
    BY <1>5, <1>6, <2>1, DotsFirst
  <2> QED
    BY <2>2
<1>13. \A r : r \in Kids(n) <=> \E j \in 3 .. n : infos[j].dir /\ r = PathOf(infos[j])
  BY <1>12
<1> HIDE DEF Kids
<1> QED
  BY <1>1, <1>3, <1>11, <1>13 DEF rest, p, d

----------------------------------------------------------------------------
(* ls -r *)

\* ls -r: what Walk has told (out) and what it has still to read (q).
LsrTrue ==
    /\ api \in {"none", "Walk"} /\ hops = 0
    /\ api = "none" <=> pc = "cmd"
    /\ pc \in {"cmd", "walk", "exit"} \/ Wanted
    /\ Wanted => asked = Top
    /\ pc = "cmd" \/ Wanted => out = <<>> /\ q = <<>>
    /\ pc = "failed" => faults # 0
    /\ IsSeq(out) /\ Once(out) /\ Telling(Top, out)
    /\ pc = "walk" => /\ Queued(Top, heap, q) /\ Cover(Top, Paths(out) \ {Top}, Ways(q))
                      /\ faults = 0 => Due(Top, Paths(out) \ {Top}, Ways(q))
    /\ pc = "exit" /\ faults = 0 => /\ Cover(Top, Paths(out) \ {Top}, {})
                                    /\ Due(Top, Paths(out) \ {Top}, {})

LEMMA LsrInit ==
    ASSUME W!Init
    PROVE  LsrTrue
<1>1. api = "none" /\ pc = "cmd" /\ out = <<>> /\ q = <<>> /\ hops = 0
  BY DEF W!Init
<1>2. ~Wanted
  BY <1>1 DEF Wanted
<1>3. Telling(Top, out)
  <2>1. DOMAIN <<>> = {}
    OBVIOUS
  <2> QED
    BY <1>1, <2>1 DEF Telling
<1> QED
  BY <1>1, <1>2, <1>3, NoEntry DEF LsrTrue

\* A step of the lookup, or of none.
LEMMA LsrLooks ==
    ASSUME LsrTrue, WalkTrue', W!At(Top).dir, faults \in Nat, UNCHANGED <<cmd, out, q, heap, hops>>,
           \/ pc' = pc /\ pc \in {"cmd", "search"} /\ UNCHANGED <<api, asked>>
           \/ pc = "cmd" /\ api' = "Walk" /\ pc' = "search" /\ asked' = Top
           \/ Wanted /\ Wanted' /\ UNCHANGED <<api, asked>>
           \/ pc = "failed" /\ pc' = "exit" /\ UNCHANGED <<api, asked>>,
           faults' = faults \/ faults' = faults + 1
    PROVE  LsrTrue'
<1>1. Top' = Top
  BY DEF Top
<1>2. faults' = 0 => faults = 0
  BY DEF LsrTrue
<1>3. Wanted' => asked' = Top /\ api' = "Walk"
  BY DEF Wanted, LsrTrue
<1>4. ASSUME pc' = "failed" PROVE faults' # 0
  <2>1. asked' = Top /\ api' = "Walk" /\ hops' = 0
    BY <1>3, <1>4 DEF Wanted, LsrTrue
  <2>2. W!At(asked') # W!NoInfo
    BY <2>1, NoInfoFields
  <2>3. FailedRight'
    BY DEF WalkTrue
  <2>4. hops' < W!SymlinkRecursionLimit
    BY <2>1 DEF W!SymlinkRecursionLimit
  <2> QED
    BY <1>4, <2>1, <2>2, <2>3, <2>4 DEF FailedRight
<1>5. out = <<>> /\ q = <<>>
  BY DEF LsrTrue, Wanted
<1>6. pc' = "exit" => faults' # 0
  BY <1>2 DEF LsrTrue, Wanted
<1>7. pc' # "walk" /\ (pc' \in {"cmd", "exit"} \/ Wanted')
  BY DEF Wanted
<1>8. IsSeq(out)' /\ Once(out)' /\ Telling(Top, out)'
  BY <1>1 DEF LsrTrue, Once, Telling, PathAt
<1>9. api' \in {"none", "Walk"} /\ (api' = "none" <=> pc' = "cmd")
  BY DEF LsrTrue, Wanted
<1> QED
  BY <1>1, <1>3, <1>4, <1>5, <1>6, <1>7, <1>8, <1>9 DEF LsrTrue

\* What is told of a single file.
LEMMA OneShown ==
    ASSUME NEW p, NEW fi
    PROVE  W!Shown(p, <<fi>>) = <<>> \/ W!Shown(p, <<fi>>) = Append(<<>>, [of |-> p, info |-> fi])
<1> DEFINE infos == <<fi>>
<1>1. DOMAIN infos = 1 .. 1 /\ infos[1] = fi /\ 1 \in Nat
  OBVIOUS
<1> HIDE DEF infos
<1>2. PICK w : ShownSteps(w, p, infos, 1) /\ W!Shown(p, infos) = w[1]
  BY <1>1, FoldShown
<1>3. w[0] = <<>> /\ w[1] = Told(w[0], p, fi)
  BY <1>1, <1>2 DEF ShownSteps
<1> QED
  BY <1>2, <1>3 DEF Told, infos

\* The walk begins at the command's path.
LEMMA LsrRoot ==
    ASSUME LsrTrue, WalkTrue, Top \in Seq(Proper), W!At(Top).dir, W!WalkRoot
    PROVE  LsrTrue'
<1> DEFINE s == [of |-> asked, info |-> partInfo]
           it == W!Item(1, Len(asked), partInfo)
<1>0. /\ pc = "found" /\ api = "Walk" /\ out' = W!Shown(asked, <<partInfo>>) /\ heap' = <<asked>>
      /\ UNCHANGED <<cmd, api, asked, hops, faults>>
  BY DEF W!WalkRoot, W!lookupVars
<1>1. asked = Top /\ Top' = Top
  BY <1>0 DEF LsrTrue, Wanted, Top
<1>2. partInfo.dir /\ W!Same(partInfo, W!At(Top)) /\ IsThere(Top)
  BY <1>0, <1>1, FoundFields, NoInfoFields DEF WalkTrue, FoundRight, IsThere
<1>3. q' = <<it>> /\ pc' = "walk"
  BY <1>2 DEF W!WalkRoot
<1>4. PathOf(partInfo) = Top
  BY <1>2, PathIs
<1>5. out' = <<>> \/ out' = Append(<<>>, s)
  BY <1>0, OneShown
<1>6. IsSeq(out') /\ Once(out') /\ Paths(out') \ {Top} = {} /\ Telling(Top, out')
  <2>1. CASE out' = <<>>
    <3>1. DOMAIN <<>> = {}
      OBVIOUS
    <3> QED
      BY <2>1, <3>1, NoEntry DEF Telling
  <2>2. CASE out' = Append(<<>>, s)
    <3>1. PathOf(s.info) = Top /\ PathOf(s.info) \notin Paths(<<>>) /\ DOMAIN <<>> = {}
      BY <1>4, NoEntry
    <3> DEFINE none == <<>>
    <3> HIDE DEF none, s
    <3>2. IsSeq(none) /\ Once(none) /\ Paths(none) = {} /\ DOMAIN none = {}
      BY NoEntry DEF none
    <3>3. /\ IsSeq(Append(none, s)) /\ Once(Append(none, s))
          /\ Paths(Append(none, s)) = Paths(none) \cup {PathOf(s.info)}
          /\ \A i \in DOMAIN Append(none, s) : Append(none, s)[i] = s \/ \E j \in DOMAIN none : Append(none, s)[i] = none[j]
      BY <3>1, <3>2, OnceAppend
    <3>4. out' = Append(none, s)
      BY <2>2 DEF none
    <3>5. W!Same(s.info, W!At(Top))
      BY <1>2 DEF s
    <3>6. Telling(Top, out')
      BY <3>1, <3>2, <3>3, <3>4, <3>5 DEF Telling, PathAt
    <3> QED
      BY <3>1, <3>2, <3>3, <3>4, <3>6
  <2> QED
    BY <1>5, <2>1, <2>2
<1>7. it.arr = 1 /\ it.len = Len(Top) /\ it.fi = partInfo /\ Way(it) = Top
  BY <1>1, <1>4 DEF W!Item, Way
<1>8. Sound(Top, heap', it)
  <2>1. heap'[1] = Top /\ DOMAIN heap' = {1}
    BY <1>0, <1>1
  <2>2. IsSeq(Top) /\ Len(Top) \in Nat /\ SubSeq(Top, 1, Len(Top)) = Top
    BY DEF IsSeq
  <2>3. W!ItemPath(heap', it) = Top
    BY <1>7, <2>1, <2>2 DEF W!ItemPath
  <2> HIDE DEF it
  <2> QED
    BY <1>2, <1>7, <2>1, <2>2, <2>3 DEF Sound
<1> HIDE DEF it, s
<1>9. Queued(Top, heap', q') /\ Ways(q') = {Top}
  <2>1. IsSeq(heap') /\ IsSeq(q')
    BY <1>0, <1>3 DEF IsSeq
  <2>2. DOMAIN q' = {1} /\ q'[1] = it
    BY <1>3
  <2> QED
    BY <1>7, <1>8, <2>1, <2>2 DEF Queued, Apart, Ways
<1>10. Cover(Top, Paths(out') \ {Top}, Ways(q')) /\ Due(Top, Paths(out') \ {Top}, Ways(q'))
  BY <1>6, <1>9, CoverStart
<1>11. (Queued(Top, heap, q) /\ Cover(Top, Paths(out) \ {Top}, Ways(q)) /\ Due(Top, Paths(out) \ {Top}, Ways(q)))'
  BY <1>1, <1>9, <1>10 DEF Queued, Sound, Apart, Ways, Way, Cover, Due, Paths, PathAt
<1>12. IsSeq(out)' /\ Once(out)' /\ Telling(Top, out)'
  BY <1>1, <1>6 DEF Once, Telling, PathAt
<1> QED
  BY <1>0, <1>3, <1>11, <1>12 DEF LsrTrue, Wanted

\* The directory of the next item is told, to its end or not.
LEMMA LsrReads ==
    ASSUME LsrTrue, pc = "walk", q # <<>>, Top \in Seq(Proper), NEW infos, NEW n,
           FirstOfDir(infos, n, Way(Head(q))), W!WalkDir(infos)
    PROVE  /\ IsSeq(out') /\ Once(out') /\ Telling(Top, out') /\ Queued(Top, heap', q')
           /\ Cover(Top, Paths(out') \ {Top}, Ways(q'))
           /\ /\ Due(Top, Paths(out) \ {Top}, Ways(q))
              /\ W!Below(Way(Head(q))) = {PathOf(infos[j]) : j \in 3 .. n}
              => Due(Top, Paths(out') \ {Top}, Ways(q'))
<1> DEFINE d == Way(Head(q))
           of == W!ItemPath(heap, Head(q))
           s == W!Shown(of, infos)
           S == Paths(out) \ {Top}
           U == Ways(q)
           T == Paths(s)
           V == {p \in T : W!At(p).dir}
<1>1. Queued(Top, heap, q) /\ Cover(Top, S, U) /\ IsSeq(out) /\ Once(out) /\ Telling(Top, out)
  BY DEF LsrTrue
<1>2. d \in U /\ Sound(Top, heap, Head(q))
  BY <1>1, OneTaken
<1>3. d \in Seq(Proper) /\ W!At(d).dir /\ (W!Shares(Top, d) \/ of = d)
  BY <1>2 DEF Sound
<1>4. ShownOf(s, of, d, n, infos)
  BY <1>3, Listing
<1>5. T = {PathOf(infos[j]) : j \in 3 .. n} /\ T \subseteq W!Below(d)
  <2>1. ASSUME NEW i \in DOMAIN s PROVE PathAt(s, i) \in W!Below(d)
    BY <1>4 DEF ShownOf
  <2>2. Paths(s) = {PathOf(infos[j]) : j \in 3 .. n}
    BY <1>4 DEF ShownOf
  <2> HIDE DEF s, d
  <2> QED
    BY <2>1, <2>2 DEF Paths
<1>6. ASSUME NEW r \in W!Below(d) PROVE r \in Under(Top) /\ r \notin S /\ r \notin U /\ r # Top
  <2> DEFINE B == W!Below(d)
             VB == {p \in B : W!At(p).dir}
  <2>1. B \cap S = {} /\ B \subseteq Under(Top)
    <3>1. B \in SUBSET W!Below(d) /\ \A p : p \in VB <=> p \in B /\ W!At(p).dir
      OBVIOUS
    <3> HIDE DEF B, VB, S, U, d
    <3> QED
      BY <1>1, <1>2, <3>1, CoverRead
  <2>2. r # Top
    BY <2>1, UnderFacts
  <2> QED
    BY <1>1, <2>1, <2>2 DEF Cover
<1>7. /\ Queued(Top, heap', q')
      /\ \A r : r \in Ways(q') <=> \/ r \in U \ {d}
                                   \/ \E j \in 3 .. n : infos[j].dir /\ r = PathOf(infos[j])
      /\ out' = out \o s
  BY <1>1, <1>6, WalkReads
<1>8. ASSUME NEW j \in 3 .. n PROVE W!At(PathOf(infos[j])) = infos[j]
  <2>1. j \in 1 .. n /\ j > 2
    BY DEF FirstOfDir
  <2>2. FirstOfDir(infos, n, d)
    OBVIOUS
  <2> HIDE DEF d, of, s, S, U, T, V
  <2>3. /\ W!At(Append(d, infos[j].name)) = infos[j]
        /\ PathOf(infos[j]) = Append(d, infos[j].name)
    BY <1>3, <2>1, <2>2, DotsFirst
  <2> QED
    BY <2>3
<1> HIDE DEF d, of, s, S, U, T
<1>9. Ways(q') = (U \ {d}) \cup V
  BY <1>5, <1>7, <1>8
<1>10. Paths(out) \cap T = {} /\ Top \notin T
  BY <1>5, <1>6 DEF S
<1>11. /\ IsSeq(out') /\ Once(out') /\ Paths(out') = Paths(out) \cup T
       /\ \A i \in DOMAIN out' : \/ \E j \in DOMAIN out : out'[i] = out[j]
                                 \/ \E j \in DOMAIN s : out'[i] = s[j]
  <2> DEFINE w == out \o s
  <2>1. IsSeq(s) /\ Once(s) /\ Paths(out) \cap Paths(s) = {}
    BY <1>4, <1>10 DEF ShownOf, T
  <2>2. /\ IsSeq(w) /\ Once(w) /\ Paths(w) = Paths(out) \cup Paths(s)
        /\ \A i \in DOMAIN w : \/ \E j \in DOMAIN out : w[i] = out[j]
                               \/ \E j \in DOMAIN s : w[i] = s[j]
    BY <1>1, <2>1, OnceJoins
  <2>3. out' = w
    BY <1>7
  <2> HIDE DEF w
  <2> QED
    BY <2>2, <2>3 DEF T
<1>12. Paths(out') \ {Top} = S \cup T
  BY <1>10, <1>11 DEF S
<1>13. Cover(Top, S \cup T, (U \ {d}) \cup V)
  <2>1. T \in SUBSET W!Below(d) /\ \A p : p \in V <=> p \in T /\ W!At(p).dir
    BY <1>5
  <2> HIDE DEF V
  <2> QED
    BY <1>1, <1>2, <2>1, CoverRead
<1>14. ASSUME Due(Top, S, U), W!Below(d) = T PROVE Due(Top, S \cup T, (U \ {d}) \cup V)
  <2>1. \A p : p \in V <=> p \in T /\ W!At(p).dir
    OBVIOUS
  <2> HIDE DEF V
  <2> QED
    BY <1>1, <1>2, <1>14, <2>1, DueRead
<1>15. Telling(Top, out')
  <2>1. ASSUME NEW i \in DOMAIN out'
        PROVE  LET p == PathAt(out', i)
               IN /\ p \in Seq(Proper) /\ W!Same(out'[i].info, W!At(p))
                  /\ p # Top => /\ p \in Under(Top) /\ out'[i].info = W!At(p)
                                /\ out'[i] = [of |-> out'[i].of, info |-> out'[i].info]
                                /\ out'[i].of = W!DirName(p) \/ W!Shares(Top, W!DirName(p))
    <3>1. CASE \E j \in DOMAIN out : out'[i] = out[j]
      BY <1>1, <3>1 DEF Telling, PathAt
    <3>2. CASE \E j \in DOMAIN s : out'[i] = s[j]
      <4>1. PICK j \in DOMAIN s : out'[i] = s[j]
        BY <3>2
      <4> DEFINE p == PathAt(s, j)
      <4>2. /\ s[j].of = of /\ s[j] = [of |-> of, info |-> s[j].info] /\ s[j].info = W!At(p)
            /\ p \in W!Below(d)
        BY <1>4 DEF ShownOf
      <4> HIDE DEF p
      <4>3. p \in Seq(Proper) /\ W!DirName(p) = d
        BY <1>3, <4>2, BelowIs
      <4>4. p \in Under(Top)
        BY <1>6, <4>2
      <4>5. W!Same(s[j].info, W!At(p))
        BY <4>2, SameOrder
      <4>6. PathAt(out', i) = p
        BY <4>1 DEF PathAt, p
      <4> QED
        BY <1>3, <4>1, <4>2, <4>3, <4>4, <4>5, <4>6
    <3> QED
      BY <1>11, <3>1, <3>2
  <2> QED
    BY <2>1 DEF Telling
<1>16. Cover(Top, Paths(out') \ {Top}, Ways(q'))
  BY <1>9, <1>12, <1>13
<1>17. Due(Top, S, U) /\ W!Below(d) = T => Due(Top, Paths(out') \ {Top}, Ways(q'))
  BY <1>9, <1>12, <1>14
<1>18. \A A : A = {PathOf(infos[j]) : j \in 3 .. n} => A = T
  BY <1>5
<1> HIDE DEF V
<1> QED
  BY <1>7, <1>11, <1>15, <1>16, <1>17, <1>18 DEF d, S, U

\* The directory that is read next.
LEMMA NextIs ==
    ASSUME NEW top, Queued(top, heap, q), q # <<>>
    PROVE  LET d == Way(Head(q))
           IN d \in Seq(Proper) /\ W!At(d).dir /\ Head(q).fi.extent = W!At(d).extent
<1> DEFINE it == Head(q)
           d == Way(it)
<1>1. Sound(top, heap, it)
  BY OneTaken
<1> HIDE DEF it
<1>2. d \in Seq(Proper) /\ W!At(d).dir /\ W!Same(W!At(d), it.fi)
  BY <1>1, SameOrder DEF Sound
<1>3. W!At(d).extent = it.fi.extent
  BY <1>2, AtFields, SameFields
<1> QED
  BY <1>2, <1>3 DEF it

\* Walk goes on to its next item.
LEMMA LsrNext ==
    ASSUME LsrTrue, Top \in Seq(Proper), W!WalkNext
    PROVE  LsrTrue'
<1> DEFINE it == Head(q)
           d == Way(it)
           infos == Listed[it.fi.extent]
           n == Len(infos)
<1>0. /\ pc = "walk" /\ q # <<>> /\ W!WalkDir(infos)
      /\ UNCHANGED <<cmd, api, pc, asked, hops, faults>>
  BY DEF W!WalkNext, W!lookupVars
<1>1. /\ d \in Seq(Proper) /\ W!At(d).dir /\ it.fi.extent = W!At(d).extent
  BY <1>0, NextIs DEF LsrTrue
<1>2. FirstOfDir(infos, n, d)
  BY <1>1, FirstTaken
<1>3. W!Below(d) = {PathOf(infos[j]) : j \in 3 .. n}
  BY <1>1, AllShown
<1>4. /\ IsSeq(out') /\ Once(out') /\ Telling(Top, out') /\ Queued(Top, heap', q')
      /\ Cover(Top, Paths(out') \ {Top}, Ways(q'))
      /\ Due(Top, Paths(out) \ {Top}, Ways(q)) => Due(Top, Paths(out') \ {Top}, Ways(q'))
  <2> HIDE DEF infos, n
  <2> QED
    BY <1>0, <1>2, <1>3, LsrReads
<1>5. Top' = Top
  BY <1>0 DEF Top
<1>6. IsSeq(out)' /\ Once(out)' /\ Telling(Top, out)'
  BY <1>4, <1>5 DEF Once, Telling, PathAt
<1>7. Queued(Top, heap, q)' /\ Cover(Top, Paths(out) \ {Top}, Ways(q))'
  BY <1>4, <1>5 DEF Queued, Sound, Apart, Ways, Way, Cover, Paths, PathAt
<1>8. faults = 0 => Due(Top, Paths(out) \ {Top}, Ways(q))'
  <2>1. faults = 0 => Due(Top, Paths(out') \ {Top}, Ways(q'))
    BY <1>0, <1>4 DEF LsrTrue
  <2> QED
    BY <1>5, <2>1 DEF Due, Ways, Way, Paths, PathAt
<1> QED
  BY <1>0, <1>6, <1>7, <1>8 DEF LsrTrue, Wanted

\* The directory cannot be read to its end, and the walk ends.
LEMMA LsrErr ==
    ASSUME LsrTrue, faults \in Nat, Top \in Seq(Proper), W!WalkErr
    PROVE  LsrTrue'
<1> DEFINE it == Head(q)
           d == Way(it)
           infos == Listed[it.fi.extent]
<1>0. /\ pc = "walk" /\ q # <<>> /\ faults' = faults + 1 /\ pc' = "exit"
      /\ UNCHANGED <<cmd, api, asked, hops>>
  BY DEF W!WalkErr, W!lookupVars
<1>1. /\ d \in Seq(Proper) /\ W!At(d).dir /\ it.fi.extent = W!At(d).extent
  BY <1>0, NextIs DEF LsrTrue
<1>2. PICK n \in 0 .. Len(infos) : W!WalkDir(SubSeq(infos, 1, n))
  BY DEF W!WalkErr
<1>3. FirstOfDir(SubSeq(infos, 1, n), n, d)
  BY <1>1, FirstTaken
<1> DEFINE first == SubSeq(infos, 1, n)
<1>4. IsSeq(out') /\ Once(out') /\ Telling(Top, out')
  <2>1. FirstOfDir(first, n, Way(Head(q))) /\ W!WalkDir(first)
    BY <1>2, <1>3
  <2> HIDE DEF first
  <2> QED
    BY <1>0, <2>1, LsrReads
<1>5. Top' = Top
  BY <1>0 DEF Top
<1>6. IsSeq(out)' /\ Once(out)' /\ Telling(Top, out)'
  BY <1>4, <1>5 DEF Once, Telling, PathAt
<1>7. api' = "Walk" /\ hops' = 0 /\ faults' # 0
  BY <1>0 DEF LsrTrue
<1> QED
  BY <1>0, <1>6, <1>7 DEF LsrTrue, Wanted

\* The queue is empty, and so nothing is left to be read.
LEMMA LsrEnd ==
    ASSUME LsrTrue, W!WalkEnd
    PROVE  LsrTrue'
<1>0. /\ pc = "walk" /\ q = <<>> /\ pc' = "exit"
      /\ UNCHANGED <<cmd, api, asked, hops, out, q, heap, faults>>
  BY DEF W!WalkEnd, W!lookupVars, W!listVars
<1>1. Top' = Top
  BY <1>0 DEF Top
<1>2. Ways(q) = {}
  <2>1. DOMAIN <<>> = {}
    OBVIOUS
  <2> QED
    BY <1>0, <2>1 DEF Ways
<1>3. IsSeq(out)' /\ Once(out)' /\ Telling(Top, out)'
  BY <1>0, <1>1 DEF LsrTrue, Once, Telling, PathAt
<1>4. /\ Cover(Top, Paths(out) \ {Top}, {})
      /\ faults = 0 => Due(Top, Paths(out) \ {Top}, {})
  BY <1>0, <1>2 DEF LsrTrue
<1>5. /\ Cover(Top, Paths(out) \ {Top}, {})'
      /\ faults = 0 => Due(Top, Paths(out) \ {Top}, {})'
  BY <1>0, <1>1, <1>4 DEF Cover, Due, Paths, PathAt
<1>6. api' = "Walk" /\ hops' = 0 /\ faults' = faults
  BY <1>0 DEF LsrTrue
<1> QED
  BY <1>0, <1>3, <1>5, <1>6 DEF LsrTrue, Wanted

\* Every step of the Walker keeps what is known of ls -r.
LEMMA LsrStep ==
    ASSUME LsrTrue, WalkTrue, WalkTrue', cmd \in Commands, faults \in Nat, Top \in Seq(Proper),
           W!At(Top).dir, cmd.cmd = "lsr", W!Next
    PROVE  LsrTrue'
<1>1. CASE W!Search \/ W!Scan \/ W!ScanErr \/ W!Evict
  <2>1. /\ UNCHANGED <<cmd, api, asked, out, q, heap, hops>> /\ (faults' = faults \/ faults' = faults + 1)
        /\ \/ pc' = pc /\ pc \in {"cmd", "search"}
           \/ Wanted /\ Wanted'
    BY <1>1 DEF W!Search, W!Scan, W!ScanErr, W!Evict, W!lookupVars, W!listVars, Wanted
  <2> QED
    BY <2>1, LsrLooks
<1>2. CASE W!Begin
  <2>1. /\ api' = "Walk" /\ asked' = Top /\ pc' = "search" /\ pc = "cmd"
        /\ UNCHANGED <<cmd, out, q, heap, hops, faults>>
    BY <1>2 DEF W!Begin, W!Lookup, W!listVars, Top
  <2> QED
    BY <2>1, LsrLooks
<1>3. CASE W!Fatal
  <2>1. pc = "failed" /\ pc' = "exit" /\ UNCHANGED <<cmd, api, asked, out, q, heap, hops, faults>>
    BY <1>3 DEF W!Fatal, W!lookupVars, W!listVars
  <2> QED
    BY <2>1, LsrLooks
<1>4. CASE \/ W!Follow \/ W!Copy \/ W!ReadDir \/ W!ReadDirErr \/ W!ReadDirOfFile
           \/ W!LsFound \/ W!PrintTree \/ W!TreeEnd
  <2>1. api \in {"Open", "ReadDir", "Lstat"}
    BY <1>4 DEF W!Follow, W!Copy, W!ReadDir, W!ReadDirErr, W!ReadDirOfFile, W!LsFound, W!PrintTree, W!TreeEnd
  <2> QED
    BY <2>1 DEF LsrTrue
<1>5. CASE W!WalkRoot
  BY <1>5, LsrRoot
<1> QED
  BY <1>1, <1>2, <1>3, <1>4, <1>5, LsrNext, LsrErr, LsrEnd DEF W!Next

\* What ls -r has printed is what a listing should show.
LEMMA LsrOutcome ==
    ASSUME LsrTrue, Top \in Seq(Proper)
    PROVE  Outcome(Top)
<1>1. ASSUME pc = "exit", faults = 0 PROVE Under(Top) \subseteq Paths(out)
  <2> DEFINE S == Paths(out) \ {Top}
  <2>1. Cover(Top, S, {}) /\ Due(Top, S, {})
    BY <1>1 DEF LsrTrue
  <2> HIDE DEF S
  <2>2. S = Under(Top)
    BY <2>1, CoverAll
  <2> QED
    BY <2>2 DEF S
<1> QED
  BY <1>1 DEF Outcome, LsrTrue

----------------------------------------------------------------------------
(* Both listings *)

\* The inductive invariant of the listings.
ListTrue == /\ cmd.cmd = "tree" => TreeTrue
            /\ cmd.cmd = "lsr"  => LsrTrue

ListInv == session = "walk" /\ ~resumed /\ W!At(Top).dir => ListTrue

\* The command's path is a path of names.
LEMMA TopProper == cmd \in Commands => Top \in Seq(Proper)
<1> SUFFICES ASSUME cmd \in Commands PROVE Top \in Seq(Proper)
  OBVIOUS
<1>1. cmd.path \in Seq(Words)
  BY CommandFacts
<1> QED
  BY <1>1, CleanProper DEF Top

LEMMA ListInit == Init => ListInv
<1> SUFFICES ASSUME Init, W!At(Top).dir PROVE ListTrue
  BY DEF ListInv
<1>1. W!Init
  BY DEF Init
<1> QED
  BY <1>1, TreeInit, LsrInit DEF ListTrue

\* A step of the process keeps both, whichever command runs.
LEMMA ListStep == WalkInv /\ WalkInv' /\ ListInv /\ [Next]_vars => ListInv'
<1> SUFFICES ASSUME WalkInv, WalkInv', ListInv, [Next]_vars, session' = "walk", ~resumed', W!At(Top').dir
             PROVE  ListTrue'
  BY DEF ListInv
<1>1. CASE UNCHANGED vars
  <2>1. UNCHANGED <<cmd, api, pc, asked, hops, heap, q, out, resumed, faults, session>>
    BY <1>1 DEF vars, walkVars
  <2>2. Top' = Top /\ Wanted' = Wanted
    BY <2>1 DEF Top, Wanted
  <2>3. ListTrue
    BY <2>1, <2>2 DEF ListInv
  <2>4. TreeTrue => TreeTrue'
    <3> SUFFICES ASSUME TreeTrue PROVE TreeTrue'
      OBVIOUS
    <3>1. Met(out, q)' = Met(out, q) /\ Now' = Now
      BY <2>1, <2>2 DEF Met, Now, Paths, PathAt
    <3>2. Unread' = Unread
      BY <2>1, <3>1 DEF Unread, DirsIn, Paths, PathAt
    <3> QED
      BY <2>1, <2>2, <3>1, <3>2 DEF TreeTrue, Cover, Due, Entries, Once, Paths, PathAt
  <2>5. LsrTrue => LsrTrue'
    <3> SUFFICES ASSUME LsrTrue PROVE LsrTrue'
      OBVIOUS
    <3>1. IsSeq(out)' /\ Once(out)' /\ Telling(Top, out)'
      BY <2>1, <2>2 DEF LsrTrue, Once, Telling, PathAt
    <3>2. Queued(Top, heap, q)' <=> Queued(Top, heap, q)
      BY <2>1, <2>2 DEF Queued, Sound, Apart, Way
    <3>3. Cover(Top, Paths(out) \ {Top}, Ways(q))' <=> Cover(Top, Paths(out) \ {Top}, Ways(q))
      BY <2>1, <2>2 DEF Cover, Ways, Way, Paths, PathAt
    <3>4. Due(Top, Paths(out) \ {Top}, Ways(q))' <=> Due(Top, Paths(out) \ {Top}, Ways(q))
      BY <2>1, <2>2 DEF Due, Ways, Way, Paths, PathAt
    <3>5. Cover(Top, Paths(out) \ {Top}, {})' <=> Cover(Top, Paths(out) \ {Top}, {})
      BY <2>1, <2>2 DEF Cover, Paths, PathAt
    <3>6. Due(Top, Paths(out) \ {Top}, {})' <=> Due(Top, Paths(out) \ {Top}, {})
      BY <2>1, <2>2 DEF Due, Paths, PathAt
    <3> QED
      BY <2>1, <2>2, <3>1, <3>2, <3>3, <3>4, <3>5, <3>6 DEF LsrTrue
  <2> QED
    BY <2>1, <2>3, <2>4, <2>5 DEF ListTrue
<1>2. CASE Walk
  <2>1. W!Next /\ session = "walk" /\ cmd \in Commands /\ faults \in Nat
    BY <1>2 DEF Walk, WalkInv
  <2>2. cmd' = cmd /\ ~resumed
    BY <2>1, SameCommand
  <2>3. WalkTrue /\ WalkTrue'
    BY <2>1, <2>2 DEF WalkInv
  <2>4. Top' = Top
    BY <2>2 DEF Top
  <2>5. ListTrue /\ Top \in Seq(Proper) /\ W!At(Top).dir
    BY <2>1, <2>2, <2>4, TopProper DEF ListInv
  <2> QED
    BY <2>1, <2>2, <2>3, <2>5, TreeStep, LsrStep DEF ListTrue
<1>3. CASE Serve
  BY <1>3 DEF Serve
<1> QED
  BY <1>1, <1>2, <1>3 DEF Next

\* For every disc that is a tree, every command and every error of the image:
\* until a lookup has gone on from below a cached directory, tree and ls -r show
\* no file twice and none from elsewhere, and when they end and nothing failed
\* they have shown every file below their path, in the directory it is in, unless
\* Walk's items share an array there (printTree, and the append in Walk).
THEOREM ListingsRight == Init /\ [][Next]_vars => []ListedOnce
<1>1. WalkInv /\ ListInv => ListedOnce
  <2> SUFFICES ASSUME WalkInv, ListInv, session = "walk" PROVE W!ListedOnce
    BY DEF ListedOnce
  <2>1. CASE ~resumed /\ cmd.cmd \in {"tree", "lsr"} /\ W!At(Top).dir
    <3>1. Top \in Seq(Proper) /\ ListTrue
      BY <2>1, TopProper DEF WalkInv, ListInv
    <3>2. Outcome(Top)
      BY <2>1, <3>1, TreeOutcome, LsrOutcome DEF ListTrue
    <3> QED
      BY <2>1, <3>1, <3>2, OutcomeListed DEF Top
  <2>2. CASE ~(~resumed /\ cmd.cmd \in {"tree", "lsr"} /\ W!At(Top).dir)
    BY <2>2 DEF W!ListedOnce, Top
  <2> QED
    BY <2>1, <2>2
<1> QED
  BY <1>1, WalkInit, WalkStep, ListInit, ListStep, PTL
=============================================================================

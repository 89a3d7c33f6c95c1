-------------------------- MODULE DiskCacheProofs --------------------------
(***************************************************************************)
(* For every number of goroutines, processes, cache files and blocks, with *)
(* any collisions of file names and any number of crashes: what is in the  *)
(* disk cache is complete, the flock protects the second look, temporary   *)
(* files are left only by the dead, and a read returns the bytes of the    *)
(* object or an error.                                                     *)
(***************************************************************************)
EXTENDS DiskCache, FiniteSetTheorems, TLAPS

USE BlockAssumption, DiskAssumption

----------------------------------------------------------------------------
(* The inductive invariant *)

\* What a file under a cache name is: if there at all, a block with all its
\* attributes that was fsynced before it got its name.
Sound(c) == c.there => /\ c.key \in Keys
                       /\ c.data = Whole(c.key)
                       /\ c.sum
                       /\ c.synced

\* What a write-back of block k has put in its temporary file c by stage s.
Written(s, k, c) ==
    /\ s \in {"key", "sum", "sync", "rename"} => c.data = Whole(k)
    /\ s \in {"sum", "sync", "rename"} => c.key = k
    /\ s \in {"sync", "rename"} => c.sum
    /\ s = "rename" => c.synced

\* What a call may have returned: the bytes of a request or an error.
Answers == {NoReply, Failure} \cup {Reply(Exact(q)) : q \in Requests}

\* Types of the goroutines' state and of the counters.
ThreadTypes ==
    /\ lock \in [Files -> Threads \cup Files \cup {Free}]
    /\ pc \in [Threads -> {"idle", "open", "lock", "check", "source"}]
    /\ req \in [Threads -> Requests]
    /\ res \in [Threads -> Answers]
    /\ faults \in 0 .. MaxFaults
    /\ crashes \in 0 .. MaxCrashes
    /\ gcs \in 0 .. MaxGc
    /\ victims \in SUBSET Files

WbType == [stage : Stages, key : Keys \cup {NoKey}, proc : Procs \cup {NoKey},
           tmp : FileType]

DiskTypes ==
    /\ file \in [Files -> FileType]
    /\ stable \in [Files -> FileType]
    /\ wb \in [Files -> WbType]

\* The order of the write-back: only a whole, fsynced block gets a name.
WriteOrder == \A f \in Files :
    /\ Sound(file[f]) /\ Sound(stable[f])
    /\ IF wb[f].stage = "none" THEN wb[f].proc = NoKey
       ELSE /\ wb[f].key \in Keys /\ wb[f].proc \in Procs
            /\ Written(wb[f].stage, wb[f].key, wb[f].tmp)

\* A goroutine past the flock holds it, a running write-back holds it, and
\* nobody else does: no return path and no death leaves a flock behind.
LockOwned ==
    /\ \A t \in Threads : pc[t] \in {"check", "source"} => lock[Fname[req[t].key]] = t
    /\ \A f \in Files : wb[f].stage # "none" <=> lock[f] = f
    /\ \A f \in Files : lock[f] \in Threads => /\ pc[lock[f]] \in {"check", "source"}
                                               /\ Fname[req[lock[f]].key] = f

DiskInv == ThreadTypes /\ DiskTypes /\ WriteOrder /\ LockOwned /\ FetchOnlyMissing

----------------------------------------------------------------------------
(* Facts about files, requests and replies *)

LEMMA RequestInBlock ==
    ASSUME NEW q \in Requests
    PROVE  /\ q.key \in Keys /\ q.off \in Nat /\ q.len \in Nat \ {0}
           /\ Size[q.key] \in Nat \ {0}
           /\ q.off + q.len <= Size[q.key]
           /\ Fname[q.key] \in Files
  BY DEF Requests

\* A sound file passes the integrity check, and a power failure does not tear
\* it.
LEMMA SoundFacts ==
    ASSUME NEW c \in FileType, Sound(c)
    PROVE  (c.there => FsckOk(c)) /\ Torn(c) = {c}
  BY DEF Sound, FsckOk, Torn

\* A hit holds the wanted block, so reading the cache file delivers exactly
\* the bytes asked for.
LEMMA HitExact ==
    ASSUME DiskInv, NEW t \in Threads, Hit(t)
    PROVE  FileReadAt(file[Fname[req[t].key]], req[t]) = Reply(Exact(req[t]))
<1> DEFINE q == req[t]
           c == file[Fname[q.key]]
<1>1. /\ q \in Requests /\ q.key \in Keys /\ q.off \in Nat /\ q.len \in Nat \ {0}
      /\ Size[q.key] \in Nat \ {0} /\ q.off + q.len <= Size[q.key]
      /\ Sound(c)
  BY RequestInBlock DEF DiskInv, ThreadTypes, WriteOrder
<1>2. c.there /\ c.key = q.key
  BY DEF Hit
<1> HIDE DEF q, c
<1>4. c.data = Whole(q.key)
  BY <1>1, <1>2 DEF Sound
<1>5. /\ q.off + q.len - 1 \in DOMAIN Whole(q.key)
      /\ \A i \in 0 .. q.len - 1 : Whole(q.key)[q.off + i] = Byte(q.key, q.off + i)
  <2> DEFINE o == q.off
             l == q.len
             z == Size[q.key]
  <2>1. o \in Nat /\ l \in Nat \ {0} /\ z \in Nat /\ o + l <= z
    BY <1>1
  <2>2. DOMAIN Whole(q.key) = 0 .. z - 1
    BY DEF Whole
  <2>3. \A j \in 0 .. z - 1 : Whole(q.key)[j] = Byte(q.key, j)
    BY DEF Whole
  <2> HIDE DEF o, l, z
  <2>4. /\ o + l - 1 \in 0 .. z - 1
        /\ \A i \in 0 .. l - 1 : o + i \in 0 .. z - 1
    BY <2>1
  <2> QED
    BY <2>2, <2>3, <2>4 DEF o, l, z
<1>6. FileReadAt(c, q) = Reply(Exact(q))
  BY <1>4, <1>5 DEF FileReadAt, Exact
<1> QED
  BY <1>6 DEF q, c

\* What the source delivered is copied to the caller at the right offset.
LEMMA SourceExact ==
    ASSUME NEW q \in Requests
    PROVE  [i \in 0 .. q.len - 1 |-> Whole(q.key)[q.off + i]] = Exact(q)
<1>1. \A i \in 0 .. q.len - 1 : Whole(q.key)[q.off + i] = Byte(q.key, q.off + i)
  BY RequestInBlock DEF Whole
<1> QED
  BY <1>1 DEF Exact

\* Every reply that a step gives to its caller is an answer.
LEMMA AnswerFacts ==
    /\ NoReply \in Answers /\ Failure \in Answers
    /\ \A q \in Requests : Reply(Exact(q)) \in Answers
  BY DEF Answers

----------------------------------------------------------------------------
(* Each part of the invariant is kept by every step. *)

LEMMA InitDisk == Init => DiskInv
<1> SUFFICES ASSUME Init PROVE DiskInv
  OBVIOUS
<1>1. ThreadTypes
  BY AnswerFacts DEF Init, ThreadTypes
<1>2. DiskTypes
  BY DEF Init, DiskTypes, NoWb, Absent, FileType, Stages, WbType
<1>5. WriteOrder
  BY DEF Init, WriteOrder, Sound, NoWb, Absent
<1>3. LockOwned
  BY DEF Init, LockOwned, NoWb
<1>4. FetchOnlyMissing
  BY DEF Init, FetchOnlyMissing
<1> QED
  BY <1>1, <1>2, <1>3, <1>4, <1>5 DEF DiskInv

\* The reply that ends a call.
LEMMA FinishTypes ==
    ASSUME ThreadTypes, NEW t \in Threads, NEW a \in Answers, Finish(t, a)
    PROVE  /\ pc' \in [Threads -> {"idle", "open", "lock", "check", "source"}]
           /\ res' \in [Threads -> Answers]
  BY AnswerFacts DEF ThreadTypes, Finish

\* Goroutines, locks and counters keep their types.
LEMMA ThreadTypesStep == DiskInv /\ [Next]_vars => ThreadTypes'
<1> SUFFICES ASSUME DiskInv, [Next]_vars PROVE ThreadTypes'
  OBVIOUS
<1> USE DEF ThreadTypes
<1>0. ThreadTypes
  BY DEF DiskInv
<1>1. CASE UNCHANGED vars
  BY <1>0, <1>1 DEF vars
<1>2. ASSUME NEW t \in Threads, Begin(t) PROVE ThreadTypes'
  BY <1>0, <1>2, AnswerFacts DEF Begin, gcVars
<1>3. ASSUME NEW t \in Threads, OpenHit(t) PROVE ThreadTypes'
  <2>1. req[t] \in Requests /\ Finish(t, Reply(Exact(req[t])))
    BY <1>0, <1>3, HitExact DEF OpenHit
  <2> QED
    BY <1>0, <1>3, <2>1, FinishTypes, AnswerFacts DEF OpenHit, gcVars
<1>4. ASSUME NEW t \in Threads, OpenHitErr(t) \/ FlockErr(t) PROVE ThreadTypes'
  <2>1. Finish(t, Failure) /\ faults' \in 0 .. MaxFaults
    BY <1>0, <1>4 DEF OpenHitErr, FlockErr, Fault
  <2> QED
    BY <1>0, <1>4, <2>1, FinishTypes, AnswerFacts DEF OpenHitErr, FlockErr, gcVars
<1>5. ASSUME NEW t \in Threads, OpenMiss(t) \/ StillMissing(t) PROVE ThreadTypes'
  <2>1. faults' \in 0 .. MaxFaults
    BY <1>0, <1>5 DEF OpenMiss, StillMissing, Fault
  <2> QED
    BY <1>0, <1>5, <2>1 DEF OpenMiss, StillMissing, gcVars
<1>6. ASSUME NEW t \in Threads, Flock(t) PROVE ThreadTypes'
  BY <1>0, <1>6 DEF Flock, gcVars
<1>7. ASSUME NEW t \in Threads, LostRace(t) PROVE ThreadTypes'
  BY <1>0, <1>7 DEF LostRace, Unlock, gcVars
<1>8. ASSUME NEW t \in Threads, FillErr(t) PROVE ThreadTypes'
  <2>1. Finish(t, Failure) /\ faults' \in 0 .. MaxFaults
    BY <1>0, <1>8 DEF FillErr, Fault
  <2> QED
    BY <1>0, <1>8, <2>1, FinishTypes, AnswerFacts DEF FillErr, Unlock, gcVars
<1>9. ASSUME NEW t \in Threads, SourceOk(t) PROVE ThreadTypes'
  <2>1. req[t] \in Requests /\ Fname[req[t].key] \in Files
    BY <1>0, RequestInBlock
  <2>2. Finish(t, Reply(Exact(req[t])))
    BY <1>9, <2>1, SourceExact DEF SourceOk
  <2> QED
    BY <1>0, <1>9, <2>1, <2>2, FinishTypes, AnswerFacts DEF SourceOk, gcVars
<1>10. ASSUME NEW f \in Files, Write(f) \/ Flush(f) PROVE ThreadTypes'
  <2>1. UNCHANGED <<pc, req, res, crashes, gcs, victims>>
    BY <1>10 DEF Write, Flush, WbStep, WbCreate, WbWrite, WbKey, WbSum, WbSync, WbRename,
                 WbFail, WbReturnErr, WbEnd, threadVars, gcVars
  <2>2. lock' = lock \/ lock' = [lock EXCEPT ![f] = Free]
    BY <1>10 DEF Write, Flush, WbStep, WbCreate, WbWrite, WbKey, WbSum, WbSync, WbRename,
                 WbFail, WbReturnErr, WbEnd
  <2>3. faults' \in 0 .. MaxFaults
    BY <1>0, <1>10 DEF Write, Flush, WbStep, WbCreate, WbWrite, WbKey, WbSum, WbSync, WbRename,
                 WbFail, WbReturnErr, WbEnd, Fault
  <2> QED
    BY <1>0, <2>1, <2>2, <2>3
<1>11. CASE Gc
  <2>1. ASSUME NEW f \in Files, GcRemove(f) PROVE ThreadTypes'
    BY <1>0, <2>1 DEF GcRemove, threadVars
  <2> QED
    BY <1>0, <1>11, <2>1 DEF Gc, GcList, GcEnd, threadVars
<1>12. ASSUME NEW P, Die(P), Crash, UNCHANGED <<faults, gcs>>, victims' \in SUBSET Files
       PROVE  ThreadTypes'
  BY <1>0, <1>12, AnswerFacts DEF Die, Crash
<1>13. CASE \E p \in Procs : Kill(p)
  BY <1>0, <1>12, <1>13 DEF Kill
<1>14. CASE PowerFailure
  BY <1>0, <1>12, <1>14 DEF PowerFailure
<1> QED
  BY <1>1, <1>2, <1>3, <1>4, <1>5, <1>6, <1>7, <1>8, <1>9, <1>10, <1>11, <1>13, <1>14
     DEF Next, Step

----------------------------------------------------------------------------
\* A step of the write-back changes its stage and its temporary file only.
LEMMA WbMoves ==
    ASSUME DiskTypes, NEW f \in Files, NEW from, NEW to \in Stages, NEW tmp \in FileType,
           WbStep(f, from, to, tmp)
    PROVE  /\ wb' \in [Files -> WbType]
           /\ wb'[f].stage = to /\ wb'[f].tmp = tmp
           /\ wb'[f].key = wb[f].key /\ wb'[f].proc = wb[f].proc
           /\ \A g \in Files : g # f => wb'[g] = wb[g]
<1>1. wb \in [Files -> WbType]
  BY DEF DiskTypes, WbType
<1>2. wb[f] \in WbType
  BY <1>1
<1>3. wb' = [wb EXCEPT ![f] = [wb[f] EXCEPT !.stage = to, !.tmp = tmp]]
  BY <1>1, <1>2 DEF WbStep, WbType
<1>4. [wb[f] EXCEPT !.stage = to, !.tmp = tmp] \in WbType
  BY <1>2 DEF WbType
<1>5. wb' \in [Files -> WbType]
  BY <1>1, <1>3, <1>4
<1> QED
  BY <1>1, <1>2, <1>3, <1>5 DEF WbType

\* Before the rename, each step leaves in the temporary file what the next
\* stage relies on.
LEMMA WbWritten ==
    ASSUME DiskTypes, WriteOrder, NEW f \in Files,
           WbCreate(f) \/ WbWrite(f) \/ WbKey(f) \/ WbSum(f) \/ WbSync(f)
    PROVE  /\ UNCHANGED <<file, stable>>
           /\ wb[f].stage # "none"
           /\ \E to \in Stages \ {"none"}, tmp \in FileType :
                 WbStep(f, wb[f].stage, to, tmp) /\ Written(to, wb[f].key, tmp)
<1> DEFINE w == wb[f]
<1>0. /\ UNCHANGED <<file, stable>>
      /\ w.stage # "none"
  BY DEF WbCreate, WbWrite, WbKey, WbSum, WbSync, WbStep
<1>1. /\ w.tmp \in FileType /\ w.key \in Keys
      /\ Written(w.stage, w.key, w.tmp)
  BY <1>0 DEF DiskTypes, WriteOrder, WbType
<1>3. CASE WbCreate(f)
  <2>1. Empty \in FileType
    BY DEF Absent, Empty, FileType
  <2>2. WbStep(f, w.stage, "write", Empty)
    BY <1>3 DEF WbCreate, WbStep
  <2> QED
    BY <1>0, <2>1, <2>2 DEF Stages, Written
<1>4. CASE WbWrite(f)
  <2> DEFINE c == [w.tmp EXCEPT !.data = Whole(w.key)]
  <2>1. c \in FileType /\ c.data = Whole(w.key)
    BY <1>1 DEF FileType
  <2>2. WbStep(f, w.stage, "key", c)
    BY <1>4 DEF WbWrite, WbStep
  <2> HIDE DEF c
  <2> QED
    BY <1>0, <2>1, <2>2 DEF Stages, Written
<1>5. CASE WbKey(f)
  <2> DEFINE c == [w.tmp EXCEPT !.key = w.key]
  <2>1. c \in FileType /\ c.data = w.tmp.data /\ c.key = w.key
    BY <1>1 DEF FileType
  <2>2. WbStep(f, w.stage, "sum", c) /\ w.stage = "key"
    BY <1>5 DEF WbKey, WbStep
  <2> HIDE DEF c
  <2> QED
    BY <1>0, <1>1, <2>1, <2>2 DEF Stages, Written
<1>6. CASE WbSum(f)
  <2> DEFINE c == [w.tmp EXCEPT !.sum = TRUE]
  <2>1. c \in FileType /\ c.data = w.tmp.data /\ c.key = w.tmp.key /\ c.sum
    BY <1>1 DEF FileType
  <2>2. WbStep(f, w.stage, "sync", c) /\ w.stage = "sum"
    BY <1>6 DEF WbSum, WbStep
  <2> HIDE DEF c
  <2> QED
    BY <1>0, <1>1, <2>1, <2>2 DEF Stages, Written
<1>7. CASE WbSync(f)
  <2> DEFINE c == [w.tmp EXCEPT !.synced = TRUE]
  <2>1. /\ c \in FileType /\ c.data = w.tmp.data /\ c.key = w.tmp.key
        /\ w.tmp.sum => c.sum
        /\ c.synced
    BY <1>1 DEF FileType
  <2>2. WbStep(f, w.stage, "rename", c) /\ w.stage = "sync"
    BY <1>7 DEF WbSync, WbStep
  <2> HIDE DEF c
  <2> QED
    BY <1>0, <1>1, <2>1, <2>2 DEF Stages, Written
<1> QED
  BY <1>3, <1>4, <1>5, <1>6, <1>7

\* Files and write-backs keep their types.
LEMMA DiskTypesStep == DiskInv /\ [Next]_vars => DiskTypes'
<1> SUFFICES ASSUME DiskInv, [Next]_vars PROVE DiskTypes'
  OBVIOUS
<1>0. ThreadTypes /\ DiskTypes /\ WriteOrder
  BY DEF DiskInv
<1> USE DEF DiskTypes
<1>a. Absent \in FileType /\ Empty \in FileType
  BY DEF Absent, Empty, FileType
<1>n. NoWb \in WbType
  BY <1>a DEF NoWb, Stages, WbType
<1>1. CASE UNCHANGED <<file, stable, wb>>
  BY <1>0, <1>1
<1>2. ASSUME NEW t \in Threads, SourceOk(t) PROVE DiskTypes'
  <2>1. req[t].key \in Keys /\ Fname[req[t].key] \in Files /\ ProcOf[t] \in Procs
    BY <1>0, RequestInBlock DEF ThreadTypes
  <2>2. [stage |-> "create", key |-> req[t].key, proc |-> ProcOf[t], tmp |-> Absent] \in WbType
    BY <1>a, <2>1 DEF WbType, Stages
  <2> QED
    BY <1>0, <1>2, <2>2, <2>1 DEF SourceOk, diskVars
<1>3. ASSUME NEW f \in Files, WbCreate(f) \/ WbWrite(f) \/ WbKey(f) \/ WbSum(f) \/ WbSync(f)
      PROVE  DiskTypes'
  BY <1>0, <1>3, WbWritten, WbMoves
<1>4. ASSUME NEW f \in Files, WbRename(f) PROVE DiskTypes'
  <2>1. wb' \in [Files -> WbType]
    BY <1>0, <1>a, <1>4, WbMoves DEF WbRename, Stages
  <2>2. file' = [file EXCEPT ![f] = wb[f].tmp] /\ stable' = stable
    BY <1>4 DEF WbRename, WbStep
  <2>3. wb[f].tmp \in FileType
    BY <1>0 DEF WbType
  <2> QED
    BY <1>0, <2>1, <2>2, <2>3
<1>5. ASSUME NEW f \in Files, WbFail(f) \/ WbEnd(f) PROVE DiskTypes'
  BY <1>0, <1>n, <1>5 DEF WbFail, WbReturnErr, WbEnd, diskVars
<1>6. ASSUME NEW f \in Files, Flush(f) PROVE DiskTypes'
  BY <1>0, <1>6 DEF Flush
<1>7. ASSUME NEW f \in Files, GcRemove(f) PROVE DiskTypes'
  BY <1>0, <1>a, <1>7 DEF GcRemove
<1>8. ASSUME NEW P, Die(P)
      PROVE  wb' \in [Files -> WbType]
  BY <1>0, <1>n, <1>8 DEF Die
<1>9. ASSUME NEW p \in Procs, Kill(p) PROVE DiskTypes'
  BY <1>0, <1>8, <1>9 DEF Kill, diskVars
<1>10. CASE PowerFailure
  <2>1. \A f \in Files : Torn(file[f]) \cup Torn(stable[f]) \subseteq FileType
    BY <1>0, SoundFacts DEF WriteOrder
  <2>2. /\ file' \in [Files -> UNION {Torn(file[f]) \cup Torn(stable[f]) : f \in Files}]
        /\ \A f \in Files : file'[f] \in Torn(file[f]) \cup Torn(stable[f])
        /\ stable' = file'
    BY <1>10 DEF PowerFailure
  <2> QED
    BY <1>8, <1>10, <2>1, <2>2 DEF PowerFailure
<1> QED
  <2>1. ASSUME NEW t \in Threads, Begin(t) \/ Step(t) PROVE DiskTypes'
    BY <1>1, <1>2, <2>1 DEF Begin, Step, OpenHit, OpenHitErr, OpenMiss, Flock, FlockErr,
       LostRace, StillMissing, FillErr, diskVars
  <2>2. ASSUME NEW f \in Files, Write(f) PROVE DiskTypes'
    BY <1>3, <1>4, <1>5, <2>2 DEF Write
  <2>3. CASE Gc
    BY <1>1, <1>7, <2>3 DEF Gc, GcList, GcEnd, diskVars
  <2> QED
    BY <1>1, <1>6, <1>9, <1>10, <2>1, <2>2, <2>3 DEF Next, vars

\* The write-back names a file only when it is whole and fsynced, and a power
\* failure finds, and leaves, only such files.
LEMMA WriteOrderStep == DiskInv /\ [Next]_vars => WriteOrder'
<1> SUFFICES ASSUME DiskInv, [Next]_vars PROVE WriteOrder'
  OBVIOUS
<1>0. ThreadTypes /\ DiskTypes /\ WriteOrder
  BY DEF DiskInv
<1>1. CASE UNCHANGED <<file, stable, wb>>
  BY <1>0, <1>1 DEF WriteOrder
<1>2. ASSUME NEW t \in Threads, SourceOk(t) PROVE WriteOrder'
  <2>1. req[t].key \in Keys /\ Fname[req[t].key] \in Files /\ ProcOf[t] \in Procs
    BY <1>0, RequestInBlock DEF ThreadTypes
  <2> QED
    BY <1>0, <1>2, <2>1 DEF SourceOk, diskVars, DiskTypes, WriteOrder, Written
<1>3. ASSUME NEW f \in Files, WbCreate(f) \/ WbWrite(f) \/ WbKey(f) \/ WbSum(f) \/ WbSync(f)
      PROVE  WriteOrder'
  <2>1. PICK to \in Stages \ {"none"}, tmp \in FileType :
              WbStep(f, wb[f].stage, to, tmp) /\ Written(to, wb[f].key, tmp)
    BY <1>0, <1>3, WbWritten
  <2>2. wb[f].stage # "none" /\ UNCHANGED <<file, stable>>
    BY <1>0, <1>3, WbWritten
  <2>3. /\ wb'[f].stage = to /\ wb'[f].tmp = tmp
        /\ wb'[f].key = wb[f].key /\ wb'[f].proc = wb[f].proc
        /\ \A g \in Files : g # f => wb'[g] = wb[g]
    BY <1>0, <2>1, WbMoves
  <2> QED
    BY <1>0, <2>1, <2>2, <2>3 DEF WriteOrder
<1>4. ASSUME NEW f \in Files, WbRename(f) PROVE WriteOrder'
  <2>1. /\ wb[f].key \in Keys /\ wb[f].proc \in Procs
        /\ Sound(wb[f].tmp)
    BY <1>0, <1>4 DEF WbRename, WbStep, WriteOrder, Written, Sound
  <2>2. \A g \in Files : Sound(file'[g]) /\ Sound(stable'[g])
    BY <1>0, <1>4, <2>1 DEF WbRename, WbStep, DiskTypes, WriteOrder
  <2>3. /\ wb'[f].stage = "end" /\ wb'[f].key = wb[f].key /\ wb'[f].proc = wb[f].proc
        /\ \A g \in Files : g # f => wb'[g] = wb[g]
    <3>1. Absent \in FileType
      BY DEF Absent, FileType
    <3> QED
      BY <1>0, <1>4, <3>1, WbMoves DEF WbRename, Stages
  <2> QED
    BY <1>0, <2>1, <2>2, <2>3 DEF WriteOrder, Written
<1>5. ASSUME NEW f \in Files, WbFail(f) \/ WbEnd(f) PROVE WriteOrder'
  BY <1>0, <1>5 DEF WbFail, WbReturnErr, WbEnd, diskVars, DiskTypes, WriteOrder, NoWb
<1>6. ASSUME NEW f \in Files, Flush(f) PROVE WriteOrder'
  BY <1>0, <1>6 DEF Flush, DiskTypes, WriteOrder
<1>7. ASSUME NEW f \in Files, GcRemove(f) PROVE WriteOrder'
  BY <1>0, <1>7 DEF GcRemove, DiskTypes, WriteOrder, Sound, Absent
<1>8. ASSUME NEW P, Die(P), NEW f \in Files
      PROVE  wb'[f] = NoWb \/ wb'[f] = wb[f]
  BY <1>8 DEF Die
<1>9. ASSUME NEW p \in Procs, Kill(p) PROVE WriteOrder'
  BY <1>0, <1>8, <1>9 DEF Kill, diskVars, WriteOrder, NoWb
<1>10. CASE PowerFailure
  <2>1. \A f \in Files : \A c \in Torn(file[f]) \cup Torn(stable[f]) : Sound(c)
    BY <1>0, SoundFacts DEF WriteOrder, DiskTypes
  <2>2. \A f \in Files : Sound(file'[f]) /\ Sound(stable'[f])
    BY <1>10, <2>1 DEF PowerFailure
  <2> QED
    BY <1>0, <1>8, <1>10, <2>2 DEF PowerFailure, WriteOrder, NoWb
<1> QED
  <2>1. ASSUME NEW t \in Threads, Begin(t) \/ Step(t) PROVE WriteOrder'
    BY <1>1, <1>2, <2>1 DEF Begin, Step, OpenHit, OpenHitErr, OpenMiss, Flock, FlockErr,
       LostRace, StillMissing, FillErr, diskVars
  <2>2. ASSUME NEW f \in Files, Write(f) PROVE WriteOrder'
    BY <1>3, <1>4, <1>5, <2>2 DEF Write
  <2>3. CASE Gc
    BY <1>1, <1>7, <2>3 DEF Gc, GcList, GcEnd, diskVars
  <2> QED
    BY <1>1, <1>6, <1>9, <1>10, <2>1, <2>2, <2>3 DEF Next, vars

----------------------------------------------------------------------------
\* Who holds the flock.
LEMMA LockOwnedStep == DiskInv /\ [Next]_vars => LockOwned'
<1> SUFFICES ASSUME DiskInv, [Next]_vars PROVE LockOwned'
  OBVIOUS
<1>0. ThreadTypes /\ DiskTypes /\ WriteOrder /\ LockOwned
  BY DEF DiskInv
<1>k. \A t \in Threads : Fname[req[t].key] \in Files
  BY <1>0, RequestInBlock DEF ThreadTypes
<1>1. CASE UNCHANGED <<lock, wb, pc, req>>
  BY <1>0, <1>1 DEF LockOwned
\* A goroutine outside the flock moves, and stays outside.
<1>2. ASSUME NEW t \in Threads, pc[t] \notin {"check", "source"},
             pc' = [pc EXCEPT ![t] = pc'[t]], pc'[t] \notin {"check", "source"},
             \A u \in Threads : u # t => req'[u] = req[u],
             UNCHANGED <<lock, wb>>
      PROVE  LockOwned'
  BY <1>0, <1>k, <1>2 DEF LockOwned, ThreadTypes
<1>3. ASSUME NEW t \in Threads, Begin(t) \/ OpenHit(t) \/ OpenHitErr(t) \/ OpenMiss(t) \/ FlockErr(t)
      PROVE  LockOwned'
  <2>1. UNCHANGED <<lock, wb>>
    BY <1>3 DEF Begin, OpenHit, OpenHitErr, OpenMiss, FlockErr
  <2>2. /\ pc[t] \notin {"check", "source"} /\ pc'[t] \notin {"check", "source"}
        /\ pc' = [pc EXCEPT ![t] = pc'[t]]
    BY <1>0, <1>3 DEF Begin, OpenHit, OpenHitErr, OpenMiss, FlockErr, Finish, ThreadTypes
  <2>3. \A u \in Threads : u # t => req'[u] = req[u]
    BY <1>0, <1>3 DEF Begin, OpenHit, OpenHitErr, OpenMiss, FlockErr, ThreadTypes
  <2> QED
    BY <1>2, <2>1, <2>2, <2>3
<1>4. ASSUME NEW t \in Threads, Flock(t) PROVE LockOwned'
  BY <1>0, <1>k, <1>4 DEF Flock, LockOwned, ThreadTypes
<1>5. ASSUME NEW t \in Threads, StillMissing(t) PROVE LockOwned'
  BY <1>0, <1>k, <1>5 DEF StillMissing, LockOwned, ThreadTypes
<1>6. ASSUME NEW t \in Threads, LostRace(t) \/ FillErr(t) PROVE LockOwned'
  <2>1. /\ UNCHANGED <<wb, req>> /\ pc[t] \in {"check", "source"}
        /\ pc' = [pc EXCEPT ![t] = pc'[t]] /\ pc'[t] \notin {"check", "source"}
        /\ lock' = [lock EXCEPT ![Fname[req[t].key]] = Free]
    BY <1>0, <1>6 DEF LostRace, FillErr, Finish, Unlock, ThreadTypes
  <2> QED
    BY <1>0, <1>k, <2>1 DEF LockOwned, ThreadTypes
<1>7. ASSUME NEW t \in Threads, SourceOk(t) PROVE LockOwned'
  <2> DEFINE f == Fname[req[t].key]
  <2>1. /\ UNCHANGED req /\ pc[t] = "source"
        /\ pc' = [pc EXCEPT ![t] = "idle"]
        /\ lock' = [lock EXCEPT ![f] = f]
        /\ f \in Files
    BY <1>7, <1>k DEF SourceOk, Finish
  <2>2. wb'[f].stage = "create" /\ \A g \in Files : g # f => wb'[g] = wb[g]
    BY <1>0, <1>7, <1>k DEF SourceOk, DiskTypes
  <2> HIDE DEF f
  <2>3. lock[f] = t
    BY <1>0, <2>1 DEF LockOwned, f
  <2> QED
    BY <1>0, <1>k, <2>1, <2>2, <2>3 DEF LockOwned, ThreadTypes
<1>8. ASSUME NEW f \in Files, WbCreate(f) \/ WbWrite(f) \/ WbKey(f) \/ WbSum(f) \/ WbSync(f)
      PROVE  LockOwned'
  <2>1. /\ wb[f].stage # "none" /\ wb'[f].stage # "none"
        /\ \A g \in Files : g # f => wb'[g] = wb[g]
    BY <1>0, <1>8, WbWritten, WbMoves
  <2>2. UNCHANGED <<lock, pc, req>>
    BY <1>8 DEF WbCreate, WbWrite, WbKey, WbSum, WbSync, WbStep, threadVars
  <2> QED
    BY <1>0, <2>1, <2>2 DEF LockOwned
<1>9. ASSUME NEW f \in Files, WbRename(f) PROVE LockOwned'
  <2>1. Absent \in FileType
    BY DEF Absent, FileType
  <2>2. /\ wb[f].stage # "none" /\ wb'[f].stage # "none"
        /\ \A g \in Files : g # f => wb'[g] = wb[g]
    BY <1>0, <1>9, <2>1, WbMoves DEF WbRename, WbStep, Stages
  <2>3. UNCHANGED <<lock, pc, req>>
    BY <1>9 DEF WbRename, WbStep, threadVars
  <2> QED
    BY <1>0, <2>2, <2>3 DEF LockOwned
<1>10. ASSUME NEW f \in Files, WbFail(f) \/ WbEnd(f) PROVE LockOwned'
  <2>1. /\ wb[f].stage # "none"
        /\ wb' = [wb EXCEPT ![f] = NoWb]
        /\ lock' = [lock EXCEPT ![f] = Free]
        /\ UNCHANGED <<pc, req>>
    BY <1>10 DEF WbFail, WbReturnErr, WbEnd, threadVars
  <2>2. lock[f] = f
    BY <1>0, <2>1 DEF LockOwned
  <2> QED
    BY <1>0, <1>k, <2>1, <2>2 DEF LockOwned, ThreadTypes, DiskTypes, NoWb
<1>11. ASSUME NEW P \in SUBSET Procs, Die(P) PROVE LockOwned'
  <2> DEFINE dead == {t \in Threads : ProcOf[t] \in P}
             lost == {f \in Files : wb[f].proc \in P}
  <2>1. /\ pc' = [t \in Threads |-> IF t \in dead THEN "idle" ELSE pc[t]]
        /\ lock' = [f \in Files |-> IF f \in lost \/ lock[f] \in dead THEN Free ELSE lock[f]]
        /\ wb' = [f \in Files |-> IF f \in lost THEN NoWb ELSE wb[f]]
        /\ req' = req
    BY <1>11 DEF Die
  <2>2. \A f \in lost : wb[f].stage # "none" /\ lock[f] = f
    BY <1>0 DEF WriteOrder, LockOwned
  <2>3. \A t \in dead : t \in Threads
    OBVIOUS
  <2> HIDE DEF dead, lost
  <2>4. NoWb.stage = "none"
    BY DEF NoWb
  <2>5. ASSUME NEW t \in Threads, pc'[t] \in {"check", "source"}
        PROVE  lock'[Fname[req'[t].key]] = t
    <3>1. t \notin dead /\ pc[t] \in {"check", "source"} /\ lock[Fname[req[t].key]] = t
      BY <1>0, <2>1, <2>5 DEF LockOwned
    <3>2. Fname[req[t].key] \notin lost
      BY <1>k, <2>2, <3>1
    <3> QED
      BY <1>k, <2>1, <3>1, <3>2
  <2>6. ASSUME NEW f \in Files PROVE (wb'[f].stage # "none") <=> (lock'[f] = f)
    <3>1. lock[f] \in dead => lock[f] # f
      BY <2>3
    <3> QED
      BY <1>0, <2>1, <2>2, <2>4, <3>1 DEF LockOwned
  <2>7. ASSUME NEW f \in Files, lock'[f] \in Threads
        PROVE  pc'[lock'[f]] \in {"check", "source"} /\ Fname[req'[lock'[f]].key] = f
    BY <1>0, <2>1, <2>7 DEF LockOwned
  <2> QED
    BY <2>5, <2>6, <2>7 DEF LockOwned
<1>12. CASE (\E p \in Procs : Kill(p)) \/ PowerFailure
  BY <1>11, <1>12 DEF Kill, PowerFailure
<1> QED
  <2>1. ASSUME NEW t \in Threads, Begin(t) \/ Step(t) PROVE LockOwned'
    BY <1>3, <1>4, <1>5, <1>6, <1>7, <2>1 DEF Step
  <2>2. ASSUME NEW f \in Files, Write(f) PROVE LockOwned'
    BY <1>8, <1>9, <1>10, <2>2 DEF Write
  <2>3. CASE Gc
    BY <1>1, <2>3 DEF Gc, GcList, GcEnd, GcRemove, threadVars
  <2>4. ASSUME NEW f \in Files, Flush(f) PROVE LockOwned'
    BY <1>1, <2>4 DEF Flush, threadVars
  <2> QED
    BY <1>1, <1>12, <2>1, <2>2, <2>3, <2>4 DEF Next, vars

\* Under the flock the answer of the second look stays true: only the holder's
\* own write-back can create the file, and it starts after the holder is done.
LEMMA FetchStep == DiskInv /\ [Next]_vars => FetchOnlyMissing'
<1> SUFFICES ASSUME DiskInv, [Next]_vars, faults' = 0, NEW t \in Threads, pc'[t] = "source"
             PROVE  ~Hit(t)'
  BY DEF FetchOnlyMissing
<1>0. ThreadTypes /\ DiskTypes /\ WriteOrder /\ LockOwned /\ FetchOnlyMissing
  BY DEF DiskInv
<1>k. \A u \in Threads : Fname[req[u].key] \in Files
  BY <1>0, RequestInBlock DEF ThreadTypes
<1>h. ASSUME UNCHANGED file, req'[t] = req[t] PROVE Hit(t)' = Hit(t)
  BY <1>h DEF Hit
<1>1. ASSUME NEW u \in Threads, Begin(u) \/ Step(u) PROVE ~Hit(t)'
  <2>1. file' = file
    BY <1>1 DEF Begin, Step, OpenHit, OpenHitErr, OpenMiss, Flock, FlockErr, LostRace,
                StillMissing, FillErr, SourceOk, diskVars
  <2>2. CASE StillMissing(u) /\ u = t
    BY <1>0, <2>1, <2>2 DEF StillMissing, Fault, ThreadTypes, Hit
  <2>3. CASE ~(StillMissing(u) /\ u = t)
    <3>1. pc[t] = "source" /\ req'[t] = req[t]
      BY <1>0, <1>1, <2>3 DEF Begin, Step, OpenHit, OpenHitErr, OpenMiss, Flock, FlockErr,
         LostRace, StillMissing, FillErr, SourceOk, Finish, ThreadTypes
    <3>2. faults = 0
      BY <1>0, <1>1 DEF Begin, Step, OpenHit, OpenHitErr, OpenMiss, Flock, FlockErr,
         LostRace, StillMissing, FillErr, SourceOk, Fault, ThreadTypes
    <3> QED
      BY <1>0, <2>1, <3>1, <3>2 DEF FetchOnlyMissing, Hit
  <2> QED
    BY <2>2, <2>3
<1>2. ASSUME UNCHANGED <<pc, req>>, faults = 0,
             file'[Fname[req[t].key]] = file[Fname[req[t].key]] \/ ~file'[Fname[req[t].key]].there
      PROVE  ~Hit(t)'
  BY <1>0, <1>2 DEF FetchOnlyMissing, Hit
<1>3. ASSUME NEW f \in Files, Write(f) PROVE ~Hit(t)'
  <2>1. UNCHANGED <<pc, req>>
    BY <1>3 DEF Write, WbStep, WbCreate, WbWrite, WbKey, WbSum, WbSync, WbRename,
                WbFail, WbReturnErr, WbEnd, threadVars
  <2>2. faults = 0
    BY <1>0, <1>3 DEF Write, WbStep, WbCreate, WbWrite, WbKey, WbSum, WbSync, WbRename,
                WbFail, WbReturnErr, WbEnd, Fault, ThreadTypes
  <2>3. file' = file \/ (wb[f].stage # "none" /\ file' = [file EXCEPT ![f] = wb[f].tmp])
    BY <1>3 DEF Write, WbStep, WbCreate, WbWrite, WbKey, WbSum, WbSync, WbRename,
                WbFail, WbReturnErr, WbEnd, diskVars
  <2>4. lock[Fname[req[t].key]] = t
    BY <1>0, <2>1 DEF LockOwned
  <2>5. wb[f].stage # "none" => f # Fname[req[t].key]
    BY <1>0, <2>4 DEF LockOwned
  <2> QED
    BY <1>0, <1>2, <1>k, <2>1, <2>2, <2>3, <2>5 DEF DiskTypes
<1>4. ASSUME NEW f \in Files, GcRemove(f) PROVE ~Hit(t)'
  <2>1. UNCHANGED <<pc, req, faults>>
    BY <1>4 DEF GcRemove, threadVars
  <2>2. \A g \in Files : file'[g] = file[g] \/ ~file'[g].there
    BY <1>0, <1>4 DEF GcRemove, DiskTypes, Absent
  <2> QED
    BY <1>2, <1>k, <2>1, <2>2
<1>5. CASE UNCHANGED <<file, pc, req, faults>>
  BY <1>2, <1>5
<1>6. ASSUME NEW p \in Procs, Kill(p) PROVE ~Hit(t)'
  <2>1. pc[t] = "source" /\ UNCHANGED <<file, req, faults>>
    BY <1>6 DEF Kill, Die, diskVars
  <2> QED
    BY <1>0, <2>1 DEF FetchOnlyMissing, Hit
<1>7. CASE PowerFailure
  BY <1>7 DEF PowerFailure, Die
<1> QED
  BY <1>1, <1>3, <1>4, <1>5, <1>6, <1>7
     DEF Next, Gc, GcList, GcEnd, Flush, vars, diskVars, threadVars

\* Every step preserves the invariant.
LEMMA DiskInvNext == DiskInv /\ [Next]_vars => DiskInv'
  BY ThreadTypesStep, DiskTypesStep, WriteOrderStep, LockOwnedStep, FetchStep DEF DiskInv

\* The invariant holds in every state.
LEMMA DiskCorrect == Spec => []DiskInv
  BY DiskInvNext, InitDisk, PTL DEF Spec

\* What is in the cache is complete: whatever process dies and whenever the
\* power fails, a file under its final name passes the integrity check
\* (diskSlice.fill, DiskSlicer.CheckIntegrity).
THEOREM CacheComplete == Spec => []EntriesComplete
<1>1. DiskInv => EntriesComplete
  BY SoundFacts DEF DiskInv, DiskTypes, WriteOrder, EntriesComplete
<1> QED
  BY <1>1, DiskCorrect, PTL

\* Nobody reads the source for a block that is in the cache: the second look
\* under the flock (diskSlice.fill) works for any number of processes.
THEOREM SecondLook == Spec => []FetchOnlyMissing
  BY DiskCorrect, PTL DEF DiskInv

\* Every flock is held by a goroutine that is past it or by a running
\* write-back, of which there is one per file: no error return, crash or power
\* failure leaves a flock that nobody will release.
THEOREM FlockReleased == Spec => []LockOwned
  BY DiskCorrect, PTL DEF DiskInv

----------------------------------------------------------------------------
(* Temporary files *)

\* A crash leaves at most one temporary file per cache file.
LEMMA DieOrphans ==
    ASSUME orphans \in Nat, NEW P, Die(P)
    PROVE  orphans' \in Nat /\ orphans' <= orphans + Cardinality(Files)
<1> DEFINE left == {f \in {g \in Files : wb[g].proc \in P} : wb[f].tmp.there}
<1>1. orphans' = orphans + Cardinality(left)
  BY DEF Die
<1>2. left \in SUBSET Files
  OBVIOUS
<1> HIDE DEF left
<1>3. IsFiniteSet(left) /\ Cardinality(left) <= Cardinality(Files)
  BY <1>2, FS_Subset
<1>4. Cardinality(left) \in Nat /\ Cardinality(Files) \in Nat
  BY <1>3, FS_CardinalityType
<1> QED
  BY <1>1, <1>3, <1>4

\* Arithmetic of the bound.
LEMMA OneMoreCrash ==
    ASSUME NEW c \in Nat, NEW n \in Nat
    PROVE  /\ c * n \in Nat
           /\ (c + 1) * n = c * n + n
           /\ \A d \in Nat : c <= d => c * n <= d * n
  OBVIOUS

OrphansBounded == /\ orphans \in Nat /\ unremoved \in Nat /\ unremoved <= faults
                  /\ NoStrayTemp

\* Arithmetic of one failed removal, and of the whole.
LEMMA OneMoreLeft ==
    ASSUME NEW o \in Nat, NEW u \in Nat, NEW x \in Nat, o <= x + u
    PROVE  /\ \A d \in {0, 1} : o + d \in Nat /\ u + d \in Nat /\ o + d <= x + (u + d)
           /\ \A y \in Nat, m \in Nat : x <= y /\ u <= m => o \in 0 .. y + m /\ u \in 0 .. m
           /\ \A n \in Nat, p \in Nat : p <= o + n => p <= (x + n) + u
  OBVIOUS

\* A write-back that fails leaves its temporary file only if its removal fails.
LEMMA WbFailOrphans ==
    ASSUME OrphansBounded, faults \in Nat, crashes \in Nat, NEW f \in Files, WbFail(f)
    PROVE  OrphansBounded'
<1> DEFINE x == crashes * Cardinality(Files)
<1>1. x \in Nat /\ orphans <= x + unremoved
  BY FS_CardinalityType, OneMoreCrash DEF OrphansBounded, NoStrayTemp
<1>2. x' = x /\ faults' = faults + 1
  BY DEF WbFail, WbReturnErr, Fault, gcVars
<1> HIDE DEF x
<1>3. PICK d \in {0, 1} : orphans' = orphans + d /\ unremoved' = unremoved + d
  <2>1. CASE UNCHANGED strays
    BY <2>1 DEF strays, OrphansBounded
  <2>2. CASE orphans' = orphans + TmpLeft(f) /\ unremoved' = unremoved + TmpLeft(f)
    BY <2>2 DEF TmpLeft
  <2> QED
    BY <2>1, <2>2 DEF WbFail
<1>4. /\ orphans' \in Nat /\ unremoved' \in Nat /\ unremoved' <= faults'
      /\ orphans' <= x + unremoved'
  <2>1. orphans \in Nat /\ unremoved \in Nat /\ unremoved <= faults
    BY DEF OrphansBounded
  <2> QED
    BY <1>1, <1>2, <1>3, <2>1, OneMoreLeft
<1> QED
  BY <1>2, <1>4 DEF OrphansBounded, NoStrayTemp, x

\* Temporary files are left behind only by processes that died and by removals
\* that failed: every error return of the write-back tries to remove its own
\* (diskSlice.fill, Abort).
LEMMA OrphansCorrect == Spec => []OrphansBounded
<1>n. Cardinality(Files) \in Nat
  BY FS_CardinalityType
<1>1. Init => OrphansBounded
  BY <1>n, OneMoreCrash DEF Init, OrphansBounded, NoStrayTemp
<1>2. DiskInv /\ OrphansBounded /\ [Next]_vars => OrphansBounded'
  <2> SUFFICES ASSUME DiskInv, OrphansBounded, [Next]_vars PROVE OrphansBounded'
    OBVIOUS
  <2>0. faults \in 0 .. MaxFaults /\ faults' \in 0 .. MaxFaults /\ crashes \in Nat
    BY DiskInvNext DEF DiskInv, ThreadTypes
  <2>1. ASSUME UNCHANGED <<orphans, unremoved, crashes>>, faults' = faults \/ Fault
        PROVE  OrphansBounded'
    BY <2>0, <2>1 DEF OrphansBounded, NoStrayTemp, Fault
  <2>2. ASSUME NEW P, Die(P), Crash, UNCHANGED faults PROVE OrphansBounded'
    <3> DEFINE x == crashes * Cardinality(Files)
               y == crashes' * Cardinality(Files)
    <3>1. crashes' = crashes + 1
      BY <2>2 DEF Crash
    <3>2. orphans' \in Nat /\ orphans' <= orphans + Cardinality(Files)
      BY <2>2, DieOrphans DEF OrphansBounded
    <3>3. x \in Nat /\ y = x + Cardinality(Files) /\ orphans <= x + unremoved
      BY <1>n, <2>0, <3>1, OneMoreCrash DEF OrphansBounded, NoStrayTemp
    <3> HIDE DEF x, y
    <3>4. orphans \in Nat /\ unremoved \in Nat /\ unremoved' = unremoved
      BY <2>2 DEF OrphansBounded, Die
    <3>5. orphans' <= y + unremoved'
      BY <1>n, <3>2, <3>3, <3>4, OneMoreLeft
    <3> QED
      BY <2>2, <3>2, <3>4, <3>5 DEF OrphansBounded, NoStrayTemp, y
  <2>3. CASE (\E p \in Procs : Kill(p)) \/ PowerFailure
    BY <2>2, <2>3 DEF Kill, PowerFailure
  <2>4. ASSUME NEW t \in Threads, Begin(t) \/ Step(t) PROVE OrphansBounded'
    <3>1. UNCHANGED <<orphans, unremoved, crashes>>
      BY <2>4 DEF Begin, Step, OpenHit, OpenHitErr, OpenMiss, Flock, FlockErr, LostRace,
                  StillMissing, FillErr, SourceOk, gcVars, strays
    <3>2. faults' = faults \/ Fault
      BY <2>4 DEF Begin, Step, OpenHit, OpenHitErr, OpenMiss, Flock, FlockErr, LostRace,
                  StillMissing, FillErr, SourceOk
    <3> QED
      BY <2>1, <3>1, <3>2
  <2>5. ASSUME NEW f \in Files, Write(f) \/ Flush(f), ~WbFail(f) PROVE OrphansBounded'
    BY <2>1, <2>5 DEF Write, Flush, WbStep, WbCreate, WbWrite, WbKey, WbSum, WbSync, WbRename,
                      WbEnd, gcVars, strays
  <2>6. ASSUME NEW f \in Files, WbFail(f) PROVE OrphansBounded'
    BY <2>0, <2>6, WbFailOrphans
  <2>7. CASE Gc
    BY <2>1, <2>7 DEF Gc, GcList, GcEnd, GcRemove, strays
  <2> QED
    BY <2>1, <2>3, <2>4, <2>5, <2>6, <2>7 DEF Next, vars
<1> QED
  BY <1>1, <1>2, DiskCorrect, PTL DEF Spec

\* Temporary files are left behind only by processes that died and by removals
\* that failed: every error return of the write-back tries to remove its own
\* (diskSlice.fill, Abort).
THEOREM TempFilesCleaned == Spec => []NoStrayTemp
  BY OrphansCorrect, PTL DEF OrphansBounded

\* The types of the whole state of the cache directory and of its users.
THEOREM DiskTypeCorrect == Spec => []TypeOK
<1>1. DiskInv /\ OrphansBounded => TypeOK
  <2> SUFFICES ASSUME DiskInv, OrphansBounded PROVE TypeOK
    OBVIOUS
  <2>1. \A a \in Answers : a.err \in {"none", "nil", "EOF", "fail"}
    BY DEF Answers, NoReply, Failure, Reply
  <2>2. \A t \in Threads : res[t].err \in {"none", "nil", "EOF", "fail"}
    BY <2>1 DEF DiskInv, ThreadTypes
  <2>3. /\ orphans \in 0 .. MaxCrashes * Cardinality(Files) + MaxFaults
        /\ unremoved \in 0 .. MaxFaults
    <3>1. Cardinality(Files) \in Nat
      BY FS_CardinalityType
    <3>2. crashes * Cardinality(Files) <= MaxCrashes * Cardinality(Files)
      BY <3>1, OneMoreCrash DEF DiskInv, ThreadTypes
    <3>3. crashes * Cardinality(Files) \in Nat /\ MaxCrashes * Cardinality(Files) \in Nat
      BY <3>1, OneMoreCrash DEF DiskInv, ThreadTypes
    <3> DEFINE x == crashes * Cardinality(Files)
               y == MaxCrashes * Cardinality(Files)
    <3>4. /\ x \in Nat /\ y \in Nat /\ x <= y
          /\ orphans \in Nat /\ unremoved \in Nat /\ orphans <= x + unremoved
      BY <3>2, <3>3 DEF OrphansBounded, NoStrayTemp
    <3>5. MaxFaults \in Nat /\ unremoved <= MaxFaults
      BY DiskAssumption DEF OrphansBounded, DiskInv, ThreadTypes
    <3> HIDE DEF x, y
    <3>6. orphans \in 0 .. y + MaxFaults /\ unremoved \in 0 .. MaxFaults
      BY <3>4, <3>5, OneMoreLeft
    <3> QED
      BY <3>6 DEF y
  <2> QED
    BY <2>2, <2>3 DEF DiskInv, ThreadTypes, DiskTypes, WbType, TypeOK
<1> QED
  BY <1>1, DiskCorrect, OrphansCorrect, PTL

----------------------------------------------------------------------------
(* Refinement of the read-through object.  The first step of a read maps to *)
(* Begin, the one that answers to Return, a crash to Crash, and all that    *)
(* the cache does in between, write-backs and garbage collections included, *)
(* is invisible.                                                            *)

\* A step that leaves every reader inside or outside its call.
LEMMA ReadersUnchanged ==
    ASSUME \A r \in Readers : /\ (pc'[r] # "idle") = (pc[r] # "idle")
                              /\ req'[r] = req[r] /\ res'[r] = res[r]
    PROVE  UNCHANGED RT!vars
  BY DEF RT!vars

\* The replies of the two specifications are the same.
LEMMA SameReplies ==
    /\ Requests = RT!Requests
    /\ NoReply = RT!NoReply /\ Failure = RT!Failure
    /\ \A q : Reply(Exact(q)) = RT!Reply(RT!Exact(q))
  BY DEF Failure, RT!Failure, NoData, RT!NoData, Reply, RT!Reply, Exact, RT!Exact,
         Byte, RT!Byte, NoReply, RT!NoReply, Requests, RT!Requests

\* An idle cache is an idle read-through object.
LEMMA RefinedInit == Init => RT!Init
<1> SUFFICES ASSUME Init PROVE RT!Init
  OBVIOUS
<1>1. \A r \in Readers : pc[r] = "idle" /\ req[r] \in Requests /\ res[r] = NoReply
  BY DEF Init, Threads
<1> QED
  BY <1>1, SameReplies DEF RT!Init

\* The step that answers a reader.
LEMMA RefinedReturn ==
    ASSUME ThreadTypes, NEW t \in Readers, pc[t] # "idle", req' = req,
           NEW a \in {Reply(Exact(req[t])), Failure}, Finish(t, a)
    PROVE  RT!Return(t)
<1>1. a \in {RT!Reply(RT!Exact(req[t])), RT!Failure}
  BY SameReplies
<1>2. RT!Exact([r \in Readers |-> req[r]][t]) = RT!Exact(req[t])
  OBVIOUS
<1>3. /\ pc \in [Threads -> {"idle", "open", "lock", "check", "source"}]
      /\ res \in [Threads -> Answers] /\ t \in Threads
  BY DEF ThreadTypes, Threads
<1>4. pc' = [pc EXCEPT ![t] = "idle"] /\ res' = [res EXCEPT ![t] = a]
  BY DEF Finish
<1> HIDE DEF RT!Reply, RT!Exact, RT!Failure
<1> QED
  BY <1>1, <1>2, <1>3, <1>4 DEF RT!Return, Threads

\* The death of processes ends the calls of their readers.
LEMMA RefinedCrash ==
    ASSUME ThreadTypes, NEW P, Die(P)
    PROVE  \E D \in SUBSET Readers : RT!Crash(D)
<1> DEFINE D == {r \in Readers : ProcOf[r] \in P}
<1>1. /\ \A r \in Readers : /\ (pc'[r] # "idle") = (pc[r] # "idle" /\ r \notin D)
                            /\ res'[r] = IF r \in D THEN NoReply ELSE res[r]
      /\ req' = req
  BY DEF Die, Threads
<1>2. NoReply = RT!NoReply
  BY SameReplies
<1> HIDE DEF D
<1>3. RT!Crash(D)
  BY <1>1, <1>2 DEF RT!Crash
<1> QED
  BY <1>3 DEF D

\* Every step of the cache is a step of the read-through object, or invisible.
LEMMA RefinedStep == DiskInv /\ [Next]_vars => [RT!Next]_(RT!vars)
<1> SUFFICES ASSUME DiskInv, [Next]_vars PROVE RT!Next \/ UNCHANGED RT!vars
  OBVIOUS
<1>0. ThreadTypes
  BY DEF DiskInv
<1>1. ASSUME UNCHANGED <<pc, req, res>> PROVE UNCHANGED RT!vars
  BY <1>1, ReadersUnchanged
<1>2. ASSUME NEW t \in Readers, Begin(t) PROVE RT!Begin(t)
  <2>1. PICK q \in Requests : req' = [req EXCEPT ![t] = q]
    BY <1>2 DEF Begin
  <2>2. /\ pc[t] = "idle" /\ pc' = [pc EXCEPT ![t] = "open"]
        /\ res' = [res EXCEPT ![t] = NoReply]
    BY <1>2 DEF Begin
  <2>3. /\ pc \in [Threads -> {"idle", "open", "lock", "check", "source"}]
        /\ req \in [Threads -> Requests] /\ res \in [Threads -> Answers]
        /\ t \in Threads /\ \A r \in Readers : r \in Threads
    BY <1>0 DEF ThreadTypes, Threads
  <2>4. /\ q \in RT!Requests /\ NoReply = RT!NoReply
    BY SameReplies
  <2> HIDE DEF RT!Requests, RT!NoReply
  <2> DEFINE B  == [r \in Readers |-> pc[r] # "idle"]
             B1 == [r \in Readers |-> pc'[r] # "idle"]
  <2>5. ~B[t] /\ B1 = [B EXCEPT ![t] = TRUE]
    BY <2>2, <2>3
  <2>6. [r \in Readers |-> req'[r]] = [[r \in Readers |-> req[r]] EXCEPT ![t] = q]
    BY <2>1, <2>3
  <2>7. [r \in Readers |-> res'[r]] = [[r \in Readers |-> res[r]] EXCEPT ![t] = RT!NoReply]
    BY <2>2, <2>3, <2>4
  <2> QED
    BY <2>4, <2>5, <2>6, <2>7 DEF RT!Begin
<1>3. ASSUME NEW t \in Readers, OpenHit(t) PROVE RT!Return(t)
  BY <1>0, <1>3, HitExact, RefinedReturn DEF OpenHit, Threads
<1>4. ASSUME NEW t \in Readers, OpenHitErr(t) \/ FlockErr(t) \/ FillErr(t) PROVE RT!Return(t)
  BY <1>0, <1>4, RefinedReturn DEF OpenHitErr, FlockErr, FillErr
<1>5. ASSUME NEW t \in Readers, SourceOk(t) PROVE RT!Return(t)
  <2>1. req[t] \in Requests
    BY <1>0 DEF ThreadTypes, Threads
  <2>2. Finish(t, Reply(Exact(req[t]))) /\ pc[t] # "idle" /\ req' = req
    BY <1>5, <2>1, SourceExact DEF SourceOk
  <2> QED
    BY <1>0, <2>2, RefinedReturn
<1>6. ASSUME NEW t \in Readers, OpenMiss(t) \/ Flock(t) \/ LostRace(t) \/ StillMissing(t)
      PROVE  UNCHANGED RT!vars
  BY <1>0, <1>6, ReadersUnchanged
     DEF OpenMiss, Flock, LostRace, StillMissing, ThreadTypes, Threads
<1>7. ASSUME NEW t \in Aheads, Begin(t) \/ Step(t) PROVE UNCHANGED RT!vars
  <2>1. \A r \in Readers : r # t /\ r \in Threads
    BY DEF Threads
  <2>2. \A r \in Readers : pc'[r] = pc[r] /\ req'[r] = req[r] /\ res'[r] = res[r]
    BY <1>0, <1>7, <2>1 DEF Begin, Step, OpenHit, OpenHitErr, OpenMiss, Flock, FlockErr,
       LostRace, StillMissing, FillErr, SourceOk, Finish, ThreadTypes
  <2> QED
    BY <2>2, ReadersUnchanged
<1>8. ASSUME NEW P, Die(P) PROVE RT!Next
  BY <1>0, <1>8, RefinedCrash DEF RT!Next
<1>11. CASE (\E p \in Procs : Kill(p)) \/ PowerFailure
  BY <1>8, <1>11 DEF Kill, PowerFailure
<1>9. ASSUME NEW f \in Files, Write(f) \/ Flush(f) PROVE UNCHANGED RT!vars
  BY <1>1, <1>9 DEF Write, Flush, WbStep, WbCreate, WbWrite, WbKey, WbSum, WbSync, WbRename,
                WbFail, WbReturnErr, WbEnd, threadVars
<1>10. CASE Gc
  BY <1>1, <1>10 DEF Gc, GcList, GcEnd, GcRemove, threadVars
<1> QED
  BY <1>1, <1>2, <1>3, <1>4, <1>5, <1>6, <1>7, <1>9, <1>10, <1>11
     DEF Next, Step, RT!Next, Threads, vars

\* The disk cache implements the read-through object: a read returns exactly
\* the bytes it asked for or an error, whatever collides, fails or crashes.
THEOREM DiskRefinement == Spec => ImplementsReadThrough
<1> SUFFICES Spec => RT!Spec
  BY DEF ImplementsReadThrough
<1> QED
  BY RefinedInit, RefinedStep, DiskCorrect, PTL DEF Spec, RT!Spec
=============================================================================

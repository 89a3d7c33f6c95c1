----------------------------- MODULE DiskCache -----------------------------
(***************************************************************************)
(* pkg/caching/disk.go: the on-disk block cache, a directory shared by the *)
(* goroutines of several processes, by `vdisc cache gc` and by power       *)
(* failures.  A block is cached in the file named by the md5 of its key;   *)
(* the key itself is an extended attribute, since two keys may collide.    *)
(* A miss takes the flock of the file, looks again, reads the source,      *)
(* answers the caller and leaves the write-back, with the lock, to a       *)
(* goroutine: temporary file, data, two attributes, fsync, rename.         *)
(*                                                                         *)
(* A cache file is never changed once it has its name, so an opened file   *)
(* is a snapshot: looking up a file and reading it are one step.           *)
(***************************************************************************)
EXTENDS Blocks, FiniteSets

CONSTANTS Readers,     \* goroutines in diskSlice.ReadAt
          Aheads,      \* goroutines in diskSlice.ReadAhead
          Procs,       \* processes that use the cache
          ProcOf,      \* ProcOf[t]: the process of goroutine t
          Files,       \* names of cache files
          Fname,       \* Fname[k]: cacheFname of block k
          NoKey, Free, \* no extended attribute; an unlocked flock
          MaxFaults,   \* bound on I/O errors
          MaxCrashes,  \* bound on crashes of processes and power failures
          MaxGc        \* bound on garbage collections

Threads == Readers \cup Aheads

ASSUME DiskAssumption == /\ ProcOf \in [Threads -> Procs]
                         /\ Fname \in [Keys -> Files]
                         /\ IsFiniteSet(Files)
                         /\ NoKey \notin Keys \cup Procs
                         /\ Free \notin Threads \cup Files
                         /\ Readers \cap Aheads = {} /\ Threads \cap Files = {}
                         /\ MaxFaults \in Nat /\ MaxCrashes \in Nat /\ MaxGc \in Nat

VARIABLES
    file,     \* file[f]: the cache file named f
    stable,   \* stable[f]: what the disk holds under that name (external)
    lock,     \* lock[f]: who holds the flock: a goroutine, or f's write-back
    wb,       \* wb[f]: the write-back goroutine for f
    orphans,  \* temporary files that were left behind
    unremoved,   \* failed removals of a temporary file
    pc, req, res,   \* of each goroutine
    faults, crashes, gcs,   \* how many of each so far
    victims   \* the victims that the running garbage collection has listed

diskVars   == <<file, stable>>
threadVars == <<pc, req, res>>
gcVars     == <<crashes, gcs, victims>>
strays     == <<orphans, unremoved>>
vars       == <<file, stable, lock, wb, orphans, unremoved, pc, req, res, faults, crashes,
                gcs, victims>>

\* A file: its attributes, its bytes, and whether it was fsynced.
Whole(k) == [i \in 0 .. Size[k] - 1 |-> Byte(k, i)]
Absent   == [key |-> NoKey, sum |-> FALSE, data |-> NoData, synced |-> FALSE, there |-> FALSE]
Empty    == [Absent EXCEPT !.there = TRUE]

Stages == {"none", "create", "write", "key", "sum", "sync", "rename", "end"}
NoWb   == [stage |-> "none", key |-> NoKey, proc |-> NoKey, tmp |-> Absent]

FileType == [key : Keys \cup {NoKey}, sum : BOOLEAN, synced : BOOLEAN, there : BOOLEAN,
             data : {NoData} \cup {Whole(k) : k \in Keys}]

TypeOK ==
    /\ file \in [Files -> FileType]
    /\ stable \in [Files -> FileType]
    /\ lock \in [Files -> Threads \cup Files \cup {Free}]
    /\ wb \in [Files -> [stage : Stages, key : Keys \cup {NoKey},
                         proc : Procs \cup {NoKey}, tmp : FileType]]
    /\ orphans \in 0 .. MaxCrashes * Cardinality(Files) + MaxFaults
    /\ unremoved \in 0 .. MaxFaults
    /\ pc \in [Threads -> {"idle", "open", "lock", "check", "source"}]
    /\ req \in [Threads -> Requests]
    /\ \A t \in Threads : res[t].err \in {"none", "nil", "EOF", "fail"}
    /\ faults \in 0 .. MaxFaults
    /\ crashes \in 0 .. MaxCrashes
    /\ gcs \in 0 .. MaxGc
    /\ victims \in SUBSET Files

Init ==
    /\ file = [f \in Files |-> Absent]
    /\ stable = [f \in Files |-> Absent]
    /\ lock = [f \in Files |-> Free]
    /\ wb = [f \in Files |-> NoWb]
    /\ orphans = 0
    /\ unremoved = 0
    /\ pc = [t \in Threads |-> "idle"]
    /\ \E q \in Requests : req = [t \in Threads |-> q]
    /\ res = [t \in Threads |-> NoReply]
    /\ faults = 0
    /\ crashes = 0
    /\ gcs = 0
    /\ victims = {}

Fault == faults < MaxFaults /\ faults' = faults + 1
Crash == crashes < MaxCrashes /\ crashes' = crashes + 1

----------------------------------------------------------------------------
(* diskSlice.ReadAt and ReadAhead, up to the flock *)

\* ReadAt looks in the cache first; ReadAhead calls fill at once, which takes
\* the lock.
Begin(t) ==
    /\ pc[t] = "idle"
    /\ pc' = [pc EXCEPT ![t] = IF t \in Readers THEN "open" ELSE "lock"]
    /\ \E q \in Requests : /\ t \in Aheads => q.len = Size[q.key]
                           /\ req' = [req EXCEPT ![t] = q]
    /\ res' = [res EXCEPT ![t] = NoReply]
    /\ UNCHANGED <<diskVars, lock, wb, strays, faults, gcVars>>

Finish(t, reply) == /\ pc' = [pc EXCEPT ![t] = "idle"]
                    /\ res' = [res EXCEPT ![t] = IF t \in Readers THEN reply ELSE NoReply]

\* Mutant: any file of that name is a hit.
HitAny(t) == file[Fname[req[t].key]].there

\* The file exists and its attribute is the key of the block, not of another
\* block with the same md5.
Hit(t) == LET c == file[Fname[req[t].key]]
          IN c.there /\ c.key = req[t].key

\* cobj.ReadAt(p, off) on a file of the cache.
FileReadAt(c, q) ==
    IF q.off + q.len - 1 \in DOMAIN c.data
    THEN Reply([i \in 0 .. q.len - 1 |-> c.data[q.off + i]])
    ELSE EOF

OpenHit(t) ==
    /\ pc[t] = "open"
    /\ Hit(t)
    /\ Finish(t, FileReadAt(file[Fname[req[t].key]], req[t]))
    /\ UNCHANGED <<diskVars, lock, wb, strays, req, faults, gcVars>>

\* The file is there, but reading it fails.
OpenHitErr(t) ==
    /\ pc[t] = "open"
    /\ Hit(t)
    /\ Fault
    /\ Finish(t, Failure)
    /\ UNCHANGED <<diskVars, lock, wb, strays, req, gcVars>>

\* No file, another block's file, or an error of open or getxattr.
OpenMiss(t) ==
    /\ pc[t] = "open"
    /\ IF Hit(t) THEN Fault ELSE UNCHANGED faults
    /\ pc' = [pc EXCEPT ![t] = "lock"]
    /\ UNCHANGED <<diskVars, lock, wb, strays, req, res, gcVars>>

----------------------------------------------------------------------------
(* diskSlice.fill *)

Flock(t) ==
    LET f == Fname[req[t].key]
    IN /\ pc[t] = "lock"
       /\ lock[f] = Free
       /\ lock' = [lock EXCEPT ![f] = t]
       /\ pc' = [pc EXCEPT ![t] = "check"]
       /\ UNCHANGED <<diskVars, wb, strays, req, res, faults, gcVars>>

FlockErr(t) ==
    /\ pc[t] = "lock"
    /\ Fault
    /\ Finish(t, Failure)
    /\ UNCHANGED <<diskVars, lock, wb, strays, req, gcVars>>

Unlock(t) == lock' = [lock EXCEPT ![Fname[req[t].key]] = Free]

\* Somebody else cached the block: unlock, and ReadAt starts over.
LostRace(t) ==
    /\ pc[t] = "check"
    /\ Hit(t)
    /\ Unlock(t)
    /\ pc' = [pc EXCEPT ![t] = IF t \in Readers THEN "open" ELSE "idle"]
    /\ UNCHANGED <<diskVars, wb, strays, req, res, faults, gcVars>>

\* Mutant: no second look under the lock.
StillMissingBlind(t) ==
    /\ pc[t] = "check"
    /\ pc' = [pc EXCEPT ![t] = "source"]
    /\ UNCHANGED <<diskVars, lock, wb, strays, req, res, faults, gcVars>>

\* Still no file, or another block's, or getxattr fails.
StillMissing(t) ==
    /\ pc[t] = "check"
    /\ IF Hit(t) THEN Fault ELSE UNCHANGED faults
    /\ pc' = [pc EXCEPT ![t] = "source"]
    /\ UNCHANGED <<diskVars, lock, wb, strays, req, res, gcVars>>

\* Open fails for a deeper reason, or the source cannot be read.
FillErr(t) ==
    /\ pc[t] \in {"check", "source"}
    /\ Fault
    /\ Unlock(t)
    /\ Finish(t, Failure)
    /\ UNCHANGED <<diskVars, wb, strays, req, gcVars>>

\* The source delivered the block: copy to the caller and start the
\* write-back, which inherits the lock.
SourceOk(t) ==
    LET k == req[t].key
        f == Fname[k]
    IN /\ pc[t] = "source"
       /\ Finish(t, Reply([i \in 0 .. req[t].len - 1 |-> Whole(k)[req[t].off + i]]))
       /\ lock' = [lock EXCEPT ![f] = f]
       /\ wb' = [wb EXCEPT ![f] = [stage |-> "create", key |-> k,
                                   proc |-> ProcOf[t], tmp |-> Absent]]
       /\ UNCHANGED <<diskVars, strays, req, faults, gcVars>>

----------------------------------------------------------------------------
(* The write-back goroutine *)

WbStep(f, from, to, tmp) ==
    /\ wb[f].stage = from
    /\ wb' = [wb EXCEPT ![f].stage = to, ![f].tmp = tmp]
    /\ UNCHANGED <<stable, strays, threadVars, faults, gcVars>>

WbCreate(f) == /\ WbStep(f, "create", "write", Empty)
               /\ UNCHANGED <<file, lock>>

WbWrite(f)  == /\ WbStep(f, "write", "key", [wb[f].tmp EXCEPT !.data = Whole(wb[f].key)])
               /\ UNCHANGED <<file, lock>>

WbKey(f)    == /\ WbStep(f, "key", "sum", [wb[f].tmp EXCEPT !.key = wb[f].key])
               /\ UNCHANGED <<file, lock>>

\* Mutant: the checksum attribute is written only after the rename.
WbSumSkipped(f) == /\ WbStep(f, "sum", "sync", wb[f].tmp)
                   /\ UNCHANGED <<file, lock>>

WbSum(f)    == /\ WbStep(f, "sum", "sync", [wb[f].tmp EXCEPT !.sum = TRUE])
               /\ UNCHANGED <<file, lock>>

\* Mutant: Commit without fsync.
WbSyncSkipped(f) == /\ WbStep(f, "sync", "rename", wb[f].tmp)
                    /\ UNCHANGED <<file, lock>>

WbSync(f)   == /\ WbStep(f, "sync", "rename", [wb[f].tmp EXCEPT !.synced = TRUE])
               /\ UNCHANGED <<file, lock>>

WbRename(f) == /\ WbStep(f, "rename", "end", Absent)
               /\ file' = [file EXCEPT ![f] = wb[f].tmp]
               /\ UNCHANGED lock

\* Mutant: an error return that forgets to unlock.
WbFailLocked(f) ==
    /\ wb[f].stage \in {"create", "write", "key", "sum", "sync", "rename"}
    /\ Fault
    /\ wb' = [wb EXCEPT ![f] = NoWb]
    /\ UNCHANGED <<diskVars, lock, strays, threadVars, gcVars>>

\* Any call of the write-back may fail: log and return, with the deferred calls.
WbReturnErr(f) ==
    /\ wb[f].stage \in {"create", "write", "key", "sum", "sync", "rename"}
    /\ Fault
    /\ wb' = [wb EXCEPT ![f] = NoWb]
    /\ lock' = [lock EXCEPT ![f] = Free]
    /\ UNCHANGED <<diskVars, threadVars, gcVars>>

TmpLeft(f) == IF wb[f].tmp.there THEN 1 ELSE 0

\* Mutant: an error return without the deferred Abort.
WbFailNoAbort(f) == /\ WbReturnErr(f)
                    /\ orphans' = orphans + TmpLeft(f)
                    /\ UNCHANGED unremoved

\* The deferred Abort removes the temporary file and ignores the error of a
\* removal that fails too; the deferred unlock frees the flock.
WbFail(f) == /\ WbReturnErr(f)
             /\ \/ UNCHANGED strays
                \/ /\ orphans' = orphans + TmpLeft(f)
                   /\ unremoved' = unremoved + TmpLeft(f)

\* The deferred calls after success: Abort finds no temporary file any more.
WbEnd(f) ==
    /\ wb[f].stage = "end"
    /\ wb' = [wb EXCEPT ![f] = NoWb]
    /\ lock' = [lock EXCEPT ![f] = Free]
    /\ UNCHANGED <<diskVars, strays, threadVars, faults, gcVars>>

----------------------------------------------------------------------------
(* DiskSlicer.Gc, in a process of its own and without any lock *)

\* List the cache files (diskIter skips .lock and .tmp files).
GcList ==
    /\ victims = {}
    /\ gcs < MaxGc
    /\ gcs' = gcs + 1
    /\ victims' = {f \in Files : file[f].there}
    /\ UNCHANGED <<diskVars, lock, wb, strays, threadVars, faults, crashes>>

\* Remove a victim.  It may be gone already: that error ends the collection.
GcRemove(f) ==
    /\ f \in victims
    /\ victims' = IF file[f].there THEN victims \ {f} ELSE {}
    /\ file' = [file EXCEPT ![f] = Absent]
    /\ UNCHANGED <<stable, lock, wb, strays, threadVars, faults, crashes, gcs>>

\* Enough space was freed, or the statfs failed.
GcEnd ==
    /\ victims # {}
    /\ victims' = {}
    /\ UNCHANGED <<diskVars, lock, wb, strays, threadVars, faults, crashes, gcs>>

----------------------------------------------------------------------------
(* Failures *)

\* Goroutines and write-backs of the processes in P are gone; the kernel
\* drops their flocks; their temporary files stay.
Die(P) ==
    LET dead == {t \in Threads : ProcOf[t] \in P}
        lost == {f \in Files : wb[f].proc \in P}
    IN /\ pc' = [t \in Threads |-> IF t \in dead THEN "idle" ELSE pc[t]]
       /\ res' = [t \in Threads |-> IF t \in dead THEN NoReply ELSE res[t]]
       /\ lock' = [f \in Files |-> IF f \in lost \/ lock[f] \in dead THEN Free ELSE lock[f]]
       /\ wb' = [f \in Files |-> IF f \in lost THEN NoWb ELSE wb[f]]
       /\ orphans' = orphans + Cardinality({f \in lost : wb[f].tmp.there})
       /\ UNCHANGED <<req, unremoved>>

Kill(p) == /\ Crash
           /\ Die({p})
           /\ UNCHANGED <<diskVars, faults, gcs, victims>>

\* What a power failure may leave of a file: everything if it was fsynced.
Torn(c) == IF c.there /\ ~c.synced THEN {c, Empty, [c EXCEPT !.data = NoData]} ELSE {c}

\* The kernel writes the directory back in its own time ...
Flush(f) == /\ stable[f] # file[f]
            /\ stable' = [stable EXCEPT ![f] = file[f]]
            /\ UNCHANGED <<file, lock, wb, strays, threadVars, faults, gcVars>>

\* ... and a power failure keeps either version of each entry.
PowerFailure ==
    /\ Crash
    /\ Die(Procs)
    /\ file' \in {g \in [Files -> UNION {Torn(file[f]) \cup Torn(stable[f]) : f \in Files}] :
                     \A f \in Files : g[f] \in Torn(file[f]) \cup Torn(stable[f])}
    /\ stable' = file'
    /\ victims' = {}
    /\ UNCHANGED <<faults, gcs>>

----------------------------------------------------------------------------
Step(t) == \/ OpenHit(t) \/ OpenHitErr(t) \/ OpenMiss(t)
           \/ Flock(t) \/ FlockErr(t) \/ LostRace(t) \/ StillMissing(t)
           \/ FillErr(t) \/ SourceOk(t)

Write(f) == \/ WbCreate(f) \/ WbWrite(f) \/ WbKey(f) \/ WbSum(f) \/ WbSync(f)
            \/ WbRename(f) \/ WbFail(f) \/ WbEnd(f)

Gc == GcList \/ GcEnd \/ \E f \in Files : GcRemove(f)

Next == \/ \E t \in Threads : Begin(t) \/ Step(t)
        \/ \E f \in Files : Write(f) \/ Flush(f)
        \/ Gc
        \/ \E p \in Procs : Kill(p)
        \/ PowerFailure

Spec == Init /\ [][Next]_vars

\* Goroutines that can run do, and the kernel serves waiters of a flock.
Fairness == /\ \A t \in Threads : WF_vars(Step(t)) /\ SF_vars(Flock(t))
            /\ \A f \in Files : WF_vars(Write(f))

FairSpec == Spec /\ Fairness

----------------------------------------------------------------------------
(* Properties *)

\* DiskSlicer.CheckIntegrity on one file: a checksum attribute that matches.
FsckOk(c) == c.sum /\ c.key # NoKey /\ c.data = Whole(c.key)

\* What is in the cache is complete: whatever process dies and whenever the
\* power fails, a file under its final name holds the whole block its key
\* names, with its checksum (the order of the write-back).
EntriesComplete == \A f \in Files : file[f].there => FsckOk(file[f])

\* The second look under the lock works: nobody reads the source for a block
\* that is in the cache.
FetchOnlyMissing ==
    faults = 0 => \A t \in Threads : pc[t] = "source" => ~Hit(t)

\* Temporary files are left behind only by processes that died, and by Abort
\* when the removal itself fails.
NoStrayTemp == orphans <= crashes * Cardinality(Files) + unremoved

\* A read that keeps losing the race for the lock and starts over does return,
\* unless somebody asks for another block with the same md5 meanwhile: two such
\* blocks may replace each other's file between its retries.
Disturbed(r) == \E t \in Threads : /\ pc[t] # "idle"
                                   /\ req[t].key # req[r].key
                                   /\ Fname[req[t].key] = Fname[req[r].key]
EveryReadReturns == \A r \in Readers : pc[r] = "open" ~> pc[r] = "idle" \/ Disturbed(r)

\* The cache is invisible: it implements a plain read-through object.
RT == INSTANCE ReadThrough WITH busy <- [r \in Readers |-> pc[r] # "idle"],
                                req  <- [r \in Readers |-> req[r]],
                                res  <- [r \in Readers |-> res[r]]
ImplementsReadThrough == RT!Spec
=============================================================================

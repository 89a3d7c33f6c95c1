------------------------------ MODULE IsoFuse ------------------------------
(***************************************************************************)
(* pkg/isofuse, a disc served over FUSE, with doFuse of pkg/vdisc/cli that *)
(* mounts it: the table of inodes with the kernel's reference counts, the  *)
(* cache of directory entries, the open files, and how the mount ends.     *)
(*                                                                         *)
(* The server handles every request of the kernel in a goroutine of its    *)
(* own (jacobsa/fuse).  A step is a critical section with what follows it  *)
(* up to the next: the image does not change, so what a handler reads of   *)
(* it outside the locks needs no step.  The kernel is modelled by what it  *)
(* may ask: it names only inodes it holds, keeps a directory while it      *)
(* holds an entry of it, and sends a forget, for all its lookups of an     *)
(* inode at once, when nothing it does needs the inode.  A directory is    *)
(* what ReadDirIterator delivers of it, with the bytes of each FileInfo.   *)
(***************************************************************************)
EXTENDS Integers, SequencesExt, FiniteSetsExt

CONSTANTS Dir,         \* Dir[e]: the FileInfos of the directory at extent e
          Info,        \* Info[i]: the FileInfo of inode i
          Parent,      \* Parent[i]: the inode of the directory that i is in
          Threads,     \* requests in progress at one time
          MaxCalls,    \* bound on requests
          MaxFaults    \* bound on failing reads of the image or an object

VARIABLES
    finfos,      \* finfos[i]: RefCnt and Info of inode i
    finfoCache,  \* the pairs of parent and name that were put in the cache
    fileHandles, \* fileHandles[h]: the extent that handle h reads
    nextFileHandle,
    opened,      \* opened[i]: open objects of file i
    op,          \* op[t]: the request a goroutine serves
    refused,     \* a request was refused for its inode or its handle
    nlookup,     \* in the kernel: lookups it has not forgotten, by inode
    forgets,     \* forgets on their way, [ino, n] each, in no order
    held,        \* handles the kernel holds, [h, ino] each
    stream,      \* a directory the kernel is reading: its inode, offset, names so far
    main,        \* doFuse: "select", "close", "recv", "done" (the disc is closed), "fatal"
    serve,       \* Server.serve: "join", "send", "end"
    join,        \* Server.join: "join", "closed"
    mounted,     \* the kernel has the mount
    signal,      \* a signal is in sigchan
    calls, faults

fsVars     == <<finfos, finfoCache, fileHandles, nextFileHandle, opened, refused>>
kernelVars == <<nlookup, forgets, held, stream>>
serverVars == <<main, serve, join, mounted, signal>>
vars == <<finfos, finfoCache, fileHandles, nextFileHandle, opened, op, refused, nlookup,
          forgets, held, stream, main, serve, join, mounted, signal, calls, faults>>

Inos  == DOMAIN Info
Files == {i \in Inos : ~Info[i].dir /\ ~Info[i].link}
Entries(i) == Dir[Info[i].extent]

Idle     == [kind |-> "idle", step |-> "none", ino |-> 0, name |-> "", h |-> 0]
NoStream == [ino |-> 0, off |-> 0, names |-> <<>>]

\* newIsoFS primes the root; Start has mounted the disc.
Init ==
    /\ finfos = [i \in {1} |-> [RefCnt |-> 0, Info |-> Info[1]]]
    /\ finfoCache = {}
    /\ fileHandles = [h \in {} |-> 0]
    /\ nextFileHandle = 1
    /\ opened = [i \in Files |-> 0]
    /\ op = [t \in Threads |-> Idle]
    /\ refused = FALSE
    /\ nlookup = [i \in Inos |-> 0]
    /\ forgets = <<>>
    /\ held = {}
    /\ stream = NoStream
    /\ main = "select" /\ serve = "join" /\ join = "join"
    /\ mounted = TRUE /\ signal = FALSE
    /\ calls = 0 /\ faults = 0

----------------------------------------------------------------------------
(* The kernel *)

\* What the kernel does names the inode.
InUse(i) == \/ \E t \in Threads : op[t].ino = i
            \/ \E x \in held : x.ino = i
            \/ stream.ino = i

Known(i) == mounted /\ (i = 1 \/ nlookup[i] > 0)

Counted == calls < MaxCalls /\ calls' = calls + 1

\* A request that takes several steps.
Request(t, r) ==
    /\ op[t] = Idle
    /\ Known(r.ino)
    /\ op' = [op EXCEPT ![t] = r]

\* The kernel drops an inode, not a directory with entries it still holds.
Drop(i) ==
    /\ mounted
    /\ i # 1 /\ nlookup[i] > 0 /\ ~InUse(i)
    /\ \A j \in Inos \ {1} : nlookup[j] > 0 => Parent[j] # i
    /\ forgets' = Append(forgets, [ino |-> i, n |-> nlookup[i]])
    /\ nlookup' = [nlookup EXCEPT ![i] = 0]
    /\ UNCHANGED <<fsVars, op, held, stream, serverVars, calls, faults>>

----------------------------------------------------------------------------
(* Inodes *)

At(t, kind, step) == op[t].kind = kind /\ op[t].step = step

Done(t) == op' = [op EXCEPT ![t] = Idle]

Refuse(bad) == refused' = (refused \/ bad)

\* GetInodeAttributes and ReadSymlink look up the entry and answer from it.
GetInode(i) ==
    /\ Known(i)
    /\ Refuse(i \notin DOMAIN finfos)
    /\ UNCHANGED <<finfos, finfoCache, fileHandles, nextFileHandle, opened, op, kernelVars,
                   serverVars, calls, faults>>

\* LookUpInode begins with the cache, which answers, never had the entry, or
\* has dropped it (ristretto).
LookUpInode(t, i, name) ==
    /\ Info[i].dir /\ Counted
    /\ \E step \in {"miss"} \cup (IF <<i, name>> \in finfoCache THEN {"set"} ELSE {}) :
          Request(t, [Idle EXCEPT !.kind = "LookUpInode", !.step = step, !.ino = i, !.name = name])
    /\ UNCHANGED <<fsVars, kernelVars, serverVars, faults>>

\* The entries of a directory that were read go to the cache.
Put(i, infos) == finfoCache' = finfoCache \cup {<<i, fi.name>> : fi \in ToSet(infos)}

\* The parent is looked up, and its directory scanned for the name.
LookUpScan(t) ==
    LET infos == Entries(op[t].ino)
        there == {j \in DOMAIN infos : infos[j].name = op[t].name}
        known == op[t].ino \in DOMAIN finfos
    IN /\ At(t, "LookUpInode", "miss")
       /\ Refuse(~known)
       /\ IF known THEN Put(op[t].ino, IF there = {} THEN infos ELSE SubSeq(infos, 1, Max(there)))
                   ELSE UNCHANGED finfoCache
       /\ IF known /\ there # {} THEN op' = [op EXCEPT ![t].step = "set"] ELSE Done(t)
       /\ UNCHANGED <<finfos, fileHandles, nextFileHandle, opened, kernelVars, serverVars,
                      calls, faults>>

\* EIO: the image cannot be read on.
LookUpErr(t) ==
    /\ At(t, "LookUpInode", "miss")
    /\ faults < MaxFaults /\ faults' = faults + 1
    /\ \E n \in 0 .. Len(Entries(op[t].ino)) : Put(op[t].ino, SubSeq(Entries(op[t].ino), 1, n))
    /\ Done(t)
    /\ UNCHANGED <<finfos, fileHandles, nextFileHandle, opened, refused, kernelVars, serverVars,
                   calls>>

Child(t) == CHOOSE i \in Inos \ {1} : Parent[i] = op[t].ino /\ Info[i].name = op[t].name

\* Mutant: an inode that is in the table already is not counted again.
SetOnce(i) ==
    finfos' = [j \in DOMAIN finfos \cup {i} |->
                  IF j \in DOMAIN finfos THEN finfos[j] ELSE [RefCnt |-> 1, Info |-> Info[i]]]

\* set, under the lock: the entry is made if need be, and counted.
Set(i) ==
    finfos' = [j \in DOMAIN finfos \cup {i} |->
                  IF j \notin DOMAIN finfos THEN [RefCnt |-> 1, Info |-> Info[i]]
                  ELSE IF j = i THEN [finfos[j] EXCEPT !.RefCnt = @ + 1] ELSE finfos[j]]

LookUpSet(t) ==
    /\ At(t, "LookUpInode", "set")
    /\ Set(Child(t))
    /\ op' = [op EXCEPT ![t].step = "reply"]
    /\ UNCHANGED <<finfoCache, fileHandles, nextFileHandle, opened, refused, kernelVars,
                   serverVars, calls, faults>>

\* The answer reaches the kernel, which counts it.
LookUpReply(t) ==
    /\ At(t, "LookUpInode", "reply")
    /\ nlookup' = [nlookup EXCEPT ![Child(t)] = @ + 1]
    /\ Done(t)
    /\ UNCHANGED <<fsVars, forgets, held, stream, serverVars, calls, faults>>

ForgetInode(k) ==
    LET f == forgets[k]
    IN /\ forgets' = RemoveAt(forgets, k)
       /\ finfos' = IF f.ino \notin DOMAIN finfos THEN finfos
                    ELSE IF finfos[f.ino].RefCnt > f.n
                    THEN [finfos EXCEPT ![f.ino].RefCnt = @ - f.n]
                    ELSE [j \in DOMAIN finfos \ {f.ino} |-> finfos[j]]
       /\ UNCHANGED <<finfoCache, fileHandles, nextFileHandle, opened, op, refused, nlookup,
                      held, stream, serverVars, calls, faults>>

----------------------------------------------------------------------------
(* Files *)

OpenFile(t, i) ==
    /\ i \in Files /\ Counted
    /\ Request(t, [Idle EXCEPT !.kind = "OpenFile", !.step = "open", !.ino = i])
    /\ Refuse(i \notin DOMAIN finfos)
    /\ UNCHANGED <<finfos, finfoCache, fileHandles, nextFileHandle, opened, kernelVars,
                   serverVars, faults>>

\* OpenExtent, outside the locks.
OpenExtent(t) ==
    /\ At(t, "OpenFile", "open")
    /\ opened' = [opened EXCEPT ![op[t].ino] = @ + 1]
    /\ op' = [op EXCEPT ![t].step = "insert"]
    /\ UNCHANGED <<finfos, finfoCache, fileHandles, nextFileHandle, refused, kernelVars,
                   serverVars, calls, faults>>

OpenExtentErr(t) ==
    /\ At(t, "OpenFile", "open")
    /\ faults < MaxFaults /\ faults' = faults + 1
    /\ Done(t)
    /\ UNCHANGED <<fsVars, kernelVars, serverVars, calls>>

\* Mutant: the counter stays where it is.
InsertSame(t) ==
    LET h == nextFileHandle
    IN /\ At(t, "OpenFile", "insert")
       /\ fileHandles' = [x \in DOMAIN fileHandles \cup {h} |->
                             IF x = h THEN op[t].ino ELSE fileHandles[x]]
       /\ held' = held \cup {[h |-> h, ino |-> op[t].ino]}
       /\ Done(t)
       /\ UNCHANGED <<finfos, finfoCache, nextFileHandle, opened, refused, nlookup, forgets,
                      stream, serverVars, calls, faults>>

\* The object gets the next handle, under the lock of the table; the kernel
\* gets the handle.
Insert(t) ==
    LET h == nextFileHandle
    IN /\ At(t, "OpenFile", "insert")
       /\ fileHandles' = [x \in DOMAIN fileHandles \cup {h} |->
                             IF x = h THEN op[t].ino ELSE fileHandles[x]]
       /\ nextFileHandle' = h + 1
       /\ held' = held \cup {[h |-> h, ino |-> op[t].ino]}
       /\ Done(t)
       /\ UNCHANGED <<finfos, finfoCache, opened, refused, nlookup, forgets, stream, serverVars,
                      calls, faults>>

\* ReadFile looks up the handle and reads the object, well or badly.
ReadFile(x) ==
    /\ x \in held
    /\ Refuse(x.h \notin DOMAIN fileHandles)
    /\ UNCHANGED <<finfos, finfoCache, fileHandles, nextFileHandle, opened, op, kernelVars,
                   serverVars, calls, faults>>

\* The last close of a file: the kernel sends the release and does not wait.
Close(t, x) ==
    /\ x \in held
    /\ Request(t, [Idle EXCEPT !.kind = "ReleaseFileHandle", !.step = "release",
                               !.ino = x.ino, !.h = x.h])
    /\ held' = held \ {x}
    /\ UNCHANGED <<fsVars, nlookup, forgets, stream, serverVars, calls, faults>>

\* The object is closed under the lock.  An unknown handle would have no
\* object to close, and the call would panic.
ReleaseFileHandle(t) ==
    LET known == op[t].h \in DOMAIN fileHandles
    IN /\ At(t, "ReleaseFileHandle", "release")
       /\ Refuse(~known)
       /\ fileHandles' = [x \in DOMAIN fileHandles \ {op[t].h} |-> fileHandles[x]]
       /\ opened' = IF known THEN [opened EXCEPT ![fileHandles[op[t].h]] = @ - 1] ELSE opened
       /\ Done(t)
       /\ UNCHANGED <<finfos, finfoCache, nextFileHandle, kernelVars, serverVars, calls, faults>>

----------------------------------------------------------------------------
(* Directories *)

\* The bytes of a directory up to its FileInfo n, each named by its FileInfo and
\* its place in it; where FileInfo j begins, and the FileInfos from off on.
Bytes(infos, n)  == UNION {{k} \X (1 .. infos[k].len) : k \in 1 .. n}
Pos(infos, j)    == Cardinality(Bytes(infos, j - 1))
From(infos, off) == {j \in DOMAIN infos : Pos(infos, j) >= off}

\* Mutant: an entry says where it begins, not where the next one does.
DirentOffsetOwn(infos, j) == Pos(infos, j)

\* The offset that a dirent carries: the next call goes on from there.
DirentOffset(infos, j) == Pos(infos, j) + infos[j].len

\* As many dirents as the buffer takes, which is at least one; the entry that
\* does not fit is cached too.
ReadDirSome(i, infos, first) ==
    \E last \in first .. Len(infos) :
        /\ stream' = [ino   |-> i,
                      off   |-> DirentOffset(infos, last),
                      names |-> stream.names \o [j \in 1 .. last + 1 - first |-> infos[first + j - 1].name]]
        /\ Put(i, SubSeq(infos, first, Min({last + 1, Len(infos)})))

ReadDir(i) ==
    /\ Known(i) /\ Info[i].dir /\ stream.ino \in {0, i} /\ Counted
    /\ Refuse(i \notin DOMAIN finfos)
    /\ \E rest \in {From(Entries(i), stream.off)} :
          /\ rest # {}
          /\ ReadDirSome(i, Entries(i), Min(rest))
    /\ UNCHANGED <<finfos, fileHandles, nextFileHandle, opened, op, nlookup, forgets, held,
                   serverVars, faults>>

\* The end of the directory, or an error: the kernel is done with it.
ReadDirEnd ==
    /\ stream.ino # 0
    /\ \/ From(Entries(stream.ino), stream.off) = {} /\ UNCHANGED faults
       \/ faults < MaxFaults /\ faults' = faults + 1
    /\ stream' = NoStream
    /\ UNCHANGED <<fsVars, op, nlookup, forgets, held, serverVars, calls>>

----------------------------------------------------------------------------
(* The end of the mount *)

\* The kernel lets go of the mount only when nothing on it is in use.  It does
\* not wait for the release of a file that was closed.
Busy == \/ held # {} \/ stream.ino # 0
        \/ \E t \in Threads : op[t].kind \notin {"idle", "ReleaseFileHandle"}

\* Every request has been served, which mfs.Join waits for.
Quiet == \A t \in Threads : op[t] = Idle

\* Somebody unmounts the disc.
Umount ==
    /\ mounted /\ ~Busy
    /\ mounted' = FALSE
    /\ UNCHANGED <<fsVars, op, kernelVars, main, serve, join, signal, calls, faults>>

Signal ==
    /\ ~signal /\ main = "select"
    /\ signal' = TRUE
    /\ UNCHANGED <<fsVars, op, kernelVars, main, serve, join, mounted, calls, faults>>

\* select in doFuse
SelectSignal ==
    /\ main = "select" /\ signal
    /\ main' = "close"
    /\ UNCHANGED <<fsVars, op, kernelVars, serve, join, mounted, signal, calls, faults>>

SelectJoined ==
    /\ main = "select" /\ join = "closed"
    /\ main' = "done"
    /\ UNCHANGED <<fsVars, op, kernelVars, serve, join, mounted, signal, calls, faults>>

\* Mutant: Close does not wait for the serving goroutine.
CloseUnmountOnly ==
    /\ main = "close"
    /\ IF mounted /\ ~Busy THEN mounted' = FALSE /\ main' = "done"
                           ELSE main' = "fatal" /\ UNCHANGED mounted
    /\ UNCHANGED <<fsVars, op, kernelVars, serve, join, signal, calls, faults>>

\* Server.Close: Unmount, which fails on a busy mount or one that is gone.
CloseUnmount ==
    /\ main = "close"
    /\ IF mounted /\ ~Busy THEN mounted' = FALSE /\ main' = "recv"
                           ELSE main' = "fatal" /\ UNCHANGED mounted
    /\ UNCHANGED <<fsVars, op, kernelVars, serve, join, signal, calls, faults>>

\* Mutant: a clean end is not reported.
ServeJoinQuiet ==
    /\ serve = "join" /\ ~mounted /\ Quiet
    /\ serve' = "end"
    /\ UNCHANGED <<fsVars, op, kernelVars, main, join, mounted, signal, calls, faults>>

\* mfs.Join returns in serve and in join.
ServeJoin ==
    /\ serve = "join" /\ ~mounted /\ Quiet
    /\ serve' = "send"
    /\ UNCHANGED <<fsVars, op, kernelVars, main, join, mounted, signal, calls, faults>>

JoinClose ==
    /\ join = "join" /\ ~mounted /\ Quiet
    /\ join' = "closed"
    /\ UNCHANGED <<fsVars, op, kernelVars, main, serve, mounted, signal, calls, faults>>

\* s.err is not buffered: serve sends when Close receives.
CloseRecv ==
    /\ main = "recv" /\ serve = "send"
    /\ main' = "done" /\ serve' = "end"
    /\ UNCHANGED <<fsVars, op, kernelVars, join, mounted, signal, calls, faults>>

----------------------------------------------------------------------------
Ask(t) == \/ \E i \in Inos : \/ \E j \in Inos \ {1} : LookUpInode(t, i, Info[j].name)
                             \/ OpenFile(t, i)
          \/ \E x \in held : Close(t, x)

Serve(t) == \/ LookUpScan(t) \/ LookUpSet(t) \/ LookUpReply(t)
            \/ OpenExtent(t) \/ Insert(t) \/ ReleaseFileHandle(t)

Server == SelectSignal \/ SelectJoined \/ CloseUnmount \/ CloseRecv

Running == main \notin {"done", "fatal"}

Next == /\ Running
        /\ \/ \E t \in Threads : Ask(t) \/ Serve(t) \/ LookUpErr(t) \/ OpenExtentErr(t)
           \/ \E i \in Inos : GetInode(i) \/ ReadDir(i) \/ Drop(i)
           \/ \E x \in held : ReadFile(x)
           \/ \E k \in DOMAIN forgets : ForgetInode(k)
           \/ ReadDirEnd
           \/ Umount \/ Signal \/ Server \/ ServeJoin \/ JoinClose

----------------------------------------------------------------------------
(* Properties *)

\* The lookups of inode i that the kernel has not heard of yet, and those that
\* it has told the server to forget.
Coming(i) == {t \in Threads : At(t, "LookUpInode", "reply") /\ Child(t) = i}
Going(i)  == UNION {{k} \X (1 .. forgets[k].n) : k \in {k \in DOMAIN forgets : forgets[k].ino = i}}

\* The server knows every inode the kernel holds, however lookups and forgets
\* of one inode cross (LookUpInode's set against ForgetInode): no request is
\* refused for an unknown inode or handle, and an inode is in the table as
\* often as the kernel holds it or will once the messages have arrived.
InodesKnown ==
    /\ ~refused
    /\ \A i \in Inos \ {1} :
          LET all == nlookup[i] + Cardinality(Coming(i)) + Cardinality(Going(i))
          IN IF i \in DOMAIN finfos THEN finfos[i].RefCnt = all /\ finfos[i].Info = Info[i]
             ELSE all = 0

\* Every handle the kernel holds reads the file it was opened for, and the
\* objects that are open are those of the handles (OpenFile opens outside the
\* lock, ReleaseFileHandle closes).
HandlesSound ==
    /\ \A x \in held : x.h \in DOMAIN fileHandles /\ fileHandles[x.h] = x.ino
    /\ \A i \in Files :
          opened[i] = Cardinality({h \in DOMAIN fileHandles : fileHandles[h] = i})
                      + Cardinality({t \in Threads : At(t, "OpenFile", "insert") /\ op[t].ino = i})

\* A directory read in any number of calls lists every entry once, in order
\* (the offsets that ReadDir gives out and takes back).
DirListed ==
    stream.ino # 0 =>
        LET infos == Entries(stream.ino)
            all   == [j \in DOMAIN infos |-> infos[j].name]
        IN /\ stream.names = SubSeq(all, 1, Len(stream.names))
           /\ From(infos, stream.off) = {} => stream.names = all

\* The disc is closed only when no request is in progress (doFuse returns after
\* Join or after the answer of the serving goroutine).
DiscClosedLast == main = "done" => Quiet

\* A signal or an unmount ends the command, whichever comes first.
MountEnds == (signal \/ ~mounted) ~> ~Running
=============================================================================

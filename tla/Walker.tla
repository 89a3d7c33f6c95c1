------------------------------- MODULE Walker -------------------------------
(***************************************************************************)
(* pkg/iso9660/walk.go, Walker, with file.go and the commands of           *)
(* pkg/vdisc/cli that read a disc through it (ls, tree, cp): paths are     *)
(* resolved directory by directory, symbolic links by Stat and Open, and   *)
(* the directories met on the way are kept in lstatCache.                  *)
(*                                                                         *)
(* A command is one goroutine; its steps are the scans of directories, in  *)
(* which the image may fail to be read.  A directory is what               *)
(* ReadDirIterator delivers of it (module Volume): a sequence of FileInfos *)
(* that begins with "." and "..".  A path is the sequence of its names.    *)
(***************************************************************************)
EXTENDS Naturals, SequencesExt, FiniteSetsExt

CONSTANTS Dir,         \* Dir[e]: the FileInfos of the directory at extent e
          RootStart,   \* the root's extent, from the primary volume descriptor
          Commands,    \* the commands that may run, [cmd, path] each
          MaxFaults,   \* bound on failing reads of the image
          MaxEvicts    \* bound on entries that lstatCache drops

SymlinkRecursionLimit == 40

VARIABLES
    lstatCache,  \* from paths to FileInfos
    cmd,         \* the command that runs
    api,         \* the Walker method it is in: "Lstat", "Open", "ReadDir", "Walk"
    pc,          \* "cmd", "search", "scan", "found", "walk", "failed", "exit"
    asked,       \* the path that lstat resolves
    parts,       \* the names it has left
    start,       \* the directory it is in
    path,        \* its local path, which the cache keys are made from
    partInfo,    \* the FileInfo it found
    hops,        \* links followed by stat
    heap,        \* the arrays behind the parts of Walk's items
    q,           \* Walk's queue, or what tree has still to print
    out,         \* what the command printed: directory and FileInfo each
    deep,        \* the lookup starts below a cached directory (ghost)
    resumed,     \* an earlier lookup did (ghost)
    faults, evicts

lookupVars == <<asked, parts, start, path, partInfo, deep, resumed>>
listVars   == <<heap, q, out>>
vars       == <<lstatCache, cmd, api, pc, asked, parts, start, path, partInfo, hops, heap, q,
                out, deep, resumed, faults, evicts>>

----------------------------------------------------------------------------
(* Paths *)

\* filepath.Clean of a rooted path
Clean(p) == FoldLeft(LAMBDA acc, x : IF x = "." THEN acc
                                     ELSE IF x = ".." THEN SubSeq(acc, 1, Len(acc) - 1)
                                     ELSE Append(acc, x),
                     <<>>, p)

DirName(p) == SubSeq(p, 1, Len(p) - 1)

NoInfo == [name |-> "", dir |-> FALSE, link |-> FALSE, extent |-> 0, target |-> <<>>]

\* The first record of that name among the records of a directory, or 0.
Match(infos, name) ==
    LET at == {i \in DOMAIN infos : infos[i].name = name}
    IN IF at = {} THEN 0 ELSE Min(at)

\* How many records iterDir visits when it looks for a name.
Visits(infos, name) == IF Match(infos, name) = 0 THEN Len(infos) ELSE Match(infos, name)

Init ==
    /\ cmd \in Commands
    /\ lstatCache = [p \in {} |-> NoInfo]
    /\ api = "none" /\ pc = "cmd"
    /\ asked = <<>> /\ parts = <<>> /\ path = <<>>
    /\ start = RootStart
    /\ partInfo = NoInfo
    /\ hops = 0
    /\ heap = <<>> /\ q = <<>> /\ out = <<>>
    /\ deep = FALSE /\ resumed = FALSE
    /\ faults = 0 /\ evicts = 0

----------------------------------------------------------------------------
(* lstat *)

\* A method begins with the lookup of a path (pathParts).
Lookup(method, p) ==
    /\ api' = method
    /\ asked' = Clean(p)
    /\ pc' = "search"
    /\ resumed' = (resumed \/ deep)

\* lstatCacheSearch: the longest prefix of "." and the path that has an entry.
lstatCacheSearch(ps) ==
    {i \in 0 .. Len(ps) : Clean(SubSeq(ps, 1, i)) \in DOMAIN lstatCache}

Search ==
    LET ps   == <<".">> \o asked
        hits == lstatCacheSearch(ps)
        i    == IF hits = {} THEN 0 ELSE Max(hits)
        at   == Clean(SubSeq(ps, 1, i))
    IN /\ pc = "search"
       /\ path' = <<>>
       /\ parts' = SubSeq(ps, i + 1, Len(ps))
       /\ IF hits = {}
          THEN pc' = "scan" /\ start' = RootStart /\ partInfo' = NoInfo
          ELSE /\ pc' = IF i = Len(ps) THEN "found" ELSE "scan"
               /\ start' = lstatCache[at].extent
               /\ partInfo' = lstatCache[at]
       /\ deep' = (hits # {} /\ i < Len(ps) /\ at # <<>>)
       /\ UNCHANGED <<lstatCache, cmd, api, asked, hops, listVars, resumed, faults, evicts>>

\* Mutant: the key is the bare name.
lstatCacheAddName(cache, p, fi) ==
    [k \in DOMAIN cache \cup {Clean(<<fi.name>>)} |->
        IF k = Clean(<<fi.name>>) THEN fi ELSE cache[k]]

lstatCacheAdd(cache, p, fi) ==
    [k \in DOMAIN cache \cup {Clean(Append(p, fi.name))} |->
        IF k = Clean(Append(p, fi.name)) THEN fi ELSE cache[k]]

\* The directories among the records that a scan visits are cached.
CacheDirs(p, infos) ==
    FoldLeft(LAMBDA cache, fi : IF fi.dir THEN lstatCacheAdd(cache, p, fi) ELSE cache,
             lstatCache, infos)

\* An iteration of lstat's loop: the scan of one directory for one name.
Scan ==
    LET infos == Dir[start]
        m     == Match(infos, Head(parts))
    IN /\ pc = "scan"
       /\ lstatCache' = CacheDirs(path, SubSeq(infos, 1, Visits(infos, Head(parts))))
       /\ parts' = Tail(parts)
       /\ IF m = 0
          THEN pc' = "failed" /\ UNCHANGED <<path, start, partInfo>>
          ELSE /\ partInfo' = infos[m]
               /\ path' = Append(path, Head(parts))
               /\ IF Len(parts) = 1 THEN pc' = "found" /\ UNCHANGED start
                  ELSE IF ~infos[m].dir THEN pc' = "failed" /\ UNCHANGED start
                  ELSE start' = infos[m].extent /\ UNCHANGED pc
       /\ UNCHANGED <<cmd, api, asked, hops, listVars, deep, resumed, faults, evicts>>

\* The image cannot be read on: what was visited stays in the cache, and the
\* lookup fails, even when the name had been met.
ScanErr ==
    LET infos == Dir[start]
    IN /\ pc = "scan"
       /\ faults < MaxFaults /\ faults' = faults + 1
       /\ \E n \in 0 .. Visits(infos, Head(parts)) :
             lstatCache' = CacheDirs(path, SubSeq(infos, 1, n))
       /\ pc' = "failed"
       /\ UNCHANGED <<cmd, api, lookupVars, hops, listVars, evicts>>

\* The ARC cache, at its limit, drops an entry.
Evict ==
    /\ evicts < MaxEvicts /\ evicts' = evicts + 1
    /\ pc \in {"cmd", "search"}
    /\ \E k \in DOMAIN lstatCache : lstatCache' = [p \in DOMAIN lstatCache \ {k} |-> lstatCache[p]]
    /\ UNCHANGED <<cmd, api, pc, lookupVars, hops, listVars, faults>>

----------------------------------------------------------------------------
(* The methods, once lstat has found the file. *)

\* stat: a link is followed from the directory it is in, an absolute target
\* as if it were relative; the last of the lookups may not find a link.
Follow ==
    /\ pc = "found" /\ api = "Open" /\ partInfo.link
    /\ hops' = hops + 1
    /\ IF hops' < SymlinkRecursionLimit
       THEN Lookup("Open", DirName(asked) \o partInfo.target)
       ELSE pc' = "failed" /\ UNCHANGED <<api, asked, resumed>>
    /\ UNCHANGED <<lstatCache, cmd, parts, start, path, partInfo, listVars, deep, faults, evicts>>

\* Open returns a File, which cp reads: a directory fails with EISDIR.
Copy ==
    /\ pc = "found" /\ api = "Open" /\ ~partInfo.link
    /\ out' = IF partInfo.dir THEN out ELSE <<[of |-> asked, info |-> partInfo]>>
    /\ pc' = "exit"
    /\ UNCHANGED <<lstatCache, cmd, api, lookupVars, hops, heap, q, faults, evicts>>

\* ReadDir: every record goes to the cache, under its own path.
CacheList(infos) == FoldLeft(LAMBDA cache, fi : lstatCacheAdd(cache, asked, fi), lstatCache, infos)

\* What the commands print of a directory: "." and ".." are skipped.
Shown(p, infos) ==
    FoldLeft(LAMBDA acc, fi : IF fi.name \in {".", ".."} THEN acc
                              ELSE Append(acc, [of |-> p, info |-> fi]),
             <<>>, infos)

ReadDir ==
    /\ pc = "found" /\ api = "ReadDir" /\ partInfo.dir
    /\ lstatCache' = CacheList(Dir[partInfo.extent])
    /\ IF cmd.cmd = "tree"
       THEN q' = Shown(asked, Dir[partInfo.extent]) \o q /\ pc' = "cmd" /\ UNCHANGED out
       ELSE out' = Shown(asked, Dir[partInfo.extent]) /\ pc' = "exit" /\ UNCHANGED q
    /\ UNCHANGED <<cmd, api, lookupVars, hops, heap, faults, evicts>>

ReadDirErr ==
    /\ pc = "found" /\ api = "ReadDir" /\ partInfo.dir
    /\ faults < MaxFaults /\ faults' = faults + 1
    /\ \E n \in 0 .. Len(Dir[partInfo.extent]) :
          lstatCache' = CacheList(SubSeq(Dir[partInfo.extent], 1, n))
    /\ pc' = "failed"
    /\ UNCHANGED <<cmd, api, lookupVars, hops, listVars, evicts>>

\* ENOTDIR
ReadDirOfFile ==
    /\ pc = "found" /\ api = "ReadDir" /\ ~partInfo.dir
    /\ pc' = "failed"
    /\ UNCHANGED <<lstatCache, cmd, api, lookupVars, hops, listVars, faults, evicts>>

----------------------------------------------------------------------------
(* Walk: breadth first from the root, with the slices of names that the    *)
(* items hold.  append writes into the array of its argument while that    *)
(* has room, and else copies to one of twice the length.                   *)

Item(arr, len, fi) == [arr |-> arr, len |-> len, fi |-> fi]

ItemPath(h, it) == SubSeq(h[it.arr], 1, it.len)

\* item.parts with one more name: the heap and the array it is in
AppendName(h, it, name) ==
    IF Len(h[it.arr]) > it.len
    THEN [heap |-> [h EXCEPT ![it.arr][it.len + 1] = name], arr |-> it.arr]
    ELSE [heap |-> Append(h, [i \in 1 .. Max({1, 2 * it.len}) |->
                                 IF i <= it.len THEN h[it.arr][i]
                                 ELSE IF i = it.len + 1 THEN name ELSE ""]),
          arr  |-> Len(h) + 1]

\* The root is told first; a directory starts the queue.
WalkRoot ==
    /\ pc = "found" /\ api = "Walk"
    /\ out' = Shown(asked, <<partInfo>>)
    /\ heap' = <<asked>>
    /\ IF partInfo.dir
       THEN q' = <<Item(1, Len(asked), partInfo)>> /\ pc' = "walk"
       ELSE q' = q /\ pc' = "exit"
    /\ UNCHANGED <<lstatCache, cmd, api, lookupVars, hops, faults, evicts>>

\* Mutant: "." and ".." are walked too.
EnqueueDots(s, it, fi) ==
    LET a == AppendName(s.heap, it, fi.name)
    IN IF ~fi.dir \/ fi.name = "." THEN s
       ELSE [heap |-> a.heap, q |-> Append(s.q, Item(a.arr, it.len + 1, fi))]

Enqueue(s, it, fi) ==
    LET a == AppendName(s.heap, it, fi.name)
    IN IF ~fi.dir \/ fi.name \in {".", ".."} THEN s
       ELSE [heap |-> a.heap, q |-> Append(s.q, Item(a.arr, it.len + 1, fi))]

\* An item is taken from the queue and its directory is told, record by record.
WalkDir(infos) ==
    LET it == Head(q)
        s  == FoldLeft(LAMBDA t, fi : Enqueue(t, it, fi), [heap |-> heap, q |-> Tail(q)], infos)
    IN /\ out' = out \o Shown(ItemPath(heap, it), infos)
       /\ heap' = s.heap
       /\ q' = s.q

WalkNext ==
    /\ pc = "walk" /\ q # <<>>
    /\ WalkDir(Dir[Head(q).fi.extent])
    /\ UNCHANGED <<lstatCache, cmd, api, pc, lookupVars, hops, faults, evicts>>

\* An unreadable directory ends the walk, with an error that ls drops.
WalkErr ==
    /\ pc = "walk" /\ q # <<>>
    /\ faults < MaxFaults /\ faults' = faults + 1
    /\ \E n \in 0 .. Len(Dir[Head(q).fi.extent]) : WalkDir(SubSeq(Dir[Head(q).fi.extent], 1, n))
    /\ pc' = "exit"
    /\ UNCHANGED <<lstatCache, cmd, api, lookupVars, hops, evicts>>

WalkEnd ==
    /\ pc = "walk" /\ q = <<>>
    /\ pc' = "exit"
    /\ UNCHANGED <<lstatCache, cmd, api, lookupVars, hops, listVars, faults, evicts>>

----------------------------------------------------------------------------
(* The commands *)

\* LsCmd.Run, CpCmd.Run and TreeCmd.Run begin.
Begin ==
    /\ pc = "cmd" /\ api = "none"
    /\ Lookup([ls |-> "Lstat", lsr |-> "Walk", cp |-> "Open", tree |-> "ReadDir"][cmd.cmd], cmd.path)
    /\ UNCHANGED <<lstatCache, cmd, parts, start, path, partInfo, hops, listVars, deep, faults, evicts>>

\* ls after Lstat: a directory is read, anything else is shown.
LsFound ==
    /\ pc = "found" /\ api = "Lstat"
    /\ IF partInfo.dir
       THEN Lookup("ReadDir", cmd.path) /\ UNCHANGED out
       ELSE /\ out' = Shown(asked, <<partInfo>>) /\ pc' = "exit"
            /\ UNCHANGED <<api, asked, resumed>>
    /\ UNCHANGED <<lstatCache, cmd, parts, start, path, partInfo, hops, heap, q, deep, faults, evicts>>

\* printTree shows the next entry, and reads it if it is a directory.
PrintTree ==
    /\ pc = "cmd" /\ api = "ReadDir" /\ q # <<>>
    /\ out' = Append(out, Head(q))
    /\ q' = Tail(q)
    /\ IF Head(q).info.dir
       THEN Lookup("ReadDir", Append(Head(q).of, Head(q).info.name))
       ELSE UNCHANGED <<api, asked, pc, resumed>>
    /\ UNCHANGED <<lstatCache, cmd, parts, start, path, partInfo, hops, heap, deep, faults, evicts>>

TreeEnd ==
    /\ pc = "cmd" /\ api = "ReadDir" /\ q = <<>>
    /\ pc' = "exit"
    /\ UNCHANGED <<lstatCache, cmd, api, lookupVars, hops, listVars, faults, evicts>>

\* The command gives up.
Fatal ==
    /\ pc = "failed"
    /\ pc' = "exit"
    /\ UNCHANGED <<lstatCache, cmd, api, lookupVars, hops, listVars, faults, evicts>>

Next == \/ Search \/ Scan \/ ScanErr \/ Evict
        \/ Follow \/ Copy \/ ReadDir \/ ReadDirErr \/ ReadDirOfFile
        \/ WalkRoot \/ WalkNext \/ WalkErr \/ WalkEnd
        \/ Begin \/ LsFound \/ PrintTree \/ TreeEnd \/ Fatal

----------------------------------------------------------------------------
(* Properties *)

\* What a name leads to from a file.
Child(fi, name) == LET m == Match(Dir[fi.extent], name)
                   IN IF fi.dir /\ m # 0 THEN Dir[fi.extent][m] ELSE NoInfo

\* What is at a path: its FileInfo, or NoInfo.
At(p) == FoldLeft(Child, Dir[RootStart][1], p)

\* The same file, whatever name (".", "..") its record has.
Same(fi, gi) == [fi EXCEPT !.name = ""] = [gi EXCEPT !.name = ""]

\* Lstat's doc: what it returns describes the named file.
LstatDescribes ==
    /\ pc = "found" => Same(partInfo, At(asked))
    /\ pc = "failed" /\ api # "ReadDir" /\ hops < SymlinkRecursionLimit /\ faults = 0
          => At(asked) = NoInfo

\* The cache is right, and so is every lookup, as long as no lookup has gone
\* on from a cached directory other than the root: what such a lookup meets is
\* filed under keys that begin at that directory (lstat's local path).
LookupRight ==
    /\ ~resumed => LstatDescribes
    /\ ~resumed /\ ~deep => \A p \in DOMAIN lstatCache : Same(lstatCache[p], At(p))

\* The paths below p, by level.
Level(S) == UNION {{Append(p, fi.name) : fi \in ToSet(Dir[At(p).extent]) } :
                   p \in {r \in S : At(r).dir}}
Plain(S) == {p \in S : Last(p) \notin {".", ".."}}
Below(p) == Plain(Level({p}))
Tree(p, n) == FoldLeft(LAMBDA S, i : S \cup UNION {Below(r) : r \in S},
                       Below(p), [i \in 1 .. n |-> i])

\* The directories whose path, or one above, shares an array with a sibling in
\* Walk's items below top: four names, and another directory beside it.
Shares(top, p) ==
    \E n \in Len(top) + 1 .. Len(p) :
        /\ n >= 4
        /\ \E r \in Below(SubSeq(p, 1, n - 1)) : r # SubSeq(p, 1, n) /\ At(r).dir

\* A listing shows no file twice and nothing from elsewhere, and one that met no
\* error has shown every file below its path when it ends and said in which
\* directory it is, unless Walk's items share their array there (printTree, and
\* the append in Walk).
ListedOnce ==
    LET top == Clean(cmd.path)
    IN ~resumed /\ cmd.cmd \in {"tree", "lsr"} /\ At(top).dir =>
        LET there == {[of |-> DirName(p), info |-> At(p)] :
                         p \in Tree(top, Cardinality(DOMAIN Dir))}
            told  == {i \in DOMAIN out : ~Same(out[i].info, At(top))}
        IN /\ \A i, j \in told : out[i].info = out[j].info => i = j
           /\ {out[i].info : i \in told} \subseteq {s.info : s \in there}
           /\ pc = "exit" /\ faults = 0 =>
                 /\ Cardinality(told) = Cardinality(there)
                 /\ \A s \in there : Shares(top, s.of) \/ \E i \in told : out[i] = s
=============================================================================

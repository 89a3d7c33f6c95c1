------------------------------ MODULE RAMDriver ------------------------------
(***************************************************************************)
(* pkg/storage/ram: a tree of inodes in memory.  Every call is one         *)
(* critical section of the driver's mutex, except that Commit first takes  *)
(* its writer out of the creating state.  A path is the sequence of its    *)
(* segments after filepath.Clean: <<".">> is the root, and ".." can only   *)
(* come first, where it is the root too.  The data of a file is its writer *)
(* with the number of writes.                                              *)
(***************************************************************************)
EXTENDS Naturals, SequencesExt

CONSTANTS Paths,       \* the paths that calls name
          Writers, MaxWrites,
          Preload,     \* the paths of files that are there at the start
          MaxChanges,  \* bound on commits and removals
          Depth        \* the length of the longest path

VARIABLES inodes, nextIno,
          writer,      \* writer[w]: a handle that Create returned
          answer,      \* the answer on its way to the caller
          changes,
          files, dirs  \* what the tree looks like from the root (ghost)

treeVars == <<inodes, nextIno, files, dirs>>
vars == <<inodes, nextIno, writer, answer, changes, files, dirs>>

rootIno == 1
NoWriter == [path |-> <<>>, buf |-> 0, state |-> "none", at |-> "idle"]

newDirInode(parent, self) ==
    [dir |-> TRUE, entries |-> [n \in {".", ".."} |-> IF n = "." THEN self ELSE parent], file |-> <<>>]
newFileInode(data) == [dir |-> FALSE, entries |-> [n \in {} |-> 0], file |-> data]

NewDriver == [inodes |-> [i \in {rootIno} |-> newDirInode(rootIno, rootIno)], nextIno |-> 2, err |-> "none"]

----------------------------------------------------------------------------
(* commit: the directories above are made as they are missed. *)

\* The next inode is node, and an entry of the directory that s is at.
Link(s, name, node) ==
    [s EXCEPT !.inodes = [i \in DOMAIN s.inodes \cup {s.nextIno} |->
                            IF i = s.nextIno THEN node
                            ELSE IF i # s.ino THEN s.inodes[i]
                            ELSE [s.inodes[i] EXCEPT !.entries =
                                    [n \in DOMAIN s.inodes[i].entries \cup {name} |->
                                       IF n = name THEN s.nextIno ELSE s.inodes[i].entries[n]]]],
              !.nextIno = s.nextIno + 1]

Descend(s, name) ==
    LET curr == s.inodes[s.ino]
    IN IF s.err # "none" \/ ~curr.dir THEN [s EXCEPT !.err = "ENOTDIR"]
       ELSE IF name \in DOMAIN curr.entries THEN [s EXCEPT !.ino = curr.entries[name]]
       ELSE [Link(s, name, newDirInode(s.ino, s.nextIno)) EXCEPT !.ino = s.nextIno]

\* Mutant: the file is linked where another one of that name is.
StoreLinks(s, name, data) ==
    IF s.err # "none" \/ ~s.inodes[s.ino].dir THEN [s EXCEPT !.err = "ENOTDIR"]
    ELSE Link(s, name, newFileInode(data))

Store(s, name, data) ==
    LET curr == s.inodes[s.ino]
    IN IF s.err # "none" \/ ~curr.dir THEN [s EXCEPT !.err = "ENOTDIR"]
       ELSE IF name \notin DOMAIN curr.entries THEN Link(s, name, newFileInode(data))
       ELSE IF s.inodes[curr.entries[name]].dir THEN [s EXCEPT !.err = "ErrExist"]
       ELSE [s EXCEPT !.inodes[curr.entries[name]].file = data]

descend(s, path) == FoldLeft(Descend, s, path)

commit(d, path, data) ==
    Store(descend([inodes |-> d.inodes, nextIno |-> d.nextIno, err |-> "none", ino |-> rootIno], Front(path)),
          Last(path), data)

\* The files that are there at the start.
preloaded == FoldLeft(LAMBDA s, p : commit(s, p, <<"preload", 0>>), NewDriver, Preload)

----------------------------------------------------------------------------
(* The tree from the root: the inode at each path of names. *)

Below(is, at, p) == {Append(p, n) : n \in DOMAIN is[at[p]].entries \ {".", ".."}}
Deeper(is, at)   == [q \in DOMAIN at \cup UNION {Below(is, at, p) : p \in DOMAIN at} |->
                        IF q \in DOMAIN at THEN at[q] ELSE is[at[Front(q)]].entries[Last(q)]]

Reach(is) == IF rootIno \notin DOMAIN is THEN <<>>
             ELSE FoldLeft(LAMBDA at, n : Deeper(is, at), [q \in {<<>>} |-> rootIno], [n \in 1 .. Depth |-> n])

DirPaths(is, at) == {p \in DOMAIN at : is[at[p]].dir}
Files(is, at)    == [p \in {q \in DOMAIN at : ~is[at[q]].dir} |-> is[at[p]].file]

\* What Visit finds below each directory.
SubDirs == [p \in dirs |-> {q \in dirs : q # <<>> /\ Front(q) = p}]

NoAnswer == [op |-> "none", path |-> <<>>, err |-> "none", res |-> {}]

Init ==
    /\ inodes = preloaded.inodes /\ nextIno = preloaded.nextIno
    /\ writer = [w \in Writers |-> NoWriter]
    /\ answer = NoAnswer
    /\ changes = 0
    /\ files = Files(inodes, Reach(inodes)) /\ dirs = DirPaths(inodes, Reach(inodes))

----------------------------------------------------------------------------
(* traverse *)

Next1(s, name) ==
    LET curr == inodes[s.ino]
    IN IF s.err # "none" THEN s
       ELSE IF ~curr.dir THEN [s EXCEPT !.err = "ENOTDIR"]
       ELSE IF name \notin DOMAIN curr.entries THEN [s EXCEPT !.err = "ENOENT"]
       ELSE [s EXCEPT !.parent = s.ino, !.ino = curr.entries[name]]

traverse(path) == FoldLeft(Next1, [parent |-> 0, ino |-> rootIno, err |-> "none"], path)

\* The path without its leading "." or "..".
Clean(path) == IF path # <<>> /\ Head(path) \in {".", ".."} THEN Tail(path) ELSE path

\* One answer at a time.
Answer(op, path, err, res) ==
    /\ answer = NoAnswer
    /\ answer' = [op |-> op, path |-> Clean(path), err |-> err, res |-> res]

\* The inode of the root is gone: a call dereferences nil.
Rooted == rootIno \in DOMAIN inodes

Panic(path) ==
    /\ ~Rooted
    /\ Answer("panic", path, "none", {})
    /\ UNCHANGED <<treeVars, writer, changes>>

----------------------------------------------------------------------------
(* Calls that change nothing *)

Kind(ino) == IF inodes[ino].dir THEN "dir" ELSE "file"

\* The declared size is not used: the object reads the whole file.
Open(path) ==
    LET f == traverse(path)
    IN /\ Rooted
       /\ IF f.err # "none" THEN Answer("Open", path, f.err, {})
          ELSE IF inodes[f.ino].dir THEN Answer("Open", path, "EISDIR", {})
          ELSE Answer("Open", path, "none", {inodes[f.ino].file})
       /\ UNCHANGED <<treeVars, writer, changes>>

Stat(path) ==
    LET f == traverse(path)
    IN /\ Rooted
       /\ IF f.err # "none" THEN Answer("Stat", path, f.err, {})
          ELSE Answer("Stat", path, "none", {Kind(f.ino)})
       /\ UNCHANGED <<treeVars, writer, changes>>

Readdir(path) ==
    LET f == traverse(path)
    IN /\ Rooted
       /\ IF f.err # "none" THEN Answer("Readdir", path, f.err, {})
          ELSE IF ~inodes[f.ino].dir THEN Answer("Readdir", path, "ENOTDIR", {})
          ELSE Answer("Readdir", path, "none",
                      {<<n, Kind(inodes[f.ino].entries[n])>> : n \in DOMAIN inodes[f.ino].entries})
       /\ UNCHANGED <<treeVars, writer, changes>>

----------------------------------------------------------------------------
(* Calls that change the tree *)

\* The tree becomes is.
Becomes(is) ==
    /\ inodes' = is
    /\ \E at \in {Reach(is)} : files' = Files(is, at) /\ dirs' = DirPaths(is, at)

Counted == changes < MaxChanges /\ changes' = changes + 1

\* Whatever is at the path goes, with the inodes below it, which stay behind
\* unreachable.
RemovePath(path) ==
    LET f == traverse(path)
    IN /\ Rooted /\ Counted
       /\ IF f.err # "none"
          THEN Answer("Remove", path, f.err, {}) /\ UNCHANGED <<inodes, files, dirs>>
          ELSE /\ Answer("Remove", path, "none", {})
               /\ Becomes([i \in DOMAIN inodes \ {f.ino} |->
                             IF i = f.parent
                             THEN [inodes[i] EXCEPT !.entries =
                                     [n \in DOMAIN @ \ {Last(path)} |-> @[n]]]
                             ELSE inodes[i]])
       /\ UNCHANGED <<nextIno, writer>>

Create(w, path) ==
    /\ writer[w].state = "none" /\ answer = NoAnswer
    /\ writer' = [writer EXCEPT ![w].path = path, ![w].state = "creating"]
    /\ UNCHANGED <<treeVars, answer, changes>>

\* A writer takes data at any time; what was committed does not grow.
Write(w) ==
    /\ answer = NoAnswer
    /\ writer[w].state # "none" /\ writer[w].buf < MaxWrites
    /\ writer' = [writer EXCEPT ![w].buf = @ + 1]
    /\ UNCHANGED <<treeVars, answer, changes>>

\* Commit: the CompareAndSwap from creating to closed.  A later Commit only
\* reports the state.
Commit(w) ==
    /\ writer[w].state = "creating" /\ answer = NoAnswer /\ Counted
    /\ writer' = [writer EXCEPT ![w].state = "closed", ![w].at = "commit"]
    /\ UNCHANGED <<treeVars, answer>>

\* Driver.commit under the mutex.
CommitData(w) ==
    /\ writer[w].at = "commit" /\ Rooted
    /\ LET d == commit([inodes |-> inodes, nextIno |-> nextIno], writer[w].path, <<w, writer[w].buf>>)
       IN /\ Becomes(d.inodes)
          /\ nextIno' = d.nextIno
          /\ Answer("Commit", writer[w].path, d.err, {})
    /\ writer' = [writer EXCEPT ![w].at = "idle"]
    /\ UNCHANGED changes

Abort(w) ==
    /\ writer[w].state = "creating" /\ answer = NoAnswer
    /\ writer' = [writer EXCEPT ![w].state = "aborted"]
    /\ UNCHANGED <<treeVars, answer, changes>>

\* The caller has its answer.
Return ==
    /\ answer # NoAnswer
    /\ answer' = NoAnswer
    /\ UNCHANGED <<treeVars, writer, changes>>

Change == \/ \E p \in Paths : RemovePath(p) \/ \E w \in Writers : Create(w, p)
          \/ \E w \in Writers : Commit(w) \/ CommitData(w)

Next == Change \/ (\E w \in Writers : Write(w) \/ Abort(w)) \/ Return \/ \E p \in Paths : Open(p) \/ Stat(p) \/ Readdir(p) \/ Panic(p)

----------------------------------------------------------------------------
(* Properties *)

S == INSTANCE ObjectStore

\* The driver is an object store: what its calls answer is true of the tree at
\* that moment, a commit that fails changes nothing, and one that succeeds
\* changes one file (traverse, commit, Remove, Readdir).
ImplementsObjectStore == [][S!Step(Writers \X (0 .. MaxWrites))]_<<files, dirs, answer>>
=============================================================================

------------------------------- MODULE Mount -------------------------------
(***************************************************************************)
(* What is done with a loaded disc (pkg/vdisc/cli): a process runs one     *)
(* command, which reads the disc through the Walker (ls, tree, cp) or      *)
(* serves it over FUSE (mount).  Both read the image through               *)
(* ReadDirIterator and share nothing else, so a behaviour is one of either *)
(* kind.                                                                   *)
(***************************************************************************)
EXTENDS Naturals, Sequences, FiniteSets

CONSTANTS Listed,      \* the disc of the Walker's commands, as Dir in Walker
          Mounted, Info, Parent,    \* the disc that is mounted, as in IsoFuse
          RootStart, Commands, MaxFaults, MaxEvicts, Threads, MaxCalls

\* The root is inode 1, no inode is 0, and a FileInfo takes some bytes.
ASSUME DiscAssumption ==
    /\ IsFiniteSet(Threads)
    /\ 1 \in DOMAIN Info /\ 0 \notin DOMAIN Info
    /\ \A i \in DOMAIN Info : Info[i].dir =>
          LET infos == Mounted[Info[i].extent]
          IN /\ infos \in Seq({infos[j] : j \in DOMAIN infos})
             /\ \A j \in DOMAIN infos : infos[j].len \in Nat \ {0}

VARIABLES lstatCache, cmd, api, pc, asked, parts, start, path, partInfo, hops, heap, q, out,
          deep, resumed, faults, evicts

VARIABLES finfos, finfoCache, fileHandles, nextFileHandle, opened, op, refused, nlookup, forgets, held,
          stream, main, serve, join, mounted, signal, calls, ioErrs

VARIABLE session      \* what the process does: "walk" or "mount"

W == INSTANCE Walker WITH Dir <- Listed
F == INSTANCE IsoFuse WITH Dir <- Mounted, faults <- ioErrs

IsSeq(s) == s \in Seq({s[i] : i \in DOMAIN s})

\* What is known of a FileInfo of the listed disc.
InfoFields == {"name", "dir", "link", "extent", "target"}

IsInfo(fi) == InfoFields \subseteq DOMAIN fi /\ fi.dir \in BOOLEAN /\ IsSeq(fi.target)

\* The listed disc is a tree, as the writer leaves it (AddChild, ToDirectory): a
\* directory begins with itself and its parent, and names nothing twice.
ASSUME ListedAssumption ==
    /\ RootStart \in DOMAIN Listed
    /\ W!Same(Listed[RootStart][2], Listed[RootStart][1])
    /\ \A e \in DOMAIN Listed :
          LET infos == Listed[e]
          IN /\ IsSeq(infos) /\ Len(infos) >= 2
             /\ infos[1].name = "." /\ infos[1].dir /\ infos[1].extent = e
             /\ infos[2].name = ".." /\ infos[2].dir
             /\ \A j \in DOMAIN infos :
                   /\ IsInfo(infos[j])
                   /\ \A k \in DOMAIN infos : infos[j].name = infos[k].name => j = k
                   /\ infos[j].dir /\ j # 2 =>
                         /\ infos[j].extent \in DOMAIN Listed
                         /\ W!Same(Listed[infos[j].extent][1], infos[j])
                         /\ j > 2 => W!Same(Listed[infos[j].extent][2], infos[1])

\* Every file has an inode of its own and a name, and the root is in no directory
\* (NewFileInode, NewDirectoryInode, AddChild): no two records below a directory
\* are of one file.
ASSUME FilesAssumption ==
    /\ IsFiniteSet(DOMAIN Listed)
    /\ \A e \in DOMAIN Listed : \A j \in DOMAIN Listed[e] :
          j > 2 => /\ Listed[e][j].name # ""
                   /\ ~W!Same(Listed[e][j], Listed[RootStart][1])
                   /\ \A f \in DOMAIN Listed : \A k \in DOMAIN Listed[f] :
                         k > 2 /\ W!Same(Listed[e][j], Listed[f][k]) => e = f /\ j = k

ASSUME CommandAssumption ==
    \A c \in Commands : c.cmd \in {"ls", "lsr", "cp", "tree"} /\ IsSeq(c.path)

walkVars == <<lstatCache, cmd, api, pc, asked, parts, start, path, partInfo, hops, heap, q, out,
              deep, resumed, faults, evicts>>
fuseVars == <<finfos, finfoCache, fileHandles, nextFileHandle, opened, op, refused, nlookup, forgets,
              held, stream, main, serve, join, mounted, signal, calls, ioErrs>>

vars == <<walkVars, fuseVars, session>>

\* cli.go: one command per process.
Init ==
    /\ session \in {"walk", "mount"}
    /\ W!Init /\ F!Init
    /\ session = "mount" => cmd = CHOOSE c \in Commands : TRUE

Walk  == session = "walk"  /\ W!Next /\ UNCHANGED <<fuseVars, session>>
Serve == session = "mount" /\ F!Next /\ UNCHANGED <<walkVars, session>>

Next == Walk \/ Serve

\* Requests are served, goroutines run and the image answers, well or badly.
Step(A) == session = "mount" /\ A /\ UNCHANGED <<walkVars, session>>

FairSpec ==
    /\ Init /\ [][Next]_vars
    /\ \A t \in Threads : WF_vars(Step(F!Running /\ F!Serve(t)))
    /\ WF_vars(Step(F!Running /\ F!Server))
    /\ WF_vars(Step(F!Running /\ F!ServeJoin))
    /\ WF_vars(Step(F!Running /\ F!JoinClose))

----------------------------------------------------------------------------
(* Properties: those of the parts, where they are explained. *)

\* Walker: lookups are right until one goes on below a cached directory (lstat).
LookupRight == session = "walk" => W!LookupRight

\* Walker: a listing shows every file once, under its directory (Walk, printTree).
ListedOnce == session = "walk" => W!ListedOnce

\* Walker: what Lstat returns describes the named file (its doc, walk.go:104-106).
LstatDescribes == W!LstatDescribes

\* IsoFuse: crossing lookups and forgets leave the server with exactly the
\* inodes that the kernel holds (LookUpInode, ForgetInode).
InodesKnown == F!InodesKnown

\* IsoFuse: a handle reads the file it was opened for; no object stays open
\* (OpenFile, ReleaseFileHandle).
HandlesSound == F!HandlesSound

\* IsoFuse: a directory read piecewise is listed completely (ReadDir).
DirListed == F!DirListed

\* IsoFuse: the disc is closed after the last request (Server.Close, doFuse).
DiscClosedLast == F!DiscClosedLast

\* IsoFuse: a signal or an unmount ends the command (Server.serve, doFuse).
MountEnds == F!MountEnds
=============================================================================

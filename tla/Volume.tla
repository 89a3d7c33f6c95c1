------------------------------- MODULE Volume -------------------------------
(***************************************************************************)
(* pkg/iso9660: the volume as it is built, written and read.  A volume is  *)
(* a sequence of inodes; the first is the root, and each knows its parent  *)
(* and its name there.  WriteMetadataTo goes over the directories twice:   *)
(* once to assign addresses, which needs the sizes of the directories, and *)
(* once to write them with the addresses in place.  ReadDir is what        *)
(* ReadDirIterator makes of the image.                                     *)
(***************************************************************************)
EXTENDS SystemUse

CONSTANTS MaxPartSize,   \* the most bytes that one directory record covers
          Valid          \* the names that the volume's NameValidator accepts

ASSUME VolumeAssumption == /\ MaxPartSize \in Nat \ {0}
                           /\ MaxPartSize % LogicalBlockSize = 0

\* An inode before it has an address.  size and url are a file's, target is
\* a symbolic link's.
Inode(type, name, parent, size, url, target) ==
    [type |-> type, name |-> name, parent |-> parent, size |-> size, url |-> url,
     target |-> target, start |-> 0, length |-> 0]

Dot    == [id |-> ".", len |-> 1]
DotDot == [id |-> "..", len |-> 2]

NewVolume == << Inode("dir", Dot, 1, 0, <<>>, <<>>) >>

----------------------------------------------------------------------------
(* The tree *)

ChildNamed(v, d, name) == {i \in 2 .. Len(v) : v[i].parent = d /\ v[i].name = name}

\* DirectoryInode.AddChild
AddChild(v, d, inode) ==
    IF /\ inode.name \in Valid \ {Dot, DotDot}
       /\ ChildNamed(v, d, inode.name) = {}
    THEN [v |-> Append(v, inode), ok |-> TRUE]
    ELSE [v |-> v, ok |-> FALSE]

\* Volume.addLeaf, for the cleaned path: missing directories on the way are made, and stay when a
\* later part of the path is refused.
AddLeaf(v, path, leaf) ==
    LET Enter(a, i) ==
            LET found == ChildNamed(a.v, a.at, path[i])
                new   == AddChild(a.v, a.at, Inode("dir", path[i], a.at, 0, <<>>, <<>>))
            IN IF ~a.ok THEN a
               ELSE IF found = {}
               THEN [v |-> new.v, ok |-> new.ok, at |-> Len(new.v)]
               ELSE LET c == CHOOSE c \in found : TRUE
                    IN [a EXCEPT !.ok = (a.v[c].type = "dir"), !.at = c]
        dir == FoldLeft(Enter, [v |-> v, ok |-> TRUE, at |-> 1],
                        [i \in 1 .. Len(path) - 1 |-> i])
        added == AddChild(dir.v, dir.at, [leaf EXCEPT !.name = Last(path), !.parent = dir.at])
    IN IF dir.ok THEN added ELSE [v |-> dir.v, ok |-> FALSE]

\* IdentifierAllocator: the n-th child (from 0, below 128) of a directory is
\* named by the base-32 form of n, and the children are in the order of these
\* names as strings: the digits of the second letter sort before 'A', so the
\* last of every eight comes first.
Identifier(n) == 8 * (n \div 8) + ((n + 1) % 8)

\* The children of d in the order of their identifiers.
Children(v, d) ==
    LET added == SetToSortSeq({i \in 2 .. Len(v) : v[i].parent = d}, <)
        order == SetToSortSeq(DOMAIN added, LAMBDA a, b : Identifier(a - 1) < Identifier(b - 1))
    IN [i \in DOMAIN order |-> added[order[i]]]

ChildrenOf(v, d, type) == SelectSeq(Children(v, d), LAMBDA i : v[i].type = type)

\* VisitDirectories: level order.
DirOrder(v) ==
    LET Level[n \in 0 .. Len(v)] ==
            IF n = 0 THEN <<1>>
            ELSE FlattenSeq([i \in DOMAIN Level[n - 1] |->
                                ChildrenOf(v, Level[n - 1][i], "dir")])
    IN FlattenSeq([n \in 1 .. Len(v) + 1 |-> Level[n - 1]])

\* VisitFiles: the files of the directories in that order.
FileOrder(v) ==
    LET dirs == DirOrder(v)
    IN FlattenSeq([i \in DOMAIN dirs |-> ChildrenOf(v, dirs[i], "file")])

----------------------------------------------------------------------------
(* Sectors *)

\* Mutant: nothing takes no sector.
BytesToSectorsEmpty(b) == (b + LogicalBlockSize - 1) \div LogicalBlockSize

\* Zero bytes take one sector.
BytesToSectors(b) ==
    LET sectors == b \div LogicalBlockSize
    IN IF b % LogicalBlockSize # 0 \/ sectors = 0 THEN sectors + 1 ELSE sectors

PadOutSector(pos) ==
    IF pos % LogicalBlockSize = 0 THEN pos
    ELSE pos + (LogicalBlockSize - (pos % LogicalBlockSize))

\* InodeParts: full parts, then the rest; an empty inode has one empty part.
InodeParts(start, size) ==
    LET m == IF size = 0 THEN 1 ELSE (size + MaxPartSize - 1) \div MaxPartSize
    IN [i \in 1 .. m |->
           [start |-> start + (i - 1) * BytesToSectors(MaxPartSize),
            size  |-> IF i < m THEN MaxPartSize ELSE size - (m - 1) * MaxPartSize]]

Parts(inode) ==
    CASE inode.type = "dir"     -> InodeParts(inode.start, inode.length)
      [] inode.type = "file"    -> InodeParts(inode.start, inode.size)
      [] inode.type = "symlink" -> InodeParts(0, 0)

----------------------------------------------------------------------------
(* Directories *)

\* The identifiers of "." and ".."; a child's is its inode.
SelfId   == 0
ParentId == 1

\* The bytes that an identifier takes in a record, with its padding.
RecordBase(v, id) ==
    LET n == IF id \in {SelfId, ParentId} THEN 1 ELSE IF v[id].type = "dir" THEN 8 ELSE 10
    IN 34 + n - (n % 2)

RecordLen(v, rec) == RecordBase(v, rec.id) + TotalLen(rec.su)

InodeSystemUseEntries(v, id, name, i) ==
    (IF i = 1 /\ id = SelfId THEN <<Fixed("SP")>> ELSE <<>>)
    \o (IF v[i].type = "dir" THEN <<Fixed("ERLegacy"), Fixed("ER")>> ELSE <<>>)
    \o NewName(name)
    \o <<Fixed("PX"), Fixed("TF")>>
    \o (IF v[i].type = "symlink" THEN NewSymlink(v[i].target) ELSE <<>>)

\* splitInode: one record for each part of inode i.
SplitInode(v, dir, id, name, i) ==
    LET parts == Parts(v[i])
        Records(pack) ==
            [ca |-> pack.ca,
             records |-> dir.records \o
                 [p \in DOMAIN parts |->
                     [id |-> id, start |-> parts[p].start, length |-> parts[p].size,
                      dir |-> v[i].type = "dir", su |-> pack.su[p]]]]
    IN Records(PackParts(dir.ca, RecordBase(v, id), InodeSystemUseEntries(v, id, name, i),
                         Len(parts)))

\* ToDirectory: the records of directory d and its continuation area.
ToDirectory(v, d) ==
    LET contStart == v[d].start + BytesToSectors(Parts(v[d])[1].size)
        self   == SplitInode(v, [ca |-> NewContinuationArea(contStart), records |-> <<>>],
                             SelfId, Dot, d)
        parent == SplitInode(v, self, ParentId, DotDot, v[d].parent)
    IN FoldLeft(LAMBDA a, i : SplitInode(v, a, i, v[i].name, i), parent, Children(v, d))

\* No record is split across a sector boundary.
RecordStart(pos, len) ==
    LET capacity == LogicalBlockSize - (pos % LogicalBlockSize)
    IN IF len > capacity THEN pos + capacity ELSE pos

\* Directory.WriteTo: where the records go, and how many bytes are written.
WriteDirectory(v, records) ==
    FoldLeft(LAMBDA a, rec :
                 LET at == RecordStart(a.pos, RecordLen(v, rec))
                 IN [pos |-> at + RecordLen(v, rec),
                     recs |-> Append(a.recs, [at |-> at, rec |-> rec])],
             [pos |-> 0, recs |-> <<>>], records)

\* No record is too long (DirectoryRecord.WriteTo panics on one that is).
Fitting(v, records) ==
    \A i \in DOMAIN records : RecordLen(v, records[i]) <= MaxDirectoryRecordLen

DirectorySize(v, records) ==
    LogicalBlockSize * BytesToSectors(WriteDirectory(v, records).pos)

\* The size of a path table: ten bytes for the root, sixteen for another one.
PathTableSize(v) == 10 + 16 * (Len(DirOrder(v)) - 1)

----------------------------------------------------------------------------
(* WriteMetadataTo *)

\* Mutant: the continuation area is left out.
ReservedSectorsBare(size, ca) == BytesToSectors(size)

\* The sectors set aside for a directory of size bytes.
ReservedSectors(size, ca) == BytesToSectors(size) + Len(ca.sectors)

\* Directory d gets an address for t, its records and continuation area.
Place(a, d, t) ==
    [a EXCEPT !.v[d].start = a.next,
              !.v[d].length = DirectorySize(a.v, t.records),
              !.next = @ + ReservedSectors(DirectorySize(a.v, t.records), t.ca)]

\* The directories dirs get their addresses, in this order.
AssignDirectories(v, dirs) ==
    LET table == BytesToSectors(PathTableSize(v))
        Dir(a, d) == Place(a, d, ToDirectory(a.v, d))
        bare == [v |-> v, LTableStart |-> 18, MTableStart |-> 18 + table,
                 next |-> 18 + 2 * table]
    IN FoldLeft(Dir, bare, dirs)

\* assignLogicalBlockAddresses: next is the first free sector, in the end the
\* size of the volume.
AssignAddresses(v) ==
    LET File(a, f) ==
            [a EXCEPT !.v[f].start = a.next,
                      !.next = FoldLeft(LAMBDA n, p : n + BytesToSectors(p.size), @,
                                        Parts(a.v[f]))]
    IN FoldLeft(File, AssignDirectories(v, DirOrder(v)), FileOrder(v))

\* Whether what is written next lies where the layout has it (assertLBA).
Asserted(a, lba) == a.ok /\ a.pos = lba * LogicalBlockSize

\* The records w of directory d and its continuation sectors are written.
WriteDirAndArea(v, a, d, w, ca) ==
    LET Sector(b, s) ==
            [b EXCEPT !.cont = (b.pos \div LogicalBlockSize :> s.entries) @@ @,
                      !.pos = PadOutSector(@ + TotalLen(s.entries))]
    IN FoldLeft(Sector,
                [a EXCEPT !.ok = Asserted(a, v[d].start),
                          !.dirs = (a.pos \div LogicalBlockSize :> w.recs) @@ @,
                          !.pos = PadOutSector(@ + w.pos)],
                ca.sectors)

\* The second pass: writes the image and checks every address.  The image
\* keeps the directories and the continuation sectors by address; pos is the
\* length of what was written.
WriteImage(lay) ==
    LET v == lay.v
        WriteDir(a, d, t) ==
            WriteDirAndArea(v, [a EXCEPT !.ok = @ /\ Fitting(v, t.records)], d,
                            WriteDirectory(v, t.records), t.ca)
        Dir(a, d) == WriteDir(a, d, ToDirectory(v, d))
        table == PathTableSize(v)
        ltable == [ok |-> 18 = lay.LTableStart, dirs |-> <<>>, cont |-> <<>>,
                   pos |-> PadOutSector(18 * LogicalBlockSize + table),
                   rootStart |-> v[1].start, rootLength |-> v[1].length]
        mtable == [ltable EXCEPT !.ok = Asserted(ltable, lay.MTableStart),
                                 !.pos = PadOutSector(@ + table)]
    IN FoldLeft(Dir, mtable, DirOrder(v))

----------------------------------------------------------------------------
(* Reading *)

\* ReadDirIterator.Next: records with the same identifier are one entry.
Aggregate(recs) ==
    LET Join(a, rec) ==
            IF a # <<>> /\ Last(a).rec.id = rec.id
            THEN [a EXCEPT ![Len(a)].size = @ + rec.length]
            ELSE Append(a, [rec |-> rec, size |-> rec.length])
    IN FoldLeft(Join, <<>>, recs)

\* The entries of the directory at start, of size bytes: name, place, size,
\* and the link target if there is one (a link's size is not kept).
ReadDir(image, start, size) ==
    LET recs == IF start \notin DOMAIN image.dirs THEN <<>>
                ELSE SelectSeq(image.dirs[start], LAMBDA w : w.at < size)
        entries == Aggregate([i \in DOMAIN recs |-> recs[i].rec])
        Info(e) == LET su == AllSystemUseEntries(image.cont, e.rec.su)
                   IN [name |-> DecodeName(su), target |-> DecodeSymlink(su), dir |-> e.rec.dir,
                       extent |-> e.rec.start, size |-> e.size,
                       posix |-> \E i \in DOMAIN su : su[i].k = "PX"]
    IN [i \in DOMAIN entries |-> Info(entries[i])]
=============================================================================

-------------------------------- MODULE VDisc --------------------------------
(***************************************************************************)
(* pkg/vdisc: builder.go, loader.go and extent.go on top of the volume and *)
(* the trie.  A builder collects files and symbolic links; Build stores    *)
(* the image's metadata as one object (the header, <url>.isohdr) and then  *)
(* the vdisc, which names for every extent of the image the object that    *)
(* holds it.  Load makes of a vdisc the map from addresses to extents that *)
(* the mounted disc is read with.                                          *)
(*                                                                         *)
(* Objects are stored under their URLs: by a store that keeps versions     *)
(* (the committed URL names the version) or by one that replaces objects.  *)
(***************************************************************************)
EXTENDS Volume, Trie

CONSTANTS Files,       \* files that may be added: [path, url, size]
          Links,       \* symbolic links that may be added: [path, target]
          HeaderName,  \* the runes of the header's name, relative to the vdisc
          VersionOf,   \* VersionOf[b]: the runes of the query that names version b
          MaxBuilds,   \* bound: calls of Build
          MaxCalls     \* bound: calls of AddFile, AddSymlink and Build

ASSUME VDiscAssumption == /\ MaxCalls \in Nat
                          /\ MaxBuilds \in Nat
                          /\ DOMAIN VersionOf = 1 .. MaxBuilds

VARIABLES
    volume,     \* builder.volume
    numFiles,   \* builder.numFiles
    adds,       \* calls of AddFile and AddSymlink
    builds,     \* calls of Build
    pc,         \* where Build is: "idle", "headed" or "indexed"
    header,     \* the name under which the header was committed
    meta,       \* metaLen, and whether the layout's assertions held
    trie,       \* the trie of object URLs
    store,      \* the stored headers, by name
    disc,       \* the stored vdisc, or NoDisc
    versioned   \* the store keeps versions

builderVars == <<volume, numFiles, adds>>
vars == <<volume, numFiles, adds, builds, pc, header, meta, trie, store, disc, versioned>>

NoDisc == [extents |-> <<>>, uris |-> <<>>, ok |-> TRUE, build |-> 0, volume |-> <<>>]

NoMeta == [ok |-> TRUE, metaLen |-> 0, space |-> 0]

Init == /\ volume = NewVolume
        /\ numFiles = 0
        /\ adds = 0
        /\ builds = 0
        /\ pc = "idle"
        /\ header = <<>>
        /\ meta = NoMeta
        /\ trie = NewTrieMap
        /\ store = <<>>
        /\ disc = NoDisc
        /\ versioned \in BOOLEAN

----------------------------------------------------------------------------
(* The caller *)

\* builder.AddFile: only a file that the volume took is counted.
AddFile(f) ==
    LET added == AddLeaf(volume, f.path, Inode("file", <<>>, 0, f.size, f.url, <<>>))
    IN /\ pc = "idle"
       /\ adds + builds < MaxCalls
       /\ adds' = adds + 1
       /\ volume' = added.v
       /\ numFiles' = IF added.ok THEN numFiles + 1 ELSE numFiles
       /\ UNCHANGED <<builds, pc, header, meta, trie, store, disc, versioned>>

AddSymlink(l) ==
    /\ pc = "idle"
    /\ adds + builds < MaxCalls
    /\ adds' = adds + 1
    /\ volume' = AddLeaf(volume, l.path, Inode("symlink", <<>>, 0, 0, <<>>, l.target)).v
    /\ UNCHANGED <<numFiles, builds, pc, header, meta, trie, store, disc, versioned>>

\* Another builder for the same URL.
NewBuilder ==
    /\ pc = "idle"
    /\ builds > 0
    /\ volume' = NewVolume
    /\ numFiles' = 0
    /\ UNCHANGED <<adds, builds, pc, header, meta, trie, store, disc, versioned>>

----------------------------------------------------------------------------
(* Build *)

\* Mutant: the query is dropped from the committed URL.
HeaderOfPath(b) == HeaderName

\* The name of the header that the b-th call commits: path.Base of its
\* URL, with the query that names the version.
HeaderOf(b) == IF versioned THEN HeaderName \o VersionOf[b] ELSE HeaderName

\* Create, WriteMetadataTo, Flush and Commit of the header.  The addresses
\* stay in the inodes, and an older header under this name is replaced.
BuildHeader ==
    /\ pc = "idle"
    /\ builds < MaxBuilds /\ adds + builds < MaxCalls
    /\ builds' = builds + 1
    /\ header' = HeaderOf(builds')
    /\ \E lay \in {AssignAddresses(volume)} : \E image \in {WriteImage(lay)} :
          /\ volume' = lay.v
          /\ meta' = [ok |-> image.ok, metaLen |-> image.pos, space |-> lay.next]
          /\ store' = (header' :> [image |-> image, build |-> builds']) @@ store
    /\ pc' = "headed"
    /\ UNCHANGED <<numFiles, adds, trie, disc, versioned>>

\* One of these calls fails: nothing is stored.  The inodes may have addresses,
\* or only the first few directories, when the first pass ends at an error.
BuildHeaderFails ==
    /\ pc = "idle"
    /\ builds < MaxBuilds /\ adds + builds < MaxCalls
    /\ builds' = builds + 1
    /\ \/ volume' = AssignAddresses(volume).v
       \/ \E dirs \in {DirOrder(volume)} : \E n \in 0 .. Len(dirs) :
              volume' = AssignDirectories(volume, SubSeq(dirs, 1, n)).v
    /\ UNCHANGED <<numFiles, adds, pc, header, meta, trie, store, disc, versioned>>

\* The trie: the header at address 0, then every file at its start.
BuildTrie ==
    /\ pc = "headed"
    /\ trie' = FoldLeft(LAMBDA t, f : Put(t, volume[f].url, volume[f].start),
                        Put(NewTrieMap, header, 0), FileOrder(volume))
    /\ pc' = "indexed"
    /\ UNCHANGED <<builderVars, builds, header, meta, store, disc, versioned>>

\* An extent of an object of size bytes, under the leaf for address lba.  A
\* leaf that is not there reads as the zero leaf.
Extent(inv, lba, size) ==
    LET leaf == IF lba \in DOMAIN inv.leaves THEN inv.leaves[lba]
                ELSE [parent |-> 0, content |-> <<>>]
        blocks == BytesToSectors(size)
    IN [prefix |-> leaf.parent, suffix |-> leaf.content, blocks |-> blocks,
        padding |-> blocks * LogicalBlockSize - size]

\* Build returns: its local variables are gone.
Return == /\ pc' = "idle"
          /\ header' = <<>>
          /\ meta' = NoMeta
          /\ trie' = NewTrieMap

\* Invert, the extents, and Create, Encode, Close and Commit of the vdisc.
\* There is room for numFiles + 1 extents: one more is a panic.
BuildDisc ==
    \E order \in KidOrders(trie) :
        LET inv   == Invert(trie, order)
            files == FileOrder(volume)
        IN /\ pc = "indexed"
           /\ disc' = [extents |-> <<Extent(inv, 0, meta.metaLen)>> \o
                           [i \in DOMAIN files |->
                               Extent(inv, volume[files[i]].start, volume[files[i]].size)],
                       uris    |-> inv.branches,
                       ok      |-> inv.ok /\ Len(files) = numFiles,
                       build   |-> builds,
                       volume  |-> volume]
           /\ Return
           /\ UNCHANGED <<builderVars, builds, store, versioned>>

\* One of these calls fails: the header stays, the vdisc is the older one.
BuildDiscFails ==
    /\ pc = "indexed"
    /\ Return
    /\ UNCHANGED <<builderVars, builds, store, disc, versioned>>

----------------------------------------------------------------------------
(* Load *)

\* extentIndices: the extent that starts at an address; and the blocks of the
\* image.
Load(d) ==
    FoldLeft(LAMBDA a, i : [index |-> (a.pos :> i) @@ a.index, pos |-> a.pos + d.extents[i].blocks],
             [index |-> <<>>, pos |-> 0], [i \in DOMAIN d.extents |-> i])

\* extent.URL before it is resolved against the vdisc's URL, and extent.Size.
ExtentURL(d, i)  == WholeURI(d.uris, d.extents[i].prefix, d.extents[i].suffix)
ExtentSize(d, i) == d.extents[i].blocks * LogicalBlockSize - d.extents[i].padding

\* The parts of the image: every extent that has blocks, and an object of
\* zeros (of extent 0) for its padding.
ImageParts(d) ==
    FlattenSeq([i \in DOMAIN d.extents |->
        LET e == d.extents[i]
            own == [ext |-> i, size |-> ExtentSize(d, i)]
            pad == [ext |-> 0, size |-> e.padding]
        IN IF e.blocks = 0 THEN <<>> ELSE IF e.padding > 0 THEN <<own, pad>> ELSE <<own>>])

\* storage.Concat: the parts by their offset.  A part of no bytes gives way
\* to the one that follows it at the same offset.
Concat(objects) ==
    FoldLeft(LAMBDA c, o : [parts |-> (c.size :> o) @@ c.parts, size |-> c.size + o.size],
             [parts |-> <<>>, size |-> 0], objects)

\* concatenated.ReadAt: from the part with the last byte down to the first
\* part that has nothing to give; what is read of each, by its offset.
ReadImage(c, off, len) ==
    LET end     == Min({off + len, c.size})
        below   == {o \in DOMAIN c.parts : o <= off + len - 1}
        From(o) == Max({off, o}) - o
        N(o)    == Min({end, o + c.parts[o].size}) - Max({off, o})
    IN [o \in {o \in below : \A q \in below : q >= o => N(q) > 0} |->
            [ext |-> c.parts[o].ext, from |-> From(o), n |-> N(o)]]

----------------------------------------------------------------------------
Build == BuildHeader \/ BuildHeaderFails \/ BuildTrie \/ BuildDisc \/ BuildDiscFails

Next == \/ \E f \in Files : AddFile(f)
        \/ \E l \in Links : AddSymlink(l)
        \/ NewBuilder
        \/ Build

Spec == Init /\ [][Next]_vars

----------------------------------------------------------------------------
(* Properties *)

\* The two passes over the directories agree: what the second one writes lies
\* where the first one put it (no assertLBA panics), no record outgrows its
\* limit though the parts of a file share their entries, and the first file
\* begins where the metadata ends (WriteMetadataTo, Build).
LayoutAgrees ==
    pc = "headed" =>
        LET files == FileOrder(volume)
        IN /\ meta.ok
           /\ meta.metaLen = LogicalBlockSize *
                 (IF files = <<>> THEN meta.space ELSE volume[files[1]].start)

\* The entry that stands for inode i in a list read from the image.
Shows(v, info, i) ==
    /\ LET nm == NewName(v[i].name) IN info.name = [c \in DOMAIN nm |-> nm[c].of]
    /\ info.posix
    /\ info.dir = (v[i].type = "dir")
    /\ v[i].type # "symlink" => info.extent = v[i].start
    /\ v[i].type = "file" => info.size = v[i].size
    /\ v[i].type = "dir" => info.size = v[i].length
    /\ info.target = IF v[i].type # "symlink" THEN <<>>
                     ELSE LET sl == NewSymlink(v[i].target)
                          IN [s \in DOMAIN sl |-> sl[s].of]

\* Whoever reads the stored image finds in every directory exactly what was
\* added: every name, however its entries were moved to the continuation
\* area, every link, and every file with its size and place, however many
\* records it takes (toDirectory, ContinuationArea.Append against
\* ReadDirIterator.Next).
TreeReadBack ==
    pc = "headed" =>
        LET image == store[header].image
        IN /\ image.rootStart = volume[1].start /\ image.rootLength = volume[1].length
           /\ \A d \in ToSet(DirOrder(volume)) :
                LET kids == Children(volume, d)
                    list == ReadDir(image, volume[d].start, volume[d].length)
                IN /\ Len(list) = Len(kids) + 2
                   /\ \A i \in DOMAIN kids : Shows(volume, list[i + 2], kids[i])
                   /\ list[1].extent = volume[d].start
                   /\ list[2].extent = volume[volume[d].parent].start

\* The trie is the map it stands for: a URL has the value that was put last,
\* a prefix or an extension of one has none (TrieMap.Put and Get).
TrieIsMap ==
    pc = "indexed" =>
        LET files == FileOrder(volume)
            With(u) == {i \in DOMAIN files : volume[files[i]].url = u}
        IN /\ Get(trie, header) = {0}
           /\ \A f \in Files :
                 Get(trie, f.url) = IF With(f.url) = {} THEN {}
                                    ELSE {volume[files[Max(With(f.url))]].start}

BytesRead(r) == MapThenSumSet(LAMBDA o : r[o].n, DOMAIN r)

\* The mounted image has the size of its extents and no hole that would cut a
\* read short; at the address of every file it shows the file's own bytes from
\* the first on, then zeros to the end of the sector, for an empty file too
\* (Load, Concat, concatenated.ReadAt).
ImageShows(d) ==
    \E load \in {Load(d)} : \E image \in {Concat(ImageParts(d))} :
        /\ image.size = load.pos * LogicalBlockSize
        /\ BytesRead(ReadImage(image, 0, image.size)) = image.size
        /\ \A at \in DOMAIN load.index :
              LET e   == load.index[at]
                  off == at * LogicalBlockSize
                  len == d.extents[e].blocks * LogicalBlockSize
                  own == ExtentSize(d, e)
                  r   == ReadImage(image, off, len)
              IN /\ BytesRead(r) = len
                 /\ own > 0 => r[off] = [ext |-> e, from |-> 0, n |-> own]
                 /\ \A o \in DOMAIN r : r[o].ext = IF o < off + own THEN e ELSE 0

\* A stored vdisc leads from the address of every file to the file's own
\* object and size, from address 0 to the header, and covers the volume
\* without a gap, in whatever order Invert's maps were traversed.  A file
\* whose URL another, later file has too is left out: its name is lost.
\* Before it is inverted, the trie is the map it stands for; and the image that
\* Load puts together shows the files where the volume has them.
DiscLeadsToObjects ==
    /\ TrieIsMap
    /\ disc.build > 0 =>
        LET v     == disc.volume
            files == FileOrder(v)
            load  == Load(disc)
            Last1(i) == \A j \in DOMAIN files : j > i => v[files[j]].url # v[files[i]].url
        IN /\ disc.ok
           /\ ImageShows(disc)
           /\ \A i \in DOMAIN files :
                 /\ v[files[i]].start \in DOMAIN load.index
                 /\ LET e == load.index[v[files[i]].start]
                    IN /\ ExtentSize(disc, e) = v[files[i]].size
                       /\ Last1(i) => ExtentURL(disc, e) = v[files[i]].url

\* With a store that keeps versions, the header that a stored vdisc names is
\* the one of its own build, also while a rebuild is under way and after it
\* failed; without versions this holds until the next header is stored.
DiscKeepsHeader ==
    /\ disc.build > 0
    /\ versioned \/ disc.build = builds
    => store[ExtentURL(disc, 1)].build = disc.build
=============================================================================

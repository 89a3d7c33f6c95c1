# vdisc: a verification project

vdisc builds and mounts *virtual discs*: an ISO 9660 image whose metadata is one
object and whose file contents stay where they are, in objects on S3, Swift, HTTP or
a file system. This directory holds TLA+ modules of the parts of that program in
which goroutines, processes and remote services meet, the TLC configurations that
check them on small instances, and TLAPS proofs of the results that hold for every
instance.

## The system

| part | state it keeps | operations | hard behaviour |
|---|---|---|---|
| memory cache, `pkg/caching/mem.go` | a pool of buffers in LRU order; per buffer a mutex, a key and a count of valid bytes | `memPool.Get`, `memBuf.Fill`, `memBuf.FillAndCopyAt` | a buffer is evicted between `Get` and the lock; the source fails while the buffer is claimed |
| read-ahead, `pkg/caching/readahead.go` | position and length of the current run, next block; tokens shared by all objects | `Update`, `readBlock` | tokens acquired and released by different goroutines; the edge of the object |
| caching object, `pkg/caching/cache.go` on `pkg/storage/concat.go` | none but the controller | `ReadAt` | concurrent work items that finish in any order, some failing |
| disk cache, `pkg/caching/disk.go` on `pkg/storage/file` | files named by md5 with attributes for key and checksum, a lock file each, temporary files | `ReadAt`, `ReadAhead`, `fill` and its background write-back, `Gc`, `CheckIntegrity` | several processes; a lock handed from a call to its goroutine; process death and power failure |
| command pool, `pkg/blockdev/cmdpool.go` | workers, one feeder per device, two wait groups | `DevReady`, `worker`, `Close` | closing of channels against workers still answering |
| S3 uploader, `pkg/s3util/uploader.go` | chunk channel, worker goroutines, buffer pool, list of completed parts | `UploadWithContext` | parts in any order; one part fails; an answer is lost; the limit on parts |
| S3 object writer, `pkg/storage/s3/writer.go` | a state word, a pipe, a wait group | `Write`, `ReadFrom`, `Commit`, `Abort` | the upload goroutine at the other end of the pipe |
| directory visitor, `pkg/storage/driver/visitor.go` | two slices of paths, three channels per round | `Visit`, `visitWorker` | aliasing of the slices; errors against the end of a round |
| transports, `pkg/httputil` | an LRU of per-host transports, resolved addresses in turn | `RoundTrip`, `Resolve`, the retries | a resolver beside requests; retries of requests that were served; a timeout of the client that asked |
| HTTP driver, `pkg/storage/http` | per object a size that is asked once | `Open`, `Size`, `ReadAt`, `Stat`, `Remove` | the object is replaced between the size and the read; odd and lost answers |
| S3 driver, `pkg/storage/s3`, `pkg/s3util/listbucket.go` | a promise per bucket for its region | `Create`, `Readdir` with `ListBucket`, the lookup of regions | callers that wait on a condition variable; listings in pages while the bucket changes |
| RAM driver, `pkg/storage/ram` | a tree of inodes under a mutex | `Create`, `Commit`, `Open`, `Remove`, `Stat`, `Readdir` | commits that make directories others remove |
| front end, `pkg/storage`, `pkg/storage/driver/registry.go` | the registered drivers | `Register`, `Find`, `Open` to `Visit` | a visit over a tree that others change |
| builder and loader, `pkg/vdisc` | the volume, the URL trie, the extents; two stored objects | `AddFile`, `AddSymlink`, `Build`, `Load`, `ExtentURL`, reads of the image | two objects are stored one after the other; the trie is inverted in the random order of Go's maps; addresses computed by one part and used by three |
| ISO 9660 writer and reader, `pkg/iso9660` | a tree of inodes with block addresses; the reader's lstat cache | `AddFile`, `WriteMetadataTo`, `ReadDirIterator`, `Walker` | two passes that must agree; records that must not cross a sector; chains of continuation sectors; files in several parts whose records share an array; symbolic links; a cache of resolved paths |
| FUSE front end, `pkg/isofuse` with `mount` of `pkg/vdisc/cli` | the inodes the kernel holds with their counts, a cache of entries, open handles | `LookUpInode`, `ForgetInode`, `OpenFile`, `ReleaseFileHandle`, `ReadDir`, `Start`, `Close`, `Join` | requests that cross; a signal beside an unmount |
| command line, other drivers | small | | mostly input and output |

They interact by plain calls: a mounted disc is read by the command pool's workers
(`blockdev`) or by FUSE; both read the concatenation of extents that `vdisc.Load`
builds; each extent is a caching object over a slicer (memory or disk cache), which
reads the remote object through a driver and the HTTP transports. Building a disc
walks directories with `Visit`, writes the image's metadata and uploads both objects
with the S3 writer. Shared state is limited to the caches, the read-ahead tokens, the
cache directory (between processes) and the transports.

## Modules

| module | models | how |
|---|---|---|
| `Blocks` | blocks, requests and replies of `pkg/caching` | a byte is the pair of its block and its position, so a stale or misplaced byte is visible |
| `ReadThrough` | the promise of `caching.Slicer` | abstract: a read returns the object's bytes or an error |
| `MemCache` | `mem.go` | one action per critical section: `Get*` (under the pool's mutex), `Lock`, `FillOk`, `ReaderFillErr`, `AheadFillErr`, `Copy` (under the buffer's mutex) |
| `AheadParams`, `ReadAhead` | `readahead.go` | `Update` to its loop, `StartReadBlock` for an iteration (where `TryAcquire` races), `UpdateDone`, `ReadBlockDone` |
| `CachedObject` | `cache.go` `ReadAt`, `concat.go` `ReadAt`, `interval.go` | composes with `ReadAhead`: `ReadAt` cuts a call into work items, `WorkItem` is one goroutine, `Gather` is the join, then `ReadAhead!Update` |
| `DiskCache` | `disk.go`, `file.go`, `lock.go`, `writer.go` | `Begin`, `Open*`, `Flock`, `LostRace`, `StillMissing`, `SourceOk`, the `Wb*` steps of the write-back, `Gc*`, `Kill`, `PowerFailure` |
| `CmdPool` | `cmdpool.go` | `Feed*` for a feeder, `Handle`, `Reply`, `CmdDone`, `WorkerDone` for a worker, `Close`, `CloseWait`; go-tcmu as `CloseIn`, `StopReading` |
| `S3Upload` | `uploader.go` | the main goroutine (`FirstRead` to `CompleteOk` or `Fail`) and the workers (`Recv`, `Check`, `PartSent`, `PartErr`); S3 keeps the upload, its parts and the object |
| `S3Writer` | `s3/writer.go` | the caller's `Write`, `ReadFrom`, `Commit`, `Abort` against `StartPiped`, `Transfer`, `UploadOk`, `UploadErr` |
| `Visitor` | `driver/visitor.go` | `Round`, `Accumulate`, `RoundDone`, `ReturnErr`, the feeder, the workers; the array shared by `paths` and `nextPaths` is modelled with its capacity |
| `SystemUse` | the system use entries of `iso9660`, `susp`, `rrip`: `NewName`, `NewSymlink`, `ContinuationArea.Append`, the packing loop of `toDirectory`, `allSystemUseEntries`, `DecodeName`, `DecodeSymlink` | operators; an entry is its kind, its real length and what it says. `PackParts` keeps the array that the records of a file's parts share |
| `Volume` | `volume.go`, `inode.go`, `directoryinode.go`, `directory.go`, `pathtable.go`, `ReadDirIterator` | operators on a sequence of inodes: `AddLeaf`, `AssignAddresses` (first pass), `WriteImage` (second pass), `ReadDir` |
| `Trie` | `trie.go` and the walk up of `extent.URL` | a sequence of nodes; `Invert` takes the order of every node's children as an argument |
| `VDisc` | `builder.go`, `loader.go`, `extent.go`, `storage/concat.go` | `AddFile`, `AddSymlink`, then `BuildHeader`, `BuildTrie`, `BuildDisc` (or `...Fails`) for the stages of `Build`; `Load` of what is stored; `ImageParts`, `Concat` and `ReadImage` for the image that is mounted |
| `Walker` | `walk.go`, `file.go` and what `ls`, `tree` and `cp` ask of them | a step is the scan of one directory, in which the image may fail; `lstat` with its cache and the links that `Stat` follows; the arrays that Walk's items share |
| `IsoFuse` | `isofuse/*.go`, `doFuse` of `cli/mount.go` | a step is a critical section of a handler; the kernel is modelled by what it may ask (it names only inodes it holds, forgets what nothing needs); `Server.serve`, `join` and the select of `doFuse` |
| `Mount` | one command of `cli` on a loaded disc | composes `Walker` and `IsoFuse`; a behaviour runs one of them (`session`) |
| `ObjectStore` | the promise of `driver.Driver`, `Creator`, `Remover` and `Readdirer` | abstract: a map from paths to data, with true answers |
| `RAMDriver` | `storage/ram` | one action per critical section; the inodes, with what the tree looks like from the root kept beside them, which is the refinement mapping |
| `BucketRegion` | `region.go`, `parseURL` and `getBucketRegion` of `s3.go` | `GetBucketRegion`, `Apply`, `Complete`, `Broadcast` |
| `BucketList` | `Readdir` of `s3.go`, `listbucket.go` | `Page` and `PageFails` for a turn of the loop, `Change` for other clients; S3 keeps the versions |
| `Transport` | `rr.go`, `retry.go` | `Pick`, `Choose`, `ResolveAgain`, `Retry`; the network as `Serve`, `NoAnswer`, `Deadline` |
| `HTTPObject` | `storage/http`, `range.go` | extends `Transport` with `Open`, `SizeOnce`, `StatHead`, `GetRange`, `ReadBody`, `Delete` and a server that is orderly, odd or loses answers |
| `Storage` | `storage.go`, `registry.go`, `driver.go` | `Register` and `Call` dispatch; then a behaviour follows one driver (`session`): `RAMDriver`, a `Visitor` over the RAM tree while others change it (`Meanwhile`), `BucketRegion` before `S3Writer` or `BucketList`, or `HTTPObject` |
| `MC*` | | instances for TLC |
| `*Proofs` | | theorems and their proofs |

Data is abstracted to what the properties tell apart: a body is a number of parts, a
URL is a model value or a short sequence of runes, a byte is its block or version with its
place, an md5 is the function `Fname` from keys to files. Control is
kept: every early return, error path and deferred call is an action or part of one.
Every module holds a few definitions whose comment begins with "Mutant": a plausible
mistake in the code beside the definition it would change. `PROJECT.json` pairs each
checked property with a mutant under which TLC finds it violated.

## Runs

| run | shows | bounds |
|---|---|---|
| `MemCache` | reads are exact, no buffer serves two cached blocks, a failed read-ahead harms no block but its own, every call returns; `MemCache` implements `ReadThrough` (an end of file inside a block with a flaky source counts as an error of that block) | two blocks, one of them short and with a source that may fail read-aheads (`Flaky`), on one buffer: every eviction hits a buffer in use; two readers and a read-ahead are all the roles of a buffer. The LRU order of more buffers rests on `PoolCorrect` |
| `MemCachePoisoned` | **violated**: a read is answered end of file after a failed read-ahead | as above, smallest |
| `CachedObject` | reads are joined without a gap, success is never short; tokens are conserved, blocks are read ahead inside the object and the window, beyond all that the run has read ahead; the composition implements `ReadAhead` | three bytes in blocks of two, reads of up to two bytes: inside, across, on the boundary, past the end |
| `DiskCache` | entries are whole, no needless fetch, no stray temporary file; implements `ReadThrough`; reads return, which a lock left behind would prevent | two processes and one file for two blocks; one I/O error (one of a write-back may come with a failing removal of its temporary file), one crash or power failure, one collection, at any step |
| `CmdPool` | no channel misuse, answers before close, quiet after close; commands served, Close returns | two devices, three commands, two workers: workers can be short and can be idle |
| `S3Upload` | the object is whole or absent, success means stored; no upload is left; the upload returns | up to six parts, limit five, two workers, a channel of two (so that the main goroutine can block on the fifth part), two faults, two attempts to complete |
| `Storage` | the RAM driver implements `ObjectStore`; a visit of a tree that others change meets each directory once and ends with its workers; no S3 call hangs, commits are durable and an aborted object is never stored, a listing in pages is right while others change the bucket; what an HTTP call answers is true and every call returns | one call of the front end for each scheme and operation. RAM: five paths at every level of a tree of depth three, one beginning with "..", two commits or removals. Visit: a tree of seven directories with one hidden, two workers, one failure, one change meanwhile. S3: two callers, two buckets, one failing lookup, three writes. Listing: four keys (the directory's own, two files, one prefix), pages of three entries, which end between the versions of a file, two changes. HTTP: two requests on a host with one address that answers and one that does not, another host and room for one in the LRU, two attempts, one fault, an object of three bytes that becomes one byte or vanishes, a size that is unknown or declared too large |
| `S3WriterEmpty` | **violated**: a commit of nothing may succeed without an object | one write |
| `VisitorDepth` | **violated**: depth-first with two workers skips one directory and visits another twice | seven directories on three levels, one rejected |
| `VDisc` | the two passes of the writer agree; the image read back shows what was added; the trie is a map; a stored vdisc leads from every address to the object that holds it, in every order of the trie's inversion, and the image that is mounted shows its bytes there, followed by zeros; a rebuild that fails, also in the middle of its first pass, leaves the old vdisc with its own header where the store keeps versions | at most four calls of `AddFile`, `AddSymlink` and `Build`, two of them builds. Five files and a link, with the real lengths of records and sectors: an empty file; one that needs nine records, more than a sector, whose name of 165 bytes lets the CE entry of a part overwrite the next entry of the shared array; names of 255 and 300 bytes; a link with a segment of 500; a path that is refused after its directory was made, a file in the way of a directory, two files with one URL. Three directories at the root chain the continuation area over a sector. `MaxPartSize` is 8192 in place of 4 GiB, above every directory of the instance |
| `Mount` | lookups of the Walker are right until one goes on below a cached directory; a listing shows every file once; the server knows exactly the inodes the kernel holds, handles read their own files and are closed, a directory read piecewise is listed once; the disc is closed last; a signal or an unmount ends the command | Walker: nine directories five deep, two of them side by side at depth four with another below one of them, a chain of links down and up and one to itself, sixteen commands, one failing read, one dropped cache entry. FUSE: a file, a directory and a link, two requests at a time, three in all, one failing read |
| `Walker` | **violated**: an Lstat describes another directory than the named one | one `cp` through the chain of links, nothing failing |

The properties of the composing modules `Mount` and `Storage` are those of their parts,
where they are explained. Deadlock checking is off in some runs. In `CmdPool` a worker
hangs for good when the kernel side stops reading answers, which the code cannot
prevent; in `S3Upload` the upload returns, once (`UploadReturns` finds a hang before
that); in `Storage`, `Mount` and the runs about `S3Writer` and `Visitor` a call or a
command is over (the temporal properties find a hang; a visit's feeder and, after an
unmount, the goroutine of `Server.serve` may stay blocked, see below); in `VDisc` the
calls are used up. `TypeOK` of `MemCache` and `DiskCache` is proved; in the other modules
it documents the state, and the invariants of the proofs have what they need of it.

## Fairness

`WF` on the steps of a goroutine says that the Go scheduler runs what can run, and
that calls to the source, to S3 or to a handler return, well or badly. `SF` is used
where a goroutine queues: for a mutex (`sync.Mutex` hands itself to a waiter after
one millisecond), for a `flock` (the kernel wakes waiters in order) and for a send on
a channel with other senders (waiting senders are queued). In
`Storage` a driver's goroutines share one `WF`: none of their steps repeats for ever, so
it is enough that whatever can run is run. Nothing is assumed of the
environment: no device has to close, no caller has to call, no address has to answer, no
signal has to come.

## What is proved

| theorem | says | rests on |
|---|---|---|
| `MemCacheProofs!TypeCorrect`, `PoolCorrect` | types; no two cached blocks share a buffer, for any number of buffers, blocks and callers | the LRU sequence has no repetition and is as long as the map |
| `MemCacheProofs!ReadsCorrect` | every successful read returns its own bytes, also with failing reads and read-aheads | `MemInv`: the mutex of a buffer is held by exactly the thread at work on it; while a thread is at work the buffer carries its key (`KeyWanted`); a buffer is filled with its key's bytes or has no valid byte (`AllOrNothing`) |
| `MemCacheProofs!NoPoisonedBuffer`, `MemRefinement` | a failed read-ahead harms no block but its own: for any other block a key means a full buffer and no read meets an end of file; the cache implements `ReadThrough` | the same, with "no valid byte" excluded for blocks outside `Flaky` |
| `ReadAheadProofs!ReadAheadOnce`, `ReadAheadInObject` | blocks are read ahead in increasing order within a run, so none twice, ahead of the reader, inside the window and the object | `RunInv`: every started block is below `nextBlock`, and `nextBlock` is beyond the current block |
| `CmdPoolProofs!PoolNoPanic`, `PoolAnswers`, `PoolQuiet` | no send on a closed channel, no negative wait group; every command answered when a device's channel is closed; nothing runs after Close | `PoolInv`: a device's wait group counts its pending commands; the pool's counts the running goroutines; a closed channel belongs to a drained feeder |
| `DiskCacheProofs!CacheComplete`, `SecondLook`, `FlockReleased`, `TempFilesCleaned`, `DiskTypeCorrect` | an entry that can be opened holds the whole block of its key through every error, death of a process and power failure; a block is fetched only while its entry is missing; a lock belongs to a call or to the write-back it was handed to; only dead processes and removals that fail leave temporary files | `DiskInv`: the write-back fills its file in the order data, key, checksum, sync, rename (`WriteOrder`), which is what makes any prefix of it invisible or whole; the owner of a lock is the thread that is between `Flock` and its release (`LockOwned`) |
| `DiskCacheProofs!DiskRefinement` | the disk cache implements `ReadThrough` | the same, step by step: every step of the cache is an answer of the object or changes nothing a caller sees |
| `S3UploadProofs!UploadWhole`, `UploadClosed`, `NoBufferReused` | success means that the whole body is stored with its parts in order; an upload that gives up is aborted unless that request failed; no buffer is in two hands | `UploadInv`: a chunk is in exactly one of the channel, a worker and the list of completed parts (`OnePlace`), none is missing unless an error is recorded (`NoneLost`), a completed part carries its own bytes (`StoredRight`), buffers out of the pool are counted (`BuffersHeld`) |
| `MountProofs!InodesCounted`, `HandlesCorrect`, `DirComplete`, `DiscClosed` | the server's count of an inode is what the kernel holds and what is on its way; handles read their own file and close it; a directory read in pieces is listed once and completely; the disc is closed after the last request | `FuseInv`: lookups in progress, answers on the way and forgets in progress are counted as sets of threads (`Counts`); the objects that are open are those of handles and of opens and releases in progress (`ObjectsCounted`); the offset of a stream is a border between two records (`Streams`) |
| `MountProofs!LookupsRight` | for every tree, every path and every command: what a lookup finds is what is at the path, a lookup that fails without an unreadable directory asked for nothing that is there, and the cache tells the truth, until a lookup has gone on below a cached directory | `WalkInv`: the names a lookup has left are a tail of the path and the directory it is in is the one that the names before lead to (`Scanning`); without such a lookup every key of the cache holds what is there (`KeysRight`); what tree has still to print lies under the directories it is filed under (`QueueRight`). `At`, `Clean`, what a scan leaves in the cache and what a listing shows are folds: each is followed name by name (`FoldAt`, `AtAppend`, the lemmas on `Clean`), and `AllPlaced` takes the tree along every path |
| `MountProofs!ListingsRight` | for every tree and every path: `tree` and `ls -r` show no file twice and none from elsewhere, and one that ends without an error has shown every file below its path, in the directory it is in unless Walk's items share an array there | every file has one path (`OnePath`), so a listing is told path by path. What is shown and what has still to be read cover the tree (`Cover`, `Due`): a directory leaves the second and its files join the first, whether depth first (`TreeTrue`, where the entries not yet printed count as shown) or breadth first (`LsrTrue`); when nothing is left to read, all is shown (`CoverAll`). The arrays of Walk's items: an item's array holds its directory's path, and no two items have the same array, unless they or something above them have four names and a directory beside them (`Queued`, `OneMore`). No lookup of a directory that is there fails without an error of the image (`FailedRight` of `WalkInv`) |
| `StorageProofs!CommittedWhole` | a commit that succeeds has stored all that was written, an aborted object is not stored | `WriterInv`: what was read from the pipe is a beginning of what was written, the write end is closed by Commit or broken by Abort, and the wait group counts the goroutine that reads |
| `StorageProofs!HttpAnswersTrue` | a read that succeeds has all the bytes it asked for, of one version that was there during the call; a removal that succeeds met a moment without the object | `HttpInv`: whatever response is on its way to a call, from whichever attempt, was made of a version seen since the call began (`RespTrue`); an idle call has no request |
| `StorageProofs!RamIsObjectStore` | the RAM driver's tree of inodes implements the map from paths to objects of `ObjectStore`: its calls answer what is true of the map, a commit replaces exactly its own path and makes the directories on the way, a removal takes the path and what is below it | `RamInv`: as long as the root is there, some map from paths to inodes (`TreeAt`) gives every path its own inode, continues from every directory along each of its entries and is what `descend` follows name by name (`Traversed`); what the calls reach from the root is that map (`Reached`), and a commit or a removal changes it at its own path (one `IsTree` lemma each) |
| `StorageProofs!VisitedOnce` | a visit of a changing tree visits no directory twice and, if nothing fails, every one that was there all the time | `VisitInv`: a directory is in one of nextPaths, the paths not yet fed, the hands of a worker and the visited ones (`Once`); it got there because the directory above was visited (`FromParent`), so the subdirectories of one that is being visited are new; one that was always there is somewhere as soon as that has happened (`Passed`); between rounds nobody works (`Rounds`) |
| `StorageProofs!PagesListed` | a listing in pages has what was there all the time, once, and nothing that never was, while others put and delete | `ListInv`: up to the marker every such key is listed once and beyond it none (`UpToMarker`); a page is closed under "sorts before" (lemma `Paged`), so the latest version of a key comes with its first entry (`EntryOnce`) |
| `CachedObjectProofs!ReadsJoined` | the bytes of a read are those from its offset on without a gap, and success is the whole of what the object has there, for every size of object, block and read | `ReadInv`: the cut of a read into blocks (lemma `Cutting`: source, destination and length of every part), what each part delivered, and the sum of the parts before the first short one (lemmas `Reached`, `TotalIs`, `JoinRight`) |
| `CachedObjectProofs!ReadAheadRefinement`, `ReadersAhead`, `TokensBalance` | the caching object drives its controllers as `ReadAhead` allows; so its read-aheads are in the object, ahead of the reader and in the window; tokens and running read-aheads add up | `ReadInv`, `RunInv` of `ReadAheadProofs` through the instance, and `TokenInv` |

Assumptions: block sizes are positive, a block has at least one and at most `bsize`
bytes, an object has at least one byte; sets of workers, threads, devices, commands and
files are finite; a
thread belongs to one process and a key to one file; the values that stand for "none" are
none of the things they stand beside; a record of a directory has a positive length; the
versions of an HTTP object have a size, while what the server declares may be any integer;
a page of a listing has room for an entry; a path handed to the RAM driver is as
`filepath.Clean` leaves it (`RamAssumption`: dots only in front), and its names are no
more than the model's `Depth`; the disc that the Walker reads is a tree as the writer
leaves it (`ListedAssumption`: a directory begins with itself and its parent, names
nothing twice and its subdirectories point back at it; and, for the listings,
`FilesAssumption`: names are not empty and every file has an inode number of its own, as
the allocator of `NewFileInode`, `NewSymlinkInode` and `NewDirectoryInode` gives them). They are named in the module that declares
the constants and evaluated by TLC on every run. The invariants are not
inductive as the runs state them: what a reader sees depends on who holds the mutex and on
what the holder has done so far, so the strengthened invariants say what is true of a
buffer, a channel, a file or a run between the steps of its holder. Each is proved with one
step per action. TLC checks the invariants the theorems are about on the runs; the
theorems about `Mount`, `Storage` and `CachedObject` are about the composed specifications.

The provers cannot instantiate an induction over data. Where a proof needs what a fold
makes of a sequence of any length (`At`, `Clean`, `descend`, the cache after a scan), the
fold is unfolded once to the states between its steps, a function on `0 .. Len(s)`, and
the set of the steps at which something holds is shown to be all of them, because a set of
numbers that is not empty has a least one (`Least`, `Numbers`).

Sums in the models are the sizes of sets of pairs (`Total` and `Held` in `CachedObject`,
`Bytes` in `IsoFuse`): such a size is compared with another one through an explicit
bijection, where a recursive sum would need an induction over data.

`MemCache`'s `ReadsExact` and `ReadAhead`'s `AheadOnce` are no property of a run: the
refinement of `ReadThrough` implies the first on the instance, `AheadOfReader` states the
second step by step, and both are proved in general. `LockOwned` of `DiskCache` and
`BuffersHeld` of `S3Upload` are parts of the invariants there, and a breach of either shows
in the runs as a read that never returns or an object that is not whole.

Only model-checked: every liveness property (TLAPS does not reason about fairness);
`VDisc` with the modules below it (`SystemUse` defines the chain of continuation sectors
recursively, which keeps it out of the prover's reach).

## Where the code and its comments or tests disagree

- `mem.go:193`: a failed read-ahead leaves its key on a buffer with no valid bytes; the
  comment of the other path says the next caller will attempt to fill it
  (`MemCachePoisoned`).
- `s3/writer.go:63`: `wg.Add` runs in the goroutine that `Commit` waits for
  (`S3WriterEmpty`).
- `visitor.go:119`: depth-first rounds share their array with the paths still to come
  (`VisitorDepth`).
- `visitor.go:154`: when the last worker of a round fails, `select` may take the closed
  `resultPaths` before the error, and `Visit` returns nil. The model has both choices
  (`RoundDone` and `ReturnErr`), which is why `EachOnce` asks for completeness only of a
  visit in which nothing failed.
- `readahead.go:71`: the damper bounds one call of `Update`, not the run, as its comment
  says; the window still bounds it.
- `builder.go:187`: of two files with the same URL only the later one keeps its name in
  the vdisc; the extent of the other has an empty URL, although `vdisc_v1.capnp` calls
  every extent "backed by an object". `DiscLeadsToObjects` is stated for files whose URL
  no later file shares.
- `sl.go:229`: `DecodeSymlink` ends a target only at a name: a target that ends in ".",
  ".." or is "/" reads back as no link at all. The links of the `VDisc` instance end in
  a name.
- `disk.go:117`: `Gc` does not sync the directory as its comment says; an entry that
  comes back is whole (`EntriesComplete`).
- `walk.go:203`: a lookup that goes on from a cached directory files what it meets under
  keys that lack the cached part of the path (`Walker`); `LookupRight` holds until then.
- `walk.go:55`, `walk.go:130`: `Walk` visits files "in lexical order" and `ReadDir` returns
  entries "sorted by filename", say their comments. Both keep the order of the records on
  the image, which the writer sorts by identifiers that are allocated as files are added
  (`Children`), and `Walk` goes by levels. No property claims an order by name.
- `writer.go:30` (file driver): `Abort` ignores the error of its removal, so a write-back
  that fails may leave its temporary file; `NoStrayTemp` counts these (`unremoved`).
- `builder.go:165`: without versions, a rebuild that fails after its header leaves a vdisc
  that names a header of another layout; `DiscKeepsHeader` is about stores with versions,
  and about others until the next header is stored.
- `walk.go:84`: the parts of Walk's items may share their array, so that from four names
  on a directory is listed under its sibling's path, and so is all that is below it;
  `ListedOnce` excepts these (`Shares`), and the run contains both cases.
- `rr.go:267`: the channel that `StopResolving` closes is never made: the first host that
  leaves the LRU kills the process. `HttpReturns` is about processes that do not meet it.
- `retry.go:72`: the retries of a request go on after its client has timed out; a DELETE
  whose answer was lost is repeated and reports an error although the object is gone
  (`AnswersTrue` is about successes only).
- `s3.go:215`: a failed lookup of a region stays in the cache for the life of the process.
- `listbucket.go:94`: "verion-id-marker" is no parameter of S3, so a page goes on after
  the key of the marker. `ListedRight` shows that nothing is lost by it, since the latest
  version of a key comes first. A common prefix with only deleted objects is listed.
- `isofuse.go:144`: after an unmount that no `Close` waits for, `serve` stays blocked on
  its channel; the command ends all the same (`MountEnds`).
- `ram.go:155`: `Remove` takes a directory with all that is in it, the root too, after
  which every call panics; `ObjectStore` promises nothing of a store without a root.

## Not modelled, and the plan

Left for later, in this order:

1. A module with the sector arithmetic and the trie without recursion, to prove that
   extents are disjoint and in address order and that the last `Put` of a key is what
   `Get` finds.
2. A mounted disc whose header is replaced by a rebuild, over the caches.

Left out for good: generated code (`vdisc/types`), the mocks, flags and printing of the
command line with `burn` and the cache commands, the calls into configfs and sysfs
(`blockdev/tcmu.go`, `tune.go`), the Swift driver (URLs and credentials around the S3
writer, `ListBucket` and the HTTP driver's object), `storage/data` and `storage/zero`
(constant objects), `safecast` (integer conversions of one pattern), the byte layouts of
single records (`susp`, `rrip`, `datetime`, `pvd.go`), which are sequential and covered by
their tests, the positions that `Read` and `Seek` keep for their caller, and file
descriptors (`disk.go:141` keeps one open for every entry it checks).

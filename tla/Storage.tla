------------------------------ MODULE Storage ------------------------------
(***************************************************************************)
(* pkg/storage, the front end of the drivers: a call finds the driver that *)
(* is registered for the scheme of its URL and is passed on, if the driver *)
(* implements it.  From there on the model follows the driver: RAM, alone  *)
(* or under a recursive visit, S3 with its regions and its writer or its   *)
(* listing, or HTTP over the shared transport.  The drivers have no state in common, so a   *)
(* behaviour is about one of them.                                         *)
(***************************************************************************)
EXTENDS Integers, Sequences, TLC

CONSTANTS Paths, Writers, MaxWrites, Preload, MaxChanges, Depth      \* as in RAMDriver
CONSTANTS Dirs, Hidden, maxWorkers, None, MaxErrs,                   \* as in Visitor
          MaxMeanwhile        \* bound on changes during a visit
CONSTANTS Callers, Creator, Buckets, MaxLookupErrs, S3Writes         \* as in BucketRegion, S3Writer
CONSTANTS Keys, KeyKind, PageSize, MaxPuts                           \* as in BucketList
CONSTANTS Reqs, Hosts, MaxHosts, Addrs, Up, MaxTries, MaxFaults,
          Home, Size, Declared, Reads, MaxCalls                      \* as in HTTPObject

\* Versions have a size, that of no object and of the first one too; sizes and
\* reads are in bytes.
ASSUME HttpAssumption ==
    /\ {0, 1} \subseteq DOMAIN Size
    /\ \A v \in DOMAIN Size : Size[v] \in Nat
    /\ Declared \subseteq Int
    /\ \A x \in Reads : x.off \in Nat /\ x.len \in Nat

\* Keys are numbered, and a page has room for an entry.
ASSUME ListAssumption ==
    /\ Keys = 1 .. Len(KeyKind)
    /\ KeyKind \in Seq({"self", "file", "prefix"})
    /\ PageSize \in Nat \ {0}

\* A path is what filepath.Clean leaves of one: "." or ".." can only come
\* first, "." only alone; Depth is enough for the rest.
ASSUME RamAssumption ==
    /\ MaxWrites \in Nat /\ Depth \in Nat
    /\ Preload \in Seq({Preload[i] : i \in DOMAIN Preload})
    /\ \A p \in Paths \cup {Preload[i] : i \in DOMAIN Preload} :
          /\ p \in Seq({p[i] : i \in DOMAIN p}) /\ p # <<>>
          /\ \A i \in 2 .. Len(p) : p[i] \notin {".", ".."}
          /\ IF p[1] = "." THEN Len(p) = 1 ELSE Len(p) <= IF p[1] = ".." THEN Depth + 1 ELSE Depth

VARIABLES drivers,    \* registry.go: the driver of each scheme
          session     \* "start", the driver that serves, "other", "refused", "panic"

VARIABLES inodes, nextIno, writer, answer, changes, files, dirs
VARIABLES main, nextPaths, cap, paths, base, shared, feed, hand, inClosed, resClosed, wk, errs,
          cancelled, visits, stable, failed
VARIABLES at, bucket, promise, asking, lookupErrs
VARIABLES state, caller, writes, written, wEnd, rClosed, upload, body, wg, err, object, commit
VARIABLES versions, keeps, lister, nextKey, results, always, ever, puts
VARIABLES lru, ips, reqnum, req, panicked, faults, content, size, sizeOnce, sizeErr, call, seen, calls

R == INSTANCE RAMDriver
V == INSTANCE Visitor WITH Root <- <<>>, depthFirst <- FALSE, children <- R!SubDirs
G == INSTANCE BucketRegion
W == INSTANCE S3Writer WITH MaxWrites <- S3Writes
L == INSTANCE BucketList
H == INSTANCE HTTPObject

frontVars  == <<drivers, session>>
ramVars    == <<inodes, nextIno, writer, answer, changes, files, dirs>>
visitVars  == <<main, nextPaths, cap, paths, base, shared, feed, hand, inClosed, resClosed, wk, errs,
                cancelled, visits, stable, failed>>
regionVars == <<at, bucket, promise, asking, lookupErrs>>
s3Vars     == <<state, caller, writes, written, wEnd, rClosed, upload, body, wg, err, object, commit>>
listVars   == <<versions, keeps, lister, nextKey, results, always, ever, puts>>
httpVars   == <<lru, ips, reqnum, req, panicked, faults, content, size, sizeOnce, sizeErr, call, seen,
                calls>>
objVars    == <<content, size, sizeOnce, sizeErr, call, seen, calls>>
vars == <<frontVars, ramVars, visitVars, regionVars, s3Vars, listVars, httpVars>>
driverVars == <<ramVars, visitVars, regionVars, s3Vars, listVars, httpVars>>

----------------------------------------------------------------------------
(* The registry and the dispatch *)

\* init() registers the drivers; tests register the RAM driver.
Defaults == ("data" :> "data") @@ ("file" :> "file") @@ ("http" :> "http") @@ ("https" :> "http")
            @@ ("s3" :> "s3") @@ ("swift" :> "swift") @@ ("zero" :> "zero")

\* The interfaces beyond Driver that a driver implements.
Implements(d) ==
    CASE d = "file"  -> {"Create", "Remove", "Readdir", "Lock"}
      [] d \in {"s3", "swift", "ram"} -> {"Create", "Remove", "Readdir"}
      [] d = "http"  -> {"Remove"}
      [] d = "data"  -> {"Create"}
      [] OTHER       -> {}

Init ==
    /\ drivers = Defaults
    /\ session = "start"
    /\ R!Init /\ V!Init /\ G!Init /\ W!Init /\ L!Init /\ H!Init

\* A scheme that is taken panics.
Register(scheme, driver) ==
    /\ session = "start"
    /\ IF scheme \in DOMAIN drivers
       THEN session' = "panic" /\ UNCHANGED drivers
       ELSE drivers' = (scheme :> driver) @@ drivers /\ UNCHANGED session
    /\ UNCHANGED driverVars

\* A URL without a scheme is a file's.
Find(scheme) == IF scheme = "" THEN "file" ELSE scheme

\* Open and Stat go to every driver, the rest to those that implement it; Visit
\* needs Readdir.  A behaviour follows that one driver, so the model forgets the
\* registry here.
Call(op, scheme) ==
    LET s == Find(scheme)
    IN /\ session = "start"
       /\ session' = IF s \notin DOMAIN drivers THEN "refused"
                     ELSE LET d == drivers[s]
                          IN IF op \notin {"Open", "Stat"} \cup Implements(d)
                                \cup (IF "Readdir" \in Implements(d) THEN {"Visit"} ELSE {})
                             THEN "refused"
                             ELSE IF d = "ram" /\ op = "Visit" THEN "visit"
                             ELSE IF d = "s3" /\ op \in {"Readdir", "Visit"} THEN "list"
                             ELSE IF d \in {"ram", "s3", "http"} THEN d ELSE "other"
       /\ drivers' = [x \in {} |-> ""]
       /\ UNCHANGED driverVars

Front == \/ Register("ram", "ram")
         \/ \E op \in {"Open", "Create", "Remove", "Stat", "Readdir", "Lock", "Visit"},
               s \in {"", "ram", "s3", "http", "zero"} : Call(op, s)

----------------------------------------------------------------------------
(* The drivers *)

Ram == session = "ram" /\ R!Next /\ UNCHANGED <<frontVars, visitVars, regionVars, s3Vars, listVars, httpVars>>

\* A visit, and what others do to the tree meanwhile.
Visiting(A) == session = "visit" /\ A /\ UNCHANGED <<frontVars, ramVars, regionVars, s3Vars, listVars, httpVars>>

Meanwhile ==
    /\ session = "visit" /\ (R!Change \/ R!Return)
    /\ changes' <= MaxMeanwhile
    /\ <<>> \in dirs'     \* not the root: after that every call panics
    /\ stable' = stable \cap dirs'
    /\ UNCHANGED <<frontVars, main, nextPaths, cap, paths, base, shared, feed, hand, inClosed, resClosed,
                   wk, errs, cancelled, visits, failed, regionVars, s3Vars, listVars, httpVars>>

\* parseURL comes first, in every call; then Create returns its writer, or
\* Readdir asks for the first page.
Region(A) == session \in {"s3", "list"} /\ A /\ UNCHANGED <<frontVars, ramVars, visitVars, s3Vars, listVars, httpVars>>
Writing(A) == /\ session = "s3" /\ at[Creator] = "ok" /\ A
              /\ UNCHANGED <<frontVars, ramVars, visitVars, regionVars, listVars, httpVars>>

Listing(A) == /\ session = "list" /\ at[Creator] = "ok" /\ A
              /\ UNCHANGED <<frontVars, ramVars, visitVars, regionVars, s3Vars, httpVars>>

Http(A) == session = "http" /\ A /\ UNCHANGED <<frontVars, ramVars, visitVars, regionVars, s3Vars, listVars>>

Next == \/ Front \/ Ram \/ Visiting(V!Next) \/ Meanwhile
        \/ Region(G!Next) \/ Writing(W!Next) \/ Listing(L!Next) \/ Http(H!Next)

\* What goes on by itself: the goroutines of a visit; those of the S3 driver,
\* with S3 answering; requests, to an answer or an error.  Not the callers, the
\* faults and the changes of others.
VisitRuns  == V!Main \/ V!Feeder \/ \E w \in 1 .. maxWorkers : V!Worker(w)
RegionRuns == (\E c \in Callers : G!Apply(c)) \/ \E b \in Buckets : G!Complete(b) \/ G!Broadcast(b)
WriterRuns == W!Upload \/ W!WriteErr \/ W!CommitReturn \/ W!AbortReturn
HttpRuns   == \E r \in Reqs : (H!NetStep(r) /\ UNCHANGED objVars) \/ H!Answer(r) \/ H!Client(r)

\* None of them goes on for ever, so it is enough that one that can run does.
FairSpec == /\ Init /\ [][Next]_vars
            /\ WF_vars(Visiting(VisitRuns))
            /\ WF_vars(Region(RegionRuns)) /\ WF_vars(Writing(WriterRuns))
            /\ WF_vars(Listing(L!Asks))
            /\ WF_vars(Http(HttpRuns))

----------------------------------------------------------------------------
(* Properties: those of the parts, where they are explained. *)

\* RAMDriver: the driver is an object store (ram.go).
ImplementsObjectStore == R!ImplementsObjectStore

\* Visitor: a visit of a tree that others change (Visit over ram's Readdir).
EachOnce == V!EachOnce

\* Visitor: the visit ends, with its workers, whatever fails or vanishes.
VisitReturns == []<>(session = "visit" => V!Ended)

\* S3Writer: what was committed is stored whole, what was aborted is not stored
\* (Commit and Abort against the upload at the other end of the pipe).
CommitDurable == W!CommitDurable /\ W!NeverHalfWritten

\* BucketList: a listing in pages is right although others change the bucket.
ListedRight == L!ListedRight

\* S3: no call hangs, for the region of its bucket (Apply against Broadcast),
\* in a write, a commit, an abort or a listing.
CallsReturn == []<>(/\ \A c \in Callers : at[c] \notin {"apply", "wait"}
                    /\ ~W!Waiting /\ lister # "asks")

\* HTTPObject: what a call answers is true.
AnswersTrue == H!AnswersTrue

\* HTTPObject: every call returns.
HttpReturns == H!HttpReturns
=============================================================================

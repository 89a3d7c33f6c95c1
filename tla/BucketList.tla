----------------------------- MODULE BucketList -----------------------------
(***************************************************************************)
(* Readdir of pkg/storage/s3 (and of pkg/storage/swift, which is the same) *)
(* on pkg/s3util/listbucket.go: the versions below a prefix are asked for  *)
(* page by page, and the latest one of every key is listed, while others   *)
(* put and delete objects.                                                 *)
(*                                                                         *)
(* A key is a number, in the order of S3.  A page may end between two      *)
(* versions of a key.  The request for the next one misspells the          *)
(* parameter of the version, so S3 goes on after the key.                  *)
(***************************************************************************)
EXTENDS Naturals, Sequences, FiniteSets, FiniteSetsExt

CONSTANTS Keys,         \* 1 .. Len(KeyKind)
          KeyKind,      \* KeyKind[k]: a "file", the directory's "self" (its key ends
                        \* in "/") or a "prefix", which stands for all keys below it
          PageSize,     \* entries of a page, at least one (max-keys)
          MaxPuts       \* bound on what others do while the directory is read

VARIABLES
    versions,   \* versions[k]: newest first, each a "put" or a "del" (a delete marker)
    keeps,      \* the bucket keeps versions
    lister,     \* where ListBucket is: "start", "asks", "done", "err", "notexist"
    nextKey,    \* its marker; 0: none
    results,    \* results[k]: how many of the entries listed so far are of k
    always,     \* the keys that were there all the time since the call
    ever,       \* the keys that were there at some time since the call
    puts

vars == <<versions, keeps, lister, nextKey, results, always, ever, puts>>

\* A common prefix is there while any version is below it.
Present(vs) == {k \in Keys : vs[k] # <<>> /\ (KeyKind[k] = "prefix" \/ Head(vs[k]) = "put")}

Init ==
    /\ keeps = FALSE
    /\ versions = [k \in Keys |-> <<>>]
    /\ lister = "start"
    /\ nextKey = 0
    /\ results = [k \in Keys |-> 0]
    /\ always = {} /\ ever = {}
    /\ puts = 0

----------------------------------------------------------------------------
(* The bucket *)

\* PutObject and DeleteObject of others.
Change(k, what) ==
    /\ lister = "asks"
    /\ puts < MaxPuts
    /\ puts' = puts + 1
    /\ versions' = [versions EXCEPT ![k] = IF keeps THEN <<what>> \o @
                                           ELSE IF what = "put" THEN <<what>> ELSE <<>>]
    /\ always' = always \cap Present(versions')
    /\ ever' = ever \cup Present(versions')
    /\ UNCHANGED <<keeps, lister, nextKey, results>>

\* The entries after a marker: the i-th version of a key k (a delete marker too)
\* is <<k, i>>, and a common prefix has one entry.
Shown(k) == IF KeyKind[k] = "prefix" THEN DOMAIN versions[k] \cap {1} ELSE DOMAIN versions[k]
After(marker) == UNION {{k} \X Shown(k) : k \in {j \in Keys : j > marker}}

\* The first n of them, in the order of keys, the latest version of a key first.
Before(e, f) == e[1] < f[1] \/ (e[1] = f[1] /\ e[2] < f[2])
First(n, entries) == {e \in entries : Cardinality({f \in entries : Before(f, e)}) < n}

----------------------------------------------------------------------------
(* ListBucket with the callback of Readdir *)

\* The call, on a bucket that keeps versions or not.  What is in it matters
\* from here on.
ListBucket ==
    /\ lister = "start"
    /\ lister' = "asks"
    /\ keeps' \in BOOLEAN
    /\ versions' = [k \in Keys |-> IF keeps' THEN <<"put", "put">> ELSE <<"put">>]
    /\ always' = Present(versions') /\ ever' = always'
    /\ UNCHANGED <<nextKey, results, puts>>

\* Mutant: every version is listed.
EntriesOld(page) ==
    {e \in page : \/ KeyKind[e[1]] = "prefix"
                  \/ KeyKind[e[1]] = "file" /\ versions[e[1]][e[2]] = "put"}

\* The callback: the latest versions, except the directory's own, and the
\* prefixes.  Delete markers are not among page.Version.
Entries(page) ==
    {e \in page : \/ KeyKind[e[1]] = "prefix"
                  \/ KeyKind[e[1]] = "file" /\ e[2] = 1 /\ versions[e[1]][1] = "put"}

\* A page, and what it says of the next one.
Page ==
    LET rest      == After(nextKey)
        page      == First(PageSize, rest)
        truncated == page # rest
    IN /\ lister = "asks"
       /\ results' = [k \in Keys |-> results[k] + Cardinality({e \in Entries(page) : e[1] = k})]
       /\ nextKey' = IF truncated THEN Max({e[1] : e \in page}) ELSE 0
       /\ lister' = IF truncated THEN "asks" ELSE "done"
       /\ UNCHANGED <<versions, keeps, always, ever, puts>>

\* An error, another status or a body that cannot be parsed; a 404 to the first
\* request says that there is no such bucket.
PageFails(status) ==
    /\ lister = "asks"
    /\ lister' = IF status = "404" /\ nextKey = 0 THEN "notexist" ELSE "err"
    /\ results' = [k \in Keys |-> 0]
    /\ UNCHANGED <<versions, keeps, nextKey, always, ever, puts>>

Asks == Page \/ \E status \in {"404", "other"} : PageFails(status)

Next == \/ ListBucket \/ Asks
        \/ \E k \in Keys, what \in {"put", "del"} : Change(k, what)

----------------------------------------------------------------------------
\* The keys that were listed.
Listed == {k \in Keys : results[k] > 0}

\* A directory that was listed page by page while others changed it has every
\* file that was there all the time, none twice, though pages end between the
\* versions of a file, and none that was not there at any time (Readdir).
ListedRight ==
    lister = "done" =>
        /\ \A k \in Keys : results[k] <= 1
        /\ {k \in always : KeyKind[k] # "self"} \subseteq Listed
        /\ Listed \subseteq {k \in ever : KeyKind[k] # "self"}
=============================================================================

---------------------------- MODULE BucketRegion ----------------------------
(***************************************************************************)
(* pkg/storage/s3: every call of the driver begins with the region of its  *)
(* bucket (parseURL, getBucketRegion).  The first call for a bucket leaves *)
(* a promise in the cache and a goroutine that asks S3; everybody waits    *)
(* for the promise on its condition variable (region.go).  A promise that  *)
(* failed stays in the cache.                                              *)
(***************************************************************************)
EXTENDS Naturals, FiniteSets

CONSTANTS Callers, Buckets,
          MaxLookupErrs    \* bound on lookups that fail

VARIABLES
    at,       \* at[c]: where a call is: "parse", "apply", "wait", "ok", "err"
    bucket,   \* bucket[c]: the bucket it names
    promise,  \* promise[b]: the future in bucketRegionCache, or none
    asking,   \* asking[b]: the goroutine: "none", "asks", "broadcast", "gone"
    lookupErrs

vars == <<at, bucket, promise, asking, lookupErrs>>

Init ==
    /\ at = [c \in Callers |-> "parse"]
    /\ bucket = [c \in Callers |-> CHOOSE b \in Buckets : TRUE]
    /\ promise = [b \in Buckets |-> "none"]
    /\ asking = [b \in Buckets |-> "none"]
    /\ lookupErrs = 0

\* getBucketRegion of the driver, under d.mu.
GetBucketRegion(c, b) ==
    /\ at[c] = "parse"
    /\ at' = [at EXCEPT ![c] = "apply"]
    /\ bucket' = [bucket EXCEPT ![c] = b]
    /\ IF promise[b] = "none"
       THEN /\ promise' = [promise EXCEPT ![b] = "pending"]
            /\ asking' = [asking EXCEPT ![b] = "asks"]
       ELSE UNCHANGED <<promise, asking>>
    /\ UNCHANGED lookupErrs

\* Apply, under the mutex of the future: the value, or c.Wait().
Apply(c) ==
    /\ at[c] = "apply"
    /\ at' = [at EXCEPT ![c] = IF promise[bucket[c]] = "pending" THEN "wait" ELSE promise[bucket[c]]]
    /\ UNCHANGED <<bucket, promise, asking, lookupErrs>>

\* The answer of S3, with which the goroutine completes the future.
Complete(b) ==
    /\ asking[b] = "asks"
    /\ \/ promise' = [promise EXCEPT ![b] = "ok"] /\ UNCHANGED lookupErrs
       \/ /\ lookupErrs < MaxLookupErrs /\ lookupErrs' = lookupErrs + 1
          /\ promise' = [promise EXCEPT ![b] = "err"]
    /\ asking' = [asking EXCEPT ![b] = "broadcast"]
    /\ UNCHANGED <<at, bucket>>

\* Mutant: one waiter is told.
BroadcastOne(b) ==
    LET waiting == {c \in Callers : at[c] = "wait" /\ bucket[c] = b}
    IN /\ asking[b] = "broadcast"
       /\ asking' = [asking EXCEPT ![b] = "gone"]
       /\ IF waiting = {} THEN UNCHANGED at
          ELSE \E c \in waiting : at' = [at EXCEPT ![c] = "apply"]
       /\ UNCHANGED <<bucket, promise, lookupErrs>>

\* f.c.Broadcast(), after the mutex was given back.
Broadcast(b) ==
    /\ asking[b] = "broadcast"
    /\ asking' = [asking EXCEPT ![b] = "gone"]
    /\ at' = [c \in Callers |-> IF at[c] = "wait" /\ bucket[c] = b THEN "apply" ELSE at[c]]
    /\ UNCHANGED <<bucket, promise, lookupErrs>>

Next == \/ \E c \in Callers : Apply(c) \/ \E b \in Buckets : GetBucketRegion(c, b)
        \/ \E b \in Buckets : Complete(b) \/ Broadcast(b)
=============================================================================

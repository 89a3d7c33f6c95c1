------------------------------ MODULE S3Upload ------------------------------
(***************************************************************************)
(* pkg/s3util/uploader.go: the upload of a body of unknown length to S3.   *)
(* A body that ends within its first part is put in one request; otherwise *)
(* the main goroutine cuts it in parts and queues them, the workers send   *)
(* them, and a last request completes the upload, or aborts it.  The       *)
(* buffers of the parts come from a pool and go back once they are sent.   *)
(*                                                                         *)
(* The body is a pipe (pkg/storage/s3/writer.go), so a part is read into a *)
(* buffer.  A request to S3 succeeds, fails, or takes effect although its  *)
(* answer is lost.                                                         *)
(***************************************************************************)
EXTENDS Naturals, Sequences, FiniteSets, Functions

CONSTANTS Workers,         \* cfg.Concurrency of them
          MaxUploadParts,
          MaxTotal,        \* bound on the number of parts of a body
          MaxTries,        \* of CompleteMultipartUpload, 20 in the code
          MaxFaults        \* bound on failing requests and reads

ASSUME UploadAssumption == /\ IsFiniteSet(Workers) /\ Workers # {}
                           /\ MaxUploadParts \in Nat \ {0}
                           /\ MaxTotal \in Nat /\ MaxTries \in Nat \ {0}
                           /\ MaxFaults \in Nat

Capacity == Cardinality(Workers)   \* of the channel: cfg.Concurrency

VARIABLES
    total,      \* the number of parts of the body
    ragged,     \* the last part is short: reading it also meets the end
    pc,         \* the main goroutine
    num,        \* number of the last part read
    eof,        \* the last read met the end of the body
    part,       \* the chunk that was read last
    ch,         \* the channel of chunks
    chClosed,
    wk,         \* wk[w]: what worker w does
    failed,     \* multiuploader.err is set
    parts,      \* multiuploader.parts
    pool, mem,  \* free buffers; mem[b]: the part whose bytes buffer b holds
    tries,      \* attempts of CompleteMultipartUpload
    result,     \* what Upload returned
    mpu,        \* at S3: the multipart upload ("orphan": open, and out of reach
                \* because the answer to its creation or its abort was lost)
    stored,     \* at S3: stored[i], the bytes uploaded as part i
    object,     \* at S3: the object
    faults

mainVars == <<pc, num, eof, part>>
bodyVars == <<total, ragged>>
bufVars  == <<pool, mem>>
s3Vars   == <<mpu, stored, object>>
vars     == <<total, ragged, pc, num, eof, part, ch, chClosed, wk, failed, parts, pool, mem,
              tries, result, mpu, stored, object, faults>>

Nothing == <<0>>   \* no object: part 0 does not exist
NoChunk == [num |-> 0, buf |-> 0]
Parts   == 1 .. MaxTotal
Chunks  == [num : Parts, buf : 1 .. MaxTotal + 1]

TypeOK ==
    /\ total \in 0 .. MaxTotal
    /\ ragged \in BOOLEAN
    /\ pc \in {"first", "put", "create", "send", "loop", "read", "close", "wait",
               "complete", "fail", "end"}
    /\ num \in 0 .. MaxUploadParts + 1
    /\ eof \in BOOLEAN
    /\ part \in Chunks \cup {NoChunk}
    /\ Len(ch) <= Capacity /\ \A i \in 1 .. Len(ch) : ch[i] \in Chunks
    /\ chClosed \in BOOLEAN
    /\ wk \in [Workers -> [at : {"none", "idle", "check", "send", "gone"},
                           chunk : Chunks \cup {NoChunk}]]
    /\ failed \in BOOLEAN
    /\ \A i \in 1 .. Len(parts) : parts[i] \in Parts
    /\ pool \in SUBSET (DOMAIN mem)
    /\ mem \in Seq(Parts)
    /\ tries \in 0 .. MaxTries
    /\ result \in {"none", "ok", "err"}
    /\ mpu \in {"none", "open", "done", "aborted", "orphan"}
    /\ DOMAIN stored \subseteq Parts
    /\ faults \in 0 .. MaxFaults

Init ==
    /\ total \in 0 .. MaxTotal
    /\ ragged \in BOOLEAN
    /\ pc = "first"
    /\ num = 0
    /\ eof = FALSE
    /\ part = NoChunk
    /\ ch = <<>>
    /\ chClosed = FALSE
    /\ wk = [w \in Workers |-> [at |-> "none", chunk |-> NoChunk]]
    /\ failed = FALSE
    /\ parts = <<>>
    /\ pool = {}
    /\ mem = <<>>
    /\ tries = 0
    /\ result = "none"
    /\ mpu = "none"
    /\ stored = [i \in {} |-> 0]
    /\ object = Nothing
    /\ faults = 0

Fault == faults < MaxFaults /\ faults' = faults + 1

----------------------------------------------------------------------------
(* The main goroutine: uploader.upload, multiuploader.upload *)

\* Does the read of part i meet the end of the body?
Ends(i) == IF ragged THEN i >= total ELSE i > total

\* nextReader: read part i into a buffer of the pool, or into a new one.
nextReader(i) ==
    /\ eof' = Ends(i)
    /\ IF i > total
       THEN part' = NoChunk /\ UNCHANGED bufVars
       ELSE IF pool = {}
            THEN /\ mem' = Append(mem, i)
                 /\ part' = [num |-> i, buf |-> Len(mem')]
                 /\ UNCHANGED pool
            ELSE \E b \in pool : /\ pool' = pool \ {b}
                                 /\ mem' = [mem EXCEPT ![b] = i]
                                 /\ part' = [num |-> i, buf |-> b]

FirstRead ==
    /\ pc = "first"
    /\ nextReader(1)
    /\ num' = 1
    /\ pc' = IF eof' THEN "put" ELSE "create"
    /\ UNCHANGED <<bodyVars, ch, chClosed, wk, failed, parts, tries, result, s3Vars, faults>>

Return(r) == pc' = "end" /\ result' = r

\* The body cannot be read, or a request before the upload fails.
EarlyErr ==
    /\ pc \in {"first", "put", "create"}
    /\ Fault
    /\ Return("err")
    /\ UNCHANGED <<bodyVars, num, eof, part, ch, chClosed, wk, failed, parts, bufVars,
                   tries, s3Vars>>

\* singlePart: PutObject, whose answer may be lost.
Put ==
    /\ pc = "put"
    /\ object' = IF part = NoChunk THEN <<>> ELSE <<mem[part.buf]>>
    /\ \/ Return("ok") /\ UNCHANGED faults
       \/ Return("err") /\ Fault
    /\ UNCHANGED <<bodyVars, num, eof, part, ch, chClosed, wk, failed, parts, bufVars,
                   tries, mpu, stored>>

\* CreateMultipartUpload, then the workers are started.
Create ==
    /\ pc = "create"
    /\ mpu' = "open"
    /\ wk' = [w \in Workers |-> [at |-> "idle", chunk |-> NoChunk]]
    /\ pc' = "send"
    /\ UNCHANGED <<bodyVars, num, eof, part, ch, chClosed, failed, parts, bufVars, tries,
                   result, stored, object, faults>>

\* S3 created the upload, but its identifier never arrived.
CreateLost ==
    /\ pc = "create"
    /\ Fault
    /\ mpu' = "orphan"
    /\ Return("err")
    /\ UNCHANGED <<bodyVars, num, eof, part, ch, chClosed, wk, failed, parts, bufVars,
                   tries, stored, object>>

\* ch <- chunk
Send ==
    /\ pc = "send"
    /\ Len(ch) < Capacity
    /\ ch' = Append(ch, part)
    /\ pc' = "loop"
    /\ UNCHANGED <<bodyVars, num, eof, part, chClosed, wk, failed, parts, bufVars, tries,
                   result, s3Vars, faults>>

\* The loop condition, and the check of the number of parts.
Loop ==
    /\ pc = "loop"
    /\ IF failed \/ eof
       THEN pc' = "close" /\ UNCHANGED <<num, failed>>
       ELSE /\ num' = num + 1
            /\ IF num + 1 > MaxUploadParts
               THEN pc' = "close" /\ failed' = TRUE
               ELSE pc' = "read" /\ UNCHANGED failed
    /\ UNCHANGED <<bodyVars, eof, part, ch, chClosed, wk, parts, bufVars, tries, result,
                   s3Vars, faults>>

\* The next part; an empty one ends the loop.
Read ==
    /\ pc = "read"
    /\ nextReader(num)
    /\ pc' = IF num > total THEN "close" ELSE "send"
    /\ UNCHANGED <<bodyVars, num, ch, chClosed, wk, failed, parts, tries, result, s3Vars, faults>>

ReadErr ==
    /\ pc = "read"
    /\ Fault
    /\ failed' = TRUE
    /\ pc' = "close"
    /\ UNCHANGED <<bodyVars, num, eof, part, ch, chClosed, wk, parts, bufVars, tries, result,
                   s3Vars>>

CloseCh ==
    /\ pc = "close"
    /\ chClosed' = TRUE
    /\ pc' = "wait"
    /\ UNCHANGED <<bodyVars, num, eof, part, ch, wk, failed, parts, bufVars, tries, result,
                   s3Vars, faults>>

\* u.wg.Wait(), and the first lines of complete.
Wait ==
    /\ pc = "wait"
    /\ \A w \in Workers : wk[w].at = "gone"
    /\ pc' = IF failed THEN "fail" ELSE "complete"
    /\ UNCHANGED <<bodyVars, num, eof, part, ch, chClosed, wk, failed, parts, bufVars, tries,
                   result, s3Vars, faults>>

----------------------------------------------------------------------------
(* complete and fail *)

\* S3 wants the parts in the order of their numbers.
Sorted(s) == LET n    == Len(s)
                 Perm == CHOOSE p \in Bijection(1 .. n, 1 .. n) :
                             \A i, j \in 1 .. n : i < j => s[p[i]] <= s[p[j]]
             IN [i \in 1 .. n |-> s[Perm[i]]]

\* S3 puts the object together.
Assemble == LET list == Sorted(parts)
            IN /\ object' = [i \in 1 .. Len(list) |-> stored[list[i]]]
               /\ mpu' = "done"
               /\ UNCHANGED stored

\* An attempt that is answered well.  S3 may forgive a repeated one.
CompleteOk ==
    /\ pc = "complete"
    /\ IF mpu = "open" THEN Assemble ELSE UNCHANGED s3Vars
    /\ Return("ok")
    /\ UNCHANGED <<bodyVars, num, eof, part, ch, chClosed, wk, failed, parts, bufVars, tries,
                   faults>>

\* An attempt that fails, took effect although it seems to have failed, or
\* repeats one that did: after MaxTries of them complete gives up.
CompleteErr ==
    /\ pc = "complete"
    /\ \/ mpu = "open" /\ Fault /\ UNCHANGED s3Vars
       \/ mpu = "open" /\ Fault /\ Assemble
       \/ mpu = "done" /\ UNCHANGED <<s3Vars, faults>>
    /\ tries' = tries + 1
    /\ IF tries' = MaxTries
       THEN pc' = "fail" /\ failed' = TRUE
       ELSE UNCHANGED <<pc, failed>>
    /\ UNCHANGED <<bodyVars, num, eof, part, ch, chClosed, wk, parts, bufVars, result>>

\* Mutant: no abort.
FailNot ==
    /\ pc = "fail"
    /\ Return("err")
    /\ UNCHANGED <<bodyVars, num, eof, part, ch, chClosed, wk, failed, parts, bufVars, tries,
                   s3Vars, faults>>

\* AbortMultipartUpload, whose own error is ignored.
Fail ==
    /\ pc = "fail"
    /\ \/ /\ mpu' = IF mpu = "open" THEN "aborted" ELSE mpu
          /\ UNCHANGED faults
       \/ /\ Fault
          /\ mpu' = IF mpu = "open" THEN "orphan" ELSE mpu
    /\ Return("err")
    /\ UNCHANGED <<bodyVars, num, eof, part, ch, chClosed, wk, failed, parts, bufVars, tries,
                   stored, object>>

----------------------------------------------------------------------------
(* readChunk, in each worker *)

Goes(w, at, c) == wk' = [wk EXCEPT ![w] = [at |-> at, chunk |-> c]]

Recv(w) ==
    /\ wk[w].at = "idle"
    /\ ch # <<>>
    /\ Goes(w, "check", Head(ch))
    /\ ch' = Tail(ch)
    /\ UNCHANGED <<bodyVars, mainVars, chClosed, failed, parts, bufVars, tries, result,
                   s3Vars, faults>>

\* Mutant: the buffer goes back to the pool before the part was sent.
CheckPutsBack(w) ==
    /\ wk[w].at = "check"
    /\ IF failed THEN Goes(w, "idle", NoChunk) /\ UNCHANGED pool
       ELSE Goes(w, "send", wk[w].chunk) /\ pool' = pool \cup {wk[w].chunk.buf}
    /\ UNCHANGED <<bodyVars, mainVars, ch, chClosed, failed, parts, mem, tries, result,
                   s3Vars, faults>>

\* After an error the rest of the channel is only drained.
Check(w) ==
    /\ wk[w].at = "check"
    /\ IF failed THEN Goes(w, "idle", NoChunk) ELSE Goes(w, "send", wk[w].chunk)
    /\ UNCHANGED <<bodyVars, mainVars, ch, chClosed, failed, parts, bufVars, tries, result,
                   s3Vars, faults>>

Uploaded(c) == [i \in DOMAIN stored \cup {c.num} |->
                   IF i = c.num THEN mem[c.buf] ELSE stored[i]]

\* UploadPart succeeds: the buffer goes back, the part is noted.
PartSent(w) ==
    LET c == wk[w].chunk
    IN /\ wk[w].at = "send"
       /\ stored' = Uploaded(c)
       /\ pool' = pool \cup {c.buf}
       /\ parts' = Append(parts, c.num)
       /\ Goes(w, "idle", NoChunk)
       /\ UNCHANGED <<bodyVars, mainVars, ch, chClosed, failed, mem, tries, result, mpu,
                      object, faults>>

\* Mutant: the error of a part is forgotten.
PartErrForgotten(w) ==
    /\ wk[w].at = "send"
    /\ Fault
    /\ Goes(w, "idle", NoChunk)
    /\ UNCHANGED <<bodyVars, mainVars, ch, chClosed, failed, parts, bufVars, tries, result,
                   s3Vars>>

\* Mutant: a worker whose part failed returns and leaves the channel alone.
PartErrReturns(w) ==
    /\ wk[w].at = "send"
    /\ Fault
    /\ failed' = TRUE
    /\ Goes(w, "gone", NoChunk)
    /\ UNCHANGED <<bodyVars, mainVars, ch, chClosed, parts, bufVars, tries, result, s3Vars>>

\* UploadPart fails, with or without effect.
PartErr(w) ==
    /\ wk[w].at = "send"
    /\ Fault
    /\ stored' \in {stored, Uploaded(wk[w].chunk)}
    /\ failed' = TRUE
    /\ Goes(w, "idle", NoChunk)
    /\ UNCHANGED <<bodyVars, mainVars, ch, chClosed, parts, bufVars, tries, result, mpu, object>>

WorkerDone(w) ==
    /\ wk[w].at = "idle"
    /\ ch = <<>>
    /\ chClosed
    /\ Goes(w, "gone", NoChunk)
    /\ UNCHANGED <<bodyVars, mainVars, ch, chClosed, failed, parts, bufVars, tries, result,
                   s3Vars, faults>>

----------------------------------------------------------------------------
Main == \/ FirstRead \/ EarlyErr \/ Put \/ Create \/ CreateLost \/ Send \/ Loop \/ Read
        \/ ReadErr \/ CloseCh \/ Wait \/ CompleteOk \/ CompleteErr \/ Fail

Worker(w) == Recv(w) \/ Check(w) \/ PartSent(w) \/ PartErr(w) \/ WorkerDone(w)

Next == Main \/ \E w \in Workers : Worker(w)

Spec == Init /\ [][Next]_vars

\* Requests are answered and goroutines run.
FairSpec == Spec /\ WF_vars(Main) /\ \A w \in Workers : WF_vars(Worker(w))

----------------------------------------------------------------------------
(* Properties *)

Body == [i \in 1 .. total |-> i]

\* An object that appears at S3 is the whole body, in order: no part missing
\* or repeated, none with the bytes of another part from a reused buffer.
\* And it is there when Upload reports success.
ObjectWhole == /\ object = Nothing \/ object = Body
               /\ result = "ok" => object = Body

\* A multipart upload is not left behind when Upload gives up, unless the very
\* request that would create or abort it failed.
NoUploadLeft == result = "err" => mpu # "open"

\* Upload returns: the workers drain the channel even after an error.
UploadReturns == <>(result # "none")
=============================================================================

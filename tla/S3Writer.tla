------------------------------ MODULE S3Writer ------------------------------
(***************************************************************************)
(* pkg/storage/s3/writer.go: the object writer of the S3 driver.  Writes   *)
(* go through a pipe to a goroutine that runs S3Upload; ReadFrom uploads   *)
(* in the caller's goroutine.  The upload goroutine is started by another  *)
(* goroutine, startPiped, which also does the wg.Add that Commit and Abort *)
(* rely on.                                                                *)
(*                                                                         *)
(* What Upload promises is checked in S3Upload: the body, whole, or an     *)
(* error.  The caller is one goroutine: writes, then Commit or Abort, and  *)
(* Abort again (the deferred one); after an error it does not commit.      *)
(***************************************************************************)
EXTENDS Naturals, Sequences

CONSTANT MaxWrites    \* bound on the number of writes

VARIABLES
    state,     \* objectWriter.state
    caller,    \* where the caller is
    writes,    \* writes begun; write i carries the datum i
    written,   \* the data of the writes that succeeded
    wEnd,      \* how the write end of the pipe was closed
    rClosed,   \* the read end of the pipe is closed
    upload,    \* the goroutines startPiped and its upload
    body,      \* what the upload has read
    wg,        \* objectWriter.wg
    err,       \* objectWriter.err is set
    object,    \* at S3: the object
    commit     \* what Commit returned

vars == <<state, caller, writes, written, wEnd, rClosed, upload, body, wg, err, object, commit>>

Nothing == <<0>>   \* no object: datum 0 is never written

TypeOK ==
    /\ state \in {"opened", "piped", "direct"}
    /\ caller \in {"idle", "writing", "committing", "committed", "failed", "aborting", "done"}
    /\ writes \in 0 .. MaxWrites
    /\ written \in Seq(1 .. MaxWrites)
    /\ wEnd \in {"open", "eof", "abort"}
    /\ rClosed \in BOOLEAN
    /\ upload \in {"none", "starting", "reading", "sending", "gone"}
    /\ body \in Seq(1 .. MaxWrites)
    /\ wg \in 0 .. 1
    /\ err \in BOOLEAN
    /\ object \in {Nothing} \cup Seq(1 .. MaxWrites)
    /\ commit \in {"none", "ok", "err"}

Init ==
    /\ state = "opened"
    /\ caller = "idle"
    /\ writes = 0
    /\ written = <<>>
    /\ wEnd = "open"
    /\ rClosed = FALSE
    /\ upload = "none"
    /\ body = <<>>
    /\ wg = 0
    /\ err = FALSE
    /\ object = Nothing
    /\ commit = "none"

----------------------------------------------------------------------------
(* The caller *)

\* The CompareAndSwap from opened to piped, the pipe, and `go startPiped()`.
Piped == IF state = "opened"
         THEN state' = "piped" /\ upload' = "starting"
         ELSE UNCHANGED <<state, upload>>

\* Write, up to the pipe.
Write ==
    /\ caller = "idle"
    /\ writes < MaxWrites
    /\ IF state = "direct"
       THEN /\ caller' = "failed"
            /\ UNCHANGED <<state, upload, writes>>
       ELSE /\ Piped
            /\ caller' = "writing"
            /\ writes' = writes + 1
    /\ UNCHANGED <<written, wEnd, rClosed, body, wg, err, object, commit>>

\* pipeWriter.Write returns with an error: nobody reads any more.
WriteErr ==
    /\ caller = "writing"
    /\ rClosed
    /\ caller' = "failed"
    /\ UNCHANGED <<state, writes, written, wEnd, rClosed, upload, body, wg, err, object, commit>>

\* ReadFrom uploads the data itself, in one go.  A failed upload may have
\* taken effect all the same.
ReadFrom ==
    /\ caller = "idle"
    /\ writes < MaxWrites
    /\ writes' = writes + 1
    /\ IF state = "opened"
       THEN /\ state' = "direct"
            /\ \/ /\ caller' = "idle"
                  /\ written' = <<writes'>>
                  /\ object' = <<writes'>>
               \/ /\ caller' = "failed"
                  /\ object' \in {Nothing, <<writes'>>}
                  /\ UNCHANGED written
       ELSE /\ caller' = "failed"
            /\ UNCHANGED <<state, written, object>>
    /\ UNCHANGED <<wEnd, rClosed, upload, body, wg, err, commit>>

\* Commit, up to wg.Wait: close the pipe, even one that was never written.
Commit ==
    /\ caller = "idle"
    /\ Piped
    /\ IF state' = "piped"
       THEN wEnd' = "eof"
       ELSE UNCHANGED wEnd
    /\ caller' = "committing"
    /\ UNCHANGED <<writes, written, rClosed, body, wg, err, object, commit>>

\* Mutant: Commit does not wait for the upload.
CommitReturnNot ==
    /\ caller = "committing"
    /\ commit' = IF err THEN "err" ELSE "ok"
    /\ caller' = "committed"
    /\ UNCHANGED <<state, writes, written, wEnd, rClosed, upload, body, wg, err, object>>

\* wg.Wait() and the return of Commit.
CommitReturn ==
    /\ caller = "committing"
    /\ state = "piped" => wg = 0
    /\ commit' = IF err THEN "err" ELSE "ok"
    /\ caller' = "committed"
    /\ UNCHANGED <<state, writes, written, wEnd, rClosed, upload, body, wg, err, object>>

\* Abort, also the deferred one after Commit; a pipe is closed only once.
Abort ==
    /\ caller \in {"idle", "committed", "failed"}
    /\ IF state = "piped" /\ wEnd = "open" THEN wEnd' = "abort" ELSE UNCHANGED wEnd
    /\ caller' = "aborting"
    /\ UNCHANGED <<state, writes, written, rClosed, upload, body, wg, err, object, commit>>

AbortReturn ==
    /\ caller = "aborting"
    /\ state = "piped" => wg = 0
    /\ caller' = "done"
    /\ UNCHANGED <<state, writes, written, wEnd, rClosed, upload, body, wg, err, object, commit>>

----------------------------------------------------------------------------
(* The upload *)

\* startPiped: wg.Add(1) and the upload goroutine.
StartPiped ==
    /\ upload = "starting"
    /\ upload' = "reading"
    /\ wg' = wg + 1
    /\ UNCHANGED <<state, caller, writes, written, wEnd, rClosed, body, err, object, commit>>

\* The upload reads what the caller writes.
Transfer ==
    /\ upload = "reading"
    /\ caller = "writing"
    /\ body' = Append(body, writes)
    /\ written' = Append(written, writes)
    /\ caller' = "idle"
    /\ UNCHANGED <<state, writes, wEnd, rClosed, upload, wg, err, object, commit>>

ReadEOF ==
    /\ upload = "reading"
    /\ wEnd = "eof"
    /\ upload' = "sending"
    /\ UNCHANGED <<state, caller, writes, written, wEnd, rClosed, body, wg, err, object, commit>>

\* Upload succeeded: the object is there.
UploadOk ==
    /\ upload = "sending"
    /\ object' = body
    /\ rClosed' = TRUE
    /\ upload' = "gone"
    /\ wg' = wg - 1
    /\ UNCHANGED <<state, caller, writes, written, wEnd, body, err, commit>>

\* Upload failed, at S3 (perhaps only the answer was lost) or because the pipe
\* was aborted; or the new version does not make a URL (storeVersion).
UploadErr ==
    /\ \/ upload = "sending" /\ object' \in {Nothing, body}
       \/ upload = "reading" /\ UNCHANGED object
    /\ err' = TRUE
    /\ rClosed' = TRUE
    /\ upload' = "gone"
    /\ wg' = wg - 1
    /\ UNCHANGED <<state, caller, writes, written, wEnd, body, commit>>

----------------------------------------------------------------------------
Ended == caller = "done" /\ upload \in {"none", "gone"} /\ UNCHANGED vars

Caller == Write \/ WriteErr \/ ReadFrom \/ Commit \/ CommitReturn \/ Abort \/ AbortReturn
Upload == StartPiped \/ Transfer \/ ReadEOF \/ UploadOk \/ UploadErr

Next == Caller \/ Upload \/ Ended

Spec == Init /\ [][Next]_vars

----------------------------------------------------------------------------
(* Properties *)

\* A commit of something that was written is durable: when Commit returns
\* without an error, S3 has all that was written, in order.
CommitDurable == commit = "ok" /\ written # <<>> => object = written

\* The comment in Commit: "Nothing written yet, start the writer now to
\* produce a zero-byte file."
EmptyCommitDurable == commit = "ok" => object = written

\* Data that was aborted is not uploaded: a piped object appears only if the
\* caller asked for a commit, and then it is whole.
NeverHalfWritten ==
    state = "piped" /\ object # Nothing
        => (caller = "committing" \/ commit # "none") /\ object = written

\* The caller is in a write, a commit or an abort.
Waiting == caller \in {"writing", "committing", "aborting"}
=============================================================================

--------------------------- MODULE StorageProofs ---------------------------
(***************************************************************************)
(* The drivers below the storage front end, for all sizes of their         *)
(* instances: what was committed to S3 is stored whole and what was        *)
(* aborted is not stored; what a call of the HTTP driver answers is true;  *)
(* a recursive visit meets every directory once; a listing in pages has    *)
(* what was there; the RAM driver is an object store.                      *)
(***************************************************************************)
EXTENDS Storage, FiniteSetTheorems, NaturalsInduction, WellFoundedInduction,
        SequenceTheorems, TLAPS

----------------------------------------------------------------------------
(* The S3 object writer *)

\* Nothing has happened: no upload, no pipe, no object.
Opened ==
    state = "opened" =>
        /\ upload = "none" /\ wg = 0
        /\ body = <<>> /\ written = <<>>
        /\ object = W!Nothing /\ commit = "none" /\ wEnd = "open"
        /\ caller \in {"idle", "aborting", "done"}

\* ReadFrom uploads in the caller, once.
Direct ==
    state = "direct" => /\ upload = "none"
                        /\ written # <<>> => object = written

\* The write end of the pipe is closed by Commit or by Abort, after which
\* nothing is written; wg counts the goroutine that reads, not the one that is
\* about to start it.
Pipe ==
    state = "piped" =>
        /\ upload \in {"starting", "reading", "sending", "gone"}
        /\ wg = IF upload \in {"reading", "sending"} THEN 1 ELSE 0
        /\ wEnd \in {"open", "eof", "abort"}
        /\ wEnd = "eof" => /\ caller \in {"committing", "committed", "aborting", "done"}
                           /\ caller = "committing" \/ commit # "none"
        /\ wEnd = "abort" => caller \in {"aborting", "done"}
        /\ caller \in {"committing", "committed"} \/ commit # "none" => wEnd = "eof"

\* What was written is what was read.  The object is made of it, once the pipe
\* is at its end; a commit that has returned has waited for that.
Whole ==
    state = "piped" =>
        /\ body = written
        /\ upload = "starting" => body = <<>>
        /\ upload = "sending" => wEnd = "eof"
        /\ object # W!Nothing => upload = "gone" /\ wEnd = "eof" /\ object = body
        /\ upload = "gone" /\ ~err => object = body
        /\ commit = "ok" /\ written # <<>> => upload = "gone" /\ object = written

WriterInv == /\ state \in {"opened", "piped", "direct"}
             /\ Opened /\ Direct /\ Pipe /\ Whole

\* An object writer that Create has returned.
LEMMA WriterInit == W!Init => WriterInv
  BY DEF W!Init, WriterInv, Opened, Direct, Pipe, Whole

\* The caller's steps and those of the upload keep the invariant.
LEMMA WriterStep == WriterInv /\ W!Next => WriterInv'
<1> SUFFICES ASSUME WriterInv, W!Next PROVE WriterInv'
  OBVIOUS
<1> USE DEF WriterInv, Opened, Direct, Pipe, Whole
<1>1. CASE W!Write
  BY <1>1 DEF W!Write, W!Piped
<1>2. CASE W!WriteErr
  BY <1>2 DEF W!WriteErr
<1>3. CASE W!ReadFrom
  BY <1>3 DEF W!ReadFrom
<1>4. CASE W!Commit
  BY <1>4 DEF W!Commit, W!Piped
<1>5. CASE W!CommitReturn
  BY <1>5 DEF W!CommitReturn
<1>6. CASE W!Abort
  BY <1>6 DEF W!Abort
<1>7. CASE W!AbortReturn
  BY <1>7 DEF W!AbortReturn
<1>8. CASE W!StartPiped
  BY <1>8 DEF W!StartPiped
<1>9. CASE W!Transfer
  BY <1>9 DEF W!Transfer
<1>10. CASE W!ReadEOF
  BY <1>10 DEF W!ReadEOF
<1>11. CASE W!UploadOk
  BY <1>11 DEF W!UploadOk
<1>12. CASE W!UploadErr
  BY <1>12 DEF W!UploadErr
<1>13. CASE W!Ended
  BY <1>13 DEF W!Ended, W!vars
<1> QED
  BY <1>1, <1>2, <1>3, <1>4, <1>5, <1>6, <1>7, <1>8, <1>9, <1>10, <1>11, <1>12, <1>13
  DEF W!Next, W!Caller, W!Upload

\* The writer is touched by nobody else.
LEMMA WriterAlone == WriterInv /\ [Next]_vars => WriterInv'
<1> SUFFICES ASSUME WriterInv, [Next]_vars PROVE WriterInv'
  OBVIOUS
<1>1. CASE Writing(W!Next)
  BY <1>1, WriterStep DEF Writing
<1>2. CASE UNCHANGED s3Vars
  BY <1>2 DEF s3Vars, WriterInv, Opened, Direct, Pipe, Whole
<1>3. Writing(W!Next) \/ UNCHANGED s3Vars
  BY DEF Next, vars, Front, Register, Call, driverVars, Ram, Visiting, Meanwhile, Region, Listing, Http
<1> QED
  BY <1>1, <1>2, <1>3

\* When Commit returns without an error, S3 has all that was written, in order;
\* what was aborted is not uploaded, and what is uploaded is whole (Commit,
\* Abort and startPiped of s3/writer.go).
THEOREM CommittedWhole == Init /\ [][Next]_vars => []CommitDurable
<1>1. Init => WriterInv
  BY WriterInit DEF Init
<1>2. WriterInv => CommitDurable
  BY DEF WriterInv, Opened, Direct, Pipe, Whole, CommitDurable, W!CommitDurable, W!NeverHalfWritten
<1> QED
  BY <1>1, <1>2, WriterAlone, PTL

----------------------------------------------------------------------------
(* The HTTP object *)

\* What an answer tells of the versions sn that were at the server.
RespTrue(resp, sn) ==
    /\ resp.status = 206 => resp.v \in sn
    /\ resp.status = 204 => 0 \in sn
    /\ resp.status = 200 => resp.len \in Int

Methods == {"HEAD", "GET", "WHOLE", "DELETE"}

\* What a call has to answer.
AnswerTrue(c, sn) ==
    c.at = "return" /\ c.err = "none" =>
        /\ c.op = "ReadAt" => /\ c.v \in sn
                              /\ c.from = c.off
                              /\ c.off + c.n = c.end
        /\ c.op = "Remove" => 0 \in sn

\* A call c with its request q, while version v is at the server.  A caller that
\* is in no call has no request on its way, and no answer of an earlier one.
CallTrue(c, q, sn, v) ==
    /\ c.off \in Int /\ c.end \in Int
    /\ c.at = "idle" => q.at = "idle" /\ q.resp.status = 0
    /\ c.at # "idle" => v \in sn
    /\ q.at # "idle" => q.ask \in Methods
    /\ RespTrue(q.resp, sn)
    /\ AnswerTrue(c, sn)

CallFields == {"op", "at", "off", "end", "err", "v", "from", "n"}
ReqFields  == {"at", "host", "ask", "first", "last", "ip", "tries", "late", "resp"}

HttpTypes ==
    /\ DOMAIN call = Reqs /\ \A r \in Reqs : CallFields \subseteq DOMAIN call[r]
    /\ DOMAIN req = Reqs /\ \A r \in Reqs : ReqFields \subseteq DOMAIN req[r]
    /\ DOMAIN seen = Reqs
    /\ size \in Int
    /\ content \in DOMAIN Size

HttpInv == HttpTypes /\ \A r \in Reqs : CallTrue(call[r], req[r], seen[r], content)

\* The record of no call and that of no request.
LEMMA Fresh ==
    /\ CallFields \subseteq DOMAIN H!NoCall
    /\ ReqFields \subseteq DOMAIN H!NoReq
    /\ H!NoReq.at = "idle" /\ H!NoReq.resp = H!NoResp
    /\ H!NoResp.status = 0
<1>1. CallFields \subseteq DOMAIN H!NoCall
  BY DEF H!NoCall, CallFields
<1>2. ReqFields \subseteq DOMAIN H!NoReq
  BY Zenon DEF H!NoReq, ReqFields
<1>3. H!NoReq.at = "idle" /\ H!NoReq.resp = H!NoResp /\ H!NoResp.status = 0
  BY DEF H!NoReq, H!NoResp
<1> QED
  BY <1>1, <1>2, <1>3

\* Before the first call.
LEMMA HttpInit == H!Init => HttpInv
<1> SUFFICES ASSUME H!Init PROVE HttpInv
  OBVIOUS
<1>1. ASSUME NEW r \in Reqs PROVE call[r] = H!NoCall /\ req[r] = H!NoReq /\ seen[r] = {}
  BY DEF H!Init, H!NetInit
<1>2. size \in Int /\ content \in DOMAIN Size
  BY HttpAssumption DEF H!Init
<1>3. DOMAIN call = Reqs /\ DOMAIN req = Reqs /\ DOMAIN seen = Reqs
  BY DEF H!Init, H!NetInit
<1>4. HttpTypes
  BY <1>1, <1>2, <1>3, Fresh DEF HttpTypes
<1>5. ASSUME NEW r \in Reqs PROVE CallTrue(call[r], req[r], seen[r], content)
  BY <1>1, Fresh DEF CallTrue, RespTrue, AnswerTrue, H!NoCall
<1> QED
  BY <1>4, <1>5 DEF HttpInv

\* A step of one caller and its request leaves the others alone.
LEMMA OneCaller ==
    ASSUME NEW r \in Reqs, HttpInv,
           \A s \in Reqs : s # r => call'[s] = call[s] /\ req'[s] = req[s] /\ seen'[s] = seen[s],
           DOMAIN call' = Reqs, CallFields \subseteq DOMAIN call'[r],
           DOMAIN req' = Reqs, ReqFields \subseteq DOMAIN req'[r],
           DOMAIN seen' = Reqs, size' \in Int, content' = content,
           CallTrue(call'[r], req'[r], seen'[r], content)
    PROVE  HttpInv'
<1>1. HttpTypes'
  <2>1. \A s \in Reqs : CallFields \subseteq DOMAIN call'[s]
    BY DEF HttpInv, HttpTypes
  <2>2. \A s \in Reqs : ReqFields \subseteq DOMAIN req'[s]
    BY DEF HttpInv, HttpTypes
  <2> QED
    BY <2>1, <2>2 DEF HttpInv, HttpTypes
<1>2. ASSUME NEW s \in Reqs PROVE CallTrue(call'[s], req'[s], seen'[s], content')
  <2>1. CASE s = r
    BY <2>1
  <2>2. CASE s # r
    <3>1. CallTrue(call[s], req[s], seen[s], content)
      BY DEF HttpInv
    <3> QED
      BY <2>2, <3>1
  <2> QED
    BY <2>1, <2>2
<1> QED
  BY <1>1, <1>2 DEF HttpInv

\* A step of a request on its way, which has this answer or one that is true.
LEMMA Attempt ==
    ASSUME NEW r \in Reqs, HttpInv, UNCHANGED objVars, req[r].at # "idle",
           DOMAIN req' = Reqs, \A s \in Reqs : s # r => req'[s] = req[s],
           ReqFields \subseteq DOMAIN req'[r], req'[r].ask = req[r].ask,
           RespTrue(req'[r].resp, seen[r])
    PROVE  HttpInv'
<1>1. UNCHANGED <<content, size, call, seen>>
  BY DEF objVars
<1>2. CallTrue(call[r], req[r], seen[r], content) /\ HttpTypes
  BY DEF HttpInv
<1>3. CallTrue(call[r], req'[r], seen[r], content)
  BY <1>2 DEF CallTrue
<1> QED
  BY <1>1, <1>2, <1>3, OneCaller DEF HttpTypes

\* The transports, whatever they resolve, cancel and try again (rr.go, retry.go).
LEMMA NetKeeps == HttpInv /\ H!NetNext /\ UNCHANGED objVars => HttpInv'
<1> SUFFICES ASSUME HttpInv, H!NetNext, UNCHANGED objVars PROVE HttpInv'
  OBVIOUS
<1>0. DOMAIN req = Reqs /\ \A r \in Reqs : ReqFields \subseteq DOMAIN req[r] /\ RespTrue(req[r].resp, seen[r])
  BY DEF HttpInv, HttpTypes, CallTrue
<1>1. RespTrue(H!NoResp, {}) /\ \A sn : RespTrue(H!NoResp, sn)
  BY Fresh DEF RespTrue
<1>2. ASSUME NEW r \in Reqs, req[r].at # "idle",
             \/ req' = [req EXCEPT ![r].at = "send"]
             \/ req' = [req EXCEPT ![r].at = "done"]
             \/ req' = [req EXCEPT ![r].at = "tried", ![r].resp = H!NoResp]
             \/ \E ip : req' = [req EXCEPT ![r].at = "sent", ![r].ip = ip]
             \/ \E n : req' = [req EXCEPT ![r].at = "pick", ![r].tries = n]
             \/ req' = [req EXCEPT ![r].late = TRUE]
      PROVE  HttpInv'
  <2>1. DOMAIN req' = Reqs /\ \A s \in Reqs : s # r => req'[s] = req[s]
    BY <1>0, <1>2
  <2>2. ReqFields \subseteq DOMAIN req'[r]
    BY <1>0, <1>2, Zenon
  <2>3. req'[r].resp = req[r].resp \/ req'[r].resp = H!NoResp
    BY <1>0, <1>2, Zenon DEF ReqFields
  <2>4. req'[r].ask = req[r].ask
    BY <1>0, <1>2, Zenon DEF ReqFields
  <2> QED
    BY <1>0, <1>1, <1>2, <2>1, <2>2, <2>3, <2>4, Attempt
<1>3. ASSUME NEW r \in Reqs, H!NetStep(r) \/ H!Deadline(r) PROVE HttpInv'
  <2>1. CASE H!Pick(r)
    BY <1>2, <2>1 DEF H!Pick, H!At, H!Go
  <2>2. CASE H!Choose(r)
    BY <1>2, <2>2 DEF H!Choose, H!At
  <2>3. CASE H!NoAnswer(r)
    BY <1>2, <2>3 DEF H!NoAnswer, H!At
  <2>4. CASE H!Tried(r)
    BY <1>2, <2>4 DEF H!Tried, H!At, H!Go
  <2>5. CASE H!Deadline(r)
    BY <1>2, <2>5 DEF H!Deadline
  <2> QED
    BY <1>3, <2>1, <2>2, <2>3, <2>4, <2>5 DEF H!NetStep
<1>4. ASSUME NEW h \in Hosts, H!ResolveAgain(h) PROVE HttpInv'
  BY <1>4 DEF H!ResolveAgain, HttpInv, HttpTypes, objVars
<1> QED
  BY <1>3, <1>4 DEF H!NetNext

\* The object at the server becomes version v, in the sight of the calls.
LEMMA BecomesKeeps ==
    ASSUME HttpInv, NEW v \in DOMAIN Size, H!Becomes(v), UNCHANGED <<size, call>>,
           DOMAIN req' = Reqs, \A r \in Reqs : ReqFields \subseteq DOMAIN req'[r],
           \A r \in Reqs : \/ req'[r] = req[r]
                           \/ /\ req[r].at # "idle" /\ req'[r].ask = req[r].ask
                              /\ RespTrue(req'[r].resp, seen[r] \cup {v})
    PROVE  HttpInv'
<1>1. HttpTypes'
  BY DEF HttpInv, HttpTypes, H!Becomes
<1>2. ASSUME NEW r \in Reqs PROVE CallTrue(call'[r], req'[r], seen'[r], content')
  <2>1. CallTrue(call[r], req[r], seen[r], content)
    BY DEF HttpInv
  <2>2. content' = v /\ call'[r] = call[r]
        /\ seen'[r] = IF call[r].at = "idle" THEN {} ELSE seen[r] \cup {v}
    BY DEF H!Becomes
  <2>3. CASE call[r].at = "idle"
    BY <2>1, <2>2, <2>3 DEF CallTrue, RespTrue, AnswerTrue
  <2>4. CASE call[r].at # "idle"
    <3>1. RespTrue(req'[r].resp, seen[r] \cup {v})
      BY <2>1 DEF CallTrue, RespTrue
    <3> QED
      BY <2>1, <2>2, <2>4, <3>1 DEF CallTrue, AnswerTrue
  <2> QED
    BY <2>3, <2>4
<1> QED
  BY <1>1, <1>2 DEF HttpInv

\* What the server answers is true of the versions sn that were there before, and
\* after the request took effect.
LEMMA ProperTrue ==
    ASSUME NEW q, q.ask \in Methods, content \in DOMAIN Size, NEW sn, content \in sn
    PROVE  RespTrue(H!Proper(q), IF q.ask = "DELETE" THEN sn \cup {0} ELSE sn)
<1>1. Size[content] \in Nat
  BY HttpAssumption
<1>2. CASE content = 0
  BY <1>2 DEF H!Proper, RespTrue, H!Status, H!NoResp
<1>3. CASE content # 0 /\ q.ask = "HEAD"
  <2>1. H!Proper(q) = [H!Status(200) EXCEPT !.len = Size[content]]
    BY <1>3 DEF H!Proper
  <2>2. [H!Status(200) EXCEPT !.len = Size[content]].status = 200
        /\ [H!Status(200) EXCEPT !.len = Size[content]].len = Size[content]
    BY DEF H!Status, H!NoResp
  <2> QED
    BY <1>1, <2>1, <2>2 DEF RespTrue
<1>4. CASE content # 0 /\ q.ask = "GET"
  <2> DEFINE last == IF q.last < Size[content] THEN q.last ELSE Size[content] - 1
  <2>0. H!Proper(q) = IF q.first >= Size[content] THEN H!Status(416)
                      ELSE H!Body(206, content, q.first, last)
    BY <1>4 DEF H!Proper
  <2> HIDE DEF last
  <2>1. H!Proper(q) \in {H!Status(416), H!Body(206, content, q.first, last)}
    BY <2>0, Zenon
  <2> QED
    BY <1>4, <2>1 DEF RespTrue, H!Status, H!NoResp, H!Body
<1>5. CASE content # 0 /\ q.ask = "WHOLE"
  BY <1>1, <1>5 DEF H!Proper, RespTrue, H!Status, H!NoResp, H!Body
<1>6. CASE content # 0 /\ q.ask = "DELETE"
  BY <1>1, <1>6 DEF H!Proper, RespTrue, H!Status, H!NoResp
<1> QED
  BY <1>2, <1>3, <1>4, <1>5, <1>6 DEF Methods

\* So is what it answers when it is busy or takes liberties.
LEMMA OddTrue ==
    ASSUME NEW q, content \in DOMAIN Size, NEW sn, content \in sn, NEW resp \in H!Odd(q)
    PROVE  RespTrue(resp, sn)
<1>1. Size[content] \in Nat
  BY HttpAssumption
<1>2. \/ resp \in {H!Status(500), H!Status(429), H!Status(405)}
      \/ resp = [H!Status(200) EXCEPT !.len = -1]
      \/ resp = H!Body(200, content, 0, Size[content] - 1)
      \/ resp = H!Body(206, content, 0, Size[content] - 1)
      \/ resp = [H!Body(206, content, 0, Size[content] - 1) EXCEPT !.len = @ - 1]
  BY DEF H!Odd
<1>3. CASE resp \in {H!Status(500), H!Status(429), H!Status(405)}
  BY <1>3 DEF RespTrue, H!Status, H!NoResp
<1>4. CASE resp = [H!Status(200) EXCEPT !.len = -1]
  BY <1>4 DEF RespTrue, H!Status, H!NoResp
<1>5. CASE \/ resp = H!Body(200, content, 0, Size[content] - 1)
           \/ resp = H!Body(206, content, 0, Size[content] - 1)
  BY <1>1, <1>5 DEF RespTrue, H!Body
<1>6. CASE resp = [H!Body(206, content, 0, Size[content] - 1) EXCEPT !.len = @ - 1]
  BY <1>1, <1>6 DEF RespTrue, H!Body
<1> QED
  BY <1>2, <1>3, <1>4, <1>5, <1>6

\* The server answers, well or oddly, its answer is lost, or the object changes.
LEMMA ServerKeeps ==
    ASSUME HttpInv,
           H!Replace \/ \E r \in Reqs : H!Answer(r) \/ H!AnswerOdd(r) \/ H!AnswerLost(r)
    PROVE  HttpInv'
<1>0. /\ DOMAIN req = Reqs /\ \A r \in Reqs : ReqFields \subseteq DOMAIN req[r]
      /\ content \in DOMAIN Size /\ 0 \in DOMAIN Size
  BY HttpAssumption DEF HttpInv, HttpTypes
<1>1. CASE H!Replace
  <2>1. PICK v \in DOMAIN Size : H!Becomes(v)
    BY <1>1 DEF H!Replace
  <2> QED
    BY <1>0, <1>1, <2>1, BecomesKeeps DEF H!Replace
<1>2. ASSUME NEW r \in Reqs, NEW resp, H!Serve(r, resp), UNCHANGED <<size, sizeOnce, sizeErr, call, calls>>,
             \/ UNCHANGED <<content, seen>> /\ RespTrue(resp, seen[r])
             \/ H!Becomes(0) /\ RespTrue(resp, seen[r] \cup {0})
      PROVE  HttpInv'
  <2>1. req' = [req EXCEPT ![r].at = "tried", ![r].resp = resp] /\ req[r].at = "sent"
    BY <1>2 DEF H!Serve, H!At
  <2>2. DOMAIN req' = Reqs /\ \A s \in Reqs : s # r => req'[s] = req[s]
    BY <1>0, <2>1
  <2>3. ReqFields \subseteq DOMAIN req'[r]
    BY <1>0, <2>1, Zenon
  <2>4. req'[r].resp = resp /\ req'[r].ask = req[r].ask
    BY <1>0, <2>1, Zenon DEF ReqFields
  <2>5. CASE UNCHANGED <<content, seen>> /\ RespTrue(resp, seen[r])
    BY <1>2, <2>1, <2>2, <2>3, <2>4, <2>5, Attempt DEF objVars
  <2>6. CASE H!Becomes(0) /\ RespTrue(resp, seen[r] \cup {0})
    <3>1. \A s \in Reqs : ReqFields \subseteq DOMAIN req'[s]
      BY <1>0, <2>2, <2>3
    <3> QED
      BY <1>0, <1>2, <2>1, <2>2, <2>4, <2>6, <3>1, BecomesKeeps
  <2> QED
    BY <1>2, <2>5, <2>6
<1>3. ASSUME NEW r \in Reqs, H!At(r, "sent")
      PROVE  content \in seen[r] /\ req[r].ask \in Methods
  BY <1>3 DEF HttpInv, CallTrue, H!At
<1>4. ASSUME NEW r \in Reqs, H!Answer(r) PROVE HttpInv'
  <2>1. content \in seen[r] /\ req[r].ask \in Methods
    BY <1>3, <1>4 DEF H!Answer, H!Serve
  <2>2. RespTrue(H!Proper(req[r]), IF req[r].ask = "DELETE" THEN seen[r] \cup {0} ELSE seen[r])
    BY <1>0, <2>1, ProperTrue
  <2> QED
    BY <1>2, <1>4, <2>2 DEF H!Answer, H!Effect
<1>5. ASSUME NEW r \in Reqs, H!AnswerOdd(r) PROVE HttpInv'
  <2>1. PICK resp \in H!Odd(req[r]) : H!Serve(r, resp)
    BY <1>5 DEF H!AnswerOdd
  <2>2. content \in seen[r]
    BY <1>3, <2>1 DEF H!Serve
  <2>3. RespTrue(resp, seen[r])
    BY <1>0, <2>2, OddTrue
  <2> QED
    BY <1>2, <1>5, <2>1, <2>3 DEF H!AnswerOdd, H!objVars
<1>6. ASSUME NEW r \in Reqs, H!AnswerLost(r) PROVE HttpInv'
  <2>1. \A sn : RespTrue(H!NoResp, sn)
    BY Fresh DEF RespTrue
  <2> QED
    BY <1>2, <1>6, <2>1 DEF H!AnswerLost, H!Effect
<1> QED
  BY <1>1, <1>4, <1>5, <1>6

\* A caller makes a step, perhaps with a new request.
LEMMA CallStep ==
    ASSUME NEW r \in Reqs, HttpInv, UNCHANGED <<content, seen>>, size' \in Int,
           call[r].at # "idle", call'[r].at # "idle",
           DOMAIN call' = Reqs, \A s \in Reqs : s # r => call'[s] = call[s],
           CallFields \subseteq DOMAIN call'[r],
           call'[r].off \in Int, call'[r].end \in Int,
           AnswerTrue(call'[r], seen[r]),
           UNCHANGED req \/ \E h, f, l : \E ask \in Methods : H!Ask(r, h, ask, f, l)
    PROVE  HttpInv'
<1>0. HttpTypes /\ CallTrue(call[r], req[r], seen[r], content)
  BY DEF HttpInv
<1>1. CASE UNCHANGED req
  <2>1. CallTrue(call'[r], req'[r], seen'[r], content)
    BY <1>0, <1>1 DEF CallTrue
  <2> QED
    BY <1>0, <1>1, <2>1, OneCaller DEF HttpTypes
<1>2. ASSUME NEW h, NEW f, NEW l, NEW ask \in Methods, H!Ask(r, h, ask, f, l) PROVE HttpInv'
  <2> DEFINE q == [H!NoReq EXCEPT !.at = "pick", !.host = h, !.ask = ask, !.first = f, !.last = l]
  <2>1. req' = [req EXCEPT ![r] = q]
    BY <1>2 DEF H!Ask
  <2>2. ReqFields \subseteq DOMAIN q
    BY Fresh, Zenon
  <2>3. q.at = "pick" /\ q.ask = ask /\ q.resp = H!NoResp
    BY Zenon DEF H!NoReq
  <2> HIDE DEF q
  <2>4. DOMAIN req' = Reqs /\ req'[r] = q /\ \A s \in Reqs : s # r => req'[s] = req[s]
    BY <1>0, <2>1 DEF HttpTypes
  <2>5. RespTrue(q.resp, seen[r])
    BY <2>3, Fresh DEF RespTrue
  <2>6. CallTrue(call'[r], req'[r], seen'[r], content)
    BY <1>0, <2>3, <2>4, <2>5 DEF CallTrue
  <2> QED
    BY <1>0, <2>2, <2>4, <2>6, OneCaller DEF HttpTypes
<1> QED
  BY <1>1, <1>2

\* How the record of a call changes.
LEMMA CallShape ==
    ASSUME NEW r \in Reqs, HttpInv, NEW now, NEW e,
           call' = [call EXCEPT ![r].at = now] \/ call' = [call EXCEPT ![r].at = now, ![r].err = e]
    PROVE  /\ DOMAIN call' = Reqs /\ \A s \in Reqs : s # r => call'[s] = call[s]
           /\ CallFields \subseteq DOMAIN call'[r]
           /\ call'[r].at = now
           /\ call'[r].off \in Int /\ call'[r].end \in Int
           /\ call'[r].op = call[r].op
           /\ call' = [call EXCEPT ![r].at = now, ![r].err = e] => call'[r].err = e
<1>0. DOMAIN call = Reqs /\ \A s \in Reqs : CallFields \subseteq DOMAIN call[s]
  BY DEF HttpInv, HttpTypes
<1>1. DOMAIN call' = Reqs /\ \A s \in Reqs : s # r => call'[s] = call[s]
  BY <1>0
<1>2. CallFields \subseteq DOMAIN call'[r]
  BY <1>0, Zenon
<1>3. /\ call'[r].at = now /\ call'[r].off = call[r].off /\ call'[r].end = call[r].end
      /\ call'[r].op = call[r].op
  BY <1>0, Zenon DEF CallFields
<1>4. call[r].off \in Int /\ call[r].end \in Int
  BY DEF HttpInv, CallTrue
<1>5. call' = [call EXCEPT ![r].at = now, ![r].err = e] => call'[r].err = e
  BY <1>0, Zenon DEF CallFields
<1> QED
  BY <1>1, <1>2, <1>3, <1>4, <1>5

\* The calls of the object and of the driver, and what begins and ends them
\* (object.go, driver.go, stat.go).
LEMMA CallsKeep ==
    ASSUME HttpInv, NEW r \in Reqs, H!Start(r) \/ H!Client(r) \/ H!ReadBodyErr(r)
    PROVE  HttpInv'
<1> DEFINE c == call[r]
           resp == req[r].resp
<1>0. /\ DOMAIN call = Reqs /\ CallFields \subseteq DOMAIN c
      /\ DOMAIN req = Reqs /\ DOMAIN seen = Reqs
      /\ size \in Int /\ c.off \in Int /\ c.end \in Int
      /\ CallTrue(c, req[r], seen[r], content) /\ RespTrue(resp, seen[r])
  BY DEF HttpInv, HttpTypes, CallTrue
<1>1. ASSUME NEW op, NEW off \in Nat, NEW len \in Nat, H!Begin(r, op, off, len) PROVE HttpInv'
  <2> DEFINE d == [H!NoCall EXCEPT !.op = op, !.at = "begin", !.off = off, !.end = off + len]
  <2>1. /\ c.at = "idle"
        /\ call' = [call EXCEPT ![r] = d] /\ seen' = [seen EXCEPT ![r] = {content}]
        /\ UNCHANGED <<req, content, size>>
    BY <1>1 DEF H!Begin, H!netVars
  <2>2. CallFields \subseteq DOMAIN d
    BY Fresh, Zenon
  <2>3. d.at = "begin" /\ d.off = off /\ d.end = off + len
    BY Zenon DEF H!NoCall
  <2> HIDE DEF d
  <2>4. /\ DOMAIN call' = Reqs /\ DOMAIN seen' = Reqs /\ call'[r] = d /\ seen'[r] = {content}
        /\ \A s \in Reqs : s # r => call'[s] = call[s] /\ seen'[s] = seen[s]
    BY <1>0, <2>1
  <2>5. req[r].at = "idle" /\ resp.status = 0
    BY <1>0, <2>1 DEF CallTrue
  <2>6. CallTrue(call'[r], req'[r], seen'[r], content)
    BY <2>1, <2>3, <2>4, <2>5 DEF CallTrue, RespTrue, AnswerTrue
  <2> QED
    BY <1>0, <2>1, <2>2, <2>4, <2>6, OneCaller DEF HttpInv, HttpTypes
<1>2. CASE H!End(r)
  <2>1. /\ call' = [call EXCEPT ![r] = H!NoCall] /\ seen' = [seen EXCEPT ![r] = {}]
        /\ req' = [req EXCEPT ![r] = H!NoReq] /\ UNCHANGED <<content, size>>
    BY <1>2 DEF H!End
  <2>2. /\ DOMAIN call' = Reqs /\ DOMAIN seen' = Reqs /\ DOMAIN req' = Reqs
        /\ call'[r] = H!NoCall /\ seen'[r] = {} /\ req'[r] = H!NoReq
        /\ \A s \in Reqs : s # r => call'[s] = call[s] /\ seen'[s] = seen[s] /\ req'[s] = req[s]
    BY <1>0, <2>1
  <2>3. CallTrue(H!NoCall, H!NoReq, {}, content)
    BY Fresh DEF CallTrue, RespTrue, AnswerTrue, H!NoCall
  <2> QED
    BY <1>0, <2>1, <2>2, <2>3, Fresh, OneCaller
<1>3. ASSUME NEW where, where \notin {"idle", "return"}, c.at # "idle", H!Now(r, where),
              UNCHANGED <<content, seen>>, size' \in Int,
              UNCHANGED req \/ \E h, f, l : \E ask \in Methods : H!Ask(r, h, ask, f, l)
       PROVE  HttpInv'
  <2>1. /\ DOMAIN call' = Reqs /\ \A s \in Reqs : s # r => call'[s] = call[s]
        /\ CallFields \subseteq DOMAIN call'[r]
        /\ call'[r].at = where /\ call'[r].off \in Int /\ call'[r].end \in Int
    BY <1>3, CallShape DEF H!Now
  <2>2. AnswerTrue(call'[r], seen[r])
    BY <1>3, <2>1 DEF AnswerTrue
  <2>3. call'[r].at # "idle"
    BY <1>3, <2>1
  <2> HIDE DEF c
  <2> QED
    BY <1>3, <2>1, <2>2, <2>3, CallStep DEF c
<1>4. CASE H!SizeOnce(r)
  <2>1. /\ c.at = "begin" /\ UNCHANGED <<content, size, seen>>
        /\ \/ H!Ask(r, Home, "HEAD", 0, 0) /\ H!Now(r, "head")
           \/ UNCHANGED req /\ H!Now(r, "sized")
    BY <1>4 DEF H!SizeOnce, H!Is, H!netVars
  <2> QED
    BY <1>0, <1>3, <2>1 DEF Methods
<1>5. CASE H!StatHead(r)
  <2>1. c.at = "head" /\ UNCHANGED <<content, seen>>
    BY <1>5 DEF H!StatHead, H!Is
  <2>2. \/ H!Ask(r, Home, "WHOLE", 0, 0) /\ UNCHANGED <<size, call>>
        \/ H!Sized(r, -1, "ErrNotExist")
        \/ H!Sized(r, -1, "error")
        \/ resp.status = 200 /\ H!Sized(r, resp.len, "none")
    BY <1>5 DEF H!StatHead
  <2>3. CASE H!Ask(r, Home, "WHOLE", 0, 0) /\ UNCHANGED <<size, call>>
    BY <1>0, <2>1, <2>3, CallStep DEF CallTrue, Methods, HttpInv, HttpTypes
  <2>4. CASE H!Now(r, "sized") /\ size' \in Int /\ UNCHANGED req
    BY <1>3, <2>1, <2>4
  <2> QED
    BY <1>0, <2>2, <2>3, <2>4 DEF H!Sized, H!netVars, RespTrue
<1>6. ASSUME NEW e, c.at # "idle", H!Return(r, e), UNCHANGED <<req, content, size, seen>>,
             e = "none" => c.op # "ReadAt" /\ (c.op = "Remove" => 0 \in seen[r])
      PROVE  HttpInv'
  <2>1. /\ DOMAIN call' = Reqs /\ \A s \in Reqs : s # r => call'[s] = call[s]
        /\ CallFields \subseteq DOMAIN call'[r]
        /\ call'[r].at = "return" /\ call'[r].off \in Int /\ call'[r].end \in Int
        /\ call'[r].op = c.op /\ call'[r].err = e
    BY <1>6, CallShape DEF H!Return
  <2>2. AnswerTrue(call'[r], seen[r])
    BY <1>6, <2>1 DEF AnswerTrue
  <2>3. call'[r].at # "idle" /\ size' \in Int
    BY <1>0, <1>6, <2>1
  <2> HIDE DEF c
  <2> QED
    BY <1>6, <2>1, <2>2, <2>3, CallStep DEF c
<1>7. CASE H!GetRange(r)
  <2> DEFINE end == IF c.end > size THEN size ELSE c.end
  <2>1. /\ c.at = "sized" /\ UNCHANGED <<content, size, seen>>
        /\ \/ sizeErr # "none" /\ H!Return(r, sizeErr) /\ UNCHANGED req
           \/ H!Return(r, "EOF") /\ UNCHANGED req
           \/ /\ H!Ask(r, Home, "GET", c.off, end - 1)
              /\ call' = [call EXCEPT ![r].at = "get", ![r].end = end]
    BY <1>7 DEF H!GetRange, H!Is, H!netVars
  <2>2. CASE call' = [call EXCEPT ![r].at = "get", ![r].end = end] /\ H!Ask(r, Home, "GET", c.off, end - 1)
    <3>1. end \in Int
      BY <1>0
    <3> HIDE DEF end
    <3>2. DOMAIN call' = Reqs /\ \A s \in Reqs : s # r => call'[s] = call[s]
      BY <1>0, <2>2
    <3>3. CallFields \subseteq DOMAIN call'[r]
      BY <1>0, <2>2, Zenon
    <3>4. call'[r].at = "get" /\ call'[r].off = c.off /\ call'[r].end = end
      BY <1>0, <2>2, Zenon DEF CallFields
    <3> QED
      BY <1>0, <2>1, <2>2, <3>1, <3>2, <3>3, <3>4, CallStep DEF AnswerTrue, Methods
  <2> QED
    BY <1>6, <2>1, <2>2
<1>8. CASE H!ReadBody(r)
  <2>1. /\ c.at = "get" /\ UNCHANGED <<req, content, size, seen>>
        /\ \/ /\ H!Accepted(c, resp)
              /\ call' = [call EXCEPT ![r].at = "return", ![r].v = resp.v, ![r].from = resp.first,
                                     ![r].n = resp.len]
           \/ H!Return(r, "ErrNotExist") \/ H!Return(r, "error")
    BY <1>8 DEF H!ReadBody, H!Is, H!netVars
  <2>2. CASE /\ H!Accepted(c, resp)
             /\ call' = [call EXCEPT ![r].at = "return", ![r].v = resp.v, ![r].from = resp.first,
                                    ![r].n = resp.len]
    <3>1. DOMAIN call' = Reqs /\ \A s \in Reqs : s # r => call'[s] = call[s]
      BY <1>0, <2>2
    <3>2. CallFields \subseteq DOMAIN call'[r]
      BY <1>0, <2>2, Zenon
    <3>3. /\ call'[r].at = "return" /\ call'[r].off = c.off /\ call'[r].end = c.end /\ call'[r].op = c.op
          /\ call'[r].v = resp.v /\ call'[r].from = resp.first /\ call'[r].n = resp.len
      BY <1>0, <2>2, Zenon DEF CallFields
    <3>4. /\ resp.v \in seen[r] /\ resp.first = c.off
          /\ c.off + resp.len = c.end
      BY <1>0, <2>2 DEF H!Accepted, RespTrue
    <3>5. c.op = "ReadAt"
      BY <1>8 DEF H!ReadBody, H!Is
    <3>6. AnswerTrue(call'[r], seen[r])
      BY <3>3, <3>4, <3>5 DEF AnswerTrue
    <3> QED
      BY <1>0, <2>1, <3>1, <3>2, <3>3, <3>6, CallStep
  <2> QED
    BY <1>6, <2>1, <2>2
<1>9. CASE H!ReadBodyErr(r)
  BY <1>6, <1>9 DEF H!ReadBodyErr, H!Is
<1>10. CASE H!Delete(r)
  <2>1. /\ c.at = "begin" /\ UNCHANGED <<content, size, seen>>
        /\ H!Ask(r, Home, "DELETE", 0, 0) /\ H!Now(r, "delete")
    BY <1>10 DEF H!Delete, H!Is
  <2> QED
    BY <1>0, <1>3, <2>1 DEF Methods
<1>11. CASE H!Deleted(r)
  <2>1. /\ c.at = "delete" /\ c.op = "Remove" /\ UNCHANGED <<req, content, size, seen>>
        /\ \/ H!Return(r, "error")
           \/ resp.status = 204 /\ H!Return(r, "none")
    BY <1>11 DEF H!Deleted, H!Is, H!netVars
  <2>2. CASE resp.status = 204 /\ H!Return(r, "none")
    <3>1. 0 \in seen[r]
      BY <1>0, <2>2 DEF RespTrue
    <3> QED
      BY <1>6, <2>1, <2>2, <3>1
  <2> QED
    BY <1>6, <2>1, <2>2
<1>12. ASSUME NEW h, H!Elsewhere(r, h) PROVE HttpInv'
  <2>1. /\ c.at = "begin" /\ UNCHANGED <<content, size, seen>>
        /\ H!Ask(r, h, "HEAD", 0, 0) /\ H!Now(r, "other")
    BY <1>12 DEF H!Elsewhere, H!Is
  <2> QED
    BY <1>0, <1>3, <2>1 DEF Methods
<1>13. CASE H!ElsewhereDone(r)
  <2>1. /\ c.at = "other" /\ c.op = "Elsewhere" /\ UNCHANGED <<req, content, size, seen>>
        /\ H!Return(r, "none")
    BY <1>13 DEF H!ElsewhereDone, H!Is, H!netVars
  <2> QED
    BY <1>6, <2>1
<1>14. ASSUME H!Start(r) PROVE HttpInv'
  BY <1>1, <1>14, HttpAssumption DEF H!Start
<1> QED
  BY <1>2, <1>4, <1>5, <1>7, <1>8, <1>9, <1>10, <1>11, <1>12, <1>13, <1>14 DEF H!Client

\* Nobody else touches the object.
LEMMA HttpAlone == HttpInv /\ [Next]_vars => HttpInv'
<1> SUFFICES ASSUME HttpInv, [Next]_vars PROVE HttpInv'
  OBVIOUS
<1>1. CASE H!Next
  <2>1. CASE H!Net
    BY <2>1, NetKeeps DEF H!Net, H!objVars, objVars
  <2>2. ASSUME NEW m \in Declared, H!Open(m) PROVE HttpInv'
    <3>1. size' \in Int /\ UNCHANGED <<req, content, call, seen>>
      BY <2>2, HttpAssumption DEF H!Open, H!netVars
    <3> QED
      BY <3>1 DEF HttpInv, HttpTypes
  <2> QED
    BY <1>1, <2>1, <2>2, ServerKeeps, CallsKeep DEF H!Next
<1>2. CASE UNCHANGED httpVars
  BY <1>2 DEF httpVars, HttpInv, HttpTypes
<1>3. H!Next \/ UNCHANGED httpVars
  BY DEF Next, vars, Front, Register, Call, driverVars, Ram, Visiting, Meanwhile, Region, Writing,
         Listing, Http
<1> QED
  BY <1>1, <1>2, <1>3

\* A ReadAt that succeeds has returned the bytes it asked for, up to the size of
\* the object, all of one version that was there during the call, and a Remove
\* that succeeds left no object at some moment of the call: whatever the server
\* answered, the network lost and the transports tried again (object.ReadAt,
\* Delete, retryingRoundTripper).
THEOREM HttpAnswersTrue == Init /\ [][Next]_vars => []AnswersTrue
<1>1. Init => HttpInv
  BY HttpInit DEF Init
<1>2. HttpInv => AnswersTrue
  BY DEF HttpInv, CallTrue, AnswerTrue, AnswersTrue, H!AnswersTrue
<1> QED
  BY <1>1, <1>2, HttpAlone, PTL
----------------------------------------------------------------------------
(* A recursive visit *)

Crew == 1 .. maxWorkers
WorkerFields == {"at", "dir", "todo"}

IsSeq(s) == \E S : s \in Seq(S)

\* Where a directory is on its way: in nextPaths, among the paths that the
\* feeder has not handed out, or with a worker that visits it or has to send it.
Queue(np)   == {np[i] : i \in 1 .. Len(np)}
Left(ps, f) == {i \in 1 .. Len(ps) : f # 0 /\ f <= i}
Unfed(ps, f) == {ps[i] : i \in Left(ps, f)}
With(k)     == IF k.at = "visit" THEN {k.dir} ELSE IF k.at = "emit" THEN k.todo ELSE {}
Hands(ks)   == UNION {With(ks[w]) : w \in Crew}

Known(np, ps, f, ks, seenDirs) == Queue(np) \cup Unfed(ps, f) \cup Hands(ks) \cup seenDirs

\* No two workers have the same directory.
Apart(ks) == \A u, v \in Crew : u # v => With(ks[u]) \cap With(ks[v]) = {}

\* Every directory is in one place.
Once(np, ps, f, ks, seenDirs) ==
    /\ \A i, j \in 1 .. Len(np) : np[i] = np[j] => i = j
    /\ \A i, j \in Left(ps, f) : ps[i] = ps[j] => i = j
    /\ Apart(ks)
    /\ Queue(np) \cap (Unfed(ps, f) \cup Hands(ks) \cup seenDirs) = {}
    /\ Unfed(ps, f) \cap (Hands(ks) \cup seenDirs) = {}
    /\ Hands(ks) \cap seenDirs = {}

\* A directory is known only from a visit of the one above it ...
FromParent(known, seenDirs) == \A d \in known : d = <<>> \/ R!Front(d) \in seenDirs

\* ... and after that visit it is known, if it was there all the time.
Passed(known, seenDirs, st) ==
    \A d \in st \ Hidden : (d = <<>> \/ R!Front(d) \in seenDirs) => d \in known

VisitTypes ==
    /\ IsSeq(nextPaths) /\ IsSeq(paths)
    /\ feed \in Nat /\ failed \in Nat
    /\ DOMAIN wk = Crew /\ \A w \in Crew : WorkerFields \subseteq DOMAIN wk[w]
    /\ shared = FALSE
    /\ \A d \in DOMAIN visits : visits[d] = 1

Resting(ks) == \A w \in Crew : ks[w].at \in {"none", "gone"}

\* The feeder and the channels of a round; between two rounds nobody works.
Rounds ==
    /\ feed <= Len(paths) + 1
    /\ hand # None => 1 <= feed /\ feed <= Len(paths) /\ hand = paths[feed]
    /\ inClosed => feed = 0 \/ feed = Len(paths) + 1
    /\ resClosed => feed = 0 /\ Resting(wk)
    /\ main \in {"round", "nil"} => feed = 0 /\ Resting(wk)
    /\ main = "nil" => nextPaths = <<>>

\* Nothing is lost while nothing fails and the visit is not broken off.
NothingLost ==
    failed = 0 /\ main \notin {"error", "cancelled"} =>
        /\ cancelled => main = "nil"
        /\ Passed(Known(nextPaths, paths, feed, wk, DOMAIN visits), DOMAIN visits, stable)

VisitInv ==
    /\ VisitTypes
    /\ Rounds
    /\ Once(nextPaths, paths, feed, wk, DOMAIN visits)
    /\ FromParent(Known(nextPaths, paths, feed, wk, DOMAIN visits), DOMAIN visits)
    /\ NothingLost
    /\ session \in {"start", "visit"} => stable \subseteq dirs

\* The root alone is queued.
LEMMA VisitInit == Init => VisitInv
<1> SUFFICES ASSUME Init PROVE VisitInv
  OBVIOUS
<1>0. V!Init
  BY DEF Init
<1>1. /\ main = "round" /\ nextPaths = <<<<>>>> /\ paths = <<>> /\ feed = 0 /\ hand = None
      /\ inClosed = FALSE /\ resClosed = FALSE /\ shared = FALSE /\ cancelled = FALSE /\ failed = 0
      /\ DOMAIN visits = {} /\ stable = dirs
  <2>1. stable = DOMAIN R!SubDirs /\ visits = [d \in {} |-> 0]
    BY <1>0, Zenon DEF V!Init
  <2>2. DOMAIN R!SubDirs = dirs
    BY DEF R!SubDirs
  <2>3. DOMAIN visits = {}
    BY <2>1
  <2> QED
    BY <1>0, <2>1, <2>2, <2>3, Zenon DEF V!Init
<1>2. DOMAIN wk = Crew /\ \A w \in Crew : wk[w] = V!Away
  BY <1>0 DEF V!Init, V!Workers, Crew
<1>3. WorkerFields \subseteq DOMAIN V!Away /\ V!Away.at = "none" /\ With(V!Away) = {}
  BY DEF WorkerFields, V!Away, With
<1>4. Queue(nextPaths) = {<<>>} /\ Len(nextPaths) = 1 /\ IsSeq(nextPaths)
  <2>1. nextPaths \in Seq({<<>>}) /\ Len(nextPaths) = 1 /\ nextPaths[1] = <<>>
    BY <1>1
  <2> QED
    BY <2>1 DEF Queue, IsSeq
<1>5. IsSeq(paths) /\ Len(paths) = 0
  <2>1. paths \in Seq({}) /\ Len(paths) = 0
    BY <1>1
  <2> QED
    BY <2>1 DEF IsSeq
<1>6. Unfed(paths, feed) = {} /\ Left(paths, feed) = {} /\ Hands(wk) = {}
  BY <1>1, <1>2, <1>3 DEF Unfed, Left, Hands
<1>7. VisitTypes
  BY <1>1, <1>2, <1>3, <1>4, <1>5 DEF VisitTypes
<1>8. Rounds
  BY <1>1, <1>2, <1>3, <1>5 DEF Rounds, Resting
<1>9. Once(nextPaths, paths, feed, wk, DOMAIN visits)
  BY <1>1, <1>2, <1>3, <1>4, <1>6 DEF Once, Apart
<1>10. FromParent(Known(nextPaths, paths, feed, wk, DOMAIN visits), DOMAIN visits)
  BY <1>1, <1>4, <1>6 DEF FromParent, Known
<1>11. NothingLost
  BY <1>1, <1>4 DEF NothingLost, Passed, Known
<1> QED
  BY <1>1, <1>7, <1>8, <1>9, <1>10, <1>11 DEF VisitInv

\* What a worker has and what the others have.
Others(ks, w) == UNION {With(ks[v]) : v \in Crew \ {w}}

\* Only the record of worker w changes, and what follows for what they have.
Only(w, ks, ks2) == \A v \in Crew : v # w => ks2[v] = ks[v]
Moved(w, ks, ks2) ==
    /\ Hands(ks) = With(ks[w]) \cup Others(ks, w)
    /\ With(ks[w]) \cap Others(ks, w) = {}
    /\ Hands(ks2) = With(ks2[w]) \cup Others(ks, w)
    /\ With(ks2[w]) \cap Others(ks, w) = {} => Apart(ks2)

LEMMA OneWorker ==
    ASSUME NEW ks, NEW ks2, NEW w \in Crew, Apart(ks), Only(w, ks, ks2)
    PROVE  Moved(w, ks, ks2)
<1>2. ASSUME NEW d PROVE /\ d \in Hands(ks) <=> \E v \in Crew : d \in With(ks[v])
                         /\ d \in Hands(ks2) <=> \E v \in Crew : d \in With(ks2[v])
                         /\ d \in Others(ks, w) <=> \E v \in Crew : v # w /\ d \in With(ks[v])
  BY Zenon DEF Hands, Others
<1>3. Hands(ks) = With(ks[w]) \cup Others(ks, w)
  BY <1>2, Zenon
<1>4. Hands(ks2) = With(ks2[w]) \cup Others(ks, w)
  <2>1. ASSUME NEW d PROVE d \in Hands(ks2) <=> d \in With(ks2[w]) \/ \E v \in Crew : v # w /\ d \in With(ks[v])
    BY <1>2, Zenon DEF Only
  <2> QED
    BY <1>2, <2>1, Zenon
<1>5. With(ks[w]) \cap Others(ks, w) = {}
  BY <1>2, Zenon DEF Apart
<1>6. ASSUME With(ks2[w]) \cap Others(ks, w) = {}, NEW u \in Crew, NEW v \in Crew, u # v, NEW d,
             d \in With(ks2[u]), d \in With(ks2[v])
      PROVE  FALSE
  BY <1>2, <1>6, Zenon DEF Apart, Only
<1> QED
  BY <1>3, <1>4, <1>5, <1>6, Zenon DEF Moved, Apart

\* A worker lets go of what it had: a hidden directory, one that is gone, one
\* that failed; or it had nothing.
LEMMA WorkerLets ==
    ASSUME VisitInv, NEW w \in Crew, NEW k, WorkerFields \subseteq DOMAIN k, With(k) = {},
           k.at \in {"recv", "gone"}, wk[w].at \notin {"none", "gone"},
           wk' = [wk EXCEPT ![w] = k],
           UNCHANGED <<main, nextPaths, paths, shared, feed, hand, inClosed, resClosed, cancelled, visits,
                       stable, dirs, session>>,
           failed' \in Nat, failed' = 0 => failed = 0,
           failed' = 0 /\ main \notin {"error", "cancelled"} => With(wk[w]) \cap (stable \ Hidden) = {}
    PROVE  VisitInv'
<1> DEFINE S == DOMAIN visits
           O == Others(wk, w)
           Q == Queue(nextPaths)
           U == Unfed(paths, feed)
<1>0. /\ VisitTypes /\ Rounds /\ Once(nextPaths, paths, feed, wk, S)
      /\ FromParent(Known(nextPaths, paths, feed, wk, S), S) /\ NothingLost
      /\ session \in {"start", "visit"} => stable \subseteq dirs
  BY DEF VisitInv
<1>1. DOMAIN wk = Crew /\ Apart(wk)
  BY <1>0 DEF VisitTypes, Once
<1>2. /\ DOMAIN wk' = Crew /\ wk'[w] = k /\ \A v \in Crew : v # w => wk'[v] = wk[v]
      /\ Hands(wk) = With(wk[w]) \cup O /\ Hands(wk') = O
      /\ Apart(wk')
  <2>1. DOMAIN wk' = Crew /\ wk'[w] = k /\ \A v \in Crew : v # w => wk'[v] = wk[v]
    BY <1>1
  <2>2. Moved(w, wk, wk')
    BY <1>1, <2>1, OneWorker DEF Only
  <2>3. /\ Hands(wk) = With(wk[w]) \cup O
        /\ Hands(wk') = With(k) \cup O
        /\ With(k) \cap O = {} => Apart(wk')
    BY <2>1, <2>2 DEF Moved
  <2> HIDE DEF O
  <2>4. With(k) \cap O = {} /\ With(k) \cup O = O
    OBVIOUS
  <2> QED
    BY <2>1, <2>3, <2>4
<1> HIDE DEF O, S, Q, U
<1>3. VisitTypes'
  BY <1>0, <1>2 DEF VisitTypes
<1>4. ~resClosed /\ main \notin {"round", "nil"}
  BY <1>0 DEF Rounds, Resting
<1>5. Rounds'
  BY <1>0, <1>4 DEF Rounds
<1>6. Once(nextPaths, paths, feed, wk', S)
  BY <1>0, <1>2 DEF Once
<1>7. Known(nextPaths, paths, feed, wk', S) = Q \cup U \cup O \cup S
      /\ Known(nextPaths, paths, feed, wk, S) = Q \cup U \cup With(wk[w]) \cup O \cup S
  BY <1>2 DEF Known, Q, U
<1>8. FromParent(Known(nextPaths, paths, feed, wk', S), S)
  BY <1>0, <1>7 DEF FromParent
<1>9. NothingLost'
  <2> SUFFICES ASSUME failed' = 0, main \notin {"error", "cancelled"}
               PROVE  (cancelled => main = "nil") /\ Passed(Known(nextPaths, paths, feed, wk', S), S, stable)
    BY DEF NothingLost, S
  <2> QED
    BY <1>0, <1>7 DEF NothingLost, Passed, S
<1> QED
  BY <1>0, <1>3, <1>5, <1>6, <1>8, <1>9 DEF VisitInv, S

\* A step that moves nothing.
LEMMA PlacesStay ==
    ASSUME VisitInv, UNCHANGED <<nextPaths, paths, shared, feed, wk, visits, stable, dirs, session>>,
           Rounds', failed' \in Nat, failed' = 0 => failed = 0,
           failed' = 0 /\ main' \notin {"error", "cancelled"} =>
               main \notin {"error", "cancelled"} /\ (cancelled' => main' = "nil")
    PROVE  VisitInv'
<1>1. VisitTypes'
  BY DEF VisitInv, VisitTypes
<1>2. NothingLost'
  BY DEF VisitInv, NothingLost
<1> QED
  BY <1>1, <1>2 DEF VisitInv
\* The feeder hands a path to a worker.
LEMMA Handed == ASSUME VisitInv, session = "visit", NEW w \in Crew, V!FeedSend(w),
                       UNCHANGED <<session, dirs>>
                PROVE  VisitInv'
<1> DEFINE S == DOMAIN visits
           O == Others(wk, w)
           Q == Queue(nextPaths)
           U == Unfed(paths, feed + 1)
           k == [at |-> "visit", dir |-> hand, todo |-> {}]
<1>0. /\ VisitTypes /\ Rounds /\ Once(nextPaths, paths, feed, wk, S)
      /\ FromParent(Known(nextPaths, paths, feed, wk, S), S) /\ NothingLost
      /\ stable \subseteq dirs
  BY DEF VisitInv
<1>1. DOMAIN wk = Crew /\ Apart(wk)
  BY <1>0 DEF VisitTypes, Once
<1>2. /\ hand # None /\ wk[w].at = "recv" /\ wk' = [wk EXCEPT ![w] = k] /\ feed' = feed + 1 /\ hand' = None
      /\ UNCHANGED <<main, nextPaths, paths, shared, inClosed, resClosed, cancelled, visits, stable, failed>>
  BY DEF V!FeedSend, V!sliceVars
<1>3. WorkerFields \subseteq DOMAIN k /\ With(k) = {hand} /\ With(wk[w]) = {}
  BY <1>2 DEF With, WorkerFields
<1> HIDE DEF k
<1>4. /\ DOMAIN wk' = Crew /\ wk'[w] = k /\ \A v \in Crew : v # w => wk'[v] = wk[v]
      /\ Hands(wk) = With(wk[w]) \cup O
      /\ Hands(wk') = With(k) \cup O
      /\ With(k) \cap O = {} => Apart(wk')
  <2>1. DOMAIN wk' = Crew /\ wk'[w] = k /\ \A v \in Crew : v # w => wk'[v] = wk[v]
    BY <1>1, <1>2
  <2>2. Moved(w, wk, wk')
    BY <1>1, <2>1, OneWorker DEF Only
  <2> QED
    BY <2>1, <2>2 DEF Moved
<1> HIDE DEF O, S, Q
<1>5. feed \in Nat /\ 1 <= feed /\ feed <= Len(paths) /\ hand = paths[feed] /\ Len(paths) \in Nat
  BY <1>0, <1>2 DEF Rounds, VisitTypes, IsSeq
<1>6. Left(paths, feed) = {feed} \cup Left(paths, feed + 1) /\ feed \notin Left(paths, feed + 1)
  BY <1>5 DEF Left
<1>7. Unfed(paths, feed) = {hand} \cup U /\ hand \notin U
  <2>1. \A i, j \in Left(paths, feed) : paths[i] = paths[j] => i = j
    BY <1>0 DEF Once
  <2> QED
    BY <1>5, <1>6, <2>1 DEF Unfed
<1> HIDE DEF U
<1>8. /\ hand \notin O /\ hand \notin Q /\ hand \notin S /\ U \cap O = {} /\ U \cap S = {}
      /\ Q \cap U = {} /\ Q \cap O = {} /\ Q \cap S = {} /\ O \cap S = {}
  BY <1>0, <1>3, <1>4, <1>7 DEF Once, Q
<1>9. VisitTypes'
  BY <1>0, <1>2, <1>3, <1>4, <1>5 DEF VisitTypes
<1>10. ~resClosed /\ main \notin {"round", "nil"} /\ ~inClosed
  BY <1>0, <1>2, <1>5 DEF Rounds, Resting
<1>11. Rounds'
  BY <1>0, <1>2, <1>5, <1>10 DEF Rounds
<1>12. Hands(wk') = {hand} \cup O /\ Apart(wk')
  BY <1>3, <1>4, <1>8
<1>13. Once(nextPaths, paths, feed + 1, wk', S)
  <2>1. \A i, j \in Left(paths, feed + 1) : paths[i] = paths[j] => i = j
    BY <1>0, <1>6 DEF Once
  <2>2. Q \cap (U \cup Hands(wk') \cup S) = {} /\ U \cap (Hands(wk') \cup S) = {} /\ Hands(wk') \cap S = {}
    BY <1>7, <1>8, <1>12
  <2> QED
    BY <1>0, <1>12, <2>1, <2>2 DEF Once, U, Q
<1>14. Known(nextPaths, paths, feed + 1, wk', S) = Known(nextPaths, paths, feed, wk, S)
  BY <1>3, <1>4, <1>7, <1>12 DEF Known, U
<1>15. NothingLost'
  BY <1>0, <1>2, <1>14 DEF NothingLost, S
<1> QED
  BY <1>0, <1>2, <1>9, <1>11, <1>13, <1>14, <1>15 DEF VisitInv, S

\* A worker sends a subdirectory to the accumulator.
LEMMA Sent == ASSUME VisitInv, session = "visit", NEW w \in Crew, V!Accumulate(w),
                     UNCHANGED <<session, dirs>>
              PROVE  VisitInv'
<1> DEFINE S == DOMAIN visits
           O == Others(wk, w)
           Q == Queue(nextPaths)
           U == Unfed(paths, feed)
           T == wk[w].todo
<1>0. /\ VisitTypes /\ Rounds /\ Once(nextPaths, paths, feed, wk, S)
      /\ FromParent(Known(nextPaths, paths, feed, wk, S), S) /\ NothingLost
      /\ stable \subseteq dirs
  BY DEF VisitInv
<1>1. DOMAIN wk = Crew /\ Apart(wk)
  BY <1>0 DEF VisitTypes, Once
<1>2. PICK d \in T :
        /\ V!AppendPath(d)
        /\ wk' = [wk EXCEPT ![w] = IF T = {d} THEN [V!Away EXCEPT !.at = "recv"]
                                   ELSE [wk[w] EXCEPT !.todo = @ \ {d}]]
  BY DEF V!Accumulate
<1>3. /\ main = "accumulate" /\ wk[w].at = "emit" /\ ~shared
      /\ nextPaths' = Append(nextPaths, d)
      /\ UNCHANGED <<main, feed, hand, inClosed, resClosed, cancelled, visits, stable, failed>>
  BY <1>0, <1>2 DEF V!Accumulate, V!AppendPath, V!feedVars, VisitTypes
<1>3a. paths' = paths /\ shared' = FALSE
  BY <1>0, <1>2, <1>3 DEF V!AppendPath, VisitTypes
<1> DEFINE k == IF T = {d} THEN [V!Away EXCEPT !.at = "recv"] ELSE [wk[w] EXCEPT !.todo = @ \ {d}]
<1>4. WorkerFields \subseteq DOMAIN k /\ With(k) = T \ {d} /\ With(wk[w]) = T /\ k.at \in {"recv", "emit"}
  <2>0. WorkerFields \subseteq DOMAIN wk[w]
    BY <1>0 DEF VisitTypes
  <2>1. CASE T = {d}
    <3>1. k = [V!Away EXCEPT !.at = "recv"]
      BY <2>1
    <3>2. WorkerFields \subseteq DOMAIN k /\ k.at = "recv"
      BY <3>1 DEF V!Away, WorkerFields
    <3> HIDE DEF k
    <3> QED
      BY <1>3, <2>1, <3>2 DEF With
  <2>2. CASE T # {d}
    <3>1. k = [wk[w] EXCEPT !.todo = T \ {d}]
      BY <2>2, Zenon
    <3>2. WorkerFields \subseteq DOMAIN k /\ k.at = wk[w].at /\ k.todo = T \ {d}
      BY <2>0, <3>1, Zenon DEF WorkerFields
    <3> HIDE DEF k
    <3> QED
      BY <1>3, <3>2 DEF With
  <2> QED
    BY <2>1, <2>2
<1>5. wk' = [wk EXCEPT ![w] = k]
  BY <1>2, Zenon
<1> HIDE DEF k
<1>6. /\ DOMAIN wk' = Crew /\ wk'[w] = k /\ \A v \in Crew : v # w => wk'[v] = wk[v]
      /\ Hands(wk) = With(wk[w]) \cup O
      /\ With(wk[w]) \cap O = {}
      /\ Hands(wk') = With(k) \cup O
      /\ With(k) \cap O = {} => Apart(wk')
  <2>1. DOMAIN wk' = Crew /\ wk'[w] = k /\ \A v \in Crew : v # w => wk'[v] = wk[v]
    BY <1>1, <1>5
  <2>2. Moved(w, wk, wk')
    BY <1>1, <2>1, OneWorker DEF Only
  <2> QED
    BY <2>1, <2>2 DEF Moved
<1>7. /\ IsSeq(nextPaths') /\ Queue(nextPaths') = Q \cup {d} /\ Len(nextPaths) \in Nat
      /\ Len(nextPaths') = Len(nextPaths) + 1 /\ nextPaths'[Len(nextPaths) + 1] = d
      /\ \A i \in 1 .. Len(nextPaths) : nextPaths'[i] = nextPaths[i]
  <2>1. PICK X : nextPaths \in Seq(X)
    BY <1>0 DEF VisitTypes, IsSeq
  <2>2. nextPaths \in Seq(X \cup {d})
    BY <2>1
  <2>3. nextPaths' \in Seq(X \cup {d})
    BY <1>3, <2>2
  <2>4. /\ Len(nextPaths) \in Nat
        /\ Len(nextPaths') = Len(nextPaths) + 1 /\ nextPaths'[Len(nextPaths) + 1] = d
        /\ \A i \in 1 .. Len(nextPaths) : nextPaths'[i] = nextPaths[i]
    BY <1>3, <2>1
  <2>5. Queue(nextPaths') = Q \cup {d}
    BY <2>4 DEF Queue
  <2> QED
    BY <2>3, <2>4, <2>5 DEF IsSeq
<1> HIDE DEF O, S, T
<1>8. d \in T /\ T \cap Q = {} /\ T \cap U = {} /\ T \cap S = {} /\ O \cap Q = {} /\ O \cap U = {} /\ O \cap S = {}
      /\ Q \cap U = {} /\ Q \cap S = {} /\ U \cap S = {} /\ T \cap O = {}
  BY <1>0, <1>2, <1>4, <1>6 DEF Once
<1>9. VisitTypes'
  BY <1>0, <1>3, <1>3a, <1>4, <1>6, <1>7 DEF VisitTypes
<1>10. ~resClosed
  BY <1>0, <1>3 DEF Rounds, Resting
<1>11. Rounds'
  BY <1>0, <1>3, <1>3a, <1>10 DEF Rounds
<1>12. /\ Hands(wk') = (T \ {d}) \cup O
       /\ Apart(wk')
  BY <1>4, <1>6, <1>8
<1>13. \A i, j \in 1 .. Len(nextPaths') : nextPaths'[i] = nextPaths'[j] => i = j
  <2>1. \A i \in 1 .. Len(nextPaths) : nextPaths[i] \in Q
    BY DEF Queue
  <2>2. \A i \in 1 .. Len(nextPaths) : nextPaths'[i] # d
    BY <1>7, <1>8, <2>1
  <2>3. \A i, j \in 1 .. Len(nextPaths) : nextPaths[i] = nextPaths[j] => i = j
    BY <1>0 DEF Once
  <2> QED
    BY <1>7, <2>2, <2>3
<1> HIDE DEF Q, U
<1>14. Once(nextPaths', paths, feed, wk', S)
  <2>1. /\ (Q \cup {d}) \cap (U \cup Hands(wk') \cup S) = {}
        /\ U \cap (Hands(wk') \cup S) = {} /\ Hands(wk') \cap S = {}
    BY <1>8, <1>12
  <2>2. \A i, j \in Left(paths, feed) : paths[i] = paths[j] => i = j
    BY <1>0 DEF Once
  <2> QED
    BY <1>7, <1>12, <1>13, <2>1, <2>2 DEF Once, U
<1>15. Known(nextPaths', paths, feed, wk', S) = Known(nextPaths, paths, feed, wk, S)
  BY <1>4, <1>6, <1>7, <1>8, <1>12 DEF Known, U, Q
<1>16. NothingLost'
  BY <1>0, <1>3, <1>3a, <1>15 DEF NothingLost, S
<1> QED
  BY <1>0, <1>3, <1>3a, <1>9, <1>11, <1>14, <1>15, <1>16 DEF VisitInv, S
\* A directory is visited: its subdirectories become known, for the first time.
LEMMA Seen == ASSUME VisitInv, session = "visit", NEW w \in Crew, V!VisitDir(w),
                     UNCHANGED <<session, dirs>>
              PROVE  VisitInv'
<1> DEFINE S == DOMAIN visits
           O == Others(wk, w)
           Q == Queue(nextPaths)
           U == Unfed(paths, feed)
           d == wk[w].dir
           T == R!SubDirs[d]
           k == IF T = {} THEN [V!Away EXCEPT !.at = "recv"] ELSE [at |-> "emit", dir |-> d, todo |-> T]
<1>0. /\ VisitTypes /\ Rounds /\ Once(nextPaths, paths, feed, wk, S)
      /\ FromParent(Known(nextPaths, paths, feed, wk, S), S) /\ NothingLost
      /\ stable \subseteq dirs
  BY DEF VisitInv
<1>1. DOMAIN wk = Crew /\ Apart(wk)
  BY <1>0 DEF VisitTypes, Once
<1>2. /\ wk[w].at = "visit" /\ d \in DOMAIN R!SubDirs /\ visits' = V!BagAdd(visits, d)
      /\ wk' = [wk EXCEPT ![w] = k]
      /\ UNCHANGED <<main, nextPaths, paths, shared, feed, hand, inClosed, resClosed, cancelled, stable, failed>>
  BY DEF V!VisitDir, V!sliceVars, V!feedVars
<1>3. T = {q \in dirs : q # <<>> /\ R!Front(q) = d}
  BY <1>2 DEF R!SubDirs
<1> HIDE DEF T
<1>4. WorkerFields \subseteq DOMAIN k /\ With(k) = T /\ With(wk[w]) = {d} /\ k.at \in {"recv", "emit"}
  <2>1. CASE T = {}
    <3>1. k = [V!Away EXCEPT !.at = "recv"]
      BY <2>1
    <3>2. WorkerFields \subseteq DOMAIN k /\ k.at = "recv"
      BY <3>1 DEF V!Away, WorkerFields
    <3> HIDE DEF k
    <3> QED
      BY <1>2, <2>1, <3>2 DEF With
  <2>2. CASE T # {}
    <3>1. k = [at |-> "emit", dir |-> d, todo |-> T]
      BY <2>2
    <3>2. WorkerFields \subseteq DOMAIN k /\ k.at = "emit" /\ k.todo = T
      BY <3>1 DEF WorkerFields
    <3> HIDE DEF k
    <3> QED
      BY <1>2, <3>2 DEF With
  <2> QED
    BY <2>1, <2>2
<1> HIDE DEF k
<1>6. /\ DOMAIN wk' = Crew /\ wk'[w] = k /\ \A v \in Crew : v # w => wk'[v] = wk[v]
      /\ Hands(wk) = With(wk[w]) \cup O
      /\ With(wk[w]) \cap O = {}
      /\ Hands(wk') = With(k) \cup O
      /\ With(k) \cap O = {} => Apart(wk')
  <2>1. DOMAIN wk' = Crew /\ wk'[w] = k /\ \A v \in Crew : v # w => wk'[v] = wk[v]
    BY <1>1, <1>2
  <2>2. Moved(w, wk, wk')
    BY <1>1, <2>1, OneWorker DEF Only
  <2> QED
    BY <2>1, <2>2 DEF Moved
<1> HIDE DEF O, Q, U, d
<1>7. Known(nextPaths, paths, feed, wk, S) = Q \cup U \cup {d} \cup O \cup S
  BY <1>4, <1>6 DEF Known, Q, U
<1>8. /\ d \notin S /\ d \notin Q /\ d \notin U /\ d \notin O
      /\ Q \cap U = {} /\ Q \cap O = {} /\ Q \cap S = {} /\ U \cap O = {} /\ U \cap S = {} /\ O \cap S = {}
  BY <1>0, <1>4, <1>6 DEF Once, Q, U
<1>9. DOMAIN visits' = S \cup {d} /\ \A x \in S \cup {d} : visits'[x] = 1
  <2>1. visits' = [e \in S \cup {d} |-> IF e = d THEN 1 ELSE visits[e]]
    BY <1>2, <1>8 DEF V!BagAdd
  <2>2. \A x \in S : visits[x] = 1
    BY <1>0 DEF VisitTypes
  <2> QED
    BY <2>1, <2>2
<1> HIDE DEF S
<1>10. T \cap (Q \cup U \cup O \cup S \cup {d}) = {}
  <2> SUFFICES ASSUME NEW c \in T, c \in Q \cup U \cup O \cup S \cup {d} PROVE FALSE
    OBVIOUS
  <2>1. c # <<>> /\ R!Front(c) = d
    BY <1>3
  <2>2. c = <<>> \/ R!Front(c) \in S
    BY <1>0, <1>7 DEF FromParent
  <2> QED
    BY <1>8, <2>1, <2>2
<1>11. VisitTypes'
  BY <1>0, <1>2, <1>4, <1>6, <1>9 DEF VisitTypes
<1>12. ~resClosed /\ main \notin {"round", "nil"}
  BY <1>0, <1>2 DEF Rounds, Resting
<1>13. Rounds'
  BY <1>0, <1>2, <1>12 DEF Rounds
<1>14. Hands(wk') = T \cup O /\ Apart(wk')
  BY <1>4, <1>6, <1>10
<1>15. Once(nextPaths, paths, feed, wk', S \cup {d})
  <2>1. /\ Q \cap (U \cup Hands(wk') \cup (S \cup {d})) = {}
        /\ U \cap (Hands(wk') \cup (S \cup {d})) = {} /\ Hands(wk') \cap (S \cup {d}) = {}
    BY <1>8, <1>10, <1>14
  <2>2. /\ \A i, j \in Left(paths, feed) : paths[i] = paths[j] => i = j
        /\ \A i, j \in 1 .. Len(nextPaths) : nextPaths[i] = nextPaths[j] => i = j
    BY <1>0 DEF Once
  <2> QED
    BY <1>14, <2>1, <2>2 DEF Once, Q, U
<1>16. Known(nextPaths, paths, feed, wk', S \cup {d}) = Q \cup U \cup T \cup O \cup S \cup {d}
  BY <1>14 DEF Known, Q, U
<1>17. FromParent(Known(nextPaths, paths, feed, wk', S \cup {d}), S \cup {d})
  BY <1>0, <1>3, <1>7, <1>16 DEF FromParent
<1>18. NothingLost'
  <2> SUFFICES ASSUME failed = 0, main \notin {"error", "cancelled"}
               PROVE  /\ cancelled => main = "nil"
                      /\ Passed(Known(nextPaths, paths, feed, wk', S \cup {d}), S \cup {d}, stable)
    BY <1>2, <1>9 DEF NothingLost
  <2>1. /\ cancelled => main = "nil"
        /\ Passed(Known(nextPaths, paths, feed, wk, S), S, stable)
    BY <1>0 DEF NothingLost, S
  <2>2. ASSUME NEW c \in stable \ Hidden, c = <<>> \/ R!Front(c) \in S \cup {d}
        PROVE  c \in Q \cup U \cup T \cup O \cup S \cup {d}
    <3>1. CASE c = <<>> \/ R!Front(c) \in S
      BY <1>7, <2>1, <3>1 DEF Passed
    <3>2. CASE c # <<>> /\ R!Front(c) = d
      BY <1>0, <1>3, <3>2
    <3> QED
      BY <2>2, <3>1, <3>2
  <2> QED
    BY <1>16, <2>1, <2>2 DEF Passed
<1> QED
  BY <1>0, <1>2, <1>9, <1>11, <1>13, <1>15, <1>17, <1>18 DEF VisitInv

\* A round takes the whole of nextPaths (breadth first).
LEMMA RoundBegins == ASSUME VisitInv, session = "visit", V!Round, UNCHANGED <<session, dirs>>
                     PROVE  VisitInv'
<1> DEFINE S == DOMAIN visits
<1>0. /\ VisitTypes /\ Rounds /\ Once(nextPaths, paths, feed, wk, S)
      /\ FromParent(Known(nextPaths, paths, feed, wk, S), S) /\ NothingLost
      /\ stable \subseteq dirs
  BY DEF VisitInv
<1>1. /\ main = "round" /\ main' = "accumulate"
      /\ paths' = SubSeq(nextPaths, 0 + 1, Len(nextPaths)) /\ nextPaths' = SubSeq(nextPaths, 1, 0)
      /\ shared' = FALSE /\ feed' = 1 /\ hand' = None /\ inClosed' = FALSE /\ resClosed' = FALSE
      /\ UNCHANGED <<cancelled, visits, stable, failed>>
  BY DEF V!Round
<1>2. /\ DOMAIN wk' = Crew
      /\ \A w \in Crew : wk'[w] = [V!Away EXCEPT !.at = "recv"] \/ wk'[w] = V!Away
  BY DEF V!Round, V!Workers, Crew
<1>3. \A w \in Crew : WorkerFields \subseteq DOMAIN wk'[w] /\ With(wk'[w]) = {}
  BY <1>2 DEF V!Away, With, WorkerFields
<1>4. Hands(wk') = {} /\ Apart(wk')
  BY <1>3, Zenon DEF Hands, Apart
<1>5. /\ IsSeq(paths') /\ Len(paths') = Len(nextPaths) /\ Len(nextPaths) \in Nat
      /\ \A i \in 1 .. Len(nextPaths) : paths'[i] = nextPaths[i]
      /\ IsSeq(nextPaths') /\ Len(nextPaths') = 0
  <2>1. PICK X : nextPaths \in Seq(X)
    BY <1>0 DEF VisitTypes, IsSeq
  <2>2. paths' \in Seq(X) /\ nextPaths' \in Seq(X) /\ Len(paths') = Len(nextPaths) /\ Len(nextPaths) \in Nat
    BY <1>1, <2>1
  <2>3. \A i \in 1 .. Len(nextPaths) : paths'[i] = nextPaths[i]
    BY <1>1, <2>1
  <2>4. Len(nextPaths') = 0
    BY <1>1, <2>1
  <2> QED
    BY <2>2, <2>3, <2>4 DEF IsSeq
<1>6. Left(paths', 1) = 1 .. Len(nextPaths) /\ Unfed(paths', 1) = Queue(nextPaths) /\ Queue(nextPaths') = {}
  BY <1>5 DEF Left, Unfed, Queue
<1>7. Unfed(paths, feed) = {} /\ Hands(wk) = {}
  <2>1. feed = 0 /\ Resting(wk)
    BY <1>0, <1>1 DEF Rounds
  <2>2. \A w \in Crew : With(wk[w]) = {}
    BY <2>1 DEF Resting, With
  <2>3. Hands(wk) = {}
    BY <2>2, Zenon DEF Hands
  <2> QED
    BY <2>1, <2>3 DEF Unfed, Left
<1>8. VisitTypes'
  BY <1>0, <1>1, <1>2, <1>3, <1>5 DEF VisitTypes
<1>9. Rounds'
  BY <1>1, <1>5 DEF Rounds
<1>10. Known(nextPaths', paths', 1, wk', S) = Known(nextPaths, paths, feed, wk, S)
  BY <1>4, <1>6, <1>7 DEF Known
<1>11. Once(nextPaths', paths', 1, wk', S)
  <2>1. \A i, j \in Left(paths', 1) : paths'[i] = paths'[j] => i = j
    BY <1>0, <1>5, <1>6 DEF Once
  <2>2. Queue(nextPaths) \cap S = {}
    BY <1>0 DEF Once
  <2>3. \A i, j \in 1 .. Len(nextPaths') : nextPaths'[i] = nextPaths'[j] => i = j
    BY <1>5
  <2> QED
    BY <1>4, <1>6, <2>1, <2>2, <2>3 DEF Once
<1>12. NothingLost'
  BY <1>0, <1>1, <1>10 DEF NothingLost
<1> QED
  BY <1>0, <1>1, <1>8, <1>9, <1>10, <1>11, <1>12 DEF VisitInv
\* One step of the visit.
LEMMA VisitStep == ASSUME VisitInv, Visiting(V!Next) PROVE VisitInv'
<1>0. /\ VisitTypes /\ Rounds /\ NothingLost /\ session = "visit" /\ V!Next /\ stable \subseteq dirs
      /\ UNCHANGED <<session, dirs>>
  BY DEF VisitInv, Visiting, frontVars, ramVars
<1>1. /\ WorkerFields \subseteq DOMAIN [V!Away EXCEPT !.at = "recv"] /\ With([V!Away EXCEPT !.at = "recv"]) = {}
      /\ WorkerFields \subseteq DOMAIN [V!Away EXCEPT !.at = "gone"] /\ With([V!Away EXCEPT !.at = "gone"]) = {}
      /\ [V!Away EXCEPT !.at = "recv"].at = "recv" /\ [V!Away EXCEPT !.at = "gone"].at = "gone"
  BY DEF V!Away, With, WorkerFields
<1>2. CASE V!Return
  <2>1. /\ main = "round" /\ nextPaths = <<>> /\ main' = "nil"
        /\ UNCHANGED <<nextPaths, paths, shared, feed, hand, inClosed, resClosed, wk, visits, stable, failed>>
    BY <1>2 DEF V!Return, V!sliceVars, V!feedVars
  <2>2. Rounds'
    BY <1>0, <2>1 DEF Rounds
  <2> QED
    BY <1>0, <2>1, <2>2, PlacesStay DEF VisitTypes
<1>3. CASE V!RoundDone
  <2>1. /\ main = "accumulate" /\ resClosed /\ main' = "round"
        /\ UNCHANGED <<nextPaths, paths, shared, feed, hand, inClosed, resClosed, wk, visits, stable, failed, cancelled>>
    BY <1>3 DEF V!RoundDone, V!sliceVars, V!feedVars
  <2>2. Rounds'
    BY <1>0, <2>1 DEF Rounds
  <2>3. failed = 0 => ~cancelled
    BY <1>0, <2>1 DEF NothingLost
  <2> QED
    BY <1>0, <2>1, <2>2, <2>3, PlacesStay DEF VisitTypes
<1>4. CASE V!ReturnErr
  <2>1. /\ main = "accumulate" /\ main' \in {"error", "cancelled"}
        /\ UNCHANGED <<nextPaths, paths, shared, feed, hand, inClosed, resClosed, wk, visits, stable, failed>>
    BY <1>4 DEF V!ReturnErr, V!sliceVars, V!feedVars
  <2>2. Rounds'
    BY <1>0, <2>1 DEF Rounds
  <2> QED
    BY <1>0, <2>1, <2>2, PlacesStay DEF VisitTypes
<1>5. CASE V!Cancel
  <2>1. /\ failed' = failed + 1
        /\ UNCHANGED <<main, nextPaths, paths, shared, feed, hand, inClosed, resClosed, wk, visits, stable>>
    BY <1>5 DEF V!Cancel, V!sliceVars, V!feedVars
  <2>2. Rounds'
    BY <1>0, <2>1 DEF Rounds
  <2>3. failed \in Nat /\ failed' \in Nat /\ failed' # 0
    BY <1>0, <2>1 DEF VisitTypes
  <2> QED
    BY <1>0, <2>1, <2>2, <2>3, PlacesStay
<1>6. CASE V!FeedRead
  <2>1. /\ feed \in 1 .. Len(paths) /\ hand' = paths[feed]
        /\ UNCHANGED <<main, nextPaths, paths, shared, feed, inClosed, resClosed, wk, visits, stable, failed, cancelled>>
    BY <1>6 DEF V!FeedRead, V!sliceVars
  <2>2. Rounds'
    BY <1>0, <2>1 DEF Rounds
  <2> QED
    BY <1>0, <2>1, <2>2, PlacesStay DEF VisitTypes, NothingLost
<1>7. CASE V!FeedClose
  <2>1. /\ feed = Len(paths) + 1
        /\ UNCHANGED <<main, nextPaths, paths, shared, feed, hand, resClosed, wk, visits, stable, failed, cancelled>>
    BY <1>7 DEF V!FeedClose, V!sliceVars
  <2>2. Rounds'
    BY <1>0, <2>1 DEF Rounds
  <2> QED
    BY <1>0, <2>1, <2>2, PlacesStay DEF VisitTypes, NothingLost
<1>8. CASE V!FeedEnd
  <2>1. /\ inClosed /\ Resting(wk) /\ feed # 0 /\ feed' = 0 /\ resClosed' = TRUE
        /\ UNCHANGED <<main, nextPaths, paths, shared, hand, inClosed, wk, visits, stable, failed, cancelled>>
    BY <1>8 DEF V!FeedEnd, V!sliceVars, Resting, V!Workers, Crew
  <2>2. feed = Len(paths) + 1 /\ Len(paths) \in Nat /\ hand = None
    BY <1>0, <2>1 DEF Rounds, VisitTypes, IsSeq
  <2>3. /\ Left(paths, feed) = {} /\ Left(paths, 0) = {}
    BY <2>2 DEF Left
  <2>4. Unfed(paths, feed) = {} /\ Unfed(paths, 0) = {}
    BY <2>3 DEF Unfed
  <2>5. Rounds'
    BY <1>0, <2>1, <2>2 DEF Rounds
  <2>6. VisitTypes'
    BY <1>0, <2>1 DEF VisitTypes
  <2> DEFINE S == DOMAIN visits
  <2>7. Known(nextPaths, paths, 0, wk, S) = Known(nextPaths, paths, feed, wk, S)
    BY <2>4 DEF Known
  <2>8. Once(nextPaths, paths, feed, wk, S) => Once(nextPaths, paths, 0, wk, S)
    BY <2>3, <2>4 DEF Once
  <2>9. NothingLost'
    BY <1>0, <2>1, <2>7 DEF NothingLost
  <2> QED
    BY <1>0, <2>1, <2>5, <2>6, <2>7, <2>8, <2>9 DEF VisitInv
<1>9. ASSUME NEW w \in Crew, V!Skip(w) PROVE VisitInv'
  <2>1. /\ wk[w].at = "visit" /\ wk[w].dir \in Hidden /\ wk' = [wk EXCEPT ![w] = [V!Away EXCEPT !.at = "recv"]]
        /\ UNCHANGED <<main, nextPaths, paths, shared, feed, hand, inClosed, resClosed, cancelled, visits, stable, failed>>
    BY <1>9 DEF V!Skip, V!sliceVars, V!feedVars
  <2>2. With(wk[w]) \cap (stable \ Hidden) = {}
    BY <2>1 DEF With
  <2> QED
    BY <1>0, <1>1, <2>1, <2>2, WorkerLets DEF VisitTypes
<1>10. ASSUME NEW w \in Crew, V!VisitGone(w) PROVE VisitInv'
  <2>1. /\ wk[w].at = "visit" /\ wk[w].dir \notin DOMAIN R!SubDirs
        /\ wk' = [wk EXCEPT ![w] = [V!Away EXCEPT !.at = "gone"]]
        /\ UNCHANGED <<main, nextPaths, paths, shared, feed, hand, inClosed, resClosed, cancelled, visits, stable, failed>>
    BY <1>10 DEF V!VisitGone, V!LeaveError, V!sliceVars, V!feedVars
  <2>2. With(wk[w]) \cap (stable \ Hidden) = {}
    BY <1>0, <2>1 DEF With, R!SubDirs
  <2> QED
    BY <1>0, <1>1, <2>1, <2>2, WorkerLets DEF VisitTypes
<1>11. ASSUME NEW w \in Crew, V!VisitErr(w) PROVE VisitInv'
  <2>1. /\ wk[w].at = "visit" /\ failed' = failed + 1
        /\ wk' = [wk EXCEPT ![w] = [V!Away EXCEPT !.at = "gone"]]
        /\ UNCHANGED <<main, nextPaths, paths, shared, feed, hand, inClosed, resClosed, cancelled, visits, stable>>
    BY <1>11 DEF V!VisitErr, V!LeaveError, V!sliceVars, V!feedVars
  <2>2. failed \in Nat /\ failed' \in Nat /\ failed' # 0
    BY <1>0, <2>1 DEF VisitTypes
  <2> QED
    BY <1>0, <1>1, <2>1, <2>2, WorkerLets
<1>12. ASSUME NEW w \in Crew, V!Leave(w) PROVE VisitInv'
  <2>1. /\ wk[w].at = "recv" \/ (wk[w].at = "emit" /\ cancelled)
        /\ wk' = [wk EXCEPT ![w] = [V!Away EXCEPT !.at = "gone"]]
        /\ UNCHANGED <<main, nextPaths, paths, shared, feed, hand, inClosed, resClosed, cancelled, visits, stable, failed>>
    BY <1>12 DEF V!Leave, V!sliceVars, V!feedVars
  <2>2. CASE wk[w].at = "recv"
    <3>1. With(wk[w]) = {}
      BY <2>2 DEF With
    <3> QED
      BY <1>0, <1>1, <2>1, <2>2, <3>1, WorkerLets DEF VisitTypes
  <2>3. CASE wk[w].at = "emit" /\ cancelled
    <3>1. failed = 0 => main \in {"error", "cancelled"}
      BY <1>0, <2>3 DEF NothingLost, Rounds, Resting
    <3> QED
      BY <1>0, <1>1, <2>1, <2>3, <3>1, WorkerLets DEF VisitTypes
  <2> QED
    BY <2>1, <2>2, <2>3
<1>13. V!Workers = Crew
  BY DEF V!Workers, Crew
<1>14. ASSUME NEW w \in Crew, V!Worker(w) PROVE VisitInv'
  BY <1>0, <1>9, <1>10, <1>11, <1>12, <1>14, Seen DEF V!Worker
<1>15. CASE V!Main
  BY <1>0, <1>2, <1>3, <1>4, <1>13, <1>15, RoundBegins, Sent DEF V!Main
<1>16. CASE V!Feeder
  BY <1>0, <1>6, <1>7, <1>8, <1>13, <1>16, Handed DEF V!Feeder
<1> QED
  BY <1>0, <1>5, <1>13, <1>14, <1>15, <1>16 DEF V!Next

\* Others change the tree during a visit, and nothing touches a visit that has
\* not begun.
LEMMA VisitAlone == VisitInv /\ [Next]_vars => VisitInv'
<1> SUFFICES ASSUME VisitInv, [Next]_vars PROVE VisitInv'
  OBVIOUS
<1>1. CASE Visiting(V!Next)
  BY <1>1, VisitStep
<1>2. CASE Meanwhile
  <2>1. /\ stable' = stable \cap dirs'
        /\ UNCHANGED <<session, main, nextPaths, paths, shared, feed, hand, inClosed, resClosed, wk, cancelled,
                       visits, failed>>
    BY <1>2 DEF Meanwhile, frontVars
  <2>2. VisitTypes'
    BY <2>1 DEF VisitInv, VisitTypes
  <2>3. Rounds'
    BY <2>1 DEF VisitInv, Rounds
  <2>4. NothingLost'
    BY <2>1 DEF VisitInv, NothingLost, Passed
  <2> QED
    BY <2>1, <2>2, <2>3, <2>4 DEF VisitInv
<1>3. CASE UNCHANGED visitVars /\ (session' \in {"start", "visit"} => session \in {"start", "visit"} /\ dirs' = dirs)
  <2>1. UNCHANGED <<main, nextPaths, paths, shared, feed, hand, inClosed, resClosed, wk, cancelled, visits,
                    stable, failed>>
    BY <1>3 DEF visitVars
  <2>2. VisitTypes'
    BY <2>1 DEF VisitInv, VisitTypes
  <2>3. Rounds'
    BY <2>1 DEF VisitInv, Rounds
  <2>4. NothingLost'
    BY <2>1 DEF VisitInv, NothingLost
  <2> QED
    BY <1>3, <2>1, <2>2, <2>3, <2>4 DEF VisitInv
<1>4. CASE Front
  <2>1. UNCHANGED visitVars /\ session = "start" /\ dirs' = dirs
    BY <1>4 DEF Front, Register, Call, driverVars, ramVars
  <2> QED
    BY <1>3, <2>1
<1>5. CASE Ram
  BY <1>3, <1>5 DEF Ram, frontVars
<1>6. CASE Region(G!Next) \/ Writing(W!Next) \/ Listing(L!Next) \/ Http(H!Next) \/ UNCHANGED vars
  <2>1. UNCHANGED <<visitVars, session, dirs>>
    BY <1>6 DEF Region, Writing, Listing, Http, vars, frontVars, ramVars
  <2> QED
    BY <1>3, <2>1
<1> QED
  BY <1>1, <1>2, <1>4, <1>5, <1>6 DEF Next

\* When nothing is on its way, the visited directories that were there all the
\* time are closed under their subdirectories.
LEMMA AllVisited ==
    ASSUME VisitInv, main = "nil", failed = 0
    PROVE  V!Wanted \subseteq DOMAIN visits
<1> DEFINE S == DOMAIN visits
<1>1. /\ Rounds /\ NothingLost /\ VisitTypes
  BY DEF VisitInv
<1>2. Passed(S, S, stable)
  <2>1. feed = 0 /\ Resting(wk) /\ nextPaths = <<>>
    BY <1>1 DEF Rounds
  <2>2. \A w \in Crew : With(wk[w]) = {}
    BY <2>1 DEF Resting, With
  <2>3. Hands(wk) = {}
    BY <2>2, Zenon DEF Hands
  <2>4. Queue(nextPaths) = {} /\ Unfed(paths, feed) = {}
    BY <2>1 DEF Queue, Unfed, Left
  <2>5. Known(nextPaths, paths, feed, wk, S) = S
    BY <2>3, <2>4 DEF Known
  <2> QED
    BY <1>1, <2>5 DEF NothingLost
<1> HIDE DEF S
<1> DEFINE there == stable \ Hidden
           reach == S \cap there
<1>3. <<>> \in there => <<>> \in reach
  BY <1>2 DEF Passed
<1>4. ASSUME NEW e \in reach, NEW c \in there, V!IsChild(c, e) PROVE c \in reach
  <2>1. R!Front(c) = e
    BY <1>4 DEF V!IsChild, R!SubDirs
  <2> QED
    BY <1>2, <2>1 DEF Passed
<1>5. reach \in SUBSET there
  OBVIOUS
<1>6. V!Wanted \subseteq reach
  <2> HIDE DEF reach
  <2> QED
    BY <1>3, <1>4, <1>5, Zenon DEF V!Wanted, V!Closed
<1> QED
  BY <1>6 DEF S

\* A visit of a tree that others change meanwhile meets no directory twice, and
\* if nothing failed it has met every directory that was there all the time,
\* whatever the tree, the number of workers and the order of their answers
\* (Visit and visitWorker, breadth first).
THEOREM VisitedOnce == Init /\ [][Next]_vars => []EachOnce
<1>1. VisitInv => EachOnce
  BY AllVisited DEF VisitInv, VisitTypes, EachOnce, V!EachOnce
<1> QED
  BY <1>1, VisitInit, VisitAlone, PTL

----------------------------------------------------------------------------
(* A listing in pages *)

\* A set of numbers that is not empty has a least one ...
LEMMA Least ==
    ASSUME NEW T \in SUBSET Nat, T # {}
    PROVE  \E m \in T : \A b \in T : m <= b
<1> DEFINE Below == OpToRel(<, Nat)
<1>1. PICK m \in T : \A b \in T : ~(<<b, m>> \in Below)
  BY NatLessThanWellFounded, WFMin
<1>2. \A b \in T : ~(b < m)
  BY <1>1 DEF OpToRel
<1> QED
  BY <1>2

\* ... and a greatest one, if it is bounded.
LEMMA Greatest ==
    ASSUME NEW n \in Nat, NEW T \in SUBSET (1 .. n), T # {}
    PROVE  L!Max(T) \in T /\ \A b \in T : b <= L!Max(T)
<1> DEFINE bounds == {m \in Nat : \A b \in T : b <= m}
<1>1. n \in bounds
  OBVIOUS
<1>2. bounds \in SUBSET Nat /\ bounds # {}
  BY <1>1
<1>3. PICK m \in bounds : \A c \in bounds : m <= c
  BY <1>2, Least
<1>4. PICK t \in T : TRUE
  OBVIOUS
<1>5. m \in Nat /\ m >= t /\ t >= 1 /\ m - 1 \in Nat
  BY <1>3, <1>4
<1>6. m \in T
  <2> SUFFICES ASSUME m \notin T PROVE FALSE
    OBVIOUS
  <2>1. \A b \in T : b <= m - 1
    BY <1>3, <1>5
  <2>2. m - 1 \in bounds
    BY <1>5, <2>1
  <2> QED
    BY <1>3, <1>5, <2>2
<1>7. \A b \in T : m >= b
  BY <1>3
<1>8. \E x \in T : \A y \in T : x >= y
  BY <1>6, <1>7
<1>9. L!Max(T) \in T /\ \A b \in T : L!Max(T) >= b
  <2>1. L!Max(T) = CHOOSE x \in T : \A y \in T : x >= y
    BY DEF L!Max
  <2> QED
    BY <1>8, <2>1, Zenon
<1> QED
  BY <1>9

\* The size of a set is the same in the instance.
LEMMA SameSize == \A S : L!Cardinality(S) = Cardinality(S)
BY DEF L!Cardinality, Cardinality

Vers == {"put", "del"}
IsListing(vs) == DOMAIN vs = Keys /\ \A k \in Keys : vs[k] \in Seq(Vers)

\* Keys are positive numbers.
LEMMA KeysCounted == Len(KeyKind) \in Nat /\ Keys = 1 .. Len(KeyKind) /\ IsFiniteSet(Keys)
<1>1. Len(KeyKind) \in Nat /\ Keys = 1 .. Len(KeyKind)
  BY ListAssumption
<1> QED
  BY <1>1, FS_Interval

\* The entries after a marker.
LEMMA Entry ==
    ASSUME IsListing(versions), NEW m \in Nat
    PROVE  /\ \A e \in L!After(m) : /\ e[1] \in Keys /\ e[1] > m /\ e[2] \in Nat /\ e[2] >= 1
                                    /\ e = <<e[1], e[2]>> /\ versions[e[1]] # <<>>
                                    /\ KeyKind[e[1]] = "prefix" => e[2] = 1
           /\ \A k \in Keys : k > m /\ versions[k] # <<>> => <<k, 1>> \in L!After(m)
           /\ IsFiniteSet(L!After(m))
<1> DEFINE later == {j \in Keys : j > m}
<1>1. ASSUME NEW k \in Keys
      PROVE  /\ L!Shown(k) \subseteq DOMAIN versions[k] /\ DOMAIN versions[k] = 1 .. Len(versions[k])
             /\ Len(versions[k]) \in Nat /\ (versions[k] # <<>> => Len(versions[k]) >= 1)
             /\ (KeyKind[k] = "prefix" => L!Shown(k) \subseteq {1})
             /\ (versions[k] # <<>> => 1 \in L!Shown(k))
             /\ IsFiniteSet(L!Shown(k))
  <2>1. /\ DOMAIN versions[k] = 1 .. Len(versions[k]) /\ Len(versions[k]) \in Nat
        /\ (versions[k] # <<>> => Len(versions[k]) >= 1)
    BY DEF IsListing
  <2>2. /\ L!Shown(k) \subseteq DOMAIN versions[k] /\ (KeyKind[k] = "prefix" => L!Shown(k) \subseteq {1})
        /\ (1 \in DOMAIN versions[k] => 1 \in L!Shown(k))
    BY DEF L!Shown
  <2>3. IsFiniteSet(DOMAIN versions[k])
    BY <2>1, FS_Interval
  <2>4. IsFiniteSet(L!Shown(k))
    BY <2>2, <2>3, FS_Subset
  <2> QED
    BY <2>1, <2>2, <2>4
<1>2. \A e : e \in L!After(m) <=> \E k \in later : e \in {k} \X L!Shown(k)
  BY Zenon DEF L!After
<1>3. ASSUME NEW e \in L!After(m)
      PROVE  /\ e[1] \in Keys /\ e[1] > m /\ e[2] \in Nat /\ e[2] >= 1
             /\ e = <<e[1], e[2]>> /\ versions[e[1]] # <<>>
             /\ KeyKind[e[1]] = "prefix" => e[2] = 1
  <2>1. PICK k \in later : e \in {k} \X L!Shown(k)
    BY <1>2
  <2>2. e[1] = k /\ e[2] \in L!Shown(k) /\ e = <<e[1], e[2]>>
    BY <2>1
  <2>3. e[2] \in 1 .. Len(versions[k]) /\ Len(versions[k]) \in Nat
    BY <1>1, <2>1, <2>2
  <2>4. versions[k] # <<>>
    <3> SUFFICES ASSUME versions[k] = <<>> PROVE FALSE
      OBVIOUS
    <3>1. Len(versions[k]) = 0
      OBVIOUS
    <3> QED
      BY <2>3, <3>1
  <2> QED
    BY <1>1, <2>1, <2>2, <2>3, <2>4
<1>4. ASSUME NEW k \in Keys, k > m, versions[k] # <<>> PROVE <<k, 1>> \in L!After(m)
  BY <1>1, <1>2, <1>4
<1>5. IsFiniteSet(L!After(m))
  <2>1. IsFiniteSet(later)
    BY KeysCounted, FS_Subset
  <2> DEFINE f == [k \in later |-> {k} \X L!Shown(k)]
             all == {{k} \X L!Shown(k) : k \in later}
  <2>2. f \in Surjection(later, all)
    BY DEF Surjection
  <2>3. IsFiniteSet(all)
    BY <2>1, <2>2, FS_Surjection
  <2>4. ASSUME NEW t \in all PROVE IsFiniteSet(t)
    <3>1. PICK k \in later : t = {k} \X L!Shown(k)
      OBVIOUS
    <3>2. IsFiniteSet({k}) /\ IsFiniteSet(L!Shown(k))
      BY <1>1, FS_Singleton
    <3> QED
      BY <3>1, <3>2, FS_Product
  <2>5. L!After(m) = UNION all
    BY Zenon DEF L!After
  <2> HIDE DEF all
  <2> QED
    BY <2>3, <2>4, <2>5, FS_UNION
<1> QED
  BY <1>3, <1>4, <1>5

\* A page takes the entries in their order, at least one if there is any.
LEMMA Paged ==
    ASSUME IsListing(versions), NEW m \in Nat, NEW rest, rest = L!After(m),
           NEW page, page = L!First(PageSize, rest)
    PROVE  /\ page \subseteq rest
           /\ \A e \in page, f \in rest : L!Before(f, e) => f \in page
           /\ rest # {} => page # {}
<1> DEFINE sooner(e) == {f \in rest : L!Before(f, e)}
<1>1. \A e \in rest : e[1] \in Nat /\ e[1] >= 1 /\ e[2] \in Nat /\ e[2] >= 1
  <2>1. \A k \in Keys : k \in Nat /\ k >= 1
    BY KeysCounted
  <2> QED
    BY <2>1, Entry
<1>2. ASSUME NEW e \in rest
      PROVE  IsFiniteSet(sooner(e)) /\ Cardinality(sooner(e)) \in Nat
  BY Entry, FS_Subset, FS_CardinalityType
<1>3. page = {e \in rest : Cardinality(sooner(e)) < PageSize}
  BY SameSize, Zenon DEF L!First
<1>4. PageSize \in Nat /\ PageSize >= 1
  BY ListAssumption
<1>5. ASSUME NEW e \in page, NEW f \in rest, L!Before(f, e) PROVE f \in page
  <2>1. e \in rest /\ Cardinality(sooner(e)) < PageSize
    BY <1>3
  <2>2. sooner(f) \subseteq sooner(e)
    BY <1>1, <1>5, <2>1 DEF L!Before
  <2>3. IsFiniteSet(sooner(e)) /\ Cardinality(sooner(e)) \in Nat /\ Cardinality(sooner(f)) \in Nat
    BY <1>2, <2>1
  <2> HIDE DEF sooner
  <2>4. Cardinality(sooner(f)) <= Cardinality(sooner(e))
    BY <2>2, <2>3, FS_Subset
  <2>5. Cardinality(sooner(f)) < PageSize
    BY <1>4, <2>1, <2>3, <2>4
  <2> QED
    BY <1>3, <2>5
<1>6. ASSUME rest # {} PROVE page # {}
  <2> DEFINE ks == {k \in Keys : <<k, 1>> \in rest}
  <2>1. ks \in SUBSET Nat /\ ks # {}
    <3>1. PICK e \in rest : TRUE
      BY <1>6
    <3>2. e[1] \in Keys /\ e[1] > m /\ versions[e[1]] # <<>>
      BY Entry
    <3>3. <<e[1], 1>> \in rest
      BY <3>2, Entry
    <3>4. e[1] \in ks
      BY <3>2, <3>3
    <3> QED
      BY <3>4, KeysCounted
  <2>2. PICK k \in ks : \A j \in ks : k <= j
    BY <2>1, Least
  <2> DEFINE e == <<k, 1>>
  <2>3. e \in rest /\ k \in Nat
    BY <2>1
  <2>4. ASSUME NEW f \in rest, L!Before(f, e) PROVE FALSE
    <3>1. f[1] \in Keys /\ f[1] > m /\ versions[f[1]] # <<>>
      BY Entry
    <3>2. f[1] \in ks
      BY <3>1, Entry
    <3>3. k <= f[1] /\ f[1] \in Nat /\ f[2] \in Nat /\ f[2] >= 1
      BY <1>1, <2>2, <3>2
    <3>4. f[1] < k \/ (f[1] = k /\ f[2] < 1)
      BY <2>4 DEF L!Before
    <3> QED
      BY <2>3, <3>3, <3>4
  <2>5. sooner(e) = {}
    BY <2>4
  <2>6. Cardinality(sooner(e)) = 0
    BY <2>5, FS_EmptySet
  <2> QED
    BY <1>3, <1>4, <2>3, <2>6
<1> QED
  BY <1>3, <1>5, <1>6

\* Of every key at most one entry is listed: its latest version, or the prefix.
LEMMA EntryOnce ==
    ASSUME IsListing(versions), NEW m \in Nat, NEW page, page \subseteq L!After(m), NEW k \in Keys
    PROVE  L!Cardinality({e \in L!Entries(page) : e[1] = k}) =
               IF <<k, 1>> \in page /\ k \in L!Present(versions) /\ KeyKind[k] # "self" THEN 1 ELSE 0
<1> DEFINE mine == {e \in L!Entries(page) : e[1] = k}
<1>0. KeyKind[k] \in {"self", "file", "prefix"}
  BY ListAssumption
<1>1. ASSUME NEW e \in mine PROVE e = <<k, 1>> /\ e \in page
  <2>1. e \in page /\ e[1] = k /\ (KeyKind[k] = "prefix" \/ e[2] = 1)
    BY DEF L!Entries
  <2>2. e = <<e[1], e[2]>> /\ (KeyKind[e[1]] = "prefix" => e[2] = 1)
    BY <2>1, Entry
  <2> QED
    BY <2>1, <2>2
<1>2. <<k, 1>> \in mine <=> <<k, 1>> \in page /\ k \in L!Present(versions) /\ KeyKind[k] # "self"
  <2> DEFINE e == <<k, 1>>
  <2>1. e[1] = k /\ e[2] = 1
    OBVIOUS
  <2>2. e \in page => versions[k] # <<>>
    BY <2>1, Entry
  <2>3. versions[k] # <<>> => Head(versions[k]) = versions[k][1]
    BY DEF IsListing
  <2>4. k \in L!Present(versions) <=>
            versions[k] # <<>> /\ (KeyKind[k] = "prefix" \/ Head(versions[k]) = "put")
    BY DEF L!Present
  <2>5. e \in mine <=> /\ e \in page
                       /\ (KeyKind[k] = "prefix" \/ (KeyKind[k] = "file" /\ versions[k][1] = "put"))
    BY <2>1 DEF L!Entries
  <2> HIDE DEF e, mine
  <2>6. e \in mine <=> e \in page /\ k \in L!Present(versions) /\ KeyKind[k] # "self"
    BY <1>0, <2>2, <2>3, <2>4, <2>5
  <2> QED
    BY <2>6 DEF e
<1> HIDE DEF mine
<1>3. CASE <<k, 1>> \in mine
  <2>1. mine = {<<k, 1>>}
    BY <1>1, <1>3
  <2>2. Cardinality(mine) = 1
    BY <2>1, FS_Singleton
  <2> QED
    BY <1>2, <1>3, <2>2, SameSize DEF mine
<1>4. CASE <<k, 1>> \notin mine
  <2>1. mine = {}
    BY <1>1, <1>4
  <2>2. Cardinality(mine) = 0
    BY <2>1, FS_EmptySet
  <2> QED
    BY <1>2, <1>4, <2>2, SameSize DEF mine
<1> QED
  BY <1>3, <1>4

\* What was listed, up to the marker, while the lister asks for pages.
UpToMarker ==
    /\ \A k \in Keys : results[k] <= 1 /\ (k > nextKey => results[k] = 0)
    /\ \A k \in always : KeyKind[k] # "self" /\ k <= nextKey => results[k] = 1
    /\ \A k \in Keys : results[k] > 0 => k \in ever /\ KeyKind[k] # "self"
    /\ always \subseteq L!Present(versions) /\ L!Present(versions) \subseteq ever

ListInv ==
    /\ IsListing(versions)
    /\ nextKey \in Nat
    /\ results \in [Keys -> Nat]
    /\ lister = "start" => nextKey = 0 /\ \A k \in Keys : results[k] = 0
    /\ lister = "asks" => UpToMarker
    /\ ListedRight

\* Nothing is listed before the call.
LEMMA ListInit == L!Init => ListInv
<1> SUFFICES ASSUME L!Init PROVE ListInv
  OBVIOUS
<1>1. lister = "start" /\ nextKey = 0 /\ results = [k \in Keys |-> 0] /\ versions = [k \in Keys |-> <<>>]
  BY DEF L!Init
<1>2. IsListing(versions)
  <2>1. <<>> \in Seq(Vers)
    OBVIOUS
  <2> QED
    BY <1>1, <2>1 DEF IsListing
<1> QED
  BY <1>1, <1>2 DEF ListInv, ListedRight, L!ListedRight

\* A page lists the keys up to the next marker.
LEMMA PageStep == ListInv /\ L!Page => ListInv'
<1> SUFFICES ASSUME ListInv, L!Page PROVE ListInv'
  OBVIOUS
<1> DEFINE rest == L!After(nextKey)
           page == L!First(PageSize, rest)
           due(k) == <<k, 1>> \in page /\ k \in L!Present(versions) /\ KeyKind[k] # "self"
<1>1. /\ lister = "asks"
      /\ results' = [k \in Keys |-> results[k] + L!Cardinality({e \in L!Entries(page) : e[1] = k})]
      /\ page # rest => nextKey' = L!Max({e[1] : e \in page}) /\ lister' = "asks"
      /\ page = rest => nextKey' = 0 /\ lister' = "done"
      /\ UNCHANGED <<versions, always, ever>>
  BY DEF L!Page
<1>2. IsListing(versions) /\ nextKey \in Nat /\ results \in [Keys -> Nat] /\ UpToMarker
  BY <1>1 DEF ListInv
<1>3. /\ page \subseteq rest
      /\ \A e \in page, f \in rest : L!Before(f, e) => f \in page
      /\ rest # {} => page # {}
  BY <1>2, Paged
<1>4. /\ \A e \in rest : /\ e[1] \in Keys /\ e[1] > nextKey /\ e[2] \in Nat /\ e[2] >= 1
                         /\ e = <<e[1], e[2]>>
      /\ \A k \in Keys : k > nextKey /\ versions[k] # <<>> => <<k, 1>> \in rest
  BY <1>2, Entry
<1>5. \A k \in Keys : k \in Nat /\ k >= 1
  BY KeysCounted
<1> HIDE DEF page, rest
<1>6. \A k \in Keys : results'[k] = results[k] + IF due(k) THEN 1 ELSE 0
  <2>1. \A k \in Keys : L!Cardinality({e \in L!Entries(page) : e[1] = k}) = IF due(k) THEN 1 ELSE 0
    BY <1>2, <1>3, EntryOnce DEF rest
  <2> HIDE DEF due
  <2> QED
    BY <1>1, <2>1
<1>7. results' \in [Keys -> Nat]
  <2>1. \A k \in Keys : L!Cardinality({e \in L!Entries(page) : e[1] = k}) \in Nat
    <3>1. \A k \in Keys : L!Cardinality({e \in L!Entries(page) : e[1] = k}) = IF due(k) THEN 1 ELSE 0
      BY <1>2, <1>3, EntryOnce DEF rest
    <3> HIDE DEF due
    <3> QED
      BY <3>1
  <2> QED
    BY <1>1, <1>2, <2>1
<1>8. ASSUME NEW k \in Keys, due(k) PROVE k > nextKey /\ results[k] = 0 /\ k \in ever
  <2>1. <<k, 1>> \in rest
    BY <1>3, <1>8
  <2>2. k > nextKey
    BY <1>4, <2>1
  <2> QED
    BY <1>2, <1>8, <2>2 DEF UpToMarker
<1>9. /\ \A k \in Keys : results'[k] <= 1
      /\ \A k \in Keys : results'[k] > 0 => k \in ever /\ KeyKind[k] # "self"
  <2> SUFFICES ASSUME NEW k \in Keys
               PROVE  results'[k] <= 1 /\ (results'[k] > 0 => k \in ever /\ KeyKind[k] # "self")
    OBVIOUS
  <2>1. CASE due(k)
    BY <1>6, <1>8, <2>1
  <2>2. CASE ~due(k)
    <3>1. results'[k] = results[k]
      BY <1>2, <1>6, <2>2
    <3> QED
      BY <1>2, <3>1 DEF UpToMarker
  <2> QED
    BY <2>1, <2>2
<1>10. ASSUME NEW k \in always, KeyKind[k] # "self", k <= nextKey \/ <<k, 1>> \in page
       PROVE  results'[k] = 1
  <2>1. k \in Keys /\ k \in L!Present(versions)
    BY <1>2 DEF UpToMarker, L!Present
  <2>2. CASE due(k)
    BY <1>6, <1>8, <2>1, <2>2
  <2>3. CASE ~due(k)
    <3>1. results'[k] = results[k]
      BY <1>2, <1>6, <2>1, <2>3
    <3>2. k <= nextKey
      BY <1>10, <2>1, <2>3
    <3> QED
      BY <1>2, <1>10, <3>1, <3>2 DEF UpToMarker
  <2> QED
    BY <2>2, <2>3
<1>11. \A k \in always : k \in Keys /\ (k > nextKey => <<k, 1>> \in rest)
  BY <1>2, <1>4 DEF UpToMarker, L!Present
<1>12. CASE page = rest
  <2>1. ASSUME NEW k \in always, KeyKind[k] # "self" PROVE results'[k] = 1
    <3>1. k \in Keys /\ k \in Nat /\ (k > nextKey => <<k, 1>> \in page)
      BY <1>5, <1>11, <1>12
    <3>2. k <= nextKey \/ <<k, 1>> \in page
      BY <1>2, <3>1
    <3> QED
      BY <1>10, <2>1, <3>2
  <2>2. ASSUME NEW k \in always, KeyKind[k] # "self" PROVE k \in Keys /\ results'[k] > 0
    <3>1. k \in Keys
      BY <1>11
    <3>2. results'[k] = 1
      BY <2>1, <2>2
    <3> QED
      BY <3>1, <3>2
  <2>3. ListedRight'
    BY <1>1, <1>9, <2>2 DEF ListedRight, L!ListedRight, L!Listed
  <2> QED
    BY <1>1, <1>2, <1>7, <1>12, <2>3 DEF ListInv
<1>13. CASE page # rest
  <2> DEFINE keys == {e[1] : e \in page}
  <2>1. keys \subseteq 1 .. Len(KeyKind) /\ keys # {}
    <3>1. page # {}
      BY <1>3, <1>13
    <3>2. \A e \in page : e[1] \in 1 .. Len(KeyKind)
      BY <1>3, <1>4, KeysCounted
    <3> QED
      BY <3>1, <3>2
  <2>2. nextKey' \in keys /\ \A j \in keys : j <= nextKey'
    BY <1>1, <1>13, <2>1, Greatest, KeysCounted
  <2>3. PICK last \in page : last[1] = nextKey'
    BY <2>2
  <2>4. nextKey' \in Nat /\ nextKey' > nextKey /\ last[2] \in Nat /\ last[2] >= 1 /\ last = <<nextKey', last[2]>>
    BY <1>3, <1>4, <1>5, <2>3
  <2>5. \A k \in Keys : k > nextKey' => results'[k] = 0
    <3> SUFFICES ASSUME NEW k \in Keys, k > nextKey' PROVE results'[k] = 0
      OBVIOUS
    <3>1. <<k, 1>> \notin page
      <4> SUFFICES ASSUME <<k, 1>> \in page PROVE FALSE
        OBVIOUS
      <4>1. k \in keys
        OBVIOUS
      <4> QED
        BY <1>5, <2>2, <2>4, <4>1
    <3>2. results[k] = 0
      BY <1>2, <1>5, <2>4 DEF UpToMarker
    <3> QED
      BY <1>6, <3>1, <3>2
  <2>6. ASSUME NEW k \in always, KeyKind[k] # "self", k <= nextKey' PROVE results'[k] = 1
    <3>1. k \in Keys /\ k \in Nat /\ (k > nextKey => <<k, 1>> \in rest)
      BY <1>5, <1>11
    <3>2. CASE k <= nextKey
      BY <1>10, <2>6, <3>2
    <3>3. CASE k > nextKey
      <4> DEFINE f == <<k, 1>>
      <4>1. f \in rest /\ f[1] = k /\ f[2] = 1
        BY <3>1, <3>3
      <4>2. f = last \/ L!Before(f, last)
        BY <2>3, <2>4, <2>6, <3>1, <4>1 DEF L!Before
      <4>3. f \in page
        BY <1>3, <4>1, <4>2
      <4> QED
        BY <1>10, <2>6, <4>3
    <3> QED
      BY <1>2, <3>1, <3>2, <3>3
  <2>7. UpToMarker'
    BY <1>1, <1>2, <1>9, <2>5, <2>6 DEF UpToMarker
  <2> QED
    BY <1>1, <1>2, <1>7, <1>13, <2>4, <2>7 DEF ListInv, ListedRight, L!ListedRight
<1> QED
  BY <1>12, <1>13

\* Others put and delete while the lister is between two pages.
LEMMA ChangeStep == ASSUME ListInv, NEW k \in Keys, NEW what \in Vers, L!Change(k, what)
                    PROVE  ListInv'
<1>1. /\ lister = "asks"
      /\ versions' = [versions EXCEPT ![k] = IF keeps THEN <<what>> \o @
                                             ELSE IF what = "put" THEN <<what>> ELSE <<>>]
      /\ always' = always \cap L!Present(versions') /\ ever' = ever \cup L!Present(versions')
      /\ UNCHANGED <<lister, nextKey, results>>
  BY DEF L!Change
<1>2. IsListing(versions)
  BY DEF ListInv
<1> DEFINE vs == IF keeps THEN <<what>> \o versions[k] ELSE IF what = "put" THEN <<what>> ELSE <<>>
<1>3. vs \in Seq(Vers)
  <2>1. <<what>> \in Seq(Vers) /\ <<>> \in Seq(Vers) /\ versions[k] \in Seq(Vers)
    BY <1>2 DEF IsListing
  <2>2. <<what>> \o versions[k] \in Seq(Vers)
    BY <2>1, ConcatProperties, Zenon
  <2> QED
    BY <2>1, <2>2
<1>4. versions' = [versions EXCEPT ![k] = vs]
  BY <1>1
<1> HIDE DEF vs
<1>5. IsListing(versions')
  BY <1>2, <1>3, <1>4 DEF IsListing
<1>6. UpToMarker'
  BY <1>1 DEF ListInv, UpToMarker
<1>7. ListedRight'
  BY <1>1 DEF ListedRight, L!ListedRight
<1> QED
  BY <1>1, <1>5, <1>6, <1>7 DEF ListInv

\* A step of the lister or of others.
LEMMA ListStep == ListInv /\ L!Next => ListInv'
<1> SUFFICES ASSUME ListInv, L!Next PROVE ListInv'
  OBVIOUS
<1>1. ASSUME L!ListBucket PROVE ListInv'
  <2>1. /\ lister = "start" /\ lister' = "asks"
        /\ versions' = [k \in Keys |-> IF keeps' THEN <<"put", "put">> ELSE <<"put">>]
        /\ always' = L!Present(versions') /\ ever' = always'
        /\ UNCHANGED <<nextKey, results>>
    BY <1>1 DEF L!ListBucket
  <2>2. nextKey = 0 /\ (\A k \in Keys : results[k] = 0) /\ results \in [Keys -> Nat]
    BY <2>1 DEF ListInv
  <2>3. IsListing(versions')
    <3>1. <<"put", "put">> \in Seq(Vers) /\ <<"put">> \in Seq(Vers)
      BY DEF Vers
    <3> QED
      BY <2>1, <3>1 DEF IsListing
  <2>4. \A k \in always' : k \in Nat /\ k >= 1
    BY <2>1, KeysCounted DEF L!Present
  <2>5. UpToMarker'
    BY <2>1, <2>2, <2>4 DEF UpToMarker
  <2>6. ListedRight'
    BY <2>1 DEF ListedRight, L!ListedRight
  <2> QED
    BY <2>1, <2>2, <2>3, <2>5, <2>6 DEF ListInv
<1>2. ASSUME NEW status, L!PageFails(status) PROVE ListInv'
  <2>1. /\ lister' \in {"notexist", "err"} /\ results' = [k \in Keys |-> 0] /\ UNCHANGED <<versions, nextKey>>
    BY <1>2 DEF L!PageFails
  <2>2. ListedRight'
    BY <2>1 DEF ListedRight, L!ListedRight
  <2> QED
    BY <2>1, <2>2 DEF ListInv
<1> QED
  BY <1>1, <1>2, PageStep, ChangeStep DEF L!Next, L!Asks, Vers

\* The listing is touched by nobody else.
LEMMA ListAlone == ListInv /\ [Next]_vars => ListInv'
<1> SUFFICES ASSUME ListInv, [Next]_vars PROVE ListInv'
  OBVIOUS
<1>1. CASE Listing(L!Next)
  BY <1>1, ListStep DEF Listing
<1>2. CASE UNCHANGED listVars
  BY <1>2 DEF listVars, ListInv, IsListing, UpToMarker, ListedRight, L!ListedRight, L!Listed, L!Present
<1>3. Listing(L!Next) \/ UNCHANGED listVars
  BY DEF Next, vars, Front, Register, Call, driverVars, Ram, Visiting, Meanwhile, Region, Writing, Http
<1> QED
  BY <1>1, <1>2, <1>3

\* A directory of a bucket that is listed page by page while others change it
\* has every file that was there all the time, none twice and none that was
\* never there, for every number of keys, versions and entries of a page
\* (Readdir over ListBucket).
THEOREM PagesListed == Init /\ [][Next]_vars => []ListedRight
<1>1. Init => ListInv
  BY ListInit DEF Init
<1>2. ListInv => ListedRight
  BY DEF ListInv
<1> QED
  BY <1>1, <1>2, ListAlone, PTL

----------------------------------------------------------------------------
(* The RAM driver.  The inodes are a tree: there is a map from paths to     *)
(* inodes that every entry of a directory continues (TreeAt).  Each call    *)
(* walks it name by name (Traversed, DescendStep), a commit attaches to it  *)
(* (Attached, Rewritten), a removal prunes it (Removed), and what Reach     *)
(* sees from the root is this map (Reached), so that the files and the      *)
(* directories change as those of an object store.                          *)

\* Induction over the numbers, for a set.
LEMMA Numbers ==
    ASSUME NEW Good, 0 \in Good, \A m \in Nat : m \in Good => m + 1 \in Good
    PROVE  Nat \subseteq Good
<1> SUFFICES ASSUME Nat \ Good # {} PROVE FALSE
  OBVIOUS
<1>1. PICK m \in Nat \ Good : \A b \in Nat \ Good : m <= b
  BY Least
<1>2. m # 0 /\ m - 1 \in Nat
  BY <1>1
<1>3. m - 1 \in Good
  BY <1>1, <1>2
<1> QED
  BY <1>1, <1>2, <1>3

\* The greatest of some numbers.
LEMMA Upper ==
    ASSUME NEW n \in Nat, NEW T \in SUBSET (1 .. n), T # {}
    PROVE  /\ R!Max(T) \in T /\ \A b \in T : b <= R!Max(T)
           /\ \A m \in T : (\A b \in T : b <= m) => R!Max(T) = m
<1>1. R!Max(T) = L!Max(T)
  BY DEF R!Max, L!Max
<1>2. L!Max(T) \in T /\ \A b \in T : b <= L!Max(T)
  BY Greatest
<1>3. R!Max(T) \in T /\ \A b \in T : b <= R!Max(T)
  BY <1>1, <1>2
<1>4. ASSUME NEW m \in T, \A b \in T : b <= m PROVE R!Max(T) = m
  <2>1. R!Max(T) <= m /\ m <= R!Max(T)
    BY <1>3, <1>4, Zenon
  <2>2. R!Max(T) \in Nat /\ m \in Nat
    <3>1. T \subseteq Nat
      OBVIOUS
    <3> QED
      BY <1>3, <3>1, Zenon
  <2> QED
    BY <2>1, <2>2
<1> QED
  BY <1>3, <1>4, Zenon

\* The states of a fold: each is the step of the one before.  The same for
\* every fold of the driver.
LEMMA FoldTraverse ==
    ASSUME NEW path, NEW n \in Nat, DOMAIN path = 1 .. n
    PROVE  \E w : /\ DOMAIN w = 0 .. n
                  /\ w[0] = [parent |-> 0, ino |-> R!rootIno, err |-> "none"]
                  /\ \A k \in 1 .. n : w[k] = R!Next1(w[k - 1], path[k])
                  /\ R!traverse(path) = w[n]
<1> DEFINE origin == [parent |-> 0, ino |-> R!rootIno, err |-> "none"]
           Iter(it, m) == it = [s \in SUBSET (1 .. m) |->
                             IF s = {} THEN origin ELSE R!Next1(it[s \ {R!Max(s)}], path[R!Max(s)])]
           Good == {m \in Nat : \E it : Iter(it, m)}
<1>1. 0 \in Good
  <2> DEFINE it == [s \in {{}} |-> origin]
  <2>1. SUBSET (1 .. 0) = {{}}
    OBVIOUS
  <2>2. Iter(it, 0)
    BY <2>1, Zenon
  <2> QED
    BY <2>2
<1>2. ASSUME NEW m \in Nat, m \in Good PROVE m + 1 \in Good
  <2>1. PICK f : Iter(f, m)
    BY <1>2
  <2> DEFINE it == [s \in SUBSET (1 .. m + 1) |->
                      IF m + 1 \in s THEN R!Next1(f[s \ {m + 1}], path[m + 1]) ELSE f[s]]
  <2>2. ASSUME NEW s \in SUBSET (1 .. m + 1)
        PROVE  it[s] = IF s = {} THEN origin ELSE R!Next1(it[s \ {R!Max(s)}], path[R!Max(s)])
    <3>1. CASE m + 1 \in s
      <4>1. R!Max(s) = m + 1 /\ s # {}
        BY <3>1, Upper
      <4>2. s \ {m + 1} \in SUBSET (1 .. m + 1) /\ m + 1 \notin s \ {m + 1}
        OBVIOUS
      <4>3. it[s \ {m + 1}] = f[s \ {m + 1}]
        BY <4>2, Zenon
      <4>4. it[s] = R!Next1(f[s \ {m + 1}], path[m + 1])
        BY <3>1, Zenon
      <4> QED
        BY <4>1, <4>3, <4>4, Zenon
    <3>2. CASE m + 1 \notin s
      <4>1. s \in SUBSET (1 .. m)
        BY <3>2
      <4>2. s \ {R!Max(s)} \in SUBSET (1 .. m + 1) /\ m + 1 \notin s \ {R!Max(s)}
        BY <3>2
      <4>3. it[s] = f[s] /\ it[s \ {R!Max(s)}] = f[s \ {R!Max(s)}]
        BY <3>2, <4>2, Zenon
      <4>4. f[s] = IF s = {} THEN origin ELSE R!Next1(f[s \ {R!Max(s)}], path[R!Max(s)])
        BY <2>1, <4>1, Zenon
      <4> QED
        BY <4>3, <4>4, Zenon
    <3> QED
      BY <3>1, <3>2
  <2>3. Iter(it, m + 1)
    <3> HIDE DEF origin
    <3> QED
      BY <2>2, Zenon
  <2> HIDE DEF Iter, it
  <2> QED
    BY <2>3
<1>3. PICK it : Iter(it, n) /\ R!traverse(path) = it[1 .. n]
  <2>1. \E it : Iter(it, n)
    <3> HIDE DEF Iter
    <3> QED
      BY <1>1, <1>2, Numbers
  <2> QED
    BY <2>1 DEF R!traverse, R!FoldLeft, R!MapThenFoldSet
<1> DEFINE w == [k \in 0 .. n |-> it[1 .. k]]
<1>4. w[0] = origin
  BY <1>3, 1 .. 0 = {}
<1>5. ASSUME NEW k \in 1 .. n PROVE w[k] = R!Next1(w[k - 1], path[k])
  <2>1. 1 .. k # {} /\ (1 .. k) \ {k} = 1 .. k - 1 /\ 1 .. k \in SUBSET (1 .. n) /\ k \in 1 .. k
        /\ \A b \in 1 .. k : b <= k
    OBVIOUS
  <2>3. R!Max(1 .. k) = k
    BY <2>1, Upper
  <2>2. it[1 .. k] = R!Next1(it[(1 .. k) \ {k}], path[k])
    BY <1>3, <2>1, <2>3, Zenon
  <2>4. w[k] = it[1 .. k] /\ w[k - 1] = it[1 .. k - 1]
    OBVIOUS
  <2> QED
    BY <2>1, <2>2, <2>4, Zenon
<1>6. DOMAIN w = 0 .. n /\ w[n] = it[1 .. n]
  OBVIOUS
<1> HIDE DEF w, Iter
<1> QED
  BY <1>3, <1>4, <1>5, <1>6, Zenon

\* The names in the paths of calls, and the paths that they make.
NameSet == UNION {{p[i] : i \in DOMAIN p} : p \in Paths \cup {Preload[i] : i \in DOMAIN Preload}}
Dots    == {".", ".."}
Place   == Seq(NameSet)
Pre(c, k) == SubSeq(c, 1, k)

\* One name more.
LEMMA Extended ==
    ASSUME NEW p \in Place, NEW n \in NameSet
    PROVE  /\ Append(p, n) \in Place /\ Len(Append(p, n)) = Len(p) + 1 /\ Append(p, n) # <<>>
           /\ Len(p) \in Nat
           /\ R!Front(Append(p, n)) = p /\ R!Last(Append(p, n)) = n
           /\ \A i \in 1 .. Len(p) : Append(p, n)[i] = p[i]
           /\ Append(p, n)[Len(p) + 1] = n
<1> DEFINE a == Append(p, n)
<1>1. /\ a \in Seq(NameSet) /\ Len(a) = Len(p) + 1 /\ Len(p) \in Nat
      /\ \A i \in 1 .. Len(p) : a[i] = p[i]
      /\ a[Len(p) + 1] = n
  BY DEF Place
<1>2. a # <<>>
  BY <1>1
<1>3. R!Front(a) = SubSeq(a, 1, Len(p))
  BY <1>1 DEF R!Front
<1>4. /\ SubSeq(a, 1, Len(p)) \in Seq(NameSet)
      /\ Len(SubSeq(a, 1, Len(p))) = Len(p)
      /\ \A i \in 1 .. Len(p) : SubSeq(a, 1, Len(p))[i] = a[i]
  <2> HIDE DEF a
  <2>0. \A i \in 1 .. Len(p) : a[i] \in NameSet
    BY <1>1 DEF Place
  <2> QED
    BY <2>0, <1>1, SubSeqProperties
<1>5. SubSeq(a, 1, Len(p)) = p
  <2> HIDE DEF a
  <2> QED
    BY <1>1, <1>4, SeqEqual DEF Place
<1>6. R!Last(a) = n
  BY <1>1 DEF R!Last
<1> QED
  BY <1>1, <1>2, <1>3, <1>5, <1>6 DEF Place

\* The beginnings of a path.
LEMMA Prefixes ==
    ASSUME NEW c \in Place, NEW k \in 0 .. Len(c)
    PROVE  /\ Len(c) \in Nat /\ Pre(c, k) \in Place /\ Len(Pre(c, k)) = k
           /\ \A i \in 1 .. k : Pre(c, k)[i] = c[i]
           /\ \A j \in 0 .. k : Pre(Pre(c, k), j) = Pre(c, j)
           /\ k = 0 => Pre(c, k) = <<>>
           /\ k = Len(c) => Pre(c, k) = c
           /\ k < Len(c) => c[k + 1] \in NameSet /\ Pre(c, k + 1) = Append(Pre(c, k), c[k + 1])
<1>1. ASSUME NEW d \in Place, NEW m \in 0 .. Len(d)
      PROVE  /\ Len(d) \in Nat /\ Pre(d, m) \in Place /\ Len(Pre(d, m)) = m
             /\ \A i \in 1 .. m : Pre(d, m)[i] = d[i]
             /\ \A i \in 1 .. Len(d) : d[i] \in NameSet
  <2>1. Len(d) \in Nat /\ \A i \in 1 .. Len(d) : d[i] \in NameSet
    BY DEF Place
  <2>2. \A i \in 1 .. m : d[i] \in NameSet
    BY <2>1
  <2>3. m \in Int /\ 1 \in Int
    BY <2>1
  <2>4. /\ SubSeq(d, 1, m) \in Seq(NameSet)
        /\ Len(SubSeq(d, 1, m)) = IF 1 <= m THEN m - 1 + 1 ELSE 0
        /\ \A i \in 1 .. m - 1 + 1 : SubSeq(d, 1, m)[i] = d[1 + i - 1]
    BY <2>2, <2>3, SubSeqProperties
  <2> QED
    BY <2>1, <2>4 DEF Pre, Place
<1>2. Len(c) \in Nat /\ Pre(c, k) \in Place /\ Len(Pre(c, k)) = k /\ \A i \in 1 .. k : Pre(c, k)[i] = c[i]
  BY <1>1
<1>3. ASSUME NEW j \in 0 .. k PROVE Pre(Pre(c, k), j) = Pre(c, j)
  <2>1. /\ Pre(Pre(c, k), j) \in Place /\ Len(Pre(Pre(c, k), j)) = j
        /\ \A i \in 1 .. j : Pre(Pre(c, k), j)[i] = Pre(c, k)[i]
    BY <1>1, <1>2
  <2>2. j \in 0 .. Len(c)
    BY <1>2
  <2>3. /\ Pre(c, j) \in Place /\ Len(Pre(c, j)) = j /\ \A i \in 1 .. j : Pre(c, j)[i] = c[i]
    BY <1>1, <2>2
  <2>4. \A i \in 1 .. j : Pre(c, j)[i] = Pre(Pre(c, k), j)[i]
    BY <1>2, <2>1, <2>3
  <2> QED
    BY <2>1, <2>3, <2>4, SeqEqual DEF Place
<1>4. k = 0 => Pre(c, k) = <<>>
  BY <1>2, EmptySeq DEF Place
<1>5. k = Len(c) => Pre(c, k) = c
  BY <1>2, SeqEqual DEF Place
<1>6. ASSUME k < Len(c) PROVE c[k + 1] \in NameSet /\ Pre(c, k + 1) = Append(Pre(c, k), c[k + 1])
  <2>0. k + 1 \in 0 .. Len(c) /\ k + 1 \in 1 .. Len(c)
    BY <1>2, <1>6
  <2>1. c[k + 1] \in NameSet
    BY <1>1, <2>0
  <2>2. /\ Pre(c, k + 1) \in Place /\ Len(Pre(c, k + 1)) = k + 1
        /\ \A i \in 1 .. k + 1 : Pre(c, k + 1)[i] = c[i]
    BY <1>1, <2>0
  <2> DEFINE a == Append(Pre(c, k), c[k + 1])
  <2>3. /\ a \in Place /\ Len(a) = k + 1 /\ a[k + 1] = c[k + 1]
        /\ \A i \in 1 .. k : a[i] = Pre(c, k)[i]
    BY <1>2, <2>1, Extended
  <2> HIDE DEF a
  <2>4. \A i \in 1 .. k + 1 : a[i] = Pre(c, k + 1)[i]
    BY <1>2, <2>2, <2>3
  <2>5. a = Pre(c, k + 1)
    BY <2>2, <2>3, <2>4, SeqEqual DEF Place
  <2> QED
    BY <2>1, <2>5 DEF a
<1> QED
  BY <1>2, <1>3, <1>4, <1>5, <1>6

\* A path is its directory and its name.
LEMMA Parted ==
    ASSUME NEW q \in Place, q # <<>>
    PROVE  /\ R!Front(q) \in Place /\ R!Last(q) \in NameSet /\ q = Append(R!Front(q), R!Last(q))
           /\ Len(q) \in Nat \ {0} /\ Len(R!Front(q)) = Len(q) - 1 /\ R!Front(q) = Pre(q, Len(q) - 1)
<1>1. Len(q) \in Nat \ {0}
  BY EmptySeq DEF Place
<1>2. R!Front(q) = Pre(q, Len(q) - 1) /\ R!Last(q) = q[Len(q) - 1 + 1]
  BY <1>1 DEF R!Front, R!Last, Pre
<1>3. Len(q) - 1 \in 0 .. Len(q) /\ Len(q) - 1 < Len(q)
  BY <1>1
<1> QED
  BY <1>1, <1>2, <1>3, Prefixes

\* What begins with c: c itself and what is below it.
LEMMA PrefixStep ==
    ASSUME NEW c \in Place, NEW q \in Place
    PROVE  /\ R!S!IsPrefix(c, q) <=> Len(c) <= Len(q) /\ Pre(q, Len(c)) = c
           /\ R!S!IsPrefix(c, c)
           /\ R!S!IsPrefix(c, <<>>) <=> c = <<>>
           /\ \A n \in NameSet : R!S!IsPrefix(c, Append(q, n)) <=> c = Append(q, n) \/ R!S!IsPrefix(c, q)
<1>1. ASSUME NEW d \in Place
      PROVE R!S!IsPrefix(c, d) <=> Len(c) <= Len(d) /\ Pre(d, Len(c)) = c
  <2>1. Pre(c, Len(c)) = c
    <3>1. Len(c) \in Nat
      BY DEF Place
    <3> QED
      BY <3>1, Prefixes
  <2> QED
    BY <2>1 DEF R!S!IsPrefix, Pre
<1>2. Len(c) \in Nat /\ Len(q) \in Nat /\ Pre(c, Len(c)) = c
  <2>1. Len(c) \in Nat /\ Len(q) \in Nat
    BY DEF Place
  <2> QED
    BY <2>1, Prefixes
<1>3. R!S!IsPrefix(c, <<>>) <=> c = <<>>
  <2>1. <<>> \in Place /\ Len(<<>>) = 0 /\ (c # <<>> => Len(c) # 0)
    BY EmptySeq DEF Place
  <2>2. Pre(<<>>, 0) = <<>>
    BY <2>1, Prefixes
  <2> QED
    BY <1>1, <1>2, <2>1, <2>2
<1>4. ASSUME NEW n \in NameSet
      PROVE  R!S!IsPrefix(c, Append(q, n)) <=> c = Append(q, n) \/ R!S!IsPrefix(c, q)
  <2> DEFINE a == Append(q, n)
  <2>1. a \in Place /\ Len(a) = Len(q) + 1 /\ R!Front(a) = q /\ a # <<>>
    BY Extended
  <2> HIDE DEF a
  <2>2. Pre(a, Len(q)) = q /\ Pre(a, Len(a)) = a
    <3>3. R!Front(a) = Pre(a, Len(a) - 1)
      BY <2>1, Parted
    <3>4. Pre(a, Len(a)) = a
      <4>1. Len(a) \in 0 .. Len(a)
        BY <1>2, <2>1
      <4> QED
        BY <2>1, <4>1, Prefixes
    <3>5. Len(a) - 1 = Len(q)
      BY <1>2, <2>1
    <3> QED
      BY <2>1, <3>3, <3>4, <3>5
  <2>3. ASSUME Len(c) <= Len(q) PROVE Pre(a, Len(c)) = Pre(q, Len(c))
    <3>1. Len(q) \in 0 .. Len(a) /\ Len(c) \in 0 .. Len(q)
      BY <1>2, <2>1, <2>3
    <3>2. Pre(Pre(a, Len(q)), Len(c)) = Pre(a, Len(c))
      BY <2>1, <3>1, Prefixes
    <3> QED
      BY <2>2, <3>2
  <2>4. R!S!IsPrefix(c, a) <=> Len(c) <= Len(a) /\ Pre(a, Len(c)) = c
    BY <1>1, <2>1
  <2>5. R!S!IsPrefix(c, q) <=> Len(c) <= Len(q) /\ Pre(q, Len(c)) = c
    BY <1>1
  <2>6. CASE Len(c) <= Len(q)
    <3>1. c # a
      BY <1>2, <2>1, <2>6
    <3> QED
      BY <1>2, <2>1, <2>3, <2>4, <2>5, <2>6, <3>1 DEF a
  <2>7. CASE Len(c) > Len(q)
    <3>1. R!S!IsPrefix(c, a) <=> c = a
      BY <1>2, <2>1, <2>2, <2>4, <2>7
    <3>2. ~R!S!IsPrefix(c, q)
      BY <1>2, <2>5, <2>7
    <3> QED
      BY <3>1, <3>2 DEF a
  <2> QED
    BY <1>2, <2>6, <2>7
<1> QED
  BY <1>1, <1>2, <1>3, <1>4

\* A path without its leading dot.
Off(p) == IF p[1] \in Dots THEN 1 ELSE 0
LEMMA Cleaned ==
    ASSUME NEW p \in Paths \cup {Preload[i] : i \in DOMAIN Preload}
    PROVE  /\ p \in Place /\ p # <<>> /\ Len(p) \in Nat \ {0} /\ DOMAIN p = 1 .. Len(p)
           /\ R!Clean(p) \in Place /\ Len(R!Clean(p)) \in Nat /\ Len(p) = Len(R!Clean(p)) + Off(p)
           /\ Len(R!Clean(p)) <= Depth
           /\ \A i \in 1 .. Len(R!Clean(p)) : /\ R!Clean(p)[i] = p[i + Off(p)]
                                              /\ R!Clean(p)[i] \in NameSet \ Dots
           /\ R!Clean(p) = <<>> <=> Len(p) = Off(p)
<1>1. /\ p \in Seq({p[i] : i \in DOMAIN p}) /\ p # <<>>
      /\ \A i \in 2 .. Len(p) : p[i] \notin {".", ".."}
      /\ IF p[1] = "." THEN Len(p) = 1 ELSE Len(p) <= IF p[1] = ".." THEN Depth + 1 ELSE Depth
      /\ Depth \in Nat
  BY RamAssumption
<1>2. {p[i] : i \in DOMAIN p} \subseteq NameSet
  BY DEF NameSet
<1>3. p \in Place
  BY <1>1, <1>2, SeqMonotonic DEF Place
<1>4. Len(p) \in Nat \ {0} /\ DOMAIN p = 1 .. Len(p) /\ \A i \in 1 .. Len(p) : p[i] \in NameSet
  BY <1>1, <1>3, EmptySeq, LenProperties, ElementOfSeq DEF Place
<1>5. Head(p) = p[1]
  BY <1>1
<1>6. CASE p[1] \in Dots
  <2>1. R!Clean(p) = Tail(p) /\ Off(p) = 1
    BY <1>1, <1>5, <1>6 DEF R!Clean, Dots, Off
  <2>2. /\ Tail(p) \in Place /\ Len(Tail(p)) = Len(p) - 1
        /\ \A i \in 1 .. Len(Tail(p)) : Tail(p)[i] = p[i + 1]
    BY <1>1, <1>3, HeadTailProperties DEF Place
  <2>3. Len(Tail(p)) <= Depth
    BY <1>1, <1>4, <1>6, <2>2 DEF Dots
  <2>4. \A i \in 1 .. Len(Tail(p)) : Tail(p)[i] \in NameSet \ Dots
    BY <1>1, <1>4, <2>2 DEF Dots
  <2>5. Tail(p) = <<>> <=> Len(p) = 1
    <3>1. Tail(p) = <<>> <=> Len(Tail(p)) = 0
      BY <2>2, EmptySeq DEF Place
    <3> QED
      BY <1>4, <2>2, <3>1
  <2> DEFINE c == R!Clean(p)
  <2>6. c = Tail(p) /\ Off(p) = 1
    BY <2>1
  <2> HIDE DEF c
  <2>7. c \in Place /\ Len(c) \in Nat /\ Len(p) = Len(c) + 1 /\ Len(c) <= Depth
    BY <1>4, <2>2, <2>3, <2>6
  <2>8. \A i \in 1 .. Len(c) : c[i] = p[i + 1] /\ c[i] \in NameSet \ Dots
    BY <2>2, <2>4, <2>6
  <2>9. c = <<>> <=> Len(p) = 1
    BY <2>5, <2>6
  <2> QED
    BY <1>1, <1>3, <1>4, <2>6, <2>7, <2>8, <2>9 DEF c
<1>7. CASE p[1] \notin Dots
  <2>1. R!Clean(p) = p /\ Off(p) = 0
    BY <1>1, <1>5, <1>7 DEF R!Clean, Dots, Off
  <2>2. Len(p) <= Depth
    BY <1>1, <1>7 DEF Dots
  <2>3. \A i \in 1 .. Len(p) : p[i] \in NameSet \ Dots
    BY <1>1, <1>4, <1>7 DEF Dots
  <2> QED
    BY <1>1, <1>3, <1>4, <2>1, <2>2, <2>3
<1> QED
  BY <1>6, <1>7

\* The tree of the inodes is, as the map at from the paths that lead somewhere
\* to inodes: every path below the root continues one to a directory, by an
\* entry; every entry continues a path; no inode is at two paths.
TreeAt(is, nx, at1) ==
    /\ nx \in Nat /\ \A i \in DOMAIN is : i \in Nat /\ i < nx
    /\ at1 \in [DOMAIN at1 -> DOMAIN is] /\ DOMAIN at1 \subseteq Place
    /\ <<>> \in DOMAIN at1 /\ at1[<<>>] = 1 /\ is[1].dir
    /\ \A p, q \in DOMAIN at1 : at1[p] = at1[q] => p = q
    /\ \A p \in DOMAIN at1 : Len(p) <= Depth /\ DOMAIN is[at1[p]] = {"dir", "entries", "file"}
    /\ \A p \in DOMAIN at1 : p # <<>> =>
          /\ R!Front(p) \in DOMAIN at1 /\ is[at1[R!Front(p)]].dir
          /\ R!Last(p) \in DOMAIN is[at1[R!Front(p)]].entries \ Dots
          /\ is[at1[R!Front(p)]].entries[R!Last(p)] = at1[p]
    /\ \A p \in DOMAIN at1 : is[at1[p]].dir =>
          /\ Dots \subseteq DOMAIN is[at1[p]].entries
          /\ is[at1[p]].entries["."] = at1[p]
          /\ is[at1[p]].entries[".."] = at1[IF p = <<>> THEN p ELSE R!Front(p)]
    /\ \A p \in DOMAIN at1 : ~is[at1[p]].dir => DOMAIN is[at1[p]].entries = {}
    /\ \A p \in DOMAIN at1 : \A n \in DOMAIN is[at1[p]].entries \ Dots :
          n \in NameSet /\ Append(p, n) \in DOMAIN at1

\* What is above a path of the tree is a directory of it.
LEMMA Ancestors ==
    ASSUME NEW is, NEW nx, NEW at1, TreeAt(is, nx, at1), NEW p \in DOMAIN at1, NEW k \in 0 .. Len(p)
    PROVE  /\ p \in Place /\ Len(p) \in Nat
           /\ Pre(p, k) \in DOMAIN at1
           /\ k < Len(p) => is[at1[Pre(p, k)]].dir
<1>1. p \in Place /\ Len(p) \in Nat
  BY DEF TreeAt, Place
<1> DEFINE D(m) == /\ Pre(p, Len(p) - m) \in DOMAIN at1
                   /\ m > 0 => is[at1[Pre(p, Len(p) - m)]].dir
           Good == {m \in Nat : m <= Len(p) => D(m)}
<1>2. 0 \in Good
  <2>1. Len(p) - 0 = Len(p) /\ Len(p) \in 0 .. Len(p)
    BY <1>1
  <2>2. Pre(p, Len(p)) = p
    BY <1>1, <2>1, Prefixes
  <2> QED
    BY <2>1, <2>2
<1>3. ASSUME NEW m \in Nat, m \in Good PROVE m + 1 \in Good
  <2> SUFFICES ASSUME m + 1 <= Len(p)
               PROVE  /\ Pre(p, Len(p) - (m + 1)) \in DOMAIN at1
                      /\ is[at1[Pre(p, Len(p) - (m + 1))]].dir
    OBVIOUS
  <2> DEFINE j == Len(p) - m
             q == Pre(p, j)
  <2>1. q \in DOMAIN at1
    <3>1. m <= Len(p) => Pre(p, Len(p) - m) \in DOMAIN at1
      BY <1>3
    <3> QED
      BY <1>1, <3>1
  <2>2. j \in 0 .. Len(p) /\ j # 0 /\ j - 1 \in 0 .. j /\ j - 1 = Len(p) - (m + 1)
    BY <1>1
  <2> HIDE DEF j
  <2>3. q \in Place /\ Len(q) = j /\ Pre(q, j - 1) = Pre(p, j - 1)
    BY <1>1, <2>2, Prefixes
  <2>4. q # <<>>
    BY <2>2, <2>3, EmptySeq
  <2>5. R!Front(q) = Pre(q, j - 1)
    BY <2>3, <2>4, Parted
  <2> HIDE DEF q
  <2>6. R!Front(q) \in DOMAIN at1 /\ is[at1[R!Front(q)]].dir
    BY <2>1, <2>4 DEF TreeAt
  <2> QED
    BY <2>2, <2>3, <2>5, <2>6
<1>4. Nat \subseteq Good
  <2> HIDE DEF Good
  <2> QED
    BY <1>2, <1>3, Numbers
<1>5. Len(p) - k \in Nat /\ Len(p) - k <= Len(p) /\ Len(p) - (Len(p) - k) = k
      /\ (k < Len(p) => Len(p) - k > 0)
  BY <1>1
<1> DEFINE d == Len(p) - k
<1>6. d <= Len(p) => D(d)
  <2> HIDE DEF d
  <2>1. d \in Good
    BY <1>4, <1>5 DEF d
  <2> QED
    BY <2>1
<1> QED
  BY <1>1, <1>5, <1>6

\* What is at a place, or why nothing is.
KindAt(is, at1, c) ==
    IF \E j \in 0 .. Len(c) - 1 : Pre(c, j) \in DOMAIN at1 /\ ~is[at1[Pre(c, j)]].dir THEN "ENOTDIR"
    ELSE IF c \notin DOMAIN at1 THEN "ENOENT"
    ELSE IF is[at1[c]].dir THEN "dir" ELSE "file"

\* The store sees what the tree has.
LEMMA Looks ==
    ASSUME NEW at1, files = R!Files(inodes, at1), dirs = R!DirPaths(inodes, at1), NEW c \in Place
    PROVE  R!S!Look(c) = KindAt(inodes, at1, c)
<1>1. R!S!Above(c) = {Pre(c, j) : j \in 0 .. Len(c) - 1}
  BY DEF R!S!Above, Pre
<1>2. DOMAIN files = {q \in DOMAIN at1 : ~inodes[at1[q]].dir}
  BY DEF R!Files
<1>3. dirs = {q \in DOMAIN at1 : inodes[at1[q]].dir}
  BY DEF R!DirPaths
<1>4. R!S!Above(c) \cap DOMAIN files # {}
        <=> \E j \in 0 .. Len(c) - 1 : Pre(c, j) \in DOMAIN at1 /\ ~inodes[at1[Pre(c, j)]].dir
  BY <1>1, <1>2, Zenon
<1> QED
  BY <1>2, <1>3, <1>4, Zenon DEF R!S!Look, KindAt

\* An entry of a directory of the tree is the next step of a path.
LEMMA Steps ==
    ASSUME NEW is, NEW nx, NEW at1, TreeAt(is, nx, at1), NEW p \in DOMAIN at1,
           NEW n \in NameSet \ Dots
    PROVE  /\ p \in Place
           /\ n \in DOMAIN is[at1[p]].entries <=> Append(p, n) \in DOMAIN at1
           /\ Append(p, n) \in DOMAIN at1 => is[at1[p]].dir /\ is[at1[p]].entries[n] = at1[Append(p, n)]
<1>1. p \in Place
  BY DEF TreeAt
<1>2. Append(p, n) # <<>> /\ R!Front(Append(p, n)) = p /\ R!Last(Append(p, n)) = n
  BY <1>1, Extended
<1>3. n \in DOMAIN is[at1[p]].entries => Append(p, n) \in DOMAIN at1
  BY DEF TreeAt
<1>4. ASSUME Append(p, n) \in DOMAIN at1
      PROVE  /\ n \in DOMAIN is[at1[p]].entries
             /\ is[at1[p]].dir /\ is[at1[p]].entries[n] = at1[Append(p, n)]
  <2> DEFINE a == Append(p, n)
  <2> HIDE DEF a
  <2>1. a \in DOMAIN at1 /\ a # <<>> /\ R!Front(a) = p /\ R!Last(a) = n
    BY <1>2, <1>4 DEF a
  <2>2. /\ is[at1[R!Front(a)]].dir
        /\ R!Last(a) \in DOMAIN is[at1[R!Front(a)]].entries
        /\ is[at1[R!Front(a)]].entries[R!Last(a)] = at1[a]
    BY <2>1 DEF TreeAt
  <2> QED
    BY <2>1, <2>2 DEF a
<1> QED
  BY <1>1, <1>3, <1>4

\* traverse finds what is at a path, or says why nothing is (ram.go).
LEMMA Traversed ==
    ASSUME NEW at1, TreeAt(inodes, nextIno, at1), NEW p \in Paths
    PROVE  LET f == R!traverse(p)
               c == R!Clean(p)
           IN /\ KindAt(inodes, at1, c) \in {"dir", "file"} =>
                    /\ c \in DOMAIN at1 /\ f.err = "none" /\ f.ino = at1[c]
                    /\ c # <<>> => f.parent = at1[R!Front(c)] /\ R!Last(p) = R!Last(c)
                    /\ c = <<>> => f.parent = 1
              /\ KindAt(inodes, at1, c) \notin {"dir", "file"} => f.err = KindAt(inodes, at1, c)
              /\ f.err = "none" <=> KindAt(inodes, at1, c) \in {"dir", "file"}
<1> DEFINE c == R!Clean(p)
           o == Off(p)
           origin == [parent |-> 0, ino |-> R!rootIno, err |-> "none"]
<1>1. /\ p \in Place /\ p # <<>> /\ Len(p) \in Nat \ {0} /\ DOMAIN p = 1 .. Len(p)
      /\ c \in Place /\ Len(c) \in Nat /\ Len(p) = Len(c) + o
      /\ \A i \in 1 .. Len(c) : c[i] = p[i + o] /\ c[i] \in NameSet \ Dots
      /\ c = <<>> <=> Len(p) = o
  BY Cleaned
<1>2. o \in {0, 1} /\ (o = 1 => p[1] \in Dots) /\ (o = 0 => p[1] \notin Dots)
  BY DEF Off
<1>3. PICK w : /\ DOMAIN w = 0 .. Len(p)
               /\ w[0] = origin
               /\ \A k \in 1 .. Len(p) : w[k] = R!Next1(w[k - 1], p[k])
               /\ R!traverse(p) = w[Len(p)]
  <2>1. Len(p) \in Nat /\ DOMAIN p = 1 .. Len(p)
    BY <1>1
  <2> QED
    BY <2>1, FoldTraverse
<1>4. /\ <<>> \in DOMAIN at1 /\ at1[<<>>] = 1 /\ inodes[1].dir /\ Dots \subseteq DOMAIN inodes[1].entries
      /\ inodes[1].entries["."] = 1 /\ inodes[1].entries[".."] = 1
  BY DEF TreeAt
<1> HIDE DEF c, o
<1> DEFINE Found(k) == /\ Pre(c, k) \in DOMAIN at1 /\ w[k + o].err = "none" /\ w[k + o].ino = at1[Pre(c, k)]
                       /\ k > 0 => w[k + o].parent = at1[Pre(c, k - 1)]
                       /\ k = 0 /\ o = 1 => w[k + o].parent = 1
                       /\ DOMAIN w[k + o] = {"parent", "ino", "err"}
           Blocked(k) == \E j \in 0 .. k - 1 : Pre(c, j) \in DOMAIN at1 /\ ~inodes[at1[Pre(c, j)]].dir
           Lost(k) == /\ Pre(c, k) \notin DOMAIN at1
                      /\ w[k + o].err = IF Blocked(k) THEN "ENOTDIR" ELSE "ENOENT"
           Good == {k \in Nat : k <= Len(c) => Found(k) \/ Lost(k)}
<1>5. 0 \in Good
  <2>0. Pre(c, 0) = <<>>
    BY <1>1, Prefixes
  <2>1. CASE o = 0
    <3>1. w[0].err = "none" /\ w[0].ino = 1 /\ DOMAIN w[0] = {"parent", "ino", "err"}
      BY <1>3 DEF R!rootIno
    <3>2. Found(0)
      BY <1>4, <2>0, <2>1, <3>1
    <3> QED
      BY <3>2
  <2>2. CASE o = 1
    <3>1. 1 \in 1 .. Len(p) /\ w[1] = R!Next1(w[0], p[1])
      BY <1>1, <1>3
    <3>2. w[0].err = "none" /\ w[0].ino = 1 /\ DOMAIN w[0] = {"parent", "ino", "err"}
          /\ w[0].parent = 0
      BY <1>3 DEF R!rootIno
    <3>3. p[1] \in Dots
      BY <1>2, <2>2
    <3>4. p[1] \in DOMAIN inodes[1].entries /\ inodes[1].entries[p[1]] = 1
      BY <1>4, <3>3 DEF Dots
    <3>5. w[1] = [w[0] EXCEPT !.parent = 1, !.ino = 1]
      BY <1>4, <3>1, <3>2, <3>4 DEF R!Next1
    <3>6. w[1].err = "none" /\ w[1].ino = 1 /\ w[1].parent = 1 /\ DOMAIN w[1] = {"parent", "ino", "err"}
      BY <3>2, <3>5
    <3>7. Found(0)
      BY <1>4, <2>0, <2>2, <3>6
    <3> QED
      BY <3>7
  <2> QED
    BY <1>2, <2>1, <2>2
<1>6. ASSUME NEW k \in Nat, k \in Good PROVE k + 1 \in Good
  <2> SUFFICES ASSUME k + 1 <= Len(c) PROVE Found(k + 1) \/ Lost(k + 1)
    OBVIOUS
  <2> DEFINE n == c[k + 1]
             q == Pre(c, k)
             s == w[k + o]
  <2>1. k \in 0 .. Len(c) /\ k + 1 \in 0 .. Len(c) /\ k < Len(c) /\ k + 1 \in 1 .. Len(c)
        /\ k + 1 + o \in 1 .. Len(p) /\ k + 1 + o - 1 = k + o /\ k + 1 - 1 = k
    BY <1>1, <1>2
  <2>2. q \in Place /\ Len(q) = k /\ Pre(c, k + 1) = Append(q, n) /\ n \in NameSet \ Dots
    BY <1>1, <2>1, Prefixes
  <2>3. w[k + 1 + o] = R!Next1(s, n)
    <3> DEFINE m == k + 1 + o
    <3>1. m \in 1 .. Len(p) /\ m - 1 = k + o /\ p[m] = n
      <4>1. c[k + 1] = p[k + 1 + o]
        BY <1>1, <2>1
      <4>2. m \in 1 .. Len(p) /\ m - 1 = k + o
        BY <1>1, <1>2, <2>1
      <4>3. p[m] = n
        BY <4>1, Zenon DEF n
      <4> QED
        BY <4>2, <4>3, Zenon
    <3> HIDE DEF m
    <3>2. w[m] = R!Next1(w[m - 1], p[m])
      BY <1>3, <3>1
    <3>3. w[m] = R!Next1(w[k + o], n)
      BY <3>1, <3>2, Zenon
    <3> QED
      BY <3>3, Zenon DEF m
  <2>4. \A j \in 0 .. k : Pre(q, j) = Pre(c, j)
    BY <1>1, <2>1, Prefixes
  <2>5. q \in DOMAIN at1 => \A j \in 0 .. k - 1 : inodes[at1[Pre(c, j)]].dir
    <3> SUFFICES ASSUME q \in DOMAIN at1, NEW j \in 0 .. k - 1 PROVE inodes[at1[Pre(c, j)]].dir
      OBVIOUS
    <3>1. j \in 0 .. Len(q) /\ j < Len(q) /\ j \in 0 .. k
      BY <2>2
    <3> HIDE DEF q
    <3>2. inodes[at1[Pre(q, j)]].dir
      BY <3>1, Ancestors
    <3> QED
      BY <2>4, <3>1, <3>2
  <2>6. Append(q, n) \in DOMAIN at1 => q \in DOMAIN at1
    <3> DEFINE a == Append(q, n)
    <3>1. a # <<>> /\ R!Front(a) = q
      BY <2>2, Extended
    <3> HIDE DEF a, q
    <3>2. a \in DOMAIN at1 => q \in DOMAIN at1
      BY <3>1 DEF TreeAt
    <3> QED
      BY <3>2 DEF a
  <2> HIDE DEF n, q, s
  <2>7. CASE Found(k) /\ inodes[at1[q]].dir /\ n \in DOMAIN inodes[at1[q]].entries
    <3>1. Append(q, n) \in DOMAIN at1 /\ inodes[at1[q]].entries[n] = at1[Append(q, n)]
      BY <2>2, <2>7, Steps DEF q
    <3>2. s.err = "none" /\ s.ino = at1[q] /\ DOMAIN s = {"parent", "ino", "err"}
      BY <2>7 DEF s, q
    <3>3. w[k + 1 + o] = [s EXCEPT !.parent = at1[q], !.ino = at1[Append(q, n)]]
      BY <2>3, <2>7, <3>1, <3>2 DEF R!Next1
    <3>4. /\ w[k + 1 + o].err = "none" /\ w[k + 1 + o].ino = at1[Append(q, n)]
          /\ w[k + 1 + o].parent = at1[q] /\ DOMAIN w[k + 1 + o] = {"parent", "ino", "err"}
      BY <3>2, <3>3
    <3>5. Found(k + 1)
      <4>1. Pre(c, k + 1) \in DOMAIN at1 /\ w[k + 1 + o].ino = at1[Pre(c, k + 1)]
        BY <2>2, <3>1, <3>4
      <4>2. w[k + 1 + o].parent = at1[Pre(c, k + 1 - 1)] /\ k + 1 # 0
        BY <2>1, <3>4 DEF q
      <4> QED
        BY <3>4, <4>1, <4>2
    <3> QED
      BY <3>5
  <2>8. CASE Found(k) /\ inodes[at1[q]].dir /\ n \notin DOMAIN inodes[at1[q]].entries
    <3>1. Append(q, n) \notin DOMAIN at1
      BY <2>2, <2>8, Steps DEF q
    <3>2. s.err = "none" /\ s.ino = at1[q] /\ DOMAIN s = {"parent", "ino", "err"}
      BY <2>8 DEF s, q
    <3>3. w[k + 1 + o] = [s EXCEPT !.err = "ENOENT"]
      BY <2>3, <2>8, <3>2 DEF R!Next1
    <3>4. w[k + 1 + o].err = "ENOENT"
      BY <3>2, <3>3
    <3>5. ~Blocked(k + 1)
      BY <2>1, <2>5, <2>8 DEF q
    <3>6. Lost(k + 1)
      BY <2>2, <3>1, <3>4, <3>5, Zenon
    <3> QED
      BY <3>6
  <2>9. CASE Found(k) /\ ~inodes[at1[q]].dir
    <3>1. Append(q, n) \notin DOMAIN at1
      BY <2>2, <2>9, Steps DEF q
    <3>2. s.err = "none" /\ s.ino = at1[q] /\ DOMAIN s = {"parent", "ino", "err"}
      BY <2>9 DEF s, q
    <3>3. w[k + 1 + o] = [s EXCEPT !.err = "ENOTDIR"]
      BY <2>3, <2>9, <3>2 DEF R!Next1
    <3>4. w[k + 1 + o].err = "ENOTDIR"
      BY <3>2, <3>3
    <3>5. Blocked(k + 1)
      <4>1. k \in 0 .. k + 1 - 1
        OBVIOUS
      <4> QED
        BY <4>1, <2>9 DEF q
    <3>6. Lost(k + 1)
      BY <2>2, <3>1, <3>4, <3>5, Zenon
    <3> QED
      BY <3>6
  <2>10. CASE Lost(k)
    <3>1. s.err # "none" /\ q \notin DOMAIN at1
      BY <2>10 DEF s, q
    <3>2. w[k + 1 + o] = s
      BY <2>3, <3>1 DEF R!Next1
    <3>3. Append(q, n) \notin DOMAIN at1
      BY <2>6, <3>1
    <3>4. Blocked(k + 1) <=> Blocked(k)
      <4>1. Blocked(k) => Blocked(k + 1)
        <5>1. \A j \in 0 .. k - 1 : j \in 0 .. k + 1 - 1
          OBVIOUS
        <5> QED
          BY <5>1
      <4>2. ASSUME Blocked(k + 1) PROVE Blocked(k)
        <5>1. PICK j \in 0 .. k + 1 - 1 : Pre(c, j) \in DOMAIN at1 /\ ~inodes[at1[Pre(c, j)]].dir
          BY <4>2
        <5>2. j # k
          BY <3>1, <5>1 DEF q
        <5>3. j \in 0 .. k - 1
          BY <5>2
        <5> QED
          BY <5>1, <5>3
      <4> QED
        BY <4>1, <4>2
    <3>5. Lost(k + 1)
      <4> HIDE DEF Blocked
      <4> QED
        BY <2>2, <2>10, <3>2, <3>3, <3>4 DEF s
    <3> QED
      BY <3>5
  <2>11. Found(k) \/ Lost(k)
    <3>1. k <= Len(c)
      BY <1>1, <2>1
    <3> HIDE DEF Found, Lost
    <3> QED
      BY <1>6, <3>1
  <2> QED
    <3> HIDE DEF Found, Lost
    <3> QED
      BY <2>7, <2>8, <2>9, <2>10, <2>11
<1>7. Found(Len(c)) \/ Lost(Len(c))
  <2> HIDE DEF Found, Lost
  <2>1. Nat \subseteq Good
    <3> HIDE DEF Good
    <3> QED
      BY <1>5, <1>6, Numbers
  <2> QED
    BY <1>1, <2>1
<1> DEFINE f == R!traverse(p)
<1>8. w[Len(c) + o] = f
  BY <1>1, <1>3
<1>9. Pre(c, Len(c)) = c
  <2>1. Len(c) \in 0 .. Len(c)
    BY <1>1
  <2> QED
    BY <1>1, <2>1, Prefixes
<1>10. CASE Found(Len(c))
  <2>1. c \in DOMAIN at1 /\ f.err = "none" /\ f.ino = at1[c]
    BY <1>8, <1>9, <1>10
  <2>2. KindAt(inodes, at1, c) \in {"dir", "file"}
    <3>1. \A j \in 0 .. Len(c) - 1 : inodes[at1[Pre(c, j)]].dir
      BY <1>1, <2>1, Ancestors
    <3> QED
      BY <2>1, <3>1 DEF KindAt
  <2>3. ASSUME c # <<>> PROVE f.parent = at1[R!Front(c)] /\ R!Last(p) = R!Last(c)
    <3>1. R!Front(c) = Pre(c, Len(c) - 1) /\ Len(c) # 0
      BY <1>1, <2>3, Parted
    <3>2. f.parent = at1[R!Front(c)]
      BY <1>1, <1>8, <1>10, <3>1
    <3>3. R!Last(p) = p[Len(p)] /\ R!Last(c) = c[Len(c)]
      BY DEF R!Last
    <3>4. c[Len(c)] = p[Len(c) + o]
      BY <1>1, <3>1
    <3> QED
      BY <1>1, <3>2, <3>3, <3>4
  <2>4. ASSUME c = <<>> PROVE f.parent = 1
    <3>1. Len(c) = 0 /\ o = 1
      BY <1>1, <1>2, <2>4, EmptySeq
    <3> QED
      BY <1>8, <1>10, <3>1
  <2> QED
    BY <2>1, <2>2, <2>3, <2>4 DEF c
<1>11. CASE Lost(Len(c))
  <2>1. c \notin DOMAIN at1
    BY <1>9, <1>11
  <2>2. KindAt(inodes, at1, c) = IF Blocked(Len(c)) THEN "ENOTDIR" ELSE "ENOENT"
    BY <2>1 DEF KindAt
  <2>3. f.err = IF Blocked(Len(c)) THEN "ENOTDIR" ELSE "ENOENT"
    BY <1>8, <1>11
  <2> HIDE DEF Blocked, f
  <2>4. KindAt(inodes, at1, c) \notin {"dir", "file"} /\ f.err = KindAt(inodes, at1, c) /\ f.err # "none"
    BY <2>2, <2>3
  <2> QED
    BY <2>4 DEF c, f
<1> QED
  <2> HIDE DEF Found, Lost
  <2> QED
    BY <1>7, <1>10, <1>11

\* The states of a descent.
Descent(w, from, path, n) ==
    /\ w[0] = from
    /\ \A k \in 1 .. n : w[k] = R!Descend(w[k - 1], path[k])
    /\ R!descend(from, path) = w[n]

LEMMA FoldDescend ==
    ASSUME NEW from, NEW path, NEW n \in Nat, DOMAIN path = 1 .. n
    PROVE  \E w : Descent(w, from, path, n)
<1> DEFINE origin == from
           Iter(it, m) == it = [t \in SUBSET (1 .. m) |->
                             IF t = {} THEN origin ELSE R!Descend(it[t \ {R!Max(t)}], path[R!Max(t)])]
           Good == {m \in Nat : \E it : Iter(it, m)}
<1>1. 0 \in Good
  <2> DEFINE it == [t \in {{}} |-> origin]
  <2>1. SUBSET (1 .. 0) = {{}}
    OBVIOUS
  <2>2. Iter(it, 0)
    BY <2>1, Zenon
  <2> QED
    BY <2>2
<1>2. ASSUME NEW m \in Nat, m \in Good PROVE m + 1 \in Good
  <2>1. PICK f : Iter(f, m)
    BY <1>2
  <2> DEFINE it == [t \in SUBSET (1 .. m + 1) |->
                      IF m + 1 \in t THEN R!Descend(f[t \ {m + 1}], path[m + 1]) ELSE f[t]]
  <2>2. ASSUME NEW t \in SUBSET (1 .. m + 1)
        PROVE  it[t] = IF t = {} THEN origin ELSE R!Descend(it[t \ {R!Max(t)}], path[R!Max(t)])
    <3>1. CASE m + 1 \in t
      <4>1. R!Max(t) = m + 1 /\ t # {}
        <5>1. t # {} /\ m + 1 \in Nat /\ \A b \in t : b <= m + 1
          BY <3>1
        <5> HIDE DEF it
        <5> QED
          BY <3>1, <5>1, Upper
      <4>2. t \ {m + 1} \in SUBSET (1 .. m + 1) /\ m + 1 \notin t \ {m + 1}
        OBVIOUS
      <4>3. it[t \ {m + 1}] = f[t \ {m + 1}]
        BY <4>2, Zenon
      <4>4. it[t] = R!Descend(f[t \ {m + 1}], path[m + 1])
        BY <3>1, Zenon
      <4> QED
        BY <4>1, <4>3, <4>4, Zenon
    <3>2. CASE m + 1 \notin t
      <4>1. t \in SUBSET (1 .. m)
        BY <3>2
      <4>2. t \ {R!Max(t)} \in SUBSET (1 .. m + 1) /\ m + 1 \notin t \ {R!Max(t)}
        BY <3>2
      <4>3. it[t] = f[t] /\ it[t \ {R!Max(t)}] = f[t \ {R!Max(t)}]
        BY <3>2, <4>2, Zenon
      <4>4. f[t] = IF t = {} THEN origin ELSE R!Descend(f[t \ {R!Max(t)}], path[R!Max(t)])
        BY <2>1, <4>1, Zenon
      <4> QED
        BY <4>3, <4>4, Zenon
    <3> QED
      BY <3>1, <3>2
  <2>3. Iter(it, m + 1)
    <3> HIDE DEF origin
    <3> QED
      BY <2>2, Zenon
  <2> HIDE DEF Iter, it
  <2> QED
    BY <2>3
<1>3. PICK it : Iter(it, n) /\ R!descend(from, path) = it[1 .. n]
  <2>1. \E it : Iter(it, n)
    <3> HIDE DEF Iter
    <3> QED
      BY <1>1, <1>2, Numbers
  <2> QED
    BY <2>1 DEF R!descend, R!FoldLeft, R!MapThenFoldSet
<1> DEFINE w == [k \in 0 .. n |-> it[1 .. k]]
<1>4. w[0] = origin
  <2>1. 1 .. 0 = {} /\ {} \in SUBSET (1 .. n) /\ 0 \in 0 .. n
    OBVIOUS
  <2>2. it[{}] = origin
    BY <1>3, <2>1, Zenon
  <2>3. w[0] = it[1 .. 0]
    BY <2>1, Zenon
  <2> QED
    BY <2>1, <2>2, <2>3, Zenon
<1>5. ASSUME NEW k \in 1 .. n PROVE w[k] = R!Descend(w[k - 1], path[k])
  <2>1. 1 .. k # {} /\ (1 .. k) \ {k} = 1 .. k - 1 /\ 1 .. k \in SUBSET (1 .. n) /\ k \in 1 .. k
        /\ \A b \in 1 .. k : b <= k
    OBVIOUS
  <2>3. R!Max(1 .. k) = k
    BY <2>1, Upper
  <2>2. it[1 .. k] = R!Descend(it[(1 .. k) \ {k}], path[k])
    BY <1>3, <2>1, <2>3, Zenon
  <2>4. w[k] = it[1 .. k] /\ w[k - 1] = it[1 .. k - 1]
    OBVIOUS
  <2> QED
    BY <2>1, <2>2, <2>4, Zenon
<1>6. DOMAIN w = 0 .. n /\ w[n] = it[1 .. n]
  OBVIOUS
<1> HIDE DEF w, Iter
<1> QED
  BY <1>3, <1>4, <1>5, <1>6, Zenon DEF Descent

LEMMA FoldReach ==
    ASSUME NEW is, 1 \in DOMAIN is, NEW n \in Nat, n = Depth
    PROVE  \E w : /\ DOMAIN w = 0 .. n
                  /\ w[0] = [q \in {<<>>} |-> 1]
                  /\ \A k \in 1 .. n : w[k] = R!Deeper(is, w[k - 1])
                  /\ R!Reach(is) = w[n]
<1> DEFINE origin == [q \in {<<>>} |-> 1]
           Iter(it, m) == it = [t \in SUBSET (1 .. m) |->
                             IF t = {} THEN origin ELSE R!Deeper(is, it[t \ {R!Max(t)}])]
           Good == {m \in Nat : \E it : Iter(it, m)}
<1>1. 0 \in Good
  <2> DEFINE it == [t \in {{}} |-> origin]
  <2>1. SUBSET (1 .. 0) = {{}}
    OBVIOUS
  <2>2. Iter(it, 0)
    BY <2>1, Zenon
  <2> QED
    BY <2>2
<1>2. ASSUME NEW m \in Nat, m \in Good PROVE m + 1 \in Good
  <2>1. PICK f : Iter(f, m)
    BY <1>2
  <2> DEFINE it == [t \in SUBSET (1 .. m + 1) |->
                      IF m + 1 \in t THEN R!Deeper(is, f[t \ {m + 1}]) ELSE f[t]]
  <2>2. ASSUME NEW t \in SUBSET (1 .. m + 1)
        PROVE  it[t] = IF t = {} THEN origin ELSE R!Deeper(is, it[t \ {R!Max(t)}])
    <3>1. CASE m + 1 \in t
      <4>1. R!Max(t) = m + 1 /\ t # {}
        <5>1. t # {} /\ m + 1 \in Nat /\ \A b \in t : b <= m + 1
          BY <3>1
        <5> HIDE DEF it
        <5> QED
          BY <3>1, <5>1, Upper
      <4>2. t \ {m + 1} \in SUBSET (1 .. m + 1) /\ m + 1 \notin t \ {m + 1}
        OBVIOUS
      <4>3. it[t \ {m + 1}] = f[t \ {m + 1}]
        BY <4>2, Zenon
      <4>4. it[t] = R!Deeper(is, f[t \ {m + 1}])
        BY <3>1, Zenon
      <4> QED
        BY <4>1, <4>3, <4>4, Zenon
    <3>2. CASE m + 1 \notin t
      <4>1. t \in SUBSET (1 .. m)
        BY <3>2
      <4>2. t \ {R!Max(t)} \in SUBSET (1 .. m + 1) /\ m + 1 \notin t \ {R!Max(t)}
        BY <3>2
      <4>3. it[t] = f[t] /\ it[t \ {R!Max(t)}] = f[t \ {R!Max(t)}]
        BY <3>2, <4>2, Zenon
      <4>4. f[t] = IF t = {} THEN origin ELSE R!Deeper(is, f[t \ {R!Max(t)}])
        BY <2>1, <4>1, Zenon
      <4> QED
        BY <4>3, <4>4, Zenon
    <3> QED
      BY <3>1, <3>2
  <2>3. Iter(it, m + 1)
    <3> HIDE DEF origin
    <3> QED
      BY <2>2, Zenon
  <2> HIDE DEF Iter, it
  <2> QED
    BY <2>3
<1>3. PICK it : Iter(it, n) /\ R!Reach(is) = it[1 .. n]
  <2>1. \E it : Iter(it, n)
    <3> HIDE DEF Iter
    <3> QED
      BY <1>1, <1>2, Numbers
  <2> QED
    BY <2>1 DEF R!Reach, R!FoldLeft, R!MapThenFoldSet, R!rootIno
<1> DEFINE w == [k \in 0 .. n |-> it[1 .. k]]
<1>4. w[0] = origin
  <2>1. 1 .. 0 = {} /\ {} \in SUBSET (1 .. n) /\ 0 \in 0 .. n
    OBVIOUS
  <2>2. it[{}] = origin
    BY <1>3, <2>1, Zenon
  <2>3. w[0] = it[1 .. 0]
    BY <2>1, Zenon
  <2> QED
    BY <2>1, <2>2, <2>3, Zenon
<1>5. ASSUME NEW k \in 1 .. n PROVE w[k] = R!Deeper(is, w[k - 1])
  <2>1. 1 .. k # {} /\ (1 .. k) \ {k} = 1 .. k - 1 /\ 1 .. k \in SUBSET (1 .. n) /\ k \in 1 .. k
        /\ \A b \in 1 .. k : b <= k
    OBVIOUS
  <2>3. R!Max(1 .. k) = k
    BY <2>1, Upper
  <2>2. it[1 .. k] = R!Deeper(is, it[(1 .. k) \ {k}])
    BY <1>3, <2>1, <2>3, Zenon
  <2>4. w[k] = it[1 .. k] /\ w[k - 1] = it[1 .. k - 1]
    OBVIOUS
  <2> QED
    BY <2>1, <2>2, <2>4, Zenon
<1>6. DOMAIN w = 0 .. n /\ w[n] = it[1 .. n]
  OBVIOUS
<1> HIDE DEF w, Iter
<1> QED
  BY <1>3, <1>4, <1>5, <1>6, Zenon

LEMMA FoldPreload ==
    ASSUME NEW n \in Nat, DOMAIN Preload = 1 .. n
    PROVE  \E w : /\ DOMAIN w = 0 .. n
                  /\ w[0] = R!NewDriver
                  /\ \A k \in 1 .. n : w[k] = R!commit(w[k - 1], Preload[k], <<"preload", 0>>)
                  /\ R!preloaded = w[n]
<1> DEFINE origin == R!NewDriver
           Iter(it, m) == it = [t \in SUBSET (1 .. m) |->
                             IF t = {} THEN origin ELSE R!commit(it[t \ {R!Max(t)}], Preload[R!Max(t)], <<"preload", 0>>)]
           Good == {m \in Nat : \E it : Iter(it, m)}
<1>1. 0 \in Good
  <2> DEFINE it == [t \in {{}} |-> origin]
  <2>1. SUBSET (1 .. 0) = {{}}
    OBVIOUS
  <2>2. Iter(it, 0)
    BY <2>1, Zenon
  <2> QED
    BY <2>2
<1>2. ASSUME NEW m \in Nat, m \in Good PROVE m + 1 \in Good
  <2>1. PICK f : Iter(f, m)
    BY <1>2
  <2> DEFINE it == [t \in SUBSET (1 .. m + 1) |->
                      IF m + 1 \in t THEN R!commit(f[t \ {m + 1}], Preload[m + 1], <<"preload", 0>>) ELSE f[t]]
  <2>2. ASSUME NEW t \in SUBSET (1 .. m + 1)
        PROVE  it[t] = IF t = {} THEN origin ELSE R!commit(it[t \ {R!Max(t)}], Preload[R!Max(t)], <<"preload", 0>>)
    <3>1. CASE m + 1 \in t
      <4>1. R!Max(t) = m + 1 /\ t # {}
        <5>1. t # {} /\ m + 1 \in Nat /\ \A b \in t : b <= m + 1
          BY <3>1
        <5> HIDE DEF it
        <5> QED
          BY <3>1, <5>1, Upper
      <4>2. t \ {m + 1} \in SUBSET (1 .. m + 1) /\ m + 1 \notin t \ {m + 1}
        OBVIOUS
      <4>3. it[t \ {m + 1}] = f[t \ {m + 1}]
        BY <4>2, Zenon
      <4>4. it[t] = R!commit(f[t \ {m + 1}], Preload[m + 1], <<"preload", 0>>)
        BY <3>1, Zenon
      <4> QED
        BY <4>1, <4>3, <4>4, Zenon
    <3>2. CASE m + 1 \notin t
      <4>1. t \in SUBSET (1 .. m)
        BY <3>2
      <4>2. t \ {R!Max(t)} \in SUBSET (1 .. m + 1) /\ m + 1 \notin t \ {R!Max(t)}
        BY <3>2
      <4>3. it[t] = f[t] /\ it[t \ {R!Max(t)}] = f[t \ {R!Max(t)}]
        BY <3>2, <4>2, Zenon
      <4>4. f[t] = IF t = {} THEN origin ELSE R!commit(f[t \ {R!Max(t)}], Preload[R!Max(t)], <<"preload", 0>>)
        BY <2>1, <4>1, Zenon
      <4> QED
        BY <4>3, <4>4, Zenon
    <3> QED
      BY <3>1, <3>2
  <2>3. Iter(it, m + 1)
    <3> HIDE DEF origin
    <3> QED
      BY <2>2, Zenon
  <2> HIDE DEF Iter, it
  <2> QED
    BY <2>3
<1>3. PICK it : Iter(it, n) /\ R!preloaded = it[1 .. n]
  <2>1. \E it : Iter(it, n)
    <3> HIDE DEF Iter
    <3> QED
      BY <1>1, <1>2, Numbers
  <2> QED
    BY <2>1 DEF R!preloaded, R!FoldLeft, R!MapThenFoldSet
<1> DEFINE w == [k \in 0 .. n |-> it[1 .. k]]
<1>4. w[0] = origin
  <2>1. 1 .. 0 = {} /\ {} \in SUBSET (1 .. n) /\ 0 \in 0 .. n
    OBVIOUS
  <2>2. it[{}] = origin
    BY <1>3, <2>1, Zenon
  <2>3. w[0] = it[1 .. 0]
    BY <2>1, Zenon
  <2> QED
    BY <2>1, <2>2, <2>3, Zenon
<1>5. ASSUME NEW k \in 1 .. n PROVE w[k] = R!commit(w[k - 1], Preload[k], <<"preload", 0>>)
  <2>1. 1 .. k # {} /\ (1 .. k) \ {k} = 1 .. k - 1 /\ 1 .. k \in SUBSET (1 .. n) /\ k \in 1 .. k
        /\ \A b \in 1 .. k : b <= k
    OBVIOUS
  <2>3. R!Max(1 .. k) = k
    BY <2>1, Upper
  <2>2. it[1 .. k] = R!commit(it[(1 .. k) \ {k}], Preload[k], <<"preload", 0>>)
    BY <1>3, <2>1, <2>3, Zenon
  <2>4. w[k] = it[1 .. k] /\ w[k - 1] = it[1 .. k - 1]
    OBVIOUS
  <2> QED
    BY <2>1, <2>2, <2>4, Zenon
<1>6. DOMAIN w = 0 .. n /\ w[n] = it[1 .. n]
  OBVIOUS
<1> HIDE DEF w, Iter
<1> QED
  BY <1>3, <1>4, <1>5, <1>6, Zenon

\* What is seen from the root is the tree (Reach).
LEMMA Reached ==
    ASSUME NEW is, NEW nx, NEW at1, TreeAt(is, nx, at1)
    PROVE  R!Reach(is) = at1 /\ R!rootIno \in DOMAIN is
<1>1. Depth \in Nat /\ 1 \in DOMAIN is /\ DOMAIN at1 \subseteq Place /\ <<>> \in DOMAIN at1 /\ at1[<<>>] = 1
  BY RamAssumption DEF TreeAt
<1>2. PICK w : /\ DOMAIN w = 0 .. Depth
               /\ w[0] = [q \in {<<>>} |-> 1]
               /\ \A k \in 1 .. Depth : w[k] = R!Deeper(is, w[k - 1])
               /\ R!Reach(is) = w[Depth]
  BY <1>1, FoldReach
<1> DEFINE D(k) == {r \in DOMAIN at1 : Len(r) <= k}
           part(k) == [q \in D(k) |-> at1[q]]
           Good == {k \in Nat : k <= Depth => w[k] = part(k)}
<1>3. \A r \in DOMAIN at1 : Len(r) \in Nat /\ (Len(r) = 0 <=> r = <<>>)
  BY <1>1, EmptySeq DEF Place
<1>4. 0 \in Good
  <2>1. D(0) = {<<>>}
    BY <1>1, <1>3
  <2>2. w[0] = part(0)
    BY <1>1, <1>2, <2>1
  <2> QED
    BY <2>2
<1>5. ASSUME NEW k \in Nat, k \in Good PROVE k + 1 \in Good
  <2> SUFFICES ASSUME k + 1 <= Depth PROVE w[k + 1] = part(k + 1)
    OBVIOUS
  <2> DEFINE s == part(k)
  <2>1. k + 1 \in 1 .. Depth /\ k + 1 - 1 = k /\ k <= Depth
    BY <1>1
  <2>2. w[k + 1] = R!Deeper(is, s)
    <3> DEFINE m == k + 1
    <3>1. m \in 1 .. Depth /\ m - 1 = k
      BY <2>1
    <3> HIDE DEF m
    <3>2. w[m] = R!Deeper(is, w[m - 1])
      BY <1>2, <3>1
    <3>3. w[k] = s
      BY <1>5, <2>1
    <3> QED
      BY <3>1, <3>2, <3>3, Zenon DEF m
  <2>3. DOMAIN s = D(k) /\ \A p \in D(k) : s[p] = at1[p]
    OBVIOUS
  <2>4. ASSUME NEW p \in D(k)
        PROVE  R!Below(is, s, p) = {Append(p, n) : n \in DOMAIN is[at1[p]].entries \ Dots}
    BY <2>3 DEF R!Below, Dots
  <2>5. ASSUME NEW p \in D(k), NEW n \in DOMAIN is[at1[p]].entries \ Dots
        PROVE  Append(p, n) \in D(k + 1)
    <3>1. n \in NameSet /\ Append(p, n) \in DOMAIN at1 /\ p \in Place
      BY <1>1 DEF TreeAt
    <3>2. Len(Append(p, n)) = Len(p) + 1
      BY <3>1, Extended
    <3> QED
      BY <1>3, <3>1, <3>2
  <2>6. ASSUME NEW q \in D(k + 1), q \notin D(k)
        PROVE  /\ R!Front(q) \in D(k)
               /\ R!Last(q) \in DOMAIN is[at1[R!Front(q)]].entries \ Dots
               /\ is[at1[R!Front(q)]].entries[R!Last(q)] = at1[q]
               /\ q = Append(R!Front(q), R!Last(q))
    <3>1. q # <<>> /\ q \in DOMAIN at1 /\ q \in Place
      BY <1>1, <1>3, <2>6
    <3>2. /\ R!Front(q) \in DOMAIN at1
          /\ R!Last(q) \in DOMAIN is[at1[R!Front(q)]].entries \ Dots
          /\ is[at1[R!Front(q)]].entries[R!Last(q)] = at1[q]
      BY <3>1 DEF TreeAt
    <3>3. q = Append(R!Front(q), R!Last(q)) /\ Len(R!Front(q)) = Len(q) - 1
      BY <3>1, Parted
    <3>4. Len(q) - 1 <= k
      BY <1>3, <3>1
    <3> QED
      BY <3>2, <3>3, <3>4
  <2>7. D(k) \subseteq D(k + 1)
    BY <1>3
  <2> HIDE DEF D
  <2>8. D(k) \cup UNION {R!Below(is, s, p) : p \in D(k)} = D(k + 1)
    <3>1. ASSUME NEW q \in UNION {R!Below(is, s, p) : p \in D(k)} PROVE q \in D(k + 1)
      <4>1. PICK p \in D(k) : q \in R!Below(is, s, p)
        BY <3>1
      <4>2. PICK n \in DOMAIN is[at1[p]].entries \ Dots : q = Append(p, n)
        BY <2>4, <4>1
      <4> QED
        BY <2>5, <4>2
    <3>2. ASSUME NEW q \in D(k + 1), q \notin D(k) PROVE q \in UNION {R!Below(is, s, p) : p \in D(k)}
      <4>1. q \in R!Below(is, s, R!Front(q))
        BY <2>4, <2>6, <3>2
      <4> QED
        BY <2>6, <3>2, <4>1
    <3> QED
      BY <2>7, <3>1, <3>2
  <2>9. R!Deeper(is, s) = [q \in D(k + 1) |->
                             IF q \in D(k) THEN s[q] ELSE is[s[R!Front(q)]].entries[R!Last(q)]]
    <3> HIDE DEF s
    <3> QED
      BY <2>3, <2>8 DEF R!Deeper
  <2>10. ASSUME NEW q \in D(k + 1)
         PROVE (IF q \in D(k) THEN s[q] ELSE is[s[R!Front(q)]].entries[R!Last(q)]) = at1[q]
    BY <2>3, <2>6, Zenon
  <2> HIDE DEF s
  <2> QED
    BY <2>2, <2>9, <2>10
<1>6. Nat \subseteq Good
  <2> HIDE DEF Good
  <2> QED
    BY <1>4, <1>5, Numbers
<1>7. w[Depth] = part(Depth)
  <2> HIDE DEF part
  <2> QED
    BY <1>1, <1>6
<1>8. D(Depth) = DOMAIN at1 /\ at1 = [q \in DOMAIN at1 |-> at1[q]]
  BY DEF TreeAt
<1> QED
  BY <1>1, <1>2, <1>7, <1>8 DEF R!rootIno

\* f, and what it is at one more place.
Grown(f, c, v) == [q \in DOMAIN f \cup {c} |-> IF q = c THEN v ELSE f[q]]

\* A tree with these files and directories.
IsTree(is, nx, at1, F, D) == TreeAt(is, nx, at1) /\ R!Files(is, at1) = F /\ R!DirPaths(is, at1) = D

\* A new inode becomes the next step of a path to a directory.
LEMMA Attached ==
    ASSUME NEW s, NEW at1, TreeAt(s.inodes, s.nextIno, at1), DOMAIN s = {"inodes", "nextIno", "err", "ino"},
           NEW p \in DOMAIN at1, s.ino = at1[p], s.inodes[s.ino].dir, Len(p) < Depth,
           NEW n \in NameSet \ Dots, Append(p, n) \notin DOMAIN at1,
           NEW data, NEW node \in {R!newDirInode(s.ino, s.nextIno), R!newFileInode(data)}
    PROVE  LET t == R!Link(s, n, node)
               a == Append(p, n)
               at2 == Grown(at1, a, s.nextIno)
           IN /\ node = R!newDirInode(s.ino, s.nextIno) =>
                    IsTree(t.inodes, t.nextIno, at2, R!Files(s.inodes, at1), R!DirPaths(s.inodes, at1) \cup {a})
              /\ node = R!newFileInode(data) =>
                    IsTree(t.inodes, t.nextIno, at2, Grown(R!Files(s.inodes, at1), a, data),
                           R!DirPaths(s.inodes, at1))
<1> DEFINE t == R!Link(s, n, node)
           a == Append(p, n)
           at2 == Grown(at1, a, s.nextIno)
           is1 == s.inodes
           is2 == t.inodes
           nx == s.nextIno
<1>1. /\ is2 = [i \in DOMAIN is1 \cup {nx} |->
                            IF i = nx THEN node
                            ELSE IF i # s.ino THEN is1[i]
                            ELSE [is1[i] EXCEPT !.entries =
                                    [m \in DOMAIN is1[i].entries \cup {n} |->
                                       IF m = n THEN nx ELSE is1[i].entries[m]]]]
      /\ t.nextIno = nx + 1 /\ t.err = s.err /\ t.ino = s.ino /\ DOMAIN t = DOMAIN s
  BY DEF R!Link
<1>2. /\ nx \in Nat /\ \A i \in DOMAIN is1 : i \in Nat /\ i < nx
      /\ nx \notin DOMAIN is1
      /\ \A q \in DOMAIN at1 : at1[q] \in DOMAIN is1 /\ at1[q] # nx /\ q \in Place /\ Len(q) <= Depth /\ q # a
      /\ \A q, r \in DOMAIN at1 : at1[q] = at1[r] => q = r
      /\ <<>> \in DOMAIN at1 /\ at1[<<>>] = 1 /\ is1[1].dir
      /\ \A q \in DOMAIN at1 : DOMAIN is1[at1[q]] = {"dir", "entries", "file"}
  <2> HIDE DEF is1, nx, a
  <2>0. TreeAt(is1, nx, at1)
    BY DEF is1, nx
  <2>1. nx \in Nat /\ \A i \in DOMAIN is1 : i \in Nat /\ i < nx
    BY <2>0 DEF TreeAt
  <2>2. nx \notin DOMAIN is1
    BY <2>1
  <2>3. \A q \in DOMAIN at1 : at1[q] \in DOMAIN is1 /\ q \in Place /\ Len(q) <= Depth
    BY <2>0 DEF TreeAt
  <2>4. \A q, r \in DOMAIN at1 : at1[q] = at1[r] => q = r
    BY <2>0 DEF TreeAt
  <2>5. <<>> \in DOMAIN at1 /\ at1[<<>>] = 1 /\ is1[1].dir
    BY <2>0 DEF TreeAt
  <2>6. \A q \in DOMAIN at1 : DOMAIN is1[at1[q]] = {"dir", "entries", "file"}
    BY <2>0, Zenon DEF TreeAt
  <2>7. \A q \in DOMAIN at1 : at1[q] # nx /\ q # a
    <3>1. a \notin DOMAIN at1
      BY DEF a
    <3> QED
      BY <2>2, <2>3, <3>1, Zenon
  <2> QED
    BY <2>1, <2>2, <2>3, <2>4, <2>5, <2>6, <2>7, Zenon
<1>3. a \in Place /\ Len(a) = Len(p) + 1 /\ a # <<>> /\ R!Front(a) = p /\ R!Last(a) = n /\ Len(p) \in Nat
  BY <1>2, Extended
<1>4. /\ DOMAIN at2 = DOMAIN at1 \cup {a} /\ at2[a] = nx
      /\ \A q \in DOMAIN at1 : at2[q] = at1[q]
  BY <1>2 DEF Grown
<1>5. /\ DOMAIN is2 = DOMAIN is1 \cup {nx} /\ is2[nx] = node
      /\ \A q \in DOMAIN at1 : /\ is2[at1[q]].dir = is1[at1[q]].dir
                               /\ is2[at1[q]].file = is1[at1[q]].file
                               /\ DOMAIN is2[at1[q]] = {"dir", "entries", "file"}
                               /\ q # p => is2[at1[q]].entries = is1[at1[q]].entries
      /\ is2[at1[p]].entries = [m \in DOMAIN is1[at1[p]].entries \cup {n} |->
                                   IF m = n THEN nx ELSE is1[at1[p]].entries[m]]
  <2>1. DOMAIN is2 = DOMAIN is1 \cup {nx} /\ is2[nx] = node
    BY <1>1
  <2>2. ASSUME NEW q \in DOMAIN at1, q # p PROVE is2[at1[q]] = is1[at1[q]]
    <3>1. at1[q] # s.ino /\ at1[q] \in DOMAIN is1 /\ at1[q] # nx
      BY <1>2, <2>2
    <3> HIDE DEF is2
    <3> QED
      BY <1>1, <3>1, Zenon
  <2>3. is2[at1[p]] = [is1[at1[p]] EXCEPT !.entries =
                           [m \in DOMAIN is1[at1[p]].entries \cup {n} |->
                                   IF m = n THEN nx ELSE is1[at1[p]].entries[m]]]
    <3>1. at1[p] = s.ino /\ at1[p] \in DOMAIN is1 /\ at1[p] # nx
      BY <1>2
    <3> HIDE DEF is2, is1
    <3> QED
      BY <1>1, <3>1
  <2> HIDE DEF is2, is1
  <2>4. /\ is2[at1[p]].dir = is1[at1[p]].dir /\ is2[at1[p]].file = is1[at1[p]].file
        /\ DOMAIN is2[at1[p]] = {"dir", "entries", "file"}
        /\ is2[at1[p]].entries = [m \in DOMAIN is1[at1[p]].entries \cup {n} |->
                                   IF m = n THEN nx ELSE is1[at1[p]].entries[m]]
    <3>1. DOMAIN is1[at1[p]] = {"dir", "entries", "file"}
      BY <1>2
    <3> QED
      BY <2>3, <3>1
  <2> QED
    BY <1>2, <2>1, <2>2, <2>4, Zenon
<1>6. n \notin DOMAIN is1[at1[p]].entries /\ is1[at1[p]].dir
  BY Steps
<1>7. /\ DOMAIN node = {"dir", "entries", "file"}
      /\ node.dir => /\ node = R!newDirInode(s.ino, s.nextIno)
                     /\ DOMAIN node.entries = Dots /\ node.entries["."] = nx /\ node.entries[".."] = at1[p]
      /\ ~node.dir => node = R!newFileInode(data) /\ DOMAIN node.entries = {} /\ node.file = data
      /\ node = R!newDirInode(s.ino, s.nextIno) <=> node.dir
      /\ node = R!newFileInode(data) <=> ~node.dir
  BY DEF R!newDirInode, R!newFileInode, Dots
<1>8. TreeAt(is2, nx + 1, at2)
  <2> DEFINE nx2 == nx + 1
  <2>1. nx2 \in Nat /\ \A i \in DOMAIN is2 : i \in Nat /\ i < nx2
    <3> HIDE DEF is2
    <3> QED
      BY <1>2, <1>5
  <2> HIDE DEF is1, is2, nx, nx2, a
  <2>2. at2 \in [DOMAIN at2 -> DOMAIN is2] /\ DOMAIN at2 \subseteq Place
    BY <1>2, <1>3, <1>4, <1>5 DEF Grown
  <2> HIDE DEF at2
  <2>3. <<>> \in DOMAIN at2 /\ at2[<<>>] = 1 /\ is2[1].dir
    <3>1. <<>> \in DOMAIN at2 /\ at2[<<>>] = 1
      BY <1>2, <1>4, Zenon
    <3>2. is2[at1[<<>>]].dir = is1[at1[<<>>]].dir
      BY <1>2, <1>5, Zenon
    <3> QED
      BY <1>2, <3>1, <3>2
  <2>4. ASSUME NEW q \in DOMAIN at2, NEW r \in DOMAIN at2, at2[q] = at2[r] PROVE q = r
    <3>1. q \in DOMAIN at1 \/ q = a
      BY <1>4
    <3>2. r \in DOMAIN at1 \/ r = a
      BY <1>4
    <3> QED
      BY <1>2, <1>4, <2>4, <3>1, <3>2
  <2>5. \A q \in DOMAIN at2 : Len(q) <= Depth /\ DOMAIN is2[at2[q]] = {"dir", "entries", "file"}
    <3>1. Len(a) <= Depth /\ DOMAIN is2[at2[a]] = {"dir", "entries", "file"}
      BY <1>3, <1>4, <1>5, <1>7, RamAssumption
    <3> QED
      BY <1>2, <1>4, <1>5, <3>1, Zenon
  <2>6. ASSUME NEW q \in DOMAIN at2, q # <<>>
        PROVE  /\ R!Front(q) \in DOMAIN at2 /\ is2[at2[R!Front(q)]].dir
               /\ R!Last(q) \in DOMAIN is2[at2[R!Front(q)]].entries \ Dots
               /\ is2[at2[R!Front(q)]].entries[R!Last(q)] = at2[q]
    <3>1. CASE q = a
      <4>1. is2[at2[p]].dir /\ p \in DOMAIN at2
        BY <1>4, <1>5, <1>6, Zenon
      <4>2. n \in DOMAIN is2[at2[p]].entries \ Dots /\ is2[at2[p]].entries[n] = nx
        BY <1>4, <1>5
      <4> QED
        BY <1>3, <1>4, <3>1, <4>1, <4>2, Zenon
    <3>2. CASE q \in DOMAIN at1
      <4> DEFINE f == R!Front(q)
                 l == R!Last(q)
      <4>1. f \in DOMAIN at1 /\ is1[at1[f]].dir /\ l \in DOMAIN is1[at1[f]].entries \ Dots
            /\ is1[at1[f]].entries[l] = at1[q]
        BY <2>6, <3>2 DEF TreeAt, is1
      <4> HIDE DEF f, l
      <4>2. f \in DOMAIN at2 /\ at2[f] = at1[f] /\ at2[q] = at1[q] /\ is2[at1[f]].dir
        BY <1>4, <1>5, <3>2, <4>1, Zenon
      <4>3. l \in DOMAIN is2[at1[f]].entries /\ is2[at1[f]].entries[l] = at1[q]
        <5>1. CASE f = p
          <6>1. l # n
            BY <1>6, <4>1, <5>1
          <6> QED
            BY <1>5, <4>1, <5>1, <6>1
        <5>2. CASE f # p
          BY <1>5, <4>1, <5>2, Zenon
        <5> QED
          BY <5>1, <5>2
      <4> QED
        BY <4>1, <4>2, <4>3 DEF f, l
    <3> QED
      BY <1>4, <3>1, <3>2
  <2>7. ASSUME NEW q \in DOMAIN at2, is2[at2[q]].dir
        PROVE  /\ Dots \subseteq DOMAIN is2[at2[q]].entries
               /\ is2[at2[q]].entries["."] = at2[q]
               /\ is2[at2[q]].entries[".."] = at2[IF q = <<>> THEN q ELSE R!Front(q)]
    <3>1. CASE q = a
      <4>1. is2[at2[q]] = node /\ at2[R!Front(q)] = at1[p] /\ q # <<>> /\ at2[q] = nx
        BY <1>3, <1>4, <1>5, <3>1, Zenon
      <4> QED
        BY <1>7, <2>7, <4>1 DEF Dots, nx
    <3>2. CASE q \in DOMAIN at1
      <4> DEFINE u == IF q = <<>> THEN q ELSE R!Front(q)
      <4>0. at2[q] = at1[q] /\ is2[at1[q]].dir
        BY <1>4, <2>7, <3>2
      <4>1. is1[at1[q]].dir
        BY <1>5, <3>2, <4>0
      <4>2. /\ Dots \subseteq DOMAIN is1[at1[q]].entries /\ is1[at1[q]].entries["."] = at1[q]
            /\ is1[at1[q]].entries[".."] = at1[u]
        BY <3>2, <4>1 DEF TreeAt, is1
      <4>3. u \in DOMAIN at1
        BY <3>2 DEF TreeAt
      <4> HIDE DEF u
      <4>4. at2[u] = at1[u] /\ at2[q] = at1[q]
        BY <1>4, <3>2, <4>3, Zenon
      <4>5. /\ Dots \subseteq DOMAIN is2[at1[q]].entries /\ is2[at1[q]].entries["."] = at1[q]
            /\ is2[at1[q]].entries[".."] = at1[u]
        <5>1. CASE q = p
          <6>1. n # "." /\ n # ".."
            BY DEF Dots
          <6> QED
            BY <1>5, <4>2, <5>1, <6>1 DEF Dots
        <5>2. CASE q # p
          BY <1>5, <3>2, <4>2, <5>2, Zenon
        <5> QED
          BY <5>1, <5>2
      <4> QED
        BY <4>4, <4>5 DEF u
    <3> QED
      BY <1>4, <3>1, <3>2
  <2>8. ASSUME NEW q \in DOMAIN at2, ~is2[at2[q]].dir PROVE DOMAIN is2[at2[q]].entries = {}
    <3>1. CASE q = a
      BY <1>4, <1>5, <1>7, <2>8, <3>1, Zenon
    <3>2. CASE q \in DOMAIN at1
      <4>1. ~is1[at1[q]].dir
        BY <1>4, <1>5, <2>8, <3>2, Zenon
      <4>2. DOMAIN is1[at1[q]].entries = {} /\ q # p
        BY <1>6, <3>2, <4>1 DEF TreeAt, is1
      <4> QED
        BY <1>4, <1>5, <3>2, <4>2, Zenon
    <3> QED
      BY <1>4, <3>1, <3>2
  <2>9. ASSUME NEW q \in DOMAIN at2, NEW m \in DOMAIN is2[at2[q]].entries \ Dots
        PROVE  m \in NameSet /\ Append(q, m) \in DOMAIN at2
    <3>1. CASE q = a
      <4>1. is2[at2[q]] = node
        BY <1>4, <1>5, <3>1, Zenon
      <4>2. DOMAIN node.entries \ Dots = {}
        BY <1>7
      <4> QED
        BY <2>9, <4>1, <4>2
    <3>2. CASE q \in DOMAIN at1
      <4>1. CASE q = p /\ m = n
        BY <1>4, <4>1 DEF a
      <4>2. CASE q # p \/ m # n
        <5>1. m \in DOMAIN is1[at1[q]].entries \ Dots
          <6>1. at2[q] = at1[q]
            BY <1>4, <3>2, Zenon
          <6>2. CASE q = p
            BY <1>5, <2>9, <4>2, <6>1, <6>2
          <6>3. CASE q # p
            BY <1>5, <2>9, <3>2, <6>1, <6>3, Zenon
          <6> QED
            BY <6>2, <6>3
        <5>2. m \in NameSet /\ Append(q, m) \in DOMAIN at1
          BY <3>2, <5>1 DEF TreeAt, is1
        <5> QED
          BY <1>4, <5>2, Zenon
      <4> QED
        BY <4>1, <4>2
    <3> QED
      BY <1>4, <3>1, <3>2
  <2>10. TreeAt(is2, nx2, at2)
    BY <2>1, <2>2, <2>3, <2>4, <2>5, <2>6, <2>7, <2>8, <2>9 DEF TreeAt
  <2> QED
    BY <2>10 DEF nx2
<1> HIDE DEF is1, is2, nx, a, t, at2
<1>9. node.dir => R!Files(is2, at2) = R!Files(is1, at1) /\ R!DirPaths(is2, at2) = R!DirPaths(is1, at1) \cup {a}
  <2> SUFFICES ASSUME node.dir
               PROVE  R!Files(is2, at2) = R!Files(is1, at1) /\ R!DirPaths(is2, at2) = R!DirPaths(is1, at1) \cup {a}
    OBVIOUS
  <2>0. is2[at2[a]].dir
    BY <1>4, <1>5
  <2>1. {q \in DOMAIN at2 : ~is2[at2[q]].dir} = {q \in DOMAIN at1 : ~is1[at1[q]].dir}
    BY <1>2, <1>4, <1>5, <2>0
  <2>2. \A q \in {r \in DOMAIN at1 : ~is1[at1[r]].dir} : is2[at2[q]].file = is1[at1[q]].file
    BY <1>4, <1>5
  <2>3. R!Files(is2, at2) = R!Files(is1, at1)
    BY <2>1, <2>2, Zenon DEF R!Files
  <2>4. {q \in DOMAIN at2 : is2[at2[q]].dir} = {q \in DOMAIN at1 : is1[at1[q]].dir} \cup {a}
    BY <1>2, <1>4, <1>5, <2>0
  <2> QED
    BY <2>3, <2>4 DEF R!DirPaths
<1>10. ~node.dir => /\ R!Files(is2, at2) = Grown(R!Files(is1, at1), a, data)
                    /\ R!DirPaths(is2, at2) = R!DirPaths(is1, at1)
  <2> SUFFICES ASSUME ~node.dir
               PROVE  /\ R!Files(is2, at2) = Grown(R!Files(is1, at1), a, data)
                      /\ R!DirPaths(is2, at2) = R!DirPaths(is1, at1)
    OBVIOUS
  <2> DEFINE K1 == {q \in DOMAIN at1 : ~is1[at1[q]].dir}
             K2 == {q \in DOMAIN at2 : ~is2[at2[q]].dir}
  <2>0. ~is2[at2[a]].dir /\ is2[at2[a]].file = data
    BY <1>4, <1>5, <1>7
  <2>1. K2 = K1 \cup {a} /\ a \notin K1
    BY <1>2, <1>4, <1>5, <2>0
  <2>2. \A q \in K1 : is2[at2[q]].file = is1[at1[q]].file
    BY <1>4, <1>5
  <2>3. R!Files(is1, at1) = [q \in K1 |-> is1[at1[q]].file] /\ R!Files(is2, at2) = [q \in K2 |-> is2[at2[q]].file]
    BY DEF R!Files
  <2> HIDE DEF K1, K2
  <2>4. R!Files(is2, at2) = Grown(R!Files(is1, at1), a, data)
    BY <2>0, <2>1, <2>2, <2>3 DEF Grown
  <2>5. {q \in DOMAIN at2 : is2[at2[q]].dir} = {q \in DOMAIN at1 : is1[at1[q]].dir}
    BY <1>2, <1>4, <1>5, <2>0
  <2> QED
    BY <2>4, <2>5 DEF R!DirPaths
<1>11. TreeAt(t.inodes, t.nextIno, at2)
  BY <1>1, <1>8 DEF is2, nx
<1> QED
  <2>1. node.dir => IsTree(t.inodes, t.nextIno, at2, R!Files(s.inodes, at1), R!DirPaths(s.inodes, at1) \cup {a})
    BY <1>9, <1>11, Zenon DEF IsTree, is1, is2
  <2>2. ~node.dir => IsTree(t.inodes, t.nextIno, at2, Grown(R!Files(s.inodes, at1), a, data),
                            R!DirPaths(s.inodes, at1))
    BY <1>10, <1>11, Zenon DEF IsTree, is1, is2
  <2> QED
    BY <1>7, <2>1, <2>2, Zenon DEF t, a, at2

\* A tree is its files and its directories.
LEMMA Sorted ==
    ASSUME NEW is, NEW nx, NEW at1, TreeAt(is, nx, at1)
    PROVE  /\ DOMAIN at1 = DOMAIN R!Files(is, at1) \cup R!DirPaths(is, at1)
           /\ DOMAIN R!Files(is, at1) \cap R!DirPaths(is, at1) = {}
           /\ \A q \in DOMAIN at1 : q \in R!DirPaths(is, at1) <=> is[at1[q]].dir
           /\ \A q \in DOMAIN R!Files(is, at1) : R!Files(is, at1)[q] = is[at1[q]].file
           /\ <<>> \in R!DirPaths(is, at1)
<1>1. DOMAIN R!Files(is, at1) = {q \in DOMAIN at1 : ~is[at1[q]].dir}
      /\ \A q \in DOMAIN R!Files(is, at1) : R!Files(is, at1)[q] = is[at1[q]].file
  BY DEF R!Files
<1>2. R!DirPaths(is, at1) = {q \in DOMAIN at1 : is[at1[q]].dir}
  BY DEF R!DirPaths
<1>3. <<>> \in DOMAIN at1 /\ is[at1[<<>>]].dir
  BY DEF TreeAt
<1> QED
  BY <1>1, <1>2, <1>3

\* New data in a file.
LEMMA Rewritten ==
    ASSUME NEW is, NEW nx, NEW at1, TreeAt(is, nx, at1), NEW c \in DOMAIN at1, ~is[at1[c]].dir, NEW data
    PROVE  LET is2 == [is EXCEPT ![at1[c]].file = data]
           IN IsTree(is2, nx, at1, Grown(R!Files(is, at1), c, data), R!DirPaths(is, at1))
<1> DEFINE is2 == [is EXCEPT ![at1[c]].file = data]
<1>1. /\ \A q \in DOMAIN at1 : at1[q] \in DOMAIN is /\ DOMAIN is[at1[q]] = {"dir", "entries", "file"}
      /\ \A q, r \in DOMAIN at1 : at1[q] = at1[r] => q = r
      /\ <<>> \in DOMAIN at1 /\ at1[<<>>] = 1
  BY DEF TreeAt
<1>2. DOMAIN is2 = DOMAIN is
  OBVIOUS
<1>3. ASSUME NEW q \in DOMAIN at1
      PROVE  /\ is2[at1[q]].dir = is[at1[q]].dir /\ is2[at1[q]].entries = is[at1[q]].entries
             /\ DOMAIN is2[at1[q]] = {"dir", "entries", "file"}
             /\ is2[at1[q]].file = IF q = c THEN data ELSE is[at1[q]].file
  <2>1. CASE q = c
    <3>1. is2[at1[q]] = [is[at1[q]] EXCEPT !.file = data]
      BY <1>1, <2>1
    <3> HIDE DEF is2
    <3> QED
      BY <1>1, <2>1, <3>1
  <2>2. CASE q # c
    <3>1. is2[at1[q]] = is[at1[q]]
      BY <1>1, <2>2
    <3> HIDE DEF is2
    <3> QED
      BY <1>1, <2>2, <3>1
  <2> QED
    BY <2>1, <2>2
<1> HIDE DEF is2
<1>4. TreeAt(is2, nx, at1)
  <2>1. nx \in Nat /\ \A i \in DOMAIN is2 : i \in Nat /\ i < nx
    BY <1>2 DEF TreeAt
  <2>2. at1 \in [DOMAIN at1 -> DOMAIN is2] /\ DOMAIN at1 \subseteq Place
    BY <1>2 DEF TreeAt
  <2>3. <<>> \in DOMAIN at1 /\ at1[<<>>] = 1 /\ is2[1].dir
    <3>1. is[1].dir
      BY DEF TreeAt
    <3> QED
      BY <1>1, <1>3, <3>1
  <2>4. \A q \in DOMAIN at1 : Len(q) <= Depth
    BY DEF TreeAt
  <2>5. ASSUME NEW q \in DOMAIN at1, q # <<>>
        PROVE  /\ R!Front(q) \in DOMAIN at1 /\ is2[at1[R!Front(q)]].dir
               /\ R!Last(q) \in DOMAIN is2[at1[R!Front(q)]].entries \ Dots
               /\ is2[at1[R!Front(q)]].entries[R!Last(q)] = at1[q]
    <3>1. /\ R!Front(q) \in DOMAIN at1 /\ is[at1[R!Front(q)]].dir
          /\ R!Last(q) \in DOMAIN is[at1[R!Front(q)]].entries \ Dots
          /\ is[at1[R!Front(q)]].entries[R!Last(q)] = at1[q]
      BY <2>5 DEF TreeAt
    <3> QED
      BY <1>3, <3>1
  <2>6. ASSUME NEW q \in DOMAIN at1, is2[at1[q]].dir
        PROVE  /\ Dots \subseteq DOMAIN is2[at1[q]].entries
               /\ is2[at1[q]].entries["."] = at1[q]
               /\ is2[at1[q]].entries[".."] = at1[IF q = <<>> THEN q ELSE R!Front(q)]
    <3>1. is[at1[q]].dir
      BY <1>3, <2>6
    <3>2. /\ Dots \subseteq DOMAIN is[at1[q]].entries
          /\ is[at1[q]].entries["."] = at1[q]
          /\ is[at1[q]].entries[".."] = at1[IF q = <<>> THEN q ELSE R!Front(q)]
      BY <3>1 DEF TreeAt
    <3> QED
      BY <1>3, <3>2
  <2>7. ASSUME NEW q \in DOMAIN at1, ~is2[at1[q]].dir PROVE DOMAIN is2[at1[q]].entries = {}
    <3>1. ~is[at1[q]].dir
      BY <1>3, <2>7
    <3>2. DOMAIN is[at1[q]].entries = {}
      BY <3>1 DEF TreeAt
    <3> QED
      BY <1>3, <3>2
  <2>8. ASSUME NEW q \in DOMAIN at1, NEW m \in DOMAIN is2[at1[q]].entries \ Dots
        PROVE  m \in NameSet /\ Append(q, m) \in DOMAIN at1
    <3>1. m \in DOMAIN is[at1[q]].entries \ Dots
      BY <1>3
    <3> QED
      BY <3>1 DEF TreeAt
  <2> QED
    BY <1>1, <1>3, <2>1, <2>2, <2>3, <2>4, <2>5, <2>6, <2>7, <2>8 DEF TreeAt
<1>5. /\ R!Files(is2, at1) = Grown(R!Files(is, at1), c, data)
      /\ R!DirPaths(is2, at1) = R!DirPaths(is, at1)
  <2> DEFINE K1 == {q \in DOMAIN at1 : ~is[at1[q]].dir}
             K2 == {q \in DOMAIN at1 : ~is2[at1[q]].dir}
  <2>1. K2 = K1 /\ c \in K1
    BY <1>3
  <2>2. \A q \in K1 : is2[at1[q]].file = IF q = c THEN data ELSE is[at1[q]].file
    BY <1>3
  <2>3. R!Files(is, at1) = [q \in K1 |-> is[at1[q]].file] /\ R!Files(is2, at1) = [q \in K2 |-> is2[at1[q]].file]
    BY DEF R!Files
  <2>4. {q \in DOMAIN at1 : is2[at1[q]].dir} = {q \in DOMAIN at1 : is[at1[q]].dir}
    BY <1>3
  <2> HIDE DEF K1, K2
  <2>5. R!Files(is2, at1) = Grown(R!Files(is, at1), c, data)
    BY <2>1, <2>2, <2>3 DEF Grown
  <2> QED
    BY <2>4, <2>5 DEF R!DirPaths
<1> QED
  BY <1>4, <1>5, Zenon DEF is2, IsTree

\* commit on its way down to c, from the tree at1: k names below the root, in a
\* directory that may be new, ...
Going(is, nx, at1, c, k, s) ==
    /\ DOMAIN s = {"inodes", "nextIno", "err", "ino"} /\ s.err = "none"
    /\ Pre(c, k) \in DOMAIN at1 => s.inodes = is /\ s.nextIno = nx
    /\ \E at2 : /\ TreeAt(s.inodes, s.nextIno, at2)
                /\ R!Files(s.inodes, at2) = R!Files(is, at1)
                /\ R!DirPaths(s.inodes, at2) = R!DirPaths(is, at1) \cup {Pre(c, j) : j \in 0 .. k}
                /\ s.ino = at2[Pre(c, k)]
\* ... or behind a file.
Stuck(is, nx, at1, c, k, s) ==
    /\ DOMAIN s = {"inodes", "nextIno", "err", "ino"}
    /\ s.inodes = is /\ s.nextIno = nx
    /\ \E j \in 0 .. k : Pre(c, j) \in DOMAIN R!Files(is, at1)
    /\ \/ s.err = "ENOTDIR"
       \/ s.err = "none" /\ ~s.inodes[s.ino].dir

\* One name further down.
LEMMA DescendStep ==
    ASSUME NEW is, NEW nx, NEW at1, TreeAt(is, nx, at1), NEW c \in Place, Len(c) <= Depth,
           \A i \in 1 .. Len(c) : c[i] \in NameSet \ Dots, NEW k \in 0 .. Len(c) - 1, NEW s
    PROVE  /\ Going(is, nx, at1, c, k, s) => \/ Going(is, nx, at1, c, k + 1, R!Descend(s, c[k + 1]))
                                             \/ Stuck(is, nx, at1, c, k + 1, R!Descend(s, c[k + 1]))
           /\ Stuck(is, nx, at1, c, k, s) => Stuck(is, nx, at1, c, k + 1, R!Descend(s, c[k + 1]))
<1> DEFINE n == c[k + 1]
           q == Pre(c, k)
           s2 == R!Descend(s, n)
<1>1. Len(c) \in Nat /\ k \in 0 .. Len(c) /\ k < Len(c) /\ k + 1 \in 1 .. Len(c) /\ k + 1 \in 0 .. Len(c) /\ Depth \in Nat
  <2>1. Len(c) \in Nat /\ Depth \in Nat
    BY RamAssumption DEF Place
  <2> QED
    BY <2>1
<1>2. n \in NameSet \ Dots /\ q \in Place /\ Len(q) = k /\ Pre(c, k + 1) = Append(q, n)
  BY <1>1, Prefixes
<1>3. Append(q, n) \in DOMAIN at1 => q \in DOMAIN at1
  <2> DEFINE a == Append(q, n)
  <2> HIDE DEF q, n
  <2>1. a # <<>> /\ R!Front(a) = q
    BY <1>2, Extended
  <2> HIDE DEF a
  <2>2. a \in DOMAIN at1 => R!Front(a) \in DOMAIN at1
    BY <2>1 DEF TreeAt
  <2> QED
    BY <2>1, <2>2 DEF a
<1>4. \A j \in 0 .. k : j \in 0 .. k + 1
  OBVIOUS
<1>5. {Pre(c, j) : j \in 0 .. k + 1} = {Pre(c, j) : j \in 0 .. k} \cup {Append(q, n)}
  <2>1. 0 .. k + 1 = (0 .. k) \cup {k + 1}
    OBVIOUS
  <2> HIDE DEF q, n
  <2> QED
    BY <1>2, <2>1
<1>6. q \in {Pre(c, j) : j \in 0 .. k}
  BY <1>1
<1> HIDE DEF n, q, s2
<1>7. ASSUME Stuck(is, nx, at1, c, k, s) PROVE Stuck(is, nx, at1, c, k + 1, s2)
  <2>1. s2 = [s EXCEPT !.err = "ENOTDIR"]
    BY <1>7 DEF s2, R!Descend, Stuck
  <2>2. s2.inodes = s.inodes /\ s2.nextIno = s.nextIno /\ s2.err = "ENOTDIR" /\ DOMAIN s2 = DOMAIN s
    BY <1>7, <2>1 DEF Stuck
  <2> QED
    BY <1>4, <1>7, <2>2, Zenon DEF Stuck
<1>8. ASSUME Going(is, nx, at1, c, k, s)
      PROVE  Going(is, nx, at1, c, k + 1, s2) \/ Stuck(is, nx, at1, c, k + 1, s2)
  <2> DEFINE F == R!Files(is, at1)
             D == R!DirPaths(is, at1)
             is2 == s.inodes
  <2>1. /\ DOMAIN s = {"inodes", "nextIno", "err", "ino"} /\ s.err = "none"
        /\ q \in DOMAIN at1 => is2 = is /\ s.nextIno = nx
    BY <1>8 DEF Going, q
  <2>2. PICK at2 : /\ TreeAt(is2, s.nextIno, at2)
                   /\ R!Files(is2, at2) = F
                   /\ R!DirPaths(is2, at2) = D \cup {Pre(c, j) : j \in 0 .. k}
                   /\ s.ino = at2[q]
    BY <1>8 DEF Going, q
  <2>7. /\ DOMAIN at2 = DOMAIN R!Files(is2, at2) \cup R!DirPaths(is2, at2)
        /\ DOMAIN R!Files(is2, at2) \cap R!DirPaths(is2, at2) = {}
        /\ \A r \in DOMAIN at2 : r \in R!DirPaths(is2, at2) <=> is2[at2[r]].dir
    BY <2>2, Sorted
  <2>8. DOMAIN at1 = DOMAIN F \cup D
    BY Sorted
  <2>3. q \in DOMAIN at2 /\ is2[at2[q]].dir
    BY <1>6, <2>2, <2>7
  <2>4. DOMAIN at1 \subseteq DOMAIN at2
    <3> HIDE DEF F, D, is2
    <3> QED
      BY <2>2, <2>7, <2>8
  <2>5. CASE n \in DOMAIN is2[at2[q]].entries
    <3>1. Append(q, n) \in DOMAIN at2 /\ is2[at2[q]].entries[n] = at2[Append(q, n)]
      BY <1>2, <2>2, <2>3, <2>5, Steps
    <3>2. s2 = [s EXCEPT !.ino = at2[Append(q, n)]]
      BY <2>1, <2>2, <2>3, <2>5, <3>1 DEF s2, R!Descend
    <3>3. s2.inodes = is2 /\ s2.nextIno = s.nextIno /\ s2.err = "none" /\ DOMAIN s2 = DOMAIN s
          /\ s2.ino = at2[Append(q, n)]
      BY <2>1, <3>2
    <3>4. CASE is2[at2[Append(q, n)]].dir
      <4>1. Append(q, n) \in R!DirPaths(is2, at2)
        BY <2>7, <3>1, <3>4
      <4>2. R!DirPaths(is2, at2) = D \cup {Pre(c, j) : j \in 0 .. k + 1}
        BY <1>5, <2>2, <4>1
      <4>3. Append(q, n) \in DOMAIN at1 => s2.inodes = is /\ s2.nextIno = nx
        BY <1>3, <2>1, <3>3
      <4>4. /\ TreeAt(s2.inodes, s2.nextIno, at2) /\ R!Files(s2.inodes, at2) = F
            /\ R!DirPaths(s2.inodes, at2) = D \cup {Pre(c, j) : j \in 0 .. k + 1}
            /\ s2.ino = at2[Pre(c, k + 1)]
        BY <1>2, <2>2, <3>3, <4>2
      <4>5. Going(is, nx, at1, c, k + 1, s2)
        <5> HIDE DEF is2
        <5> QED
          BY <1>2, <2>1, <3>3, <4>3, <4>4 DEF Going
      <4> QED
        BY <4>5
    <3>5. CASE ~is2[at2[Append(q, n)]].dir
      <4>1. Append(q, n) \in DOMAIN F
        <5> HIDE DEF F, is2
        <5> QED
          BY <2>2, <2>7, <3>1, <3>5
      <4>2. Append(q, n) \in DOMAIN at1
        <5> HIDE DEF F, D
        <5> QED
          BY <2>8, <4>1
      <4>3. s2.inodes = is /\ s2.nextIno = nx
        BY <1>3, <2>1, <3>3, <4>2
      <4>4. \E j \in 0 .. k + 1 : Pre(c, j) \in DOMAIN F
        <5>1. k + 1 \in 0 .. k + 1
          BY <1>1
        <5> QED
          BY <1>2, <4>1, <5>1
      <4>5. ~s2.inodes[s2.ino].dir
        BY <3>3, <3>5
      <4> QED
        BY <2>1, <3>3, <4>3, <4>4, <4>5 DEF Stuck
    <3> QED
      BY <3>4, <3>5
  <2>6. CASE n \notin DOMAIN is2[at2[q]].entries
    <3> DEFINE a == Append(q, n)
               node == R!newDirInode(s.ino, s.nextIno)
               t == R!Link(s, n, node)
               at3 == Grown(at2, a, s.nextIno)
    <3>1. a \notin DOMAIN at2
      BY <1>2, <2>2, <2>3, <2>6, Steps
    <3>2. Len(q) < Depth
      BY <1>1, <1>2
    <3>3. /\ TreeAt(t.inodes, t.nextIno, at3)
          /\ R!Files(t.inodes, at3) = R!Files(is2, at2)
          /\ R!DirPaths(t.inodes, at3) = R!DirPaths(is2, at2) \cup {a}
          /\ t.err = s.err /\ t.ino = s.ino /\ DOMAIN t = DOMAIN s
      <4> HIDE DEF node, t, at3, a
      <4>1. TreeAt(s.inodes, s.nextIno, at2) /\ s.inodes[s.ino].dir
        BY <2>2, <2>3
      <4>2. node \in {R!newDirInode(s.ino, s.nextIno), R!newFileInode({})}
        BY DEF node
      <4> QED
        <5>1. Append(q, n) \notin DOMAIN at2 /\ s.ino = at2[q] /\ q \in DOMAIN at2 /\ n \in NameSet \ Dots
          BY <1>2, <2>2, <2>3, <3>1 DEF a
        <5>2. node = R!newDirInode(s.ino, s.nextIno)
          BY DEF node
        <5>3. IsTree(t.inodes, t.nextIno, at3, R!Files(s.inodes, at2), R!DirPaths(s.inodes, at2) \cup {a})
          BY <2>1, <3>2, <4>1, <4>2, <5>1, <5>2, Attached, Zenon DEF t, at3, a
        <5>4. t.err = s.err /\ t.ino = s.ino /\ DOMAIN t = DOMAIN s
          BY <2>1 DEF t, R!Link
        <5> QED
          BY <5>3, <5>4, Zenon DEF IsTree
    <3>4. s2 = [t EXCEPT !.ino = s.nextIno]
      BY <2>1, <2>2, <2>3, <2>6 DEF s2, R!Descend
    <3> HIDE DEF t, node
    <3>5. s2.inodes = t.inodes /\ s2.nextIno = t.nextIno /\ s2.err = "none" /\ DOMAIN s2 = DOMAIN s
          /\ s2.ino = s.nextIno
      BY <2>1, <3>3, <3>4
    <3>6. R!DirPaths(t.inodes, at3) = D \cup {Pre(c, j) : j \in 0 .. k + 1}
      <4> HIDE DEF at3, D, is2
      <4> QED
        BY <1>5, <2>2, <3>3
    <3>7. a \notin DOMAIN at1 /\ at3[a] = s.nextIno
      BY <2>4, <3>1 DEF Grown
    <3> HIDE DEF at3, is2
    <3>8. /\ TreeAt(s2.inodes, s2.nextIno, at3) /\ R!Files(s2.inodes, at3) = F
          /\ R!DirPaths(s2.inodes, at3) = D \cup {Pre(c, j) : j \in 0 .. k + 1}
          /\ s2.ino = at3[Pre(c, k + 1)]
      BY <1>2, <2>2, <3>3, <3>5, <3>6, <3>7
    <3>9. Going(is, nx, at1, c, k + 1, s2)
      BY <1>2, <2>1, <3>5, <3>7, <3>8 DEF Going
    <3> QED
      BY <3>9
  <2> QED
    BY <2>5, <2>6
<1> QED
  BY <1>7, <1>8 DEF s2, n

\* What commit promises, of the tree at1 and the place c.
Outcome(is, nx, at1, c, data, r) ==
    IF KindAt(is, at1, c) \in {"file", "ENOENT"}
    THEN /\ r.err = "none"
         /\ \E at2 : IsTree(r.inodes, r.nextIno, at2, Grown(R!Files(is, at1), c, data),
                            R!DirPaths(is, at1) \cup R!S!Above(c))
    ELSE /\ r.inodes = is /\ r.nextIno = nx
         /\ r.err = IF KindAt(is, at1, c) = "dir" THEN "ErrExist" ELSE "ENOTDIR"

\* The same by files and directories.
LEMMA KindOf ==
    ASSUME NEW is, NEW nx, NEW at1, TreeAt(is, nx, at1), NEW c \in Place
    PROVE  KindAt(is, at1, c) = IF \E j \in 0 .. Len(c) - 1 : Pre(c, j) \in DOMAIN R!Files(is, at1) THEN "ENOTDIR"
                                ELSE IF c \in DOMAIN R!Files(is, at1) THEN "file"
                                ELSE IF c \in R!DirPaths(is, at1) THEN "dir" ELSE "ENOENT"
<1>1. DOMAIN R!Files(is, at1) = {q \in DOMAIN at1 : ~is[at1[q]].dir}
  BY DEF R!Files
<1>2. R!DirPaths(is, at1) = {q \in DOMAIN at1 : is[at1[q]].dir}
  BY DEF R!DirPaths
<1>3. \A j \in 0 .. Len(c) - 1 : Pre(c, j) \in DOMAIN at1 /\ ~is[at1[Pre(c, j)]].dir
                                   <=> Pre(c, j) \in DOMAIN R!Files(is, at1)
  BY <1>1, Zenon
<1>4. (\E j \in 0 .. Len(c) - 1 : Pre(c, j) \in DOMAIN at1 /\ ~is[at1[Pre(c, j)]].dir)
        <=> \E j \in 0 .. Len(c) - 1 : Pre(c, j) \in DOMAIN R!Files(is, at1)
  BY <1>3, Zenon
<1> QED
  BY <1>1, <1>2, <1>4, Zenon DEF KindAt

\* The file itself, at the end of the way.
LEMMA Stored ==
    ASSUME NEW is, NEW nx, NEW at1, TreeAt(is, nx, at1), NEW c \in Place, c # <<>>, Len(c) <= Depth,
           \A i \in 1 .. Len(c) : c[i] \in NameSet \ Dots, NEW s, NEW data,
           Going(is, nx, at1, c, Len(c) - 1, s) \/ Stuck(is, nx, at1, c, Len(c) - 1, s)
    PROVE  Outcome(is, nx, at1, c, data, R!Store(s, c[Len(c)], data))
<1> DEFINE k == Len(c) - 1
           n == c[Len(c)]
           q == Pre(c, k)
           r == R!Store(s, n, data)
           F == R!Files(is, at1)
           D == R!DirPaths(is, at1)
<1>1. Len(c) \in Nat \ {0} /\ Len(c) \in 1 .. Len(c) /\ k \in 0 .. Len(c) /\ k < Len(c) /\ k \in Nat /\ k + 1 = Len(c)
      /\ Depth \in Nat
  <2>1. Len(c) \in Nat \ {0} /\ Depth \in Nat
    BY Parted, RamAssumption
  <2> QED
    BY <2>1
<1>2. n \in NameSet \ Dots /\ q \in Place /\ Len(q) = k /\ c = Append(q, n) /\ \A j \in 0 .. k : Len(Pre(c, j)) = j
  <2>1. n \in NameSet \ Dots
    BY <1>1
  <2>2. q \in Place /\ Len(q) = k /\ Pre(c, k + 1) = Append(q, c[k + 1])
    BY <1>1, Prefixes
  <2>3. Pre(c, Len(c)) = c
    <3>1. Len(c) \in 0 .. Len(c)
      BY <1>1
    <3> QED
      BY <3>1, Prefixes
  <2>4. ASSUME NEW j \in 0 .. k PROVE Len(Pre(c, j)) = j
    <3>1. j \in 0 .. Len(c)
      BY <1>1
    <3> QED
      BY <3>1, Prefixes
  <2> QED
    BY <1>1, <2>1, <2>2, <2>3, <2>4
<1>3. R!S!Above(c) = {Pre(c, j) : j \in 0 .. k}
  BY DEF R!S!Above, Pre
<1>4. KindAt(is, at1, c) = IF \E j \in 0 .. k : Pre(c, j) \in DOMAIN F THEN "ENOTDIR"
                           ELSE IF c \in DOMAIN F THEN "file"
                           ELSE IF c \in D THEN "dir" ELSE "ENOENT"
  BY KindOf
<1>5. c \notin {Pre(c, j) : j \in 0 .. k}
  BY <1>1, <1>2
<1>6. DOMAIN at1 = DOMAIN F \cup D /\ DOMAIN F \cap D = {}
  BY Sorted
<1>7. c \in DOMAIN at1 => q \in DOMAIN at1
  <2>1. R!Front(c) = q
    BY Parted
  <2>2. c \in DOMAIN at1 => R!Front(c) \in DOMAIN at1
    BY DEF TreeAt
  <2> QED
    BY <2>1, <2>2
<1> HIDE DEF n, q, k, r, F, D
<1>8. CASE Stuck(is, nx, at1, c, k, s)
  <2>1. r = [s EXCEPT !.err = "ENOTDIR"]
    BY <1>8 DEF r, R!Store, Stuck
  <2>2. r.inodes = is /\ r.nextIno = nx /\ r.err = "ENOTDIR"
    BY <1>8, <2>1 DEF Stuck
  <2>3. KindAt(is, at1, c) = "ENOTDIR"
    BY <1>4, <1>8 DEF Stuck, F
  <2> QED
    BY <2>2, <2>3 DEF Outcome, r, n
<1>9. CASE Going(is, nx, at1, c, k, s)
  <2> DEFINE is2 == s.inodes
  <2>1. /\ DOMAIN s = {"inodes", "nextIno", "err", "ino"} /\ s.err = "none"
        /\ q \in DOMAIN at1 => is2 = is /\ s.nextIno = nx
    BY <1>9 DEF Going, q
  <2>2. PICK at2 : /\ TreeAt(is2, s.nextIno, at2)
                   /\ R!Files(is2, at2) = F
                   /\ R!DirPaths(is2, at2) = D \cup {Pre(c, j) : j \in 0 .. k}
                   /\ s.ino = at2[q]
    BY <1>9 DEF Going, q, F, D
  <2>3. /\ DOMAIN at2 = DOMAIN R!Files(is2, at2) \cup R!DirPaths(is2, at2)
        /\ DOMAIN R!Files(is2, at2) \cap R!DirPaths(is2, at2) = {}
        /\ \A a \in DOMAIN at2 : a \in R!DirPaths(is2, at2) <=> is2[at2[a]].dir
    BY <2>2, Sorted
  <2>4. q \in DOMAIN at2 /\ is2[at2[q]].dir
    <3>1. q \in {Pre(c, j) : j \in 0 .. k}
      BY <1>1 DEF q
    <3> QED
      BY <2>2, <2>3, <3>1
  <2>5. ~\E j \in 0 .. k : Pre(c, j) \in DOMAIN F
    <3> HIDE DEF is2
    <3> QED
      BY <2>2, <2>3
  <2>6. CASE n \notin DOMAIN is2[at2[q]].entries
    <3> DEFINE node == R!newFileInode(data)
               t == R!Link(s, n, node)
               at3 == Grown(at2, Append(q, n), s.nextIno)
    <3>1. Append(q, n) \notin DOMAIN at2
      BY <1>2, <2>2, <2>4, <2>6, Steps
    <3>2. Len(q) < Depth
      BY <1>1, <1>2
    <3>3. r = t
      BY <2>1, <2>2, <2>4, <2>6 DEF r, R!Store
    <3>4. IsTree(t.inodes, t.nextIno, at3, Grown(R!Files(s.inodes, at2), Append(q, n), data), R!DirPaths(s.inodes, at2))
      <4> HIDE DEF node, t, at3
      <4>1. TreeAt(s.inodes, s.nextIno, at2) /\ s.inodes[s.ino].dir
        BY <2>2, <2>4
      <4>2. node \in {R!newDirInode(s.ino, s.nextIno), R!newFileInode(data)}
        BY DEF node
      <4>3. Append(q, n) \notin DOMAIN at2 /\ s.ino = at2[q] /\ q \in DOMAIN at2 /\ n \in NameSet \ Dots
        BY <1>2, <2>2, <2>4, <3>1
      <4>4. node = R!newFileInode(data)
        BY DEF node
      <4> QED
        BY <2>1, <3>2, <4>1, <4>2, <4>3, <4>4, Attached, Zenon DEF t, at3
    <3>5. t.err = "none"
      BY <2>1 DEF R!Link
    <3>6. c \notin DOMAIN F /\ c \notin D
      <4> HIDE DEF is2
      <4> QED
        BY <1>2, <2>2, <2>3, <3>1
    <3>7. KindAt(is, at1, c) = "ENOENT"
      BY <1>4, <2>5, <3>6
    <3> HIDE DEF t, at3
    <3>8. IsTree(r.inodes, r.nextIno, at3, Grown(F, c, data), D \cup R!S!Above(c))
      BY <1>2, <1>3, <2>2, <3>3, <3>4, Zenon
    <3> QED
      BY <3>3, <3>5, <3>7, <3>8, Zenon DEF Outcome, F, D, r, n
  <2>7. CASE n \in DOMAIN is2[at2[q]].entries
    <3>1. c \in DOMAIN at2 /\ is2[at2[q]].entries[n] = at2[c]
      BY <1>2, <2>2, <2>4, <2>7, Steps
    <3>2. CASE is2[at2[c]].dir
      <4>1. r = [s EXCEPT !.err = "ErrExist"]
        BY <2>1, <2>2, <2>4, <2>7, <3>1, <3>2 DEF r, R!Store
      <4>2. r.inodes = is2 /\ r.nextIno = s.nextIno /\ r.err = "ErrExist"
        BY <2>1, <4>1
      <4>3. c \in D
        <5>1. c \in R!DirPaths(is2, at2)
          BY <2>3, <3>1, <3>2
        <5> QED
          BY <1>5, <2>2, <5>1
      <4>4. q \in DOMAIN at1
        BY <1>6, <1>7, <4>3
      <4>5. KindAt(is, at1, c) = "dir"
        BY <1>4, <1>6, <2>5, <4>3
      <4> QED
        BY <2>1, <4>2, <4>4, <4>5 DEF Outcome, r, n
    <3>3. CASE ~is2[at2[c]].dir
      <4> DEFINE is3 == [s.inodes EXCEPT ![at2[c]].file = data]
      <4>1. r = [s EXCEPT !.inodes[at2[c]].file = data]
        BY <2>1, <2>2, <2>4, <2>7, <3>1, <3>3 DEF r, R!Store
      <4>2. r.inodes = is3 /\ r.nextIno = s.nextIno /\ r.err = "none"
        BY <2>1, <4>1
      <4>3. c \in DOMAIN F
        <5>1. c \in DOMAIN R!Files(is2, at2)
          BY <2>3, <3>1, <3>3
        <5> QED
          BY <2>2, <5>1
      <4>4. KindAt(is, at1, c) = "file"
        BY <1>4, <2>5, <4>3
      <4>5. IsTree(is3, s.nextIno, at2, Grown(R!Files(s.inodes, at2), c, data), R!DirPaths(s.inodes, at2))
        BY <2>2, <3>1, <3>3, Rewritten, Zenon
      <4> HIDE DEF is3
      <4>6. IsTree(r.inodes, r.nextIno, at2, Grown(F, c, data), D \cup R!S!Above(c))
        BY <1>3, <2>2, <4>2, <4>5, Zenon
      <4> QED
        BY <4>2, <4>4, <4>6, Zenon DEF Outcome, F, D, r, n
    <3> QED
      BY <3>2, <3>3
  <2> QED
    BY <2>6, <2>7
<1> QED
  BY <1>8, <1>9 DEF k, r, n

\* commit, from the root to the file.
LEMMA Committed ==
    ASSUME NEW d, NEW at1, TreeAt(d.inodes, d.nextIno, at1),
           NEW p \in Paths \cup {Preload[i] : i \in DOMAIN Preload}, NEW data
    PROVE  Outcome(d.inodes, d.nextIno, at1, R!Clean(p), data, R!commit(d, p, data))
<1> DEFINE is == d.inodes
           nx == d.nextIno
           c == R!Clean(p)
           o == Off(p)
           m == Len(p) - 1
           from == [inodes |-> d.inodes, nextIno |-> d.nextIno, err |-> "none", ino |-> 1]
<1>1. /\ p \in Place /\ p # <<>> /\ Len(p) \in Nat \ {0} /\ DOMAIN p = 1 .. Len(p)
      /\ c \in Place /\ Len(c) \in Nat /\ Len(p) = Len(c) + o /\ Len(c) <= Depth
      /\ \A i \in 1 .. Len(c) : c[i] = p[i + o] /\ c[i] \in NameSet \ Dots
      /\ c = <<>> <=> Len(p) = o
  BY Cleaned
<1>2. o \in {0, 1} /\ (o = 1 => p[1] \in Dots) /\ m \in Nat /\ m \in 0 .. Len(p)
  <2>1. o \in {0, 1} /\ (o = 1 => p[1] \in Dots)
    BY DEF Off
  <2> QED
    BY <1>1, <2>1
<1>3. DOMAIN R!Front(p) = 1 .. m /\ \A i \in 1 .. m : R!Front(p)[i] = p[i]
  <2>1. R!Front(p) = Pre(p, m)
    BY <1>1, Parted
  <2>2. Pre(p, m) \in Place /\ Len(Pre(p, m)) = m /\ \A i \in 1 .. m : Pre(p, m)[i] = p[i]
    BY <1>1, <1>2, Prefixes
  <2> HIDE DEF m
  <2> QED
    BY <2>1, <2>2, LenProperties DEF Place
<1>4. PICK w : /\ w[0] = from
               /\ \A k \in 1 .. m : w[k] = R!Descend(w[k - 1], p[k])
               /\ R!commit(d, p, data) = R!Store(w[m], p[Len(p)], data)
  <2>1. PICK w : /\ w[0] = from
                 /\ \A k \in 1 .. m : w[k] = R!Descend(w[k - 1], R!Front(p)[k])
                 /\ R!descend(from, R!Front(p)) = w[m]
    <3> HIDE DEF m, from
    <3> DEFINE f == R!Front(p)
    <3>1. m \in Nat /\ DOMAIN f = 1 .. m
      BY <1>2, <1>3
    <3> HIDE DEF f
    <3>2. \E w : Descent(w, from, f, m)
      BY <3>1, FoldDescend
    <3> QED
      BY <3>2, Zenon DEF f, Descent
  <2>2. R!commit(d, p, data) = R!Store(w[m], p[Len(p)], data)
    <3>1. R!commit(d, p, data) = R!Store(R!descend(from, R!Front(p)), R!Last(p), data)
      BY DEF R!commit, R!rootIno
    <3>2. R!Last(p) = p[Len(p)]
      BY DEF R!Last
    <3> QED
      BY <2>1, <3>1, <3>2, Zenon
  <2>3. \A k \in 1 .. m : w[k] = R!Descend(w[k - 1], p[k])
    BY <1>3, <2>1, Zenon
  <2> QED
    BY <2>1, <2>2, <2>3, Zenon
<1>5. /\ <<>> \in DOMAIN at1 /\ at1[<<>>] = 1 /\ is[1].dir /\ Dots \subseteq DOMAIN is[1].entries
      /\ is[1].entries["."] = 1 /\ is[1].entries[".."] = 1
  BY DEF TreeAt
<1>6. DOMAIN from = {"inodes", "nextIno", "err", "ino"} /\ from.err = "none" /\ from.inodes = is
      /\ from.nextIno = nx /\ from.ino = 1
  OBVIOUS
<1> HIDE DEF c, o, m, is, nx, from
<1>7. CASE c = <<>>
  <2>1. o = 1 /\ Len(p) = 1 /\ m = 0 /\ p[1] \in Dots
    BY <1>1, <1>2, <1>7 DEF m
  <2> DEFINE n == p[1]
             r == R!Store(from, n, data)
  <2>2. R!commit(d, p, data) = r
    BY <1>4, <2>1
  <2>3. n \in DOMAIN is[1].entries /\ is[1].entries[n] = 1
    BY <1>5, <2>1 DEF Dots
  <2> HIDE DEF n
  <2>4. r = [from EXCEPT !.err = "ErrExist"]
    BY <1>5, <1>6, <2>3 DEF R!Store
  <2>5. r.inodes = is /\ r.nextIno = nx /\ r.err = "ErrExist"
    BY <1>6, <2>4
  <2>6. KindAt(is, at1, c) = "dir"
    <3>1. 0 .. Len(c) - 1 = {}
      BY <1>7
    <3> QED
      BY <1>5, <1>7, <3>1 DEF KindAt
  <2> HIDE DEF r
  <2> QED
    BY <2>2, <2>5, <2>6 DEF Outcome, is, nx, c
<1>8. CASE c # <<>>
  <2> DEFINE at2(k) == w[k + o]
             Good == {k \in Nat : k <= Len(c) - 1 => Going(is, nx, at1, c, k, at2(k)) \/ Stuck(is, nx, at1, c, k, at2(k))}
  <2>1. Len(c) # 0 /\ m = Len(c) - 1 + o /\ Len(c) - 1 \in Nat
    <3>1. Len(c) # 0
      BY <1>8, EmptySeq, <1>1
    <3> QED
      BY <1>1, <1>2, <3>1 DEF m
  <2>2. 0 \in Good
    <3> DEFINE s == w[o]
    <3>1. DOMAIN s = {"inodes", "nextIno", "err", "ino"} /\ s.err = "none" /\ s.inodes = is /\ s.nextIno = nx /\ s.ino = 1
      <4>1. CASE o = 0
        BY <1>4, <1>6, <4>1
      <4>2. CASE o = 1
        <5>1. 1 \in 1 .. m
          BY <1>2, <2>1, <4>2
        <5>2. w[1] = R!Descend(from, p[1])
          BY <1>4, <5>1
        <5>3. p[1] \in DOMAIN is[1].entries /\ is[1].entries[p[1]] = 1
          BY <1>2, <1>5, <4>2 DEF Dots
        <5>4. R!Descend(from, p[1]) = [from EXCEPT !.ino = 1]
          BY <1>5, <1>6, <5>3 DEF R!Descend
        <5> QED
          BY <1>6, <4>2, <5>2, <5>4
      <4> QED
        BY <1>2, <4>1, <4>2
    <3>2. Pre(c, 0) = <<>>
      <4>1. 0 \in 0 .. Len(c)
        BY <1>1
      <4> QED
        BY <1>1, <4>1, Prefixes
    <3>3. TreeAt(is, nx, at1) /\ s.ino = at1[Pre(c, 0)]
      BY <1>5, <3>1, <3>2 DEF is, nx
    <3>4. R!DirPaths(is, at1) = R!DirPaths(is, at1) \cup {Pre(c, j) : j \in 0 .. 0}
      <4>1. <<>> \in R!DirPaths(is, at1)
        BY <3>3, Sorted
      <4>2. {Pre(c, j) : j \in 0 .. 0} = {<<>>}
        BY <3>2
      <4> QED
        BY <4>1, <4>2
    <3>5. Going(is, nx, at1, c, 0, s)
      <4> HIDE DEF s
      <4> QED
        BY <3>1, <3>3, <3>4, Zenon DEF Going
    <3>6. 0 + o = o
      BY <1>2
    <3> QED
      BY <3>5, <3>6
  <2>3. ASSUME NEW k \in Nat, k \in Good PROVE k + 1 \in Good
    <3> SUFFICES ASSUME k + 1 <= Len(c) - 1
                 PROVE  Going(is, nx, at1, c, k + 1, at2(k + 1)) \/ Stuck(is, nx, at1, c, k + 1, at2(k + 1))
      OBVIOUS
    <3>1. k \in 0 .. Len(c) - 1 /\ k + 1 \in 1 .. Len(c) /\ k <= Len(c) - 1
      BY <1>1
    <3>2. w[k + 1 + o] = R!Descend(w[k + o], c[k + 1])
      <4> DEFINE j == k + 1 + o
      <4>1. j \in 1 .. m /\ j - 1 = k + o
        BY <1>1, <1>2, <2>1, <3>1
      <4>2. p[j] = c[k + 1]
        BY <1>1, <3>1
      <4> HIDE DEF j
      <4>3. w[j] = R!Descend(w[j - 1], p[j])
        BY <1>4, <4>1
      <4> QED
        BY <4>1, <4>2, <4>3 DEF j
    <3>3. Going(is, nx, at1, c, k, w[k + o]) \/ Stuck(is, nx, at1, c, k, w[k + o])
      BY <2>3, <3>1
    <3>4. TreeAt(is, nx, at1)
      BY DEF is, nx
    <3> DEFINE s == w[k + o]
               n == c[k + 1]
    <3>5. \A i \in 1 .. Len(c) : c[i] \in NameSet \ Dots
      BY <1>1
    <3>6. /\ Going(is, nx, at1, c, k, s) => \/ Going(is, nx, at1, c, k + 1, R!Descend(s, n))
                                            \/ Stuck(is, nx, at1, c, k + 1, R!Descend(s, n))
          /\ Stuck(is, nx, at1, c, k, s) => Stuck(is, nx, at1, c, k + 1, R!Descend(s, n))
      <4> HIDE DEF s
      <4> QED
        BY <1>1, <3>1, <3>4, <3>5, DescendStep, Zenon DEF n
    <3> QED
      BY <3>2, <3>3, <3>6
  <2>4. Nat \subseteq Good
    <3> HIDE DEF Good
    <3> QED
      BY <2>2, <2>3, Numbers
  <2>5. Going(is, nx, at1, c, Len(c) - 1, w[m]) \/ Stuck(is, nx, at1, c, Len(c) - 1, w[m])
    <3> DEFINE k == Len(c) - 1
    <3>1. k \in Good /\ k <= Len(c) - 1
      BY <1>1, <2>1, <2>4
    <3> HIDE DEF k
    <3>2. Going(is, nx, at1, c, k, w[k + o]) \/ Stuck(is, nx, at1, c, k, w[k + o])
      BY <3>1
    <3>3. k + o = m
      BY <2>1 DEF k
    <3> QED
      BY <3>2, <3>3 DEF k
  <2>6. p[Len(p)] = c[Len(c)]
    <3>1. Len(c) \in 1 .. Len(c)
      BY <1>1, <2>1
    <3> QED
      BY <1>1, <3>1
  <2>7. TreeAt(is, nx, at1) /\ \A i \in 1 .. Len(c) : c[i] \in NameSet \ Dots
    BY <1>1 DEF is, nx
  <2>8. Outcome(is, nx, at1, c, data, R!Store(w[m], c[Len(c)], data))
    BY <1>1, <1>8, <2>5, <2>7, Stored, Zenon
  <2> QED
    BY <1>4, <2>6, <2>8 DEF is, nx, c
<1> QED
  BY <1>7, <1>8

\* The inodes without one, and without the entry that leads to it.
Pruned(is, i, parent, name) ==
    [k \in DOMAIN is \ {i} |->
        IF k = parent THEN [is[k] EXCEPT !.entries = [n \in DOMAIN @ \ {name} |-> @[n]]] ELSE is[k]]

Kept(f, c) == [q \in {r \in DOMAIN f : ~R!S!IsPrefix(c, r)} |-> f[q]]

\* Without one entry the tree is without what is below it.
LEMMA Removed ==
    ASSUME NEW is, NEW nx, NEW at1, TreeAt(is, nx, at1), NEW c \in DOMAIN at1, c # <<>>
    PROVE  IsTree(Pruned(is, at1[c], at1[R!Front(c)], R!Last(c)), nx, Kept(at1, c),
                  Kept(R!Files(is, at1), c), {q \in R!DirPaths(is, at1) : ~R!S!IsPrefix(c, q)})
<1> DEFINE is2 == Pruned(is, at1[c], at1[R!Front(c)], R!Last(c))
           at2 == Kept(at1, c)
           p == R!Front(c)
           n == R!Last(c)
           Gone(q) == R!S!IsPrefix(c, q)
<1>1. /\ \A q \in DOMAIN at1 : at1[q] \in DOMAIN is /\ q \in Place
      /\ <<>> \in DOMAIN at1 /\ at1[<<>>] = 1 /\ is[1].dir
      /\ \A q \in DOMAIN at1 : Len(q) <= Depth /\ DOMAIN is[at1[q]] = {"dir", "entries", "file"}
  BY DEF TreeAt
<1>2. \A q, r \in DOMAIN at1 : at1[q] = at1[r] => q = r
  BY DEF TreeAt
<1>3. /\ p \in DOMAIN at1 /\ is[at1[p]].dir
      /\ n \in DOMAIN is[at1[p]].entries \ Dots
      /\ c = Append(p, n) /\ c \in Place
  <2>1. c \in Place
    BY <1>1
  <2>2. c = Append(p, n)
    BY <2>1, Parted
  <2> QED
    BY <2>1, <2>2 DEF TreeAt
<1>4. /\ ~Gone(<<>>) /\ Gone(c)
      /\ \A q \in Place, m \in NameSet : Gone(Append(q, m)) <=> c = Append(q, m) \/ Gone(q)
  <2>1. <<>> \in Place
    BY <1>1
  <2>2. ~Gone(<<>>) /\ Gone(c)
    BY <1>3, <2>1, PrefixStep
  <2>3. ASSUME NEW q \in Place, NEW m \in NameSet
        PROVE  Gone(Append(q, m)) <=> c = Append(q, m) \/ Gone(q)
    BY <1>3, PrefixStep
  <2> QED
    BY <2>2, <2>3
<1> HIDE DEF Gone
<1>5. /\ DOMAIN at2 = {q \in DOMAIN at1 : ~Gone(q)}
      /\ \A q \in DOMAIN at2 : at2[q] = at1[q] /\ q # c /\ at1[q] # at1[c]
  <2>1. /\ DOMAIN at2 = {q \in DOMAIN at1 : ~Gone(q)}
        /\ \A q \in DOMAIN at2 : at2[q] = at1[q]
    BY DEF Kept, Gone
  <2> HIDE DEF at2
  <2> QED
    BY <1>2, <1>4, <2>1
<1>6. /\ DOMAIN is2 = DOMAIN is \ {at1[c]}
      /\ \A q \in DOMAIN at2 : /\ is2[at1[q]].dir = is[at1[q]].dir
                               /\ is2[at1[q]].file = is[at1[q]].file
                               /\ DOMAIN is2[at1[q]] = {"dir", "entries", "file"}
                               /\ q # p => is2[at1[q]].entries = is[at1[q]].entries
                               /\ q = p => /\ DOMAIN is2[at1[q]].entries = DOMAIN is[at1[q]].entries \ {n}
                                           /\ \A m \in DOMAIN is2[at1[q]].entries :
                                                 is2[at1[q]].entries[m] = is[at1[q]].entries[m]
  <2>1. is2 = [k \in DOMAIN is \ {at1[c]} |->
                  IF k = at1[p] THEN [is[k] EXCEPT !.entries = [m \in DOMAIN is[k].entries \ {n} |-> is[k].entries[m]]]
                  ELSE is[k]]
    BY DEF Pruned
  <2> HIDE DEF is2, p, n, at2
  <2>2. ASSUME NEW q \in DOMAIN at2
        PROVE  /\ is2[at1[q]].dir = is[at1[q]].dir
               /\ is2[at1[q]].file = is[at1[q]].file
               /\ DOMAIN is2[at1[q]] = {"dir", "entries", "file"}
               /\ q # p => is2[at1[q]].entries = is[at1[q]].entries
               /\ q = p => /\ DOMAIN is2[at1[q]].entries = DOMAIN is[at1[q]].entries \ {n}
                           /\ \A m \in DOMAIN is2[at1[q]].entries :
                                 is2[at1[q]].entries[m] = is[at1[q]].entries[m]
    <3>1. at1[q] \in DOMAIN is \ {at1[c]} /\ q \in DOMAIN at1 /\ DOMAIN is[at1[q]] = {"dir", "entries", "file"}
      BY <1>1, <1>5
    <3> DEFINE k == at1[q]
    <3>2. CASE q = p
      <4>1. is2[k] = [is[k] EXCEPT !.entries = [m \in DOMAIN is[k].entries \ {n} |-> is[k].entries[m]]]
        BY <2>1, <3>1, <3>2
      <4> HIDE DEF k
      <4>2. /\ is2[k].dir = is[k].dir /\ is2[k].file = is[k].file /\ DOMAIN is2[k] = {"dir", "entries", "file"}
            /\ is2[k].entries = [m \in DOMAIN is[k].entries \ {n} |-> is[k].entries[m]]
        BY <3>1, <4>1 DEF k
      <4>3. DOMAIN is2[k].entries = DOMAIN is[k].entries \ {n}
            /\ \A m \in DOMAIN is2[k].entries : is2[k].entries[m] = is[k].entries[m]
        BY <4>2
      <4> QED
        BY <3>2, <4>2, <4>3 DEF k
    <3>3. CASE q # p
      <4>1. k # at1[p]
        BY <1>2, <1>3, <3>1, <3>3
      <4>2. is2[k] = is[k]
        BY <2>1, <3>1, <4>1
      <4> QED
        BY <3>1, <3>3, <4>2
    <3> QED
      BY <3>2, <3>3
  <2>3. DOMAIN is2 = DOMAIN is \ {at1[c]}
    BY <2>1
  <2> QED
    BY <2>2, <2>3
<1> HIDE DEF is2, p, n, at2
<1>7. TreeAt(is2, nx, at2)
  <2>1. nx \in Nat /\ \A i \in DOMAIN is2 : i \in Nat /\ i < nx
    BY <1>6 DEF TreeAt
  <2>2. at2 \in [DOMAIN at2 -> DOMAIN is2] /\ DOMAIN at2 \subseteq Place
    <3>1. \A q \in DOMAIN at2 : at2[q] \in DOMAIN is2 /\ q \in Place
      BY <1>1, <1>5, <1>6
    <3>2. at2 = [q \in DOMAIN at2 |-> at2[q]]
      BY DEF at2, Kept
    <3> QED
      BY <3>1, <3>2
  <2>3. <<>> \in DOMAIN at2 /\ at2[<<>>] = 1 /\ is2[1].dir
    <3>1. <<>> \in DOMAIN at2
      BY <1>1, <1>4, <1>5
    <3> QED
      BY <1>1, <1>5, <1>6, <3>1
  <2>4. \A q, r \in DOMAIN at2 : at2[q] = at2[r] => q = r
    BY <1>2, <1>5
  <2>5. \A q \in DOMAIN at2 : Len(q) <= Depth /\ DOMAIN is2[at2[q]] = {"dir", "entries", "file"}
    BY <1>1, <1>5, <1>6
  <2>6. ASSUME NEW q \in DOMAIN at2, q # <<>>
        PROVE  /\ R!Front(q) \in DOMAIN at2 /\ is2[at2[R!Front(q)]].dir
               /\ R!Last(q) \in DOMAIN is2[at2[R!Front(q)]].entries \ Dots
               /\ is2[at2[R!Front(q)]].entries[R!Last(q)] = at2[q]
    <3> DEFINE f == R!Front(q)
               l == R!Last(q)
    <3>1. f \in DOMAIN at1 /\ is[at1[f]].dir /\ l \in DOMAIN is[at1[f]].entries \ Dots
          /\ is[at1[f]].entries[l] = at1[q]
      BY <1>5, <2>6 DEF TreeAt
    <3>2. q = Append(f, l) /\ f \in Place /\ l \in NameSet
      BY <1>1, <1>5, <2>6, Parted
    <3> HIDE DEF f, l
    <3>3. ~Gone(f)
      BY <1>4, <1>5, <3>2
    <3>4. f \in DOMAIN at2
      BY <1>5, <3>1, <3>3
    <3>5. f = p => l # n
      BY <1>3, <1>5, <3>2
    <3>6. l \in DOMAIN is2[at1[f]].entries /\ is2[at1[f]].entries[l] = at1[q]
      <4>1. CASE f = p
        BY <1>6, <3>1, <3>4, <3>5, <4>1
      <4>2. CASE f # p
        BY <1>6, <3>1, <3>4, <4>2
      <4> QED
        BY <4>1, <4>2
    <3>7. at2[f] = at1[f] /\ at2[q] = at1[q] /\ is2[at1[f]].dir
      BY <1>5, <1>6, <3>1, <3>4
    <3> QED
      BY <3>1, <3>4, <3>6, <3>7 DEF f, l
  <2>7. ASSUME NEW q \in DOMAIN at2, is2[at2[q]].dir
        PROVE  /\ Dots \subseteq DOMAIN is2[at2[q]].entries
               /\ is2[at2[q]].entries["."] = at2[q]
               /\ is2[at2[q]].entries[".."] = at2[IF q = <<>> THEN q ELSE R!Front(q)]
    <3> DEFINE u == IF q = <<>> THEN q ELSE R!Front(q)
    <3>1. is[at1[q]].dir /\ q \in DOMAIN at1 /\ at2[q] = at1[q]
      BY <1>5, <1>6, <2>7
    <3>2. /\ Dots \subseteq DOMAIN is[at1[q]].entries /\ is[at1[q]].entries["."] = at1[q]
          /\ is[at1[q]].entries[".."] = at1[u]
      BY <3>1 DEF TreeAt
    <3>3. u \in DOMAIN at2
      BY <2>6
    <3> HIDE DEF u
    <3>4. at2[u] = at1[u]
      BY <1>5, <3>3
    <3>5. n # "." /\ n # ".."
      BY <1>3 DEF Dots
    <3>6. /\ Dots \subseteq DOMAIN is2[at1[q]].entries /\ is2[at1[q]].entries["."] = at1[q]
          /\ is2[at1[q]].entries[".."] = at1[u]
      <4>1. CASE q = p
        <5>1. DOMAIN is2[at1[q]].entries = DOMAIN is[at1[q]].entries \ {n}
              /\ \A m \in DOMAIN is2[at1[q]].entries : is2[at1[q]].entries[m] = is[at1[q]].entries[m]
          BY <1>6, <4>1
        <5> QED
          BY <3>2, <3>5, <5>1 DEF Dots
      <4>2. CASE q # p
        BY <1>6, <3>2, <4>2
      <4> QED
        BY <4>1, <4>2
    <3> QED
      BY <3>1, <3>4, <3>6 DEF u
  <2>8. ASSUME NEW q \in DOMAIN at2, ~is2[at2[q]].dir PROVE DOMAIN is2[at2[q]].entries = {}
    <3>1. ~is[at1[q]].dir /\ q \in DOMAIN at1 /\ at2[q] = at1[q]
      BY <1>5, <1>6, <2>8
    <3>2. DOMAIN is[at1[q]].entries = {} /\ q # p
      BY <1>3, <3>1 DEF TreeAt
    <3> QED
      BY <1>6, <3>1, <3>2
  <2>9. ASSUME NEW q \in DOMAIN at2, NEW m \in DOMAIN is2[at2[q]].entries \ Dots
        PROVE  m \in NameSet /\ Append(q, m) \in DOMAIN at2
    <3>1. q \in DOMAIN at1 /\ at2[q] = at1[q] /\ q \in Place /\ ~Gone(q)
      BY <1>1, <1>5
    <3>2. m \in DOMAIN is[at1[q]].entries \ Dots /\ (q = p => m # n)
      <4>1. CASE q = p
        <5>1. DOMAIN is2[at1[q]].entries = DOMAIN is[at1[q]].entries \ {n}
          BY <1>6, <4>1
        <5> QED
          BY <2>9, <3>1, <5>1
      <4>2. CASE q # p
        BY <1>6, <3>1, <4>2
      <4> QED
        BY <4>1, <4>2
    <3>3. m \in NameSet /\ Append(q, m) \in DOMAIN at1
      BY <3>1, <3>2 DEF TreeAt
    <3>4. c # Append(q, m)
      <4>1. R!Front(Append(q, m)) = q /\ R!Last(Append(q, m)) = m
        BY <3>1, <3>3, Extended
      <4> QED
        BY <3>2, <4>1 DEF p, n
    <3>5. ~Gone(Append(q, m))
      BY <1>4, <3>1, <3>3, <3>4
    <3> QED
      BY <1>5, <3>3, <3>5
  <2> QED
    BY <2>1, <2>2, <2>3, <2>4, <2>5, <2>6, <2>7, <2>8, <2>9 DEF TreeAt
<1>8. R!Files(is2, at2) = Kept(R!Files(is, at1), c)
  <2> DEFINE K1 == {q \in DOMAIN at1 : ~is[at1[q]].dir}
             K2 == {q \in DOMAIN at2 : ~is2[at2[q]].dir}
  <2>1. K2 = {q \in K1 : ~Gone(q)}
    BY <1>5, <1>6
  <2>2. \A q \in K2 : is2[at2[q]].file = is[at1[q]].file
    BY <1>5, <1>6
  <2>3. R!Files(is, at1) = [q \in K1 |-> is[at1[q]].file] /\ R!Files(is2, at2) = [q \in K2 |-> is2[at2[q]].file]
    BY DEF R!Files
  <2> HIDE DEF K1, K2
  <2> QED
    BY <2>1, <2>2, <2>3 DEF Kept, Gone
<1>9. R!DirPaths(is2, at2) = {q \in R!DirPaths(is, at1) : ~Gone(q)}
  BY <1>5, <1>6 DEF R!DirPaths
<1> QED
  BY <1>7, <1>8, <1>9, Zenon DEF IsTree, Gone, is2, at2

\* The writers are at work on paths of calls.
RamTypes ==
    /\ writer \in [Writers -> [path : Paths \cup {<<>>}, buf : 0 .. MaxWrites,
                               state : {"none", "creating", "closed", "aborted"}, at : {"idle", "commit"}]]
    /\ \A w \in Writers : /\ writer[w].state # "none" => writer[w].path \in Paths
                          /\ writer[w].at = "commit" => writer[w].state # "none"

\* The inodes are a tree, the one that calls see from the root, or the root is
\* gone.
RamTree ==
    \/ \E at1 : IsTree(inodes, nextIno, at1, files, dirs)
    \/ R!rootIno \notin DOMAIN inodes /\ dirs = {} /\ DOMAIN files = {}

RamInv == RamTypes /\ RamTree

\* What the data of a writer is.
Datas == Writers \X (0 .. MaxWrites)

\* A call finds at its path what is there.
LEMMA CallFinds ==
    ASSUME RamInv, R!Rooted, NEW p \in Paths
    PROVE  \E at1 :
             /\ TreeAt(inodes, nextIno, at1) /\ files = R!Files(inodes, at1) /\ dirs = R!DirPaths(inodes, at1)
             /\ R!Clean(p) \in Place
             /\ R!S!Look(R!Clean(p)) = KindAt(inodes, at1, R!Clean(p))
             /\ R!traverse(p).err = "none" <=> R!S!Look(R!Clean(p)) \in {"dir", "file"}
             /\ R!traverse(p).err # "none" => R!traverse(p).err = R!S!Look(R!Clean(p))
             /\ R!traverse(p).err = "none" =>
                  /\ R!Clean(p) \in DOMAIN at1 /\ R!traverse(p).ino = at1[R!Clean(p)]
                  /\ inodes[R!traverse(p).ino].dir <=> R!S!Look(R!Clean(p)) = "dir"
                  /\ R!Clean(p) # <<>> => /\ R!traverse(p).parent = at1[R!Front(R!Clean(p))]
                                          /\ R!Last(p) = R!Last(R!Clean(p))
                  /\ R!Clean(p) = <<>> => R!traverse(p).parent = 1
<1> DEFINE c == R!Clean(p)
           f == R!traverse(p)
<1>1. PICK at1 : TreeAt(inodes, nextIno, at1) /\ files = R!Files(inodes, at1) /\ dirs = R!DirPaths(inodes, at1)
  BY DEF RamInv, RamTree, IsTree, R!Rooted
<1>2. c \in Place
  BY Cleaned
<1>3. R!S!Look(c) = KindAt(inodes, at1, c)
  BY <1>1, <1>2, Looks
<1>4. /\ KindAt(inodes, at1, c) \in {"dir", "file"} =>
                    /\ c \in DOMAIN at1 /\ f.err = "none" /\ f.ino = at1[c]
                    /\ c # <<>> => f.parent = at1[R!Front(c)] /\ R!Last(p) = R!Last(c)
                    /\ c = <<>> => f.parent = 1
      /\ KindAt(inodes, at1, c) \notin {"dir", "file"} => f.err = KindAt(inodes, at1, c)
      /\ f.err = "none" <=> KindAt(inodes, at1, c) \in {"dir", "file"}
  BY <1>1, Traversed
<1> HIDE DEF c, f
<1>5. f.err = "none" => (inodes[f.ino].dir <=> R!S!Look(c) = "dir")
  BY <1>3, <1>4 DEF KindAt
<1>6. f.err # "none" => f.err = R!S!Look(c)
  BY <1>3, <1>4
<1>7. f.err = "none" <=> R!S!Look(c) \in {"dir", "file"}
  BY <1>3, <1>4
<1> QED
  BY <1>1, <1>2, <1>3, <1>4, <1>5, <1>6, <1>7 DEF c, f

\* Calls that only look answer as the store does.
LEMMA OpenStep ==
    ASSUME RamInv, NEW p \in Paths, R!Open(p)
    PROVE  R!S!Open(answer'.path) /\ UNCHANGED <<inodes, nextIno, files, dirs, writer>>
<1> DEFINE c == R!Clean(p)
           f == R!traverse(p)
<1>1. R!Rooted /\ UNCHANGED <<inodes, nextIno, files, dirs, writer>>
  BY DEF R!Open, R!treeVars
<1>2. PICK at1 : /\ TreeAt(inodes, nextIno, at1) /\ files = R!Files(inodes, at1)
                 /\ c \in Place
                 /\ R!S!Look(c) = KindAt(inodes, at1, c)
                 /\ f.err = "none" <=> R!S!Look(c) \in {"dir", "file"}
                 /\ f.err # "none" => f.err = R!S!Look(c)
                 /\ f.err = "none" =>
                      /\ c \in DOMAIN at1 /\ f.ino = at1[c]
                      /\ inodes[f.ino].dir <=> R!S!Look(c) = "dir"
  BY <1>1, CallFinds, Zenon
<1>3. answer' = IF f.err # "none" THEN [op |-> "Open", path |-> c, err |-> f.err, res |-> {}]
                ELSE IF inodes[f.ino].dir THEN [op |-> "Open", path |-> c, err |-> "EISDIR", res |-> {}]
                ELSE [op |-> "Open", path |-> c, err |-> "none", res |-> {inodes[f.ino].file}]
  BY DEF R!Open, R!Answer
<1> HIDE DEF c, f
<1>4. answer'.path = c
  BY <1>3
<1>5. CASE R!S!Look(c) = "file"
  <2>1. f.err = "none" /\ ~inodes[f.ino].dir /\ f.ino = at1[c] /\ c \in DOMAIN at1
    BY <1>2, <1>5
  <2>2. files[c] = inodes[f.ino].file
    BY <1>2, <2>1 DEF R!Files
  <2>3. answer' = [op |-> "Open", path |-> c, err |-> "none", res |-> {files[c]}]
    BY <1>3, <2>1, <2>2
  <2> QED
    BY <1>1, <1>4, <1>5, <2>3 DEF R!S!Open, R!S!Answer
<1>6. CASE R!S!Look(c) = "dir"
  <2>1. answer' = [op |-> "Open", path |-> c, err |-> "EISDIR", res |-> {}]
    BY <1>2, <1>3, <1>6
  <2> QED
    BY <1>1, <1>4, <1>6, <2>1 DEF R!S!Open, R!S!Answer
<1>7. CASE R!S!Look(c) \notin {"file", "dir"}
  <2>1. answer' = [op |-> "Open", path |-> c, err |-> R!S!Look(c), res |-> {}]
    BY <1>2, <1>3, <1>7
  <2> QED
    BY <1>1, <1>4, <1>7, <2>1 DEF R!S!Open, R!S!Answer
<1> QED
  BY <1>5, <1>6, <1>7

LEMMA StatStep ==
    ASSUME RamInv, NEW p \in Paths, R!Stat(p)
    PROVE  R!S!Stat(answer'.path) /\ UNCHANGED <<inodes, nextIno, files, dirs, writer>>
<1> DEFINE c == R!Clean(p)
           f == R!traverse(p)
<1>1. R!Rooted /\ UNCHANGED <<inodes, nextIno, files, dirs, writer>>
  BY DEF R!Stat, R!treeVars
<1>2. /\ f.err = "none" <=> R!S!Look(c) \in {"dir", "file"}
      /\ f.err # "none" => f.err = R!S!Look(c)
      /\ f.err = "none" => (inodes[f.ino].dir <=> R!S!Look(c) = "dir")
  BY <1>1, CallFinds, Zenon
<1>3. answer' = IF f.err # "none" THEN [op |-> "Stat", path |-> c, err |-> f.err, res |-> {}]
                ELSE [op |-> "Stat", path |-> c, err |-> "none", res |-> {R!Kind(f.ino)}]
  BY DEF R!Stat, R!Answer
<1> HIDE DEF c, f
<1>4. answer'.path = c
  BY <1>3
<1>5. CASE R!S!Look(c) \in {"file", "dir"}
  <2>1. R!Kind(f.ino) = R!S!Look(c)
    BY <1>2, <1>5 DEF R!Kind
  <2>2. answer' = [op |-> "Stat", path |-> c, err |-> "none", res |-> {R!S!Look(c)}]
    BY <1>2, <1>3, <1>5, <2>1
  <2> QED
    BY <1>1, <1>4, <1>5, <2>2 DEF R!S!Stat, R!S!Answer
<1>6. CASE R!S!Look(c) \notin {"file", "dir"}
  <2>1. answer' = [op |-> "Stat", path |-> c, err |-> R!S!Look(c), res |-> {}]
    BY <1>2, <1>3, <1>6
  <2> QED
    BY <1>1, <1>4, <1>6, <2>1 DEF R!S!Stat, R!S!Answer
<1> QED
  BY <1>5, <1>6

LEMMA ReaddirStep ==
    ASSUME RamInv, NEW p \in Paths, R!Readdir(p)
    PROVE  R!S!Readdir(answer'.path) /\ UNCHANGED <<inodes, nextIno, files, dirs, writer>>
<1> DEFINE c == R!Clean(p)
           f == R!traverse(p)
           found == {<<n, R!Kind(inodes[f.ino].entries[n])>> : n \in DOMAIN inodes[f.ino].entries}
<1>1. R!Rooted /\ UNCHANGED <<inodes, nextIno, files, dirs, writer>>
  BY DEF R!Readdir, R!treeVars
<1>2. PICK at1 : /\ TreeAt(inodes, nextIno, at1) /\ files = R!Files(inodes, at1) /\ dirs = R!DirPaths(inodes, at1)
                 /\ c \in Place
                 /\ R!S!Look(c) = KindAt(inodes, at1, c)
                 /\ f.err = "none" <=> R!S!Look(c) \in {"dir", "file"}
                 /\ f.err # "none" => f.err = R!S!Look(c)
                 /\ f.err = "none" =>
                      /\ c \in DOMAIN at1 /\ f.ino = at1[c]
                      /\ inodes[f.ino].dir <=> R!S!Look(c) = "dir"
  BY <1>1, CallFinds, Zenon
<1>3. answer' = IF f.err # "none" THEN [op |-> "Readdir", path |-> c, err |-> f.err, res |-> {}]
                ELSE IF ~inodes[f.ino].dir THEN [op |-> "Readdir", path |-> c, err |-> "ENOTDIR", res |-> {}]
                ELSE [op |-> "Readdir", path |-> c, err |-> "none", res |-> found]
  BY DEF R!Readdir, R!Answer
<1> HIDE DEF c, f, found
<1>4. answer'.path = c
  BY <1>3
<1>5. CASE R!S!Look(c) = "dir"
  <2>1. f.err = "none" /\ inodes[f.ino].dir /\ f.ino = at1[c] /\ c \in DOMAIN at1
    BY <1>2, <1>5
  <2> DEFINE E == inodes[at1[c]].entries
             N == {a \in DOMAIN files \cup dirs : a # <<>> /\ R!Front(a) = c}
  <2>2. /\ Dots \subseteq DOMAIN E /\ E["."] = at1[c] /\ R!Kind(E["."]) = "dir" /\ R!Kind(E[".."]) = "dir"
    <3>1. /\ Dots \subseteq DOMAIN E /\ E["."] = at1[c]
          /\ E[".."] = at1[IF c = <<>> THEN c ELSE R!Front(c)]
      BY <1>2, <2>1 DEF TreeAt
    <3>2. inodes[at1[IF c = <<>> THEN c ELSE R!Front(c)]].dir
      <4>1. c # <<>> => inodes[at1[R!Front(c)]].dir
        BY <1>2, <2>1 DEF TreeAt
      <4> QED
        BY <2>1, <4>1
    <3> QED
      BY <2>1, <3>1, <3>2 DEF R!Kind
  <2>3. ASSUME NEW n \in DOMAIN E \ Dots
        PROVE  /\ Append(c, n) \in N /\ R!Last(Append(c, n)) = n
               /\ R!Kind(E[n]) = R!S!Look(Append(c, n))
    <3>1. n \in NameSet \ Dots /\ Append(c, n) \in DOMAIN at1
      BY <1>2, <2>1 DEF TreeAt
    <3> DEFINE a == Append(c, n)
    <3>2. a # <<>> /\ R!Front(a) = c /\ R!Last(a) = n /\ a \in Place
      BY <1>2, <3>1, Extended
    <3>3. E[n] = at1[a]
      BY <1>2, <2>1, <3>1, Steps
    <3> HIDE DEF a, E
    <3>4. a \in DOMAIN at1
      BY <3>1 DEF a
    <3>5. a \in DOMAIN files \cup dirs
      BY <1>2, <3>4, Sorted
    <3>6. \A j \in 0 .. Len(a) - 1 : inodes[at1[Pre(a, j)]].dir
      <4> SUFFICES ASSUME NEW j \in 0 .. Len(a) - 1 PROVE inodes[at1[Pre(a, j)]].dir
        OBVIOUS
      <4>1. Len(a) \in Nat
        BY <3>2 DEF Place
      <4>2. j \in 0 .. Len(a) /\ j < Len(a)
        BY <4>1
      <4> QED
        BY <1>2, <3>4, <4>2, Ancestors
    <3>7. R!S!Look(a) = KindAt(inodes, at1, a)
      BY <1>2, <3>2, Looks
    <3>8. KindAt(inodes, at1, a) = R!Kind(at1[a])
      BY <3>4, <3>6 DEF KindAt, R!Kind
    <3> QED
      BY <3>2, <3>3, <3>5, <3>7, <3>8 DEF a
  <2>4. ASSUME NEW a \in N PROVE R!Last(a) \in DOMAIN E \ Dots /\ a = Append(c, R!Last(a))
    <3>1. a \in DOMAIN at1 /\ a # <<>> /\ R!Front(a) = c
      BY <1>2, Sorted
    <3>2. R!Last(a) \in DOMAIN E \ Dots /\ a \in Place
      BY <1>2, <3>1 DEF TreeAt
    <3>3. a = Append(R!Front(a), R!Last(a))
      BY <3>1, <3>2, Parted
    <3> QED
      BY <3>1, <3>2, <3>3
  <2>5. found = {<<".", "dir">>, <<"..", "dir">>} \cup {<<R!Last(a), R!S!Look(a)>> : a \in N}
    <3>0. found = {<<n, R!Kind(E[n])>> : n \in DOMAIN E}
      BY <2>1 DEF found
    <3> HIDE DEF E, N
    <3>1. ASSUME NEW n \in DOMAIN E
          PROVE <<n, R!Kind(E[n])>> \in {<<".", "dir">>, <<"..", "dir">>} \cup {<<R!Last(a), R!S!Look(a)>> : a \in N}
      <4>1. CASE n \in Dots
        BY <2>2, <4>1 DEF Dots
      <4>2. CASE n \notin Dots
        <5>1. <<n, R!Kind(E[n])>> = <<R!Last(Append(c, n)), R!S!Look(Append(c, n))>> /\ Append(c, n) \in N
          BY <2>3, <4>2
        <5>2. <<n, R!Kind(E[n])>> \in {<<R!Last(a), R!S!Look(a)>> : a \in N}
          BY <5>1, Zenon
        <5> QED
          BY <5>2
      <4> QED
        BY <4>1, <4>2
    <3>2. ASSUME NEW a \in N PROVE <<R!Last(a), R!S!Look(a)>> \in {<<n, R!Kind(E[n])>> : n \in DOMAIN E}
      <4> DEFINE n == R!Last(a)
      <4>1. n \in DOMAIN E \ Dots /\ a = Append(c, n)
        BY <2>4
      <4>2. R!Kind(E[n]) = R!S!Look(a)
        BY <2>3, <4>1
      <4> QED
        BY <4>1, <4>2
    <3>3. {<<".", "dir">>, <<"..", "dir">>} \subseteq {<<n, R!Kind(E[n])>> : n \in DOMAIN E}
      <4>1. "." \in DOMAIN E /\ ".." \in DOMAIN E
        BY <2>2 DEF Dots
      <4> QED
        BY <2>2, <4>1
    <3> QED
      BY <3>0, <3>1, <3>2, <3>3
  <2>6. R!S!List(c) = found
    <3>1. R!S!List(c) = {<<".", "dir">>, <<"..", "dir">>} \cup {<<R!Last(a), R!S!Look(a)>> : a \in N}
      BY DEF R!S!List, R!S!Last, R!S!Front, R!Last, R!Front
    <3> QED
      BY <2>5, <3>1
  <2>7. answer' = [op |-> "Readdir", path |-> c, err |-> "none", res |-> R!S!List(c)]
    BY <1>3, <2>1, <2>6
  <2> QED
    BY <1>1, <1>4, <1>5, <2>7 DEF R!S!Readdir, R!S!Answer
<1>6. CASE R!S!Look(c) = "file"
  <2>1. answer' = [op |-> "Readdir", path |-> c, err |-> "ENOTDIR", res |-> {}]
    BY <1>2, <1>3, <1>6
  <2> QED
    BY <1>1, <1>4, <1>6, <2>1 DEF R!S!Readdir, R!S!Answer
<1>7. CASE R!S!Look(c) \notin {"file", "dir"}
  <2>1. answer' = [op |-> "Readdir", path |-> c, err |-> R!S!Look(c), res |-> {}]
    BY <1>2, <1>3, <1>7
  <2> QED
    BY <1>1, <1>4, <1>7, <2>1 DEF R!S!Readdir, R!S!Answer
<1> QED
  BY <1>5, <1>6, <1>7

\* A call that replaces the inodes leaves a tree that is seen from the root.
LEMMA Replaced ==
    ASSUME NEW is, NEW nx, NEW at1, NEW F, NEW D, IsTree(is, nx, at1, F, D), R!Becomes(is)
    PROVE  inodes' = is /\ files' = F /\ dirs' = D
<1>1. R!Reach(is) = at1 /\ R!Files(is, at1) = F /\ R!DirPaths(is, at1) = D
  BY Reached DEF IsTree
<1> QED
  BY <1>1 DEF R!Becomes

\* Remove and commit change the files and the directories as the store does.
LEMMA RemoveStep ==
    ASSUME RamInv, NEW p \in Paths, R!RemovePath(p)
    PROVE  R!S!RemovePath(answer'.path) /\ RamTree' /\ writer' = writer
<1> DEFINE c == R!Clean(p)
           f == R!traverse(p)
           is2 == [i \in DOMAIN inodes \ {f.ino} |->
                             IF i = f.parent
                             THEN [inodes[i] EXCEPT !.entries =
                                     [n \in DOMAIN @ \ {R!Last(p)} |-> @[n]]]
                             ELSE inodes[i]]
<1>1. R!Rooted /\ nextIno' = nextIno /\ writer' = writer
  BY DEF R!RemovePath
<1>2. PICK at1 : /\ TreeAt(inodes, nextIno, at1) /\ files = R!Files(inodes, at1) /\ dirs = R!DirPaths(inodes, at1)
                 /\ c \in Place
                 /\ R!S!Look(c) = KindAt(inodes, at1, c)
                 /\ f.err = "none" <=> R!S!Look(c) \in {"dir", "file"}
                 /\ f.err # "none" => f.err = R!S!Look(c)
                 /\ f.err = "none" =>
                      /\ c \in DOMAIN at1 /\ f.ino = at1[c]
                      /\ inodes[f.ino].dir <=> R!S!Look(c) = "dir"
                      /\ c # <<>> => f.parent = at1[R!Front(c)] /\ R!Last(p) = R!Last(c)
                      /\ c = <<>> => f.parent = 1
  BY <1>1, CallFinds, Zenon
<1>3. /\ f.err # "none" => /\ answer' = [op |-> "Remove", path |-> c, err |-> f.err, res |-> {}]
                           /\ UNCHANGED <<inodes, files, dirs>>
      /\ f.err = "none" => /\ answer' = [op |-> "Remove", path |-> c, err |-> "none", res |-> {}]
                           /\ R!Becomes(is2)
  BY DEF R!RemovePath, R!Answer
<1>4. is2 = Pruned(inodes, f.ino, f.parent, R!Last(p))
  BY DEF Pruned
<1> HIDE DEF c, f, is2
<1>5. answer'.path = c
  BY <1>3
<1>6. CASE f.err # "none"
  <2>1. RamTree'
    BY <1>1, <1>3, <1>6 DEF RamInv, RamTree
  <2> QED
    BY <1>1, <1>2, <1>3, <1>5, <1>6, <2>1 DEF R!S!RemovePath, R!S!Answer
<1>7. CASE f.err = "none" /\ c # <<>>
  <2> DEFINE at2 == Kept(at1, c)
             F == Kept(files, c)
             D == {q \in dirs : ~R!S!IsPrefix(c, q)}
  <2>1. IsTree(is2, nextIno, at2, F, D)
    <3>1. is2 = Pruned(inodes, at1[c], at1[R!Front(c)], R!Last(c))
      BY <1>2, <1>4, <1>7
    <3>2. IsTree(Pruned(inodes, at1[c], at1[R!Front(c)], R!Last(c)), nextIno, Kept(at1, c),
                  Kept(R!Files(inodes, at1), c), {q \in R!DirPaths(inodes, at1) : ~R!S!IsPrefix(c, q)})
      BY <1>2, <1>7, Removed
    <3> QED
      BY <1>2, <3>1, <3>2
  <2>2. inodes' = is2 /\ files' = F /\ dirs' = D
    <3> HIDE DEF at2, F, D
    <3> QED
      BY <1>3, <1>7, <2>1, Replaced
  <2>3. RamTree'
    <3> HIDE DEF at2, F, D
    <3>1. IsTree(inodes', nextIno', at2, files', dirs')
      BY <1>1, <2>1, <2>2
    <3> QED
      BY <3>1, Zenon DEF RamTree
  <2>4. /\ files' = [q \in {r \in DOMAIN files : ~R!S!IsPrefix(c, r)} |-> files[q]]
        /\ dirs' = {q \in dirs : ~R!S!IsPrefix(c, q)}
    BY <2>2 DEF Kept
  <2>5. R!S!Look(c) \in {"file", "dir"}
    BY <1>2, <1>7
  <2> QED
    BY <1>1, <1>3, <1>5, <1>7, <2>3, <2>4, <2>5 DEF R!S!RemovePath, R!S!Answer
<1>8. CASE f.err = "none" /\ c = <<>>
  <2>1. f.ino = 1
    <3>1. at1[<<>>] = 1
      BY <1>2 DEF TreeAt
    <3> QED
      BY <1>2, <1>8, <3>1
  <2>2. 1 \notin DOMAIN is2
    BY <2>1 DEF is2
  <2>3. R!Reach(is2) = <<>>
    BY <2>2 DEF R!Reach, R!rootIno
  <2>4. inodes' = is2 /\ files' = R!Files(is2, <<>>) /\ dirs' = R!DirPaths(is2, <<>>)
    BY <1>3, <1>8, <2>3 DEF R!Becomes
  <2>5. DOMAIN files' = {} /\ dirs' = {}
    BY <2>4 DEF R!Files, R!DirPaths
  <2>6. RamTree'
    BY <2>2, <2>4, <2>5 DEF RamTree, R!rootIno
  <2>7. \A q \in Place : R!S!IsPrefix(c, q)
    <3> SUFFICES ASSUME NEW q \in Place PROVE R!S!IsPrefix(c, q)
      OBVIOUS
    <3>1. Len(q) \in Nat /\ 0 \in 0 .. Len(q)
      BY DEF Place
    <3>2. Pre(q, 0) = <<>>
      BY <3>1, Prefixes
    <3> QED
      BY <1>2, <1>8, <3>1, <3>2, PrefixStep
  <2>8. DOMAIN files \subseteq Place /\ dirs \subseteq Place
    <3>1. DOMAIN at1 \subseteq Place
      BY <1>2 DEF TreeAt
    <3>2. DOMAIN at1 = DOMAIN files \cup dirs
      BY <1>2, Sorted
    <3> QED
      BY <3>1, <3>2
  <2>9. /\ files' = [q \in {r \in DOMAIN files : ~R!S!IsPrefix(c, r)} |-> files[q]]
        /\ dirs' = {q \in dirs : ~R!S!IsPrefix(c, q)}
    <3>1. {r \in DOMAIN files : ~R!S!IsPrefix(c, r)} = {} /\ {q \in dirs : ~R!S!IsPrefix(c, q)} = {}
      BY <2>7, <2>8
    <3>2. files' = [q \in {} |-> files[q]]
      <4>1. {q \in DOMAIN <<>> : ~is2[<<>>[q]].dir} = {}
        OBVIOUS
      <4>2. R!Files(is2, <<>>) = [q \in {} |-> is2[<<>>[q]].file]
        BY <4>1 DEF R!Files
      <4> QED
        BY <2>4, <4>2
    <3> QED
      BY <2>5, <3>1, <3>2
  <2>10. R!S!Look(c) \in {"file", "dir"}
    BY <1>2, <1>8
  <2> QED
    BY <1>1, <1>3, <1>5, <1>8, <2>6, <2>9, <2>10 DEF R!S!RemovePath, R!S!Answer
<1> QED
  BY <1>6, <1>7, <1>8

LEMMA CommitStep ==
    ASSUME RamInv, NEW w \in Writers, R!CommitData(w)
    PROVE  (\E d \in Datas : R!S!Commit(answer'.path, d)) /\ RamTree'
<1> DEFINE p == writer[w].path
           c == R!Clean(p)
           data == <<w, writer[w].buf>>
           r == R!commit([inodes |-> inodes, nextIno |-> nextIno], p, data)
<1>1. /\ R!Rooted /\ writer[w].at = "commit"
      /\ R!Becomes(r.inodes) /\ nextIno' = r.nextIno
      /\ answer' = [op |-> "Commit", path |-> c, err |-> r.err, res |-> {}]
  BY DEF R!CommitData, R!Answer
<1>2. p \in Paths /\ data \in Datas
  BY <1>1 DEF RamInv, RamTypes, Datas
<1>3. PICK at1 : IsTree(inodes, nextIno, at1, files, dirs)
  BY <1>1 DEF RamInv, RamTree, R!Rooted
<1>4. TreeAt(inodes, nextIno, at1) /\ files = R!Files(inodes, at1) /\ dirs = R!DirPaths(inodes, at1)
  BY <1>3 DEF IsTree
<1>5. Outcome(inodes, nextIno, at1, c, data, r)
  <2> DEFINE d == [inodes |-> inodes, nextIno |-> nextIno]
  <2>1. d.inodes = inodes /\ d.nextIno = nextIno
    OBVIOUS
  <2>2. r = R!commit(d, p, data)
    OBVIOUS
  <2> HIDE DEF d, p, data, r
  <2>3. Outcome(d.inodes, d.nextIno, at1, R!Clean(p), data, R!commit(d, p, data))
    BY <1>2, <1>4, <2>1, Committed
  <2> QED
    BY <2>1, <2>2, <2>3
<1>6. c \in Place /\ R!S!Look(c) = KindAt(inodes, at1, c)
  <2>1. c \in Place
    BY <1>2, Cleaned
  <2> QED
    BY <1>4, <2>1, Looks
<1> HIDE DEF p, c, data, r
<1>7. answer'.path = c
  BY <1>1
<1>8. CASE R!S!Look(c) \in {"file", "ENOENT"}
  <2> DEFINE F == Grown(files, c, data)
             D == dirs \cup R!S!Above(c)
  <2>1. r.err = "none" /\ \E at2 : IsTree(r.inodes, r.nextIno, at2, F, D)
    BY <1>4, <1>5, <1>6, <1>8 DEF Outcome
  <2>2. PICK at2 : IsTree(r.inodes, r.nextIno, at2, F, D)
    BY <2>1
  <2>3. inodes' = r.inodes /\ files' = F /\ dirs' = D
    <3> HIDE DEF F, D
    <3> QED
      BY <1>1, <2>2, Replaced
  <2>4. RamTree'
    <3> HIDE DEF F, D
    <3>1. IsTree(inodes', nextIno', at2, files', dirs')
      BY <1>1, <2>2, <2>3
    <3> QED
      BY <3>1, Zenon DEF RamTree
  <2>5. files' = [q \in DOMAIN files \cup {c} |-> IF q = c THEN data ELSE files[q]] /\ dirs' = dirs \cup R!S!Above(c)
    BY <2>3 DEF Grown
  <2>6. R!S!Commit(c, data)
    BY <1>1, <1>8, <2>1, <2>5 DEF R!S!Commit, R!S!Answer
  <2> QED
    BY <1>2, <1>7, <2>4, <2>6
<1>9. CASE R!S!Look(c) \notin {"file", "ENOENT"}
  <2>1. r.inodes = inodes /\ r.nextIno = nextIno
        /\ r.err = IF R!S!Look(c) = "dir" THEN "ErrExist" ELSE "ENOTDIR"
    BY <1>5, <1>6, <1>9 DEF Outcome
  <2>2. inodes' = inodes /\ files' = files /\ dirs' = dirs
    BY <1>1, <1>3, <2>1, Replaced
  <2>3. RamTree'
    <3>1. IsTree(inodes', nextIno', at1, files', dirs')
      BY <1>1, <1>3, <2>1, <2>2
    <3> QED
      BY <3>1, Zenon DEF RamTree
  <2>4. R!S!Commit(c, data)
    BY <1>1, <1>9, <2>1, <2>2 DEF R!S!Commit, R!S!Answer
  <2> QED
    BY <1>2, <1>7, <2>3, <2>4
<1> QED
  BY <1>8, <1>9

\* What the driver does is what a store does, and keeps its tree.
RamDoes == R!S!Step(Writers \X (0 .. MaxWrites)) \/ UNCHANGED <<files, dirs, answer>>

\* The handles of writers.
LEMMA WritersKeep ==
    ASSUME RamTypes, NEW w \in Writers,
           \/ \E p \in Paths : R!Create(w, p)
           \/ R!Write(w) \/ R!Commit(w) \/ R!CommitData(w) \/ R!Abort(w)
    PROVE  RamTypes'
<1> DEFINE Handle == [path : Paths \cup {<<>>}, buf : 0 .. MaxWrites,
                      state : {"none", "creating", "closed", "aborted"}, at : {"idle", "commit"}]
<1>1. MaxWrites \in Nat /\ writer \in [Writers -> Handle] /\ writer[w] \in Handle
      /\ (writer[w].state # "none" => writer[w].path \in Paths)
      /\ (writer[w].at = "commit" => writer[w].state # "none")
  BY RamAssumption DEF RamTypes
<1>2. ASSUME NEW h \in Handle, writer' = [writer EXCEPT ![w] = h], h.state # "none" => h.path \in Paths,
             h.at = "commit" => h.state # "none"
      PROVE  RamTypes'
  <2> HIDE DEF Handle
  <2>1. writer' \in [Writers -> Handle] /\ writer'[w] = h
    BY <1>1, <1>2
  <2>2. \A v \in Writers : v # w => writer'[v] = writer[v]
    BY <1>1, <1>2
  <2>3. \A v \in Writers : /\ writer'[v].state # "none" => writer'[v].path \in Paths
                           /\ writer'[v].at = "commit" => writer'[v].state # "none"
    BY <1>2, <2>1, <2>2 DEF RamTypes
  <2> QED
    BY <2>1, <2>3 DEF RamTypes, Handle
<1>3. ASSUME NEW p \in Paths, R!Create(w, p) PROVE RamTypes'
  <2> DEFINE h == [writer[w] EXCEPT !.path = p, !.state = "creating"]
  <2>1. h \in Handle /\ h.path = p /\ h.state = "creating"
    BY <1>1
  <2>2. writer' = [writer EXCEPT ![w] = h]
    BY <1>1, <1>3 DEF R!Create
  <2> HIDE DEF h
  <2> QED
    BY <1>2, <2>1, <2>2
<1>4. ASSUME R!Write(w) PROVE RamTypes'
  <2> DEFINE h == [writer[w] EXCEPT !.buf = @ + 1]
  <2>1. writer[w].buf < MaxWrites /\ writer[w].state # "none" /\ writer' = [writer EXCEPT ![w] = h]
    BY <1>1, <1>4 DEF R!Write
  <2>2. h \in Handle /\ h.path = writer[w].path /\ h.state = writer[w].state /\ h.at = writer[w].at
    BY <1>1, <2>1
  <2> HIDE DEF h, Handle
  <2> QED
    BY <1>1, <1>2, <2>1, <2>2
<1>5. ASSUME R!Commit(w) PROVE RamTypes'
  <2> DEFINE h == [writer[w] EXCEPT !.state = "closed", !.at = "commit"]
  <2>1. writer[w].state = "creating" /\ writer' = [writer EXCEPT ![w] = h]
    BY <1>1, <1>5 DEF R!Commit
  <2>2. h \in Handle /\ h.path = writer[w].path /\ h.state = "closed"
    BY <1>1
  <2> HIDE DEF h, Handle
  <2> QED
    BY <1>1, <1>2, <2>1, <2>2
<1>6. ASSUME R!CommitData(w) PROVE RamTypes'
  <2> DEFINE h == [writer[w] EXCEPT !.at = "idle"]
  <2>1. writer[w].at = "commit" /\ writer' = [writer EXCEPT ![w] = h]
    BY <1>1, <1>6 DEF R!CommitData
  <2>2. h \in Handle /\ h.path = writer[w].path /\ h.state = writer[w].state /\ h.at = "idle"
    BY <1>1
  <2> HIDE DEF h, Handle
  <2> QED
    BY <1>1, <1>2, <2>1, <2>2
<1>7. ASSUME R!Abort(w) PROVE RamTypes'
  <2> DEFINE h == [writer[w] EXCEPT !.state = "aborted"]
  <2>1. writer[w].state = "creating" /\ writer' = [writer EXCEPT ![w] = h]
    BY <1>1, <1>7 DEF R!Abort
  <2>2. h \in Handle /\ h.path = writer[w].path /\ h.state = "aborted" /\ h.at = writer[w].at
    BY <1>1
  <2> HIDE DEF h, Handle
  <2> QED
    BY <1>1, <1>2, <2>1, <2>2
<1> QED
  BY <1>3, <1>4, <1>5, <1>6, <1>7

\* Every call, the start, and what is not a call of this driver.
LEMMA RamStep == RamInv /\ R!Next => RamDoes /\ RamInv'
<1> SUFFICES ASSUME RamInv, R!Next PROVE RamDoes /\ RamInv'
  OBVIOUS
<1>1. ASSUME UNCHANGED <<inodes, nextIno, files, dirs>> PROVE RamTree'
  BY <1>1, Zenon DEF RamInv, RamTree, IsTree
<1>2. ASSUME UNCHANGED writer PROVE RamTypes'
  BY <1>2 DEF RamInv, RamTypes
<1>3. ASSUME NEW p \in Paths, R!RemovePath(p) PROVE RamDoes /\ RamInv'
  <2>1. R!S!RemovePath(answer'.path) /\ RamTree' /\ writer' = writer
    BY <1>3, RemoveStep
  <2> QED
    BY <1>2, <2>1 DEF RamDoes, R!S!Step, R!S!Call, RamInv
<1>4. ASSUME NEW w \in Writers, NEW p \in Paths, R!Create(w, p) PROVE RamDoes /\ RamInv'
  <2>1. RamTypes'
    BY <1>4, WritersKeep DEF RamInv
  <2>2. UNCHANGED <<inodes, nextIno, files, dirs, answer>>
    BY <1>4 DEF R!Create, R!treeVars
  <2> QED
    BY <1>1, <2>1, <2>2 DEF RamDoes, RamInv
<1>5. ASSUME NEW w \in Writers, R!Commit(w) \/ R!Write(w) \/ R!Abort(w) PROVE RamDoes /\ RamInv'
  <2>1. RamTypes'
    BY <1>5, WritersKeep DEF RamInv
  <2>2. UNCHANGED <<inodes, nextIno, files, dirs, answer>>
    BY <1>5 DEF R!Commit, R!Write, R!Abort, R!treeVars
  <2> QED
    BY <1>1, <2>1, <2>2 DEF RamDoes, RamInv
<1>6. ASSUME NEW w \in Writers, R!CommitData(w) PROVE RamDoes /\ RamInv'
  <2>1. RamTypes'
    BY <1>6, WritersKeep DEF RamInv
  <2>2. (\E d \in Datas : R!S!Commit(answer'.path, d)) /\ RamTree'
    BY <1>6, CommitStep
  <2> QED
    BY <2>1, <2>2 DEF RamDoes, R!S!Step, R!S!Call, RamInv, Datas
<1>7. ASSUME R!Return PROVE RamDoes /\ RamInv'
  <2>1. UNCHANGED <<inodes, nextIno, files, dirs, writer>> /\ answer'.op = "none"
    BY <1>7 DEF R!Return, R!treeVars, R!NoAnswer
  <2> QED
    BY <1>1, <1>2, <2>1 DEF RamDoes, R!S!Step, R!S!Return, RamInv
<1>8. ASSUME NEW p \in Paths, R!Open(p) \/ R!Stat(p) \/ R!Readdir(p) PROVE RamDoes /\ RamInv'
  <2>1. /\ R!S!Open(answer'.path) \/ R!S!Stat(answer'.path) \/ R!S!Readdir(answer'.path)
        /\ UNCHANGED <<inodes, nextIno, files, dirs, writer>>
    BY <1>8, OpenStep, StatStep, ReaddirStep
  <2> QED
    BY <1>1, <1>2, <2>1 DEF RamDoes, R!S!Step, R!S!Call, RamInv
<1>9. ASSUME NEW p \in Paths, R!Panic(p) PROVE RamDoes /\ RamInv'
  <2>1. UNCHANGED <<inodes, nextIno, files, dirs, writer>> /\ ~R!Rooted
    BY <1>9 DEF R!Panic, R!treeVars
  <2>2. <<>> \notin dirs
    <3>1. ASSUME NEW at1, IsTree(inodes, nextIno, at1, files, dirs) PROVE FALSE
      BY <2>1, <3>1, Reached DEF IsTree, R!Rooted
    <3> QED
      BY <3>1 DEF RamInv, RamTree
  <2> QED
    BY <1>1, <1>2, <2>1, <2>2 DEF RamDoes, R!S!Step, R!S!Rootless, RamInv
<1> QED
  BY <1>3, <1>4, <1>5, <1>6, <1>7, <1>8, <1>9 DEF R!Next, R!Change

LEMMA RamInit == R!Init => RamInv
<1> SUFFICES ASSUME R!Init PROVE RamInv
  OBVIOUS
<1>1. RamTypes
  BY RamAssumption DEF R!Init, R!NoWriter, RamTypes
<1>2. \E at1 : TreeAt(R!NewDriver.inodes, R!NewDriver.nextIno, at1)
  <2> DEFINE is == R!NewDriver.inodes
             at1 == [q \in {<<>>} |-> 1]
  <2>1. /\ DOMAIN is = {1} /\ R!NewDriver.nextIno = 2
        /\ is[1].dir /\ DOMAIN is[1] = {"dir", "entries", "file"} /\ DOMAIN is[1].entries = Dots
        /\ is[1].entries["."] = 1 /\ is[1].entries[".."] = 1
    BY DEF R!NewDriver, R!newDirInode, R!rootIno, Dots
  <2>2. DOMAIN at1 = {<<>>} /\ at1[<<>>] = 1 /\ <<>> \in Place /\ Len(<<>>) = 0 /\ Depth \in Nat
    BY RamAssumption DEF Place
  <2>3. at1 \in [DOMAIN at1 -> DOMAIN is]
    BY <2>1, <2>2
  <2> HIDE DEF is, at1
  <2>4. TreeAt(is, R!NewDriver.nextIno, at1)
    BY <2>1, <2>2, <2>3 DEF TreeAt
  <2> QED
    BY <2>4 DEF is
<1>3. Len(Preload) \in Nat /\ DOMAIN Preload = 1 .. Len(Preload)
  <2>1. Preload \in Seq({Preload[i] : i \in DOMAIN Preload})
    BY RamAssumption
  <2> QED
    BY <2>1, LenProperties
<1> DEFINE n == Len(Preload)
<1>4. PICK w : /\ w[0] = R!NewDriver
               /\ \A k \in 1 .. n : w[k] = R!commit(w[k - 1], Preload[k], <<"preload", 0>>)
               /\ R!preloaded = w[n]
  BY <1>3, FoldPreload
<1> DEFINE Rooted(k) == \E at1 : TreeAt(w[k].inodes, w[k].nextIno, at1)
           Good == {k \in Nat : k <= n => Rooted(k)}
<1>5. 0 \in Good
  BY <1>2, <1>4
<1>6. ASSUME NEW k \in Nat, k \in Good PROVE k + 1 \in Good
  <2> SUFFICES ASSUME k + 1 <= n PROVE Rooted(k + 1)
    OBVIOUS
  <2> DEFINE p == Preload[k + 1]
             r == w[k + 1]
             d == w[k]
             data == <<"preload", 0>>
  <2>1. k + 1 \in 1 .. n /\ k + 1 - 1 = k /\ k <= n
    BY <1>3
  <2>2. PICK at1 : TreeAt(d.inodes, d.nextIno, at1)
    BY <1>6, <2>1
  <2>3. p \in Paths \cup {Preload[i] : i \in DOMAIN Preload}
    BY <1>3, <2>1
  <2>4. r = R!commit(d, p, data)
    <3> DEFINE j == k + 1
    <3>1. j \in 1 .. n /\ j - 1 = k
      BY <2>1
    <3> HIDE DEF j
    <3>2. w[j] = R!commit(w[j - 1], Preload[j], <<"preload", 0>>)
      BY <1>4, <3>1
    <3> QED
      BY <3>1, <3>2 DEF j
  <2> HIDE DEF p, r, d, data
  <2>5. Outcome(d.inodes, d.nextIno, at1, R!Clean(p), data, r)
    BY <2>2, <2>3, <2>4, Committed
  <2>6. \E at2 : TreeAt(r.inodes, r.nextIno, at2)
    <3>1. CASE KindAt(d.inodes, at1, R!Clean(p)) \in {"file", "ENOENT"}
      BY <2>5, <3>1, Zenon DEF Outcome, IsTree
    <3>2. CASE KindAt(d.inodes, at1, R!Clean(p)) \notin {"file", "ENOENT"}
      <4>1. r.inodes = d.inodes /\ r.nextIno = d.nextIno
        BY <2>5, <3>2 DEF Outcome
      <4> QED
        BY <2>2, <4>1
    <3> QED
      BY <3>1, <3>2
  <2> QED
    BY <2>6 DEF r
<1>7. Rooted(n)
  <2>1. Nat \subseteq Good
    <3> HIDE DEF Good
    <3> QED
      BY <1>5, <1>6, Numbers
  <2>2. n \in Good
    BY <1>3, <2>1
  <2> HIDE DEF Rooted, n
  <2> QED
    BY <1>3, <2>2 DEF n
<1>8. inodes = R!preloaded.inodes /\ nextIno = R!preloaded.nextIno
      /\ files = R!Files(inodes, R!Reach(inodes)) /\ dirs = R!DirPaths(inodes, R!Reach(inodes))
  BY DEF R!Init
<1>9. PICK at1 : TreeAt(inodes, nextIno, at1)
  BY <1>4, <1>7, <1>8
<1>10. IsTree(inodes, nextIno, at1, files, dirs)
  BY <1>8, <1>9, Reached DEF IsTree
<1> QED
  BY <1>1, <1>10, Zenon DEF RamInv, RamTree

LEMMA RamAlone == RamInv /\ [Next]_vars => RamInv' /\ RamDoes
<1> SUFFICES ASSUME RamInv, [Next]_vars PROVE RamInv' /\ RamDoes
  OBVIOUS
<1>1. ASSUME UNCHANGED ramVars PROVE RamInv' /\ RamDoes
  BY <1>1, Zenon DEF ramVars, RamInv, RamTypes, RamTree, IsTree, RamDoes
<1>2. CASE Ram
  BY <1>2, RamStep DEF Ram
<1>3. CASE Meanwhile
  <2>1. R!Next
    BY <1>3 DEF Meanwhile, R!Next
  <2> QED
    BY <2>1, RamStep
<1>4. CASE Front \/ Visiting(V!Next) \/ Region(G!Next) \/ Writing(W!Next) \/ Listing(L!Next) \/ Http(H!Next)
  <2>1. UNCHANGED ramVars
    BY <1>4 DEF Front, Register, Call, driverVars, Visiting, Region, Writing, Listing, Http
  <2> QED
    BY <1>1, <2>1
<1>5. CASE UNCHANGED vars
  BY <1>1, <1>5 DEF vars
<1> QED
  BY <1>2, <1>3, <1>4, <1>5 DEF Next

\* The RAM driver is an object store: whatever is called, created and removed,
\* alone or during a visit, what a call answers is true of the tree at that
\* moment (ram.go: traverse, commit, Remove, Readdir).
THEOREM RamIsObjectStore == Init /\ [][Next]_vars => ImplementsObjectStore
<1>1. Init => RamInv
  BY RamInit DEF Init
<1>2. RamInv /\ [Next]_vars => RamInv'
  BY RamAlone
<1>3. RamInv /\ [Next]_vars => [R!S!Step(Writers \X (0 .. MaxWrites))]_<<files, dirs, answer>>
  BY RamAlone DEF RamDoes
<1> QED
  BY <1>1, <1>2, <1>3, PTL DEF ImplementsObjectStore, R!ImplementsObjectStore
============================================================================

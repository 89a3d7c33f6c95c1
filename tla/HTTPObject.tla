----------------------------- MODULE HTTPObject -----------------------------
(***************************************************************************)
(* pkg/storage/http: an object behind a URL, read by range requests.  Its  *)
(* size is asked once, when it is needed (Size, sync.Once, Stat), and its  *)
(* readers run concurrently.  Meanwhile the object at the server may be    *)
(* replaced or removed.                                                    *)
(*                                                                         *)
(* Bytes are named by the version of the object they are of and their      *)
(* place in it: the body of an answer is the version and its range.        *)
(***************************************************************************)
EXTENDS Integers, Transport

CONSTANTS Home,        \* the host of the object
          Size,        \* Size[v]: the bytes of version v, 0 for no object
          Declared,    \* the sizes Open is told, -1 for an unknown one
          Reads,       \* the reads, [off, len] each
          MaxCalls     \* bound on calls

VARIABLES
    content,   \* at the server: the version, or 0
    size, sizeOnce, sizeErr,    \* the fields of object
    call,      \* call[r]: where a caller is
    seen,      \* seen[r]: the versions that were there during the call (ghost)
    calls

objVars == <<content, size, sizeOnce, sizeErr, call, seen, calls>>

NoCall == [op |-> "none", at |-> "idle", off |-> 0, end |-> 0, err |-> "none",
           v |-> 0, from |-> 0, n |-> 0]

Init ==
    /\ NetInit
    /\ content = 1
    /\ size = -1
    /\ sizeOnce = "closed"
    /\ sizeErr = "none"
    /\ call = [r \in Reqs |-> NoCall]
    /\ seen = [r \in Reqs |-> {}]
    /\ calls = 0

Is(r, op, at) == ~panicked /\ call[r].op = op /\ call[r].at = at
Now(r, at)    == call' = [call EXCEPT ![r].at = at]
Return(r, err) == call' = [call EXCEPT ![r].at = "return", ![r].err = err]

----------------------------------------------------------------------------
(* The server *)

Becomes(v) ==
    /\ content' = v
    /\ seen' = [r \in Reqs |-> IF call[r].at = "idle" THEN {} ELSE seen[r] \cup {v}]

\* Somebody replaces the object, or removes it.
Replace ==
    /\ ~panicked /\ Fault
    /\ \E v \in DOMAIN Size \ {content} : Becomes(v)
    /\ UNCHANGED <<lru, ips, reqnum, req, panicked, size, sizeOnce, sizeErr, call, calls>>

Status(s) == [NoResp EXCEPT !.status = s]

Body(s, v, first, last) ==
    [status |-> s, v |-> v, first |-> first, last |-> last, total |-> Size[v], len |-> last + 1 - first]

\* What a server should answer.
Proper(q) ==
    IF content = 0 THEN Status(404)
    ELSE CASE q.ask = "HEAD" -> [Status(200) EXCEPT !.len = Size[content]]
           [] q.ask = "GET"  -> IF q.first >= Size[content] THEN Status(416)
                                ELSE Body(206, content, q.first, IF q.last < Size[content] THEN q.last
                                                                 ELSE Size[content] - 1)
           [] q.ask = "WHOLE"  -> Body(200, content, 0, Size[content] - 1)
           [] q.ask = "DELETE" -> Status(204)

\* What it may answer instead: it is busy, does not support HEAD or ranges,
\* takes a range of its own choice, or says a length that is not the range's.
Odd(q) ==
    IF content = 0 THEN {Status(500)}
    ELSE {Status(500), Status(429)}
         \cup (IF q.ask = "HEAD" THEN {Status(405), [Status(200) EXCEPT !.len = -1]} ELSE {})
         \cup (IF q.ask = "GET" THEN {Body(200, content, 0, Size[content] - 1),
                                      Body(206, content, 0, Size[content] - 1),
                                      [Body(206, content, 0, Size[content] - 1) EXCEPT !.len = @ - 1]}
                                ELSE {})

Effect(q) == IF q.ask = "DELETE" THEN Becomes(0) ELSE UNCHANGED <<content, seen>>

Answer(r) ==
    /\ Serve(r, Proper(req[r])) /\ Effect(req[r])
    /\ UNCHANGED <<faults, size, sizeOnce, sizeErr, call, calls>>

AnswerOdd(r) ==
    /\ Fault
    /\ \E resp \in Odd(req[r]) : Serve(r, resp)
    /\ UNCHANGED <<objVars>>

\* The server acts and its answer is lost.
AnswerLost(r) ==
    /\ Fault
    /\ Serve(r, NoResp) /\ Effect(req[r])
    /\ UNCHANGED <<size, sizeOnce, sizeErr, call, calls>>

----------------------------------------------------------------------------
(* Calls *)

Begin(r, op, off, len) ==
    /\ ~panicked /\ call[r].at = "idle" /\ calls < MaxCalls
    /\ calls' = calls + 1
    /\ call' = [call EXCEPT ![r] = [NoCall EXCEPT !.op = op, !.at = "begin", !.off = off,
                                                  !.end = off + len]]
    /\ seen' = [seen EXCEPT ![r] = {content}]
    /\ UNCHANGED <<netVars, content, size, sizeOnce, sizeErr>>

\* The caller has the result.
End(r) ==
    /\ ~panicked /\ call[r].at = "return"
    /\ call' = [call EXCEPT ![r] = NoCall]
    /\ seen' = [seen EXCEPT ![r] = {}]
    /\ req' = [req EXCEPT ![r] = NoReq]
    /\ UNCHANGED <<lru, ips, reqnum, panicked, faults, content, size, sizeOnce, sizeErr, calls>>

\* Driver.Open: an object with the size that was declared, or -1.
Open(n) ==
    /\ ~panicked /\ sizeOnce = "closed"
    /\ size' = n /\ sizeOnce' = "no"
    /\ UNCHANGED <<netVars, content, sizeErr, call, seen, calls>>

\* ReadAt needs the size: sync.Once lets one caller ask for it, the others wait.
SizeOnce(r) ==
    /\ Is(r, "ReadAt", "begin") /\ sizeOnce # "busy"
    /\ IF sizeOnce = "no" /\ size < 0
       THEN Ask(r, Home, "HEAD", 0, 0) /\ sizeOnce' = "busy" /\ Now(r, "head")
       ELSE UNCHANGED netVars /\ sizeOnce' = "done" /\ Now(r, "sized")
    /\ UNCHANGED <<content, size, sizeErr, seen, calls>>

\* The Stat inside Size is done.
Sized(r, n, err) ==
    /\ size' = n /\ sizeErr' = err /\ sizeOnce' = "done"
    /\ Now(r, "sized")
    /\ UNCHANGED netVars

\* Stat: HEAD, or the whole object from a server that does not support it.
StatHead(r) ==
    LET resp == req[r].resp
    IN /\ Is(r, "ReadAt", "head") /\ req[r].at = "done"
       /\ CASE req[r].ask = "HEAD" /\ resp.status = 405 ->
                  /\ Ask(r, Home, "WHOLE", 0, 0)
                  /\ UNCHANGED <<size, sizeErr, sizeOnce, call>>
            [] resp.status = 404 /\ req[r].ask = "HEAD" -> Sized(r, -1, "ErrNotExist")
            [] resp.status # 200 \/ resp.len < 0 -> Sized(r, -1, "error")
            [] OTHER -> Sized(r, resp.len, "none")
       /\ UNCHANGED <<content, seen, calls>>

\* The range is cut at the size.
GetRange(r) ==
    LET end == IF call[r].end > size THEN size ELSE call[r].end
    IN /\ Is(r, "ReadAt", "sized")
       /\ IF sizeErr # "none" THEN Return(r, sizeErr) /\ UNCHANGED netVars
          ELSE IF call[r].off >= size THEN Return(r, "EOF") /\ UNCHANGED netVars
          ELSE /\ Ask(r, Home, "GET", call[r].off, end - 1)
               /\ call' = [call EXCEPT ![r].at = "get", ![r].end = end]
       /\ UNCHANGED <<content, size, sizeOnce, sizeErr, seen, calls>>

\* GetContentRange
ValidRange(resp) == resp.total > 0 => /\ resp.first <= resp.last
                                      /\ resp.first < resp.total /\ resp.last < resp.total

\* Mutant: the range of the answer is not compared with the one asked for.
AcceptedAny(c, resp) ==
    /\ resp.status = 206 /\ ValidRange(resp)
    /\ resp.total >= size
    /\ resp.last + 1 - resp.first = resp.len

\* What ReadAt wants of an answer before it reads the body.
Accepted(c, resp) ==
    /\ resp.status = 206 /\ ValidRange(resp)
    /\ resp.total >= size
    /\ resp.last + 1 - resp.first = resp.len
    /\ resp.first = c.off /\ resp.last = c.end - 1

ReadBody(r) ==
    LET resp == req[r].resp
    IN /\ Is(r, "ReadAt", "get") /\ req[r].at = "done"
       /\ IF Accepted(call[r], resp)
          THEN call' = [call EXCEPT ![r].at = "return", ![r].v = resp.v, ![r].from = resp.first,
                                    ![r].n = resp.len]
          ELSE Return(r, IF resp.status = 404 THEN "ErrNotExist" ELSE "error")
       /\ UNCHANGED <<netVars, content, size, sizeOnce, sizeErr, seen, calls>>

\* The connection breaks while the body is read: fewer bytes, and an error.
ReadBodyErr(r) ==
    /\ Is(r, "ReadAt", "get") /\ req[r].at = "done" /\ Accepted(call[r], req[r].resp)
    /\ Fault
    /\ Return(r, "UnexpectedEOF")
    /\ UNCHANGED <<lru, ips, reqnum, req, panicked, content, size, sizeOnce, sizeErr, seen, calls>>

\* Driver.Remove and Delete.
Delete(r) ==
    /\ Is(r, "Remove", "begin")
    /\ Ask(r, Home, "DELETE", 0, 0)
    /\ Now(r, "delete")
    /\ UNCHANGED <<content, size, sizeOnce, sizeErr, seen, calls>>

Deleted(r) ==
    /\ Is(r, "Remove", "delete") /\ req[r].at = "done"
    /\ Return(r, IF req[r].resp.status = 204 THEN "none" ELSE "error")
    /\ UNCHANGED <<netVars, content, size, sizeOnce, sizeErr, seen, calls>>

\* A request of another object, on another host.
Elsewhere(r, h) ==
    /\ Is(r, "Elsewhere", "begin") /\ h # Home
    /\ Ask(r, h, "HEAD", 0, 0)
    /\ Now(r, "other")
    /\ UNCHANGED <<content, size, sizeOnce, sizeErr, seen, calls>>

ElsewhereDone(r) ==
    /\ Is(r, "Elsewhere", "other") /\ req[r].at = "done"
    /\ Return(r, "none")
    /\ UNCHANGED <<netVars, content, size, sizeOnce, sizeErr, seen, calls>>

----------------------------------------------------------------------------
Client(r) == \/ SizeOnce(r) \/ StatHead(r) \/ GetRange(r) \/ ReadBody(r)
             \/ Delete(r) \/ Deleted(r) \/ End(r)
             \/ \E h \in Hosts : Elsewhere(r, h)
             \/ ElsewhereDone(r)

Start(r) == \/ sizeOnce # "closed" /\ \E x \in Reads : Begin(r, "ReadAt", x.off, x.len)
            \/ Begin(r, "Remove", 0, 0) \/ Begin(r, "Elsewhere", 0, 0)

Net == NetNext /\ UNCHANGED objVars

Next == \/ Net \/ Replace \/ \E n \in Declared : Open(n)
        \/ \E r \in Reqs : Start(r) \/ Client(r) \/ ReadBodyErr(r) \/ Answer(r) \/ AnswerOdd(r) \/ AnswerLost(r)

----------------------------------------------------------------------------
(* Properties *)

\* What a call answers is true.  A ReadAt that succeeds returns all the bytes it
\* asked for, up to the size of the object, of one version that was there
\* during the call, whatever the server answered and whatever was retried; a
\* Remove that succeeds left no object behind at some moment of the call
\* (ReadAt's checks of the answer, Delete, the retries).
AnswersTrue ==
    \A r \in Reqs : call[r].at = "return" /\ call[r].err = "none" =>
        /\ call[r].op = "ReadAt" => /\ call[r].v \in seen[r]
                                    /\ call[r].from = call[r].off
                                    /\ call[r].off + call[r].n = call[r].end
        /\ call[r].op = "Remove" => 0 \in seen[r]

\* Every call returns: the waiters for the size, the retries of a request whose
\* client has timed out or whose host has no address (Size, retry), unless the
\* process dies of a host too many (StopResolving).  (Calls are finitely many, so
\* all of them have returned again and again.)
HttpReturns == []<>(panicked \/ \A r \in Reqs : call[r].at = "idle")
=============================================================================

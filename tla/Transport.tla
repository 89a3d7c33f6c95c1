------------------------------ MODULE Transport ------------------------------
(***************************************************************************)
(* pkg/httputil: how a request of the HTTP and S3 drivers gets to a server *)
(* and back.  retryingRoundTripper tries it again; roundRobinTransport     *)
(* finds the transport of its host in an LRU, or makes one; and that takes *)
(* the host's addresses in turn, as they were last resolved.               *)
(*                                                                         *)
(* A request is followed by its number of attempts and by what it asks for *)
(* and is answered; the server is in the module of the driver.             *)
(***************************************************************************)
EXTENDS Naturals, SequencesExt

CONSTANTS Reqs,          \* requests in progress at one time
          Hosts, MaxHosts,
          Addrs,         \* Addrs[h]: the addresses of host h
          Up,            \* the addresses that answer
          MaxTries,      \* attempts that MaxElapsedTime leaves room for
          MaxFaults      \* bound on faults of the network, the resolver and the server

VARIABLES
    lru,       \* roundRobinTransport.lru: the hosts, the one used last at the end
    ips,       \* ips[h]: the addresses of host h in their order
    reqnum,    \* reqnum[h], modulo the number of addresses
    req,       \* req[r]: a request on its way
    panicked,  \* the process has died
    faults

netVars == <<lru, ips, reqnum, req, panicked, faults>>

NoResp == [status |-> 0, v |-> 0, first |-> 0, last |-> 0, total |-> 0, len |-> 0]

NoReq == [at |-> "idle", host |-> "", ask |-> "", first |-> 0, last |-> 0,
          ip |-> "", tries |-> 0, late |-> FALSE, resp |-> NoResp]

NetInit ==
    /\ lru = <<>>
    /\ ips = [h \in Hosts |-> <<>>]
    /\ reqnum = [h \in Hosts |-> 0]
    /\ req = [r \in Reqs |-> NoReq]
    /\ panicked = FALSE
    /\ faults = 0

At(r, at) == ~panicked /\ req[r].at = at
Go(r, at) == [req EXCEPT ![r].at = at]

Fault == faults < MaxFaults /\ faults' = faults + 1

\* The orders that Shuffle can make of the addresses.
Shuffles(h) == {s \in [1 .. Len(Addrs[h]) -> ToSet(Addrs[h])] : IsInjective(s)}

\* Resolve: the new addresses, or the old ones when the lookup fails.
Resolve(h, known) ==
    \/ ips' = [ips EXCEPT ![h] = known] /\ Fault
    \/ UNCHANGED faults /\ \E s \in Shuffles(h) : ips' = [ips EXCEPT ![h] = s]

\* roundRobinTransport.RoundTrip under its lock: an LRU hit, or a transport for
\* the host, resolved once.  The host that has to go stops resolving, with
\* close() of a channel that is nil.
Pick(r) ==
    LET h == req[r].host
    IN /\ At(r, "pick")
       /\ lru' = Append(SelectSeq(lru, LAMBDA x : x # h), h)
       /\ IF h \in ToSet(lru) THEN UNCHANGED <<ips, faults>> ELSE Resolve(h, <<>>)
       /\ panicked' = (Len(lru') > MaxHosts)
       /\ req' = Go(r, "send")
       /\ UNCHANGED reqnum

\* hostRoundRobinTransport.RoundTrip: the request's number and its address.
Choose(r) ==
    LET h == req[r].host
        n == reqnum[h] + 1
        k == Len(ips[h])
    IN /\ At(r, "send")
       /\ reqnum' = [reqnum EXCEPT ![h] = IF k = 0 THEN @ ELSE n % k]
       /\ req' = IF k = 0 THEN [req EXCEPT ![r].at = "tried", ![r].resp = NoResp]
                 ELSE [req EXCEPT ![r].at = "sent", ![r].ip = ips[h][(n % k) + 1]]
       /\ UNCHANGED <<lru, ips, panicked, faults>>

\* resolveLoop, minutes later.  (A lookup that fails changes nothing.)
ResolveAgain(h) ==
    /\ ~panicked /\ h \in ToSet(lru)
    /\ Fault
    /\ \E s \in Shuffles(h) : ips' = [ips EXCEPT ![h] = s]
    /\ UNCHANGED <<lru, reqnum, req, panicked>>

\* The server answers the attempt.
Serve(r, resp) ==
    /\ At(r, "sent") /\ req[r].ip \in Up
    /\ req' = [req EXCEPT ![r].at = "tried", ![r].resp = resp]
    /\ UNCHANGED <<lru, ips, reqnum, panicked>>

\* No answer: nobody at the address, or the client's timeout has passed, after
\* which every attempt fails at once.
NoAnswer(r) ==
    /\ At(r, "sent")
    /\ req[r].ip \notin Up \/ req[r].late
    /\ req' = [req EXCEPT ![r].at = "tried", ![r].resp = NoResp]
    /\ UNCHANGED <<lru, ips, reqnum, panicked, faults>>

\* Client.Timeout: the request is cancelled, but not the retries.
Deadline(r) ==
    /\ ~panicked /\ req[r].at \in {"pick", "send", "sent", "tried"}
    /\ ~req[r].late /\ Fault
    /\ req' = [req EXCEPT ![r].late = TRUE]
    /\ UNCHANGED <<lru, ips, reqnum, panicked>>

\* An error, a 5xx and a 429 are worth another attempt.
Retry(resp) == resp.status = 0 \/ resp.status >= 500 \/ resp.status = 429

\* Mutant: the backoff never says stop.
TriedForever(r) ==
    /\ At(r, "tried")
    /\ req' = IF Retry(req[r].resp) THEN [req EXCEPT ![r].at = "pick"] ELSE Go(r, "done")
    /\ UNCHANGED <<lru, ips, reqnum, panicked, faults>>

\* retry: the next attempt, until NextBackOff says stop; the caller gets the
\* last answer.
Tried(r) ==
    /\ At(r, "tried")
    /\ req' = IF Retry(req[r].resp) /\ req[r].tries + 1 < MaxTries
              THEN [req EXCEPT ![r].at = "pick", ![r].tries = @ + 1]
              ELSE Go(r, "done")
    /\ UNCHANGED <<lru, ips, reqnum, panicked, faults>>

\* A request leaves a driver.
Ask(r, host, ask, first, last) ==
    /\ req' = [req EXCEPT ![r] = [NoReq EXCEPT !.at = "pick", !.host = host, !.ask = ask,
                                               !.first = first, !.last = last]]
    /\ UNCHANGED <<lru, ips, reqnum, panicked, faults>>

NetStep(r) == Pick(r) \/ Choose(r) \/ NoAnswer(r) \/ Tried(r)
NetNext == (\E r \in Reqs : NetStep(r) \/ Deadline(r)) \/ \E h \in Hosts : ResolveAgain(h)
=============================================================================

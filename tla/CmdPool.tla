------------------------------ MODULE CmdPool ------------------------------
(***************************************************************************)
(* pkg/blockdev/cmdpool.go: the goroutines that serve SCSI commands.  Each *)
(* ready device has a feeder that takes commands from the channel `in` and *)
(* offers them to the workers, which are shared by all the devices; a      *)
(* worker answers on the channel `out` of the device.  When `in` is closed *)
(* the feeder waits for the answers that are outstanding and closes `out`; *)
(* Close stops feeders and workers wherever they are.                      *)
(*                                                                         *)
(* All the channels are unbuffered: a send and its receive are one step.   *)
(* The kernel side, go-tcmu, sends commands, reads answers and closes in.  *)
(***************************************************************************)
EXTENDS Integers, FiniteSets

CONSTANTS Workers, Devs,
          Cmds,           \* commands, each sent once at most
          DevOf,          \* DevOf[c]: the device of command c
          Idle, Gone,     \* a worker without a command; one that returned
          Fickle          \* devices whose answers go-tcmu may stop reading

ASSUME PoolAssumption == /\ IsFiniteSet(Cmds) /\ IsFiniteSet(Workers) /\ IsFiniteSet(Devs)
                         /\ DevOf \in [Cmds -> Devs]
                         /\ Idle \notin Cmds /\ Gone \notin Cmds /\ Idle # Gone
                         /\ Workers \cap Devs = {}
                         /\ Fickle \subseteq Devs

VARIABLES
    feeder,       \* feeder[d]: where the feeder of d is
    worker,       \* worker[w]: the command that w works on, or Idle or Gone
    cmd,          \* cmd[c]: how far command c is
    outstanding,  \* outstanding[d]: the WaitGroup of the feeder
    inClosed,     \* devices whose channel in is closed
    outClosed,    \* devices whose channel out is closed
    deaf,         \* devices whose answers nobody reads any more
    wg,           \* CmdPool.wg
    closer,       \* where Close is
    panic         \* why the process died, or "no"

vars == <<feeder, worker, cmd, outstanding, inClosed, outClosed, deaf, wg, closer, panic>>

TypeOK ==
    /\ feeder \in [Devs -> {"none", "recv", "offer", "drain", "gone"}]
    /\ worker \in [Workers -> Cmds \cup {Idle, Gone}]
    /\ cmd \in [Cmds -> {"new", "held", "handling", "reply", "sent", "done", "dropped"}]
    /\ outstanding \in [Devs -> Nat]
    /\ inClosed \in SUBSET Devs
    /\ outClosed \in SUBSET Devs
    /\ deaf \in SUBSET Devs
    /\ wg \in Nat
    /\ closer \in {"open", "waiting", "closed"}
    /\ panic \in {"no", "handler", "send on closed channel", "negative WaitGroup counter"}

\* NewCmdPool starts the workers.
Init ==
    /\ feeder = [d \in Devs |-> "none"]
    /\ worker = [w \in Workers |-> Idle]
    /\ cmd = [c \in Cmds |-> "new"]
    /\ outstanding = [d \in Devs |-> 0]
    /\ inClosed = {}
    /\ outClosed = {}
    /\ deaf = {}
    /\ wg = Cardinality(Workers)
    /\ closer = "open"
    /\ panic = "no"

Alive == panic = "no"
Done  == closer # "open"     \* the channel done is closed

----------------------------------------------------------------------------
(* The feeder of a device *)

\* go-tcmu found the device ready, before the manager is closed.
DevReady(d) ==
    /\ Alive
    /\ closer = "open"
    /\ feeder[d] = "none"
    /\ feeder' = [feeder EXCEPT ![d] = "recv"]
    /\ wg' = wg + 1
    /\ UNCHANGED <<worker, cmd, outstanding, inClosed, outClosed, deaf, closer, panic>>

\* Mutant: the command is counted when it is answered, not when it is taken.
FeedRecvUncounted(d, c) ==
    /\ Alive
    /\ feeder[d] = "recv"
    /\ d \notin inClosed
    /\ cmd[c] = "new" /\ DevOf[c] = d
    /\ cmd' = [cmd EXCEPT ![c] = "held"]
    /\ feeder' = [feeder EXCEPT ![d] = "offer"]
    /\ UNCHANGED <<worker, outstanding, inClosed, outClosed, deaf, wg, closer, panic>>

\* A command arrives; it is counted before any worker can see it.
FeedRecv(d, c) ==
    /\ Alive
    /\ feeder[d] = "recv"
    /\ d \notin inClosed
    /\ cmd[c] = "new" /\ DevOf[c] = d
    /\ cmd' = [cmd EXCEPT ![c] = "held"]
    /\ outstanding' = [outstanding EXCEPT ![d] = @ + 1]
    /\ feeder' = [feeder EXCEPT ![d] = "offer"]
    /\ UNCHANGED <<worker, inClosed, outClosed, deaf, wg, closer, panic>>

\* A free worker takes the command.
Offer(d, c, w) ==
    /\ Alive
    /\ feeder[d] = "offer"
    /\ cmd[c] = "held" /\ DevOf[c] = d
    /\ worker[w] = Idle
    /\ worker' = [worker EXCEPT ![w] = c]
    /\ cmd' = [cmd EXCEPT ![c] = "handling"]
    /\ feeder' = [feeder EXCEPT ![d] = "recv"]
    /\ UNCHANGED <<outstanding, inClosed, outClosed, deaf, wg, closer, panic>>

\* The channel in is closed and empty.
FeedEOF(d) ==
    /\ Alive
    /\ feeder[d] = "recv"
    /\ d \in inClosed
    /\ feeder' = [feeder EXCEPT ![d] = "drain"]
    /\ UNCHANGED <<worker, cmd, outstanding, inClosed, outClosed, deaf, wg, closer, panic>>

\* Mutant: close out without waiting for the outstanding answers.
FeedDrainedEarly(d) ==
    /\ Alive
    /\ feeder[d] = "drain"
    /\ outClosed' = outClosed \cup {d}
    /\ feeder' = [feeder EXCEPT ![d] = "gone"]
    /\ wg' = wg - 1
    /\ UNCHANGED <<worker, cmd, outstanding, inClosed, deaf, closer, panic>>

\* Nothing is outstanding: close out and return.
FeedDrained(d) ==
    /\ Alive
    /\ feeder[d] = "drain"
    /\ outstanding[d] = 0
    /\ outClosed' = outClosed \cup {d}
    /\ feeder' = [feeder EXCEPT ![d] = "gone"]
    /\ wg' = wg - 1
    /\ UNCHANGED <<worker, cmd, outstanding, inClosed, deaf, closer, panic>>

\* Mutant: the inner select does not watch the channel done.
FeedDoneRecv(d) ==
    /\ Alive
    /\ Done
    /\ feeder[d] = "recv"
    /\ feeder' = [feeder EXCEPT ![d] = "gone"]
    /\ wg' = wg - 1
    /\ UNCHANGED <<worker, cmd, outstanding, inClosed, outClosed, deaf, closer, panic>>

\* The pool is done: return, with the command in hand if there is one.
FeedDone(d) ==
    /\ Alive
    /\ Done
    /\ feeder[d] \in {"recv", "offer"}
    /\ feeder' = [feeder EXCEPT ![d] = "gone"]
    /\ cmd' = [c \in Cmds |-> IF DevOf[c] = d /\ cmd[c] = "held" THEN "dropped" ELSE cmd[c]]
    /\ wg' = wg - 1
    /\ UNCHANGED <<worker, outstanding, inClosed, outClosed, deaf, closer, panic>>

----------------------------------------------------------------------------
(* A worker *)

\* HandleCommand returns a response.
Handle(w, c) ==
    /\ Alive
    /\ worker[w] = c
    /\ cmd[c] = "handling"
    /\ cmd' = [cmd EXCEPT ![c] = "reply"]
    /\ UNCHANGED <<feeder, worker, outstanding, inClosed, outClosed, deaf, wg, closer, panic>>

\* HandleCommand returns an error, and the worker panics.
HandleErr(w, c) ==
    /\ Alive
    /\ worker[w] = c
    /\ cmd[c] = "handling"
    /\ panic' = "handler"
    /\ UNCHANGED <<feeder, worker, cmd, outstanding, inClosed, outClosed, deaf, wg, closer>>

\* req.out <- rsp
Reply(w, c) ==
    /\ Alive
    /\ worker[w] = c
    /\ cmd[c] = "reply"
    /\ IF DevOf[c] \in outClosed
       THEN /\ panic' = "send on closed channel"
            /\ UNCHANGED cmd
       ELSE /\ DevOf[c] \notin deaf
            /\ cmd' = [cmd EXCEPT ![c] = "sent"]
            /\ UNCHANGED panic
    /\ UNCHANGED <<feeder, worker, outstanding, inClosed, outClosed, deaf, wg, closer>>

\* Mutant: the worker returns after its first command.
CmdDoneReturn(w, c) ==
    /\ Alive
    /\ worker[w] = c
    /\ cmd[c] = "sent"
    /\ cmd' = [cmd EXCEPT ![c] = "done"]
    /\ worker' = [worker EXCEPT ![w] = Gone]
    /\ outstanding' = [outstanding EXCEPT ![DevOf[c]] = @ - 1]
    /\ wg' = wg - 1
    /\ UNCHANGED <<feeder, inClosed, outClosed, deaf, closer, panic>>

\* req.done()
CmdDone(w, c) ==
    /\ Alive
    /\ worker[w] = c
    /\ cmd[c] = "sent"
    /\ cmd' = [cmd EXCEPT ![c] = "done"]
    /\ worker' = [worker EXCEPT ![w] = Idle]
    /\ IF outstanding[DevOf[c]] > 0
       THEN /\ outstanding' = [outstanding EXCEPT ![DevOf[c]] = @ - 1]
            /\ UNCHANGED panic
       ELSE /\ panic' = "negative WaitGroup counter"
            /\ UNCHANGED outstanding
    /\ UNCHANGED <<feeder, inClosed, outClosed, deaf, wg, closer>>

WorkerDone(w) ==
    /\ Alive
    /\ Done
    /\ worker[w] = Idle
    /\ worker' = [worker EXCEPT ![w] = Gone]
    /\ wg' = wg - 1
    /\ UNCHANGED <<feeder, cmd, outstanding, inClosed, outClosed, deaf, closer, panic>>

----------------------------------------------------------------------------
(* CmdPool.Close, and go-tcmu *)

Close ==
    /\ Alive
    /\ closer = "open"
    /\ closer' = "waiting"
    /\ UNCHANGED <<feeder, worker, cmd, outstanding, inClosed, outClosed, deaf, wg, panic>>

\* Mutant: Close does not wait for the goroutines.
CloseWaitNot ==
    /\ Alive
    /\ closer = "waiting"
    /\ closer' = "closed"
    /\ UNCHANGED <<feeder, worker, cmd, outstanding, inClosed, outClosed, deaf, wg, panic>>

CloseWait ==
    /\ Alive
    /\ closer = "waiting"
    /\ wg = 0
    /\ closer' = "closed"
    /\ UNCHANGED <<feeder, worker, cmd, outstanding, inClosed, outClosed, deaf, wg, panic>>

\* The device goes away.
CloseIn(d) ==
    /\ Alive
    /\ feeder[d] # "none"
    /\ d \notin inClosed
    /\ inClosed' = inClosed \cup {d}
    /\ UNCHANGED <<feeder, worker, cmd, outstanding, outClosed, deaf, wg, closer, panic>>

\* The goroutine of go-tcmu that reads answers gave up.
StopReading(d) ==
    /\ Alive
    /\ d \in Fickle \ deaf
    /\ deaf' = deaf \cup {d}
    /\ UNCHANGED <<feeder, worker, cmd, outstanding, inClosed, outClosed, wg, closer, panic>>

----------------------------------------------------------------------------
\* Nothing left to do: Close returned, or the process died.
Ended == (closer = "closed" \/ ~Alive) /\ UNCHANGED vars

Feeder(d) == \/ \E c \in Cmds, w \in Workers : Offer(d, c, w)
             \/ FeedEOF(d) \/ FeedDrained(d) \/ FeedDone(d)

Worker(w) == \/ \E c \in Cmds : Handle(w, c) \/ HandleErr(w, c) \/ Reply(w, c) \/ CmdDone(w, c)
             \/ WorkerDone(w)

Kernel(d) == DevReady(d) \/ CloseIn(d) \/ StopReading(d) \/ \E c \in Cmds : FeedRecv(d, c)

Next == \/ \E d \in Devs : Feeder(d) \/ Kernel(d)
        \/ \E w \in Workers : Worker(w)
        \/ Close \/ CloseWait
        \/ Ended

Spec == Init /\ [][Next]_vars

\* Goroutines that can run do; HandleCommand returns; a feeder that keeps
\* offering is served (waiting senders of a channel queue up).
Fairness == /\ \A d \in Devs : WF_vars(Feeder(d))
            /\ \A c \in Cmds : SF_vars(\E w \in Workers : Offer(DevOf[c], c, w))
            /\ \A w \in Workers : WF_vars(Worker(w))
            /\ WF_vars(CloseWait)

FairSpec == Spec /\ Fairness

----------------------------------------------------------------------------
(* Properties *)

\* No goroutine of the pool sends on a closed channel or takes a WaitGroup
\* below zero: a feeder closes out only when no worker can still answer.
NoChannelPanic == panic \in {"no", "handler"}

\* When out is closed, every command that was taken from in has been
\* answered: go-tcmu sees no command vanish when a device closes.
AnsweredBeforeClose ==
    \A d \in outClosed : \A c \in Cmds :
        DevOf[c] = d => cmd[c] \in {"new", "done"}

\* After Close nothing runs: no worker and no feeder is left that could read
\* from the object of a device, or send on a channel.
QuietAfterClose ==
    closer = "closed" => /\ \A w \in Workers : worker[w] = Gone
                         /\ \A d \in Devs : feeder[d] \in {"none", "gone"}

\* Unless the pool is closed meanwhile, a command that was taken is answered:
\* one device's commands do not starve another's.  While the answers of some
\* device are not read, workers may hang on it.
EveryCommandServed ==
    \A c \in Cmds : cmd[c] = "held" ~> cmd[c] = "done" \/ Done \/ ~Alive \/ deaf # {}

\* Close returns, whatever commands are on their way, while answers are read.
CloseReturns == closer = "waiting" ~> closer = "closed" \/ ~Alive \/ deaf # {}
=============================================================================

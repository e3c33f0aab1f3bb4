--------------------------- MODULE NodeLifecycle ---------------------------
(***************************************************************************)
(* Start and Stop of a DHT node (src/dht/node.go): the server goroutine,   *)
(* the two long-running tasks refresh and republish, and any number of     *)
(* goroutines that call Stop, at any time, during Start too.               *)
(*                                                                         *)
(* The channels stopX and ackStopX of a task X are unbuffered: a send and  *)
(* its receive are one step.  What a task does between two ticks is one    *)
(* period of work: its lookups and stores are modelled in Lookup and in    *)
(* Replication.                                                            *)
(***************************************************************************)
EXTENDS Naturals, Sequences

CONSTANT Stoppers   \* the goroutines that call Stop

\* Stop deals with the tasks in this order.
Order == <<"refresh", "republish">>
Tasks == {"refresh", "republish"}

VARIABLES
    start,      \* how far Start has come
    started, inShutdown, shutdown,
    task,       \* task[t]: "absent", "select", "working", "acking" or "gone"
    closed,     \* closed[t]: the two channels of t are closed
    server,     \* the server goroutine: "absent", "spawned", "serving", "exited"
    bound,      \* the listener holds the port
    srvClosed,  \* server.Close() was called
    pc,         \* pc[s]: how far the Stop call of s has come
    at,         \* at[s]: the task in Order that s is stopping
    panicked    \* a send on a closed channel, or a channel closed twice

vars == <<start, started, inShutdown, shutdown, task, closed, server, bound,
          srvClosed, pc, at, panicked>>

flags == <<started, inShutdown, shutdown>>
srv == <<server, bound, srvClosed>>

Init ==
    /\ start = "new"
    /\ started = FALSE /\ inShutdown = FALSE /\ shutdown = FALSE
    /\ task = [t \in Tasks |-> "absent"]
    /\ closed = [t \in Tasks |-> FALSE]
    /\ server = "absent" /\ bound = FALSE /\ srvClosed = FALSE
    /\ pc = [s \in Stoppers |-> "idle"]
    /\ at = [s \in Stoppers |-> 1]
    /\ panicked = FALSE

-----------------------------------------------------------------------------
(* Start *)

Listen ==
    /\ start = "new"
    /\ \/ start' = "listening" /\ bound' = TRUE
       \/ start' = "failed" /\ bound' = FALSE
    /\ UNCHANGED <<flags, task, closed, server, srvClosed, pc, at, panicked>>

GoServe ==
    /\ start = "listening"
    /\ start' = "refresh"
    /\ server' = "spawned"
    /\ UNCHANGED <<flags, task, closed, bound, srvClosed, pc, at, panicked>>

GoTask(t, next) ==
    /\ start = t
    /\ start' = next
    /\ task' = [task EXCEPT ![t] = "select"]
    /\ UNCHANGED <<flags, closed, srv, pc, at, panicked>>

\* The deferred started.Store(true), after the tasks were spawned.
StartReturns ==
    /\ start = "store"
    /\ start' = "returned"
    /\ started' = TRUE
    /\ UNCHANGED <<inShutdown, shutdown, task, closed, srv, pc, at, panicked>>

StartStep ==
    \/ Listen
    \/ GoServe
    \/ GoTask("refresh", "republish")
    \/ GoTask("republish", "store")
    \/ StartReturns

-----------------------------------------------------------------------------
(* The goroutines that Start spawns *)

\* ServeTLS takes over the listener, and gives it up if Close came first.
Serve ==
    /\ server = "spawned"
    /\ server' = IF srvClosed THEN "exited" ELSE "serving"
    /\ bound' = ~srvClosed
    /\ UNCHANGED <<start, flags, task, closed, srvClosed, pc, at, panicked>>

\* ServeTLS returns ErrServerClosed.
ServeReturns ==
    /\ server = "serving"
    /\ srvClosed
    /\ server' = "exited"
    /\ UNCHANGED <<start, flags, task, closed, bound, srvClosed, pc, at, panicked>>

Tick(t) ==
    /\ task[t] = "select"
    /\ task' = [task EXCEPT ![t] = "working"]
    /\ UNCHANGED <<start, flags, closed, srv, pc, at, panicked>>

WorkDone(t) ==
    /\ task[t] = "working"
    /\ task' = [task EXCEPT ![t] = "select"]
    /\ UNCHANGED <<start, flags, closed, srv, pc, at, panicked>>

-----------------------------------------------------------------------------
(* Stop *)

Goto(s, from, to) ==
    /\ pc[s] = from
    /\ pc' = [pc EXCEPT ![s] = to]

Call(s) ==
    /\ Goto(s, "idle", "loadStarted")
    /\ UNCHANGED <<start, flags, task, closed, srv, at, panicked>>

LoadStarted(s) ==
    /\ Goto(s, "loadStarted", IF started THEN "loadShutdown" ELSE "ignored")
    /\ UNCHANGED <<start, flags, task, closed, srv, at, panicked>>

LoadShutdown(s) ==
    /\ Goto(s, "loadShutdown", IF shutdown THEN "returned" ELSE "cas")
    /\ UNCHANGED <<start, flags, task, closed, srv, at, panicked>>

\* Mutants of CompareAndSwap: inShutdown is not set; who comes second returns.
CompareOnly(s) ==
    /\ Goto(s, "cas", IF inShutdown THEN "poll" ELSE "send")
    /\ UNCHANGED <<start, flags, task, closed, srv, at, panicked>>
SecondReturns(s) ==
    /\ Goto(s, "cas", IF inShutdown THEN "returned" ELSE "send")
    /\ inShutdown' = TRUE
    /\ UNCHANGED <<start, started, shutdown, task, closed, srv, at, panicked>>

CompareAndSwap(s) ==
    /\ Goto(s, "cas", IF inShutdown THEN "poll" ELSE "send")
    /\ inShutdown' = TRUE
    /\ UNCHANGED <<start, started, shutdown, task, closed, srv, at, panicked>>

Poll(s) ==
    /\ shutdown
    /\ Goto(s, "poll", "returned")
    /\ UNCHANGED <<start, flags, task, closed, srv, at, panicked>>

\* stopX <- struct{}{}: the task takes it in its select, unless the channel is
\* closed.
Send(s) ==
    LET t == Order[at[s]] IN
    /\ closed[t] \/ task[t] = "select"
    /\ Goto(s, "send", "ack")
    /\ panicked' = closed[t]
    /\ task' = IF closed[t] THEN task ELSE [task EXCEPT ![t] = "acking"]
    /\ UNCHANGED <<start, flags, closed, srv, at>>

\* Mutant of Ack: the task acknowledges and goes on with its loop.
AckAndGoOn(s) ==
    LET t == Order[at[s]] IN
    /\ task[t] = "acking"
    /\ Goto(s, "ack", "close")
    /\ task' = [task EXCEPT ![t] = "select"]
    /\ UNCHANGED <<start, flags, closed, srv, at, panicked>>

\* <-ackStopX: the task sends its acknowledgement and returns.
Ack(s) ==
    LET t == Order[at[s]] IN
    /\ task[t] = "acking"
    /\ Goto(s, "ack", "close")
    /\ task' = [task EXCEPT ![t] = "gone"]
    /\ UNCHANGED <<start, flags, closed, srv, at, panicked>>

CloseChannels(s) ==
    LET t == Order[at[s]] IN
    /\ Goto(s, "close", IF at[s] = Len(Order) THEN "closeServer" ELSE "send")
    /\ at' = [at EXCEPT ![s] = IF @ = Len(Order) THEN @ ELSE @ + 1]
    /\ panicked' = closed[t]
    /\ closed' = [closed EXCEPT ![t] = TRUE]
    /\ UNCHANGED <<start, flags, task, srv>>

\* Mutant of CloseServer: the server is not closed.
LeaveServer(s) ==
    /\ Goto(s, "closeServer", "finish")
    /\ UNCHANGED <<start, flags, task, closed, srv, at, panicked>>

\* server.Close() closes the listener of a server that is serving.
CloseServer(s) ==
    /\ Goto(s, "closeServer", "finish")
    /\ srvClosed' = TRUE
    /\ bound' = (bound /\ server = "spawned")
    /\ UNCHANGED <<start, flags, task, closed, server, at, panicked>>

\* Mutant of Finish: shutdown is not set.
FinishSilently(s) ==
    /\ Goto(s, "finish", "returned")
    /\ UNCHANGED <<start, flags, task, closed, srv, at, panicked>>

\* The deferred shutdown.Store(true).
Finish(s) ==
    /\ Goto(s, "finish", "returned")
    /\ shutdown' = TRUE
    /\ UNCHANGED <<start, started, inShutdown, task, closed, srv, at, panicked>>

Stop(s) ==
    \/ LoadStarted(s)
    \/ LoadShutdown(s)
    \/ CompareAndSwap(s)
    \/ Poll(s)
    \/ Send(s)
    \/ Ack(s)
    \/ CloseChannels(s)
    \/ CloseServer(s)
    \/ Finish(s)

Next ==
    /\ ~panicked
    /\ \/ StartStep
       \/ Serve
       \/ ServeReturns
       \/ \E t \in Tasks : Tick(t) \/ WorkDone(t)
       \/ \E s \in Stoppers : Call(s) \/ Stop(s)

Spec == Init /\ [][Next]_vars

\* Goroutines are scheduled, and the work of a task ends.  Strong fairness of
\* Stop: a task may be at work whenever Stop looks, but select chooses among
\* the ready cases at random, so a waiting stop is taken in the end.
Fairness ==
    /\ WF_vars(StartStep)
    /\ WF_vars(Serve \/ ServeReturns)
    /\ \A t \in Tasks : WF_vars(WorkDone(t))
    /\ \A s \in Stoppers : SF_vars(~panicked /\ Stop(s))

FairSpec == Spec /\ Fairness

-----------------------------------------------------------------------------
(* Properties *)

TypeOK ==
    /\ start \in {"new", "failed", "listening", "refresh", "republish", "store", "returned"}
    /\ started \in BOOLEAN /\ inShutdown \in BOOLEAN /\ shutdown \in BOOLEAN
    /\ task \in [Tasks -> {"absent", "select", "working", "acking", "gone"}]
    /\ closed \in [Tasks -> BOOLEAN]
    /\ server \in {"absent", "spawned", "serving", "exited"}
    /\ bound \in BOOLEAN /\ srvClosed \in BOOLEAN
    /\ pc \in [Stoppers -> {"idle", "loadStarted", "loadShutdown", "cas", "poll", "send",
                            "ack", "close", "closeServer", "finish", "ignored", "returned"}]
    /\ at \in [Stoppers -> 1 .. 2]
    /\ panicked \in BOOLEAN

\* However many goroutines call Stop at once, no channel is closed twice and
\* nothing is sent on a closed channel.
NoChannelPanic == ~panicked

\* A Stop that found the node started returns only once it is down: refresh
\* and republish are gone and the server was told to close.  This also holds
\* of the calls that only wait for another goroutine's Stop.
StopWaitsForShutdown ==
    \A s \in Stoppers : pc[s] = "returned" =>
        /\ shutdown
        /\ srvClosed
        /\ \A t \in Tasks : task[t] = "gone"

\* Once the node is down its tasks are gone for good: a step never starts work
\* after shutdown was set.
NoWorkAfterShutdown ==
    [][shutdown => \A t \in Tasks : task'[t] = "gone"]_vars

\* Every Stop call returns: no caller waits forever for a task, for an
\* acknowledgement or for another caller.
StopReturns == \A s \in Stoppers : pc[s] = "loadStarted" ~> pc[s] \in {"ignored", "returned"}

\* The port is free some time after a shutdown, also when Close came before
\* the server goroutine had taken over the listener.
PortReleased == shutdown ~> ~bound
=============================================================================

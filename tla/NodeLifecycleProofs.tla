------------------------ MODULE NodeLifecycleProofs ------------------------
(***************************************************************************)
(* Proofs about NodeLifecycle, for any set of goroutines that call Stop.   *)
(***************************************************************************)
EXTENDS NodeLifecycle, TLAPS

\* s won the compare-and-swap and is taking the node down.
Winner(s) == pc[s] \in {"send", "ack", "close", "closeServer", "finish"}

Alive(t) == task[t] \in {"select", "working"} /\ ~closed[t]
Buried(t) == task[t] = "gone" /\ closed[t]

\* How far the winner has come with task t, which it is stopping.
Current(s, t) ==
    /\ pc[s] = "send" => Alive(t)
    /\ pc[s] = "ack" => task[t] = "acking" /\ ~closed[t]
    /\ pc[s] = "close" => task[t] = "gone" /\ ~closed[t]
    /\ pc[s] \in {"closeServer", "finish"} => Buried(t)

\* Start has run up to its last step before a Stop gets past its first load,
\* and the tasks live until the compare-and-swap.
StartInv ==
    /\ started <=> start = "returned"
    /\ start \in {"republish", "store"} => Alive("refresh")
    /\ start = "store" => Alive("republish")
    /\ started /\ ~inShutdown => Alive("refresh") /\ Alive("republish")
    /\ inShutdown => started
    /\ shutdown => inShutdown
    /\ \A t \in Tasks : ~inShutdown => ~closed[t]

\* At most one call takes the node down, task by task in the order of Order.
WinnerInv ==
    /\ \A s, r \in Stoppers : Winner(s) /\ Winner(r) => s = r
    /\ \A s \in Stoppers : Winner(s) =>
        /\ inShutdown /\ ~shutdown
        /\ at[s] = 1 => /\ Current(s, "refresh")
                        /\ Alive("republish")
                        /\ pc[s] \notin {"closeServer", "finish"}
        /\ at[s] = 2 => Buried("refresh") /\ Current(s, "republish")
        /\ pc[s] = "finish" => srvClosed
    /\ \A s \in Stoppers : pc[s] \in {"idle", "loadStarted", "loadShutdown", "cas"} => at[s] = 1
    /\ \A s \in Stoppers : pc[s] \in {"loadShutdown", "cas"} => started
    /\ \A s \in Stoppers : pc[s] = "returned" => shutdown
    /\ shutdown => srvClosed /\ Buried("refresh") /\ Buried("republish")

IInv == TypeOK /\ StartInv /\ WinnerInv /\ ~panicked

\* Nothing has happened yet.
LEMMA InitIInv == Init => IInv
<1> SUFFICES ASSUME Init PROVE IInv
  OBVIOUS
<1>1. TypeOK
  <2>1. at \in [Stoppers -> 1 .. 2]
    BY DEF Init
  <2>2. pc \in [Stoppers -> {"idle"}]
    BY DEF Init
  <2>3. closed \in [Tasks -> BOOLEAN] /\ task \in [Tasks -> {"absent"}]
    BY DEF Init
  <2> QED BY <2>1, <2>2, <2>3 DEF Init, TypeOK
<1>2. StartInv
  BY DEF Init, StartInv
<1>3. WinnerInv
  BY DEF Init, WinnerInv, Winner
<1> QED BY <1>1, <1>2, <1>3 DEF Init, IInv

\* Start, the server, the tasks: no step of theirs touches a stopping task.
LEMMA StartStepIInv ==
    ASSUME IInv, StartStep PROVE IInv'
<1> USE DEF IInv
<1>1. CASE Listen
  BY <1>1 DEF Listen, TypeOK, StartInv, WinnerInv, Winner, Alive, Buried, Current, flags
<1>2. CASE GoServe
  BY <1>2 DEF GoServe, TypeOK, StartInv, WinnerInv, Winner, Alive, Buried, Current, flags
<1>3. ASSUME start \in {"refresh", "republish", "store"}
      PROVE  /\ ~started /\ ~inShutdown /\ ~shutdown
             /\ \A s \in Stoppers : ~Winner(s)
             /\ \A s \in Stoppers : pc[s] \notin {"loadShutdown", "cas", "returned"}
             /\ \A t \in Tasks : ~closed[t]
  BY <1>3 DEF StartInv, WinnerInv, TypeOK
<1>4. CASE GoTask("refresh", "republish")
  BY <1>3, <1>4 DEF GoTask, TypeOK, StartInv, WinnerInv, Winner, Alive, flags, srv, Tasks
<1>5. CASE GoTask("republish", "store")
  BY <1>3, <1>5 DEF GoTask, TypeOK, StartInv, WinnerInv, Winner, Alive, flags, srv, Tasks
<1>6. CASE StartReturns
  BY <1>3, <1>6 DEF StartReturns, TypeOK, StartInv, WinnerInv, Winner, Alive, Buried,
                    Current, srv, Tasks
<1> QED BY <1>1, <1>2, <1>4, <1>5, <1>6 DEF StartStep

\* A task moves between its select and its work.
LEMMA TaskIInv ==
    ASSUME IInv, NEW t \in Tasks, Tick(t) \/ WorkDone(t)
    PROVE  IInv'
<1>1. /\ task[t] \in {"select", "working"}
      /\ task' = [task EXCEPT ![t] = "working"] \/ task' = [task EXCEPT ![t] = "select"]
      /\ UNCHANGED <<start, started, inShutdown, shutdown, closed, server, bound,
                     srvClosed, pc, at, panicked>>
  BY DEF Tick, WorkDone, flags, srv
<1>2. TypeOK'
  BY <1>1 DEF IInv, TypeOK
<1>3. \A u \in Tasks : /\ Alive(u) => Alive(u)'
                       /\ task[u] \notin {"select", "working"} => task'[u] = task[u]
  BY <1>1 DEF IInv, TypeOK, Alive
<1>4. "refresh" \in Tasks /\ "republish" \in Tasks
  BY DEF Tasks
<1>5. StartInv'
  BY <1>1, <1>3, <1>4 DEF IInv, StartInv
<1>6. \A u \in Tasks : Buried(u) => Buried(u)'
  BY <1>1, <1>3 DEF Buried
<1>7. \A s \in Stoppers, u \in Tasks : Current(s, u) => Current(s, u)'
  BY <1>1, <1>3, <1>6 DEF Current
<1>8. WinnerInv'
  BY <1>1, <1>3, <1>4, <1>6, <1>7 DEF IInv, WinnerInv, Winner
<1> QED BY <1>1, <1>2, <1>5, <1>8 DEF IInv

\* One call of Stop.
LEMMA StopIInv ==
    ASSUME IInv, NEW s \in Stoppers, Call(s) \/ Stop(s)
    PROVE  IInv'
<1> USE DEF IInv
<1>0. Order[1] = "refresh" /\ Order[2] = "republish" /\ Len(Order) = 2
      /\ Tasks = {"refresh", "republish"} /\ at[s] \in {1, 2}
      /\ Order[at[s]] \in Tasks
  BY DEF Order, Tasks, TypeOK
<1>1. CASE Call(s) \/ LoadStarted(s) \/ LoadShutdown(s) \/ Poll(s)
  <2>1. /\ ~Winner(s)
        /\ pc' = [pc EXCEPT ![s] = pc'[s]]
        /\ pc'[s] \in {"loadStarted", "loadShutdown", "ignored", "cas", "returned"}
        /\ pc'[s] \in {"loadShutdown", "cas"} => started
        /\ pc'[s] = "returned" => shutdown
        /\ pc'[s] \in {"loadStarted", "loadShutdown", "cas"} => at[s] = 1
        /\ UNCHANGED <<start, started, inShutdown, shutdown, task, closed, server,
                       bound, srvClosed, at, panicked>>
    BY <1>1 DEF Call, LoadStarted, LoadShutdown, Poll, Goto, Winner, flags, srv,
                TypeOK, WinnerInv
  <2>2. TypeOK'
    BY <2>1 DEF TypeOK
  <2>3. StartInv'
    BY <2>1 DEF StartInv, Alive
  <2>4. WinnerInv'
    BY <2>1 DEF WinnerInv, Winner, Alive, Buried, Current, TypeOK
  <2> QED BY <2>1, <2>2, <2>3, <2>4
<1>2. CASE CompareAndSwap(s)
  <2>1. /\ pc[s] = "cas" /\ started /\ at[s] = 1
        /\ pc' = [pc EXCEPT ![s] = IF inShutdown THEN "poll" ELSE "send"]
        /\ inShutdown' = TRUE
        /\ UNCHANGED <<start, started, shutdown, task, closed, server, bound,
                       srvClosed, at, panicked>>
    BY <1>2 DEF CompareAndSwap, Goto, WinnerInv, srv
  <2>2. TypeOK'
    BY <2>1 DEF TypeOK
  <2>3. StartInv'
    BY <2>1 DEF StartInv, Alive
  <2>4. CASE inShutdown
    BY <2>1, <2>2, <2>3, <2>4 DEF WinnerInv, Winner, Alive, Buried, Current, TypeOK
  <2>5. CASE ~inShutdown
    <3>1. /\ ~shutdown /\ Alive("refresh") /\ Alive("republish")
          /\ \A r \in Stoppers : ~Winner(r)
      BY <2>1, <2>5 DEF StartInv, WinnerInv
    <3> QED BY <2>1, <2>2, <2>3, <2>5, <3>1
            DEF WinnerInv, Winner, Alive, Buried, Current, TypeOK
  <2> QED BY <2>4, <2>5
\* The steps of the winner.
<1>3. ASSUME Winner(s)
      PROVE  /\ inShutdown /\ ~shutdown /\ started /\ start = "returned"
             /\ \A r \in Stoppers : r # s => ~Winner(r) /\ pc[r] # "returned"
             /\ at[s] = 1 => Current(s, "refresh") /\ Alive("republish")
             /\ at[s] = 2 => Buried("refresh") /\ Current(s, "republish")
  BY <1>3 DEF WinnerInv, StartInv
<1>4. CASE Send(s)
  <2>1. Winner(s) /\ pc[s] = "send"
    BY <1>4 DEF Send, Goto, Winner
  <2>2. ~closed[Order[at[s]]] /\ task[Order[at[s]]] = "select"
    BY <1>0, <1>3, <1>4, <2>1 DEF Send, Current, Alive
  <2>3. /\ pc' = [pc EXCEPT ![s] = "ack"]
        /\ task' = [task EXCEPT ![Order[at[s]]] = "acking"]
        /\ panicked' = FALSE
        /\ UNCHANGED <<start, started, inShutdown, shutdown, closed, server, bound,
                       srvClosed, at>>
    <3>1. closed[Order[at[s]]] = FALSE
      BY <1>0, <2>2 DEF TypeOK
    <3> QED BY <1>4, <3>1 DEF Send, Goto, flags, srv
  <2>4. TypeOK'
    BY <1>0, <2>3 DEF TypeOK
  <2>5. StartInv'
    BY <1>3, <2>1, <2>3 DEF StartInv
  <2>6. CASE at[s] = 1
    BY <1>0, <1>3, <2>1, <2>2, <2>3, <2>4, <2>5, <2>6
       DEF WinnerInv, Winner, Alive, Buried, Current, TypeOK
  <2>7. CASE at[s] = 2
    BY <1>0, <1>3, <2>1, <2>2, <2>3, <2>4, <2>5, <2>7
       DEF WinnerInv, Winner, Alive, Buried, Current, TypeOK
  <2> QED BY <1>0, <2>6, <2>7
<1>5. CASE Ack(s)
  <2>1. Winner(s) /\ pc[s] = "ack"
    BY <1>5 DEF Ack, Goto, Winner
  <2>2. ~closed[Order[at[s]]]
    BY <1>0, <1>3, <2>1 DEF Current
  <2>3. /\ pc' = [pc EXCEPT ![s] = "close"]
        /\ task' = [task EXCEPT ![Order[at[s]]] = "gone"]
        /\ UNCHANGED <<start, started, inShutdown, shutdown, closed, server, bound,
                       srvClosed, at, panicked>>
    BY <1>5 DEF Ack, Goto, flags, srv
  <2>4. TypeOK'
    BY <1>0, <2>3 DEF TypeOK
  <2>5. StartInv'
    BY <1>3, <2>1, <2>3 DEF StartInv
  <2>6. CASE at[s] = 1
    BY <1>0, <1>3, <2>1, <2>2, <2>3, <2>4, <2>5, <2>6
       DEF WinnerInv, Winner, Alive, Buried, Current, TypeOK
  <2>7. CASE at[s] = 2
    BY <1>0, <1>3, <2>1, <2>2, <2>3, <2>4, <2>5, <2>7
       DEF WinnerInv, Winner, Alive, Buried, Current, TypeOK
  <2> QED BY <1>0, <2>6, <2>7
<1>6. CASE CloseChannels(s)
  <2>1. Winner(s) /\ pc[s] = "close"
    BY <1>6 DEF CloseChannels, Goto, Winner
  <2>2. ~closed[Order[at[s]]] /\ task[Order[at[s]]] = "gone"
    BY <1>0, <1>3, <2>1 DEF Current
  <2>3. /\ closed' = [closed EXCEPT ![Order[at[s]]] = TRUE]
        /\ panicked' = FALSE
        /\ UNCHANGED <<start, started, inShutdown, shutdown, task, server, bound,
                       srvClosed>>
    <3>1. closed[Order[at[s]]] = FALSE
      BY <1>0, <2>2 DEF TypeOK
    <3> QED BY <1>6, <3>1 DEF CloseChannels, flags, srv
  <2>4. CASE at[s] = 1
    <3>1. pc' = [pc EXCEPT ![s] = "send"] /\ at' = [at EXCEPT ![s] = 2]
      BY <1>0, <1>6, <2>4 DEF CloseChannels, Goto, TypeOK
    <3>2. TypeOK'
      <4>1. at' \in [Stoppers -> 1 .. 2]
        BY <3>1 DEF TypeOK
      <4>2. closed' \in [Tasks -> BOOLEAN]
        BY <1>0, <2>3 DEF TypeOK
      <4> QED BY <2>3, <3>1, <4>1, <4>2 DEF TypeOK
    <3>3. StartInv'
      BY <1>3, <2>1, <2>3 DEF StartInv
    <3> QED BY <1>0, <1>3, <2>1, <2>2, <2>3, <2>4, <3>1, <3>2, <3>3
            DEF WinnerInv, Winner, Alive, Buried, Current, TypeOK
  <2>5. CASE at[s] = 2
    <3>1. pc' = [pc EXCEPT ![s] = "closeServer"] /\ at' = at
      BY <1>0, <1>6, <2>5 DEF CloseChannels, Goto, TypeOK
    <3>2. TypeOK'
      BY <1>0, <2>3, <3>1 DEF TypeOK
    <3>3. StartInv'
      BY <1>3, <2>1, <2>3 DEF StartInv
    <3> QED BY <1>0, <1>3, <2>1, <2>2, <2>3, <2>5, <3>1, <3>2, <3>3
            DEF WinnerInv, Winner, Alive, Buried, Current, TypeOK
  <2> QED BY <1>0, <2>4, <2>5
<1>7. CASE CloseServer(s)
  <2>1. Winner(s) /\ pc[s] = "closeServer"
    BY <1>7 DEF CloseServer, Goto, Winner
  <2>2. at[s] = 2 /\ Buried("refresh") /\ Buried("republish")
    BY <1>0, <1>3, <2>1 DEF WinnerInv, Current
  <2>3. /\ pc' = [pc EXCEPT ![s] = "finish"]
        /\ srvClosed' = TRUE
        /\ bound' \in BOOLEAN
        /\ UNCHANGED <<start, started, inShutdown, shutdown, task, closed, server, at,
                       panicked>>
    BY <1>7 DEF CloseServer, Goto, flags
  <2>4. TypeOK'
    BY <2>3 DEF TypeOK
  <2>5. StartInv'
    BY <1>3, <2>1, <2>3 DEF StartInv, Alive
  <2> QED BY <1>3, <2>1, <2>2, <2>3, <2>4, <2>5
          DEF WinnerInv, Winner, Alive, Buried, Current, TypeOK
<1>8. CASE Finish(s)
  <2>1. Winner(s) /\ pc[s] = "finish"
    BY <1>8 DEF Finish, Goto, Winner
  <2>2. at[s] = 2 /\ Buried("refresh") /\ Buried("republish") /\ srvClosed
    BY <1>0, <1>3, <2>1 DEF WinnerInv, Current
  <2>3. /\ pc' = [pc EXCEPT ![s] = "returned"]
        /\ shutdown' = TRUE
        /\ UNCHANGED <<start, started, inShutdown, task, closed, server, bound,
                       srvClosed, at, panicked>>
    BY <1>8 DEF Finish, Goto, srv
  <2>4. TypeOK'
    BY <2>3 DEF TypeOK
  <2>5. StartInv'
    BY <1>3, <2>1, <2>3 DEF StartInv, Alive
  <2> QED BY <1>3, <2>1, <2>2, <2>3, <2>4, <2>5
          DEF WinnerInv, Winner, Alive, Buried, Current, TypeOK
<1> QED BY <1>1, <1>2, <1>4, <1>5, <1>6, <1>7, <1>8 DEF Stop

\* Every step keeps the invariant.
LEMMA NextIInv == IInv /\ [Next]_vars => IInv'
<1> SUFFICES ASSUME IInv, [Next]_vars PROVE IInv'
  OBVIOUS
<1>1. CASE Serve \/ ServeReturns
  <2>1. /\ server' \in {"absent", "spawned", "serving", "exited"} /\ bound' \in BOOLEAN
        /\ UNCHANGED <<start, started, inShutdown, shutdown, task, closed, srvClosed,
                       pc, at, panicked>>
    BY <1>1 DEF Serve, ServeReturns, flags, IInv, TypeOK
  <2> QED BY <2>1 DEF IInv, TypeOK, StartInv, WinnerInv, Winner, Alive, Buried, Current
<1>2. CASE UNCHANGED vars
  BY <1>2 DEF vars, IInv, TypeOK, StartInv, WinnerInv, Winner, Alive, Buried, Current
<1> QED BY <1>1, <1>2, StartStepIInv, TaskIInv, StopIInv DEF Next

\* The invariant of the node's start and stop.
THEOREM Invariance == Spec => []IInv
<1> QED BY InitIInv, NextIInv, PTL DEF Spec

\* No number of concurrent Stop calls makes a channel operation panic.
THEOREM NoChannelPanicHolds == Spec => []NoChannelPanic
<1>1. IInv => NoChannelPanic
  BY DEF IInv, NoChannelPanic
<1> QED BY <1>1, Invariance, PTL

\* No Stop call on a started node returns before the node is down.
THEOREM StopWaitsHolds == Spec => []StopWaitsForShutdown
<1>1. IInv => StopWaitsForShutdown
  BY DEF IInv, WinnerInv, Buried, StopWaitsForShutdown, Tasks
<1> QED BY <1>1, Invariance, PTL

\* A task never works again after the shutdown.
THEOREM NoWorkHolds == Spec => NoWorkAfterShutdown
<1> DEFINE Quiet == shutdown => \A t \in Tasks : task'[t] = "gone"
<1>1. ASSUME IInv, IInv', Next
      PROVE  Quiet
  <2>1. shutdown => shutdown'
    BY <1>1 DEF Next, StartStep, Listen, GoServe, GoTask, StartReturns, Serve, ServeReturns,
                Tick, WorkDone, Stop, Call, LoadStarted, LoadShutdown, CompareAndSwap, Poll,
                Send, Ack, CloseChannels, CloseServer, Finish, flags
  <2> QED BY <1>1, <2>1 DEF IInv, WinnerInv, Buried, Tasks
<1>2. IInv /\ IInv' /\ [Next]_vars => [Quiet]_vars
  BY <1>1
<1> QED BY <1>2, Invariance, PTL DEF Spec, NoWorkAfterShutdown
=============================================================================

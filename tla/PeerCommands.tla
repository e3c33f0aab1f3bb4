---------------------------- MODULE PeerCommands ----------------------------
(***************************************************************************)
(* The commands "inu peer daemon, add, cat, dl" (src/cmd/inu/peer.go), as  *)
(* processes that run side by side with one configuration: they share the  *)
(* file of the block store, the public port and the RPC port.  A command   *)
(* that finds the RPC port free starts a daemon of its own for the time of *)
(* its call (src/daemon.go, src/api.go); another command may find that     *)
(* daemon, and use it while it is being stopped.                           *)
(*                                                                         *)
(* What a download does on the network is the subject of Swarm; here it    *)
(* stores the blocks of a DAG, parents first, and may fail on the way.     *)
(***************************************************************************)
EXTENDS MerkleFS

CONSTANTS
    Procs,          \* processes, each of one command
    Paths,          \* paths below a root; "CID/" ends in an empty name
    Commands,       \* the commands, [op, tree, path], that a process may run
    NoProc,
    MaxFaults       \* bound on kills and failed calls of the store

NoCommand == [op |-> "none", tree |-> NoProc, path |-> <<>>]

Command ==
    [op : {"daemon"}, tree : {NoProc}, path : {<<>>}]
        \cup [op : {"add", "dl", "cat"}, tree : Trees, path : Paths]

ASSUME CommandsAssumption ==
    /\ NoProc \notin Procs
    /\ Paths \subseteq Seq(Name \cup {""})
    /\ Commands \in [Procs -> SUBSET Command]

VARIABLES
    pc,             \* where the main goroutine of a process is
    cmd,            \* its command
    conn,           \* the process whose daemon it is, or was, connected to
    todo,           \* the blocks that its call still has to store
    result,         \* what the daemon answered to its call, or how it failed
    public, private,  \* the processes that listen on the two ports
    storeOpen,      \* the processes that have the store open
    privateL,       \* the processes whose field privateL is set
    accepting,      \* the processes that accept connections of RPC
    blocks,         \* the file of the block store
    faults          \* counter for the bound

vars == <<pc, cmd, conn, todo, result, public, private, storeOpen, privateL, accepting,
          blocks, faults>>
loopVars == <<privateL, accepting>>
daemonVars == <<public, private, storeOpen, loopVars>>
callVars == <<cmd, conn, todo, result>>

Init ==
    /\ pc = [p \in Procs |-> "idle"]
    /\ cmd = [p \in Procs |-> NoCommand]
    /\ conn = [p \in Procs |-> NoProc]
    /\ todo = [p \in Procs |-> <<>>]
    /\ result = [p \in Procs |-> <<"none">>]
    /\ public = NoProc /\ private = NoProc
    /\ storeOpen = {} /\ privateL = {} /\ accepting = {}
    /\ blocks = {}
    /\ faults = 0

Ended == {"exited", "panicked"}
Goto(p, to) == pc' = [pc EXCEPT ![p] = to]

\* The end of a process, and with it of all that it held.
Leave(p, to) ==
    /\ Goto(p, to)
    /\ public' = IF public = p THEN NoProc ELSE public
    /\ private' = IF private = p THEN NoProc ELSE private
    /\ storeOpen' = storeOpen \ {p}
    /\ privateL' = privateL \ {p}
    /\ accepting' = accepting \ {p}

-----------------------------------------------------------------------------
(* runApiFunc and the daemon command *)

Run(p, c) ==
    /\ pc[p] = "idle"
    /\ cmd' = [cmd EXCEPT ![p] = c]
    /\ Goto(p, IF c.op = "daemon" THEN "start" ELSE "probe")
    /\ UNCHANGED <<conn, todo, result, daemonVars, blocks, faults>>

\* daemonOffline listens on the RPC port; if it cannot, a daemon is running.
Probe(p) ==
    /\ pc[p] = "probe"
    /\ IF private = NoProc THEN private' = p /\ Goto(p, "probing")
                           ELSE UNCHANGED private /\ Goto(p, "dial")
    /\ UNCHANGED <<callVars, public, storeOpen, loopVars, blocks, faults>>

ProbeCloses(p) ==
    /\ pc[p] = "probing"
    /\ private' = NoProc
    /\ Goto(p, "start")
    /\ UNCHANGED <<callVars, public, storeOpen, loopVars, blocks, faults>>

\* NewDaemon, and the first half of Start.  os.Exit(1) if the port is taken.
ListenPublic(p) ==
    /\ pc[p] = "start"
    /\ IF public = NoProc
       THEN /\ public' = p
            /\ storeOpen' = storeOpen \cup {p}
            /\ Goto(p, "listen")
            /\ UNCHANGED <<private, loopVars>>
       ELSE Leave(p, "exited")
    /\ UNCHANGED <<callVars, blocks, faults>>

ListenPrivate(p) ==
    /\ pc[p] = "listen"
    /\ IF private = NoProc
       THEN /\ private' = p
            /\ Goto(p, IF cmd[p].op = "daemon" THEN "serving" ELSE "dial")
            /\ UNCHANGED <<public, storeOpen, loopVars>>
       ELSE Leave(p, "exited")
    /\ UNCHANGED <<callVars, blocks, faults>>

\* The goroutine of Start sets privateL; then it accepts.
SetPrivateL(p) ==
    /\ private = p /\ pc[p] # "probing"
    /\ p \notin privateL
    /\ privateL' = privateL \cup {p}
    /\ UNCHANGED <<pc, callVars, public, private, storeOpen, accepting, blocks, faults>>

\* Mutant of AcceptLoop: the loop does not wait for the field to be set.
AcceptFirst(p) ==
    /\ private = p /\ pc[p] # "probing"
    /\ p \notin accepting
    /\ accepting' = accepting \cup {p}
    /\ UNCHANGED <<pc, callVars, public, private, storeOpen, privateL, blocks, faults>>

AcceptLoop(p) ==
    /\ p \in privateL
    /\ p \notin accepting
    /\ accepting' = accepting \cup {p}
    /\ UNCHANGED <<pc, callVars, public, private, storeOpen, privateL, blocks, faults>>

-----------------------------------------------------------------------------
(* The call *)

Listening == private # NoProc /\ pc[private] # "probing"

\* The blocks that a call sets out to store.
ToPut(c) ==
    CASE c.op = "add" -> AddPath[c.tree]
      [] c.op = "dl"  -> <<Root[c.tree]>>
      [] OTHER        -> <<>>

\* NewAPI and the start of the call.  The handshake of TLS needs the accept
\* loop of the other side.
Dial(p) ==
    /\ pc[p] = "dial"
    /\ Listening
    /\ private \in accepting
    /\ conn' = [conn EXCEPT ![p] = private]
    /\ todo' = [todo EXCEPT ![p] = ToPut(cmd[p])]
    /\ Goto(p, "call")
    /\ UNCHANGED <<cmd, result, daemonVars, blocks, faults>>

\* fn has returned.  A command with a daemon of its own has deferred Stop.
Return(p, r) ==
    /\ result' = [result EXCEPT ![p] = r]
    /\ IF p \in storeOpen THEN Goto(p, "stop") ELSE Goto(p, "exited")
    /\ todo' = [todo EXCEPT ![p] = <<>>]
    /\ UNCHANGED <<cmd, conn, daemonVars, blocks>>

Error == <<"error">>
Ok(data) == <<"ok", data>>

\* Nobody listens any more, or it was only a probe.
Refused(p) ==
    /\ pc[p] = "dial"
    /\ ~Listening
    /\ Return(p, Error)
    /\ UNCHANGED faults

\* "add" stores the next block of its series; "dl" one of the blocks that it
\* has asked for, and asks for those that this one links to.
Put(p) ==
    /\ pc[p] = "call"
    /\ conn[p] \in storeOpen
    /\ \E i \in IF cmd[p].op = "dl" THEN DOMAIN todo[p] ELSE DOMAIN todo[p] \cap {1} :
        LET n == todo[p][i] IN
        /\ blocks' = blocks \cup {n}
        /\ todo' = [todo EXCEPT ![p] = RemoveAt(@, i)
                       \o IF cmd[p].op = "dl" THEN Children(n) ELSE <<>>]
    /\ UNCHANGED <<pc, cmd, conn, result, daemonVars, faults>>

\* The database, or the download of a block, fails, and the call returns the
\* error.
BlockFails(p) ==
    /\ pc[p] = "call"
    /\ faults < MaxFaults
    /\ faults' = faults + 1
    /\ Return(p, Error)

\* A call that has blocks to store or to read still needs the store.
NeedsStore(p) == pc[p] = "call" /\ (todo[p] # <<>> \/ cmd[p].op = "cat")

\* Mutant of Broken: only the closed store is noticed.
BrokenStore(p) ==
    NeedsStore(p) /\ pc[conn[p]] \notin Ended /\ conn[p] \notin storeOpen

\* The daemon has closed the store that it needs, or its process is gone.
Broken(p) ==
    IF NeedsStore(p) THEN conn[p] \notin storeOpen ELSE pc[conn[p]] \in Ended

\* The method of the daemon comes to its end.
Answer(p) ==
    /\ pc[p] = "call"
    /\ todo[p] = <<>>
    /\ ~Broken(p)
    /\ LET data == Cat(blocks, Root[cmd[p].tree], cmd[p].path)
           answer == IF cmd[p].op # "cat" THEN Ok(<<>>)
                     ELSE IF data = ReadError THEN Error ELSE Ok(data)
       IN  result' = [result EXCEPT ![p] = answer]
    /\ Goto(p, "reply")
    /\ UNCHANGED <<cmd, conn, todo, daemonVars, blocks, faults>>

\* The answer arrives, also from a daemon that has closed its store meanwhile.
Reply(p) ==
    /\ pc[p] = "reply"
    /\ pc[conn[p]] \notin Ended
    /\ Return(p, result[p])
    /\ UNCHANGED faults

CallFails(p) ==
    /\ pc[p] \in {"call", "reply"}
    /\ Broken(p)
    /\ Return(p, Error)
    /\ UNCHANGED faults

-----------------------------------------------------------------------------
(* Daemon.Stop, step by step *)

Signal(p) ==
    /\ pc[p] = "serving"
    /\ Goto(p, "stop")
    /\ UNCHANGED <<callVars, daemonVars, blocks, faults>>

CloseStore(p) ==
    /\ pc[p] = "stop"
    /\ storeOpen' = storeOpen \ {p}
    /\ Goto(p, "shutdown")
    /\ UNCHANGED <<callVars, public, private, loopVars, blocks, faults>>

Shutdown(p) ==
    /\ pc[p] = "shutdown"
    /\ public' = NoProc
    /\ Goto(p, "close")
    /\ UNCHANGED <<callVars, private, storeOpen, loopVars, blocks, faults>>

\* privateL.Close(), which panics on a listener that is nil; the process ends.
ClosePrivate(p) ==
    /\ pc[p] = "close"
    /\ Leave(p, IF p \in privateL THEN "exited" ELSE "panicked")
    /\ UNCHANGED <<callVars, blocks, faults>>

Kill(p) ==
    /\ pc[p] \notin Ended \cup {"idle"}
    /\ faults < MaxFaults
    /\ faults' = faults + 1
    /\ Leave(p, "exited")
    /\ UNCHANGED <<callVars, blocks>>

Step(p) ==
    \/ Probe(p) \/ ProbeCloses(p)
    \/ ListenPublic(p) \/ ListenPrivate(p)
    \/ Dial(p) \/ Refused(p) \/ Put(p) \/ Answer(p) \/ Reply(p) \/ CallFails(p)
    \/ CloseStore(p) \/ Shutdown(p) \/ ClosePrivate(p)

Next ==
    \E p \in Procs :
        \/ \E c \in Commands[p] : Run(p, c)
        \/ Step(p)
        \/ SetPrivateL(p)
        \/ AcceptLoop(p)
        \/ BlockFails(p)
        \/ Signal(p)
        \/ Kill(p)

Spec == Init /\ [][Next]_vars

\* Every goroutine is scheduled; nobody has to start a command or to end one.
FairSpec ==
    Spec /\ \A p \in Procs : WF_vars(Step(p)) /\ WF_vars(SetPrivateL(p)) /\ WF_vars(AcceptLoop(p))

-----------------------------------------------------------------------------
(* Properties *)

Succeeded(p) == result[p][1] = "ok"

\* After an "add" that succeeded, every file of the path can be read back
\* under its name with the bytes it had, whatever its size and whatever other
\* processes were killed, stopped or failed meanwhile.
AddedReadable ==
    \A p \in Procs :
        cmd[p].op = "add" /\ Succeeded(p) =>
            \A path \in Paths : \A f \in FilesAt(cmd[p].tree, path) :
                Cat(blocks, Root[cmd[p].tree], path) = Disk[f].bytes

\* The part of a path before its first empty name.
BeforeEmpty(path) ==
    LET empty == {i \in DOMAIN path : path[i] = ""}
    IN  IF empty = {} THEN path ELSE SubSeq(path, 1, Min(empty) - 1)

\* What "cat" has to print for a path: the bytes of the file under it, or, when
\* the path has an empty name, a beginning of the file before that name.
Prints(tree, path, data) ==
    LET file == BeforeEmpty(path)
    IN  /\ OnDisk(tree, file) # {}
        /\ file # path => FilesAt(tree, file) # {}
        /\ \A f \in FilesAt(tree, file) :
                IF file = path THEN data = Disk[f].bytes ELSE IsPrefix(data, Disk[f].bytes)

\* A "cat" that succeeds prints the whole file, also when the store has only a
\* part of the DAG, after an "add" or a "dl" that did not get to its end --
\* unless the path has an empty name: "cat CID/" follows the first of the
\* links without a name, which lead to the chunks of a file, and what it then
\* prints with success is only a beginning of that file.
CatWhole ==
    \A p \in Procs :
        cmd[p].op = "cat" /\ Succeeded(p) => Prints(cmd[p].tree, cmd[p].path, result[p][2])

\* Stop finds privateL nil only in a daemon that nobody was ever connected to:
\* a command that got as far as its call does not panic when it stops its
\* daemon.  Nothing but the order of the two steps of the goroutine of Start,
\* the field before the first Accept, and the connection see to that.
StopAfterCall ==
    \A p \in Procs : pc[p] = "panicked" => \A q \in Procs : conn[q] # p

\* Every command ends, though its daemon may be the one of another command
\* that stops it, or is killed, in the middle of the call.
CommandsEnd == \A p \in Procs : pc[p] = "probe" ~> pc[p] \in Ended
=============================================================================

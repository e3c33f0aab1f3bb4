--------------------------- MODULE MCPeerCommands ---------------------------
(* PeerCommands with a file of three chunks, two of them equal, whose DAG    *)
(* has three levels, and a directory of two files, one of them empty.        *)
EXTENDS PeerCommands

CONSTANTS p1, p2, p3

File(bytes) == [kind |-> "file", bytes |-> bytes]

MCDisk == [
    large |-> File(<<1, 2, 1>>),
    one   |-> File(<<1>>),
    empty |-> File(<<>>),
    small |-> [kind |-> "dir", entries |-> <<[name |-> "x", tree |-> "one"],
                                             [name |-> "y", tree |-> "empty"]>>]]
MCTrees == DOMAIN MCDisk
MCPaths == {<<>>, <<"x">>, <<"y">>, <<"x", "y">>, <<"">>, <<"x", "">>}

Line(op, tree, path) == [op |-> op, tree |-> tree, path |-> path]

\* One process to store data or to serve the others, one to download or to add,
\* one to read.
MCCommands == [p \in Procs |->
    CASE p = p1 -> {Line("daemon", NoProc, <<>>), Line("add", "large", <<>>)}
      [] p = p2 -> {Line("dl", "large", <<>>), Line("add", "small", <<>>)}
      [] p = p3 -> {Line("cat", "large", <<>>), Line("cat", "large", <<"">>),
                     Line("cat", "small", <<"y">>)}]
=============================================================================

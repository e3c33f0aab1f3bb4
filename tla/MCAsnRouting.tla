---------------------------- MODULE MCAsnRouting ----------------------------
(* AsnRouting with addresses of three bits.                                  *)
EXTENDS AsnRouting

Line(p, n) == [prefix |-> p, asn |-> n]

\* A default route, a network in it that is given two numbers, one of them 0,
\* and a line with an IPv6 prefix.
MCLines == {Line(<<>>, 1), Line(<<0, 1>>, 2), Line(<<0, 1>>, 0), Line(NotIPv4, 1)}

\* The same with the address of a single host.
HostLines == {Line(<<0>>, 2), Line(<<0, 1, 0>>, 1)}

MCHosts == {<<0, 1, 0>>, <<0, 0, 1>>}

\* A local and a foreign peer, as other nodes may have numbered them.
MCRemote == {[ip |-> <<0, 0, 1>>, asn |-> 2, published |-> 0],
             [ip |-> <<1, 0, 0>>, asn |-> 1, published |-> 0]}
=============================================================================

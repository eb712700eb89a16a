---------------------------- MODULE MCServerLoop ----------------------------
(* Small instances of ServerLoop for TLC. *)
EXTENDS ServerLoop

CONSTANTS c1, c2, c3

MCConns == {c1, c2, c3}

\* Two connections that may have the same port, and one with a port of its own.
MCPorts == [c \in MCConns |-> IF c = c3 THEN c3 ELSE c1]
=============================================================================

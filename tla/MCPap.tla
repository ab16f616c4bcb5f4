------------------------------- MODULE MCPap -------------------------------
EXTENDS Pap

(* Every client has a socket of its own.                                   *)
MCSockets == [n \in 1 .. MaxConns |-> n]

=============================================================================

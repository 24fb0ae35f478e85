------------------------------- MODULE MCTcp -------------------------------
(* Instances of TcpServer for TLC: a and b ask, t is a telnet client.        *)
EXTENDS TcpServer

CONSTANTS a, b, t

\* a's data may grow past the request buffer, each other client sends one segment.
Segments == [c \in Clients |-> IF c = a THEN ReadBuffer + 1 ELSE 1]
=============================================================================

---------------------------- MODULE MCTcpServer -----------------------------
(* Instances of TcpServer for TLC.                                         *)
EXTENDS TcpServer, TLC

\* Connections are interchangeable: nothing orders or singles out one of them.
Symmetry == Permutations(Conn)
=============================================================================

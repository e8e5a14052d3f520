------------------------------ MODULE MCTcpServer ------------------------------
(* TcpServer for TLC: the cfg file names threads and gives the bounds.     *)
EXTENDS TcpServer
=============================================================================

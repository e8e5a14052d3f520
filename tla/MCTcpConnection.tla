--------------------------- MODULE MCTcpConnection ---------------------------
(* TcpConnection for TLC: the cfg files name the threads as model values.  *)
EXTENDS TcpConnection
=============================================================================

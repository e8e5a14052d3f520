-------------------------- MODULE MCEventLoopThread --------------------------
(* EventLoopThread for TLC: the cfg files give threads and channels model  *)
(* values.                                                                 *)
EXTENDS EventLoopThread
=============================================================================

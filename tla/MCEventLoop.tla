----------------------------- MODULE MCEventLoop -----------------------------
(* EventLoop for TLC: the cfg file names threads and channels.             *)
EXTENDS EventLoop
=============================================================================

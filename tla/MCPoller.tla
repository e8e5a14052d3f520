------------------------------- MODULE MCPoller -------------------------------
(* Poller for TLC: the cfg file names channels and descriptors.            *)
EXTENDS Poller
=============================================================================

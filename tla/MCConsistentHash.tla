--------------------------- MODULE MCConsistentHash ---------------------------
(* ConsistentHash for TLC: the cfg file gives the ring its size.           *)
EXTENDS ConsistentHash
=============================================================================

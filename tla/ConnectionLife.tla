---------------------------- MODULE ConnectionLife ----------------------------
(***************************************************************************)
(* What the user of a TcpServer sees of its connections: each is reported  *)
(* UP once and DOWN once, in this order, is released after that, and never *)
(* spoken of again.  Only a server that is stopping may release a          *)
(* connection that was not reported DOWN.  TcpServer.tla refines this.     *)
(***************************************************************************)
EXTENDS Sequences

CONSTANT Connections

VARIABLES
  heard,       \* of each connection: what its callback was told, in order
  released,    \* the connections that were destroyed
  stopping     \* the server is being stopped

vars == <<heard, released, stopping>>

Init ==
  /\ heard = [c \in Connections |-> <<>>]
  /\ released = {}
  /\ stopping = FALSE

Up(c) ==
  /\ heard[c] = <<>>
  /\ c \notin released
  /\ heard' = [heard EXCEPT ![c] = <<"UP">>]
  /\ UNCHANGED <<released, stopping>>

(* The report may come from the last who holds the connection.             *)
Down(c) ==
  /\ heard[c] = <<"UP">>
  /\ c \notin released
  /\ heard' = [heard EXCEPT ![c] = <<"UP", "DOWN">>]
  /\ released' \in {released, released \cup {c}}
  /\ UNCHANGED stopping

(* Connections that went down are released, several at a time when a loop  *)
(* ends; a stopping server may drop any.                                   *)
Release(cs) ==
  /\ cs # {} /\ cs \cap released = {}
  /\ \A c \in cs : heard[c] = <<"UP", "DOWN">> \/ stopping
  /\ released' = released \cup cs
  /\ UNCHANGED <<heard, stopping>>

Stop ==
  /\ ~stopping
  /\ stopping' = TRUE
  /\ UNCHANGED <<heard, released>>

Next ==
  \/ \E c \in Connections : Up(c) \/ Down(c)
  \/ \E cs \in SUBSET Connections : Release(cs)
  \/ Stop

SafeSpec == Init /\ [][Next]_vars

(* A connection that went down does not stay.                              *)
Goes(c) == heard[c] = <<"UP", "DOWN">> ~> c \in released

Spec == SafeSpec /\ \A c \in Connections : Goes(c)
=============================================================================

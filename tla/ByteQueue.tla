------------------------------ MODULE ByteQueue ------------------------------
(***************************************************************************)
(* What a Buffer promises: a queue of bytes.  What is appended or read     *)
(* from the socket goes to its end; what is handed out is its front; what  *)
(* is retrieved leaves its front.  The variable call makes the last call   *)
(* visible: which it was, the bytes it brought, the length it asked for    *)
(* and the bytes it handed out.                                            *)
(***************************************************************************)
EXTENDS Naturals, Sequences

CONSTANTS
  Chunk,            \* the byte strings that arrive
  Asked             \* the lengths that are asked for

VARIABLES queue, call

Called(op, s, n, out) == [op |-> op, stored |-> s, asked |-> n, given |-> out]

Init == queue = <<>> /\ call = Called("none", <<>>, 0, <<>>)

Front(n) == SubSeq(queue, 1, n)

Rest(n) == IF n < Len(queue) THEN SubSeq(queue, n + 1, Len(queue)) ELSE <<>>

Put(s) ==
  /\ queue' = queue \o s
  /\ call' = Called("put", s, 0, <<>>)

(* Asking for more than there is drops everything.                         *)
Drop(n) ==
  /\ queue' = Rest(n)
  /\ call' = Called("drop", <<>>, n, <<>>)

Take(n) ==
  /\ n <= Len(queue)
  /\ queue' = Rest(n)
  /\ call' = Called("take", <<>>, n, Front(n))

Show(n) ==
  /\ n <= Len(queue)
  /\ call' = Called("show", <<>>, n, Front(n))
  /\ UNCHANGED queue

Next ==
  \/ \E s \in Chunk : Put(s)
  \/ \E n \in Asked : Drop(n) \/ Take(n) \/ Show(n)

Spec == Init /\ [][Next]_<<queue, call>>
=============================================================================

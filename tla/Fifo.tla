-------------------------------- MODULE Fifo --------------------------------
(***************************************************************************)
(* What a pipe promises: a bounded queue of bytes.  A byte that was put in *)
(* comes out once, in order, at the reader that takes it.                  *)
(***************************************************************************)
EXTENDS Naturals, Sequences

CONSTANTS Procs, Byte, Capacity

VARIABLES queue,  \* the bytes in the pipe, oldest first
          got     \* the bytes each process has received in its current read

vars == <<queue, got>>

Init ==
  /\ queue = <<>>
  /\ got = [p \in Procs |-> <<>>]

Put(c) ==
  /\ Len(queue) < Capacity
  /\ queue' = Append(queue, c)
  /\ UNCHANGED got

(* The read returns what it has received. *)
Return(p) ==
  /\ got' = [got EXCEPT ![p] = <<>>]
  /\ UNCHANGED queue

Get(p) ==
  /\ queue # <<>>
  /\ got' = [got EXCEPT ![p] = Append(@, Head(queue))]
  /\ queue' = Tail(queue)

Next == (\E c \in Byte : Put(c)) \/ (\E p \in Procs : Return(p) \/ Get(p))

Spec == Init /\ [][Next]_vars
=============================================================================

----------------------------- MODULE BlockStore -----------------------------
(***************************************************************************)
(* What the buffer cache promises: every disk block is a register that one *)
(* process at a time may use, between bread() and brelse(), and that keeps *)
(* its content whatever the cache does meanwhile.                          *)
(***************************************************************************)
CONSTANTS Procs, Blocks, Values, Blank

VARIABLES content,  \* content of each block
          users     \* for each block, the processes that use it

vars == <<content, users>>

Init ==
  /\ content = [k \in Blocks |-> Blank]
  /\ users = [k \in Blocks |-> {}]

Obtain(p, k) ==
  /\ users[k] = {}
  /\ users' = [users EXCEPT ![k] = {p}]
  /\ UNCHANGED content

Modify(p, k, v) ==
  /\ users[k] = {p}
  /\ content' = [content EXCEPT ![k] = v]
  /\ UNCHANGED users

Giveback(p, k) ==
  /\ users[k] = {p}
  /\ users' = [users EXCEPT ![k] = {}]
  /\ UNCHANGED content

Next ==
  \E p \in Procs, k \in Blocks :
    Obtain(p, k) \/ Giveback(p, k) \/ \E v \in Values : Modify(p, k, v)

Spec == Init /\ [][Next]_vars
=============================================================================

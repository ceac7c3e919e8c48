----------------------------- MODULE AtomicDisk -----------------------------
(***************************************************************************)
(* What the logging layer of log.c promises to the file system.  Blocks    *)
(* have a current content, that system calls see and modify, and a stable  *)
(* content, that a crash falls back to.  The stable content only ever      *)
(* becomes the current content, all at once, at a moment when no file      *)
(* system call is in progress.  A system call that is cut short by a crash *)
(* therefore leaves no trace, and one that is committed is never torn.     *)
(***************************************************************************)
CONSTANTS Procs,    \* processes that make file system calls
          Blocks,   \* home blocks of the file system
          Values,   \* contents a block can have
          Blank     \* the content of every block of a fresh file system

VARIABLES current,  \* content of each block as the running kernel sees it
          stable,   \* content of each block that survives a crash now
          active    \* processes between begin_op() and end_op()

vars == <<current, stable, active>>

Init ==
  /\ current = [b \in Blocks |-> Blank]
  /\ stable = [b \in Blocks |-> Blank]
  /\ active = {}

Begin(p) ==
  /\ p \notin active
  /\ active' = active \cup {p}
  /\ UNCHANGED <<current, stable>>

Write(p, b, v) ==
  /\ p \in active
  /\ current' = [current EXCEPT ![b] = v]
  /\ UNCHANGED <<stable, active>>

End(p) ==
  /\ p \in active
  /\ active' = active \ {p}
  /\ UNCHANGED <<current, stable>>

(* All the completed calls since the last commit become stable together. *)
Commit ==
  /\ active = {}
  /\ stable' = current
  /\ UNCHANGED <<current, active>>

Crash ==
  /\ current' = stable
  /\ active' = {}
  /\ UNCHANGED stable

Next ==
  \/ \E p \in Procs : Begin(p) \/ End(p)
  \/ \E p \in Procs, b \in Blocks, v \in Values : Write(p, b, v)
  \/ Commit
  \/ Crash

Spec == Init /\ [][Next]_vars
=============================================================================

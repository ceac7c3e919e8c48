-------------------------------- MODULE Bio ---------------------------------
(***************************************************************************)
(* The buffer cache of bio.c over the interrupt driven disk of ide.c.      *)
(*                                                                         *)
(* A process calls bread() for a block, may modify the buffer and pin it   *)
(* for the log (log_write()) or write it through (bwrite()), and calls     *)
(* brelse().  bget() and brelse() are one step each under bcache.lock,     *)
(* iderw() and ideintr() under idelock.  bget() and iderw() sleep on the   *)
(* same channel, the buffer, so each may be woken by what is meant for the *)
(* other.                                                                  *)
(***************************************************************************)
EXTENDS Naturals, Sequences, FiniteSets, SequencesExt

CONSTANTS
  Procs,      \* processes in the file system code
  Blocks,     \* disk blocks, numbered from 1; 0 stands for dev == -1
  Bufs,       \* the NBUF buffers
  Values,     \* contents of a block
  Blank,      \* the content of every block of a fresh disk
  MaxPinned,  \* blocks the log pins at most before it commits
  IoErrors    \* the disk may report an error for a read

ASSUME BioConstants ==
  /\ Blocks \subseteq Nat \ {0}
  /\ IsFiniteSet(Bufs)
  /\ Blank \in Values
  /\ MaxPinned \in Nat
  /\ IoErrors \in BOOLEAN

VARIABLES
  disk,       \* content of each disk block
  blockno,    \* b->blockno, 0 for a buffer that has never been used
  data,       \* b->data
  busy,       \* the buffers with B_BUSY set
  valid,      \* the buffers with B_VALID set
  dirty,      \* the buffers with B_DIRTY set
  lru,        \* the bcache list, most recently used first
  idequeue,   \* the disk queue; its head is the active request
  pc,         \* what each process does next
  arg,        \* the block a process asks for
  buf,        \* the buffer a process sleeps on or holds, as a set
  panic       \* a panic() has been reached

flags == <<busy, valid, dirty>>
vars == <<disk, blockno, data, flags, lru, idequeue, pc, arg, buf, panic>>

PCs == {"user", "bget", "bget_sleep", "bread", "iderw", "iderw_sleep", "holds"}

TypeOK ==
  /\ disk \in [Blocks -> Values]
  /\ blockno \in [Bufs -> Blocks \cup {0}]
  /\ data \in [Bufs -> Values]
  /\ busy \in SUBSET Bufs /\ valid \in SUBSET Bufs /\ dirty \in SUBSET Bufs
  /\ lru \in Seq(Bufs) /\ ToSet(lru) = Bufs /\ Len(lru) = Cardinality(Bufs)
  /\ idequeue \in Seq(Bufs)
  /\ pc \in [Procs -> PCs]
  /\ arg \in [Procs -> Blocks \cup {0}]
  /\ buf \in [Procs -> SUBSET Bufs]
  /\ panic \in BOOLEAN

-----------------------------------------------------------------------------
(* binit() *)
Init ==
  /\ disk = [k \in Blocks |-> Blank]
  /\ blockno = [b \in Bufs |-> 0]
  /\ data = [b \in Bufs |-> Blank]
  /\ busy = {} /\ valid = {} /\ dirty = {}
  /\ lru = SetToSeq(Bufs)
  /\ idequeue = <<>>
  /\ pc = [p \in Procs |-> "user"]
  /\ arg = [p \in Procs |-> 0]
  /\ buf = [p \in Procs |-> {}]
  /\ panic = FALSE

WakeupBgetSlip(b) ==
  [q \in Procs |-> IF b \in buf[q] /\ pc[q] = "bget_sleep" THEN "bget" ELSE pc[q]]
Wakeup(b) ==
  [q \in Procs |->
     CASE b \in buf[q] /\ pc[q] = "bget_sleep"  -> "bget"
       [] b \in buf[q] /\ pc[q] = "iderw_sleep" -> "iderw"
       [] OTHER -> pc[q]]

-----------------------------------------------------------------------------
(* bread(dev, blockno) *)
Bread(p, k) ==
  /\ pc[p] = "user"
  /\ pc' = [pc EXCEPT ![p] = "bget"]
  /\ arg' = [arg EXCEPT ![p] = k]
  /\ UNCHANGED <<disk, blockno, data, flags, lru, idequeue, buf, panic>>

(* The buffers that bget()'s first search finds.  Slip: it skips the busy   *)
(* ones.                                                                   *)
CachedSlip(k) == {b \in Bufs : blockno[b] = k} \ busy
Cached(k) == {b \in Bufs : blockno[b] = k}

(* The buffer that bget() recycles: the least recently used one that is    *)
(* neither busy nor dirty.  Slip: B_DIRTY is not tested.                   *)
RecyclableSlip == {i \in 1 .. Len(lru) : lru[i] \notin busy}
Recyclable == {i \in 1 .. Len(lru) : lru[i] \notin busy \cup dirty}
Victim == lru[CHOOSE i \in Recyclable : \A j \in Recyclable : j <= i]

(* bget(): the block is cached and its buffer free. *)
BgetHit(p) ==
  /\ pc[p] = "bget"
  /\ \E b \in Cached(arg[p]) \ busy :
       /\ busy' = busy \cup {b}
       /\ buf' = [buf EXCEPT ![p] = {b}]
  /\ pc' = [pc EXCEPT ![p] = "bread"]
  /\ UNCHANGED <<disk, blockno, data, valid, dirty, lru, idequeue, arg, panic>>

(* bget(): the block is cached and somebody uses its buffer.  After the    *)
(* sleep the search starts again.                                          *)
BgetBusy(p) ==
  /\ pc[p] = "bget"
  /\ \E b \in Cached(arg[p]) \cap busy : buf' = [buf EXCEPT ![p] = {b}]
  /\ pc' = [pc EXCEPT ![p] = "bget_sleep"]
  /\ UNCHANGED <<disk, blockno, data, flags, lru, idequeue, arg, panic>>

(* b->flags = B_BUSY drops B_VALID.  Slip: it survives. *)
InvalidateSlip(b) == valid
Invalidate(b) == valid \ {b}

(* bget(): the block is not cached. *)
BgetMiss(p) ==
  /\ pc[p] = "bget"
  /\ Cached(arg[p]) = {}
  /\ panic' = (Recyclable = {})
  /\ IF Recyclable = {}
       THEN UNCHANGED <<blockno, busy, valid, buf, pc>>
       ELSE /\ blockno' = [blockno EXCEPT ![Victim] = arg[p]]
            /\ busy' = busy \cup {Victim}
            /\ valid' = Invalidate(Victim)
            /\ buf' = [buf EXCEPT ![p] = {Victim}]
            /\ pc' = [pc EXCEPT ![p] = "bread"]
  /\ UNCHANGED <<disk, data, dirty, lru, idequeue, arg>>

(* The loop condition of iderw(): the flags say the disk is in step. *)
IoDone(b, v, d) == b \in v \ d

(* iderw() with the flags valid and d, which panics unless the buffer is    *)
(* held and there is something to do: append it to the queue and wait.     *)
StartIo(p, b, d) ==
  /\ panic' = (b \notin busy \/ IoDone(b, valid, d))
  /\ idequeue' = Append(idequeue, b)
  /\ pc' = [pc EXCEPT ![p] = "iderw_sleep"]

(* The rest of bread(): the content is read unless it is in memory. *)
BreadFill(p) ==
  /\ pc[p] = "bread"
  /\ \E b \in buf[p] :
       IF b \in valid
         THEN /\ pc' = [pc EXCEPT ![p] = "holds"]
              /\ UNCHANGED <<idequeue, panic>>
         ELSE StartIo(p, b, dirty)
  /\ UNCHANGED <<disk, blockno, data, flags, lru, arg, buf>>

(* The while loop of iderw(), after a wakeup. *)
IderwLoop(p) ==
  /\ pc[p] = "iderw"
  /\ \E b \in buf[p] :
       pc' = [pc EXCEPT ![p] = IF IoDone(b, valid, dirty) THEN "holds" ELSE "iderw_sleep"]
  /\ UNCHANGED <<disk, blockno, data, flags, lru, idequeue, arg, buf, panic>>

(* ideintr(): the active request is over.  A read that failed leaves the   *)
(* old content in the buffer, and B_VALID is set all the same.             *)
Ideintr ==
  /\ idequeue # <<>>
  /\ LET b == Head(idequeue)
         k == blockno[b]
     IN  /\ \/ /\ b \in dirty
               /\ disk' = [disk EXCEPT ![k] = data[b]]
               /\ UNCHANGED data
            \/ /\ b \notin dirty
               /\ data' = [data EXCEPT ![b] = disk[k]]
               /\ UNCHANGED disk
            \/ /\ b \notin dirty
               /\ IoErrors
               /\ UNCHANGED <<data, disk>>
         /\ valid' = valid \cup {b}
         /\ dirty' = dirty \ {b}
         /\ pc' = Wakeup(b)
  /\ idequeue' = Tail(idequeue)
  /\ UNCHANGED <<blockno, busy, lru, arg, buf, panic>>

-----------------------------------------------------------------------------
(* What the process does with the buffer it holds.                         *)

(* Modify it, and have log_write() pin it until the log is committed. *)
LogPin(p, v) ==
  /\ pc[p] = "holds"
  /\ \E b \in buf[p] :
       /\ b \in dirty \/ Cardinality(dirty \ ToSet(idequeue)) < MaxPinned
       /\ data' = [data EXCEPT ![b] = v]
       /\ dirty' = dirty \cup {b}
  /\ UNCHANGED <<disk, blockno, busy, valid, lru, idequeue, pc, arg, buf, panic>>

(* Modify it and write it with bwrite(), as the commit of the log does. *)
Bwrite(p, v) ==
  /\ pc[p] = "holds"
  /\ \E b \in buf[p] :
       /\ data' = [data EXCEPT ![b] = v]
       /\ dirty' = dirty \cup {b}
       /\ StartIo(p, b, dirty')
  /\ UNCHANGED <<disk, blockno, busy, valid, lru, arg, buf>>

(* The list with b moved to its front.  Slip: b is not taken out first. *)
MoveToFrontSlip(b) == <<b>> \o lru
MoveToFront(b) == <<b>> \o SelectSeq(lru, LAMBDA c : c # b)

Unbusy(b) == busy \ {b}

(* brelse(): to the front of the list, not busy any more, wake up. *)
Brelse(p) ==
  /\ pc[p] = "holds"
  /\ \E b \in buf[p] :
       /\ panic' = (b \notin busy)
       /\ lru' = MoveToFront(b)
       /\ busy' = Unbusy(b)
       /\ pc' = [Wakeup(b) EXCEPT ![p] = "user"]
  /\ buf' = [buf EXCEPT ![p] = {}]
  /\ arg' = [arg EXCEPT ![p] = 0]
  /\ UNCHANGED <<disk, blockno, data, valid, dirty, idequeue>>

(* kill() makes a process that sleeps in bget() or iderw() run, whatever   *)
(* it waits for.                                                           *)
Kill(p) ==
  /\ pc[p] \in {"bget_sleep", "iderw_sleep"}
  /\ pc' = [pc EXCEPT ![p] = IF @ = "bget_sleep" THEN "bget" ELSE "iderw"]
  /\ UNCHANGED <<disk, blockno, data, flags, lru, idequeue, arg, buf, panic>>

-----------------------------------------------------------------------------
BreadStep(p) ==
  BgetHit(p) \/ BgetBusy(p) \/ BgetMiss(p) \/ BreadFill(p) \/ IderwLoop(p)

Next ==
  /\ ~panic
  /\ \/ \E p \in Procs :
          \/ BreadStep(p)
          \/ Brelse(p)
          \/ Kill(p)
          \/ \E k \in Blocks : Bread(p, k)
          \/ \E v \in Values : LogPin(p, v) \/ Bwrite(p, v)
     \/ Ideintr

Spec == Init /\ [][Next]_vars

(* The disk answers, a process that can run is run, and a process that     *)
(* holds a buffer comes to its brelse() after finitely many writes.        *)
Fairness ==
  /\ WF_vars(~panic /\ Ideintr)
  /\ \A p \in Procs :
       /\ WF_vars(~panic /\ BreadStep(p))
       /\ SF_vars(~panic /\ Brelse(p))

FairSpec == Spec /\ Fairness

-----------------------------------------------------------------------------
(* Properties *)

(* A block is cached in one buffer at most: two processes that ask for a   *)
(* block that is not cached, or that sleep for a buffer that is recycled   *)
(* meanwhile, never end up with a copy each.                               *)
CachedOnce ==
  \A b, c \in Bufs : blockno[b] = blockno[c] /\ blockno[b] # 0 => b = c

(* The content of a block: the cached copy, once it has been read or       *)
(* written, else what is on the disk.                                      *)
Content ==
  [k \in Blocks |->
     LET c == Cached(k) \cap valid
     IN IF c = {} THEN disk[k] ELSE data[CHOOSE b \in c : TRUE]]

(* The processes that bget() has given a block to. *)
Users ==
  [k \in Blocks |->
     {p \in Procs : arg[p] = k /\ pc[p] \notin {"user", "bget", "bget_sleep"}}]

Store == INSTANCE BlockStore WITH content <- Content, users <- Users

(* For the file system the cache is invisible: blocks are registers used   *)
(* by one process at a time, and recycling a buffer, a wakeup meant for    *)
(* another sleeper or a disk request still in the queue never loses or     *)
(* resurrects a content.                                                   *)
IsBlockStore == Store!Spec

(* B_VALID without B_DIRTY means that the buffer has what the disk has, as *)
(* soon as no process is modifying it.                                     *)
ValidMatchesDisk ==
  \A b \in valid \ (dirty \cup busy) : data[b] = disk[blockno[b]]

(* bget() finds a buffer instead of reaching panic("bget: no buffers"),     *)
(* whatever the log has pinned, and no interleaving of interrupts, wakeups *)
(* and requests makes bwrite(), brelse() or iderw() panic because a buffer *)
(* is not busy any more or has already been synchronised.                  *)
NoPanic == ~panic

(* No wakeup is lost: who sleeps on a buffer in bget() or iderw() is woken.*)
SleeperWoken ==
  \A p \in Procs :
    pc[p] \in {"bget_sleep", "iderw_sleep"}
      ~> pc[p] \notin {"bget_sleep", "iderw_sleep"}

(* A disk request is answered: the process that waits in iderw() gets its  *)
(* buffer.                                                                 *)
IoCompletes == \A p \in Procs : pc[p] = "iderw_sleep" ~> pc[p] = "holds"
=============================================================================

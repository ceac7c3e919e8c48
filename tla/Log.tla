-------------------------------- MODULE Log ---------------------------------
(***************************************************************************)
(* The redo log of log.c: begin_op(), log_write(), end_op(), commit() and  *)
(* the recovery that initlog() runs at boot, with a crash of the machine   *)
(* possible between any two disk writes.  One disk write is one step: a    *)
(* block, and the log header with it, is one 512-byte sector.              *)
(*                                                                         *)
(* Code under log->lock is one step.  What log.c does without the lock is  *)
(* a step of its own: the capacity test at the top of log_write() (a step  *)
(* before the append it protects) and every block that commit() copies.    *)
(***************************************************************************)
EXTENDS Naturals, Sequences, FiniteSets

CONSTANTS
  Procs,        \* processes that make file system calls
  Blocks,       \* home blocks of the file system
  Values,       \* contents a block can have
  Blank,        \* the content of every block of a fresh file system
  MAXOPBLOCKS,  \* blocks begin_op() reserves for one call
  LOGSIZE,      \* entries of the header's block[] array
  Size,         \* log->size: blocks of the on-disk log, 0 for no log
  OpBlocks      \* distinct blocks one call really writes at most

ASSUME LogConstants ==
  /\ IsFiniteSet(Procs)
  /\ Blank \in Values
  /\ MAXOPBLOCKS \in Nat \ {0}
  /\ LOGSIZE \in Nat /\ MAXOPBLOCKS <= LOGSIZE
  /\ Size \in Nat
  /\ OpBlocks \in Nat

VARIABLES
  home,         \* on disk: the home blocks
  logData,      \* on disk: the data blocks of the log (start+1, start+2, ...)
  head,         \* on disk: the header block, the sequence of block numbers
  cache,        \* buffer cache: what bread() returns for a home block
  dirty,        \* buffer cache: the blocks pinned with B_DIRTY
  lh,           \* log->lh: the sequence block[0 .. n-1]
  outstanding,  \* log->outstanding
  committing,   \* log->committing
  phase,        \* what the boot code or the committing process does next
  tail,         \* loop index of write_log() and install_trans()
  pc,           \* what each process does next
  holds,        \* the buffers a process holds B_BUSY in log_write()
  wrote,        \* the blocks a process has written in its current call
  panic         \* a panic() has been reached

disk == <<home, logData, head>>
memlog == <<lh, outstanding, committing>>
control == <<phase, tail>>
procs == <<pc, holds, wrote>>
vars == <<disk, cache, dirty, memlog, control, procs, panic>>

LogSlots == 1 .. (IF Size = 0 THEN 0 ELSE Size - 1)
Phases == {"read_head", "install_trans", "erase", "up",
           "write_log", "write_head", "done"}
PCs == {"idle", "asleep", "woken", "op", "commit"}

(* The set of block numbers of a log header. *)
BlocksOf(s) == {s[i] : i \in 1 .. Len(s)}

Active == {p \in Procs : pc[p] = "op"}
Held == UNION {holds[p] : p \in Procs}

TypeOK ==
  /\ home \in [Blocks -> Values]
  /\ logData \in [LogSlots -> Values]
  /\ head \in Seq(Blocks)
  /\ cache \in [Blocks -> Values]
  /\ dirty \in SUBSET Blocks
  /\ lh \in Seq(Blocks)
  /\ outstanding \in Nat
  /\ committing \in BOOLEAN
  /\ phase \in Phases
  /\ tail \in Nat
  /\ pc \in [Procs -> PCs]
  /\ holds \in [Procs -> SUBSET Blocks]
  /\ wrote \in [Procs -> SUBSET Blocks]
  /\ panic \in BOOLEAN

-----------------------------------------------------------------------------
(* The kernel starts: initlog() returns at once on a disk without a log.   *)
BootPhase == IF Size = 0 THEN "up" ELSE "read_head"

Init ==
  /\ home = [b \in Blocks |-> Blank]
  /\ logData = [i \in LogSlots |-> Blank]
  /\ head = <<>>
  /\ cache = [b \in Blocks |-> Blank]
  /\ dirty = {}
  /\ lh = <<>>
  /\ outstanding = 0
  /\ committing = FALSE
  /\ phase = BootPhase
  /\ tail = 0
  /\ pc = [p \in Procs |-> "idle"]
  /\ holds = [p \in Procs |-> {}]
  /\ wrote = [p \in Procs |-> {}]
  /\ panic = FALSE

(* The machine stops and boots again: all memory is lost, the cache is     *)
(* empty and so agrees with the home blocks.                               *)
Crash ==
  /\ cache' = home
  /\ dirty' = {}
  /\ lh' = <<>>
  /\ outstanding' = 0
  /\ committing' = FALSE
  /\ phase' = BootPhase
  /\ tail' = 0
  /\ pc' = [p \in Procs |-> "idle"]
  /\ holds' = [p \in Procs |-> {}]
  /\ wrote' = [p \in Procs |-> {}]
  /\ panic' = FALSE
  /\ UNCHANGED disk

-----------------------------------------------------------------------------
(* begin_op(), end_op() and log_write(), called by a process.              *)

(* System calls are made once recovery is over. *)
Booted == phase = "up" \/ committing

(* wakeup(log).  Slip: it is forgotten. *)
WakeupLogSlip == pc
WakeupLog == [q \in Procs |-> IF pc[q] = "asleep" THEN "woken" ELSE pc[q]]

(* The log might not have room for one more call.  Slip: the call that     *)
(* asks is not counted.                                                    *)
LogFullSlip == Len(lh) + outstanding * MAXOPBLOCKS > LOGSIZE
LogFull == Len(lh) + (outstanding + 1) * MAXOPBLOCKS > LOGSIZE

(* log->outstanding += 1, if there is a log.  Slip: it is forgotten. *)
OneMoreSlip == outstanding
OneMore == IF Size = 0 THEN outstanding ELSE outstanding + 1

(* One turn of begin_op()'s loop: sleep, or be admitted. *)
BeginOp(p) ==
  /\ Booted
  /\ pc[p] \in {"idle", "woken"}
  /\ IF Size # 0 /\ (committing \/ LogFull)
       THEN /\ pc' = [pc EXCEPT ![p] = "asleep"]
            /\ UNCHANGED outstanding
       ELSE /\ pc' = [pc EXCEPT ![p] = "op"]
            /\ outstanding' = OneMore
  /\ UNCHANGED <<disk, cache, dirty, lh, committing, control, holds, wrote, panic>>

(* A call holds the buffer of b, modifies it and calls log_write(), which  *)
(* tests without the lock that there is room.                              *)
LogWriteTest(p, b, v) ==
  /\ Size # 0
  /\ pc[p] = "op" /\ holds[p] = {}
  /\ b \notin Held
  /\ Cardinality(wrote[p] \cup {b}) <= OpBlocks
  /\ cache' = [cache EXCEPT ![b] = v]
  /\ holds' = [holds EXCEPT ![p] = {b}]
  /\ wrote' = [wrote EXCEPT ![p] = @ \cup {b}]
  /\ panic' = (Len(lh) >= LOGSIZE \/ Len(lh) >= Size - 1 \/ outstanding < 1)
  /\ UNCHANGED <<disk, dirty, memlog, control, pc>>

(* b->flags |= B_DIRTY.  Slip: it is forgotten. *)
PinSlip(b) == dirty
Pin(b) == dirty \cup {b}

(* The rest of log_write(), under the lock: a block that is in the header  *)
(* already is absorbed.                                                    *)
LogWriteAppend(p) ==
  \E b \in holds[p] :
    /\ lh' = IF b \in BlocksOf(lh) THEN lh ELSE Append(lh, b)
    /\ dirty' = Pin(b)
    /\ holds' = [holds EXCEPT ![p] = {}]
    /\ UNCHANGED <<disk, cache, outstanding, committing, control, pc, wrote, panic>>

Bwrite(b, v) == [home EXCEPT ![b] = v]

(* log_write() on a disk without a log is bwrite(). *)
LogWriteThrough(p, b, v) ==
  /\ Size = 0
  /\ pc[p] = "op"
  /\ cache' = [cache EXCEPT ![b] = v]
  /\ home' = Bwrite(b, v)
  /\ UNCHANGED <<logData, head, dirty, memlog, control, procs, panic>>

(* end_op() up to the release of the lock: the last call out commits. *)
EndOp(p) ==
  /\ pc[p] = "op" /\ holds[p] = {}
  /\ wrote' = [wrote EXCEPT ![p] = {}]
  /\ IF Size = 0
       THEN /\ pc' = [pc EXCEPT ![p] = "idle"]
            /\ UNCHANGED <<outstanding, committing, phase, tail, panic>>
       ELSE /\ outstanding' = outstanding - 1
            /\ panic' = committing
            /\ IF outstanding = 1
                 THEN /\ committing' = TRUE
                      /\ phase' = IF lh = <<>> THEN "done" ELSE "write_log"
                      /\ tail' = 0
                      /\ pc' = [pc EXCEPT ![p] = "commit"]
                 ELSE /\ pc' = [WakeupLog EXCEPT ![p] = "idle"]
                      /\ UNCHANGED <<committing, phase, tail>>
  /\ UNCHANGED <<disk, cache, dirty, lh, holds>>

-----------------------------------------------------------------------------
(* commit() and recover_from_log(): one disk write at a time.              *)

(* The loops over the header's blocks.  Slip: they stop one block early. *)
MoreBlocksSlip == tail + 1 < Len(lh)
MoreBlocks == tail < Len(lh)

(* write_log(): copy the next modified block from the cache to the log. *)
WriteLog ==
  /\ phase = "write_log"
  /\ IF MoreBlocks
       THEN /\ logData' = [logData EXCEPT ![tail + 1] = cache[lh[tail + 1]]]
            /\ tail' = tail + 1
            /\ UNCHANGED phase
       ELSE /\ phase' = "write_head"
            /\ UNCHANGED <<logData, tail>>
  /\ UNCHANGED <<home, head, cache, dirty, memlog, procs, panic>>

(* Slip: the transaction is installed although the header is not written. *)
WriteHeadSlip ==
  /\ phase = "write_head"
  /\ phase' = "install_trans"
  /\ tail' = 0
  /\ UNCHANGED <<disk, cache, dirty, memlog, procs, panic>>

(* write_head() with the blocks of the transaction: the commit point. *)
WriteHead ==
  /\ phase = "write_head"
  /\ head' = lh
  /\ phase' = "install_trans"
  /\ tail' = 0
  /\ UNCHANGED <<home, logData, cache, dirty, memlog, procs, panic>>

(* install_trans(): copy the next block of the log to its home location;   *)
(* bwrite() clears B_DIRTY.  After the last one log->lh.n becomes 0.       *)
InstallTrans ==
  /\ phase = "install_trans"
  /\ IF MoreBlocks
       THEN LET b == lh[tail + 1] IN
            /\ home' = Bwrite(b, logData[tail + 1])
            /\ cache' = [cache EXCEPT ![b] = logData[tail + 1]]
            /\ dirty' = dirty \ {b}
            /\ tail' = tail + 1
            /\ UNCHANGED <<lh, phase>>
       ELSE /\ lh' = <<>>
            /\ phase' = "erase"
            /\ UNCHANGED <<home, cache, dirty, tail>>
  /\ UNCHANGED <<logData, head, outstanding, committing, procs, panic>>

(* write_head() returns: boot is over, or the committing process is back   *)
(* in end_op().  Slip: a commit ends as recovery does.                     *)
AfterEraseSlip == "up"
AfterErase == IF committing THEN "done" ELSE "up"

(* write_head() with n = 0: the transaction is erased from the log. *)
EraseHead ==
  /\ phase = "erase"
  /\ head' = lh
  /\ phase' = AfterErase
  /\ UNCHANGED <<home, logData, cache, dirty, memlog, tail, procs, panic>>

(* The end of end_op() for the process that committed. *)
CommitDone(p) ==
  /\ pc[p] = "commit"
  /\ phase = "done"
  /\ committing' = FALSE
  /\ phase' = "up"
  /\ pc' = [WakeupLog EXCEPT ![p] = "idle"]
  /\ UNCHANGED <<disk, cache, dirty, lh, outstanding, tail, holds, wrote, panic>>

(* recover_from_log(), first step: read_head(). *)
ReadHead ==
  /\ phase = "read_head"
  /\ lh' = head
  /\ phase' = "install_trans"
  /\ tail' = 0
  /\ UNCHANGED <<disk, cache, dirty, outstanding, committing, procs, panic>>

(* kill() makes a process that sleeps in begin_op() run, whatever it waits *)
(* for.                                                                    *)
Kill(p) ==
  /\ pc[p] = "asleep"
  /\ pc' = [pc EXCEPT ![p] = "woken"]
  /\ UNCHANGED <<disk, cache, dirty, memlog, control, holds, wrote, panic>>

-----------------------------------------------------------------------------
KernelStep == WriteLog \/ WriteHead \/ InstallTrans \/ EraseHead \/ ReadHead

ProcStep(p) ==
  \/ BeginOp(p)
  \/ \E b \in Blocks, v \in Values : LogWriteTest(p, b, v)
  \/ LogWriteAppend(p)
  \/ \E b \in Blocks, v \in Values : LogWriteThrough(p, b, v)
  \/ EndOp(p)
  \/ CommitDone(p)
  \/ Kill(p)

(* A panic stops the kernel; only a reboot follows. *)
Next ==
  \/ ~panic /\ KernelStep
  \/ ~panic /\ \E p \in Procs : ProcStep(p)
  \/ Crash

Spec == Init /\ [][Next]_vars

(* The committing process, the boot code and a woken process keep running  *)
(* (the scheduler is round robin), and a file system call is a finite      *)
(* piece of code that ends with end_op(), however many blocks it writes.   *)
Fairness ==
  /\ WF_vars(~panic /\ KernelStep)
  /\ \A p \in Procs :
       /\ WF_vars(~panic /\ pc[p] = "woken" /\ BeginOp(p))
       /\ WF_vars(~panic /\ LogWriteAppend(p))
       /\ SF_vars(~panic /\ EndOp(p))
       /\ WF_vars(~panic /\ CommitDone(p))

FairSpec == Spec /\ Fairness

-----------------------------------------------------------------------------
(* Properties.                                                             *)

(* The content a home block has after recovery, if the machine stops now:  *)
(* the log's copy for a block the on-disk header names, else the home copy.*)
Recovered ==
  [b \in Blocks |->
     IF b \in BlocksOf(head)
       THEN logData[CHOOSE i \in 1 .. Len(head) : head[i] = b]
       ELSE home[b]]

(* What the abstract specification calls the current content: what the     *)
(* cache holds, or will hold once recovery is over.                        *)
Current == IF Booted THEN cache ELSE Recovered

Atomic == INSTANCE AtomicDisk
            WITH current <- Current, stable <- Recovered, active <- Active

(* A crash at any point of any interleaving of system calls, of commit()   *)
(* or of recover_from_log() leaves the disk with exactly the calls of the  *)
(* last commit, none of them torn.                                         *)
CrashAtomic == Atomic!Spec

(* No call reaches panic("too big a transaction") or panic("log_write      *)
(* outside of trans") in log_write(), or panic("log->committing") in       *)
(* end_op(): begin_op()'s reservation leaves room for every admitted call, *)
(* although log_write() tests for room without holding log->lock.          *)
NoPanic == ~panic

(* When the last end_op() has returned, everything the calls wrote         *)
(* survives a crash.                                                       *)
Durable ==
  (phase = "up" /\ Active = {}) => Recovered = cache

(* A cached block that is newer than its home location is pinned: it is    *)
(* B_DIRTY, or held by the call that is about to log it, so bget() cannot  *)
(* recycle the only copy.                                                  *)
NewerIsPinned ==
  Booted => \A b \in Blocks : cache[b] # home[b] => b \in dirty \cup Held

(* No wakeup is lost: a process that sleeps in begin_op() is woken.        *)
SleeperWoken == \A p \in Procs : pc[p] = "asleep" ~> pc[p] # "asleep"

(* A commit that has started comes to its end.                             *)
CommitEnds == committing ~> ~committing
=============================================================================

-------------------------------- MODULE Pipe --------------------------------
(***************************************************************************)
(* One pipe of pipe.c, from pipealloc() to the kmfree() in pipeclose(),    *)
(* with the processes that hold its two ends, kill() of a process that     *)
(* sleeps in it, and fileclose() as far as it concerns a pipe.             *)
(*                                                                         *)
(* nread and nwrite are unsigned ints that count bytes and wrap at Wrap.   *)
(* The spin lock p->lock is modelled by its holder, so that one byte is    *)
(* one step; sleep() gives the lock up and wakeup() makes the sleepers     *)
(* contend for it again.                                                   *)
(***************************************************************************)
EXTENDS Naturals, Sequences, FiniteSets

CONSTANTS
  Procs,      \* processes that may hold an end of the pipe
  Byte,       \* byte values
  PIPESIZE,   \* size of the ring
  Wrap,       \* 2^32: nread and nwrite are uints
  Readers,    \* the processes that hold the read end at first
  Writers,    \* the processes that hold the write end at first
  Counts,     \* the values of n in read() and write()
  Killable    \* the processes that kill() may be aimed at

ASSUME PipeConstants ==
  /\ PIPESIZE \in Nat \ {0}
  /\ Wrap \in Nat /\ PIPESIZE < Wrap /\ Wrap % PIPESIZE = 0
  /\ Readers \in SUBSET Procs \ {{}} /\ Writers \in SUBSET Procs \ {{}}
  /\ Counts \in SUBSET Nat

VARIABLES
  data,       \* p->data
  nread,      \* p->nread
  nwrite,     \* p->nwrite
  readopen,   \* p->readopen
  writeopen,  \* p->writeopen
  freed,      \* the pipe has been given back with kmfree()
  lock,       \* p->lock: the set of its holders
  rfd, wfd,   \* the processes with the read end, the write end open
  pc,         \* what a process does next
  todo,       \* pipewrite(): addr[i .. n-1], the bytes still to be written
  want,       \* piperead(): n
  got,        \* piperead(): addr[0 .. i-1], the bytes the call has received
  killed      \* proc->killed

ring == <<data, nread, nwrite>>
ends == <<readopen, writeopen, freed, rfd, wfd>>
call == <<todo, want, got>>
vars == <<ring, ends, lock, pc, call, killed>>

Slots == 0 .. PIPESIZE - 1

(* The ++ of a uint.  Slip: a counter that does not wrap. *)
IncSlip(n) == n + 1
Inc(n) == (n + 1) % Wrap

(* The tests of the two loops, in uint arithmetic.  Slip: the sum does not  *)
(* wrap.                                                                   *)
Empty == nread = nwrite
FullSlip == nwrite = nread + PIPESIZE
Full == nwrite = (nread + PIPESIZE) % Wrap

PCs == {"user", "w_acquire", "w_loop", "w_sleep",
        "r_acquire", "r_loop", "r_sleep", "r_copy", "close_r", "close_w"}

TypeOK ==
  /\ data \in [Slots -> Byte]
  /\ nread \in 0 .. Wrap - 1
  /\ nwrite \in 0 .. Wrap - 1
  /\ readopen \in BOOLEAN /\ writeopen \in BOOLEAN /\ freed \in BOOLEAN
  /\ lock \in SUBSET Procs
  /\ rfd \in SUBSET Procs /\ wfd \in SUBSET Procs
  /\ pc \in [Procs -> PCs]
  /\ todo \in [Procs -> Seq(Byte)]
  /\ want \in [Procs -> Nat]
  /\ got \in [Procs -> Seq(Byte)]
  /\ killed \in [Procs -> BOOLEAN]

-----------------------------------------------------------------------------
(* pipealloc(), and forks and closes that left each end with some process. *)
Init ==
  /\ data \in [Slots -> Byte]
  /\ nread = 0 /\ nwrite = 0
  /\ readopen = TRUE /\ writeopen = TRUE /\ freed = FALSE
  /\ lock = {}
  /\ rfd = Readers
  /\ wfd = Writers
  /\ pc = [p \in Procs |-> "user"]
  /\ todo = [p \in Procs |-> <<>>]
  /\ want = [p \in Procs |-> 0]
  /\ got = [p \in Procs |-> <<>>]
  /\ killed = [p \in Procs |-> FALSE]

(* acquire(&p->lock) on the way from one label to the next.  Slip: it does  *)
(* not wait for the holder.                                                *)
AcquireSlip(p, from, to) ==
  /\ pc[p] = from
  /\ lock' = {p}
  /\ pc' = [pc EXCEPT ![p] = to]
  /\ UNCHANGED <<ring, ends, call, killed>>

Acquire(p, from, to) ==
  /\ pc[p] = from
  /\ lock = {}
  /\ lock' = {p}
  /\ pc' = [pc EXCEPT ![p] = to]
  /\ UNCHANGED <<ring, ends, call, killed>>

(* wakeup(&p->nread) and wakeup(&p->nwrite), by p, which goes on to l.     *)
(* Slips: they are forgotten.                                              *)
WakeReadersSlip(p, l) == [pc EXCEPT ![p] = l]
WakeReaders(p, l) ==
  [[q \in Procs |-> IF pc[q] = "r_sleep" THEN "r_acquire" ELSE pc[q]]
     EXCEPT ![p] = l]

WakeWritersSlip(p, l) == [pc EXCEPT ![p] = l]
WakeWriters(p, l) ==
  [[q \in Procs |-> IF pc[q] = "w_sleep" THEN "w_acquire" ELSE pc[q]]
     EXCEPT ![p] = l]

-----------------------------------------------------------------------------
(* pipewrite() *)

StartWrite(p, s) ==
  /\ pc[p] = "user" /\ p \in wfd /\ ~killed[p]
  /\ todo' = [todo EXCEPT ![p] = s]
  /\ pc' = [pc EXCEPT ![p] = "w_acquire"]
  /\ UNCHANGED <<ring, ends, lock, want, got, killed>>

(* p->data[p->nwrite++ % PIPESIZE] = addr[i] *)
WriteByte(p) ==
  /\ pc[p] = "w_loop" /\ todo[p] # <<>> /\ ~Full
  /\ data' = [data EXCEPT ![nwrite % PIPESIZE] = Head(todo[p])]
  /\ nwrite' = Inc(nwrite)
  /\ todo' = [todo EXCEPT ![p] = Tail(@)]
  /\ UNCHANGED <<nread, ends, lock, pc, want, got, killed>>

(* The pipe is full: give up, or wake the readers and sleep. *)
WriteFull(p) ==
  /\ pc[p] = "w_loop" /\ todo[p] # <<>> /\ Full
  /\ lock' = {}
  /\ IF ~readopen \/ killed[p]
       THEN /\ pc' = [pc EXCEPT ![p] = "user"]
            /\ todo' = [todo EXCEPT ![p] = <<>>]
       ELSE /\ pc' = WakeReaders(p, "w_sleep")
            /\ UNCHANGED todo
  /\ UNCHANGED <<ring, ends, want, got, killed>>

WriteReturn(p) ==
  /\ pc[p] = "w_loop" /\ todo[p] = <<>>
  /\ pc' = WakeReaders(p, "user")
  /\ lock' = {}
  /\ UNCHANGED <<ring, ends, call, killed>>

-----------------------------------------------------------------------------
(* piperead() *)

StartRead(p, n) ==
  /\ pc[p] = "user" /\ p \in rfd /\ ~killed[p]
  /\ want' = [want EXCEPT ![p] = n]
  /\ pc' = [pc EXCEPT ![p] = "r_acquire"]
  /\ UNCHANGED <<ring, ends, lock, todo, got, killed>>

(* The while loop: give up or sleep as long as the pipe is empty. *)
ReadWait(p) ==
  /\ pc[p] = "r_loop"
  /\ IF Empty /\ writeopen
       THEN /\ pc' = [pc EXCEPT ![p] = IF killed[p] THEN "user" ELSE "r_sleep"]
            /\ lock' = {}
       ELSE /\ pc' = [pc EXCEPT ![p] = "r_copy"]
            /\ UNCHANGED lock
  /\ UNCHANGED <<ring, ends, call, killed>>

(* addr[i] = p->data[p->nread++ % PIPESIZE] *)
ReadByte(p) ==
  /\ pc[p] = "r_copy" /\ Len(got[p]) < want[p] /\ ~Empty
  /\ got' = [got EXCEPT ![p] = Append(@, data[nread % PIPESIZE])]
  /\ nread' = Inc(nread)
  /\ UNCHANGED <<data, nwrite, ends, lock, pc, todo, want, killed>>

ReadReturn(p) ==
  /\ pc[p] = "r_copy" /\ (Len(got[p]) = want[p] \/ Empty)
  /\ pc' = WakeWriters(p, "user")
  /\ lock' = {}
  /\ got' = [got EXCEPT ![p] = <<>>]
  /\ UNCHANGED <<ring, ends, todo, want, killed>>

-----------------------------------------------------------------------------
(* fileclose(): the process drops its reference; the last one calls        *)
(* pipeclose().                                                            *)
CloseRead(p) ==
  /\ pc[p] = "user" /\ p \in rfd
  /\ rfd' = rfd \ {p}
  /\ pc' = IF rfd' = {} THEN [pc EXCEPT ![p] = "close_r"] ELSE pc
  /\ UNCHANGED <<ring, readopen, writeopen, freed, wfd, lock, call, killed>>

CloseWrite(p) ==
  /\ pc[p] = "user" /\ p \in wfd
  /\ wfd' = wfd \ {p}
  /\ pc' = IF wfd' = {} THEN [pc EXCEPT ![p] = "close_w"] ELSE pc
  /\ UNCHANGED <<ring, readopen, writeopen, freed, rfd, lock, call, killed>>

(* Both ends are closed.  Slip: one of them is. *)
PipeFreeSlip(r, w) == ~r \/ ~w
PipeFree(r, w) == ~r /\ ~w

(* pipeclose(), all of it under the lock. *)
PipeClose(p) ==
  /\ lock = {}
  /\ \/ /\ pc[p] = "close_r"
        /\ readopen' = FALSE
        /\ pc' = WakeWriters(p, "user")
        /\ UNCHANGED writeopen
     \/ /\ pc[p] = "close_w"
        /\ writeopen' = FALSE
        /\ pc' = WakeReaders(p, "user")
        /\ UNCHANGED readopen
  /\ freed' = PipeFree(readopen', writeopen')
  /\ UNCHANGED <<ring, lock, rfd, wfd, call, killed>>


Kill(p) ==
  /\ p \in Killable /\ ~killed[p]
  /\ killed' = [killed EXCEPT ![p] = TRUE]
  /\ pc' = [pc EXCEPT ![p] = CASE @ = "w_sleep" -> "w_acquire"
                               [] @ = "r_sleep" -> "r_acquire"
                               [] OTHER -> @]
  /\ UNCHANGED <<ring, ends, lock, call>>

-----------------------------------------------------------------------------
(* What a process in the pipe code does next. *)
InPipe(p) ==
  \/ Acquire(p, "w_acquire", "w_loop")
  \/ WriteByte(p)
  \/ WriteFull(p)
  \/ WriteReturn(p)
  \/ Acquire(p, "r_acquire", "r_loop")
  \/ ReadWait(p)
  \/ ReadByte(p)
  \/ ReadReturn(p)
  \/ PipeClose(p)

(* What it may ask for while it runs in user mode. *)
FromUser(p) ==
  \/ \E s \in UNION {[1 .. n -> Byte] : n \in Counts} : StartWrite(p, s)
  \/ \E n \in Counts : StartRead(p, n)
  \/ CloseRead(p)
  \/ CloseWrite(p)

Next == \E p \in Procs : InPipe(p) \/ FromUser(p) \/ Kill(p)

Spec == Init /\ [][Next]_vars

(* A process that is in the kernel and not asleep is run again and again,  *)
(* and a spinning acquire() is not starved for ever.  A killed process     *)
(* exits, which closes its ends.                                           *)
Fairness ==
  \A p \in Procs :
    /\ WF_vars(InPipe(p))
    /\ SF_vars(Acquire(p, "w_acquire", "w_loop"))
    /\ SF_vars(Acquire(p, "r_acquire", "r_loop"))
    /\ SF_vars(PipeClose(p))
    /\ WF_vars(killed[p] /\ (CloseRead(p) \/ CloseWrite(p)))

FairSpec == Spec /\ Fairness

-----------------------------------------------------------------------------
(* Properties *)

Used == (nwrite + Wrap - nread) % Wrap

(* The bytes in the ring, oldest first. *)
Contents == [i \in 1 .. Used |-> data[(nread + i - 1) % PIPESIZE]]

F == INSTANCE Fifo WITH queue <- Contents, Capacity <- PIPESIZE

(* Bytes are never lost, duplicated, reordered or overwritten, also when   *)
(* the unsigned counters wrap and with several readers and writers.        *)
IsFifo == F!Spec

(* The lock protects the ring: whoever is between acquire() and release()  *)
(* or sleep() is alone there.                                              *)
Exclusive ==
  \A p \in Procs : pc[p] \in {"w_loop", "r_loop", "r_copy"} <=> lock = {p}

(* A process sleeps in pipewrite() only as long as the pipe is full and a  *)
(* reader is left: no wakeup on &p->nwrite is missed.                      *)
WriterSleepsOnFull ==
  lock = {} => \A p \in Procs : pc[p] = "w_sleep" => Full /\ readopen

(* A process sleeps in piperead() only as long as the pipe is empty and a  *)
(* writer is left: no wakeup on &p->nread is missed.                       *)
ReaderSleepsOnEmpty ==
  lock = {} => \A p \in Procs : pc[p] = "r_sleep" => Empty /\ writeopen

(* Nobody is in the pipe code, or about to enter it, after kmfree().       *)
NoUseAfterFree ==
  freed => \A p \in Procs : pc[p] = "user" /\ p \notin rfd \cup wfd

(* A reader is told of the end of the file: once the last write end is     *)
(* closed every piperead() returns.                                        *)
ReadersSeeEnd ==
  \A p \in Procs :
    (wfd = {} /\ pc[p] \in {"r_acquire", "r_sleep"}) ~> pc[p] = "user"

(* A writer is told that nobody listens: once the last read end is closed  *)
(* every pipewrite() returns.                                              *)
WritersSeeClose ==
  \A p \in Procs :
    (rfd = {} /\ pc[p] \in {"w_acquire", "w_sleep"}) ~> pc[p] = "user"

=============================================================================

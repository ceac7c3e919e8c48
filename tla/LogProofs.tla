----------------------------- MODULE LogProofs ------------------------------
(***************************************************************************)
(* Proofs about the log of log.c, for every number of processes, blocks    *)
(* and contents and for every geometry of the log that gives the calls     *)
(* room.                                                                   *)
(***************************************************************************)
EXTENDS LogSteps

(* A call runs only between recovery and commit. *)
LEMMA OpUp ==
  ASSUME TypeOK, Control, NEW p \in Procs, pc[p] = "op"
  PROVE  phase = "up" /\ ~committing /\ p \in Active
  BY DEF Control, Booted, Active

(* Without calls in progress no buffer is held in log_write(). *)
LEMMA NothingHeld == Holding /\ Active = {} => Held = {}
  BY DEF Holding, Active, Held

(* The copies in the log are the ones that recovery needs. *)
LEMMA CopiesStep == Roomy /\ IInv /\ Next => Copies'
<1> SUFFICES ASSUME Roomy, IInv, Next PROVE Copies'
  OBVIOUS
<1> USE DEF Roomy
<1>0. TypeOK /\ Control /\ Holding /\ Room /\ Copies
  BY DEF IInv
<1>a. TypeOK' /\ Control' /\ Holding'
  BY TypeStep, ControlStep, HoldingStep
<1>b. holds' = holds => Held' = Held
  BY DEF Held
<1>c. pc' = pc => Active' = Active
  BY DEF Active
<1>d. Injective(<<>>)
  BY DEF Injective
<1>1. CASE WriteLog
  <2>1. /\ committing /\ phase = "write_log" /\ tail \in 0 .. Len(lh) /\ Len(lh) < Size
        /\ UNCHANGED <<home, head, cache, lh, committing, holds, pc>>
    <3>1. phase = "write_log" /\ UNCHANGED <<home, head, cache, lh, committing, holds, pc>>
      BY <1>1 DEF WriteLog, memlog, procs
    <3>2. committing /\ tail <= Len(lh)
      BY <1>0, <3>1 DEF Control, Copies
    <3> QED BY <1>0, <3>1, <3>2 DEF Room, TypeOK
  <2>2. CASE MoreBlocks
    <3>1. tail + 1 \in LogSlots /\ tail' = tail + 1 /\ tail + 1 <= Len(lh) /\ phase' = "write_log"
          /\ logData' = [logData EXCEPT ![tail + 1] = cache[lh[tail + 1]]]
      BY <1>0, <1>1, <2>1, <2>2, LogConstants DEF WriteLog, MoreBlocks, LogSlots, TypeOK
    <3>2. ASSUME NEW i \in 1 .. tail' PROVE cache'[lh'[i]] = logData'[i]
      <4>1. tail \in Nat /\ logData \in [LogSlots -> Values]
        BY <1>0 DEF TypeOK
      <4>2. \A j \in 1 .. tail : cache[lh[j]] = logData[j]
        BY <1>0, <2>1 DEF Copies
      <4>3. i = tail + 1 \/ (i \in 1 .. tail /\ i # tail + 1)
        BY <3>1, <4>1
      <4> QED BY <2>1, <3>1, <4>1, <4>2, <4>3
    <3> QED BY <1>0, <1>b, <2>1, <3>1, <3>2 DEF Copies
  <2>3. CASE ~MoreBlocks
    <3>1. tail' = tail /\ tail = Len(lh) /\ phase' = "write_head" /\ logData' = logData
      BY <1>0, <1>1, <2>1, <2>3 DEF WriteLog, MoreBlocks, TypeOK
    <3> QED BY <1>0, <1>b, <2>1, <3>1 DEF Copies
  <2> QED BY <2>2, <2>3
<1>2. CASE WriteHead
  <2>1. /\ committing /\ phase = "write_head" /\ phase' = "install_trans" /\ tail' = 0
        /\ tail = Len(lh) /\ head' = lh
        /\ UNCHANGED <<home, logData, cache, lh, committing, holds, pc>>
    BY <1>0, <1>2 DEF WriteHead, Copies, Control, memlog, procs
  <2>2. Held = {}
    BY <1>0, <2>1, NothingHeld DEF Control
  <2>3. /\ Injective(lh) /\ Len(lh) \in Nat
        /\ \A b \in Blocks : cache[b] # home[b] => b \in BlocksOf(lh)
        /\ \A i \in 1 .. Len(lh) : cache[lh[i]] = logData[i]
    BY <1>0, <2>1, <2>2 DEF Copies, TypeOK
  <2>4. /\ Injective(lh') /\ Injective(head') /\ head' = lh'
        /\ tail' <= Len(lh') /\ 1 .. tail' = {}
    BY <2>1, <2>3
  <2> QED BY <2>1, <2>3, <2>4 DEF Copies
<1>3. CASE InstallTrans
  <2>0. phase = "install_trans" /\ UNCHANGED <<logData, head, committing, holds, pc>>
    BY <1>3 DEF InstallTrans, procs
  <2>i. /\ head = lh /\ tail <= Len(lh) /\ Injective(lh) /\ Injective(head)
        /\ \A i \in 1 .. tail : home[lh[i]] = logData[i]
        /\ \A b \in Blocks : cache[b] # home[b] => committing /\ b \in BlocksOf(lh)
        /\ committing => \A i \in 1 .. Len(lh) : cache[lh[i]] = logData[i]
    BY <1>0, <2>0 DEF Copies
  <2>1. tail \in 0 .. Len(lh) /\ Len(lh) < Size
    BY <1>0, <2>i DEF Room, TypeOK
  <2>2. CASE MoreBlocks
    <3> DEFINE b == lh[tail + 1]
               v == logData[tail + 1]
    <3>1. tail + 1 \in LogSlots /\ tail + 1 \in 1 .. Len(lh) /\ tail' = tail + 1
      BY <1>0, <1>3, <2>1, <2>2, LogConstants DEF InstallTrans, MoreBlocks, LogSlots, TypeOK
    <3>2. /\ home' = [home EXCEPT ![b] = v]
          /\ cache' = [cache EXCEPT ![b] = v]
          /\ UNCHANGED <<lh, phase>>
      BY <1>3, <2>2 DEF InstallTrans, Bwrite
    <3>3. b \in Blocks /\ \A i \in 1 .. Len(lh) : lh[i] = b => i = tail + 1
      BY <1>0, <2>i, <3>1 DEF Injective, TypeOK
    <3>t. /\ home \in [Blocks -> Values] /\ cache \in [Blocks -> Values]
          /\ \A i \in 1 .. Len(lh) : lh[i] \in Blocks
          /\ logData[tail + 1] = v
      BY <1>0 DEF TypeOK
    <3> HIDE DEF b, v
    <3>4. ASSUME NEW i \in 1 .. tail + 1 PROVE home'[lh[i]] = logData[i]
      <4>1. CASE i = tail + 1
        BY <3>2, <3>3, <3>t, <4>1 DEF b
      <4>2. CASE i # tail + 1
        <5>1. i \in 1 .. tail /\ i \in 1 .. Len(lh) /\ lh[i] # b
          BY <2>1, <3>1, <3>3, <4>2
        <5> QED BY <2>i, <3>2, <3>t, <5>1
      <4> QED BY <4>1, <4>2
    <3>5. ASSUME committing, NEW i \in 1 .. Len(lh) PROVE cache'[lh[i]] = logData[i]
      <4>1. cache[lh[i]] = logData[i] /\ lh[i] \in Blocks
        BY <2>i, <3>5, <3>t
      <4>2. lh[i] = b => i = tail + 1
        BY <3>3
      <4> QED BY <3>2, <3>t, <4>1, <4>2
    <3>6. ASSUME NEW c \in Blocks, cache'[c] # home'[c]
          PROVE  committing /\ c \in BlocksOf(lh)
      <4>1. c # b
        BY <3>2, <3>t, <3>6
      <4> QED BY <2>i, <3>2, <3>t, <3>6, <4>1
    <3>7. phase' = "install_trans" /\ head' = lh' /\ tail' <= Len(lh') /\ Injective(lh')
      BY <2>0, <2>i, <3>1, <3>2
    <3>8. /\ \A i \in 1 .. tail' : home'[lh'[i]] = logData'[i]
          /\ \A c \in Blocks : cache'[c] # home'[c] => committing' /\ c \in BlocksOf(lh')
          /\ committing' => \A i \in 1 .. Len(lh') : cache'[lh'[i]] = logData'[i]
      BY <2>0, <3>1, <3>2, <3>4, <3>5, <3>6
    <3> QED BY <3>7, <3>8 DEF Copies
  <2>3. CASE ~MoreBlocks
    <3>1. tail = Len(lh) /\ lh' = <<>> /\ phase' = "erase" /\ UNCHANGED <<home, cache>>
      BY <1>0, <1>3, <2>1, <2>3 DEF InstallTrans, MoreBlocks, TypeOK
    <3>2. \A b \in Blocks : cache[b] = home[b]
      BY <2>i, <3>1 DEF BlocksOf
    <3>3. cache = home
      BY <1>0, <3>2 DEF TypeOK
    <3>4. \A i \in 1 .. Len(head) : home[head[i]] = logData[i]
      BY <2>i, <3>1
    <3> QED BY <1>d, <2>0, <2>i, <3>1, <3>3, <3>4 DEF Copies
  <2> QED BY <2>2, <2>3
<1>4. CASE EraseHead
  <2>1. /\ head' = <<>> /\ lh' = <<>> /\ cache' = home'
        /\ phase' \in {"up", "done"}
    BY <1>0, <1>4 DEF EraseHead, AfterErase, Copies, memlog
  <2> QED BY <1>d, <2>1 DEF Copies
<1>5. CASE ReadHead
  <2>1. /\ phase' = "install_trans" /\ lh' = head /\ head' = head /\ tail' = 0
        /\ cache' = home' /\ Injective(head) /\ ~committing'
    BY <1>0, <1>5 DEF ReadHead, Copies, Control, disk
  <2>2. Len(head) \in Nat
    BY <1>0 DEF TypeOK
  <2> QED BY <2>1, <2>2 DEF Copies
<1>6. ASSUME NEW p \in Procs, BeginOp(p) PROVE Copies'
  <2>1. UNCHANGED <<home, logData, head, cache, lh, committing, phase, tail, holds>>
    BY <1>6 DEF BeginOp, disk, control
  <2>2. Active' = {} => Active = {}
    BY <1>0, <1>6 DEF BeginOp, Active, TypeOK
  <2> QED BY <1>0, <1>b, <2>1, <2>2 DEF Copies
<1>7. ASSUME NEW p \in Procs, NEW b \in Blocks, NEW v \in Values, LogWriteTest(p, b, v)
      PROVE  Copies'
  <2>1. /\ phase = "up" /\ p \in Active
        /\ cache' = [cache EXCEPT ![b] = v]
        /\ holds' = [holds EXCEPT ![p] = {b}] /\ holds[p] = {}
        /\ UNCHANGED <<home, head, lh, phase, pc>>
    BY <1>0, <1>7, OpUp DEF LogWriteTest, disk, memlog, control
  <2>2. b \in Held' /\ Held \subseteq Held'
    BY <1>0, <2>1 DEF Held, TypeOK
  <2>3. \A c \in Blocks : cache'[c] # home'[c] => c \in BlocksOf(lh) \cup Held'
    BY <1>0, <2>1, <2>2 DEF Copies, TypeOK
  <2> QED BY <1>0, <1>c, <2>1, <2>3 DEF Copies
<1>8. ASSUME NEW p \in Procs, LogWriteAppend(p) PROVE Copies'
  <2>1. PICK b \in holds[p] : lh' = IF b \in BlocksOf(lh) THEN lh ELSE Append(lh, b)
    BY <1>8 DEF LogWriteAppend
  <2>2. /\ phase = "up" /\ p \in Active
        /\ holds' = [holds EXCEPT ![p] = {}]
        /\ UNCHANGED <<home, head, cache, phase, pc>>
    BY <1>0, <1>8, OpUp DEF LogWriteAppend, Holding, disk, control
  <2>3. b \in Blocks /\ Held \subseteq Held' \cup {b}
    BY <1>0, <2>1, <2>2 DEF Held, Holding, TypeOK
  <2>4. BlocksOf(lh') = BlocksOf(lh) \cup {b}
    BY <1>0, <2>1, <2>3, BlocksOfAppend DEF TypeOK
  <2>5. Injective(lh')
    <3>1. CASE b \in BlocksOf(lh)
      BY <1>0, <2>1, <3>1 DEF Copies
    <3>2. CASE b \notin BlocksOf(lh)
      <4>1. lh' = Append(lh, b) /\ \A i \in 1 .. Len(lh) : lh[i] # b
        BY <2>1, <3>2 DEF BlocksOf
      <4>2. lh \in Seq(Blocks) /\ \A i, j \in 1 .. Len(lh) : lh[i] = lh[j] => i = j
        BY <1>0 DEF Copies, Injective, TypeOK
      <4>3. /\ Len(lh') = Len(lh) + 1 /\ Len(lh) \in Nat /\ lh'[Len(lh) + 1] = b
            /\ \A i \in 1 .. Len(lh) : lh'[i] = lh[i]
        BY <2>3, <4>1, <4>2
      <4> QED BY <4>1, <4>2, <4>3 DEF Injective
    <3> QED BY <3>1, <3>2
  <2>6. head = <<>> /\ \A c \in Blocks : cache[c] # home[c] => c \in BlocksOf(lh) \cup Held
    BY <1>0, <2>2 DEF Copies
  <2> QED BY <1>c, <1>d, <2>2, <2>3, <2>4, <2>5, <2>6 DEF Copies
<1>9. ASSUME NEW p \in Procs, EndOp(p) PROVE Copies'
  <2>1. /\ phase = "up"
        /\ UNCHANGED <<home, logData, head, cache, lh, holds>>
    BY <1>0, <1>9, OpUp DEF EndOp, disk
  <2>2. CASE outstanding = 1
    <3>1. phase' = (IF lh = <<>> THEN "done" ELSE "write_log") /\ tail' = 0
      BY <1>9, <2>2 DEF EndOp
    <3>2. Len(lh) \in Nat
      BY <1>0 DEF TypeOK
    <3>3. /\ head = <<>> /\ Injective(lh) /\ Injective(head)
          /\ \A b \in Blocks : cache[b] # home[b] => b \in BlocksOf(lh) \cup Held
      BY <1>0, <2>1 DEF Copies
    <3>4. CASE lh = <<>>
      <4>1. phase' = "done" /\ lh' = <<>>
        BY <2>1, <3>1, <3>4
      <4> QED BY <1>b, <2>1, <3>3, <4>1 DEF Copies
    <3>5. CASE lh # <<>>
      <4>1. phase' = "write_log" /\ tail' <= Len(lh') /\ 1 .. tail' = {}
        BY <2>1, <3>1, <3>2, <3>5
      <4> QED BY <1>b, <2>1, <3>3, <4>1 DEF Copies
    <3> QED BY <3>4, <3>5
  <2>3. CASE outstanding # 1
    <3>1. phase' = "up" /\ outstanding' # 0
      BY <1>0, <1>9, <2>1, <2>3 DEF EndOp, TypeOK
    <3>2. Active' # {}
      BY <1>a, <3>1, FS_EmptySet DEF Control
    <3> QED BY <1>0, <1>b, <2>1, <3>1, <3>2 DEF Copies
  <2> QED BY <2>2, <2>3
<1>10. ASSUME NEW p \in Procs, CommitDone(p) PROVE Copies'
  <2>1. /\ phase = "done" /\ phase' = "up"
        /\ UNCHANGED <<home, head, cache, lh, holds>>
    BY <1>10 DEF CommitDone, disk
  <2> QED BY <1>0, <1>b, <2>1 DEF Copies
<1>11. ASSUME NEW p \in Procs, Kill(p) PROVE Copies'
  <2>1. UNCHANGED <<home, logData, head, cache, lh, committing, phase, tail, holds>>
    BY <1>11 DEF Kill, disk, memlog, control
  <2>2. Active' = Active
    BY <1>0, <1>11 DEF Kill, Active, TypeOK
  <2> QED BY <1>0, <1>b, <2>1, <2>2 DEF Copies
<1>12. CASE Crash
  <2>1. phase' = "read_head" /\ cache' = home' /\ lh' = <<>> /\ head' = head
    BY <1>12 DEF Crash, BootPhase, disk
  <2>2. Injective(head)
    BY <1>0 DEF Copies
  <2> QED BY <1>d, <2>1, <2>2 DEF Copies
<1> QED BY Zenon, NextCases,
           <1>1, <1>2, <1>3, <1>4, <1>5, <1>6, <1>7, <1>8, <1>9, <1>10, <1>11, <1>12

(* Every step keeps newer blocks pinned. *)
LEMMA PinnedStep == Roomy /\ IInv /\ Next => NewerIsPinned'
<1> SUFFICES ASSUME Roomy, IInv, Next PROVE NewerIsPinned'
  OBVIOUS
<1> USE DEF Roomy
<1>0. TypeOK /\ Control /\ Holding /\ Copies /\ NewerIsPinned
  BY DEF IInv
<1>1. CASE WriteLog
  BY <1>0, <1>1 DEF WriteLog, NewerIsPinned, Control, Booted, Held, memlog, procs
<1>2. CASE WriteHead
  BY <1>0, <1>2 DEF WriteHead, NewerIsPinned, Control, Booted, Held, memlog, procs
<1>3. CASE InstallTrans
  <2>1. phase = "install_trans" /\ UNCHANGED <<committing, holds>>
    BY <1>3 DEF InstallTrans, procs
  <2>2. CASE MoreBlocks
    <3> DEFINE b == lh[tail + 1]
               v == logData[tail + 1]
    <3>1. /\ home' = [home EXCEPT ![b] = v]
          /\ cache' = [cache EXCEPT ![b] = v]
          /\ dirty' = dirty \ {b} /\ phase' = phase
      BY <1>3, <2>2 DEF InstallTrans, Bwrite
    <3> HIDE DEF b, v
    <3>2. home \in [Blocks -> Values] /\ cache \in [Blocks -> Values]
      BY <1>0 DEF TypeOK
    <3>3. Held' = Held /\ (Booted' => Booted)
      BY <2>1, <3>1 DEF Held, Booted
    <3>4. ASSUME Booted', NEW c \in Blocks, cache'[c] # home'[c]
          PROVE  c \in dirty' \cup Held'
      <4>1. c # b /\ cache[c] # home[c]
        BY <3>1, <3>2, <3>4
      <4> QED BY <1>0, <3>1, <3>3, <3>4, <4>1 DEF NewerIsPinned
    <3> QED BY <3>4 DEF NewerIsPinned
  <2>3. CASE ~MoreBlocks
    BY <1>0, <1>3, <2>1, <2>3 DEF InstallTrans, NewerIsPinned, Booted, Held
  <2> QED BY <2>2, <2>3
<1>4. CASE EraseHead
  BY <1>0, <1>4 DEF EraseHead, Copies, NewerIsPinned
<1>5. CASE ReadHead
  BY <1>0, <1>5 DEF ReadHead, NewerIsPinned, Control, Booted
<1>6. ASSUME NEW p \in Procs, BeginOp(p) PROVE NewerIsPinned'
  BY <1>0, <1>6 DEF BeginOp, NewerIsPinned, Booted, Held, disk, control
<1>7. ASSUME NEW p \in Procs, NEW b \in Blocks, NEW v \in Values, LogWriteTest(p, b, v)
      PROVE  NewerIsPinned'
  <2>1. /\ cache' = [cache EXCEPT ![b] = v]
        /\ holds' = [holds EXCEPT ![p] = {b}] /\ holds[p] = {}
        /\ UNCHANGED <<home, dirty, committing, phase>>
    BY Zenon, <1>7 DEF LogWriteTest, disk, memlog, control
  <2>2. b \in Held' /\ Held \subseteq Held'
    BY <1>0, <2>1 DEF Held, TypeOK
  <2> QED BY <1>0, <2>1, <2>2 DEF NewerIsPinned, Booted, TypeOK
<1>8. ASSUME NEW p \in Procs, LogWriteAppend(p) PROVE NewerIsPinned'
  <2>1. PICK b \in holds[p] : dirty' = dirty \cup {b}
    BY <1>8 DEF LogWriteAppend, Pin
  <2>2. /\ holds' = [holds EXCEPT ![p] = {}]
        /\ UNCHANGED <<home, cache, committing, phase>>
    BY <1>8 DEF LogWriteAppend, disk, control
  <2>3. Held \subseteq Held' \cup {b}
    BY <1>0, <2>1, <2>2 DEF Held, Holding, TypeOK
  <2> QED BY <1>0, <2>1, <2>2, <2>3 DEF NewerIsPinned, Booted
<1>9. ASSUME NEW p \in Procs, EndOp(p) PROVE NewerIsPinned'
  <2>1. Booted /\ UNCHANGED <<home, cache, dirty, holds>>
    BY <1>0, <1>9, OpUp DEF EndOp, Booted, disk
  <2> QED BY <1>0, <2>1 DEF NewerIsPinned, Held
<1>10. ASSUME NEW p \in Procs, CommitDone(p) PROVE NewerIsPinned'
  <2>1. Booted /\ UNCHANGED <<home, cache, dirty, holds>>
    BY <1>0, <1>10 DEF CommitDone, Control, Booted, disk
  <2> QED BY <1>0, <2>1 DEF NewerIsPinned, Held
<1>11. ASSUME NEW p \in Procs, Kill(p) PROVE NewerIsPinned'
  BY <1>0, <1>11 DEF Kill, NewerIsPinned, Booted, Held, disk, memlog, control
<1>12. CASE Crash
  BY <1>12 DEF Crash, NewerIsPinned, disk
<1> QED BY Zenon, NextCases,
           <1>1, <1>2, <1>3, <1>4, <1>5, <1>6, <1>7, <1>8, <1>9, <1>10, <1>11, <1>12

-----------------------------------------------------------------------------
(* IInv holds in every reachable state.  It implies the type invariant of  *)
(* Log, and that every block of the header has its place in the on-disk    *)
(* log: write_log() never runs over the end of the log.                    *)
THEOREM Invariance == Roomy => (Spec => []IInv)
<1> SUFFICES ASSUME Roomy PROVE Spec => []IInv
  OBVIOUS
<1>1. Init => IInv
  BY InitInv
<1>2. IInv /\ [Next]_vars => IInv'
  <2> SUFFICES ASSUME IInv, [Next]_vars PROVE IInv'
    OBVIOUS
  <2>1. CASE Next
    BY <2>1, TypeStep, ControlStep, HoldingStep, RoomStep, CopiesStep, PinnedStep DEF IInv
  <2>2. CASE UNCHANGED vars
    <3> USE <2>2 DEF vars, disk, memlog, control, procs
    <3>1. TypeOK'
      BY DEF IInv, TypeOK
    <3>2. Control'
      BY DEF IInv, Control, Booted, Active
    <3>3. Holding'
      BY DEF IInv, Holding
    <3>4. Active' = Active /\ Held' = Held
      BY DEF Active, Held
    <3>5. Room'
      BY <3>4 DEF IInv, Room, Credits
    <3>6. Copies'
      BY <3>4 DEF IInv, Copies
    <3>7. NewerIsPinned'
      BY <3>4 DEF IInv, NewerIsPinned, Booted
    <3> QED BY <3>1, <3>2, <3>3, <3>5, <3>6, <3>7 DEF IInv
  <2> QED BY <2>1, <2>2
<1> QED BY <1>1, <1>2, PTL DEF Spec

(* The cache may recycle every buffer that bget() is allowed to recycle:   *)
(* a block that is newer than its home location is B_DIRTY or held, at     *)
(* every point of log_write(), commit() and recovery.                      *)
THEOREM Pinned == Roomy => (Spec => []NewerIsPinned)
<1>1. IInv => NewerIsPinned
  BY DEF IInv
<1> QED BY <1>1, Invariance, PTL

(* When end_op() has returned to the last caller its writes are on the     *)
(* disk and recovery cannot take them back.                                *)
THEOREM DurableAlways == Roomy => (Spec => []Durable)
<1>1. IInv => Durable
  <2> SUFFICES ASSUME IInv, phase = "up", Active = {} PROVE Recovered = cache
    BY DEF Durable
  <2>1. head = <<>> /\ lh = <<>> /\ Held = {}
    BY NothingHeld DEF IInv, Copies
  <2>2. BlocksOf(head) = {} /\ BlocksOf(lh) = {}
    BY <2>1 DEF BlocksOf
  <2>3. \A b \in Blocks : cache[b] = home[b]
    BY <2>1, <2>2 DEF IInv, Copies
  <2> QED BY <2>2, <2>3 DEF Recovered, IInv, TypeOK
<1> QED BY <1>1, Invariance, PTL

(* One block of slack more, for the header and for the block that          *)
(* log_write() counts although it will be absorbed.                        *)
Slack == Roomy /\ OpBlocks < MAXOPBLOCKS /\ LOGSIZE + OpBlocks + 1 < Size + MAXOPBLOCKS

(* With that geometry the kernel reaches no panic() of log.c, although     *)
(* log_write() tests for room before it takes the lock.                    *)
THEOREM NeverPanics == Slack => (Spec => []NoPanic)
<1> SUFFICES ASSUME Slack PROVE Spec => []NoPanic
  OBVIOUS
<1> USE DEF Slack, NoPanic
<1>1. Init => NoPanic
  BY DEF Init
<1>2. IInv /\ NoPanic /\ [Next]_vars => NoPanic'
  <2> SUFFICES ASSUME IInv, NoPanic, [Next]_vars PROVE NoPanic'
    OBVIOUS
  <2>0. TypeOK /\ Control /\ Holding /\ Room
    BY DEF IInv
  <2>1. ASSUME NEW p \in Procs, NEW b \in Blocks, NEW v \in Values, LogWriteTest(p, b, v)
        PROVE  NoPanic'
    <3>1. p \in Active /\ IsFiniteSet(wrote[p]) /\ Cardinality(wrote[p]) <= OpBlocks
      BY <2>0, <2>1 DEF LogWriteTest, Active, Holding
    <3>2. Cardinality(wrote[p]) \in Nat
      BY <3>1, FS_CardinalityType
    <3>3. /\ Left(wrote[p], lh) \in 0 .. MAXOPBLOCKS
          /\ Left(wrote[p], lh) >= MAXOPBLOCKS - OpBlocks
      <4>1. /\ Left(wrote[p], lh) \in Int
            /\ Left(wrote[p], lh) <= MAXOPBLOCKS
            /\ Left(wrote[p], lh) >= MAXOPBLOCKS - Cardinality(wrote[p])
        BY <3>1, LeftBounds
      <4> DEFINE l == Left(wrote[p], lh)
                 c == Cardinality(wrote[p])
      <4>2. /\ l \in Int /\ l <= MAXOPBLOCKS /\ l >= MAXOPBLOCKS - c
            /\ c \in Nat /\ c <= OpBlocks
        BY <3>1, <3>2, <4>1
      <4> HIDE DEF l, c
      <4>3. l \in 0 .. MAXOPBLOCKS /\ l >= MAXOPBLOCKS - OpBlocks
        BY <4>2, LogConstants
      <4> QED BY <4>3 DEF l
    <3>4. Left(wrote[p], lh) <= Cardinality(Credits) /\ Cardinality(Credits) \in Nat
      BY <3>1, <3>3, ActiveFinite, CreditsOfOne, CreditSetFinite DEF Credits
    <3>5. Len(lh) < LOGSIZE /\ Len(lh) < Size - 1
      BY <2>0, <3>3, <3>4, LogConstants DEF Room, TypeOK
    <3>6. outstanding >= 1
      BY <2>0, <3>1, ActiveFinite, FS_EmptySet DEF Control, TypeOK
    <3>7. ~(Len(lh) >= LOGSIZE \/ Len(lh) >= Size - 1 \/ outstanding < 1)
      BY <2>0, <3>5, <3>6, LogConstants DEF TypeOK
    <3> QED BY Zenon, <2>1, <3>7 DEF LogWriteTest
  <2>2. ASSUME NEW p \in Procs, EndOp(p) PROVE NoPanic'
    BY <2>0, <2>2, OpUp DEF EndOp
  <2>3. CASE KernelStep
    BY <2>3 DEF KernelStep, WriteLog, WriteHead, InstallTrans, EraseHead, ReadHead
  <2>4. ASSUME NEW p \in Procs, BeginOp(p) \/ LogWriteAppend(p) \/ CommitDone(p) \/ Kill(p)
        PROVE  NoPanic'
    BY <2>4 DEF BeginOp, LogWriteAppend, CommitDone, Kill
  <2>5. ASSUME NEW p \in Procs, NEW b \in Blocks, NEW v \in Values, LogWriteThrough(p, b, v)
        PROVE  NoPanic'
    BY <2>5 DEF LogWriteThrough
  <2>6. CASE Crash
    BY <2>6 DEF Crash
  <2>7. CASE UNCHANGED vars
    BY <2>7 DEF vars
  <2> QED BY <2>1, <2>2, <2>3, <2>4, <2>5, <2>6, <2>7 DEF Next, ProcStep
<1> QED BY <1>1, <1>2, Invariance, PTL DEF Spec

-----------------------------------------------------------------------------
(* The log implements AtomicDisk.                                          *)

(* Recovered, with the disk as parameters. *)
Rec(hm, ld, hd) ==
  [b \in Blocks |-> IF b \in BlocksOf(hd)
                      THEN ld[CHOOSE i \in 1 .. Len(hd) : hd[i] = b]
                      ELSE hm[b]]

(* f is the content that the disk hm, ld, hd recovers to. *)
RecoversTo(hm, ld, hd, f) ==
  /\ hd \in Seq(Blocks) /\ Injective(hd)
  /\ f \in [Blocks -> Values]
  /\ \A i \in 1 .. Len(hd) : f[hd[i]] = ld[i]
  /\ \A b \in Blocks \ BlocksOf(hd) : f[b] = hm[b]

(* Recovery determines the content of every block. *)
LEMMA RecIs ==
  ASSUME NEW hm, NEW ld, NEW hd, NEW f, RecoversTo(hm, ld, hd, f)
  PROVE  Rec(hm, ld, hd) = f
<1>0. /\ hd \in Seq(Blocks) /\ Injective(hd)
      /\ f \in [Blocks -> Values]
      /\ \A i \in 1 .. Len(hd) : f[hd[i]] = ld[i]
      /\ \A b \in Blocks \ BlocksOf(hd) : f[b] = hm[b]
  BY DEF RecoversTo
<1>1. ASSUME NEW b \in Blocks, b \in BlocksOf(hd)
      PROVE  ld[CHOOSE i \in 1 .. Len(hd) : hd[i] = b] = f[b]
  <2>1. PICK k \in 1 .. Len(hd) : hd[k] = b
    BY <1>1 DEF BlocksOf
  <2>2. (CHOOSE i \in 1 .. Len(hd) : hd[i] = b) = k
    BY <1>0, <2>1 DEF Injective
  <2> QED BY <1>0, <2>1, <2>2
<1> DEFINE g(b) == IF b \in BlocksOf(hd)
                    THEN ld[CHOOSE i \in 1 .. Len(hd) : hd[i] = b]
                    ELSE hm[b]
<1>2. \A b \in Blocks : g(b) = f[b]
  BY Zenon, <1>0, <1>1
<1>3. Rec(hm, ld, hd) = [b \in Blocks |-> g(b)]
  BY DEF Rec
<1> HIDE DEF g
<1> QED BY <1>0, <1>2, <1>3

(* Installing a block that is in the log leaves that content as it is. *)
LEMMA RecSame ==
  ASSUME NEW hd, NEW ld, NEW hm, NEW hm2,
         \A b \in Blocks \ BlocksOf(hd) : hm2[b] = hm[b]
  PROVE  Rec(hm2, ld, hd) = Rec(hm, ld, hd)
  BY DEF Rec

(* A freshly booted log is an initial state of the atomic disk. *)
LEMMA AtomicInit == Roomy /\ Init => Atomic!Init
<1> SUFFICES ASSUME Roomy, Init PROVE Atomic!Init
  OBVIOUS
<1>1. ~Booted /\ Active = {} /\ home = [b \in Blocks |-> Blank]
  BY DEF Roomy, Init, BootPhase, Booted, Active
<1>2. BlocksOf(head) = {}
  BY DEF Init, BlocksOf
<1>3. Recovered = home
  BY <1>1, <1>2 DEF Recovered
<1> QED BY <1>1, <1>3 DEF Current, Atomic!Init

(* Every step of log.c is a step of the atomic disk or none. *)
LEMMA AtomicStep == Roomy /\ IInv /\ IInv' /\ [Next]_vars => [Atomic!Next]_(Atomic!vars)
<1> SUFFICES ASSUME Roomy, IInv, IInv', [Next]_vars
             PROVE  Atomic!Next \/ UNCHANGED <<Current, Recovered, Active>>
  BY DEF Atomic!vars
<1> USE DEF Roomy
<1>0. TypeOK /\ Control /\ Holding /\ Room /\ Copies
  BY DEF IInv
<1>a. TypeOK' /\ Copies'
  BY DEF IInv
<1>b. Recovered = Rec(home, logData, head) /\ Recovered' = Rec(home', logData', head')
  BY DEF Recovered, Rec
<1>c. UNCHANGED <<home, logData, head>> => Recovered' = Recovered
  BY DEF Recovered
<1>d. head = <<>> => Recovered = home
  <2>1. head = <<>> => BlocksOf(head) = {}
    BY DEF BlocksOf
  <2> QED BY <1>0, <2>1 DEF Recovered, TypeOK
<1>e. head' = <<>> => Recovered' = home'
  <2>1. head' = <<>> => BlocksOf(head') = {}
    BY DEF BlocksOf
  <2> QED BY <1>a, <2>1 DEF Recovered, TypeOK
<1>1. CASE WriteLog
  <2>1. head = <<>> /\ UNCHANGED <<home, head, cache, pc, committing>> /\ committing
    BY <1>0, <1>1 DEF WriteLog, Copies, Control, memlog, procs
  <2> QED BY <1>d, <1>e, <2>1 DEF Current, Booted, Active
<1>2. CASE WriteHead
  <2>1. /\ committing /\ Active = {} /\ Held = {} /\ head' = lh /\ tail = Len(lh)
        /\ phase = "write_head"
        /\ UNCHANGED <<home, logData, cache, pc, committing, lh>>
    BY Zenon, <1>0, <1>2, NothingHeld DEF WriteHead, Copies, Control, memlog, procs
  <2>2. RecoversTo(home, logData, lh, cache)
    BY <1>0, <2>1 DEF RecoversTo, Copies, TypeOK
  <2>3. Recovered' = cache
    BY <1>b, <2>1, <2>2, RecIs
  <2>4. Current = cache /\ Current' = cache /\ Active' = Active
    BY <2>1 DEF Current, Booted, Active
  <2> QED BY <2>1, <2>3, <2>4 DEF Atomic!Next, Atomic!Commit
<1>3. CASE InstallTrans
  <2>1. phase = "install_trans" /\ UNCHANGED <<logData, head, committing, pc>>
    BY <1>3 DEF InstallTrans, procs
  <2>2. CASE MoreBlocks
    <3> DEFINE b == lh[tail + 1]
               v == logData[tail + 1]
    <3>1. /\ tail + 1 \in 1 .. Len(lh)
          /\ home' = [home EXCEPT ![b] = v]
          /\ cache' = [cache EXCEPT ![b] = v]
          /\ phase' = phase
      <4>1. tail \in Nat /\ Len(lh) \in Nat
        BY <1>0 DEF TypeOK
      <4>2. tail + 1 \in 1 .. Len(lh)
        BY <2>2, <4>1 DEF MoreBlocks
      <4> QED BY <1>3, <2>2, <4>2 DEF InstallTrans, Bwrite
    <3>2. b \in BlocksOf(head) /\ b \in Blocks
      <4>1. head = lh
        BY <1>0, <2>1 DEF Copies
      <4>2. lh \in Seq(Blocks)
        BY <1>0 DEF TypeOK
      <4> QED BY <3>1, <4>1, <4>2 DEF BlocksOf
    <3>3. committing => cache[b] = v
      BY <1>0, <2>1, <3>1 DEF Copies
    <3> HIDE DEF b, v
    <3>4. Recovered' = Recovered
      <4>1. \A c \in Blocks \ BlocksOf(head) : home'[c] = home[c]
        BY <1>0, <3>1, <3>2 DEF TypeOK
      <4> QED BY <1>b, <2>1, <4>1, RecSame
    <3>5. committing => cache' = cache
      BY <1>0, <3>1, <3>2, <3>3 DEF TypeOK
    <3> QED BY Zenon, <2>1, <3>1, <3>4, <3>5 DEF Current, Booted, Active
  <2>3. CASE ~MoreBlocks
    <3>1. UNCHANGED <<home, cache>> /\ phase' = "erase"
      BY <1>3, <2>3 DEF InstallTrans
    <3> QED BY <1>c, <2>1, <3>1 DEF Current, Booted, Active
  <2> QED BY <2>2, <2>3
<1>4. CASE EraseHead
  <2>1. /\ head' = <<>> /\ cache = home /\ phase = "erase"
        /\ UNCHANGED <<home, cache, logData, committing, pc>>
    BY <1>0, <1>4 DEF EraseHead, Copies, memlog, procs
  <2>2. RecoversTo(home, logData, head, home)
    BY <1>0, <2>1 DEF RecoversTo, Copies, TypeOK
  <2>3. Recovered = home
    BY <1>b, <2>2, RecIs
  <2> QED BY <1>e, <2>1, <2>3 DEF Current, Active
<1>5. CASE ReadHead
  <2>1. UNCHANGED <<home, logData, head, committing, pc, cache>> /\ ~Booted /\ ~Booted'
    BY <1>0, <1>5 DEF ReadHead, Control, Booted, disk, procs
  <2> QED BY <1>c, <2>1 DEF Current, Active
<1>6. ASSUME NEW p \in Procs, BeginOp(p)
      PROVE  Atomic!Next \/ UNCHANGED <<Current, Recovered, Active>>
  <2>1. UNCHANGED <<Current, Recovered>>
    <3>1. UNCHANGED <<home, logData, head, cache, committing, phase>>
      BY <1>6 DEF BeginOp, disk, control
    <3> QED BY <1>c, <3>1 DEF Current, Booted
  <2>2. Active' = Active \/ (p \notin Active /\ Active' = Active \cup {p})
    BY <1>0, <1>6 DEF BeginOp, Active, TypeOK
  <2> QED BY <2>1, <2>2 DEF Atomic!Next, Atomic!Begin
<1>7. ASSUME NEW p \in Procs, NEW b \in Blocks, NEW v \in Values, LogWriteTest(p, b, v)
      PROVE  Atomic!Next
  <2>1. /\ p \in Active /\ Booted /\ Booted'
        /\ cache' = [cache EXCEPT ![b] = v]
        /\ UNCHANGED <<home, logData, head, pc>>
    BY Zenon, <1>0, <1>7, OpUp DEF LogWriteTest, Booted, disk, memlog, control
  <2>2. Current' = [Current EXCEPT ![b] = v] /\ Recovered' = Recovered /\ Active' = Active
    BY <1>c, <2>1 DEF Current, Active
  <2> QED BY Zenon, <2>1, <2>2 DEF Atomic!Next, Atomic!Write
<1>8. ASSUME NEW p \in Procs, LogWriteAppend(p)
      PROVE  UNCHANGED <<Current, Recovered, Active>>
  <2>1. UNCHANGED <<home, logData, head, cache, committing, phase, pc>>
    BY <1>8 DEF LogWriteAppend, disk, control
  <2> QED BY <1>c, <2>1 DEF Current, Booted, Active
<1>9. ASSUME NEW p \in Procs, EndOp(p) PROVE Atomic!Next
  <2>1. p \in Active /\ Active' = Active \ {p}
    BY Zenon, <1>0, <1>9 DEF EndOp, WakeupLog, Active, TypeOK
  <2>2. Booted /\ Booted' /\ UNCHANGED <<home, logData, head, cache>>
    BY <1>0, <1>9, OpUp DEF EndOp, Booted, disk
  <2> QED BY <1>c, <2>1, <2>2 DEF Current, Atomic!Next, Atomic!End
<1>10. ASSUME NEW p \in Procs, CommitDone(p)
       PROVE  UNCHANGED <<Current, Recovered, Active>>
  <2>1. Active' = Active
    BY <1>0, <1>10 DEF CommitDone, WakeupLog, Active, TypeOK
  <2>2. Booted /\ Booted' /\ UNCHANGED <<home, logData, head, cache>>
    BY <1>0, <1>10 DEF CommitDone, Control, Booted, disk
  <2> QED BY <1>c, <2>1, <2>2 DEF Current
<1>11. ASSUME NEW p \in Procs, Kill(p)
       PROVE  UNCHANGED <<Current, Recovered, Active>>
  <2>1. Active' = Active
    BY <1>0, <1>11 DEF Kill, Active, TypeOK
  <2>2. UNCHANGED <<home, logData, head, cache, committing, phase>>
    BY <1>11 DEF Kill, disk, memlog, control
  <2> QED BY <1>c, <2>1, <2>2 DEF Current, Booted
<1>12. CASE Crash
  <2>1. ~Booted' /\ Active' = {} /\ UNCHANGED <<home, logData, head>>
    BY <1>12 DEF Crash, BootPhase, Booted, Active, disk
  <2> QED BY <1>c, <2>1 DEF Current, Atomic!Next, Atomic!Crash
<1>13. CASE UNCHANGED vars
  <2>1. UNCHANGED <<home, logData, head, cache, committing, phase, pc>>
    BY <1>13 DEF vars, disk, memlog, control, procs
  <2> QED BY <1>c, <2>1 DEF Current, Booted, Active
<1> QED BY <1>1, <1>2, <1>3, <1>4, <1>5, <1>6, <1>7, <1>8, <1>9, <1>10, <1>11, <1>12, <1>13,
           NextCases

(* The logging layer is an atomic disk, whatever the number of processes   *)
(* and blocks: a crash at any point of begin_op(), log_write(), end_op(),  *)
(* commit() or recover_from_log() falls back to the last commit, and a     *)
(* commit is one step from one quiescent state to the next.                *)
THEOREM CrashAtomicity == Roomy => (Spec => CrashAtomic)
<1> SUFFICES ASSUME Roomy PROVE Spec => CrashAtomic
  OBVIOUS
<1>1. Init => Atomic!Init
  BY AtomicInit
<1>2. IInv /\ IInv' /\ [Next]_vars => [Atomic!Next]_(Atomic!vars)
  BY AtomicStep
<1>3. Spec => []IInv
  BY Invariance
<1> QED BY <1>1, <1>2, <1>3, PTL DEF Spec, CrashAtomic, Atomic!Spec
=============================================================================

------------------------------ MODULE LogSteps ------------------------------
(***************************************************************************)
(* The inductive invariant of the log of log.c, and the proof that steps   *)
(* preserve its control part: types, the count of the calls, the buffers   *)
(* they hold and the room in the log.  LogProofs has the rest.             *)
(***************************************************************************)
EXTENDS Log, FiniteSetTheorems, TLAPS

(* The geometry.  begin_op() counts in units of MAXOPBLOCKS against        *)
(* LOGSIZE, the header of the on-disk log takes one of its Size blocks:    *)
(* what a call leaves unused of its MAXOPBLOCKS makes up for the header.   *)
Roomy ==
  /\ Size # 0
  /\ OpBlocks <= MAXOPBLOCKS
  /\ LOGSIZE + OpBlocks < Size + MAXOPBLOCKS

-----------------------------------------------------------------------------
(* The inductive invariant.                                                *)

(* Who runs where: calls are counted, and a commit has the log for itself. *)
Control ==
  /\ outstanding = Cardinality(Active)
  /\ committing => Active = {} /\ phase \notin {"up", "read_head"}
  /\ ~Booted => Active = {}
  /\ phase \in {"write_log", "write_head", "done"} => committing
  /\ \A p \in Procs : pc[p] = "commit" => committing
  /\ \A p, q \in Procs : pc[p] = "commit" /\ pc[q] = "commit" => p = q

(* What a call holds and has written. *)
Holding ==
  \A p \in Procs :
    /\ holds[p] # {} => pc[p] = "op"
    /\ holds[p] \subseteq wrote[p]
    /\ \A b, c \in holds[p] : b = c
    /\ IsFiniteSet(wrote[p])
    /\ Cardinality(wrote[p]) <= OpBlocks

(* What is left of the reservation that begin_op() made for a call that    *)
(* wrote the blocks w, when the log has the blocks s; and the unused units *)
(* of the reservations of all the active calls, as a set.                  *)
Left(w, s) == MAXOPBLOCKS - Cardinality(w \cap BlocksOf(s))

CreditSet(A, w, s) == {c \in A \X (1 .. MAXOPBLOCKS) : c[2] <= Left(w[c[1]], s)}

Credits == CreditSet(Active, wrote, lh)

(* The log has room for what the active calls may still add to it. *)
Room ==
  /\ Len(lh) + Cardinality(Credits) <= LOGSIZE
  /\ Len(lh) < Size
  /\ Len(head) < Size /\ Len(head) <= LOGSIZE

Injective(s) == \A i, j \in 1 .. Len(s) : s[i] = s[j] => i = j

(* Which copies of a block agree, phase by phase. *)
Copies ==
  /\ Injective(lh) /\ Injective(head)
  /\ phase = "read_head" => cache = home
  /\ phase = "install_trans" =>
       /\ head = lh
       /\ tail <= Len(lh)
       /\ \A i \in 1 .. tail : home[lh[i]] = logData[i]
       /\ \A b \in Blocks : cache[b] # home[b] => committing /\ b \in BlocksOf(lh)
       /\ committing => \A i \in 1 .. Len(lh) : cache[lh[i]] = logData[i]
  /\ phase = "erase" =>
       /\ lh = <<>>
       /\ cache = home
       /\ \A i \in 1 .. Len(head) : home[head[i]] = logData[i]
  /\ phase \in {"up", "write_log", "write_head", "done"} =>
       /\ head = <<>>
       /\ \A b \in Blocks : cache[b] # home[b] => b \in BlocksOf(lh) \cup Held
  /\ phase \in {"write_log", "write_head"} =>
       /\ tail <= Len(lh)
       /\ \A i \in 1 .. tail : cache[lh[i]] = logData[i]
  /\ phase = "write_head" => tail = Len(lh)
  /\ phase = "done" => lh = <<>>
  /\ phase = "up" /\ Active = {} => lh = <<>>

IInv == TypeOK /\ Control /\ Holding /\ Room /\ Copies /\ NewerIsPinned

-----------------------------------------------------------------------------
(* Facts about the state.                                                  *)

(* The calls between begin_op() and end_op() can be counted. *)
LEMMA ActiveFinite == IsFiniteSet(Active) /\ Cardinality(Active) \in Nat
  BY LogConstants, FS_Subset, FS_CardinalityType DEF Active

(* log_write() adds the block it appends to the header's blocks. *)
LEMMA BlocksOfAppend ==
  ASSUME NEW s \in Seq(Blocks), NEW b \in Blocks
  PROVE  BlocksOf(Append(s, b)) = BlocksOf(s) \cup {b}
<1>1. Len(Append(s, b)) = Len(s) + 1 /\ Append(s, b)[Len(s) + 1] = b
  OBVIOUS
<1>2. \A i \in 1 .. Len(s) : Append(s, b)[i] = s[i]
  OBVIOUS
<1>3. 1 .. Len(s) + 1 = (1 .. Len(s)) \cup {Len(s) + 1}
  OBVIOUS
<1> QED BY <1>1, <1>2, <1>3 DEF BlocksOf

(* The credits of finitely many calls can be counted. *)
LEMMA CreditSetFinite ==
  ASSUME NEW A, IsFiniteSet(A), NEW w, NEW s
  PROVE  /\ IsFiniteSet(CreditSet(A, w, s))
         /\ Cardinality(CreditSet(A, w, s)) \in Nat
         /\ Cardinality(CreditSet(A, w, s)) <= Cardinality(A) * MAXOPBLOCKS
<1>1. IsFiniteSet(1 .. MAXOPBLOCKS) /\ Cardinality(1 .. MAXOPBLOCKS) = MAXOPBLOCKS
  <2>1. 1 \in Int /\ MAXOPBLOCKS \in Int /\ ~(1 > MAXOPBLOCKS)
    BY LogConstants
  <2> QED BY <2>1, FS_Interval
<1>2. /\ IsFiniteSet(A \X (1 .. MAXOPBLOCKS))
      /\ Cardinality(A \X (1 .. MAXOPBLOCKS)) = Cardinality(A) * MAXOPBLOCKS
  BY Zenon, <1>1, FS_Product
<1> QED BY <1>2, FS_Subset, FS_CardinalityType DEF CreditSet

(* The credits of one call are part of the credits of all. *)
LEMMA CreditsOfOne ==
  ASSUME NEW A, IsFiniteSet(A), NEW w, NEW s, NEW p \in A,
         Left(w[p], s) \in 0 .. MAXOPBLOCKS
  PROVE  Left(w[p], s) <= Cardinality(CreditSet(A, w, s))
<1> DEFINE k == Left(w[p], s)
<1> HIDE DEF k
<1>0. k \in 0 .. MAXOPBLOCKS
  BY DEF k
<1>1. IsFiniteSet(1 .. k) /\ Cardinality(1 .. k) = k
  <2>1. 1 \in Int /\ k \in Int
    BY <1>0, LogConstants
  <2>2. IsFiniteSet(1 .. k) /\ Cardinality(1 .. k) = IF 1 > k THEN 0 ELSE k - 1 + 1
    BY <2>1, FS_Interval
  <2> QED BY <1>0, <2>2, LogConstants
<1>2. IsFiniteSet({p}) /\ Cardinality({p}) = 1
  BY Zenon, FS_Singleton
<1>3. Cardinality({p} \X (1 .. k)) = k
  <2> DEFINE I == 1 .. k
  <2>1. IsFiniteSet(I) /\ Cardinality(I) = k
    BY <1>1
  <2> HIDE DEF I
  <2>2. Cardinality({p} \X I) = Cardinality({p}) * Cardinality(I)
    BY <1>2, <2>1, FS_Product
  <2>3. Cardinality({p} \X I) = k
    BY <1>0, <1>2, <2>1, <2>2, LogConstants
  <2> QED BY <2>3 DEF I
<1>4. {p} \X (1 .. k) \in SUBSET CreditSet(A, w, s)
  BY <1>0, LogConstants DEF CreditSet, k
<1>5. Cardinality({p} \X (1 .. k)) <= Cardinality(CreditSet(A, w, s))
  BY <1>4, CreditSetFinite, FS_Subset
<1> QED BY <1>0, <1>3, <1>5 DEF k

(* What is left lies between the reservation and the reservation less the  *)
(* blocks the call has written.                                            *)
LEMMA LeftBounds ==
  ASSUME NEW w, IsFiniteSet(w), NEW s
  PROVE  /\ Left(w, s) \in Int
         /\ Left(w, s) <= MAXOPBLOCKS
         /\ Left(w, s) >= MAXOPBLOCKS - Cardinality(w)
<1>1. /\ IsFiniteSet(w \cap BlocksOf(s))
      /\ Cardinality(w \cap BlocksOf(s)) <= Cardinality(w)
  BY FS_Intersection
<1>2. Cardinality(w \cap BlocksOf(s)) \in Nat /\ Cardinality(w) \in Nat
  BY <1>1, FS_CardinalityType
<1> QED BY <1>1, <1>2, LogConstants DEF Left

(* A call that has written more, in a log that holds more, has no more left. *)
LEMMA LeftShrinks ==
  ASSUME NEW w, NEW s, NEW x, NEW t, IsFiniteSet(x),
         w \subseteq x, BlocksOf(s) \subseteq BlocksOf(t)
  PROVE  Left(x, t) <= Left(w, s)
<1>1. IsFiniteSet(x \cap BlocksOf(t))
  BY Zenon, FS_Intersection
<1>2. w \cap BlocksOf(s) \in SUBSET (x \cap BlocksOf(t))
  OBVIOUS
<1>3. /\ IsFiniteSet(w \cap BlocksOf(s))
      /\ Cardinality(w \cap BlocksOf(s)) <= Cardinality(x \cap BlocksOf(t))
  BY <1>1, <1>2, FS_Subset
<1>4. /\ Cardinality(w \cap BlocksOf(s)) \in Nat
      /\ Cardinality(x \cap BlocksOf(t)) \in Nat
  BY <1>1, <1>3, FS_CardinalityType
<1> QED BY <1>3, <1>4, LogConstants DEF Left

(* The invariant holds when a fresh file system is booted. *)
LEMMA InitInv == Roomy /\ Init => IInv
<1> SUFFICES ASSUME Roomy, Init PROVE IInv
  OBVIOUS
<1> USE LogConstants DEF Roomy, Init, BootPhase
<1>0. Active = {} /\ Held = {} /\ phase = "read_head"
  BY DEF Active, Held
<1>1. TypeOK
  <2>1. head \in Seq(Blocks) /\ lh \in Seq(Blocks)
    OBVIOUS
  <2>2. phase \in Phases /\ pc \in [Procs -> PCs]
    BY DEF Phases, PCs
  <2>3. home \in [Blocks -> Values] /\ cache \in [Blocks -> Values] /\ logData \in [LogSlots -> Values]
    OBVIOUS
  <2> QED BY Zenon, <2>1, <2>2, <2>3 DEF TypeOK
<1>2. Control
  BY <1>0, FS_EmptySet DEF Control
<1>3. Holding
  BY FS_EmptySet DEF Holding
<1>4. Room
  <2>1. Credits = {}
    BY <1>0 DEF Credits, CreditSet
  <2> QED BY <2>1, FS_EmptySet DEF Room
<1>5. Copies
  BY <1>0 DEF Copies, Injective
<1>6. NewerIsPinned
  BY DEF NewerIsPinned
<1> QED BY <1>1, <1>2, <1>3, <1>4, <1>5, <1>6 DEF IInv

-----------------------------------------------------------------------------
(* Every step preserves the invariant: one lemma per part of it.           *)

(* The steps of a disk with a log. *)
LEMMA NextCases ==
  ASSUME Size # 0, Next
  PROVE  \/ WriteLog \/ WriteHead \/ InstallTrans \/ EraseHead \/ ReadHead \/ Crash
         \/ \E p \in Procs :
              BeginOp(p) \/ LogWriteAppend(p) \/ EndOp(p) \/ CommitDone(p) \/ Kill(p)
         \/ \E p \in Procs, b \in Blocks, v \in Values : LogWriteTest(p, b, v)
  BY DEF Next, KernelStep, ProcStep, LogWriteThrough

(* Every step keeps the type invariant. *)
LEMMA TypeStep == Roomy /\ IInv /\ Next => TypeOK'
<1> SUFFICES ASSUME Roomy, IInv, Next PROVE TypeOK'
  OBVIOUS
<1> USE DEF Roomy, TypeOK
<1>0. TypeOK
  BY DEF IInv
<1>1. CASE WriteLog
  <2>1. MoreBlocks => tail + 1 \in 1 .. Len(lh)
    BY <1>0 DEF MoreBlocks
  <2>2. MoreBlocks => cache[lh[tail + 1]] \in Values
    BY <1>0, <2>1
  <2> QED BY <1>0, <1>1, <2>2 DEF WriteLog, memlog, procs, Phases
<1>2. CASE WriteHead
  BY <1>0, <1>2 DEF WriteHead, memlog, procs, Phases
<1>3. CASE InstallTrans
  <2>1. MoreBlocks => tail + 1 \in 1 .. Len(lh) /\ tail + 1 \in LogSlots
    BY <1>0, LogConstants DEF MoreBlocks, IInv, Room, LogSlots
  <2>2. MoreBlocks => lh[tail + 1] \in Blocks /\ logData[tail + 1] \in Values
    BY <1>0, <2>1
  <2>3. CASE MoreBlocks
    BY <1>0, <1>3, <2>2, <2>3 DEF InstallTrans, Bwrite, memlog, procs
  <2>4. CASE ~MoreBlocks
    BY <1>0, <1>3, <2>4 DEF InstallTrans, memlog, procs, Phases
  <2> QED BY <2>3, <2>4
<1>4. CASE EraseHead
  BY <1>0, <1>4 DEF EraseHead, AfterErase, memlog, procs, Phases
<1>5. CASE ReadHead
  BY <1>0, <1>5 DEF ReadHead, disk, memlog, procs, Phases
<1>6. ASSUME NEW p \in Procs, BeginOp(p) PROVE TypeOK'
  BY <1>0, <1>6 DEF BeginOp, OneMore, disk, control, PCs
<1>7. ASSUME NEW p \in Procs, NEW b \in Blocks, NEW v \in Values, LogWriteTest(p, b, v)
      PROVE  TypeOK'
  BY <1>0, <1>7 DEF LogWriteTest, disk, memlog, control
<1>8. ASSUME NEW p \in Procs, LogWriteAppend(p) PROVE TypeOK'
  <2>1. PICK b \in holds[p] : LogWriteAppend(p)!(b)
    BY <1>8 DEF LogWriteAppend
  <2>2. b \in Blocks
    BY <1>0
  <2>3. lh' \in Seq(Blocks)
    BY <1>0, <2>1, <2>2
  <2> QED BY <1>0, <2>1, <2>2, <2>3 DEF Pin, disk, control
<1>9. ASSUME NEW p \in Procs, EndOp(p) PROVE TypeOK'
  <2>1. outstanding - 1 \in Nat
    <3>1. p \in Active
      BY <1>9 DEF EndOp, Active
    <3>2. outstanding # 0
      BY <3>1, ActiveFinite, FS_EmptySet DEF IInv, Control
    <3> QED BY <1>0, <3>2
  <2>2. WakeupLog \in [Procs -> PCs]
    BY <1>0 DEF WakeupLog, PCs
  <2>3. pc' \in [Procs -> PCs]
    BY Zenon, <1>0, <1>9, <2>2 DEF EndOp, PCs
  <2>4. panic' \in BOOLEAN /\ committing' \in BOOLEAN
    BY Zenon, <1>0, <1>9 DEF EndOp
  <2>5. phase' \in Phases /\ tail' \in Nat /\ wrote' \in [Procs -> SUBSET Blocks]
    BY <1>0, <1>9 DEF EndOp, Phases
  <2>6. outstanding' \in Nat
    BY <1>0, <1>9, <2>1 DEF EndOp
  <2> QED BY <1>0, <1>9, <2>3, <2>4, <2>5, <2>6 DEF EndOp, disk
<1>10. ASSUME NEW p \in Procs, CommitDone(p) PROVE TypeOK'
  <2>1. WakeupLog \in [Procs -> PCs]
    BY <1>0 DEF WakeupLog, PCs
  <2> QED BY Zenon, <1>0, <1>10, <2>1 DEF CommitDone, disk, PCs, Phases
<1>11. ASSUME NEW p \in Procs, Kill(p) PROVE TypeOK'
  BY <1>0, <1>11 DEF Kill, disk, memlog, control, PCs
<1>12. CASE Crash
  <2>1. lh' \in Seq(Blocks)
    BY <1>12 DEF Crash
  <2>2. phase' \in Phases /\ pc' \in [Procs -> PCs]
    BY <1>12 DEF Crash, BootPhase, PCs, Phases
  <2> QED BY Zenon, <1>0, <1>12, <2>1, <2>2 DEF Crash, disk
<1> QED BY Zenon, NextCases,
           <1>1, <1>2, <1>3, <1>4, <1>5, <1>6, <1>7, <1>8, <1>9, <1>10, <1>11, <1>12

(* outstanding counts the admitted calls, and commit() runs alone. *)
LEMMA ControlStep == Roomy /\ IInv /\ Next => Control'
<1> SUFFICES ASSUME Roomy, IInv, Next PROVE Control'
  OBVIOUS
<1> USE DEF Roomy, Control, Booted, Active
<1>0. TypeOK /\ Control
  BY DEF IInv
<1>1. CASE WriteLog
  BY <1>0, <1>1 DEF WriteLog, memlog, procs
<1>2. CASE WriteHead
  BY <1>0, <1>2 DEF WriteHead, memlog, procs
<1>3. CASE InstallTrans
  BY <1>0, <1>3 DEF InstallTrans, memlog, procs
<1>4. CASE EraseHead
  BY <1>0, <1>4 DEF EraseHead, AfterErase, memlog, procs
<1>5. CASE ReadHead
  BY <1>0, <1>5 DEF ReadHead, memlog, procs
<1>6. ASSUME NEW p \in Procs, BeginOp(p) PROVE Control'
  <2>1. CASE committing \/ LogFull
    <3>1. Active' = Active
      BY <1>0, <1>6, <2>1 DEF BeginOp, TypeOK
    <3>2. /\ UNCHANGED <<outstanding, committing, phase>>
          /\ \A q \in Procs : pc'[q] = "commit" => pc[q] = "commit"
      BY <1>0, <1>6, <2>1 DEF BeginOp, TypeOK, control
    <3> QED BY <1>0, <3>1, <3>2
  <2>2. CASE ~(committing \/ LogFull)
    <3>1. Active' = Active \cup {p} /\ p \notin Active
      BY <1>0, <1>6, <2>2 DEF BeginOp, TypeOK
    <3>2. outstanding' = Cardinality(Active')
      <4> HIDE DEF Active
      <4> QED BY Zenon, <1>0, <1>6, <2>2, <3>1, ActiveFinite, FS_AddElement DEF BeginOp, OneMore
    <3> QED BY <1>0, <1>6, <2>2, <3>2 DEF BeginOp, TypeOK, control
  <2> QED BY <2>1, <2>2
<1>7. ASSUME NEW p \in Procs, NEW b \in Blocks, NEW v \in Values, LogWriteTest(p, b, v)
      PROVE  Control'
  BY <1>0, <1>7 DEF LogWriteTest, memlog, control
<1>8. ASSUME NEW p \in Procs, LogWriteAppend(p) PROVE Control'
  BY <1>0, <1>8 DEF LogWriteAppend, control
<1>9. ASSUME NEW p \in Procs, EndOp(p) PROVE Control'
  <2>1. p \in Active /\ Active' = Active \ {p} /\ outstanding' = outstanding - 1
    BY Zenon, <1>0, <1>9 DEF EndOp, WakeupLog, TypeOK
  <2>2. outstanding' = Cardinality(Active')
    BY Zenon, <1>0, <2>1, ActiveFinite, FS_RemoveElement
  <2>3. CASE outstanding = 1
    <3>1. Active' = {}
      <4> HIDE DEF Active
      <4>1. IsFiniteSet(Active')
        BY <2>1, ActiveFinite, FS_RemoveElement
      <4>2. Cardinality(Active') = 0
        BY <2>1, <2>2, <2>3
      <4> QED BY <4>1, <4>2, FS_EmptySet
    <3> QED BY <1>0, <1>9, <2>2, <2>3, <3>1 DEF EndOp, TypeOK
  <2>4. CASE outstanding # 1
    BY Zenon, <1>0, <1>9, <2>1, <2>2, <2>4 DEF EndOp, WakeupLog, TypeOK
  <2> QED BY <2>3, <2>4
<1>10. ASSUME NEW p \in Procs, CommitDone(p) PROVE Control'
  <2>1. Active' = Active
    BY <1>0, <1>10 DEF CommitDone, WakeupLog, TypeOK
  <2> QED BY Zenon, <1>0, <1>10, <2>1 DEF CommitDone, WakeupLog, TypeOK
<1>11. ASSUME NEW p \in Procs, Kill(p) PROVE Control'
  <2>1. Active' = Active
    BY <1>0, <1>11 DEF Kill, TypeOK
  <2> QED BY Zenon, <1>0, <1>11, <2>1 DEF Kill, memlog, control, TypeOK
<1>12. CASE Crash
  <2>1. Active' = {}
    BY <1>12 DEF Crash
  <2> QED BY <1>12, <2>1, FS_EmptySet DEF Crash, BootPhase
<1> QED BY Zenon, NextCases,
           <1>1, <1>2, <1>3, <1>4, <1>5, <1>6, <1>7, <1>8, <1>9, <1>10, <1>11, <1>12

(* Only a call in log_write() holds a buffer, one at a time. *)
LEMMA HoldingStep == Roomy /\ IInv /\ Next => Holding'
<1> SUFFICES ASSUME Roomy, IInv, Next PROVE Holding'
  OBVIOUS
<1> USE DEF Roomy, Holding
<1>0. TypeOK /\ Holding
  BY DEF IInv
<1>1. CASE WriteLog
  BY <1>0, <1>1 DEF WriteLog, procs
<1>2. CASE WriteHead
  BY <1>0, <1>2 DEF WriteHead, procs
<1>3. CASE InstallTrans
  BY <1>0, <1>3 DEF InstallTrans, procs
<1>4. CASE EraseHead
  BY <1>0, <1>4 DEF EraseHead, procs
<1>5. CASE ReadHead
  BY <1>0, <1>5 DEF ReadHead, procs
<1>6. ASSUME NEW p \in Procs, BeginOp(p) PROVE Holding'
  <2>1. UNCHANGED <<holds, wrote>> /\ \A q \in Procs : pc[q] = "op" => pc'[q] = "op"
    BY <1>0, <1>6 DEF BeginOp, TypeOK
  <2> QED BY <1>0, <2>1
<1>7. ASSUME NEW p \in Procs, NEW b \in Blocks, NEW v \in Values, LogWriteTest(p, b, v)
      PROVE  Holding'
  <2>1. /\ wrote' = [wrote EXCEPT ![p] = wrote[p] \cup {b}]
        /\ holds' = [holds EXCEPT ![p] = {b}]
        /\ pc[p] = "op" /\ pc' = pc
        /\ Cardinality(wrote[p] \cup {b}) <= OpBlocks
    BY <1>7 DEF LogWriteTest
  <2>2. IsFiniteSet(wrote[p] \cup {b})
    BY Zenon, <1>0, FS_AddElement
  <2> QED BY <1>0, <2>1, <2>2 DEF TypeOK
<1>8. ASSUME NEW p \in Procs, LogWriteAppend(p) PROVE Holding'
  BY <1>0, <1>8 DEF LogWriteAppend, TypeOK
<1>9. ASSUME NEW p \in Procs, EndOp(p) PROVE Holding'
  <2>1. /\ wrote' = [wrote EXCEPT ![p] = {}]
        /\ holds' = holds /\ holds[p] = {}
    BY <1>9 DEF EndOp
  <2>2. \A q \in Procs : q # p /\ pc[q] = "op" => pc'[q] = "op"
    <3>1. pc' \in {[pc EXCEPT ![p] = "idle"], [pc EXCEPT ![p] = "commit"],
                   [WakeupLog EXCEPT ![p] = "idle"]}
      BY <1>9 DEF EndOp
    <3>2. pc \in [Procs -> PCs]
      BY <1>0 DEF TypeOK
    <3> QED BY Zenon, <3>1, <3>2 DEF WakeupLog
  <2>3. IsFiniteSet({}) /\ Cardinality({}) <= OpBlocks
    BY FS_EmptySet, LogConstants
  <2> QED BY <1>0, <2>1, <2>2, <2>3 DEF TypeOK
<1>10. ASSUME NEW p \in Procs, CommitDone(p) PROVE Holding'
  BY <1>0, <1>10 DEF CommitDone, WakeupLog, TypeOK
<1>11. ASSUME NEW p \in Procs, Kill(p) PROVE Holding'
  BY <1>0, <1>11 DEF Kill, TypeOK
<1>12. CASE Crash
  BY <1>12, FS_EmptySet, LogConstants DEF Crash
<1> QED BY Zenon, NextCases,
           <1>1, <1>2, <1>3, <1>4, <1>5, <1>6, <1>7, <1>8, <1>9, <1>10, <1>11, <1>12

(* What is in the header and what the admitted calls may add fits. *)
LEMMA RoomStep == Roomy /\ IInv /\ Next => Room'
<1> SUFFICES ASSUME Roomy, IInv, Next PROVE Room'
  OBVIOUS
<1> USE DEF Roomy
<1>0. TypeOK /\ Control /\ Holding /\ Room
  BY DEF IInv
<1>a. IsFiniteSet(Active') /\ TypeOK' /\ Holding'
  BY TypeStep, HoldingStep, LogConstants, FS_Subset DEF Active
<1>b. IsFiniteSet(Credits) /\ Cardinality(Credits) \in Nat
  BY ActiveFinite, CreditSetFinite DEF Credits
<1>c. IsFiniteSet(Credits') /\ Cardinality(Credits') \in Nat
  BY <1>a, CreditSetFinite DEF Credits
<1>d. Active' = {} => Cardinality(Credits') = 0
  <2>1. Active' = {} => Credits' = {}
    BY DEF Credits, CreditSet
  <2> QED BY <2>1, FS_EmptySet
<1>e. ASSUME Credits' \subseteq Credits, lh' = lh, head' = head PROVE Room'
  <2>1. Cardinality(Credits') <= Cardinality(Credits)
    BY <1>b, <1>e, FS_Subset
  <2> QED BY <1>0, <1>b, <1>c, <1>e, <2>1, LogConstants DEF Room, TypeOK
<1>1. CASE WriteLog
  BY <1>1, <1>e DEF WriteLog, memlog, procs, Credits, Active
<1>2. CASE WriteHead
  <2>1. lh' = lh /\ head' = lh /\ Credits' = Credits
    BY <1>2 DEF WriteHead, memlog, procs, Credits, Active
  <2> QED BY <1>0, <1>b, <2>1, LogConstants DEF Room, TypeOK
<1>3. CASE InstallTrans
  <2>1. CASE MoreBlocks
    BY <1>3, <1>e, <2>1 DEF InstallTrans, procs, Credits, Active
  <2>2. CASE ~MoreBlocks
    <3>1. Active = {}
      BY <1>0, <1>3 DEF InstallTrans, Control, Booted
    <3>2. Active' = {} /\ lh' = <<>> /\ head' = head
      BY <1>3, <2>2, <3>1 DEF InstallTrans, procs, Active
    <3> QED BY <1>0, <1>d, <3>2, LogConstants DEF Room, TypeOK
  <2> QED BY <2>1, <2>2
<1>4. CASE EraseHead
  <2>1. lh' = lh /\ head' = lh /\ Credits' = Credits
    BY <1>4 DEF EraseHead, memlog, procs, Credits, Active
  <2> QED BY <1>0, <1>b, <2>1, LogConstants DEF Room, TypeOK
<1>5. CASE ReadHead
  <2>1. Active = {}
    BY <1>0, <1>5 DEF ReadHead, Control, Booted
  <2>2. Active' = {} /\ lh' = head /\ head' = head
    BY <1>5, <2>1 DEF ReadHead, procs, disk, Active
  <2> QED BY <1>0, <1>d, <2>2, LogConstants DEF Room, TypeOK
<1>6. ASSUME NEW p \in Procs, BeginOp(p) PROVE Room'
  <2>1. lh' = lh /\ head' = head /\ wrote' = wrote
    BY <1>6 DEF BeginOp, disk
  <2>2. CASE committing \/ LogFull
    <3>1. Active' = Active
      BY <1>0, <1>6, <2>2 DEF BeginOp, Active, TypeOK
    <3> QED BY <1>e, <2>1, <3>1 DEF Credits
  <2>3. CASE ~(committing \/ LogFull)
    <3>1. Cardinality(Active') = outstanding + 1
      BY <1>6, <2>3, ControlStep DEF BeginOp, Control, OneMore
    <3>2. Cardinality(Credits') <= (outstanding + 1) * MAXOPBLOCKS
      BY <1>a, <3>1, CreditSetFinite DEF Credits
    <3>3. Len(lh) + (outstanding + 1) * MAXOPBLOCKS <= LOGSIZE
      BY <1>0, <2>3, LogConstants DEF LogFull, TypeOK
    <3>4. (outstanding + 1) * MAXOPBLOCKS \in Nat
      BY <1>0, LogConstants DEF TypeOK
    <3> QED BY <1>0, <1>c, <2>1, <3>2, <3>3, <3>4, LogConstants DEF Room, TypeOK
  <2> QED BY <2>2, <2>3
<1>7. ASSUME NEW p \in Procs, NEW b \in Blocks, NEW v \in Values, LogWriteTest(p, b, v)
      PROVE  Room'
  <2>1. lh' = lh /\ head' = head /\ Active' = Active
    BY <1>7 DEF LogWriteTest, disk, memlog, Active
  <2>2. \A q \in Procs : wrote[q] \subseteq wrote'[q]
    BY <1>0, <1>7 DEF LogWriteTest, TypeOK
  <2>3. \A q \in Active : Left(wrote'[q], lh') <= Left(wrote[q], lh)
    BY Zenon, <1>a, <2>1, <2>2, LeftShrinks DEF Holding, Active
  <2>4. \A q \in Active : Left(wrote'[q], lh') \in Int /\ Left(wrote[q], lh) \in Int
    BY <1>0, <1>a, LeftBounds DEF Holding, Active
  <2>5. Credits' \subseteq Credits
    BY <2>1, <2>3, <2>4, LogConstants DEF Credits, CreditSet
  <2> QED BY <1>e, <2>1, <2>5
<1>9. ASSUME NEW p \in Procs, EndOp(p) PROVE Room'
  <2>1. lh' = lh /\ head' = head /\ Active' = Active \ {p}
    BY Zenon, <1>0, <1>9 DEF EndOp, WakeupLog, disk, Active, TypeOK
  <2>2. \A q \in Active' : wrote'[q] = wrote[q]
    BY <1>0, <1>9, <2>1 DEF EndOp, Active, TypeOK
  <2>3. Credits' \subseteq Credits
    BY <2>1, <2>2 DEF Credits, CreditSet
  <2> QED BY <1>e, <2>1, <2>3
<1>10. ASSUME NEW p \in Procs, CommitDone(p) PROVE Room'
  <2>1. lh' = lh /\ head' = head /\ wrote' = wrote /\ Active' = Active
    BY <1>0, <1>10 DEF CommitDone, WakeupLog, disk, Active, TypeOK
  <2> QED BY <1>e, <2>1 DEF Credits
<1>11. ASSUME NEW p \in Procs, Kill(p) PROVE Room'
  <2>1. lh' = lh /\ head' = head /\ wrote' = wrote /\ Active' = Active
    BY <1>0, <1>11 DEF Kill, disk, memlog, Active, TypeOK
  <2> QED BY <1>e, <2>1 DEF Credits
<1>12. CASE Crash
  <2>1. Active' = {} /\ lh' = <<>> /\ head' = head
    BY <1>12 DEF Crash, disk, Active
  <2> QED BY <1>0, <1>d, <2>1, LogConstants DEF Room, TypeOK
<1>8. ASSUME NEW p \in Procs, LogWriteAppend(p) PROVE Room'
  <2>1. PICK b \in holds[p] : lh' = IF b \in BlocksOf(lh) THEN lh ELSE Append(lh, b)
    BY <1>8 DEF LogWriteAppend
  <2>2. head' = head /\ wrote' = wrote /\ Active' = Active
    BY <1>8 DEF LogWriteAppend, disk, Active
  <2>3. b \in Blocks /\ b \in wrote[p] /\ p \in Active
    BY <1>0, <2>1 DEF TypeOK, Holding, Active
  <2>4. CASE b \in BlocksOf(lh)
    <3>1. lh' = lh
      BY <2>1, <2>4
    <3> QED BY <1>e, <2>2, <3>1 DEF Credits
  <2>5. CASE b \notin BlocksOf(lh)
    <3> DEFINE k == Left(wrote[p], lh)
               c == <<p, k>>
    <3>1. lh' = Append(lh, b) /\ Len(lh') = Len(lh) + 1
          /\ BlocksOf(lh') = BlocksOf(lh) \cup {b}
      BY <1>0, <2>1, <2>3, <2>5, BlocksOfAppend DEF TypeOK
    <3>2. /\ IsFiniteSet(wrote[p]) /\ IsFiniteSet(wrote[p] \cap BlocksOf(lh))
          /\ Cardinality(wrote[p] \cap BlocksOf(lh)) \in Nat
      BY Zenon, <1>0, FS_Intersection, FS_CardinalityType DEF Holding
    <3>3. Left(wrote[p], lh') = k - 1
      <4>1. wrote[p] \cap BlocksOf(lh') = (wrote[p] \cap BlocksOf(lh)) \cup {b}
        BY <2>3, <3>1
      <4>2. Cardinality(wrote[p] \cap BlocksOf(lh')) = Cardinality(wrote[p] \cap BlocksOf(lh)) + 1
        BY Zenon, <2>5, <3>2, <4>1, FS_AddElement
      <4> DEFINE x == Cardinality(wrote[p] \cap BlocksOf(lh))
      <4>3. x \in Nat /\ k = MAXOPBLOCKS - x /\ Left(wrote[p], lh') = MAXOPBLOCKS - (x + 1)
        BY <3>2, <4>2 DEF Left
      <4> HIDE DEF x, k
      <4> QED BY <4>3, LogConstants
    <3>4. k - 1 \in Int /\ k - 1 >= MAXOPBLOCKS - OpBlocks /\ k <= MAXOPBLOCKS
      <4>1. /\ Left(wrote[p], lh') \in Int
            /\ Left(wrote[p], lh') >= MAXOPBLOCKS - Cardinality(wrote[p])
        BY <3>2, LeftBounds
      <4>2. k \in Int /\ k <= MAXOPBLOCKS
        BY <3>2, LeftBounds
      <4>3. Cardinality(wrote[p]) \in Nat /\ Cardinality(wrote[p]) <= OpBlocks
        BY <1>0, <3>2, FS_CardinalityType DEF Holding
      <4> QED BY <3>3, <4>1, <4>2, <4>3, LogConstants
    <3>a. k \in 1 .. MAXOPBLOCKS /\ k - 1 \in 0 .. MAXOPBLOCKS
      <4> HIDE DEF k
      <4>1. k \in Int
        BY <3>2, LeftBounds DEF k
      <4> QED BY <3>4, <4>1, LogConstants
    <3>5. c \in Credits
      <4>1. c \in Active \X (1 .. MAXOPBLOCKS) /\ c[1] = p /\ c[2] = k
        BY <2>3, <3>a
      <4>2. k <= Left(wrote[p], lh)
        BY <3>a, LogConstants
      <4> HIDE DEF k, c
      <4> QED BY <4>1, <4>2 DEF Credits, CreditSet
    <3>6. Credits' \subseteq Credits \ {c}
      <4>1. \A q \in Active : Left(wrote[q], lh') <= Left(wrote[q], lh)
        BY <1>0, <3>1, LeftShrinks DEF Holding, Active
      <4>2. \A q \in Active : Left(wrote[q], lh') \in Int /\ Left(wrote[q], lh) \in Int
        BY <1>0, LeftBounds DEF Holding, Active
      <4> HIDE DEF k
      <4>3. c \notin Credits'
        BY <2>2, <3>3, <3>4, LogConstants DEF Credits, CreditSet
      <4>4. Credits' \subseteq Credits
        BY <2>2, <4>1, <4>2, LogConstants DEF Credits, CreditSet
      <4> QED BY <4>3, <4>4
    <3>7. Cardinality(Credits') <= Cardinality(Credits) - 1
      <4>1. IsFiniteSet(Credits \ {c}) /\ Cardinality(Credits \ {c}) = Cardinality(Credits) - 1
        BY <1>b, <3>5, FS_RemoveElement
      <4> QED BY <3>6, <4>1, FS_Subset
    <3>8. k - 1 <= Cardinality(Credits')
      <4>1. Left(wrote[p], lh') \in 0 .. MAXOPBLOCKS
        BY <3>3, <3>a
      <4> QED BY <2>2, <2>3, <3>3, <4>1, ActiveFinite, CreditsOfOne DEF Credits
    <3> HIDE DEF k
    <3> QED BY <1>0, <1>b, <1>c, <2>2, <3>1, <3>4, <3>7, <3>8, LogConstants DEF Room, TypeOK
  <2> QED BY <2>4, <2>5
<1> QED BY Zenon, NextCases,
           <1>1, <1>2, <1>3, <1>4, <1>5, <1>6, <1>7, <1>8, <1>9, <1>10, <1>11, <1>12
=============================================================================

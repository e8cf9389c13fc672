---------------------------- MODULE XvLogProofs -----------------------------
(***************************************************************************)
(* Proofs about XvLog, for any number of processes, blocks and values and  *)
(* any size of the log: types, control and the space in the log; the       *)
(* buffer cache and the disk; the inductive invariant and what follows     *)
(* from it; and that the log implements AtomicDisk.                        *)
(***************************************************************************)
EXTENDS XvLog, FiniteSetTheorems, TLAPS

\* The provers of the leaves that do not name their own, in the order of the trials.
USE SMTT(30), SMTT(60), Zenon

\* The calls log at least two blocks fewer than begin_op reserves for them,
\* and the on-disk log is not smaller than LOGSIZE (mkfs makes it LOGSIZE).
CallsFit == OPBLOCKS + 2 <= MAXOPBLOCKS /\ LOGSIZE <= NLOG /\ NLOG >= 1
-----------------------------------------------------------------------------
(* Sequences *)

\* What log_write's loop does to the header: the block is an entry once,
\* whether it was absorbed or appended.
LEMMA AbsorbFacts ==
    ASSUME NEW s \in Seq(Block), NEW b \in Block,
           \A i, j \in 1..Len(s) : s[i] = s[j] => i = j
    PROVE  /\ Absorb(s, b) \in Seq(Block)
           /\ Entries(Absorb(s, b)) = Entries(s) \cup {b}
           /\ \A i, j \in 1..Len(Absorb(s, b)) :
                 Absorb(s, b)[i] = Absorb(s, b)[j] => i = j
           /\ IF b \in Entries(s) THEN Absorb(s, b) = s
                                  ELSE Len(Absorb(s, b)) = Len(s) + 1
<1>1. CASE b \in Entries(s)
  BY <1>1, Zenon DEF Absorb, Entries
<1>2. CASE b \notin Entries(s)
  <2> DEFINE t == Append(s, b)
  <2>1. /\ Absorb(s, b) = t /\ t \in Seq(Block) /\ Len(t) = Len(s) + 1
        /\ t[Len(s) + 1] = b /\ \A i \in 1..Len(s) : t[i] = s[i]
    BY <1>2 DEF Absorb
  <2>2. Len(s) \in Nat /\ \A i \in 1..Len(s) : s[i] # b
    BY <1>2 DEF Entries
  <2> HIDE DEF t
  <2>3. \A i, j \in 1..Len(t) : t[i] = t[j] => i = j
    BY <2>1, <2>2
  <2>4. Entries(t) = Entries(s) \cup {b}
    BY <2>1, <2>2 DEF Entries
  <2> QED  BY <1>2, <2>1, <2>3, <2>4, Zenon
<1> QED  BY <1>1, <1>2, Zenon
-----------------------------------------------------------------------------
(* Initial states *)

\* An empty log after boot.
LEMMA InitIndInv ==
    ASSUME CallsFit, Init
    PROVE  IndInv
<1> USE LogConstants
<1>1. Active = {} /\ Entries(lh) = {} /\ Len(lh) = 0
  BY DEF Init, Active, OpPC, Entries
<1>2. TypeOK
  BY DEF Init, TypeOK
<1>3. ControlInv
  BY <1>1, FS_EmptySet DEF Init, ControlInv, CommitPC, CommitAlone
<1>4. SpaceInv
  BY <1>1, FS_EmptySet DEF Init, SpaceInv, LogNeverFull, OpPC, CallsFit
<1>5. MemoryInv
  BY <1>1 DEF Init, MemoryInv
<1>6. DiskInv
  BY <1>1 DEF Init, DiskInv
<1> QED  BY <1>2, <1>3, <1>4, <1>5, <1>6, Zenon DEF IndInv
-----------------------------------------------------------------------------
(* Type correctness *)

\* Every step keeps the types.
LEMMA TypeStep ==
    ASSUME CallsFit, IndInv, [Next]_vars
    PROVE  TypeOK'
<1> USE LogConstants DEF IndInv, TypeOK
<1> DEFINE PC == {"idle", "begin_op", "sleep"} \cup OpPC \cup CommitPC
<1>0. ASSUME NEW f \in [Proc -> PC] PROVE Wakeup(f) \in [Proc -> PC]
  BY Zenon DEF Wakeup
<1>1. ASSUME NEW p \in Proc, begin_op(p) PROVE TypeOK'
  <2>1. pc' \in [Proc -> PC]
    BY <1>1, Zenon DEF begin_op, OpPC, CommitPC
  <2>2. outstanding' \in Nat /\ wrote' \in [Proc -> SUBSET Block]
    BY <1>1 DEF begin_op
  <2> QED  BY <1>1, <2>1, <2>2, Zenon DEF begin_op, disk
<1>2. ASSUME NEW p \in Proc, NEW b \in Block, NEW v \in Val, Modify(p, b, v) PROVE TypeOK'
  BY <1>2, Zenon DEF Modify, disk, OpPC, CommitPC
<1>3. ASSUME NEW p \in Proc, log_write_check(p) PROVE TypeOK'
  BY <1>3, Zenon DEF log_write_check, disk, OpPC, CommitPC
<1>4. ASSUME NEW p \in Proc, log_write(p) PROVE TypeOK'
  <2>1. held[p] \in Block
    BY <1>4, Zenon DEF log_write, ControlInv
  <2>2. Absorb(lh, held[p]) \in Seq(Block)
    BY <2>1, AbsorbFacts, Zenon DEF MemoryInv
  <2> QED  BY <1>4, <2>1, <2>2, Zenon DEF log_write, disk, OpPC, CommitPC
<1>5. ASSUME NEW p \in Proc, end_op(p) PROVE TypeOK'
  <2>1. outstanding # 0
    <3>1. Active # {} /\ IsFiniteSet(Active)
      BY <1>5, FS_Subset, Zenon DEF end_op, Active, OpPC
    <3> QED  BY <3>1, FS_EmptySet, Zenon DEF ControlInv
  <2>2. [pc EXCEPT ![p] = "idle"] \in [Proc -> PC]
    BY Zenon
  <2>3. pc' \in [Proc -> PC]
    BY <1>5, <1>0, <2>2, Zenon DEF end_op, OpPC, CommitPC
  <2>4. outstanding' \in Nat /\ committing' \in {0, 1} /\ tail' \in Nat \ {0}
    BY <1>5, <2>1 DEF end_op
  <2> QED  BY <1>5, <2>3, <2>4, Zenon DEF end_op, disk
<1>6. ASSUME NEW p \in Proc, write_log(p) PROVE TypeOK'
  <2>1. tail \in 1..Len(lh) /\ tail \in 1..(NLOG - 1) /\ lh[tail] \in Block
    BY <1>6 DEF write_log, MemoryInv, SpaceInv, LogNeverFull
  <2>2. bread(lh[tail]) \in Val
    BY <2>1, Zenon DEF bread
  <2> QED  BY <1>6, <2>1, <2>2 DEF write_log, disk, OpPC, CommitPC
<1>7. ASSUME NEW p \in Proc, write_head(p) PROVE TypeOK'
  BY <1>7 DEF write_head, disk, OpPC, CommitPC
<1>8. ASSUME Install, tail <= Len(lh) PROVE
         /\ home' \in [Block -> Val] /\ buf' \in [Block -> Val \cup {None}]
         /\ dirty' \in SUBSET Block /\ tail' \in Nat \ {0}
         /\ head' \in Seq(Block) /\ logblk' \in [1..(NLOG - 1) -> Val]
  <2>1. tail \in 1..Len(lh) /\ lh[tail] \in Block /\ tail \in 1..(NLOG - 1)
    BY <1>8 DEF SpaceInv, LogNeverFull
  <2> QED  BY <1>8, <2>1 DEF Install
<1>9. ASSUME NEW p \in Proc, install_trans(p) PROVE TypeOK'
  <2>1. tail <= Len(lh)
    BY <1>9, Zenon DEF install_trans, MemoryInv
  <2> QED  BY <1>9, <1>8, <2>1, Zenon DEF install_trans, OpPC, CommitPC
<1>10. ASSUME NEW p \in Proc, clear_log(p) PROVE TypeOK'
  BY <1>10 DEF clear_log, Erase, OpPC, CommitPC
<1>11. ASSUME NEW p \in Proc, commit_done(p) PROVE TypeOK'
  <2>1. [pc EXCEPT ![p] = "idle"] \in [Proc -> PC]
    BY Zenon
  <2> QED  BY <1>11, <1>0, <2>1, Zenon DEF commit_done, disk
<1>12. ASSUME NEW b \in Block, Fetch(b) \/ Recycle(b) PROVE TypeOK'
  BY <1>12, Zenon DEF Fetch, Recycle, disk
<1>13. ASSUME recover_install PROVE TypeOK'
  BY <1>13, <1>8, Zenon DEF recover_install, disk
<1>14. ASSUME recover_clear PROVE TypeOK'
  BY <1>14 DEF recover_clear, Erase
<1>15. ASSUME Crash PROVE TypeOK'
  BY <1>15 DEF Crash, disk
<1>16. ASSUME UNCHANGED vars PROVE TypeOK'
  BY <1>16, Zenon DEF vars, disk
<1> QED
  BY <1>1, <1>2, <1>3, <1>4, <1>5, <1>6, <1>7, <1>9, <1>10, <1>11, <1>12, <1>13,
     <1>14, <1>15, <1>16, Zenon DEF Next, Step
-----------------------------------------------------------------------------
(* The space reserved in the log *)

\* At most MAXOPBLOCKS reserved entries for each call in progress.
LEMMA RoomFinite ==
    TypeOK => /\ IsFiniteSet(Active) /\ IsFiniteSet(Room)
              /\ Cardinality(Room) \in Nat
              /\ Cardinality(Room) <= Cardinality(Active) * MAXOPBLOCKS
<1> SUFFICES ASSUME TypeOK
             PROVE  /\ IsFiniteSet(Active) /\ IsFiniteSet(Room)
                    /\ Cardinality(Room) \in Nat
                    /\ Cardinality(Room) <= Cardinality(Active) * MAXOPBLOCKS
  BY Zenon
<1> USE LogConstants
<1>1. IsFiniteSet(Active) /\ Cardinality(Active) \in Nat
  BY FS_Subset, FS_CardinalityType, Zenon DEF Active
<1>2. IsFiniteSet(1..MAXOPBLOCKS) /\ Cardinality(1..MAXOPBLOCKS) = MAXOPBLOCKS
  <2>1. MAXOPBLOCKS \in Int /\ 1 \in Int
    OBVIOUS
  <2> QED  BY <2>1, FS_Interval
<1>3. /\ IsFiniteSet(Active \X (1..MAXOPBLOCKS))
      /\ Cardinality(Active \X (1..MAXOPBLOCKS)) = Cardinality(Active) * MAXOPBLOCKS
  BY <1>1, <1>2, FS_Product, Zenon
<1>4. Room \in SUBSET (Active \X (1..MAXOPBLOCKS))
  BY Zenon DEF Room, Active
<1> QED  BY <1>1, <1>3, <1>4, FS_Subset, FS_CardinalityType

\* A process between bread and log_write has two free entries at least.
LEMMA RoomForTwo ==
    ASSUME CallsFit, IndInv, boot = "run", NEW p \in Proc, pc[p] \in OpPC
    PROVE  Len(lh) + 2 <= LOGSIZE
<1> USE LogConstants
<1> DEFINE a == <<p, MAXOPBLOCKS>>
           b == <<p, MAXOPBLOCKS - 1>>
<1>1. Cardinality(wrote[p]) \in Nat /\ Cardinality(wrote[p]) <= OPBLOCKS
  BY FS_CardinalityType, Zenon DEF IndInv, SpaceInv
<1>2. a \in Room /\ b \in Room
  BY <1>1 DEF Room, CallsFit
<1>3. a # b
  OBVIOUS
<1> HIDE DEF a, b
<1>4. Cardinality({a} \cup {b}) = 2 /\ {a} \cup {b} \in SUBSET Room
  <2>1. IsFiniteSet({a}) /\ Cardinality({a}) = 1
    BY FS_Singleton, Zenon
  <2>2. b \notin {a}
    BY <1>3, Zenon
  <2>3. Cardinality({a} \cup {b}) = Cardinality({a}) + 1
    BY <2>1, <2>2, FS_AddElement, Zenon
  <2>4. {a} \cup {b} \in SUBSET Room
    BY <1>2, Zenon
  <2> QED  BY <2>1, <2>3, <2>4
<1>5. 2 <= Cardinality(Room)
  BY <1>4, RoomFinite, FS_Subset DEF IndInv
<1> QED  BY <1>5, RoomFinite DEF IndInv, SpaceInv, TypeOK

\* log_write's two tests succeed: the kernel does not panic there.
LEMMA CheckPasses ==
    ASSUME CallsFit, IndInv, NEW p \in Proc, log_write_check(p)
    PROVE  boot' = "run" /\ pc' = [pc EXCEPT ![p] = "log_write"]
<1> USE LogConstants
<1>1. boot = "run" /\ pc[p] \in OpPC /\ p \in Active
  BY Zenon DEF log_write_check, Running, OpPC, Active
<1>2. outstanding >= 1
  BY <1>1, RoomFinite, FS_EmptySet DEF IndInv, ControlInv, TypeOK
<1>3. ~LogFull
  BY <1>1, RoomForTwo DEF LogFull, CallsFit, IndInv, TypeOK
<1> QED  BY <1>1, <1>2, <1>3 DEF log_write_check, IndInv, TypeOK
-----------------------------------------------------------------------------
(* Control: outstanding counts the calls, the committer is alone *)

\* Every step keeps log.outstanding and log.committing right.
LEMMA ControlStep ==
    ASSUME CallsFit, IndInv, [Next]_vars
    PROVE  ControlInv'
<1> USE LogConstants
<1>T. TypeOK
  BY Zenon DEF IndInv
<1>C. ControlInv
  BY Zenon DEF IndInv
<1>F. IsFiniteSet(Active)
  BY <1>T, RoomFinite, Zenon
<1>1. ASSUME NEW p \in Proc, begin_op(p) PROVE ControlInv'
  <2>1. CASE MustWait
    <3>1. Active' = Active /\ \A q \in Proc : pc'[q] \in CommitPC <=> pc[q] \in CommitPC
      BY <1>T, <1>1, <2>1, Zenon DEF begin_op, Active, TypeOK, OpPC, CommitPC
    <3>2. \A q \in Proc : pc'[q] \in {"held", "log_write"} <=> pc[q] \in {"held", "log_write"}
      BY <1>T, <1>1, <2>1, Zenon DEF begin_op, TypeOK
    <3> QED  BY <1>C, <1>1, <2>1, <3>1, <3>2, Zenon DEF begin_op, ControlInv, CommitAlone, Running
  <2>2. CASE ~MustWait
    <3>1. /\ Active' = Active \cup {p} /\ p \notin Active
          /\ \A q \in Proc : pc'[q] \in CommitPC <=> pc[q] \in CommitPC
      BY <1>T, <1>1, <2>2 DEF begin_op, Active, TypeOK, OpPC, CommitPC
    <3>2. \A q \in Proc : pc'[q] \in {"held", "log_write"} <=> pc[q] \in {"held", "log_write"}
      BY <1>T, <1>1, <2>2, Zenon DEF begin_op, TypeOK
    <3>3. Cardinality(Active') = Cardinality(Active) + 1
      BY <1>F, <3>1, FS_AddElement, Zenon
    <3>4. \A q \in Proc : pc[q] \notin CommitPC
      BY <1>C, <2>2, Zenon DEF MustWait, ControlInv
    <3> QED  BY <1>C, <1>1, <2>2, <3>1, <3>2, <3>3, <3>4, Zenon
             DEF begin_op, ControlInv, CommitAlone, Running
  <2> QED  BY <2>1, <2>2, Zenon
<1>2. ASSUME NEW p \in Proc, NEW b \in Block, NEW v \in Val, Modify(p, b, v) PROVE ControlInv'
  <2>1. Active' = Active /\ \A q \in Proc : pc'[q] \in CommitPC <=> pc[q] \in CommitPC
    BY <1>T, <1>2, Zenon DEF Modify, Active, TypeOK, OpPC, CommitPC
  <2> QED  BY <1>T, <1>C, <1>2, <2>1 DEF Modify, ControlInv, CommitAlone, Running, TypeOK
<1>3. ASSUME NEW p \in Proc, log_write_check(p) PROVE ControlInv'
  <2>1. Active' = Active /\ \A q \in Proc : pc'[q] \in CommitPC <=> pc[q] \in CommitPC
    BY <1>T, <1>3, Zenon DEF log_write_check, Active, TypeOK, OpPC, CommitPC
  <2>2. boot' = "run" /\ pc' = [pc EXCEPT ![p] = "log_write"]
    BY <1>3, CheckPasses, Zenon
  <2>3. \A q \in Proc : pc'[q] \in {"held", "log_write"} <=> pc[q] \in {"held", "log_write"}
    BY <1>T, <1>3, <2>2, Zenon DEF log_write_check, TypeOK
  <2>4. held' = held /\ committing' = committing /\ outstanding' = outstanding
    BY <1>3, Zenon DEF log_write_check
  <2> QED  BY <1>C, <2>1, <2>2, <2>3, <2>4, Zenon DEF ControlInv, CommitAlone
<1>4. ASSUME NEW p \in Proc, log_write(p) PROVE ControlInv'
  <2>1. Active' = Active /\ \A q \in Proc : pc'[q] \in CommitPC <=> pc[q] \in CommitPC
    BY <1>T, <1>4, Zenon DEF log_write, Active, TypeOK, OpPC, CommitPC
  <2> QED  BY <1>T, <1>C, <1>4, <2>1 DEF log_write, ControlInv, CommitAlone, Running, TypeOK
<1>5. ASSUME NEW p \in Proc, end_op(p) PROVE ControlInv'
  <2>0. p \in Active /\ committing # 1
    BY <1>C, <1>5, Zenon DEF end_op, Active, OpPC, ControlInv, CommitAlone
  <2>1. Active' = Active \ {p}
    BY <1>T, <1>5, <2>0 DEF end_op, Active, TypeOK, OpPC, CommitPC, Wakeup
  <2>2. Cardinality(Active') = Cardinality(Active) - 1
    BY <1>F, <2>0, <2>1, FS_RemoveElement, Zenon
  <2>3. \A q \in Proc : pc'[q] \in {"held", "log_write"} <=> pc[q] \in {"held", "log_write"}
    BY <1>T, <1>5, <2>0 DEF end_op, TypeOK, Wakeup
  <2>4. \A q \in Proc : pc[q] \notin CommitPC
    BY <1>C, <2>0, Zenon DEF ControlInv
  <2>5. CASE outstanding = 1
    <3>1. \A q \in Proc : pc'[q] \in CommitPC <=> q = p
      BY <1>T, <1>5, <2>0, <2>4, <2>5, Zenon DEF end_op, TypeOK, CommitPC
    <3>2. Active' = {}
      <4>1. IsFiniteSet(Active') /\ Cardinality(Active') = 0
        BY <1>C, <1>F, <2>1, <2>2, <2>5, FS_RemoveElement DEF ControlInv
      <4> QED  BY <4>1, FS_EmptySet, Zenon
    <3>3. committing' = 1 /\ held' = held /\ boot' = "run" /\ outstanding' = 0
      BY <1>5, <2>0, <2>5 DEF end_op, Running
    <3> QED  BY <1>C, <2>0, <2>2, <2>3, <2>5, <3>1, <3>2, <3>3 DEF ControlInv, CommitAlone
  <2>6. CASE outstanding # 1
    <3>1. \A q \in Proc : pc'[q] \notin CommitPC
      BY <1>T, <1>5, <2>0, <2>4, <2>6 DEF end_op, TypeOK, CommitPC, Wakeup
    <3> QED  BY <1>C, <1>5, <2>0, <2>2, <2>3, <2>6, <3>1, Zenon
             DEF end_op, ControlInv, CommitAlone, Running
  <2> QED  BY <2>5, <2>6, Zenon
<1>6. ASSUME NEW p \in Proc, write_log(p) \/ write_head(p) \/ install_trans(p) \/ clear_log(p)
      PROVE  ControlInv'
  <2>1. Active' = Active /\ \A q \in Proc : pc'[q] \in CommitPC <=> pc[q] \in CommitPC
    BY <1>T, <1>6 DEF write_log, write_head, install_trans, clear_log, Active, TypeOK,
                      OpPC, CommitPC
  <2>2. \A q \in Proc : pc'[q] \in {"held", "log_write"} <=> pc[q] \in {"held", "log_write"}
    BY <1>T, <1>6 DEF write_log, write_head, install_trans, clear_log, TypeOK
  <2>3. held' = held /\ committing' = committing /\ outstanding' = outstanding
        /\ boot' = "run"
    BY <1>6, Zenon DEF write_log, write_head, install_trans, clear_log, Running
  <2> QED  BY <1>C, <2>1, <2>2, <2>3, Zenon DEF ControlInv, CommitAlone
<1>7. ASSUME NEW p \in Proc, commit_done(p) PROVE ControlInv'
  <2>1. pc[p] \in CommitPC
    BY <1>7, Zenon DEF commit_done, CommitPC
  <2>2. Active' = Active
    BY <1>T, <1>7, Zenon DEF commit_done, Active, TypeOK, OpPC, Wakeup
  <2>3. \A q \in Proc : pc'[q] \notin CommitPC
    BY <1>T, <1>C, <1>7, <2>1 DEF commit_done, TypeOK, CommitPC, Wakeup, ControlInv, CommitAlone
  <2>4. \A q \in Proc : pc'[q] \in {"held", "log_write"} <=> pc[q] \in {"held", "log_write"}
    BY <1>T, <1>7, Zenon DEF commit_done, TypeOK, Wakeup
  <2>5. held' = held /\ committing' = 0 /\ outstanding' = outstanding /\ boot' = "run"
    BY <1>7, Zenon DEF commit_done, Running
  <2> QED  BY <1>C, <2>2, <2>3, <2>4, <2>5 DEF ControlInv, CommitAlone
<1>8. ASSUME \/ \E b \in Block : Fetch(b) \/ Recycle(b)
             \/ recover_install \/ recover_clear \/ UNCHANGED vars
      PROVE  ControlInv'
  <2>1. /\ pc' = pc /\ held' = held /\ committing' = committing
        /\ outstanding' = outstanding /\ (boot' = "run" \/ boot # "run" \/ boot' = boot)
    BY <1>8, Zenon DEF Fetch, Recycle, recover_install, recover_clear, vars
  <2>2. Active' = Active
    BY <2>1, Zenon DEF Active
  <2> QED  BY <1>C, <2>1, <2>2, Zenon DEF ControlInv, CommitAlone
<1>9. ASSUME Crash PROVE ControlInv'
  <2>1. Active' = {}
    BY <1>9, Zenon DEF Crash, Active, OpPC
  <2> QED  BY <1>9, <2>1, FS_EmptySet DEF Crash, ControlInv, CommitAlone, CommitPC
<1> QED
  BY <1>1, <1>2, <1>3, <1>4, <1>5, <1>6, <1>7, <1>8, <1>9, Zenon DEF Next, Step
-----------------------------------------------------------------------------
(* Log space: the reservation covers what the calls may still log *)

\* No step takes more than the reservation of its call.
LEMMA SpaceStep ==
    ASSUME CallsFit, IndInv, [Next]_vars
    PROVE  SpaceInv'
<1> USE LogConstants
<1>T. TypeOK
  BY Zenon DEF IndInv
<1>U. TypeOK'
  BY TypeStep, Zenon
<1>C. ControlInv
  BY Zenon DEF IndInv
<1>D. ControlInv'
  BY ControlStep, Zenon
<1>S. SpaceInv
  BY Zenon DEF IndInv
<1>a. /\ IsFiniteSet(Room') /\ Cardinality(Room') \in Nat
      /\ Cardinality(Room') <= Cardinality(Active') * MAXOPBLOCKS
  <2>1. (TypeOK => /\ IsFiniteSet(Active) /\ IsFiniteSet(Room)
                   /\ Cardinality(Room) \in Nat
                   /\ Cardinality(Room) <= Cardinality(Active) * MAXOPBLOCKS)'
    BY RoomFinite, PTL
  <2> QED  BY <1>U, <2>1, Zenon
<1>1. ASSUME NEW p \in Proc, begin_op(p) PROVE SpaceInv'
  <2>1. CASE MustWait
    <3>1. /\ pc' = [pc EXCEPT ![p] = "sleep"] /\ pc[p] \in {"idle", "begin_op"}
          /\ UNCHANGED <<wrote, lh, held, boot>>
      BY <1>1, <2>1, Zenon DEF begin_op
    <3>2. Room' = Room /\ \A q \in Proc :
             /\ pc'[q] \in OpPC => pc[q] \in OpPC
             /\ pc'[q] \in {"held", "log_write"} => pc[q] \in {"held", "log_write"}
      BY <1>T, <3>1, Zenon DEF Room, TypeOK, OpPC
    <3> QED  BY <1>S, <3>1, <3>2, Zenon DEF SpaceInv, LogNeverFull
  <2>2. CASE ~MustWait
    <3>1. /\ pc' = [pc EXCEPT ![p] = "op"] /\ wrote' = [wrote EXCEPT ![p] = {}]
          /\ outstanding' = outstanding + 1 /\ UNCHANGED <<lh, held, boot>>
      BY <1>1, <2>2, Zenon DEF begin_op
    <3>2. \A q \in Proc : pc'[q] \in OpPC /\ q # p => pc[q] \in OpPC
      BY <1>T, <3>1, Zenon DEF TypeOK, OpPC
    <3>3. Len(lh') + Cardinality(Room') <= LOGSIZE
      <4>1. Cardinality(Room') \in Nat
            /\ Cardinality(Room') <= Cardinality(Active') * MAXOPBLOCKS
        BY <1>a, Zenon
      <4>2. Cardinality(Active') = outstanding + 1
        BY <1>D, <3>1, Zenon DEF ControlInv
      <4>3. Len(lh) + (outstanding + 1) * MAXOPBLOCKS <= LOGSIZE
        BY <1>T, <1>C, <2>2 DEF MustWait, TypeOK
      <4>4. (outstanding + 1) * MAXOPBLOCKS \in Nat /\ Len(lh) \in Nat
        BY <1>T, <1>C DEF TypeOK
      <4> QED  BY <3>1, <4>1, <4>2, <4>3, <4>4
    <3>4. \A q \in Proc : IsFiniteSet(wrote'[q])
      BY <1>T, <1>S, <3>1, FS_EmptySet, Zenon DEF SpaceInv, TypeOK
    <3>5. \A q \in Proc : pc'[q] \in OpPC => Cardinality(wrote'[q]) <= OPBLOCKS
      BY <1>T, <1>S, <3>1, <3>2, FS_EmptySet DEF SpaceInv, TypeOK
    <3>6. \A q \in Proc : pc'[q] \in {"held", "log_write"} =>
             Cardinality(wrote'[q] \cup {held'[q]}) <= OPBLOCKS
      BY <1>T, <1>S, <3>1, Zenon DEF SpaceInv, TypeOK
    <3>7. \A q \in Proc : pc'[q] \in OpPC => wrote'[q] \subseteq Entries(lh')
      BY <1>T, <1>S, <3>1, <3>2, Zenon DEF SpaceInv, TypeOK
    <3> QED  BY <1>S, <3>1, <3>3, <3>4, <3>5, <3>6, <3>7, Zenon DEF SpaceInv, LogNeverFull
  <2> QED  BY <2>1, <2>2, Zenon
<1>2. ASSUME NEW p \in Proc, NEW b \in Block, NEW v \in Val, Modify(p, b, v) PROVE SpaceInv'
  <2>1. Room' = Room /\ \A q \in Proc : pc'[q] \in OpPC => pc[q] \in OpPC
    BY <1>T, <1>2, Zenon DEF Modify, Room, TypeOK, OpPC
  <2>2. \A q \in Proc : pc'[q] \in {"held", "log_write"} =>
             Cardinality(wrote'[q] \cup {held'[q]}) <= OPBLOCKS
    BY <1>T, <1>S, <1>2, Zenon DEF Modify, SpaceInv, TypeOK
  <2>3. UNCHANGED <<wrote, lh, boot>>
    BY <1>2, Zenon DEF Modify
  <2> QED  BY <1>S, <2>1, <2>2, <2>3, Zenon DEF SpaceInv, LogNeverFull
<1>3. ASSUME NEW p \in Proc, log_write_check(p) PROVE SpaceInv'
  <2>1. boot' = "run" /\ pc' = [pc EXCEPT ![p] = "log_write"] /\ pc[p] = "held" /\ boot = "run"
    BY <1>3, CheckPasses, Zenon DEF log_write_check, Running
  <2>2. UNCHANGED <<wrote, lh, held>>
    BY <1>3, Zenon DEF log_write_check
  <2>3. Room' = Room /\ \A q \in Proc :
             /\ pc'[q] \in OpPC => pc[q] \in OpPC
             /\ pc'[q] \in {"held", "log_write"} => pc[q] \in {"held", "log_write"}
    BY <1>T, <2>1, <2>2, Zenon DEF Room, TypeOK, OpPC
  <2> QED  BY <1>S, <2>1, <2>2, <2>3, Zenon DEF SpaceInv, LogNeverFull
<1>4. ASSUME NEW p \in Proc, log_write(p) PROVE SpaceInv'
  <2> DEFINE n == Cardinality(wrote[p])
  <2>1. /\ pc[p] = "log_write" /\ pc' = [pc EXCEPT ![p] = "op"] /\ boot = "run"
        /\ wrote' = [wrote EXCEPT ![p] = wrote[p] \cup {held[p]}]
        /\ held' = [held EXCEPT ![p] = None] /\ boot' = boot
        /\ lh' = Absorb(lh, held[p]) /\ held[p] \in Block
    BY <1>T, <1>C, <1>4, Zenon DEF log_write, Running, ControlInv, TypeOK
  <2>2. /\ n \in Nat /\ IsFiniteSet(wrote'[p]) /\ Cardinality(wrote'[p]) \in Nat
        /\ Cardinality(wrote'[p]) <= OPBLOCKS
        /\ Cardinality(wrote'[p]) = IF held[p] \in wrote[p] THEN n ELSE n + 1
    <3>1. wrote'[p] = wrote[p] \cup {held[p]} /\ IsFiniteSet(wrote[p])
      BY <1>T, <1>S, <2>1, Zenon DEF SpaceInv, TypeOK
    <3>2. Cardinality(wrote[p] \cup {held[p]}) <= OPBLOCKS
      BY <1>S, <2>1, Zenon DEF SpaceInv
    <3>3. /\ IsFiniteSet(wrote'[p])
          /\ Cardinality(wrote'[p]) = IF held[p] \in wrote[p] THEN n ELSE n + 1
      BY <3>1, FS_AddElement, Zenon
    <3> QED  BY <3>1, <3>2, <3>3, FS_CardinalityType, Zenon
  <2>3. /\ \A q \in Proc : IsFiniteSet(wrote'[q])
        /\ \A q \in Proc : pc'[q] \in OpPC => Cardinality(wrote'[q]) <= OPBLOCKS
        /\ \A q \in Proc : pc'[q] \in {"held", "log_write"} =>
              Cardinality(wrote'[q] \cup {held'[q]}) <= OPBLOCKS
    <3>1. \A q \in Proc \ {p} : pc'[q] = pc[q] /\ wrote'[q] = wrote[q] /\ held'[q] = held[q]
      BY <1>T, <2>1, Zenon DEF TypeOK
    <3>2. pc'[p] = "op"
      BY <1>T, <2>1, Zenon DEF TypeOK
    <3> QED  BY <1>S, <2>2, <3>1, <3>2, Zenon DEF SpaceInv
  <2>4. /\ Entries(lh') = Entries(lh) \cup {held[p]} /\ Len(lh) \in Nat /\ Len(lh') \in Nat
        /\ IF held[p] \in Entries(lh) THEN lh' = lh ELSE Len(lh') = Len(lh) + 1
    BY <1>T, <2>1, AbsorbFacts DEF IndInv, MemoryInv, TypeOK
  <2>5. \A q \in Proc : pc'[q] \in OpPC => wrote'[q] \subseteq Entries(lh')
    BY <1>T, <1>S, <2>1, <2>4, Zenon DEF SpaceInv, TypeOK, OpPC
  <2>6. Len(lh') + Cardinality(Room') <= LOGSIZE
    <3>0. IsFiniteSet(Room) /\ Cardinality(Room) \in Nat /\ Len(lh) + Cardinality(Room) <= LOGSIZE
      <4>1. IsFiniteSet(Room) /\ Cardinality(Room) \in Nat
        BY <1>T, RoomFinite, Zenon
      <4> QED  BY <1>S, <2>1, <4>1, Zenon DEF SpaceInv
    <3>1. CASE held[p] \in Entries(lh)
      <4>1. Room' \in SUBSET Room
        <5>1. ASSUME NEW s \in Room' PROVE s \in Room
          <6>1. s \in Proc \X (1..MAXOPBLOCKS) /\ pc[s[1]] \in OpPC
            BY <1>T, <2>1, <5>1, Zenon DEF Room, TypeOK, OpPC
          <6>2. s[2] > Cardinality(wrote[s[1]])
            BY <1>T, <2>1, <2>2, <5>1, <6>1 DEF Room, TypeOK
          <6> QED  BY <6>1, <6>2, Zenon DEF Room
        <5> QED  BY <5>1, Zenon
      <4>2. Cardinality(Room') <= Cardinality(Room)
        BY <3>0, <4>1, FS_Subset, Zenon
      <4> QED  BY <1>a, <2>4, <3>0, <3>1, <4>2
    <3>2. CASE held[p] \notin Entries(lh)
      <4> DEFINE a == <<p, n + 1>>
      <4>0. held[p] \notin wrote[p]
        BY <1>T, <1>S, <2>1, <3>2, Zenon DEF SpaceInv, OpPC
      <4>1. a \in Room
        BY <2>1, <2>2, <4>0 DEF Room, CallsFit, OpPC
      <4>2. Room' \in SUBSET (Room \ {a})
        <5>1. ASSUME NEW s \in Room' PROVE s \in Room /\ s # a
          <6>1. s \in Proc \X (1..MAXOPBLOCKS) /\ pc[s[1]] \in OpPC
            BY <1>T, <1>S, <2>1, <5>1, Zenon DEF Room, TypeOK, OpPC
          <6>2. s[2] > Cardinality(wrote'[s[1]])
            BY <5>1, Zenon DEF Room
          <6>3. s[2] > Cardinality(wrote[s[1]]) /\ s # a
            BY <1>T, <1>S, <2>1, <2>2, <4>0, <6>1, <6>2 DEF TypeOK
          <6> QED  BY <6>1, <6>3, Zenon DEF Room
        <5> QED  BY <5>1, Zenon
      <4> HIDE DEF a
      <4>3. IsFiniteSet(Room \ {a}) /\ Cardinality(Room \ {a}) = Cardinality(Room) - 1
        BY <3>0, <4>1, FS_RemoveElement, Zenon
      <4>4. Cardinality(Room') <= Cardinality(Room) - 1
        BY <4>2, <4>3, FS_Subset
      <4> QED  BY <1>a, <2>4, <3>0, <3>2, <4>4
    <3> QED  BY <3>1, <3>2, Zenon
  <2>7. Len(lh') <= LOGSIZE /\ Len(lh') <= NLOG - 1
    <3>1. Len(lh) + 2 <= LOGSIZE
      BY <2>1, RoomForTwo, Zenon DEF OpPC
    <3> QED  BY <2>4, <3>1 DEF CallsFit
  <2> QED  BY <2>1, <2>3, <2>5, <2>6, <2>7, Zenon DEF SpaceInv, LogNeverFull
<1>5. ASSUME NEW p \in Proc, end_op(p) PROVE SpaceInv'
  <2>1. UNCHANGED <<wrote, lh, held>> /\ boot = "run"
    BY <1>5, Zenon DEF end_op, Running
  <2>2. boot' = "run"
    BY <1>C, <1>5, Zenon DEF end_op, Running, ControlInv, CommitAlone, Active, OpPC
  <2>3. \A q \in Proc : /\ pc'[q] \in OpPC => pc[q] \in OpPC
                        /\ pc'[q] \in {"held", "log_write"} => pc[q] \in {"held", "log_write"}
    BY <1>T, <1>5, Zenon DEF end_op, TypeOK, OpPC, Wakeup
  <2>4. Room' \in SUBSET Room
    <3>1. ASSUME NEW s \in Room' PROVE s \in Room
      BY <2>1, <2>3, <3>1, Zenon DEF Room
    <3> QED  BY <3>1, Zenon
  <2>5. Cardinality(Room') <= Cardinality(Room) /\ Cardinality(Room') \in Nat
        /\ Cardinality(Room) \in Nat
    <3>1. IsFiniteSet(Room) /\ Cardinality(Room) \in Nat
      BY <1>T, RoomFinite, Zenon
    <3> QED  BY <1>a, <2>4, <3>1, FS_Subset, Zenon
  <2>6. Len(lh) + Cardinality(Room') <= LOGSIZE
    <3>1. Len(lh) + Cardinality(Room) <= LOGSIZE /\ Len(lh) \in Nat
      BY <1>T, <1>S, <2>1 DEF SpaceInv, TypeOK
    <3> QED  BY <2>5, <3>1
  <2> QED  BY <1>S, <2>1, <2>2, <2>3, <2>6, Zenon DEF SpaceInv, LogNeverFull
<1>6. ASSUME NEW p \in Proc,
             \/ write_log(p) \/ write_head(p) \/ install_trans(p) \/ commit_done(p)
      PROVE  SpaceInv'
  <2>1. UNCHANGED <<wrote, lh, held>> /\ boot = "run" /\ boot' = "run"
    BY <1>6, Zenon DEF write_log, write_head, install_trans, commit_done, Running
  <2>2. \A q \in Proc :
           /\ pc'[q] \in OpPC <=> pc[q] \in OpPC
           /\ pc'[q] \in {"held", "log_write"} <=> pc[q] \in {"held", "log_write"}
    BY <1>T, <1>6 DEF write_log, write_head, install_trans, commit_done, TypeOK, OpPC, Wakeup
  <2>3. Room' = Room
    BY <2>1, <2>2, Zenon DEF Room
  <2> QED  BY <1>S, <2>1, <2>2, <2>3, Zenon DEF SpaceInv, LogNeverFull
<1>7. ASSUME NEW p \in Proc, clear_log(p) PROVE SpaceInv'
  <2>1. UNCHANGED <<wrote, held>> /\ boot = "run" /\ boot' = "run" /\ lh' = <<>>
    BY <1>7, Zenon DEF clear_log, Erase, Running
  <2>2. pc[p] \in CommitPC
    BY <1>7, Zenon DEF clear_log, CommitPC
  <2>3. \A q \in Proc : pc'[q] \notin OpPC
    BY <1>T, <1>C, <1>7, <2>2 DEF clear_log, TypeOK, OpPC, ControlInv, CommitAlone, Active
  <2>4. Room' = {}
    BY <2>3, Zenon DEF Room
  <2>5. Len(lh') = 0 /\ Cardinality(Room') = 0
    BY <2>1, <2>4, FS_EmptySet, Zenon
  <2> QED  BY <1>S, <2>1, <2>3, <2>5 DEF SpaceInv, LogNeverFull, CallsFit, OpPC
<1>8. ASSUME \/ \E b \in Block : Fetch(b) \/ Recycle(b)
             \/ recover_install \/ UNCHANGED vars
      PROVE  SpaceInv'
  <2>1. /\ UNCHANGED <<pc, wrote, lh, held>>
        /\ boot' = boot \/ (boot' = "clear" /\ boot # "run")
    BY <1>8, Zenon DEF Fetch, Recycle, recover_install, vars
  <2>2. Room' = Room
    BY <2>1, Zenon DEF Room
  <2> QED  BY <1>S, <2>1, <2>2 DEF SpaceInv, LogNeverFull
<1>9. ASSUME recover_clear PROVE SpaceInv'
  <2>1. UNCHANGED <<pc, wrote, held>> /\ lh' = <<>> /\ boot' = "run" /\ boot # "run"
    BY <1>9, Zenon DEF recover_clear, Erase
  <2>2. \A q \in Proc : pc'[q] \notin OpPC
    BY <1>C, <2>1, Zenon DEF ControlInv, OpPC
  <2>3. Room' = {}
    BY <2>2, Zenon DEF Room
  <2>4. Len(lh') = 0 /\ Cardinality(Room') = 0
    BY <2>1, <2>3, FS_EmptySet, Zenon
  <2> QED  BY <1>S, <2>1, <2>2, <2>4 DEF SpaceInv, LogNeverFull, CallsFit, OpPC
<1>10. ASSUME Crash PROVE SpaceInv'
  <2>1. /\ \A q \in Proc : wrote'[q] = {} /\ pc'[q] \notin OpPC
        /\ boot' = "install_trans" /\ lh' = head
    BY <1>10, Zenon DEF Crash, OpPC
  <2>2. Len(head) <= LOGSIZE /\ Len(head) <= NLOG - 1
    BY DEF IndInv, DiskInv, SpaceInv, LogNeverFull, CallsFit
  <2> QED  BY <2>1, <2>2, FS_EmptySet, Zenon DEF SpaceInv, LogNeverFull, OpPC
<1> QED
  BY <1>1, <1>2, <1>3, <1>4, <1>5, <1>6, <1>7, <1>8, <1>9, <1>10, Zenon DEF Next, Step
-----------------------------------------------------------------------------
(* Memory: a logged block stays in the cache until it is installed *)

\* Every step keeps what is said of the cache.
LEMMA MemoryStep ==
    ASSUME CallsFit, IndInv, [Next]_vars
    PROVE  MemoryInv'
<1> USE LogConstants
<1>T. TypeOK
  BY Zenon DEF IndInv
<1>C. ControlInv
  BY Zenon DEF IndInv
<1>S. SpaceInv
  BY Zenon DEF IndInv
<1>M. MemoryInv
  BY Zenon DEF IndInv
<1>1. ASSUME NEW p \in Proc, begin_op(p) PROVE MemoryInv'
  <2>1. UNCHANGED <<lh, dirty, buf, held, home, boot, head, tail>>
    BY <1>1, Zenon DEF begin_op, disk
  <2>2. \A q \in Proc : pc'[q] \in CommitPC \/ pc[q] \in CommitPC => pc'[q] = pc[q]
    BY <1>T, <1>1 DEF begin_op, TypeOK, CommitPC
  <2> QED  BY <1>M, <2>1, <2>2 DEF MemoryInv, CommitPC
<1>2. ASSUME NEW p \in Proc, NEW b \in Block, NEW v \in Val, Modify(p, b, v) PROVE MemoryInv'
  <2>1. /\ UNCHANGED <<lh, dirty, home, boot, head, tail>>
        /\ buf' = [buf EXCEPT ![b] = v] /\ held' = [held EXCEPT ![p] = b] /\ held[p] = None
    BY <1>C, <1>2, Zenon DEF Modify, disk, ControlInv
  <2>2. \A q \in Proc : pc'[q] \in CommitPC \/ pc[q] \in CommitPC => pc'[q] = pc[q]
    BY <1>T, <1>2, Zenon DEF Modify, TypeOK, CommitPC
  <2>3. v # None
    BY Zenon
  <2>4. \A c \in Block : c # b => buf'[c] = buf[c]
    BY <1>T, <2>1, Zenon DEF TypeOK
  <2>5. buf'[b] # None /\ held'[p] = b /\ \A q \in Proc : q # p => held'[q] = held[q]
    BY <1>T, <2>1, <2>3, Zenon DEF TypeOK
  <2>6. \A c \in dirty' : buf'[c] # None
    BY <1>T, <1>M, <2>1, <2>4, <2>5, Zenon DEF MemoryInv, TypeOK
  <2>7. \A q \in Proc : held'[q] # None => buf'[held'[q]] # None
    BY <1>T, <1>M, <2>1, <2>4, <2>5 DEF MemoryInv, TypeOK
  <2>8. \A c \in Block : (c \notin dirty' /\ buf'[c] # None /\ \A q \in Proc : held'[q] # c)
                             => buf'[c] = home'[c]
    BY <1>T, <1>M, <2>1, <2>4, <2>5 DEF MemoryInv, TypeOK
  <2> QED  BY <1>M, <2>1, <2>2, <2>6, <2>7, <2>8 DEF MemoryInv, CommitPC
<1>3. ASSUME NEW p \in Proc, log_write_check(p) PROVE MemoryInv'
  <2>1. UNCHANGED <<lh, dirty, buf, held, home, head, tail>> /\ boot = "run" /\ boot' = "run"
    BY <1>3, CheckPasses, Zenon DEF log_write_check, disk, Running
  <2>2. \A q \in Proc : pc'[q] \in CommitPC \/ pc[q] \in CommitPC => pc'[q] = pc[q]
    BY <1>T, <1>3, Zenon DEF log_write_check, TypeOK, CommitPC
  <2> QED  BY <1>M, <2>1, <2>2 DEF MemoryInv, CommitPC
<1>4. ASSUME NEW p \in Proc, log_write(p) PROVE MemoryInv'
  <2>1. /\ UNCHANGED <<buf, home, boot, head, tail>> /\ boot = "run"
        /\ lh' = Absorb(lh, held[p]) /\ dirty' = dirty \cup {held[p]}
        /\ held' = [held EXCEPT ![p] = None] /\ held[p] \in Block /\ pc[p] = "log_write"
    BY <1>T, <1>C, <1>4, Zenon DEF log_write, disk, Running, ControlInv, TypeOK
  <2>2. \A q \in Proc : pc[q] \notin CommitPC /\ pc'[q] \notin CommitPC
    BY <1>T, <1>C, <1>4, <2>1, Zenon DEF log_write, TypeOK, CommitPC, ControlInv, CommitAlone, Active, OpPC
  <2>3. /\ Entries(lh') = Entries(lh) \cup {held[p]}
        /\ \A i, j \in 1..Len(lh') : lh'[i] = lh'[j] => i = j
    <3>1. lh \in Seq(Block) /\ \A i, j \in 1..Len(lh) : lh[i] = lh[j] => i = j
      BY <1>T, <1>M, Zenon DEF MemoryInv, TypeOK
    <3> DEFINE a == Absorb(lh, held[p])
    <3>2. /\ Entries(a) = Entries(lh) \cup {held[p]}
          /\ \A i, j \in 1..Len(a) : a[i] = a[j] => i = j
      BY <2>1, <3>1, AbsorbFacts, Zenon
    <3> HIDE DEF a
    <3>3. lh' = a
      BY <2>1, Zenon DEF a
    <3> QED  BY <3>2, <3>3, Zenon
  <2>4. dirty' = Entries(lh')
    BY <1>M, <2>1, <2>2, <2>3, Zenon DEF MemoryInv, CommitPC
  <2>5. \A c \in dirty' : buf'[c] # None
    BY <1>M, <2>1, Zenon DEF MemoryInv
  <2>6. \A q \in Proc : held'[q] # None => buf'[held'[q]] # None
    <3>1. \A q \in Proc : held'[q] # None => held'[q] = held[q]
      BY <1>T, <2>1, Zenon DEF TypeOK
    <3> QED  BY <1>M, <2>1, <3>1, Zenon DEF MemoryInv
  <2>7. \A c \in Block : (c \notin dirty' /\ buf'[c] # None /\ \A q \in Proc : held'[q] # c)
                             => buf'[c] = home'[c]
    <3>1. ASSUME NEW c \in Block, c \notin dirty', \A q \in Proc : held'[q] # c
          PROVE  \A q \in Proc : held[q] # c
      <4>1. \A q \in Proc : q # p => held'[q] = held[q]
        BY <1>T, <2>1, Zenon DEF TypeOK
      <4> QED  BY <2>1, <3>1, <4>1, Zenon
    <3> QED  BY <1>M, <2>1, <3>1, Zenon DEF MemoryInv
  <2> QED  BY <2>1, <2>2, <2>3, <2>4, <2>5, <2>6, <2>7, Zenon DEF MemoryInv, CommitPC
<1>5. ASSUME NEW p \in Proc, end_op(p) PROVE MemoryInv'
  <2>1. UNCHANGED <<lh, dirty, buf, held, home, head>> /\ boot = "run" /\ boot' = "run"
    BY <1>C, <1>5, Zenon DEF end_op, disk, Running, ControlInv, CommitAlone, Active, OpPC
  <2>2. \A q \in Proc : pc[q] \notin CommitPC
    BY <1>C, <1>5, Zenon DEF end_op, ControlInv, CommitAlone, Active, OpPC
  <2>3. \A q \in Proc : pc'[q] \in CommitPC =>
           pc'[q] \in {"write_log", "done"} /\ (pc'[q] = "write_log" => tail' = 1 /\ lh # <<>>)
    BY <1>T, <1>5, <2>2 DEF end_op, TypeOK, CommitPC, Wakeup
  <2>4. lh # <<>> => 1 <= Len(lh)
    BY <1>T DEF TypeOK
  <2> QED  BY <1>M, <2>1, <2>2, <2>3, <2>4 DEF MemoryInv, CommitPC
<1>6. ASSUME NEW p \in Proc, pc[p] \in CommitPC
      PROVE  \A q \in Proc : held[q] = None /\ (q # p => pc[q] \notin CommitPC)
  BY <1>C, <1>6, Zenon DEF ControlInv, CommitAlone, Active, OpPC
<1>7. ASSUME NEW p \in Proc, write_log(p) PROVE MemoryInv'
  <2>1. /\ UNCHANGED <<lh, dirty, held, home, boot, head>> /\ boot = "run" /\ tail' = tail + 1
        /\ pc' = [pc EXCEPT ![p] = IF tail = Len(lh) THEN "write_head" ELSE "write_log"]
        /\ buf' = [buf EXCEPT ![lh[tail]] = bread(lh[tail])] /\ pc[p] = "write_log"
    BY <1>T, <1>7, Zenon DEF write_log, Running, TypeOK
  <2>2. \A q \in Proc : held[q] = None /\ (q # p => pc'[q] = pc[q] /\ pc[q] \notin CommitPC)
    BY <1>T, <1>6, <2>1, Zenon DEF CommitPC, TypeOK
  <2>3. tail \in 1..Len(lh) /\ lh[tail] \in dirty /\ lh[tail] \in Block /\ dirty = Entries(lh)
    BY <1>T, <1>M, <1>6, <2>1 DEF MemoryInv, TypeOK, Entries, CommitPC
  <2>4. buf' = buf
    BY <1>T, <1>M, <2>1, <2>3, Zenon DEF bread, MemoryInv, TypeOK
  <2>5. \/ pc'[p] = "write_head" /\ lh # <<>>
        \/ pc'[p] = "write_log" /\ tail' <= Len(lh)
    BY <1>T, <2>1, <2>3 DEF TypeOK
  <2> QED  BY <1>M, <2>1, <2>2, <2>3, <2>4, <2>5 DEF MemoryInv, CommitPC
<1>8. ASSUME NEW p \in Proc, write_head(p) PROVE MemoryInv'
  <2>1. /\ UNCHANGED <<lh, dirty, held, buf, home, boot>> /\ boot = "run" /\ tail' = 1
        /\ pc' = [pc EXCEPT ![p] = "install_trans"] /\ pc[p] = "write_head"
    BY <1>8, Zenon DEF write_head, Running
  <2>2. \A q \in Proc : q # p => pc'[q] = pc[q] /\ pc[q] \notin CommitPC
    BY <1>T, <1>6, <2>1, Zenon DEF CommitPC, TypeOK
  <2>3. dirty = Entries(lh) /\ lh # <<>> /\ Len(lh) \in Nat
    BY <1>T, <1>M, <2>1, <2>2 DEF MemoryInv, CommitPC, TypeOK
  <2>4. pc'[p] = "install_trans" /\ dirty' = {lh'[i] : i \in tail'..Len(lh')} /\ tail' <= Len(lh')
    BY <1>T, <2>1, <2>3 DEF Entries, TypeOK
  <2> QED  BY <1>M, <2>1, <2>2, <2>4 DEF MemoryInv, CommitPC
<1>9. ASSUME Install, tail <= Len(lh), \A q \in Proc : held[q] = None, lh' = lh, held' = held
      PROVE  /\ \A i, j \in 1..Len(lh') : lh'[i] = lh'[j] => i = j
             /\ dirty \in SUBSET Entries(lh) => \A b \in dirty' : buf'[b] # None
             /\ \A b \in Block : (b \notin dirty' /\ buf'[b] # None /\ \A p \in Proc : held'[p] # b)
                                     => buf'[b] = home'[b]
  <2>1. /\ tail \in 1..Len(lh) /\ lh[tail] \in Block /\ tail \in 1..(NLOG - 1)
        /\ logblk[tail] \in Val
    BY <1>T, <1>S, <1>9 DEF TypeOK, SpaceInv, LogNeverFull
  <2>2. /\ buf'[lh[tail]] = logblk[tail] /\ home'[lh[tail]] = logblk[tail]
        /\ \A b \in Block : b # lh[tail] => buf'[b] = buf[b] /\ home'[b] = home[b]
        /\ dirty' = dirty \ {lh[tail]}
    BY <1>T, <1>9, <2>1, Zenon DEF Install, TypeOK
  <2>3. logblk[tail] # None
    BY <2>1, Zenon
  <2> QED  BY <1>T, <1>M, <1>9, <2>1, <2>2, <2>3, ZenonT(30) DEF MemoryInv, TypeOK
<1>10. ASSUME NEW p \in Proc, install_trans(p) PROVE MemoryInv'
  <2>1. /\ UNCHANGED <<lh, held, boot>> /\ boot = "run" /\ tail' = tail + 1
        /\ dirty' = dirty \ {lh[tail]} /\ Install /\ pc[p] = "install_trans"
        /\ pc' = [pc EXCEPT ![p] = IF tail = Len(lh) THEN "clear" ELSE "install_trans"]
    BY <1>T, <1>10, Zenon DEF install_trans, Install, Running, TypeOK
  <2>2. \A q \in Proc : held[q] = None /\ (q # p => pc'[q] = pc[q] /\ pc[q] \notin CommitPC)
    BY <1>T, <1>6, <2>1, Zenon DEF CommitPC, TypeOK
  <2>3. /\ tail \in 1..Len(lh) /\ dirty = {lh[i] : i \in tail..Len(lh)} /\ Len(lh) \in Nat
        /\ \A i, j \in 1..Len(lh) : lh[i] = lh[j] => i = j
    BY <1>T, <1>M, <2>1 DEF MemoryInv, TypeOK
  <2>4. dirty' = {lh[i] : i \in (tail + 1)..Len(lh)}
    BY <2>1, <2>3
  <2>5. \/ pc'[p] = "clear" /\ dirty' = {}
        \/ pc'[p] = "install_trans" /\ tail' <= Len(lh)
    BY <1>T, <2>1, <2>3, <2>4 DEF TypeOK
  <2>6. dirty \in SUBSET Entries(lh)
    BY <2>3 DEF Entries
  <2> QED  BY <1>M, <1>9, <2>1, <2>2, <2>3, <2>4, <2>5, <2>6 DEF MemoryInv, CommitPC
<1>11. ASSUME NEW p \in Proc, clear_log(p) PROVE MemoryInv'
  <2>1. /\ UNCHANGED <<held, buf, dirty, home, boot>> /\ boot = "run" /\ lh' = <<>>
        /\ pc' = [pc EXCEPT ![p] = "done"] /\ pc[p] = "clear"
    BY <1>11, Zenon DEF clear_log, Erase, Running
  <2>2. \A q \in Proc : q # p => pc'[q] = pc[q] /\ pc[q] \notin CommitPC
    BY <1>T, <1>6, <2>1, Zenon DEF CommitPC, TypeOK
  <2>3. dirty' = {} /\ Entries(lh') = {} /\ Len(lh') = 0 /\ pc'[p] = "done"
    BY <1>T, <1>M, <2>1 DEF MemoryInv, Entries, TypeOK
  <2> QED  BY <1>M, <2>1, <2>2, <2>3 DEF MemoryInv, CommitPC
<1>12. ASSUME NEW p \in Proc, commit_done(p) PROVE MemoryInv'
  <2>1. UNCHANGED <<lh, dirty, buf, held, home, boot, head, tail>> /\ pc[p] = "done"
        /\ boot = "run"
    BY <1>12, Zenon DEF commit_done, disk, Running
  <2>2. \A q \in Proc : pc'[q] \notin CommitPC /\ (q # p => pc[q] \notin CommitPC)
    BY <1>T, <1>6, <1>12, <2>1, Zenon DEF commit_done, CommitPC, TypeOK, Wakeup
  <2> QED  BY <1>M, <2>1, <2>2, Zenon DEF MemoryInv, CommitPC
<1>13. ASSUME NEW b \in Block, Fetch(b) \/ Recycle(b) PROVE MemoryInv'
  <2>1. /\ UNCHANGED <<pc, lh, dirty, held, home, boot, head, tail>>
        /\ \/ buf[b] = None /\ buf' = [buf EXCEPT ![b] = home[b]]
           \/ /\ b \notin dirty /\ \A q \in Proc : held[q] # b
              /\ buf' = [buf EXCEPT ![b] = None]
    BY <1>13, Zenon DEF Fetch, Recycle, disk
  <2>2. \A c \in Block : c # b => buf'[c] = buf[c]
    BY <1>T, <2>1, Zenon DEF TypeOK
  <2>3. buf'[b] = None \/ buf'[b] = home[b]
    BY <1>T, <2>1, Zenon DEF TypeOK
  <2>4. \A c \in dirty' : buf'[c] # None
    BY <1>T, <1>M, <2>1, <2>2, Zenon DEF MemoryInv, TypeOK
  <2>5. \A q \in Proc : held'[q] # None => buf'[held'[q]] # None
    BY <1>T, <1>M, <2>1, <2>2 DEF MemoryInv, TypeOK
  <2> QED  BY <1>M, <2>1, <2>2, <2>3, <2>4, <2>5 DEF MemoryInv
<1>14. ASSUME recover_install PROVE MemoryInv'
  <2>1. /\ UNCHANGED <<pc, held, lh, head>> /\ boot # "run" /\ boot' # "run"
        /\ \A q \in Proc : pc[q] = "idle" /\ held[q] = None
    BY <1>C, <1>14, Zenon DEF recover_install, Install, disk, ControlInv
  <2>2. dirty = {} /\ lh = head
    BY <1>M, <2>1, Zenon DEF MemoryInv
  <2>3. CASE tail <= Len(lh)
    <3>1. Install /\ dirty' = {}
      BY <1>14, <2>2, <2>3, Zenon DEF recover_install, Install
    <3> QED  BY <1>M, <1>9, <2>1, <2>2, <2>3, <3>1, Zenon DEF MemoryInv
  <2>4. CASE ~(tail <= Len(lh))
    <3>1. UNCHANGED <<buf, dirty, home, tail>>
      BY <1>14, <2>4, Zenon DEF recover_install, disk
    <3> QED  BY <1>M, <2>1, <2>2, <3>1 DEF MemoryInv
  <2> QED  BY <2>3, <2>4, Zenon
<1>15. ASSUME recover_clear PROVE MemoryInv'
  <2>1. /\ UNCHANGED <<pc, held, buf, dirty, home>> /\ boot # "run" /\ boot' = "run"
        /\ lh' = <<>> /\ \A q \in Proc : pc[q] = "idle" /\ held[q] = None
    BY <1>C, <1>15, Zenon DEF recover_clear, Erase, ControlInv
  <2>2. dirty' = {} /\ Entries(lh') = {} /\ Len(lh') = 0
    BY <1>M, <2>1 DEF MemoryInv, Entries
  <2> QED  BY <1>M, <2>1, <2>2 DEF MemoryInv
<1>16. ASSUME Crash PROVE MemoryInv'
  <2>1. /\ \A q \in Proc : held'[q] = None /\ pc'[q] = "idle"
        /\ \A b \in Block : buf'[b] = None
        /\ dirty' = {} /\ lh' = head /\ head' = head /\ boot' = "install_trans"
    BY <1>16, Zenon DEF Crash, disk
  <2>2. \A i, j \in 1..Len(head) : head[i] = head[j] => i = j
    <3>1. head = <<>> \/ head = lh
      BY Zenon DEF IndInv, DiskInv
    <3>2. \A i, j \in 1..Len(lh) : lh[i] = lh[j] => i = j
      BY <1>M, Zenon DEF MemoryInv
    <3> QED  BY <3>1, <3>2
  <2> QED  BY <2>1, <2>2, Zenon DEF MemoryInv
<1>17. ASSUME UNCHANGED vars PROVE MemoryInv'
  BY <1>M, <1>17 DEF MemoryInv, vars, disk, Entries
<1> QED
  BY <1>1, <1>2, <1>3, <1>4, <1>5, <1>7, <1>8, <1>10, <1>11, <1>12, <1>13, <1>14, <1>15,
     <1>16, <1>17, Zenon DEF Next, Step
-----------------------------------------------------------------------------
(* Disk: a header on the disk describes a complete log *)

\* Every step, a crash included, keeps what is said of the disk.
LEMMA DiskStep ==
    ASSUME CallsFit, IndInv, [Next]_vars
    PROVE  DiskInv'
<1> USE LogConstants
<1>T. TypeOK
  BY Zenon DEF IndInv
<1>C. ControlInv
  BY Zenon DEF IndInv
<1>S. SpaceInv
  BY Zenon DEF IndInv
<1>M. MemoryInv
  BY Zenon DEF IndInv
<1>D. DiskInv
  BY Zenon DEF IndInv
<1>1. ASSUME NEW p \in Proc,
             \/ begin_op(p) \/ log_write_check(p)
             \/ end_op(p) \/ (\E b \in Block, v \in Val : Modify(p, b, v))
      PROVE  DiskInv'
  <2>1. UNCHANGED <<lh, home, head, logblk>> /\ boot = "run" /\ boot' = "run"
    BY <1>C, <1>1, CheckPasses, Zenon DEF begin_op, log_write_check, Modify, end_op, disk, Running,
                            ControlInv, CommitAlone, Active, OpPC
  <2>2. CASE begin_op(p)
    <3>1. UNCHANGED <<buf, tail>>
          /\ \A q \in Proc : pc'[q] \in CommitPC \/ pc[q] \in CommitPC => pc'[q] = pc[q]
      BY <1>T, <2>2 DEF begin_op, TypeOK, CommitPC
    <3> QED  BY <1>D, <2>1, <3>1 DEF DiskInv, CommitPC
  <2>3. CASE ~begin_op(p)
    <3>1. \A q \in Proc : pc[q] \notin CommitPC
      BY <1>C, <1>1, <2>3, Zenon DEF log_write_check, Modify, end_op, ControlInv, CommitAlone,
                              Active, OpPC
    <3>2. head = <<>>
      BY <1>D, <2>1, <3>1, Zenon DEF DiskInv, CommitPC
    <3>3. \A q \in Proc : pc'[q] \in CommitPC =>
             pc'[q] \in {"write_log", "done"} /\ tail' = 1
      <4>1. CASE end_op(p)
        BY <1>T, <3>1, <4>1, Zenon DEF end_op, TypeOK, CommitPC, Wakeup
      <4>2. CASE log_write_check(p)
        BY <1>T, <3>1, <4>2, Zenon DEF log_write_check, TypeOK, CommitPC
      <4>3. CASE \E b \in Block, v \in Val : Modify(p, b, v)
        BY <1>T, <3>1, <4>3 DEF Modify, TypeOK, CommitPC
      <4> QED  BY <1>1, <2>3, <4>1, <4>2, <4>3, Zenon
    <3> QED  BY <1>D, <2>1, <3>2, <3>3 DEF DiskInv, CommitPC
  <2> QED  BY <2>2, <2>3, Zenon
<1>2. ASSUME NEW p \in Proc, log_write(p) PROVE DiskInv'
  <2>1. /\ UNCHANGED head /\ boot = "run" /\ boot' = "run"
        /\ \A q \in Proc : pc[q] \notin CommitPC /\ pc'[q] \notin CommitPC
    BY <1>T, <1>C, <1>2, Zenon DEF log_write, disk, Running, TypeOK, CommitPC, ControlInv, CommitAlone,
                      Active, OpPC
  <2>2. head = <<>>
    BY <1>D, <2>1, Zenon DEF DiskInv, CommitPC
  <2> QED  BY <2>1, <2>2, Zenon DEF DiskInv, CommitPC
<1>3. ASSUME NEW p \in Proc, pc[p] \in CommitPC
      PROVE  \A q \in Proc : q # p => pc[q] \notin CommitPC
  BY <1>C, <1>3, Zenon DEF ControlInv, CommitAlone
<1>4. ASSUME NEW p \in Proc, write_log(p) PROVE DiskInv'
  <2>1. /\ UNCHANGED <<lh, home, head, boot>> /\ boot = "run" /\ tail' = tail + 1
        /\ pc' = [pc EXCEPT ![p] = IF tail = Len(lh) THEN "write_head" ELSE "write_log"]
        /\ buf' = [buf EXCEPT ![lh[tail]] = bread(lh[tail])] /\ pc[p] = "write_log"
        /\ logblk' = [logblk EXCEPT ![tail] = bread(lh[tail])]
    BY <1>T, <1>4, Zenon DEF write_log, Running, TypeOK
  <2>2. \A q \in Proc : q # p => pc'[q] = pc[q] /\ pc[q] \notin CommitPC
    BY <1>T, <1>3, <2>1, Zenon DEF CommitPC, TypeOK
  <2>3. /\ tail \in 1..Len(lh) /\ lh[tail] \in Block /\ tail \in 1..(NLOG - 1)
        /\ Len(lh) <= NLOG - 1 /\ Len(lh) \in Nat
    BY <1>T, <1>S, <1>M, <2>1 DEF MemoryInv, TypeOK, SpaceInv, LogNeverFull
  <2>4. lh[tail] \in dirty
    BY <1>M, <2>1, <2>2, <2>3 DEF MemoryInv, Entries, CommitPC
  <2>5. buf' = buf /\ bread(lh[tail]) = buf[lh[tail]]
    BY <1>T, <1>M, <2>1, <2>3, <2>4, Zenon DEF bread, MemoryInv, TypeOK
  <2>6. \A i \in 1..Len(lh) : i < tail' => logblk'[i] = buf'[lh'[i]]
    BY <1>T, <1>D, <2>1, <2>3, <2>5 DEF DiskInv, TypeOK
  <2>7. head = <<>> /\ pc'[p] \in {"write_head", "write_log"}
        /\ (pc'[p] = "write_head" => tail = Len(lh))
    BY <1>T, <1>D, <2>1, <2>2, Zenon DEF DiskInv, TypeOK, CommitPC
  <2>8. pc'[p] = "write_head" => \A i \in 1..Len(lh) : i < tail'
    BY <2>1, <2>3, <2>7
  <2> QED  BY <2>1, <2>2, <2>6, <2>7, <2>8 DEF DiskInv, CommitPC
<1>5. ASSUME NEW p \in Proc, write_head(p) PROVE DiskInv'
  <2>1. /\ UNCHANGED <<lh, buf, home, boot, logblk>> /\ boot = "run" /\ tail' = 1 /\ head' = lh
        /\ pc' = [pc EXCEPT ![p] = "install_trans"] /\ pc[p] = "write_head"
    BY <1>5, Zenon DEF write_head, Running
  <2>2. \A q \in Proc : q # p => pc'[q] = pc[q] /\ pc[q] \notin CommitPC
    BY <1>T, <1>3, <2>1, Zenon DEF CommitPC, TypeOK
  <2>3. pc'[p] = "install_trans" /\ \A i \in 1..Len(lh) : ~(i < tail')
    BY <1>T, <2>1 DEF TypeOK
  <2> QED  BY <1>D, <2>1, <2>2, <2>3 DEF DiskInv, CommitPC
<1>6. ASSUME Install, tail <= Len(lh), lh' = lh,
             \A i \in 1..Len(lh) : i < tail => home[lh[i]] = logblk[i]
      PROVE  \A i \in 1..Len(lh) : IF i < tail' THEN home'[lh'[i]] = logblk'[i]
                                               ELSE buf'[lh'[i]] = buf[lh[i]]
  <2>1. /\ tail \in 1..Len(lh) /\ \A i \in 1..Len(lh) : lh[i] \in Block
        /\ \A i, j \in 1..Len(lh) : lh[i] = lh[j] => i = j
        /\ tail' = tail + 1 /\ Len(lh) \in Nat /\ logblk' = logblk
        /\ home' = [home EXCEPT ![lh[tail]] = logblk[tail]]
        /\ buf' = [buf EXCEPT ![lh[tail]] = logblk[tail]]
    BY <1>T, <1>M, <1>6 DEF TypeOK, MemoryInv, Install
  <2>2. ASSUME NEW i \in 1..Len(lh), i # tail
        PROVE  home'[lh[i]] = home[lh[i]] /\ buf'[lh[i]] = buf[lh[i]]
    BY <1>T, <2>1, <2>2, Zenon DEF TypeOK
  <2>3. home'[lh[tail]] = logblk[tail]
    BY <1>T, <2>1, Zenon DEF TypeOK
  <2> QED  BY <1>6, <2>1, <2>2, <2>3
<1>7. ASSUME NEW p \in Proc, install_trans(p) PROVE DiskInv'
  <2>1. /\ UNCHANGED <<lh, boot, head, logblk>> /\ boot = "run" /\ tail' = tail + 1
        /\ Install /\ pc[p] = "install_trans"
        /\ pc' = [pc EXCEPT ![p] = IF tail = Len(lh) THEN "clear" ELSE "install_trans"]
    BY <1>T, <1>7, Zenon DEF install_trans, Install, Running, TypeOK
  <2>2. \A q \in Proc : q # p => pc'[q] = pc[q] /\ pc[q] \notin CommitPC
    BY <1>T, <1>3, <2>1, Zenon DEF CommitPC, TypeOK
  <2>3. /\ tail \in 1..Len(lh) /\ Len(lh) \in Nat /\ head = lh
        /\ \A i \in 1..Len(lh) : IF i < tail THEN home[lh[i]] = logblk[i]
                                             ELSE logblk[i] = buf[lh[i]]
    BY <1>T, <1>M, <1>D, <2>1 DEF MemoryInv, DiskInv, TypeOK
  <2>4. \A i \in 1..Len(lh) : IF i < tail' THEN home'[lh'[i]] = logblk'[i]
                                           ELSE logblk'[i] = buf'[lh'[i]]
    BY <1>6, <2>1, <2>3
  <2>5. pc'[p] \in {"clear", "install_trans"}
        /\ (pc'[p] = "clear" => \A i \in 1..Len(lh) : i < tail')
    BY <1>T, <2>1, <2>3 DEF TypeOK
  <2> QED  BY <2>1, <2>2, <2>3, <2>4, <2>5 DEF DiskInv, CommitPC
<1>8. ASSUME NEW p \in Proc, clear_log(p) PROVE DiskInv'
  <2>1. /\ boot = "run" /\ boot' = "run" /\ head' = <<>>
        /\ pc' = [pc EXCEPT ![p] = "done"] /\ pc[p] = "clear"
    BY <1>8, Zenon DEF clear_log, Erase, Running
  <2>2. \A q \in Proc : q # p => pc'[q] = pc[q] /\ pc[q] \notin CommitPC
    BY <1>T, <1>3, <2>1, Zenon DEF CommitPC, TypeOK
  <2>3. pc'[p] = "done"
    BY <1>T, <2>1, Zenon DEF TypeOK
  <2> QED  BY <2>1, <2>2, <2>3, Zenon DEF DiskInv, CommitPC
<1>9. ASSUME NEW p \in Proc, commit_done(p) PROVE DiskInv'
  <2>1. UNCHANGED <<lh, head, boot>> /\ pc[p] = "done" /\ boot = "run"
    BY <1>9, Zenon DEF commit_done, disk, Running
  <2>2. \A q \in Proc : pc'[q] \notin CommitPC /\ (q # p => pc[q] \notin CommitPC)
    BY <1>T, <1>3, <1>9, <2>1, Zenon DEF commit_done, CommitPC, TypeOK, Wakeup
  <2> QED  BY <1>D, <2>1, <2>2, Zenon DEF DiskInv, CommitPC
<1>10. ASSUME NEW b \in Block, Fetch(b) \/ Recycle(b) PROVE DiskInv'
  <2>1. /\ UNCHANGED <<pc, lh, head, home, logblk, boot, tail, dirty>> /\ boot = "run"
        /\ b \notin dirty
        /\ \E x : buf' = [buf EXCEPT ![b] = x]
    BY <1>M, <1>10, Zenon DEF Fetch, Recycle, disk, Running, MemoryInv
  <2>2. \A c \in dirty : buf'[c] = buf[c]
    BY <1>T, <2>1, Zenon DEF TypeOK
  <2>3. ASSUME NEW p \in Proc, pc[p] \in {"write_log", "write_head", "install_trans"},
               NEW i \in 1..Len(lh), pc[p] = "install_trans" => ~(i < tail)
        PROVE  lh[i] \in dirty
    <3>1. CASE pc[p] = "install_trans"
      BY <1>T, <1>M, <2>3, <3>1 DEF MemoryInv, TypeOK
    <3>2. CASE pc[p] # "install_trans"
      <4>1. \A q \in Proc : pc[q] \notin {"install_trans", "clear"}
        BY <1>3, <2>3, <3>2, Zenon DEF CommitPC
      <4> QED  BY <1>M, <2>1, <4>1 DEF MemoryInv, Entries
    <3> QED  BY <3>1, <3>2, Zenon
  <2>4. ASSUME NEW p \in Proc, pc[p] \in {"write_log", "write_head", "install_trans"},
               NEW i \in 1..Len(lh), pc[p] = "install_trans" => ~(i < tail)
        PROVE  buf'[lh[i]] = buf[lh[i]]
    BY <2>2, <2>3, <2>4, Zenon
  <2>5. ASSUME NEW p \in Proc
        PROVE  /\ pc[p] = "write_log" =>
                     \A i \in 1..Len(lh) : i < tail => logblk[i] = buf'[lh[i]]
               /\ pc[p] = "write_head" => \A i \in 1..Len(lh) : logblk[i] = buf'[lh[i]]
               /\ pc[p] = "install_trans" =>
                     \A i \in 1..Len(lh) : ~(i < tail) => logblk[i] = buf'[lh[i]]
    BY <1>D, <2>4 DEF DiskInv
  <2> QED  BY <1>D, <2>1, <2>5, Zenon DEF DiskInv
<1>11. ASSUME recover_install PROVE DiskInv'
  <2>1. /\ UNCHANGED <<pc, lh, head, logblk>> /\ boot = "install_trans" /\ boot' # "run"
        /\ \A q \in Proc : pc[q] = "idle"
    BY <1>C, <1>11, Zenon DEF recover_install, Install, disk, ControlInv
  <2>2. CASE tail <= Len(lh)
    <3>1. Install /\ boot' = boot
      BY <1>11, <2>2, Zenon DEF recover_install
    <3> QED  BY <1>D, <1>6, <2>1, <2>2, <3>1, Zenon DEF DiskInv
  <2>3. CASE ~(tail <= Len(lh))
    <3>1. UNCHANGED home /\ boot' = "clear" /\ \A i \in 1..Len(lh) : i < tail
      BY <1>T, <1>11, <2>3 DEF recover_install, disk, TypeOK
    <3> QED  BY <1>D, <2>1, <3>1, Zenon DEF DiskInv
  <2> QED  BY <2>2, <2>3, Zenon
<1>12. ASSUME recover_clear PROVE DiskInv'
  <2>1. head' = <<>> /\ boot' = "run" /\ \A q \in Proc : pc'[q] = "idle"
    BY <1>C, <1>12, Zenon DEF recover_clear, Erase, ControlInv
  <2> QED  BY <2>1, Zenon DEF DiskInv
<1>13. ASSUME Crash PROVE DiskInv'
  <2>1. /\ \A q \in Proc : pc'[q] = "idle"
        /\ lh' = head /\ head' = head /\ boot' = "install_trans" /\ tail' = 1
    BY <1>13, Zenon DEF Crash, disk
  <2>2. \A i \in 1..Len(lh') : ~(i < tail')
    BY <1>T, <2>1 DEF TypeOK
  <2> QED  BY <2>1, <2>2, Zenon DEF DiskInv
<1>14. ASSUME UNCHANGED vars PROVE DiskInv'
  BY <1>D, <1>14, Zenon DEF DiskInv, vars, disk
<1> QED
  BY <1>1, <1>2, <1>4, <1>5, <1>7, <1>8, <1>9, <1>10, <1>11, <1>12, <1>13, <1>14, Zenon
     DEF Next, Step
-----------------------------------------------------------------------------
(* The invariant *)

\* Every reachable state of the log satisfies the inductive invariant: counts,
\* reservations, pinned buffers and the header agree (log.c:125-233).
THEOREM LogInvariant ==
    ASSUME CallsFit
    PROVE  Spec => []IndInv
<1>1. Init => IndInv
  BY InitIndInv, Zenon
<1>2. IndInv /\ [Next]_vars => IndInv'
  BY TypeStep, ControlStep, SpaceStep, MemoryStep, DiskStep, Zenon DEF IndInv
<1> QED  BY <1>1, <1>2, PTL DEF Spec

\* A call that logs at most MAXOPBLOCKS - 2 blocks never makes log_write panic
\* and never overruns the on-disk log (log.c:132 and log.c:218).
THEOREM LogSpaceSuffices ==
    ASSUME CallsFit
    PROVE  Spec => []LogNeverFull
<1>1. IndInv => LogNeverFull
  BY Zenon DEF IndInv, SpaceInv
<1> QED  BY <1>1, LogInvariant, PTL

\* While a process commits, no file system call and no other commit is in
\* progress (log.committing in begin_op and end_op, log.c:130 and log.c:152).
THEOREM CommitIsAlone ==
    ASSUME CallsFit
    PROVE  Spec => []CommitAlone
<1>1. IndInv => CommitAlone
  BY Zenon DEF IndInv, ControlInv
<1> QED  BY <1>1, LogInvariant, PTL

\* Between log_write and install_trans a block is pinned in the cache, and any
\* other cached copy that nobody is modifying is the disk's (bio.c, log.c:72-86).
THEOREM CacheIsCoherent ==
    ASSUME CallsFit
    PROVE  Spec => []CacheCoherent
<1>1. IndInv => CacheCoherent
  <2> SUFFICES ASSUME IndInv, boot = "run", NEW b \in Block
               PROVE  /\ b \in dirty => b \in Entries(lh) /\ buf[b] # None
                      /\ (b \notin dirty /\ buf[b] # None /\ \A p \in Proc : held[p] # b)
                            => buf[b] = home[b]
    BY Zenon DEF CacheCoherent
  <2>1. MemoryInv /\ tail \in Nat \ {0}
    BY Zenon DEF IndInv, TypeOK
  <2>2. ASSUME b \in dirty PROVE b \in Entries(lh)
    <3>1. CASE \A p \in Proc : pc[p] \notin {"install_trans", "clear"}
      BY <2>1, <2>2, <3>1, Zenon DEF MemoryInv
    <3>2. ASSUME NEW p \in Proc, pc[p] = "install_trans" PROVE b \in Entries(lh)
      <4>1. PICK i \in tail..Len(lh) : b = lh[i]
        BY <2>1, <2>2, <3>2 DEF MemoryInv
      <4>2. Len(lh) \in Nat
        BY DEF IndInv, TypeOK
      <4>3. i \in 1..Len(lh)
        BY <2>1, <4>1, <4>2
      <4> QED  BY <4>1, <4>3, Zenon DEF Entries
    <3>3. ASSUME NEW p \in Proc, pc[p] = "clear" PROVE FALSE
      BY <2>1, <2>2, <3>3, Zenon DEF MemoryInv
    <3> QED  BY <3>1, <3>2, <3>3, Zenon
  <2> QED  BY <2>1, <2>2, Zenon DEF MemoryInv
<1> QED  BY <1>1, LogInvariant, PTL
-----------------------------------------------------------------------------
(* Sleepers in begin_op *)

\* begin_op sets MAXOPBLOCKS aside for one more call: the sum only grows.
LEMMA OneMoreCall ==
    ASSUME NEW n \in Nat, NEW m \in Nat
    PROVE  (n + 1 + 1) * m >= (n + 1) * m /\ (n + 1) * m \in Nat
  OBVIOUS

\* A step that ends every reason to wait wakes every sleeper.
LEMMA SleepersStep ==
    ASSUME CallsFit, IndInv, SleepersMustWait, [Next]_vars
    PROVE  SleepersMustWait'
<1> USE LogConstants
<1>T. TypeOK
  BY Zenon DEF IndInv
<1>C. ControlInv
  BY Zenon DEF IndInv
<1>1. ASSUME NEW p \in Proc, begin_op(p) PROVE SleepersMustWait'
  <2>1. UNCHANGED <<lh, committing>>
    BY <1>1, Zenon DEF begin_op
  <2>2. CASE MustWait /\ UNCHANGED outstanding
    BY <2>1, <2>2, Zenon DEF SleepersMustWait, MustWait
  <2>3. CASE outstanding' = outstanding + 1 /\ pc' = [pc EXCEPT ![p] = "op"]
    <3>1. \A q \in Proc : pc'[q] = "sleep" => pc[q] = "sleep"
      BY <1>T, <2>3, Zenon DEF TypeOK
    <3>2. MustWait => MustWait'
      <4>1. outstanding \in Nat /\ MAXOPBLOCKS \in Nat /\ LOGSIZE \in Nat /\ Len(lh) \in Nat
        BY <1>T DEF TypeOK
      <4>2. /\ (outstanding + 1 + 1) * MAXOPBLOCKS >= (outstanding + 1) * MAXOPBLOCKS
            /\ (outstanding + 1) * MAXOPBLOCKS \in Nat
        BY <4>1, OneMoreCall, Zenon
      <4>3. (outstanding + 1 + 1) * MAXOPBLOCKS \in Nat
        BY <4>1, OneMoreCall
      <4> DEFINE a == (outstanding + 1) * MAXOPBLOCKS
                 b == (outstanding + 1 + 1) * MAXOPBLOCKS
      <4>4. b >= a /\ a \in Nat /\ b \in Nat
        BY <4>2, <4>3, Zenon
      <4>5. (MustWait <=> committing = 1 \/ Len(lh) + a > LOGSIZE)
            /\ (MustWait' <=> committing = 1 \/ Len(lh) + b > LOGSIZE)
        BY <2>1, <2>3, Zenon DEF MustWait
      <4> HIDE DEF a, b
      <4> QED  BY <4>1, <4>4, <4>5
    <3> QED  BY <3>1, <3>2, Zenon DEF SleepersMustWait
  <2> QED  BY <1>1, <2>2, <2>3, Zenon DEF begin_op
<1>2. ASSUME NEW p \in Proc, NEW b \in Block, NEW v \in Val, Modify(p, b, v)
      PROVE  SleepersMustWait'
  BY <1>T, <1>2, Zenon DEF Modify, SleepersMustWait, MustWait, TypeOK
<1>3. ASSUME NEW p \in Proc, log_write_check(p) PROVE SleepersMustWait'
  BY <1>T, <1>3, Zenon DEF log_write_check, SleepersMustWait, MustWait, TypeOK
<1>4. ASSUME NEW p \in Proc, log_write(p) PROVE SleepersMustWait'
  <2>1. \A q \in Proc : pc'[q] = "sleep" => pc[q] = "sleep"
    BY <1>T, <1>4, Zenon DEF log_write, TypeOK
  <2>2. UNCHANGED <<outstanding, committing>> /\ lh' = Absorb(lh, held[p]) /\ held[p] \in Block
    BY <1>T, <1>C, <1>4, Zenon DEF log_write, ControlInv, TypeOK
  <2>3. Len(lh') >= Len(lh) /\ Len(lh) \in Nat /\ Len(lh') \in Nat
    <3>1. lh \in Seq(Block)
      BY <1>T, Zenon DEF TypeOK
    <3>2. Len(Append(lh, held[p])) = Len(lh) + 1 /\ Len(lh) \in Nat
      BY <2>2, <3>1
    <3> QED  BY <2>2, <3>2 DEF Absorb
  <2>4. (outstanding + 1) * MAXOPBLOCKS \in Nat /\ LOGSIZE \in Nat
    BY <1>T, OneMoreCall, Zenon DEF TypeOK
  <2> DEFINE a == (outstanding + 1) * MAXOPBLOCKS
  <2>5. (MustWait <=> committing = 1 \/ Len(lh) + a > LOGSIZE)
        /\ (MustWait' <=> committing = 1 \/ Len(lh') + a > LOGSIZE)
    BY <2>2, Zenon DEF MustWait
  <2>6. a \in Nat
    BY <2>4, Zenon
  <2> HIDE DEF a
  <2>7. MustWait => MustWait'
    BY <2>3, <2>4, <2>5, <2>6
  <2> QED  BY <2>1, <2>7, Zenon DEF SleepersMustWait
<1>5. ASSUME NEW p \in Proc, end_op(p) PROVE SleepersMustWait'
  <2>1. committing # 1
    BY <1>C, <1>5, Zenon DEF end_op, ControlInv, CommitAlone, Active, OpPC
  <2>2. CASE outstanding = 1
    BY <1>5, <2>1, <2>2, Zenon DEF end_op, SleepersMustWait, MustWait
  <2>3. CASE outstanding # 1
    <3>1. pc' = Wakeup([pc EXCEPT ![p] = "idle"])
      BY <1>5, <2>1, <2>3, Zenon DEF end_op
    <3>2. \A q \in Proc : pc'[q] # "sleep"
      BY <1>T, <3>1, Zenon DEF Wakeup, TypeOK
    <3> QED  BY <3>2, Zenon DEF SleepersMustWait
  <2> QED  BY <2>2, <2>3, Zenon
<1>6. ASSUME NEW p \in Proc, commit_done(p) PROVE SleepersMustWait'
  BY <1>T, <1>6, Zenon DEF commit_done, Wakeup, SleepersMustWait, TypeOK
<1>7. ASSUME NEW p \in Proc,
             write_log(p) \/ write_head(p) \/ install_trans(p) \/ clear_log(p)
      PROVE  SleepersMustWait'
  <2>1. committing' = 1
    BY <1>C, <1>7, Zenon DEF write_log, write_head, install_trans, clear_log, ControlInv, CommitPC
  <2> QED  BY <2>1, Zenon DEF SleepersMustWait, MustWait
<1>8. ASSUME NEW b \in Block, Fetch(b) \/ Recycle(b) PROVE SleepersMustWait'
  BY <1>8, Zenon DEF Fetch, Recycle, SleepersMustWait, MustWait
<1>9. ASSUME recover_install \/ recover_clear PROVE SleepersMustWait'
  <2>1. \A q \in Proc : pc'[q] = "idle"
    BY <1>C, <1>9, Zenon DEF recover_install, recover_clear, ControlInv
  <2> QED  BY <2>1, Zenon DEF SleepersMustWait
<1>10. ASSUME Crash PROVE SleepersMustWait'
  BY <1>10, Zenon DEF Crash, SleepersMustWait
<1>11. ASSUME UNCHANGED vars PROVE SleepersMustWait'
  BY <1>11, Zenon DEF vars, SleepersMustWait, MustWait
<1> QED
  BY <1>1, <1>2, <1>3, <1>4, <1>5, <1>6, <1>7, <1>8, <1>9, <1>10, <1>11 DEF Next, Step

\* A process sleeps in begin_op only while it has a reason to: end_op and the
\* end of a commit wake every sleeper whose wait they end (log.c:152-176).
THEOREM NobodyLeftAsleep ==
    ASSUME CallsFit
    PROVE  Spec => []SleepersMustWait
<1>1. Init => SleepersMustWait
  BY Zenon DEF Init, SleepersMustWait
<1>2. IndInv /\ SleepersMustWait /\ [Next]_vars => SleepersMustWait'
  BY SleepersStep, Zenon
<1> QED  BY <1>1, <1>2, LogInvariant, PTL DEF Spec
-----------------------------------------------------------------------------
(* Refinement: the log implements AtomicDisk *)

\* What a reboot makes of the disk: without a header the home blocks, with
\* one the logged copies.
LEMMA StableIs ==
    TypeOK /\ MemoryInv /\ DiskInv =>
        /\ head = <<>> => Stable = home
        /\ \A i \in 1..Len(head) : Stable[head[i]] = logblk[i]
        /\ \A b \in Block : b \notin Entries(head) => Stable[b] = home[b]
<1> SUFFICES ASSUME TypeOK, MemoryInv, DiskInv
             PROVE  /\ head = <<>> => Stable = home
                    /\ \A i \in 1..Len(head) : Stable[head[i]] = logblk[i]
                    /\ \A b \in Block : b \notin Entries(head) => Stable[b] = home[b]
  BY Zenon
<1>1. \A i, j \in 1..Len(head) : head[i] = head[j] => i = j
  BY DEF MemoryInv, DiskInv
<1>2. head \in Seq(Block) /\ home \in [Block -> Val]
  BY Zenon DEF TypeOK
<1>3. ASSUME NEW i \in 1..Len(head) PROVE LoggedAt(head[i]) = i
  BY <1>1, Zenon DEF LoggedAt
<1>4. \A i \in 1..Len(head) : head[i] \in Block /\ head[i] \in Entries(head)
  BY <1>2 DEF Entries
<1>5. \A i \in 1..Len(head) : Stable[head[i]] = logblk[i]
  BY <1>3, <1>4, Zenon DEF Stable
<1>6. head = <<>> => Entries(head) = {}
  BY DEF Entries
<1>7. head = <<>> => Stable = home
  BY <1>2, <1>6, Zenon DEF Stable
<1> QED  BY <1>5, <1>7, Zenon DEF Stable

\* Every step of the log is a step of AtomicDisk, or none.
LEMMA RefinementStep ==
    ASSUME CallsFit, IndInv, IndInv', [Next]_vars
    PROVE  [AD!Next]_(AD!vars)
<1> USE LogConstants
<1>T. TypeOK
  BY Zenon DEF IndInv
<1>C. ControlInv
  BY Zenon DEF IndInv
<1>S. SpaceInv
  BY Zenon DEF IndInv
<1>M. MemoryInv
  BY Zenon DEF IndInv
<1>D. DiskInv
  BY Zenon DEF IndInv
<1>a. /\ head = <<>> => Stable = home
      /\ \A i \in 1..Len(head) : Stable[head[i]] = logblk[i]
      /\ \A b \in Block : b \notin Entries(head) => Stable[b] = home[b]
  BY <1>T, <1>M, <1>D, StableIs, Zenon
<1>b. /\ head' = <<>> => Stable' = home'
      /\ \A i \in 1..Len(head') : Stable'[head'[i]] = logblk'[i]
      /\ \A b \in Block : b \notin Entries(head') => Stable'[b] = home'[b]
  <2>1. (TypeOK /\ MemoryInv /\ DiskInv =>
            /\ head = <<>> => Stable = home
            /\ \A i \in 1..Len(head) : Stable[head[i]] = logblk[i]
            /\ \A b \in Block : b \notin Entries(head) => Stable[b] = home[b])'
    BY StableIs, PTL
  <2> QED  BY <2>1, Zenon DEF IndInv
<1>c. ASSUME UNCHANGED <<home, head, logblk>> PROVE Stable' = Stable
  BY <1>c DEF Stable, LoggedAt
<1>d. ASSUME boot = "run", boot' = "run", \A b \in Block : bread(b)' = bread(b)
      PROVE  Cur' = Cur
  BY <1>d, Zenon DEF Cur
<1>1. ASSUME NEW p \in Proc, begin_op(p) PROVE [AD!Next]_(AD!vars)
  <2>1. Stable' = Stable
    BY <1>1, <1>c, Zenon DEF begin_op, disk
  <2>2. Cur' = Cur
    BY <1>1, <1>d, Zenon DEF begin_op, disk, bread, Running
  <2>3. Active' = Active \/ (p \notin Active /\ Active' = Active \cup {p})
    BY <1>T, <1>1 DEF begin_op, Active, TypeOK, OpPC
  <2> QED  BY <2>1, <2>2, <2>3, Zenon DEF AD!Next, AD!Begin, AD!vars
<1>2. ASSUME NEW p \in Proc, NEW b \in Block, NEW v \in Val, Modify(p, b, v)
      PROVE  [AD!Next]_(AD!vars)
  <2>1. Stable' = Stable
    BY <1>2, <1>c, Zenon DEF Modify, disk
  <2>2. Active' = Active /\ p \in Active
    BY <1>T, <1>2, Zenon DEF Modify, Active, TypeOK, OpPC
  <2>3. v # None
    BY Zenon
  <2>4. \A c \in Block : bread(c)' = IF c = b THEN v ELSE bread(c)
    BY <1>T, <1>2, <2>3, Zenon DEF Modify, disk, bread, TypeOK
  <2>5. Cur' = [Cur EXCEPT ![b] = v]
    BY <1>2, <2>4, Zenon DEF Modify, Running, Cur
  <2>6. AD!Write(p, b, v)
    BY <2>1, <2>2, <2>5, Zenon DEF AD!Write
  <2> QED  BY <2>6, Zenon DEF AD!Next
<1>3. ASSUME NEW p \in Proc, log_write_check(p) \/ log_write(p) PROVE [AD!Next]_(AD!vars)
  <2>1. Stable' = Stable
    BY <1>3, <1>c, Zenon DEF log_write_check, log_write, disk
  <2>2. Active' = Active
    BY <1>T, <1>3, Zenon DEF log_write_check, log_write, Active, TypeOK, OpPC
  <2>3. boot = "run" /\ boot' = "run" /\ buf' = buf /\ home' = home
    BY <1>3, CheckPasses, Zenon DEF log_write_check, log_write, Running, disk
  <2>4. Cur' = Cur
    BY <1>d, <2>3, Zenon DEF bread
  <2> QED  BY <2>1, <2>2, <2>4, Zenon DEF AD!vars
<1>4. ASSUME NEW p \in Proc, end_op(p) PROVE [AD!Next]_(AD!vars)
  <2>1. Stable' = Stable
    BY <1>4, <1>c, Zenon DEF end_op, disk
  <2>2. boot = "run" /\ boot' = "run" /\ buf' = buf /\ home' = home /\ committing # 1
    BY <1>C, <1>4, Zenon DEF end_op, disk, Running, ControlInv, CommitAlone, Active, OpPC
  <2>3. p \in Active /\ Active' = Active \ {p}
    BY <1>T, <1>4, <2>2, Zenon DEF end_op, Active, TypeOK, OpPC, Wakeup
  <2>4. Cur' = Cur
    BY <1>d, <2>2, Zenon DEF bread
  <2> QED  BY <2>1, <2>3, <2>4, Zenon DEF AD!Next, AD!End
<1>5. ASSUME NEW p \in Proc, pc[p] \in CommitPC
      PROVE  \A q \in Proc : held[q] = None /\ (q # p => pc[q] \notin CommitPC)
  BY <1>C, <1>5, Zenon DEF ControlInv, CommitAlone, Active, OpPC
<1>6. ASSUME NEW p \in Proc, write_log(p) PROVE [AD!Next]_(AD!vars)
  <2>1. /\ boot = "run" /\ boot' = "run" /\ pc[p] = "write_log"
        /\ UNCHANGED <<home, head>> /\ tail \in 1..Len(lh) /\ lh[tail] \in Block
        /\ buf' = [buf EXCEPT ![lh[tail]] = bread(lh[tail])]
    BY <1>T, <1>M, <1>6 DEF write_log, Running, MemoryInv, TypeOK
  <2>2. head = <<>>
    BY <1>D, <1>5, <2>1, Zenon DEF DiskInv, CommitPC
  <2>3. Stable' = Stable
    BY <1>a, <1>b, <2>1, <2>2, Zenon
  <2>4. \A b \in Block : bread(b)' = bread(b)
    BY <1>T, <2>1, Zenon DEF bread, TypeOK
  <2>5. Active' = Active
    BY <1>T, <1>6, Zenon DEF write_log, Active, TypeOK, OpPC
  <2> QED  BY <1>d, <2>1, <2>3, <2>4, <2>5, Zenon DEF AD!vars
<1>7. ASSUME NEW p \in Proc, write_head(p) PROVE [AD!Next]_(AD!vars)
  <2>1. /\ boot = "run" /\ boot' = "run" /\ pc[p] = "write_head" /\ head' = lh
        /\ UNCHANGED <<home, logblk, buf, lh>>
    BY <1>7, Zenon DEF write_head, Running
  <2>2. Active = {} /\ Active' = Active
    BY <1>T, <1>C, <1>7 DEF write_head, Active, TypeOK, OpPC, CommitPC, ControlInv, CommitAlone
  <2>3. Cur' = Cur
    BY <1>d, <2>1, Zenon DEF bread
  <2>4. \A q \in Proc : pc[q] \notin {"install_trans", "clear"} /\ held[q] = None
    BY <1>5, <2>1, Zenon DEF CommitPC
  <2>5. dirty = Entries(lh)
    BY <1>M, <2>1, <2>4, Zenon DEF MemoryInv
  <2>6. ASSUME NEW b \in Block PROVE Stable'[b] = bread(b)
    <3>1. CASE b \in Entries(lh)
      <4>1. PICK i \in 1..Len(lh) : b = lh[i]
        BY <3>1, Zenon DEF Entries
      <4>2. Stable'[b] = logblk[i]
        BY <1>b, <2>1, <4>1, Zenon
      <4>3. logblk[i] = buf[b] /\ buf[b] # None
        BY <1>M, <1>D, <2>1, <2>5, <3>1, <4>1, Zenon DEF DiskInv, MemoryInv
      <4> QED  BY <4>2, <4>3, Zenon DEF bread
    <3>2. CASE b \notin Entries(lh)
      <4>1. Stable'[b] = home[b]
        BY <1>b, <2>1, <3>2, Zenon
      <4>2. buf[b] # None => buf[b] = home[b]
        <5>1. b \notin dirty /\ \A q \in Proc : held[q] # b
          BY <2>4, <2>5, <3>2, Zenon
        <5> QED  BY <1>M, <5>1, Zenon DEF MemoryInv
      <4> QED  BY <4>1, <4>2, Zenon DEF bread
    <3> QED  BY <3>1, <3>2, Zenon
  <2>7. Stable' = Cur
    BY <2>1, <2>6, Zenon DEF Cur, Stable
  <2>8. AD!Commit
    BY <2>2, <2>3, <2>7, Zenon DEF AD!Commit
  <2> QED  BY <2>8, Zenon DEF AD!Next
<1>8. ASSUME Install, lh' = lh, head = lh, tail <= Len(lh) PROVE Stable' = Stable
  <2>1. /\ tail \in 1..Len(lh) /\ lh[tail] \in Block /\ lh[tail] \in Entries(head)
        /\ head' = head /\ logblk' = logblk
        /\ home' = [home EXCEPT ![lh[tail]] = logblk[tail]]
    BY <1>T, <1>8 DEF TypeOK, Install, Entries
  <2>2. \A b \in Block : b \notin Entries(head) => home'[b] = home[b]
    BY <1>T, <2>1, Zenon DEF TypeOK
  <2> QED  BY <2>1, <2>2 DEF Stable, LoggedAt
<1>9. ASSUME NEW p \in Proc, install_trans(p) PROVE [AD!Next]_(AD!vars)
  <2>1. /\ boot = "run" /\ boot' = "run" /\ pc[p] = "install_trans" /\ Install /\ lh' = lh
    BY <1>9, Zenon DEF install_trans, Running
  <2>2. head = lh /\ tail \in 1..Len(lh) /\ lh[tail] \in Block
    BY <1>T, <1>M, <1>D, <2>1 DEF DiskInv, MemoryInv, TypeOK
  <2>3. logblk[tail] = buf[lh[tail]] /\ buf[lh[tail]] # None
    <3>1. lh[tail] \in dirty /\ ~(tail < tail)
      BY <1>T, <1>M, <2>1, <2>2 DEF MemoryInv, TypeOK
    <3> QED  BY <1>M, <1>D, <2>1, <2>2, <3>1, Zenon DEF DiskInv, MemoryInv
  <2>4. \A b \in Block : bread(b)' = bread(b)
    BY <1>T, <2>1, <2>2, <2>3, Zenon DEF bread, TypeOK, Install
  <2>5. Active' = Active
    BY <1>T, <1>9, Zenon DEF install_trans, Active, TypeOK, OpPC
  <2>6. Stable' = Stable
    BY <1>T, <1>8, <2>1, <2>2 DEF TypeOK
  <2> QED  BY <1>d, <2>1, <2>4, <2>5, <2>6, Zenon DEF AD!vars
<1>10. ASSUME head = lh, head' = <<>>, home' = home,
              \A i \in 1..Len(lh) : home[lh[i]] = logblk[i]
       PROVE  Stable' = Stable /\ Stable' = home
  <2>1. ASSUME NEW b \in Block PROVE Stable[b] = home[b]
    BY <1>a, <1>10 DEF Entries
  <2>2. Stable = [b \in Block |-> home[b]]
    BY <2>1, Zenon DEF Stable
  <2>3. home = [b \in Block |-> home[b]]
    BY <1>T, Zenon DEF TypeOK
  <2> QED  BY <1>b, <1>10, <2>2, <2>3, Zenon
<1>11. ASSUME NEW p \in Proc, clear_log(p) PROVE [AD!Next]_(AD!vars)
  <2>1. /\ boot = "run" /\ boot' = "run" /\ pc[p] = "clear" /\ head' = <<>>
        /\ UNCHANGED <<home, buf>>
    BY <1>11, Zenon DEF clear_log, Erase, Running
  <2>2. Stable' = Stable
    BY <1>D, <1>10, <2>1, Zenon DEF DiskInv
  <2>3. Active' = Active
    BY <1>T, <1>11, Zenon DEF clear_log, Active, TypeOK, OpPC
  <2> QED  BY <1>d, <2>1, <2>2, <2>3, Zenon DEF AD!vars, bread
<1>12. ASSUME NEW p \in Proc, commit_done(p) PROVE [AD!Next]_(AD!vars)
  <2>1. boot = "run" /\ boot' = "run" /\ UNCHANGED <<home, head, logblk, buf>>
    BY <1>12, Zenon DEF commit_done, Running, disk
  <2>2. Active' = Active
    BY <1>T, <1>12, Zenon DEF commit_done, Active, TypeOK, OpPC, Wakeup
  <2> QED  BY <1>c, <1>d, <2>1, <2>2, Zenon DEF AD!vars, bread
<1>13. ASSUME NEW b \in Block, Fetch(b) \/ Recycle(b) PROVE [AD!Next]_(AD!vars)
  <2>1. boot = "run" /\ boot' = "run" /\ UNCHANGED <<home, head, logblk, pc>>
    BY <1>13, Zenon DEF Fetch, Recycle, Running, disk
  <2>2. \A c \in Block : bread(c)' = bread(c)
    BY <1>T, <1>M, <1>13, <2>1 DEF Fetch, Recycle, bread, TypeOK, MemoryInv
  <2>3. Active' = Active
    BY <2>1, Zenon DEF Active
  <2> QED  BY <1>c, <1>d, <2>1, <2>2, <2>3, Zenon DEF AD!vars
<1>14. ASSUME recover_install PROVE [AD!Next]_(AD!vars)
  <2>1. boot \notin {"run", "panic"} /\ boot' \notin {"run", "panic"} /\ UNCHANGED <<pc, lh>>
    BY <1>14, Zenon DEF recover_install
  <2>2. Stable' = Stable
    <3>1. CASE tail <= Len(lh)
      BY <1>M, <1>8, <1>14, <2>1, <3>1, Zenon DEF recover_install, MemoryInv
    <3>2. CASE ~(tail <= Len(lh))
      BY <1>c, <1>14, <3>2, Zenon DEF recover_install, disk
    <3> QED  BY <3>1, <3>2, Zenon
  <2>3. Cur = Stable /\ Cur' = Stable'
    BY <2>1, Zenon DEF Cur
  <2>4. Active' = Active
    BY <2>1, Zenon DEF Active
  <2> QED  BY <2>2, <2>3, <2>4, Zenon DEF AD!vars
<1>15. ASSUME recover_clear PROVE [AD!Next]_(AD!vars)
  <2>1. /\ boot = "clear" /\ boot' = "run" /\ head' = <<>>
        /\ UNCHANGED <<home, pc, buf, dirty>>
    BY <1>15, Zenon DEF recover_clear, Erase
  <2>2. Stable' = Stable /\ Stable' = home
    BY <1>M, <1>D, <1>10, <2>1, Zenon DEF DiskInv, MemoryInv
  <2>3. Cur = Stable
    BY <2>1, Zenon DEF Cur
  <2>4. \A b \in Block : bread(b)' = home[b]
    <3>1. \A q \in Proc : held[q] = None
      BY <1>C, <2>1, Zenon DEF ControlInv
    <3> QED  BY <1>M, <2>1, <3>1, Zenon DEF bread, MemoryInv
  <2>5. Cur' = home
    BY <1>T, <2>1, <2>4, Zenon DEF Cur, TypeOK
  <2>6. Active' = Active
    BY <2>1, Zenon DEF Active
  <2> QED  BY <2>2, <2>3, <2>5, <2>6, Zenon DEF AD!vars
<1>16. ASSUME Crash PROVE [AD!Next]_(AD!vars)
  <2>1. Stable' = Stable
    BY <1>16, <1>c, Zenon DEF Crash, disk
  <2>2. Cur' = Stable' /\ Active' = {}
    BY <1>16, Zenon DEF Crash, Cur, Active, OpPC
  <2> QED  BY <2>1, <2>2, Zenon DEF AD!Next, AD!Crash
<1>17. ASSUME UNCHANGED vars PROVE [AD!Next]_(AD!vars)
  <2>1. UNCHANGED <<home, head, logblk, buf, pc, boot>>
    BY <1>17, Zenon DEF vars, disk
  <2>2. Stable' = Stable /\ Active' = Active
    BY <1>c, <2>1, Zenon DEF Active
  <2>3. Cur' = Cur
    BY <2>1, <2>2, Zenon DEF Cur, bread
  <2> QED  BY <2>2, <2>3, Zenon DEF AD!vars
<1> QED
  BY <1>1, <1>2, <1>3, <1>4, <1>6, <1>7, <1>9, <1>11, <1>12, <1>13, <1>14, <1>15, <1>16,
     <1>17 DEF Next, Step

\* The xv6 log makes every file system call atomic with respect to crashes:
\* under the mapping Cur, Stable, Active every behaviour of log.c over bio.c
\* is a behaviour of AtomicDisk, with crashes at any step of commit and
\* recovery, for any number of processes, blocks and values.
THEOREM LogIsAtomic ==
    ASSUME CallsFit
    PROVE  Spec => CallsAreAtomic
<1>1. Init => AD!Init
  <2> SUFFICES ASSUME Init PROVE AD!Init
    BY Zenon
  <2>1. Entries(head) = {} /\ boot = "install_trans" /\ home \in [Block -> Val]
    BY DEF Init, Entries
  <2>2. Cur = Stable /\ Stable \in [Block -> Val]
    BY <2>1, Zenon DEF Cur, Stable
  <2>3. Active = {}
    BY Zenon DEF Init, Active, OpPC
  <2> QED  BY <2>2, <2>3, Zenon DEF AD!Init
<1>2. IndInv /\ IndInv' /\ [Next]_vars => [AD!Next]_(AD!vars)
  BY RefinementStep, Zenon
<1> QED  BY <1>1, <1>2, LogInvariant, PTL DEF Spec, CallsAreAtomic, AD!Spec
=============================================================================

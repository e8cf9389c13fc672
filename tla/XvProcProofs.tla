---------------------------- MODULE XvProcProofs ----------------------------
(***************************************************************************)
(* Proofs about XvProc: an inductive invariant of the process table, for   *)
(* any number of slots, CPUs, pids and ticks, and the properties that      *)
(* follow from it.                                                         *)
(***************************************************************************)
EXTENDS XvProc, WellFoundedInduction, TLAPS

\* The provers of the leaves that do not name their own, in the order of the trials.
USE SMTT(30), SMTT(60), Zenon

Alive == {"RUNNABLE", "SLEEPING", "RUNNING"}
Waiting == {"wait", "waitsch"}
Forking == {"alloc", "copy", "publish"}

\* The CPUs: OnOneCPU, and whoever switches stacks holds ptable.lock.
CpuInv ==
    /\ OnOneCPU
    /\ \A c \in CPU : phase[c] # "run" => cpu[c] # None /\ ptlock = c
    /\ \A c \in CPU : phase[c] = "out" => state[cpu[c]] \in {"SLEEPING", "ZOMBIE"}

\* Where a process can be in the kernel, by its state.
ControlInv ==
    /\ \A p \in Slot :
          /\ state[p] \in {"UNUSED", "EMBRYO"} => pc[p] \in {"user", "exit"}
          /\ state[p] = "ZOMBIE" => pc[p] = "exit"
          /\ state[p] = "SLEEPING" => \/ pc[p] \in Waiting /\ chan[p] = p
                                      \/ pc[p] = "nap" /\ chan[p] = TicksChan
          /\ state[p] = "RUNNABLE" => pc[p] \in Waiting \cup {"forkret", "nap"}
    /\ \A c \in CPU : phase[c] = "in" => pc[cpu[c]] \in Waiting \cup {"forkret", "nap"}
    /\ state[initproc] \in Alive

\* An EMBRYO slot belongs to exactly one fork under way.
ForkInv ==
    /\ \A p \in Slot : np[p] # None <=> pc[p] \in Forking
    /\ \A p \in Slot : np[p] # None => state[np[p]] = "EMBRYO"
    /\ \A p, q \in Slot : np[p] # None /\ np[p] = np[q] => p = q
    /\ \A q \in Slot : state[q] = "EMBRYO" => \E p \in Slot : np[p] = q

\* StackInUse, and the stack that fork has allocated for the child.
StackInv ==
    /\ StackInUse
    /\ \A p \in Slot : pc[p] \in {"copy", "publish"} => kstack[np[p]] = 1

\* ParentAlive, and the child that fork is about to publish.
FamilyInv ==
    /\ ParentAlive
    /\ parent[initproc] = None
    /\ \A p \in Slot : parent[p] # p
    /\ \A p \in Slot : pc[p] = "publish" => parent[np[p]] = p

\* NoLostWakeup, and tickslock: held from the test in sys_sleep to sleep(), and
\* by the timer interrupt until it has woken the sleepers.
SleepInv ==
    /\ NoLostWakeup
    /\ \A p \in Slot : pc[p] = "dose" =>
          /\ ticks - ticks0[p] < NAP /\ irq # "wakeup"
          /\ \E c \in CPU : cpu[c] = p /\ phase[c] = "run" /\ tickslock = c
    /\ irq = "wakeup" => tickslock = Cpu0

\* A pid is given out once; a failed fork leaves it in its free slot.
PidInv ==
    /\ nextpid > 1
    /\ \A p \in Slot : pid[p] < nextpid /\ (state[p] # "UNUSED" => pid[p] # 0)
    /\ \A p, q \in Slot : pid[p] = pid[q] => p = q \/ pid[p] = 0

\* Charged, with the tick that the timer interrupt has counted but not charged.
ChargeInv ==
    \A p \in Slot :
        rutime[p] + retime[p] + sltime[p] + (IF irq = "none" THEN 0 ELSE 1)
            <= ticks - ctime[p] + 1

ProcInv ==
    /\ TypeOK /\ CpuInv /\ ControlInv /\ ForkInv /\ StackInv /\ FamilyInv
    /\ SleepInv /\ PidInv /\ ChargeInv
-----------------------------------------------------------------------------
\* userinit's process has the first slot.
LEMMA InitprocSlot == initproc \in Slot
  BY ProcConstants DEF initproc, Slot

\* A loop over the table that looks for a slot stops at one.
LEMMA FirstIn ==
    ASSUME NEW S \in SUBSET Slot, S # {}
    PROVE  First(S) \in S
<1> DEFINE R == OpToRel(<, Nat)
<1>1. IsWellFoundedOn(R, Nat)
  BY NatLessThanWellFounded, Zenon
<1>2. S \subseteq Nat
  BY DEF Slot
<1> HIDE DEF R
<1>3. PICK x \in S : \A y \in S : ~(<<y, x>> \in R)
  BY <1>1, <1>2, WFMin, Zenon
<1>4. \A y \in S : ~(y < x)
  <2> TAKE y \in S
  <2>1. <<y, x>> \notin R  BY <1>3, Zenon
  <2>2. x \in Nat /\ y \in Nat  BY <1>2, Zenon
  <2> QED  BY <2>1, <2>2, Zenon DEF R, OpToRel
<1>5. \A y \in S : x <= y
  BY <1>2, <1>4
<1> QED  BY <1>5, Zenon DEF First

\* A process that executes is RUNNING, on that CPU only, and a fork under way
\* makes another one.
LEMMA Running ==
    ASSUME ProcInv, NEW c \in CPU, NEW p \in Slot, On(c, p)
    PROVE  /\ cpu[c] = p /\ phase[c] = "run" /\ state[p] = "RUNNING"
           /\ \A d \in CPU : cpu[d] = p => d = c
           /\ pc[p] \in Forking => np[p] \in Slot \ {p} /\ state[np[p]] = "EMBRYO"
<1>1. cpu[c] = p /\ phase[c] = "run" /\ p # None
  BY ProcConstants, Zenon DEF On
<1>2. state[p] = "RUNNING" /\ \A d \in CPU : cpu[d] = p => d = c
  BY <1>1, Zenon DEF ProcInv, CpuInv, OnOneCPU
<1>3. pc[p] \in Forking => np[p] \in Slot /\ state[np[p]] = "EMBRYO"
  BY DEF ProcInv, ForkInv, TypeOK
<1> QED  BY <1>1, <1>2, <1>3, Zenon

\* A running process enters the kernel, returns, or comes to its wait loop.
LEMMA Step_pc ==
    ASSUME ProcInv, NEW c \in CPU, NEW p \in Slot, NEW x \in {"user", "sys"} \cup Waiting,
           On(c, p), pc[p] \in {"user", "sys"}, pc' = [pc EXCEPT ![p] = x],
           priority' \in [Slot -> Nat],
           UNCHANGED <<state, pid, parent, chan, killed, kstack, statvars, nextpid, ticks, cpuvars,
                       np, ticks0, irq>>
    PROVE  ProcInv'
<1>r. /\ cpu[c] = p /\ phase[c] = "run" /\ state[p] = "RUNNING"
      /\ \A d \in CPU : cpu[d] = p => d = c
      /\ pc[p] \in Forking => np[p] \in Slot \ {p} /\ state[np[p]] = "EMBRYO"
  BY Running, Zenon
<1> USE ProcConstants DEF procvars, statvars, cpuvars, PState, TicksChan, initproc
<1>1. TypeOK'
  BY <1>r, Zenon DEF ProcInv, TypeOK, Waiting
<1>2. CpuInv'
  BY <1>r DEF ProcInv, CpuInv, OnOneCPU, TypeOK
<1>3. ControlInv'
  BY <1>r DEF ProcInv, ControlInv, Alive, Waiting, TypeOK
<1>4. ForkInv'
  BY <1>r DEF ProcInv, ForkInv, Forking, TypeOK, Waiting
<1>5. StackInv'
  BY <1>r DEF ProcInv, StackInv, StackInUse, TypeOK, Waiting
<1>6. FamilyInv'
  BY <1>r DEF ProcInv, FamilyInv, ParentAlive, TypeOK, Waiting
<1>7. SleepInv'
  BY <1>r DEF ProcInv, SleepInv, NoLostWakeup, TypeOK, Waiting
<1>8. PidInv'
  BY <1>r DEF ProcInv, PidInv, TypeOK
<1>9. ChargeInv'
  BY <1>r, Zenon DEF ProcInv, ChargeInv, TypeOK
<1> QED  BY <1>1, <1>2, <1>3, <1>4, <1>5, <1>6, <1>7, <1>8, <1>9, Zenon DEF ProcInv

\* A trap in user mode kills the process that caused it.
LEMMA Step_fault ==
    ASSUME ProcInv, NEW c \in CPU, NEW p \in Slot, fault(c, p)
    PROVE  ProcInv'
<1> USE ProcConstants DEF procvars, statvars, cpuvars, PState, TicksChan, initproc
<1>r. /\ cpu[c] = p /\ phase[c] = "run" /\ state[p] = "RUNNING"
      /\ \A d \in CPU : cpu[d] = p => d = c
      /\ pc[p] \in Forking => np[p] \in Slot \ {p} /\ state[np[p]] = "EMBRYO"
  BY Running, Zenon DEF fault, Syscall
<1>1. TypeOK'
  BY <1>r, Zenon DEF ProcInv, TypeOK, fault
<1>2. CpuInv'
  BY <1>r DEF ProcInv, CpuInv, OnOneCPU, TypeOK, fault
<1>3. ControlInv'
  BY <1>r, Zenon DEF ProcInv, ControlInv, Alive, Waiting, TypeOK, fault
<1>4. ForkInv'
  BY <1>r DEF ProcInv, ForkInv, Forking, TypeOK, fault
<1>5. StackInv'
  BY <1>r DEF ProcInv, StackInv, StackInUse, TypeOK, fault
<1>6. FamilyInv'
  BY <1>r DEF ProcInv, FamilyInv, ParentAlive, TypeOK, fault
<1>7. SleepInv'
  BY <1>r DEF ProcInv, SleepInv, NoLostWakeup, TypeOK, fault
<1>8. PidInv'
  BY <1>r DEF ProcInv, PidInv, TypeOK, fault
<1>9. ChargeInv'
  BY <1>r, Zenon DEF ProcInv, ChargeInv, TypeOK, fault
<1> QED  BY <1>1, <1>2, <1>3, <1>4, <1>5, <1>6, <1>7, <1>8, <1>9, Zenon DEF ProcInv

\* allocproc claims an UNUSED slot under ptable.lock.
LEMMA Step_allocproc ==
    ASSUME ProcInv, NEW c \in CPU, NEW p \in Slot, allocproc(c, p)
    PROVE  ProcInv'
<1> USE ProcConstants DEF procvars, statvars, cpuvars, PState, TicksChan, initproc
<1>r. /\ cpu[c] = p /\ phase[c] = "run" /\ state[p] = "RUNNING"
      /\ \A d \in CPU : cpu[d] = p => d = c
      /\ pc[p] \in Forking => np[p] \in Slot \ {p} /\ state[np[p]] = "EMBRYO"
  BY Running, Zenon DEF allocproc, Syscall
<1> DEFINE q == First({r \in Slot : state[r] = "UNUSED"})
<1>q. q \in Slot /\ state[q] = "UNUSED"
  BY FirstIn DEF allocproc
<1>e. /\ pc[p] = "sys" /\ pc' = [pc EXCEPT ![p] = "alloc"]
      /\ state' = [state EXCEPT ![q] = "EMBRYO"] /\ pid' = [pid EXCEPT ![q] = nextpid]
      /\ np' = [np EXCEPT ![p] = q] /\ nextpid' = nextpid + 1
      /\ UNCHANGED <<parent, chan, killed, priority, kstack, statvars, ticks, cpuvars, ticks0, irq>>
  BY Zenon DEF allocproc, Syscall, NewPid
<1> HIDE DEF q
<1>1. TypeOK'
  BY <1>q, <1>e DEF ProcInv, TypeOK
<1>2. CpuInv'
  BY <1>q, <1>e DEF ProcInv, CpuInv, OnOneCPU, TypeOK
<1>3. ControlInv'
  BY <1>q, <1>e, <1>r DEF ProcInv, ControlInv, Alive, Waiting, TypeOK
<1>4. ForkInv'
  BY <1>q, <1>e, <1>r DEF ProcInv, ForkInv, Forking, TypeOK
<1>5. StackInv'
  BY <1>q, <1>e DEF ProcInv, StackInv, StackInUse, TypeOK
<1>6. FamilyInv'
  BY <1>q, <1>e, <1>r DEF ProcInv, FamilyInv, ParentAlive, TypeOK
<1>7. SleepInv'
  BY <1>q, <1>e DEF ProcInv, SleepInv, NoLostWakeup, TypeOK
<1>8. PidInv'
  BY <1>q, <1>e DEF ProcInv, PidInv, TypeOK
<1>9. ChargeInv'
  BY <1>e, Zenon DEF ProcInv, ChargeInv
<1> QED  BY <1>1, <1>2, <1>3, <1>4, <1>5, <1>6, <1>7, <1>8, <1>9, Zenon DEF ProcInv

\* allocproc allocates the stack, without the lock.
LEMMA Step_allocproc_init ==
    ASSUME ProcInv, NEW c \in CPU, NEW p \in Slot, allocproc_init(c, p)
    PROVE  ProcInv'
<1> USE ProcConstants DEF procvars, statvars, cpuvars, PState, TicksChan, initproc
<1>r. /\ cpu[c] = p /\ phase[c] = "run" /\ state[p] = "RUNNING"
      /\ \A d \in CPU : cpu[d] = p => d = c
      /\ pc[p] \in Forking => np[p] \in Slot \ {p} /\ state[np[p]] = "EMBRYO"
  BY Running, Zenon DEF allocproc_init, Syscall
<1>1. TypeOK'
  BY <1>r DEF ProcInv, TypeOK, allocproc_init, Forking
<1>2. CpuInv'
  BY <1>r DEF ProcInv, CpuInv, OnOneCPU, TypeOK, allocproc_init, Forking
<1>3. ControlInv'
  BY <1>r DEF ProcInv, ControlInv, Alive, Waiting, TypeOK, allocproc_init, Forking
<1>4. ForkInv'
  BY <1>r DEF ProcInv, ForkInv, Forking, TypeOK, allocproc_init
<1>5. StackInv'
  BY <1>r DEF ProcInv, StackInv, StackInUse, TypeOK, allocproc_init, Forking
<1>6. FamilyInv'
  BY <1>r DEF ProcInv, FamilyInv, ParentAlive, TypeOK, allocproc_init, Forking
<1>7. SleepInv'
  BY <1>r DEF ProcInv, SleepInv, NoLostWakeup, TypeOK, allocproc_init, Forking
<1>8. PidInv'
  BY <1>r DEF ProcInv, PidInv, TypeOK, allocproc_init, Forking
<1>9. ChargeInv'
  BY <1>r DEF ProcInv, ChargeInv, TypeOK, allocproc_init, Forking
<1> QED  BY <1>1, <1>2, <1>3, <1>4, <1>5, <1>6, <1>7, <1>8, <1>9, Zenon DEF ProcInv

\* fork gives the slot back when kalloc or copyuvm fails.
LEMMA Step_fork_fail ==
    ASSUME ProcInv, NEW c \in CPU, NEW p \in Slot, fork_fail(c, p)
    PROVE  ProcInv'
<1> USE ProcConstants DEF procvars, statvars, cpuvars, PState, TicksChan, initproc
<1>r. /\ cpu[c] = p /\ phase[c] = "run" /\ state[p] = "RUNNING"
      /\ \A d \in CPU : cpu[d] = p => d = c
      /\ pc[p] \in Forking => np[p] \in Slot \ {p} /\ state[np[p]] = "EMBRYO"
  BY Running, Zenon DEF fork_fail, Syscall
<1>1. TypeOK'
  BY <1>r, Zenon DEF ProcInv, TypeOK, fork_fail, FailedState, Forking
<1>2. CpuInv'
  BY <1>r DEF ProcInv, CpuInv, OnOneCPU, TypeOK, fork_fail, FailedState, Forking
<1>3. ControlInv'
  BY <1>r DEF ProcInv, ControlInv, Alive, Waiting, TypeOK, fork_fail, FailedState, Forking
<1>4. ForkInv'
  BY <1>r DEF ProcInv, ForkInv, Forking, TypeOK, fork_fail, FailedState
<1>5. StackInv'
  BY <1>r DEF ProcInv, StackInv, StackInUse, CpuInv, OnOneCPU, ForkInv, Forking, TypeOK, fork_fail, 
            FailedState
<1>6. FamilyInv'
  BY <1>r DEF ProcInv, FamilyInv, ParentAlive, TypeOK, fork_fail, FailedState, Forking
<1>7. SleepInv'
  BY <1>r DEF ProcInv, SleepInv, NoLostWakeup, TypeOK, fork_fail, FailedState, Forking
<1>8. PidInv'
  BY <1>r DEF ProcInv, PidInv, TypeOK, fork_fail, FailedState, Forking
<1>9. ChargeInv'
  BY <1>r, Zenon DEF ProcInv, ChargeInv, TypeOK, fork_fail, FailedState, Forking
<1> QED  BY <1>1, <1>2, <1>3, <1>4, <1>5, <1>6, <1>7, <1>8, <1>9, Zenon DEF ProcInv

\* fork copies from the parent into the EMBRYO, without the lock.
LEMMA Step_fork_copy ==
    ASSUME ProcInv, NEW c \in CPU, NEW p \in Slot, fork_copy(c, p)
    PROVE  ProcInv'
<1> USE ProcConstants DEF procvars, statvars, cpuvars, PState, TicksChan, initproc
<1>r. /\ cpu[c] = p /\ phase[c] = "run" /\ state[p] = "RUNNING"
      /\ \A d \in CPU : cpu[d] = p => d = c
      /\ pc[p] \in Forking => np[p] \in Slot \ {p} /\ state[np[p]] = "EMBRYO"
  BY Running, Zenon DEF fork_copy, Syscall
<1>1. TypeOK'
  BY <1>r, Zenon DEF ProcInv, TypeOK, fork_copy, Forking
<1>2. CpuInv'
  BY <1>r DEF ProcInv, CpuInv, OnOneCPU, TypeOK, fork_copy, Forking
<1>3. ControlInv'
  BY <1>r DEF ProcInv, ControlInv, Alive, Waiting, TypeOK, fork_copy, Forking
<1>4. ForkInv'
  BY <1>r DEF ProcInv, ForkInv, Forking, TypeOK, fork_copy
<1>5. StackInv'
  BY <1>r DEF ProcInv, StackInv, StackInUse, TypeOK, fork_copy, Forking
<1>6. FamilyInv'
  BY <1>r DEF ProcInv, FamilyInv, ParentAlive, ForkInv, Forking, ControlInv, Alive, TypeOK, fork_copy
<1>7. SleepInv'
  BY <1>r DEF ProcInv, SleepInv, NoLostWakeup, TypeOK, fork_copy, Forking
<1>8. PidInv'
  BY <1>r DEF ProcInv, PidInv, TypeOK, fork_copy, Forking
<1>9. ChargeInv'
  BY <1>r, Zenon DEF ProcInv, ChargeInv, TypeOK, fork_copy, Forking
<1> QED  BY <1>1, <1>2, <1>3, <1>4, <1>5, <1>6, <1>7, <1>8, <1>9, Zenon DEF ProcInv

\* fork makes the child RUNNABLE.
LEMMA Step_fork ==
    ASSUME ProcInv, NEW c \in CPU, NEW p \in Slot, fork(c, p)
    PROVE  ProcInv'
<1> USE ProcConstants DEF procvars, statvars, cpuvars, PState, TicksChan, initproc
<1>r. /\ cpu[c] = p /\ phase[c] = "run" /\ state[p] = "RUNNING"
      /\ \A d \in CPU : cpu[d] = p => d = c
      /\ pc[p] \in Forking => np[p] \in Slot \ {p} /\ state[np[p]] = "EMBRYO"
  BY Running, Zenon DEF fork, Syscall
<1>1. TypeOK'
  BY <1>r, Zenon DEF ProcInv, TypeOK, fork, Forking
<1>2. CpuInv'
  BY <1>r DEF ProcInv, CpuInv, OnOneCPU, TypeOK, fork, Forking
<1>3. ControlInv'
  BY <1>r DEF ProcInv, ControlInv, CpuInv, OnOneCPU, Alive, Waiting, Forking, TypeOK, fork
<1>4. ForkInv'
  BY <1>r DEF ProcInv, ForkInv, ControlInv, Forking, TypeOK, fork
<1>5. StackInv'
  BY <1>r DEF ProcInv, StackInv, StackInUse, TypeOK, fork, Forking
<1>6. FamilyInv'
  BY <1>r DEF ProcInv, FamilyInv, ParentAlive, TypeOK, fork, Forking
<1>7. SleepInv'
  BY <1>r DEF ProcInv, SleepInv, NoLostWakeup, TypeOK, fork, Forking
<1>8. PidInv'
  BY <1>r DEF ProcInv, PidInv, TypeOK, fork, Forking
<1>9. ChargeInv'
  BY <1>r, Zenon DEF ProcInv, ChargeInv, TypeOK, fork, Forking
<1> QED  BY <1>1, <1>2, <1>3, <1>4, <1>5, <1>6, <1>7, <1>8, <1>9, Zenon DEF ProcInv

\* exit wakes the parent, hands the children to init and becomes ZOMBIE.
LEMMA Step_exit ==
    ASSUME ProcInv, NEW c \in CPU, NEW p \in Slot, exit(c, p)
    PROVE  ProcInv'
<1> USE ProcConstants DEF procvars, statvars, cpuvars, PState, TicksChan, initproc
<1>r. /\ cpu[c] = p /\ phase[c] = "run" /\ state[p] = "RUNNING"
      /\ \A d \in CPU : cpu[d] = p => d = c
      /\ pc[p] \in Forking => np[p] \in Slot \ {p} /\ state[np[p]] = "EMBRYO"
  BY Running, Zenon DEF exit, Syscall
<1>e. /\ p # initproc /\ ptlock = None /\ pc[p] \in {"user", "sys"}
      /\ pc' = [pc EXCEPT ![p] = "exit"] /\ parent' = NewParents(p)
      /\ ptlock' = c /\ phase' = [phase EXCEPT ![c] = "out"]
      /\ UNCHANGED <<pid, chan, killed, priority, kstack, statvars, nextpid, ticks, tickslock, cpu, np,
                     ticks0, irq>>
  BY Zenon DEF exit, Syscall, LockInSched
<1>s. /\ state' \in [Slot -> PState] /\ state'[p] = "ZOMBIE"
      /\ \A q \in Slot \ {p} :
            state'[q] = IF state[q] = "SLEEPING" /\ chan[q] \in ExitChannels(p)
                        THEN "RUNNABLE" ELSE state[q]
  BY Zenon DEF exit, wakeup1, ProcInv, TypeOK
<1>n. \A q \in Slot : parent'[q] = IF parent[q] = p THEN initproc ELSE parent[q]
  BY <1>e, Zenon DEF NewParents
<1>1. TypeOK'
  BY <1>e, <1>s, InitprocSlot, Zenon DEF ProcInv, TypeOK, NewParents
<1>2. CpuInv'
  BY <1>e, <1>s, <1>r DEF ProcInv, CpuInv, OnOneCPU, TypeOK
<1>3. ControlInv'
  BY <1>e, <1>s, <1>r, InitprocSlot DEF ProcInv, ControlInv, Alive, Waiting, TypeOK
<1>4. ForkInv'
  BY <1>e, <1>s, <1>r DEF ProcInv, ForkInv, Forking, TypeOK
<1>5. StackInv'
  BY <1>e, <1>s, <1>r DEF ProcInv, StackInv, StackInUse, TypeOK
<1>6. FamilyInv'
  <2>1. ParentAlive'
    BY <1>e, <1>s, <1>n, <1>r, InitprocSlot DEF ProcInv, FamilyInv, ParentAlive, ControlInv, Alive, TypeOK
  <2>2. \A q \in Slot : pc'[q] = "publish" => parent'[np'[q]] = q
    BY <1>e, <1>n, <1>r DEF ProcInv, FamilyInv, ForkInv, Forking, TypeOK
  <2> QED  BY <1>e, <1>n, <2>1, <2>2, InitprocSlot, Zenon DEF ProcInv, FamilyInv
<1>7. SleepInv'
  <2> SUFFICES NoLostWakeup'
    BY <1>e, <1>r DEF ProcInv, SleepInv, TypeOK
  <2> SUFFICES ASSUME NEW q \in Slot, state'[q] = "SLEEPING"
               PROVE  \/ /\ chan'[q] = q /\ killed'[q] = 0
                         /\ \A r \in Slot : parent'[r] = q => state'[r] # "ZOMBIE"
                      \/ /\ chan'[q] = TicksChan
                         /\ ticks' - ticks0'[q] < NAP \/ irq' = "wakeup"
    BY Zenon DEF NoLostWakeup
  <2>1. q # p /\ state[q] = "SLEEPING" /\ chan[q] \notin ExitChannels(p)
    BY <1>s, Zenon
  <2>2. CASE chan[q] = q /\ killed[q] = 0 /\ \A r \in Slot : parent[r] = q => state[r] # "ZOMBIE"
    <3> SUFFICES ASSUME NEW r \in Slot, parent'[r] = q PROVE state'[r] # "ZOMBIE"
      BY <1>e, <2>2, Zenon
    <3>1. CASE r = p
      <4>1. parent[p] # p
        BY Zenon DEF ProcInv, FamilyInv
      <4>2. parent[p] = q
        BY <1>n, <3>1, <4>1, Zenon
      <4> QED  BY <2>1, <2>2, <4>2, Zenon DEF ExitChannels
    <3>2. CASE r # p /\ parent[r] = p
      <4>1. q = initproc
        BY <1>n, <3>2, Zenon
      <4>2. state[r] # "ZOMBIE"
        BY <2>1, <2>2, <3>2, <4>1, Zenon DEF ExitChannels
      <4> QED  BY <1>s, <3>2, <4>2, Zenon
    <3>3. CASE r # p /\ parent[r] # p
      BY <1>n, <1>s, <2>2, <3>3, Zenon
    <3> QED  BY <3>1, <3>2, <3>3, Zenon
  <2>3. CASE chan[q] = TicksChan /\ (ticks - ticks0[q] < NAP \/ irq = "wakeup")
    BY <1>e, <2>3, Zenon
  <2> QED  BY <2>1, <2>2, <2>3, Zenon DEF ProcInv, SleepInv, NoLostWakeup
<1>8. PidInv'
  BY <1>e, <1>s, <1>r DEF ProcInv, PidInv
<1>9. ChargeInv'
  BY <1>e, Zenon DEF ProcInv, ChargeInv
<1> QED  BY <1>1, <1>2, <1>3, <1>4, <1>5, <1>6, <1>7, <1>8, <1>9, Zenon DEF ProcInv

\* wait finds a zombie child and frees it.
LEMMA Step_wait_reap ==
    ASSUME ProcInv, NEW c \in CPU, NEW p \in Slot, NEW q \in Slot,
           On(c, p), pc[p] \in Waiting, ptlock \in {None, c}, parent[q] = p, state[q] = "ZOMBIE",
           Reap(p, q), ptlock' = None, pc' = [pc EXCEPT ![p] = "user"],
           UNCHANGED <<chan, phase, nextpid, ticks, tickslock, cpu, np, ticks0, irq>>
    PROVE  ProcInv'
<1>r. /\ cpu[c] = p /\ phase[c] = "run" /\ state[p] = "RUNNING"
      /\ \A d \in CPU : cpu[d] = p => d = c
      /\ pc[p] \in Forking => np[p] \in Slot \ {p} /\ state[np[p]] = "EMBRYO"
  BY Running
<1> USE ProcConstants DEF procvars, statvars, cpuvars, PState, TicksChan, initproc
<1>l. \A d \in CPU : phase[d] = "run"
  BY <1>r, Zenon DEF ProcInv, CpuInv
<1>c. \A d \in CPU : cpu[d] # q
  BY <1>l DEF ProcInv, CpuInv, OnOneCPU, TypeOK
<1>e. q # p
  BY <1>r, Zenon
<1>1. TypeOK'
  BY <1>r, <1>l, <1>c, <1>e DEF Reap, Waiting, ProcInv, TypeOK
<1>2. CpuInv'
  BY <1>r, <1>l, <1>c, <1>e DEF Reap, Waiting, ProcInv, CpuInv, OnOneCPU, TypeOK
<1>3. ControlInv'
  BY <1>r, <1>l, <1>c, <1>e DEF Reap, Waiting, ProcInv, ControlInv, Alive, TypeOK
<1>4. ForkInv'
  BY <1>r, <1>l, <1>c, <1>e DEF Reap, Waiting, ProcInv, ForkInv, Forking, TypeOK
<1>5. StackInv'
  BY <1>r, <1>l, <1>c, <1>e DEF Reap, Waiting, ProcInv, StackInv, StackInUse, ForkInv, Forking, TypeOK
<1>6. FamilyInv'
  BY <1>r, <1>l, <1>c, <1>e DEF Reap, Waiting, ProcInv, FamilyInv, ParentAlive, TypeOK
<1>7. SleepInv'
  BY <1>r, <1>l, <1>c, <1>e DEF Reap, Waiting, ProcInv, SleepInv, NoLostWakeup, TypeOK
<1>8. PidInv'
  BY <1>r, <1>l, <1>c, <1>e DEF Reap, Waiting, ProcInv, PidInv, TypeOK
<1>9. ChargeInv'
  BY <1>r, <1>l, <1>c, <1>e DEF Reap, Waiting, ProcInv, ChargeInv, TypeOK
<1> QED  BY <1>1, <1>2, <1>3, <1>4, <1>5, <1>6, <1>7, <1>8, <1>9, Zenon DEF ProcInv

\* wait has no child to wait for, or its caller was killed.
LEMMA Step_wait_return ==
    ASSUME ProcInv, NEW c \in CPU, NEW p \in Slot,
           On(c, p), pc[p] \in Waiting, ptlock \in {None, c},
           ptlock' = None, pc' = [pc EXCEPT ![p] = "user"],
           UNCHANGED <<procvars, statvars, phase, nextpid, ticks, tickslock, cpu, np, ticks0, irq>>
    PROVE  ProcInv'
<1>r. /\ cpu[c] = p /\ phase[c] = "run" /\ state[p] = "RUNNING"
      /\ \A d \in CPU : cpu[d] = p => d = c
      /\ pc[p] \in Forking => np[p] \in Slot \ {p} /\ state[np[p]] = "EMBRYO"
  BY Running, Zenon
<1> USE ProcConstants DEF procvars, statvars, cpuvars, PState, TicksChan, initproc
<1>l. \A d \in CPU : phase[d] = "run"
  BY <1>r DEF ProcInv, CpuInv
<1>1. TypeOK'
  BY <1>r, <1>l, Zenon DEF Waiting, ProcInv, TypeOK
<1>2. CpuInv'
  BY <1>r, <1>l DEF Waiting, ProcInv, CpuInv, OnOneCPU, TypeOK
<1>3. ControlInv'
  BY <1>r, <1>l DEF Waiting, ProcInv, ControlInv, Alive, TypeOK
<1>4. ForkInv'
  BY <1>r, <1>l DEF Waiting, ProcInv, ForkInv, Forking, TypeOK
<1>5. StackInv'
  BY <1>r, <1>l DEF Waiting, ProcInv, StackInv, StackInUse, TypeOK
<1>6. FamilyInv'
  BY <1>r, <1>l DEF Waiting, ProcInv, FamilyInv, ParentAlive, TypeOK
<1>7. SleepInv'
  BY <1>r, <1>l DEF Waiting, ProcInv, SleepInv, NoLostWakeup, TypeOK
<1>8. PidInv'
  BY <1>r, <1>l DEF Waiting, ProcInv, PidInv, TypeOK
<1>9. ChargeInv'
  BY <1>r, <1>l, Zenon DEF Waiting, ProcInv, ChargeInv, TypeOK
<1> QED  BY <1>1, <1>2, <1>3, <1>4, <1>5, <1>6, <1>7, <1>8, <1>9, Zenon DEF ProcInv

\* wait sleeps: none of the children of its caller is a zombie.
LEMMA Step_wait_sleep ==
    ASSUME ProcInv, NEW c \in CPU, NEW p \in Slot,
           On(c, p), pc[p] \in Waiting, ptlock \in {None, c},
           \A q \in Slot : parent[q] = p => state[q] # "ZOMBIE", killed[p] = 0,
           chan' = [chan EXCEPT ![p] = p], state' = [state EXCEPT ![p] = "SLEEPING"],
           ptlock' = c, phase' = [phase EXCEPT ![c] = "out"],
           UNCHANGED <<pid, parent, killed, priority, kstack, statvars, pc, nextpid, ticks, tickslock,
                       cpu, np, ticks0, irq>>
    PROVE  ProcInv'
<1>r. /\ cpu[c] = p /\ phase[c] = "run" /\ state[p] = "RUNNING"
      /\ \A d \in CPU : cpu[d] = p => d = c
      /\ pc[p] \in Forking => np[p] \in Slot \ {p} /\ state[np[p]] = "EMBRYO"
  BY Running, Zenon
<1> USE ProcConstants DEF procvars, statvars, cpuvars, PState, TicksChan, initproc
<1>l. \A d \in CPU : phase[d] = "run"
  BY <1>r DEF ProcInv, CpuInv
<1>1. TypeOK'
  BY <1>r, <1>l, Zenon DEF Waiting, ProcInv, TypeOK
<1>2. CpuInv'
  BY <1>r, <1>l DEF Waiting, ProcInv, CpuInv, OnOneCPU, TypeOK
<1>3. ControlInv'
  BY <1>r, <1>l DEF Waiting, ProcInv, ControlInv, Alive, TypeOK
<1>4. ForkInv'
  BY <1>r, <1>l DEF Waiting, ProcInv, ForkInv, Forking, TypeOK
<1>5. StackInv'
  BY <1>r, <1>l DEF Waiting, ProcInv, StackInv, StackInUse, TypeOK
<1>6. FamilyInv'
  BY <1>r, <1>l DEF Waiting, ProcInv, FamilyInv, ParentAlive, TypeOK
<1>7. SleepInv'
  BY <1>r, <1>l DEF Waiting, ProcInv, SleepInv, NoLostWakeup, TypeOK
<1>8. PidInv'
  BY <1>r, <1>l DEF Waiting, ProcInv, PidInv, TypeOK
<1>9. ChargeInv'
  BY <1>r, <1>l, Zenon DEF Waiting, ProcInv, ChargeInv, TypeOK
<1> QED  BY <1>1, <1>2, <1>3, <1>4, <1>5, <1>6, <1>7, <1>8, <1>9, Zenon DEF ProcInv

\* wait reaps a ZOMBIE child, returns -1 or sleeps.
LEMMA Step_wait ==
    ASSUME ProcInv, NEW c \in CPU, NEW p \in Slot, wait(c, p)
    PROVE  ProcInv'
<1> DEFINE kids == {q \in Slot : parent[q] = p}
           dead == {q \in kids : state[q] = "ZOMBIE"}
<1>1. On(c, p) /\ pc[p] \in Waiting /\ ptlock \in {None, c}
  BY Zenon DEF wait, Waiting
<1>2. UNCHANGED <<nextpid, ticks, tickslock, cpu, np, ticks0, irq>>
  BY Zenon DEF wait
<1>3. CASE dead # {}
  <2>1. /\ Reap(p, First(dead)) /\ ptlock' = None /\ pc' = [pc EXCEPT ![p] = "user"]
        /\ UNCHANGED <<chan, phase>>
    BY <1>3, Zenon DEF wait
  <2>2. First(dead) \in dead
    BY <1>3, FirstIn, Zenon
  <2> QED  BY <1>1, <1>2, <2>1, <2>2, Step_wait_reap, Zenon
<1>4. CASE dead = {} /\ (kids = {} \/ killed[p] = 1)
  <2>1. ptlock' = None /\ pc' = [pc EXCEPT ![p] = "user"] /\ UNCHANGED <<procvars, statvars, phase>>
    BY <1>4, Zenon DEF wait
  <2> QED  BY <1>1, <1>2, <2>1, Step_wait_return, Zenon
<1>5. CASE dead = {} /\ ~(kids = {} \/ killed[p] = 1)
  <2>1. /\ chan' = [chan EXCEPT ![p] = p] /\ state' = [state EXCEPT ![p] = "SLEEPING"]
        /\ ptlock' = c /\ phase' = [phase EXCEPT ![c] = "out"]
        /\ UNCHANGED <<pid, parent, killed, priority, kstack, statvars, pc>>
    BY <1>5, Zenon DEF wait, LockInSched
  <2>2. \A q \in Slot : parent[q] = p => state[q] # "ZOMBIE"
    BY <1>5, Zenon
  <2>3. killed[p] = 0
    BY <1>5, Zenon DEF ProcInv, TypeOK
  <2> QED  BY <1>1, <1>2, <2>1, <2>2, <2>3, Step_wait_sleep, Zenon
<1> QED  BY <1>3, <1>4, <1>5, Zenon

\* sys_sleep remembers ticks.
LEMMA Step_sys_sleep ==
    ASSUME ProcInv, NEW c \in CPU, NEW p \in Slot, sys_sleep(c, p)
    PROVE  ProcInv'
<1> USE ProcConstants DEF procvars, statvars, cpuvars, PState, TicksChan, initproc
<1>r. /\ cpu[c] = p /\ phase[c] = "run" /\ state[p] = "RUNNING"
      /\ \A d \in CPU : cpu[d] = p => d = c
      /\ pc[p] \in Forking => np[p] \in Slot \ {p} /\ state[np[p]] = "EMBRYO"
  BY Running, Zenon DEF sys_sleep, Syscall
<1>1. TypeOK'
  BY <1>r, Zenon DEF ProcInv, TypeOK, sys_sleep, Syscall
<1>2. CpuInv'
  BY <1>r DEF ProcInv, CpuInv, OnOneCPU, TypeOK, sys_sleep, Syscall
<1>3. ControlInv'
  BY <1>r DEF ProcInv, ControlInv, Alive, Waiting, TypeOK, sys_sleep, Syscall
<1>4. ForkInv'
  BY <1>r DEF ProcInv, ForkInv, Forking, TypeOK, sys_sleep, Syscall
<1>5. StackInv'
  BY <1>r DEF ProcInv, StackInv, StackInUse, TypeOK, sys_sleep, Syscall
<1>6. FamilyInv'
  BY <1>r DEF ProcInv, FamilyInv, ParentAlive, TypeOK, sys_sleep, Syscall
<1>7. SleepInv'
  BY <1>r DEF ProcInv, SleepInv, NoLostWakeup, TypeOK, sys_sleep, Syscall
<1>8. PidInv'
  BY <1>r DEF ProcInv, PidInv, TypeOK, sys_sleep, Syscall
<1>9. ChargeInv'
  BY <1>r, Zenon DEF ProcInv, ChargeInv, TypeOK, sys_sleep, Syscall
<1> QED  BY <1>1, <1>2, <1>3, <1>4, <1>5, <1>6, <1>7, <1>8, <1>9, Zenon DEF ProcInv

\* sys_sleep tests ticks under tickslock.
LEMMA Step_sys_sleep_loop ==
    ASSUME ProcInv, NEW c \in CPU, NEW p \in Slot, sys_sleep_loop(c, p)
    PROVE  ProcInv'
<1> USE ProcConstants DEF procvars, statvars, cpuvars, PState, TicksChan, initproc
<1>r. /\ cpu[c] = p /\ phase[c] = "run" /\ state[p] = "RUNNING"
      /\ \A d \in CPU : cpu[d] = p => d = c
      /\ pc[p] \in Forking => np[p] \in Slot \ {p} /\ state[np[p]] = "EMBRYO"
  BY Running, Zenon DEF sys_sleep_loop, Syscall
<1>e. \E x \in {"dose", "user"} : pc' = [pc EXCEPT ![p] = x]
  BY Zenon DEF sys_sleep_loop
<1>f. UNCHANGED <<state, chan, cpu, phase>>
  BY Zenon DEF sys_sleep_loop
<1>1. TypeOK'
  BY <1>r DEF ProcInv, TypeOK, sys_sleep_loop
<1>2. CpuInv'
  BY <1>r DEF ProcInv, CpuInv, OnOneCPU, TypeOK, sys_sleep_loop
<1>3. ControlInv'
  BY <1>e, <1>f, <1>r DEF ProcInv, ControlInv, Alive, Waiting, TypeOK
<1>4. ForkInv'
  BY <1>r DEF ProcInv, ForkInv, Forking, TypeOK, sys_sleep_loop
<1>5. StackInv'
  BY <1>r DEF ProcInv, StackInv, StackInUse, TypeOK, sys_sleep_loop
<1>6. FamilyInv'
  BY <1>r DEF ProcInv, FamilyInv, ParentAlive, TypeOK, sys_sleep_loop
<1>7. SleepInv'
  BY <1>r DEF ProcInv, SleepInv, NoLostWakeup, TypeOK, sys_sleep_loop
<1>8. PidInv'
  BY <1>r DEF ProcInv, PidInv, TypeOK, sys_sleep_loop
<1>9. ChargeInv'
  BY <1>r, Zenon DEF ProcInv, ChargeInv, TypeOK, sys_sleep_loop
<1> QED  BY <1>1, <1>2, <1>3, <1>4, <1>5, <1>6, <1>7, <1>8, <1>9, Zenon DEF ProcInv

\* sleep gives the condition's lock up under ptable.lock.
LEMMA Step_sleep ==
    ASSUME ProcInv, NEW c \in CPU, NEW p \in Slot, sleep(c, p)
    PROVE  ProcInv'
<1> USE ProcConstants DEF procvars, statvars, cpuvars, PState, TicksChan, initproc
<1>r. /\ cpu[c] = p /\ phase[c] = "run" /\ state[p] = "RUNNING"
      /\ \A d \in CPU : cpu[d] = p => d = c
      /\ pc[p] \in Forking => np[p] \in Slot \ {p} /\ state[np[p]] = "EMBRYO"
  BY Running, Zenon DEF sleep, Syscall
<1>1. TypeOK'
  BY <1>r, Zenon DEF ProcInv, TypeOK, sleep, LockInSched
<1>2. CpuInv'
  BY <1>r DEF ProcInv, CpuInv, OnOneCPU, TypeOK, sleep, LockInSched
<1>3. ControlInv'
  BY <1>r DEF ProcInv, ControlInv, Alive, Waiting, TypeOK, sleep, LockInSched
<1>4. ForkInv'
  BY <1>r DEF ProcInv, ForkInv, Forking, TypeOK, sleep, LockInSched
<1>5. StackInv'
  BY <1>r DEF ProcInv, StackInv, StackInUse, TypeOK, sleep, LockInSched
<1>6. FamilyInv'
  BY <1>r DEF ProcInv, FamilyInv, ParentAlive, TypeOK, sleep, LockInSched
<1>7. SleepInv'
  BY <1>r DEF ProcInv, SleepInv, NoLostWakeup, TypeOK, sleep, LockInSched
<1>8. PidInv'
  BY <1>r DEF ProcInv, PidInv, TypeOK, sleep, LockInSched
<1>9. ChargeInv'
  BY <1>r, Zenon DEF ProcInv, ChargeInv, TypeOK, sleep, LockInSched
<1> QED  BY <1>1, <1>2, <1>3, <1>4, <1>5, <1>6, <1>7, <1>8, <1>9, Zenon DEF ProcInv

\* kill marks the process and wakes it.
LEMMA Step_kill ==
    ASSUME ProcInv, NEW c \in CPU, NEW p \in Slot, kill(c, p)
    PROVE  ProcInv'
<1> USE ProcConstants DEF procvars, statvars, cpuvars, PState, TicksChan, initproc
<1>r. /\ cpu[c] = p /\ phase[c] = "run" /\ state[p] = "RUNNING"
      /\ \A d \in CPU : cpu[d] = p => d = c
      /\ pc[p] \in Forking => np[p] \in Slot \ {p} /\ state[np[p]] = "EMBRYO"
  BY Running, Zenon DEF kill, Syscall
<1>k. PICK q \in Slot : /\ killed' = [killed EXCEPT ![q] = 1]
                        /\ state' = [state EXCEPT ![q] = IF @ = "SLEEPING" THEN "RUNNABLE" ELSE @]
  <2>1. PICK k \in Pid : LET found == {r \in Slot : pid[r] = k}
                         IN  /\ found # {}
                             /\ killed' = [killed EXCEPT ![First(found)] = 1]
                             /\ state' = [state EXCEPT ![First(found)] =
                                                 IF @ = "SLEEPING" THEN "RUNNABLE" ELSE @]
    BY Zenon DEF kill
  <2> QED  BY <2>1, FirstIn, Zenon
<1>f. /\ ptlock = None /\ pc[p] = "sys" /\ pc' = [pc EXCEPT ![p] = "user"]
      /\ UNCHANGED <<pid, parent, chan, priority, kstack, statvars, nextpid, ticks, cpuvars, np, ticks0, irq>>
  BY Zenon DEF kill, Syscall
<1>1. TypeOK'
  BY <1>k, <1>f, <1>r, Zenon DEF ProcInv, TypeOK
<1>2. CpuInv'
  BY <1>k, <1>f, <1>r DEF ProcInv, CpuInv, OnOneCPU, TypeOK
<1>3. ControlInv'
  BY <1>k, <1>f, <1>r DEF ProcInv, ControlInv, Alive, Waiting, TypeOK
<1>4. ForkInv'
  BY <1>k, <1>f, <1>r DEF ProcInv, ForkInv, Forking, TypeOK
<1>5. StackInv'
  BY <1>k, <1>f, <1>r DEF ProcInv, StackInv, StackInUse, TypeOK
<1>6. FamilyInv'
  BY <1>k, <1>f, <1>r DEF ProcInv, FamilyInv, ParentAlive, TypeOK
<1>7. SleepInv'
  BY <1>k, <1>f, <1>r DEF ProcInv, SleepInv, NoLostWakeup, TypeOK
<1>8. PidInv'
  BY <1>k, <1>f, <1>r DEF ProcInv, PidInv, TypeOK
<1>9. ChargeInv'
  BY <1>k, <1>f, <1>r, Zenon DEF ProcInv, ChargeInv, TypeOK
<1> QED  BY <1>1, <1>2, <1>3, <1>4, <1>5, <1>6, <1>7, <1>8, <1>9, Zenon DEF ProcInv

\* scheduler chooses a RUNNABLE process.
LEMMA Step_scheduler ==
    ASSUME ProcInv, NEW c \in CPU, scheduler(c)
    PROVE  ProcInv'
<1> USE ProcConstants DEF procvars, statvars, cpuvars, PState, TicksChan, initproc
<1>1. TypeOK'
  BY DEF ProcInv, TypeOK, scheduler, Chosen
<1>2. CpuInv'
  BY DEF ProcInv, CpuInv, OnOneCPU, TypeOK, scheduler, Chosen
<1>3. ControlInv'
  BY DEF ProcInv, ControlInv, Alive, Waiting, TypeOK, scheduler, Chosen
<1>4. ForkInv'
  BY DEF ProcInv, ForkInv, Forking, TypeOK, scheduler, Chosen
<1>5. StackInv'
  BY DEF ProcInv, StackInv, StackInUse, TypeOK, scheduler, Chosen
<1>6. FamilyInv'
  BY DEF ProcInv, FamilyInv, ParentAlive, TypeOK, scheduler, Chosen
<1>7. SleepInv'
  BY DEF ProcInv, SleepInv, NoLostWakeup, TypeOK, scheduler, Chosen
<1>8. PidInv'
  BY DEF ProcInv, PidInv, TypeOK, scheduler, Chosen
<1>9. ChargeInv'
  BY Zenon DEF ProcInv, ChargeInv, TypeOK, scheduler, Chosen
<1> QED  BY <1>1, <1>2, <1>3, <1>4, <1>5, <1>6, <1>7, <1>8, <1>9, Zenon DEF ProcInv

\* swtch back to the scheduler, which releases the CPU.
LEMMA Step_sched ==
    ASSUME ProcInv, NEW c \in CPU, sched(c)
    PROVE  ProcInv'
<1> USE ProcConstants DEF procvars, statvars, cpuvars, PState, TicksChan, initproc
<1>1. TypeOK'
  BY Zenon DEF ProcInv, TypeOK, sched
<1>2. CpuInv'
  BY DEF ProcInv, CpuInv, OnOneCPU, TypeOK, sched
<1>3. ControlInv'
  BY DEF ProcInv, ControlInv, Alive, Waiting, TypeOK, sched
<1>4. ForkInv'
  BY DEF ProcInv, ForkInv, Forking, TypeOK, sched
<1>5. StackInv'
  BY DEF ProcInv, StackInv, StackInUse, TypeOK, sched
<1>6. FamilyInv'
  BY Zenon DEF ProcInv, FamilyInv, ParentAlive, TypeOK, sched
<1>7. SleepInv'
  BY DEF ProcInv, SleepInv, NoLostWakeup, TypeOK, sched
<1>8. PidInv'
  BY Zenon DEF ProcInv, PidInv, TypeOK, sched
<1>9. ChargeInv'
  BY Zenon DEF ProcInv, ChargeInv, TypeOK, sched
<1> QED  BY <1>1, <1>2, <1>3, <1>4, <1>5, <1>6, <1>7, <1>8, <1>9, Zenon DEF ProcInv

\* The chosen process comes out of sched and releases ptable.lock.
LEMMA Step_resume ==
    ASSUME ProcInv, NEW c \in CPU, resume(c)
    PROVE  ProcInv'
<1> USE ProcConstants DEF procvars, statvars, cpuvars, PState, TicksChan, initproc
<1> DEFINE p == cpu[c]
<1>r. p \in Slot /\ state[p] = "RUNNING" /\ (\A d \in CPU : cpu[d] = p => d = c)
  BY DEF resume, ProcInv, CpuInv, OnOneCPU, TypeOK
<1>e. /\ phase[c] = "in" /\ phase' = [phase EXCEPT ![c] = "run"]
      /\ chan' = IF pc[p] = "forkret" THEN chan ELSE [chan EXCEPT ![p] = None]
      /\ ptlock' = IF pc[p] \in Waiting THEN c ELSE None
      /\ pc' = [pc EXCEPT ![p] = IF @ = "forkret" THEN "user" ELSE @]
      /\ UNCHANGED <<state, pid, parent, killed, priority, kstack, statvars, nextpid, ticks, tickslock,
                     cpu, np, ticks0, irq>>
  BY Zenon DEF resume, Waiting
<1>p. p = cpu[c]
  BY Zenon
<1> HIDE DEF p
<1>1. TypeOK'
  BY <1>r, <1>e, <1>p, Zenon DEF ProcInv, TypeOK
<1>2. CpuInv'
  BY <1>r, <1>e, <1>p DEF ProcInv, CpuInv, OnOneCPU, TypeOK
<1>3. ControlInv'
  BY <1>r, <1>e, <1>p DEF ProcInv, ControlInv, Alive, Waiting, TypeOK
<1>4. ForkInv'
  BY <1>r, <1>e, <1>p DEF ProcInv, ForkInv, Forking, TypeOK
<1>5. StackInv'
  BY <1>r, <1>e, <1>p DEF ProcInv, StackInv, StackInUse, TypeOK
<1>6. FamilyInv'
  BY <1>r, <1>e, <1>p DEF ProcInv, FamilyInv, ParentAlive, TypeOK
<1>7. SleepInv'
  BY <1>r, <1>e, <1>p DEF ProcInv, SleepInv, NoLostWakeup, TypeOK
<1>8. PidInv'
  BY <1>r, <1>e, <1>p, Zenon DEF ProcInv, PidInv, TypeOK
<1>9. ChargeInv'
  BY <1>r, <1>e, <1>p, Zenon DEF ProcInv, ChargeInv, TypeOK
<1> QED  BY <1>1, <1>2, <1>3, <1>4, <1>5, <1>6, <1>7, <1>8, <1>9, Zenon DEF ProcInv

\* CPU 0 counts a tick.
LEMMA Step_timer ==
    ASSUME ProcInv, NEW c \in CPU, timer(c)
    PROVE  ProcInv'
<1> USE ProcConstants DEF procvars, statvars, cpuvars, PState, TicksChan, initproc
<1>1. TypeOK'
  BY DEF ProcInv, TypeOK, timer
<1>2. CpuInv'
  BY DEF ProcInv, CpuInv, OnOneCPU, TypeOK, timer
<1>3. ControlInv'
  BY Zenon DEF ProcInv, ControlInv, Alive, Waiting, TypeOK, timer
<1>4. ForkInv'
  BY Zenon DEF ProcInv, ForkInv, Forking, TypeOK, timer
<1>5. StackInv'
  BY Zenon DEF ProcInv, StackInv, StackInUse, TypeOK, timer
<1>6. FamilyInv'
  BY Zenon DEF ProcInv, FamilyInv, ParentAlive, TypeOK, timer
<1>7. SleepInv'
  BY DEF ProcInv, SleepInv, NoLostWakeup, TypeOK, timer
<1>8. PidInv'
  BY Zenon DEF ProcInv, PidInv, TypeOK, timer
<1>9. ChargeInv'
  BY DEF ProcInv, ChargeInv, TypeOK, timer
<1> QED  BY <1>1, <1>2, <1>3, <1>4, <1>5, <1>6, <1>7, <1>8, <1>9, Zenon DEF ProcInv

\* CPU 0 wakes the sleepers on ticks.
LEMMA Step_timer_wakeup ==
    ASSUME ProcInv, NEW c \in CPU, timer_wakeup(c)
    PROVE  ProcInv'
<1> USE ProcConstants DEF procvars, statvars, cpuvars, PState, TicksChan, initproc
<1>e. \A q \in Slot : state'[q] = IF state[q] = "SLEEPING" /\ chan[q] = TicksChan THEN "RUNNABLE" ELSE state[q]
  BY Zenon DEF timer_wakeup, wakeup1
<1>f. UNCHANGED <<pc, chan, phase, cpu>>
  BY Zenon DEF timer_wakeup
<1>1. TypeOK'
  BY Zenon DEF ProcInv, TypeOK, timer_wakeup, wakeup1
<1>2. CpuInv'
  BY DEF ProcInv, CpuInv, OnOneCPU, TypeOK, timer_wakeup, wakeup1
<1>3. ControlInv'
  BY <1>e, <1>f, InitprocSlot DEF ProcInv, ControlInv, Alive, Waiting, TypeOK
<1>4. ForkInv'
  BY DEF ProcInv, ForkInv, Forking, TypeOK, timer_wakeup, wakeup1
<1>5. StackInv'
  BY Zenon DEF ProcInv, StackInv, StackInUse, TypeOK, timer_wakeup, wakeup1
<1>6. FamilyInv'
  BY DEF ProcInv, FamilyInv, ParentAlive, TypeOK, timer_wakeup, wakeup1
<1>7. SleepInv'
  BY DEF ProcInv, SleepInv, NoLostWakeup, TypeOK, timer_wakeup, wakeup1
<1>8. PidInv'
  BY Zenon DEF ProcInv, PidInv, TypeOK, timer_wakeup, wakeup1
<1>9. ChargeInv'
  BY Zenon DEF ProcInv, ChargeInv, TypeOK, timer_wakeup, wakeup1
<1> QED  BY <1>1, <1>2, <1>3, <1>4, <1>5, <1>6, <1>7, <1>8, <1>9, Zenon DEF ProcInv

\* CPU 0 charges each process for the tick.
LEMMA Step_updatestatistics ==
    ASSUME ProcInv, NEW c \in CPU, updatestatistics(c)
    PROVE  ProcInv'
<1> USE ProcConstants DEF procvars, statvars, cpuvars, PState, TicksChan, initproc
<1>1. TypeOK'
  BY DEF ProcInv, TypeOK, updatestatistics, Ready
<1>2. CpuInv'
  BY DEF ProcInv, CpuInv, OnOneCPU, TypeOK, updatestatistics, Ready
<1>3. ControlInv'
  BY Zenon DEF ProcInv, ControlInv, Alive, Waiting, TypeOK, updatestatistics, Ready
<1>4. ForkInv'
  BY Zenon DEF ProcInv, ForkInv, Forking, TypeOK, updatestatistics, Ready
<1>5. StackInv'
  BY Zenon DEF ProcInv, StackInv, StackInUse, TypeOK, updatestatistics, Ready
<1>6. FamilyInv'
  BY Zenon DEF ProcInv, FamilyInv, ParentAlive, TypeOK, updatestatistics, Ready
<1>7. SleepInv'
  BY DEF ProcInv, SleepInv, NoLostWakeup, TypeOK, updatestatistics, Ready
<1>8. PidInv'
  BY Zenon DEF ProcInv, PidInv, TypeOK, updatestatistics, Ready
<1>9. ChargeInv'
  BY DEF ProcInv, ChargeInv, TypeOK, updatestatistics, Ready
<1> QED  BY <1>1, <1>2, <1>3, <1>4, <1>5, <1>6, <1>7, <1>8, <1>9, Zenon DEF ProcInv

\* The calls that only move a process within the kernel.
LEMMA Step_calls ==
    ASSUME ProcInv, NEW c \in CPU, NEW p \in Slot,
           trap(c, p) \/ syscall_return(c, p) \/ wait_call(c, p) \/ setpriority(c, p)
    PROVE  ProcInv'
<1> USE DEF procvars, statvars, cpuvars
<1>1. On(c, p) /\ pc[p] \in {"user", "sys"}
  BY Zenon DEF trap, syscall_return, wait_call, setpriority, Syscall
<1>2. UNCHANGED <<state, pid, parent, chan, killed, kstack, statvars, nextpid, ticks, cpuvars,
                  np, ticks0, irq>>
  BY Zenon DEF trap, syscall_return, wait_call, setpriority
<1>3. \E x \in {"user", "sys"} \cup Waiting : pc' = [pc EXCEPT ![p] = x]
  BY Zenon DEF trap, syscall_return, wait_call, setpriority, Waiting
<1>4. priority' \in [Slot -> Nat]
  <2>1. priority \in [Slot -> Nat]
    BY Zenon DEF ProcInv, TypeOK
  <2>2. CASE priority' = priority
    BY <2>1, <2>2, Zenon
  <2>3. CASE setpriority(c, p)
    <3>1. \E pr \in Priority : \E q : priority' = [priority EXCEPT ![q] = pr]
      BY <2>3, Zenon DEF setpriority
    <3> QED  BY <2>1, <3>1, ProcConstants, Zenon
  <2> QED  BY <2>2, <2>3, Zenon DEF trap, syscall_return, wait_call
<1> QED  BY <1>1, <1>2, <1>3, <1>4, Step_pc, Zenon

\* A step that changes nothing.
LEMMA Step_stutter ==
    ASSUME ProcInv, UNCHANGED vars
    PROVE  ProcInv'
<1> USE DEF ProcInv, vars, procvars, statvars, cpuvars
<1>1. TypeOK'
  BY Zenon DEF TypeOK
<1>2. CpuInv'
  BY Zenon DEF CpuInv, OnOneCPU
<1>3. ControlInv'
  BY Zenon DEF ControlInv
<1>4. ForkInv'
  BY Zenon DEF ForkInv
<1>5. StackInv'
  BY Zenon DEF StackInv, StackInUse
<1>6. FamilyInv'
  BY Zenon DEF FamilyInv, ParentAlive
<1>7. SleepInv'
  BY Zenon DEF SleepInv, NoLostWakeup
<1>8. PidInv'
  BY Zenon DEF PidInv
<1>9. ChargeInv'
  BY Zenon DEF ChargeInv
<1> QED  BY <1>1, <1>2, <1>3, <1>4, <1>5, <1>6, <1>7, <1>8, <1>9, Zenon

\* userinit has made init.
LEMMA InitProcInv == Init => ProcInv
<1> SUFFICES ASSUME Init PROVE ProcInv
  BY Zenon
<1> USE ProcConstants, InitprocSlot DEF Init
<1>1. TypeOK
  BY DEF TypeOK, PState
<1>2. CpuInv
  BY Zenon DEF CpuInv, OnOneCPU
<1>3. ControlInv
  BY Zenon DEF ControlInv, Alive, Waiting
<1>4. ForkInv
  BY Zenon DEF ForkInv, Forking
<1>5. StackInv
  BY Zenon DEF StackInv, StackInUse
<1>6. FamilyInv
  BY Zenon DEF FamilyInv, ParentAlive
<1>7. SleepInv
  BY Zenon DEF SleepInv, NoLostWakeup
<1>8. PidInv
  BY DEF PidInv, initproc
<1>9. ChargeInv
  BY DEF ChargeInv
<1> QED  BY <1>1, <1>2, <1>3, <1>4, <1>5, <1>6, <1>7, <1>8, <1>9, Zenon DEF ProcInv

\* Every step of every CPU keeps the invariant.
LEMMA NextProcInv == ProcInv /\ [Next]_vars => ProcInv'
<1> SUFFICES ASSUME ProcInv, [Next]_vars PROVE ProcInv'
  BY Zenon
<1>1. CASE UNCHANGED vars
  BY <1>1, Step_stutter, Zenon
<1>2. ASSUME NEW c \in CPU, Kernel(c) PROVE ProcInv'
  <2>1. CASE scheduler(c)
    BY <2>1, Step_scheduler, Zenon
  <2>2. CASE sched(c)
    BY <2>2, Step_sched, Zenon
  <2>3. CASE resume(c)
    BY <2>3, Step_resume, Zenon
  <2>4. CASE timer(c)
    BY <2>4, Step_timer, Zenon
  <2>5. CASE timer_wakeup(c)
    BY <2>5, Step_timer_wakeup, Zenon
  <2>6. CASE updatestatistics(c)
    BY <2>6, Step_updatestatistics, Zenon
  <2>7. CASE scheduler_idle(c)
    BY <2>7, Step_stutter, Zenon DEF scheduler_idle
  <2>8. ASSUME NEW p \in Slot, allocproc_init(c, p) PROVE ProcInv'
    BY <2>8, Step_allocproc_init, Zenon
  <2>9. ASSUME NEW p \in Slot, fork_copy(c, p) PROVE ProcInv'
    BY <2>9, Step_fork_copy, Zenon
  <2>10. ASSUME NEW p \in Slot, fork(c, p) PROVE ProcInv'
    BY <2>10, Step_fork, Zenon
  <2>11. ASSUME NEW p \in Slot, wait(c, p) PROVE ProcInv'
    BY <2>11, Step_wait, Zenon
  <2>12. ASSUME NEW p \in Slot, sleep(c, p) PROVE ProcInv'
    BY <2>12, Step_sleep, Zenon
  <2>13. ASSUME NEW p \in Slot, sys_sleep_loop(c, p) PROVE ProcInv'
    BY <2>13, Step_sys_sleep_loop, Zenon
  <2>14. ASSUME NEW p \in Slot, exit(c, p) PROVE ProcInv'
    BY <2>14, Step_exit, Zenon
  <2> QED  BY <1>2, <2>1, <2>2, <2>3, <2>4, <2>5, <2>6, <2>7, <2>8, <2>9, <2>10, <2>11, <2>12, <2>13, <2>14, Zenon DEF Kernel
<1>3. ASSUME NEW c \in CPU, User(c) PROVE ProcInv'
  <2> SUFFICES ASSUME NEW p \in Slot,
                      \/ trap(c, p) \/ syscall_return(c, p)
                      \/ allocproc(c, p) \/ fork_fail(c, p) \/ wait_call(c, p) \/ sys_sleep(c, p)
                      \/ kill(c, p) \/ setpriority(c, p) \/ fault(c, p)
                      \/ pc[p] = "sys" /\ exit(c, p)
               PROVE  ProcInv'
    BY <1>3, Zenon DEF User
  <2>1. CASE allocproc(c, p)
    BY <2>1, Step_allocproc, Zenon
  <2>2. CASE fork_fail(c, p)
    BY <2>2, Step_fork_fail, Zenon
  <2>3. CASE sys_sleep(c, p)
    BY <2>3, Step_sys_sleep, Zenon
  <2>4. CASE kill(c, p)
    BY <2>4, Step_kill, Zenon
  <2>5. CASE fault(c, p)
    BY <2>5, Step_fault, Zenon
  <2>6. CASE exit(c, p)
    BY <2>6, Step_exit, Zenon
  <2>7. CASE trap(c, p) \/ syscall_return(c, p) \/ wait_call(c, p) \/ setpriority(c, p)
    BY <2>7, Step_calls, Zenon
  <2> QED  BY <2>1, <2>2, <2>3, <2>4, <2>5, <2>6, <2>7, Zenon
<1> QED  BY <1>1, <1>2, <1>3, Zenon DEF Next
-----------------------------------------------------------------------------
\* The inductive invariant holds in every reachable state, for every number of
\* slots, CPUs, pids and ticks (proc.c, sysproc.c:62-83, trap.c:49-58).
THEOREM ProcInvariant == Spec => []ProcInv
<1>1. Init => ProcInv  BY InitProcInv, Zenon
<1>2. ProcInv /\ [Next]_vars => ProcInv'  BY NextProcInv, Zenon
<1> QED  BY <1>1, <1>2, PTL DEF Spec

\* proc.c:408-423: a process is on at most one CPU, and on one exactly when it
\* is RUNNING or is giving the CPU up.
THEOREM RunsOnOneCPU == Spec => []OnOneCPU
<1>1. ProcInv => OnOneCPU  BY Zenon DEF ProcInv, CpuInv
<1> QED  BY <1>1, ProcInvariant, PTL

\* proc.c:297: no CPU is on a kernel stack that wait has freed, and a free slot
\* keeps no stack.
THEOREM StackIsAllocated == Spec => []StackInUse
<1>1. ProcInv => StackInUse  BY Zenon DEF ProcInv, StackInv
<1> QED  BY <1>1, ProcInvariant, PTL

\* proc.c:262: every process but init has a living parent to wait for it.
THEOREM ParentIsAlive == Spec => []ParentAlive
<1>1. ProcInv => ParentAlive  BY Zenon DEF ProcInv, FamilyInv
<1> QED  BY <1>1, ProcInvariant, PTL

\* proc.c:500-504: no wakeup of wait or of sys_sleep is missed.
THEOREM WakeupNotLost == Spec => []NoLostWakeup
<1>1. ProcInv => NoLostWakeup  BY Zenon DEF ProcInv, SleepInv
<1> QED  BY <1>1, ProcInvariant, PTL

\* proc.c:96, 202: an EMBRYO slot belongs to exactly one fork under way, so that
\* no path of fork or allocproc loses a slot.
THEOREM NoSlotLost == Spec => []ForkInv
<1>1. ProcInv => ForkInv  BY Zenon DEF ProcInv
<1> QED  BY <1>1, ProcInvariant, PTL

\* proc.c:90: live processes have different pids, never that of a failed fork.
THEOREM PidsAreUnique == Spec => []PidsDiffer
<1>1. ProcInv => PidsDiffer  BY Zenon DEF ProcInv, PidInv, PidsDiffer
<1> QED  BY <1>1, ProcInvariant, PTL

\* proc.c:613-615: a process is charged at most once for each timer interrupt.
THEOREM ChargedOnce == Spec => []Charged
<1>1. ProcInv => Charged
  <2> SUFFICES ASSUME ProcInv, NEW p \in Slot
               PROVE  rutime[p] + retime[p] + sltime[p] <= ticks - ctime[p] + 1
    BY Zenon DEF Charged
  <2>1. /\ rutime[p] \in Nat /\ retime[p] \in Nat /\ sltime[p] \in Nat
        /\ ctime[p] \in Nat /\ ticks \in Nat
    BY Zenon DEF ProcInv, TypeOK
  <2>2. rutime[p] + retime[p] + sltime[p] + (IF irq = "none" THEN 0 ELSE 1) <= ticks - ctime[p] + 1
    BY Zenon DEF ProcInv, ChargeInv
  <2> QED  BY <2>1, <2>2
<1> QED  BY <1>1, ProcInvariant, PTL
=============================================================================

-------------------------------- MODULE XvProc --------------------------------
(***************************************************************************)
(* Processes of xv6 (src/xv6/proc.c, with sys_sleep of sysproc.c and the   *)
(* timer interrupt of trap.c): fork, exit, wait, waitsch, sleep, wakeup,   *)
(* kill, setpriority, the scheduler and the tick statistics, on several    *)
(* CPUs.                                                                   *)
(*                                                                         *)
(* What the code does between acquire and release of ptable.lock is one    *)
(* step, except where the lock is handed over by swtch: a process that     *)
(* gives up its CPU keeps the lock until the scheduler runs, and one that  *)
(* is chosen releases it.  Accesses without the lock are steps of their    *)
(* own.  Files, memory and user code are left out; kalloc and copyuvm fail *)
(* or succeed.                                                             *)
(***************************************************************************)
EXTENDS Integers, FiniteSets

CONSTANTS
    NPROC,      \* slots of ptable.proc are 1..NPROC; slot 1 is initproc
    CPU,        \* the processors
    Cpu0,       \* the processor that takes the timer interrupts
    None,       \* a null pointer, a free lock, an idle CPU
    Priority,   \* the priorities given to setpriority
    Pid,        \* the arguments given to kill and setpriority
    Calls,      \* the system calls and traps that processes make
    AllocFail,  \* may kalloc and copyuvm fail?
    NAP,        \* the argument of sys_sleep
    MaxTicks,   \* bound: timer interrupts
    MaxPid      \* bound: pids given out

Slot == 1..NPROC
initproc == 1
TicksChan == 0    \* the channel &ticks; the other channels are processes

ASSUME ProcConstants ==
    /\ NPROC \in Nat \ {0} /\ MaxTicks \in Nat /\ MaxPid \in Nat \ {0}
    /\ NAP \in Nat \ {0} /\ Priority \subseteq Nat /\ Pid \subseteq Nat
    /\ Cpu0 \in CPU /\ None \notin CPU /\ None \notin Slot
    /\ Calls \subseteq {"fork", "exit", "wait", "waitsch", "sleep", "kill",
                        "setpriority", "fault"}
    /\ AllocFail \in BOOLEAN

VARIABLES
    state, pid, parent, chan, killed, priority, kstack,   \* struct proc
    ctime, rutime, retime, sltime,                        \* its statistics
    nextpid, ticks,
    ptlock,    \* the CPU that holds ptable.lock
    tickslock, \* the CPU that holds tickslock
    cpu,       \* c->proc: the process whose kernel stack the CPU is on
    phase,     \* "run", or "out" or "in" while swtch hands ptable.lock over
    pc,        \* where a process is in the kernel
    np,        \* the child that fork is making
    ticks0,    \* sys_sleep's local variable
    irq        \* where the timer handler of Cpu0 is

procvars == <<state, pid, parent, chan, killed, priority, kstack>>
statvars == <<ctime, rutime, retime, sltime>>
cpuvars == <<ptlock, tickslock, cpu, phase>>
vars == <<procvars, statvars, nextpid, ticks, cpuvars, pc, np, ticks0, irq>>

PState == {"UNUSED", "EMBRYO", "SLEEPING", "RUNNABLE", "RUNNING", "ZOMBIE"}

TypeOK ==
    /\ state \in [Slot -> PState]
    /\ pid \in [Slot -> Nat]
    /\ parent \in [Slot -> Slot \cup {None}]
    /\ chan \in [Slot -> Slot \cup {TicksChan, None}]
    /\ killed \in [Slot -> {0, 1}]
    /\ priority \in [Slot -> Nat]
    /\ kstack \in [Slot -> {0, 1}]
    /\ \A f \in {ctime, rutime, retime, sltime} : f \in [Slot -> Nat]
    /\ nextpid \in Nat /\ ticks \in Nat
    /\ ptlock \in CPU \cup {None} /\ tickslock \in CPU \cup {None}
    /\ cpu \in [CPU -> Slot \cup {None}]
    /\ phase \in [CPU -> {"run", "out", "in"}]
    /\ pc \in [Slot -> {"user", "sys", "alloc", "copy", "publish", "wait", "waitsch",
                         "nap", "dose", "forkret", "exit"}]
    /\ np \in [Slot -> Slot \cup {None}]
    /\ ticks0 \in [Slot -> Nat]
    /\ irq \in {"none", "wakeup", "stats"}

\* After userinit: initproc is RUNNABLE, every CPU is in scheduler().
Init ==
    /\ state = [p \in Slot |-> IF p = initproc THEN "RUNNABLE" ELSE "UNUSED"]
    /\ pid = [p \in Slot |-> IF p = initproc THEN 1 ELSE 0]
    /\ parent = [p \in Slot |-> None]
    /\ chan = [p \in Slot |-> None]
    /\ killed = [p \in Slot |-> 0]
    /\ priority = [p \in Slot |-> 0]
    /\ kstack = [p \in Slot |-> IF p = initproc THEN 1 ELSE 0]
    /\ ctime = [p \in Slot |-> 0] /\ rutime = [p \in Slot |-> 0]
    /\ retime = [p \in Slot |-> 0] /\ sltime = [p \in Slot |-> 0]
    /\ nextpid = 2 /\ ticks = 0
    /\ ptlock = None /\ tickslock = None
    /\ cpu = [c \in CPU |-> None]
    /\ phase = [c \in CPU |-> "run"]
    /\ pc = [p \in Slot |-> IF p = initproc THEN "forkret" ELSE "user"]
    /\ np = [p \in Slot |-> None]
    /\ ticks0 = [p \in Slot |-> 0]
    /\ irq = "none"
-----------------------------------------------------------------------------
\* The first slot of the table with a property.
First(S) == CHOOSE p \in S : \A q \in S : p <= q

\* Process p executes on c, and c is not in the timer handler.
On(c, p) == cpu[c] = p /\ phase[c] = "run" /\ (c = Cpu0 => irq = "none")

\* p is in the body of a system call, past trap()'s first test of killed.
Syscall(c, p, call) == On(c, p) /\ pc[p] = "sys" /\ call \in Calls

\* wakeup1 applied to the states s of the table, for several channels
wakeup1(s, chs) ==
    [q \in Slot |-> IF s[q] = "SLEEPING" /\ chan[q] \in chs THEN "RUNNABLE" ELSE s[q]]
-----------------------------------------------------------------------------
(* trap and syscall *)

\* trap() with T_SYSCALL; a killed process does not get past it.
trap(c, p) ==
    /\ On(c, p) /\ pc[p] = "user" /\ killed[p] = 0
    /\ pc' = [pc EXCEPT ![p] = "sys"]
    /\ UNCHANGED <<procvars, statvars, nextpid, ticks, cpuvars, np, ticks0, irq>>

\* A call that fails at once (no free slot, no such pid, sys_sleep of a killed
\* process) or touches no process.
syscall_return(c, p) ==
    /\ On(c, p) /\ pc[p] = "sys"
    /\ pc' = [pc EXCEPT ![p] = "user"]
    /\ UNCHANGED <<procvars, statvars, nextpid, ticks, cpuvars, np, ticks0, irq>>

\* A trap of user code that trap() does not know: the process is killed.
fault(c, p) ==
    /\ "fault" \in Calls /\ p # initproc
    /\ On(c, p) /\ pc[p] = "user" /\ killed[p] = 0
    /\ killed' = [killed EXCEPT ![p] = 1]
    /\ UNCHANGED <<state, pid, parent, chan, priority, kstack, statvars, nextpid, ticks, cpuvars, pc, np, ticks0, irq>>
-----------------------------------------------------------------------------
(* fork *)

NewPid == nextpid

allocproc(c, p) ==
    /\ Syscall(c, p, "fork")
    /\ ptlock = None
    /\ nextpid <= MaxPid
    /\ \E q \in Slot : state[q] = "UNUSED"
    /\ LET q == First({r \in Slot : state[r] = "UNUSED"})
       IN  /\ state' = [state EXCEPT ![q] = "EMBRYO"]
           /\ pid' = [pid EXCEPT ![q] = NewPid]
           /\ np' = [np EXCEPT ![p] = q]
    /\ nextpid' = nextpid + 1
    /\ pc' = [pc EXCEPT ![p] = "alloc"]
    /\ UNCHANGED <<parent, chan, killed, priority, kstack, statvars, ticks, cpuvars, ticks0, irq>>

\* Without ptable.lock: kalloc and the fields of the new process.
allocproc_init(c, p) ==
    /\ On(c, p) /\ pc[p] = "alloc"
    /\ LET q == np[p]
       IN  /\ kstack' = [kstack EXCEPT ![q] = 1]
           /\ ctime' = [ctime EXCEPT ![q] = ticks]
           /\ rutime' = [rutime EXCEPT ![q] = 0]
           /\ retime' = [retime EXCEPT ![q] = 0]
           /\ sltime' = [sltime EXCEPT ![q] = 0]
           /\ priority' = [priority EXCEPT ![q] = 0]
    /\ pc' = [pc EXCEPT ![p] = "copy"]
    /\ UNCHANGED <<state, pid, parent, chan, killed, nextpid, ticks, cpuvars, np, ticks0, irq>>

FailedState(p) == "UNUSED"

\* kalloc (in allocproc) or copyuvm (in fork) fails: only the state is undone.
fork_fail(c, p) ==
    /\ AllocFail
    /\ On(c, p) /\ pc[p] \in {"alloc", "copy"}
    /\ kstack' = [kstack EXCEPT ![np[p]] = 0]
    /\ state' = [state EXCEPT ![np[p]] = FailedState(p)]
    /\ np' = [np EXCEPT ![p] = None]
    /\ pc' = [pc EXCEPT ![p] = "user"]
    /\ UNCHANGED <<pid, parent, chan, killed, priority, statvars, nextpid, ticks, cpuvars, ticks0, irq>>

fork_copy(c, p) ==
    /\ On(c, p) /\ pc[p] = "copy"
    /\ priority' = [priority EXCEPT ![np[p]] = priority[p]]
    /\ parent' = [parent EXCEPT ![np[p]] = p]
    /\ pc' = [pc EXCEPT ![p] = "publish"]
    /\ UNCHANGED <<state, pid, chan, killed, kstack, statvars, nextpid, ticks, cpuvars, np, ticks0, irq>>

fork(c, p) ==
    /\ On(c, p) /\ pc[p] = "publish"
    /\ ptlock = None
    /\ state' = [state EXCEPT ![np[p]] = "RUNNABLE"]
    /\ pc' = [pc EXCEPT ![p] = "user", ![np[p]] = "forkret"]
    /\ np' = [np EXCEPT ![p] = None]
    /\ UNCHANGED <<pid, parent, chan, killed, priority, kstack, statvars, nextpid, ticks, cpuvars, ticks0, irq>>
-----------------------------------------------------------------------------
(* exit and wait *)

\* Mutant: exit keeps its children.
NewParents_keep(p) == parent

\* "Pass abandoned children to init."
NewParents(p) == [q \in Slot |-> IF parent[q] = p THEN initproc ELSE parent[q]]

\* The channels that exit wakes up.
ExitChannels(p) ==
    {parent[p]} \cup {initproc : q \in {r \in Slot : parent[r] = p /\ state[r] = "ZOMBIE"}}

\* Mutant: ptable.lock is released before the stacks are switched.
LockInSched_none(c) == None

\* Whoever calls sched() holds ptable.lock across swtch.
LockInSched(c) == c

\* exit() up to sched(); the files and the directory are already closed.
exit(c, p) ==
    /\ On(c, p) /\ p # initproc
    /\ \/ pc[p] = "user" /\ killed[p] = 1
       \/ Syscall(c, p, "exit")
    /\ ptlock = None
    /\ parent' = NewParents(p)
    /\ state' = [wakeup1(state, ExitChannels(p)) EXCEPT ![p] = "ZOMBIE"]
    /\ ptlock' = LockInSched(c)
    /\ phase' = [phase EXCEPT ![c] = "out"]
    /\ pc' = [pc EXCEPT ![p] = "exit"]
    /\ UNCHANGED <<pid, chan, killed, priority, kstack, statvars, nextpid, ticks, tickslock, cpu, np, ticks0, irq>>

wait_call(c, p) ==
    /\ \E call \in {"wait", "waitsch"} :
          Syscall(c, p, call) /\ pc' = [pc EXCEPT ![p] = call]
    /\ UNCHANGED <<procvars, statvars, nextpid, ticks, cpuvars, np, ticks0, irq>>

\* A zombie child is freed.  waitsch leaves its priority in the free slot; the
\* numbers that waitsch stores for its caller are left out.
Reap(p, q) ==
    /\ kstack' = [kstack EXCEPT ![q] = 0]
    /\ pid' = [pid EXCEPT ![q] = 0]
    /\ parent' = [parent EXCEPT ![q] = None]
    /\ killed' = [killed EXCEPT ![q] = 0]
    /\ ctime' = [ctime EXCEPT ![q] = 0]
    /\ rutime' = [rutime EXCEPT ![q] = 0]
    /\ retime' = [retime EXCEPT ![q] = 0]
    /\ sltime' = [sltime EXCEPT ![q] = 0]
    /\ state' = [state EXCEPT ![q] = "UNUSED"]
    /\ priority' = [priority EXCEPT ![q] = IF pc[p] = "waitsch" THEN @ ELSE 0]

\* One turn of the loop of wait or waitsch, entered with the lock free or,
\* after sleep(), held; it ends in a return or in sched().
wait(c, p) ==
    /\ On(c, p) /\ pc[p] \in {"wait", "waitsch"}
    /\ ptlock \in {None, c}
    /\ LET kids == {q \in Slot : parent[q] = p}
           dead == {q \in kids : state[q] = "ZOMBIE"}
       IN  IF dead # {}
           THEN /\ Reap(p, First(dead))
                /\ ptlock' = None /\ pc' = [pc EXCEPT ![p] = "user"]
                /\ UNCHANGED <<chan, phase>>
           ELSE IF kids = {} \/ killed[p] = 1
           THEN /\ ptlock' = None /\ pc' = [pc EXCEPT ![p] = "user"]
                /\ UNCHANGED <<procvars, statvars, phase>>
           ELSE /\ chan' = [chan EXCEPT ![p] = p]
                /\ state' = [state EXCEPT ![p] = "SLEEPING"]
                /\ ptlock' = LockInSched(c) /\ phase' = [phase EXCEPT ![c] = "out"]
                /\ UNCHANGED <<pid, parent, killed, priority, kstack, statvars, pc>>
    /\ UNCHANGED <<nextpid, ticks, tickslock, cpu, np, ticks0, irq>>
-----------------------------------------------------------------------------
(* scheduler, sched, forkret *)

\* What scheduler() ends its loop over the table with.
Better(p, q) ==
    \/ priority[p] > priority[q]
    \/ priority[p] = priority[q] /\ ctime[p] < ctime[q]
    \/ priority[p] = priority[q] /\ ctime[p] = ctime[q] /\ p < q

\* The loop finds nothing to run.
scheduler_idle(c) ==
    /\ cpu[c] = None /\ (c = Cpu0 => irq = "none")
    /\ ptlock = None
    /\ \A p \in Slot : state[p] # "RUNNABLE"
    /\ UNCHANGED vars

\* Mutant: the scheduler leaves the chosen process RUNNABLE.
Chosen_runnable(p) == state

Chosen(p) == [state EXCEPT ![p] = "RUNNING"]

scheduler(c) ==
    /\ cpu[c] = None /\ (c = Cpu0 => irq = "none")
    /\ ptlock = None
    /\ \E p \in Slot :
          /\ state[p] = "RUNNABLE"
          /\ \A q \in Slot \ {p} : state[q] = "RUNNABLE" => Better(p, q)
          /\ cpu' = [cpu EXCEPT ![c] = p]
          /\ state' = Chosen(p)
    /\ ptlock' = c
    /\ phase' = [phase EXCEPT ![c] = "in"]
    /\ UNCHANGED <<pid, parent, chan, killed, priority, kstack, statvars, nextpid, ticks, tickslock, pc, np, ticks0, irq>>

\* The second half of sched: swtch to the scheduler, which releases the lock.
sched(c) ==
    /\ phase[c] = "out"
    /\ cpu' = [cpu EXCEPT ![c] = None]
    /\ phase' = [phase EXCEPT ![c] = "run"]
    /\ ptlock' = None
    /\ UNCHANGED <<procvars, statvars, nextpid, ticks, tickslock, pc, np, ticks0, irq>>

\* The chosen process after swtch: forkret, or the end of sleep().  In wait
\* the lock is the one passed to sleep, so it is kept.
resume(c) ==
    /\ phase[c] = "in"
    /\ phase' = [phase EXCEPT ![c] = "run"]
    /\ LET p == cpu[c]
       IN  /\ chan' = IF pc[p] = "forkret" THEN chan ELSE [chan EXCEPT ![p] = None]
           /\ ptlock' = IF pc[p] \in {"wait", "waitsch"} THEN c ELSE None
           /\ pc' = [pc EXCEPT ![p] = IF @ = "forkret" THEN "user" ELSE @]
    /\ UNCHANGED <<state, pid, parent, killed, priority, kstack, statvars, nextpid, ticks, tickslock, cpu, np, ticks0, irq>>
-----------------------------------------------------------------------------
(* sys_sleep and the timer interrupt *)

sys_sleep(c, p) ==
    /\ Syscall(c, p, "sleep") /\ killed[p] = 0
    /\ ticks + NAP <= MaxTicks   \* bound: the sleep can end
    /\ tickslock = None
    /\ tickslock' = c
    /\ ticks0' = [ticks0 EXCEPT ![p] = ticks]
    /\ pc' = [pc EXCEPT ![p] = "dose"]
    /\ UNCHANGED <<procvars, statvars, nextpid, ticks, ptlock, cpu, phase, np, irq>>

\* Awake again: acquire(lk), then the loop's condition and its test of killed.
sys_sleep_loop(c, p) ==
    /\ On(c, p) /\ pc[p] = "nap"
    /\ tickslock = None
    /\ IF ticks - ticks0[p] < NAP /\ killed[p] = 0
       THEN tickslock' = c /\ pc' = [pc EXCEPT ![p] = "dose"] /\ UNCHANGED ticks0
       ELSE /\ pc' = [pc EXCEPT ![p] = "user"] /\ UNCHANGED tickslock
            /\ ticks0' = [ticks0 EXCEPT ![p] = 0]
    /\ UNCHANGED <<procvars, statvars, nextpid, ticks, ptlock, cpu, phase, np, irq>>

\* Mutant: sleep releases lk before it has ptable.lock.
sleep_early(c, p) ==
    /\ On(c, p) /\ pc[p] = "dose"
    /\ IF tickslock = c
       THEN tickslock' = None /\ UNCHANGED <<ptlock, chan, state, phase, pc>>
       ELSE /\ ptlock = None
            /\ ptlock' = c
            /\ chan' = [chan EXCEPT ![p] = TicksChan]
            /\ state' = [state EXCEPT ![p] = "SLEEPING"]
            /\ phase' = [phase EXCEPT ![c] = "out"]
            /\ pc' = [pc EXCEPT ![p] = "nap"]
            /\ UNCHANGED tickslock
    /\ UNCHANGED <<pid, parent, killed, priority, kstack, statvars, nextpid, ticks, cpu, np, ticks0, irq>>

\* sleep(&ticks, &tickslock) up to sched().
sleep(c, p) ==
    /\ On(c, p) /\ pc[p] = "dose"
    /\ ptlock = None
    /\ ptlock' = LockInSched(c)
    /\ tickslock' = None
    /\ chan' = [chan EXCEPT ![p] = TicksChan]
    /\ state' = [state EXCEPT ![p] = "SLEEPING"]
    /\ phase' = [phase EXCEPT ![c] = "out"]
    /\ pc' = [pc EXCEPT ![p] = "nap"]
    /\ UNCHANGED <<pid, parent, killed, priority, kstack, statvars, nextpid, ticks, cpu, np, ticks0, irq>>

\* The timer interrupts Cpu0 while it holds no lock.
timer(c) ==
    /\ c = Cpu0 /\ irq = "none" /\ ticks < MaxTicks
    /\ ptlock # c /\ tickslock = None
    /\ tickslock' = c
    /\ ticks' = ticks + 1
    /\ irq' = "wakeup"
    /\ UNCHANGED <<procvars, statvars, nextpid, ptlock, cpu, phase, pc, np, ticks0>>

timer_wakeup(c) ==
    /\ c = Cpu0 /\ irq = "wakeup"
    /\ ptlock = None
    /\ state' = wakeup1(state, {TicksChan})
    /\ tickslock' = None
    /\ irq' = "stats"
    /\ UNCHANGED <<pid, parent, chan, killed, priority, kstack, statvars, nextpid, ticks, ptlock, cpu, phase, pc, np, ticks0>>

\* Mutant: a running process is counted as ready as well.
Ready_overlap(p) == state[p] \in {"RUNNABLE", "RUNNING"}

Ready(p) == state[p] = "RUNNABLE"

updatestatistics(c) ==
    /\ c = Cpu0 /\ irq = "stats"
    /\ ptlock = None
    /\ rutime' = [p \in Slot |-> rutime[p] + IF state[p] = "RUNNING" THEN 1 ELSE 0]
    /\ retime' = [p \in Slot |-> retime[p] + IF Ready(p) THEN 1 ELSE 0]
    /\ sltime' = [p \in Slot |-> sltime[p] + IF state[p] = "SLEEPING" THEN 1 ELSE 0]
    /\ irq' = "none"
    /\ UNCHANGED <<procvars, ctime, nextpid, ticks, cpuvars, pc, np, ticks0>>
-----------------------------------------------------------------------------
(* kill and setpriority: the first slot with the pid, whatever its state *)

kill(c, p) ==
    /\ Syscall(c, p, "kill")
    /\ ptlock = None
    /\ \E k \in Pid :
          LET found == {q \in Slot : pid[q] = k}
              q == First(found)
          IN  /\ found # {}
              /\ killed' = [killed EXCEPT ![q] = 1]
              /\ state' = [state EXCEPT ![q] = IF @ = "SLEEPING" THEN "RUNNABLE" ELSE @]
    /\ pc' = [pc EXCEPT ![p] = "user"]
    /\ UNCHANGED <<pid, parent, chan, priority, kstack, statvars, nextpid, ticks, cpuvars, np, ticks0, irq>>

setpriority(c, p) ==
    /\ Syscall(c, p, "setpriority")
    /\ ptlock = None
    /\ \E k \in Pid, pr \in Priority :
          LET found == {q \in Slot : pid[q] = k}
          IN  /\ found # {}
              /\ priority' = [priority EXCEPT ![First(found)] = pr]
    /\ pc' = [pc EXCEPT ![p] = "user"]
    /\ UNCHANGED <<state, pid, parent, chan, killed, kstack, statvars, nextpid, ticks, cpuvars, np, ticks0, irq>>
-----------------------------------------------------------------------------
\* The steps of the kernel on its own, and those it takes for a call under way.
Kernel(c) ==
    \/ scheduler(c) \/ scheduler_idle(c) \/ sched(c) \/ resume(c)
    \/ timer(c) \/ timer_wakeup(c) \/ updatestatistics(c)
    \/ \E p \in Slot :
          \/ allocproc_init(c, p) \/ fork_copy(c, p) \/ fork(c, p)
          \/ wait(c, p) \/ sleep(c, p) \/ sys_sleep_loop(c, p)
          \/ pc[p] = "user" /\ exit(c, p)

\* The calls that user code chooses to make.
User(c) ==
    \E p \in Slot :
        \/ trap(c, p) \/ syscall_return(c, p)
        \/ allocproc(c, p) \/ fork_fail(c, p) \/ wait_call(c, p) \/ sys_sleep(c, p)
        \/ kill(c, p) \/ setpriority(c, p) \/ fault(c, p)
        \/ pc[p] = "sys" /\ exit(c, p)

Next == \E c \in CPU : Kernel(c) \/ User(c)

Spec == Init /\ [][Next]_vars

\* A CPU that wants ptable.lock gets it and goes on.  User code is not
\* preempted, so programs are assumed to end, and init to call wait (init.c).
FairSpec ==
    /\ Spec
    /\ \A c \in CPU : SF_vars(Kernel(c) \/ \E p \in Slot : trap(c, p))
    /\ \A p \in Slot \ {initproc} : SF_vars(\E c \in CPU : exit(c, p))
    /\ SF_vars(\E c \in CPU : wait_call(c, initproc))
-----------------------------------------------------------------------------
\* proc.c:408-423: a process is on at most one CPU, it is on one exactly when
\* it is RUNNING or is giving the CPU up with ptable.lock held.
OnOneCPU ==
    /\ \A c, d \in CPU : cpu[c] # None /\ cpu[c] = cpu[d] => c = d
    /\ \A p \in Slot :
          (\E c \in CPU : cpu[c] = p /\ phase[c] # "out") <=> state[p] = "RUNNING"

\* proc.c:297: wait frees the kernel stack of a zombie only when no CPU is on
\* it any more, and every process that can run has one.
StackInUse ==
    /\ \A c \in CPU : cpu[c] # None => kstack[cpu[c]] = 1
    /\ \A p \in Slot : state[p] \in {"RUNNABLE", "SLEEPING", "RUNNING", "ZOMBIE"} => kstack[p] = 1
    /\ \A p \in Slot : state[p] = "UNUSED" => kstack[p] = 0

\* proc.c:262 "Pass abandoned children to init.": every process but init has a
\* parent that is alive and can wait for it.
ParentAlive ==
    \A p \in Slot \ {initproc} :
        state[p] \in {"RUNNABLE", "SLEEPING", "RUNNING", "ZOMBIE"} =>
            /\ parent[p] # None
            /\ state[parent[p]] \in {"RUNNABLE", "SLEEPING", "RUNNING"}

\* proc.c:500-504: no wakeup is missed.  A process asleep in wait has no zombie
\* child and has not been killed; one asleep in sys_sleep has time left, or
\* the timer is about to wake it.
NoLostWakeup ==
    \A p \in Slot : state[p] = "SLEEPING" =>
        \/ /\ chan[p] = p
           /\ killed[p] = 0
           /\ \A q \in Slot : parent[q] = p => state[q] # "ZOMBIE"
        \/ /\ chan[p] = TicksChan
           /\ ticks - ticks0[p] < NAP \/ irq = "wakeup"

\* proc.c:90: live processes have different pids, never that of a failed fork.
PidsDiffer ==
    \A p, q \in Slot :
        state[p] # "UNUSED" /\ p # q => pid[p] # 0 /\ pid[p] # pid[q]

\* proc.c:613-615: a process is charged at most one tick for each timer
\* interrupt since it was made.  The handler has counted the current tick in
\* ticks before it charges it, so a process made in between has one more.
Charged ==
    \A p \in Slot :
        state[p] \in {"RUNNABLE", "SLEEPING", "RUNNING"} =>
            rutime[p] + retime[p] + sltime[p] <= ticks - ctime[p] + 1

\* proc.c:547 "Kill the process with the given pid.": a process is killed only
\* if kill was called with its pid or it misbehaved, so a new process is not
\* killed before it has run.
BornAlive ==
    \A p \in Slot : state[p] = "EMBRYO" => killed[p] = 0

\* No wakeup is lost for good: whoever sleeps, in wait or in sys_sleep, runs
\* again (proc.c:260, 267, trap.c:54).
SleepersRun == \A p \in Slot : state[p] = "SLEEPING" ~> state[p] = "RUNNING"

\* proc.c:232 "An exited process remains in the zombie state until its parent
\* calls wait()": a parent that exits itself leaves its zombies to init,
\* so in the end every slot is free again.
ZombiesReaped == \A p \in Slot : state[p] = "ZOMBIE" ~> state[p] = "UNUSED"
=============================================================================

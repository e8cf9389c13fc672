------------------------------ MODULE JosBoot -------------------------------
(***************************************************************************)
(* The start of the JOS kernel on a multiprocessor: i386_init, boot_aps    *)
(* and mp_main (kern/init.c), the processor table (kern/mpconfig.c), the   *)
(* local APIC (kern/lapic.c), mpentry.S, the task state of each processor  *)
(* (trap_init_percpu, kern/trap.c) and the big kernel lock up to the first *)
(* pass through the scheduler (kern/sched.c).                              *)
(***************************************************************************)
EXTENDS Integers, Sequences

CONSTANTS Machines,   \* what the firmware describes: [ids (APIC ids in table order), bsp, odd]
                      \* odd: the table ends with an entry of unknown kind
          JNCPU

ASSUME JosBootConstants ==
    JNCPU \in Nat \ {0} /\ \A m \in Machines : m.bsp \in {m.ids[j] : j \in 1..Len(m.ids)}

VARIABLES mach,
          left,        \* the calls i386_init has still to make
          ap, phase,   \* the loop variable of boot_aps, an index of cpus, and the place in it
          jcpus,        \* cpu_status, indexed from 0 as in the code
          ncpu, lapic, \* lapic: the APIC is mapped, so cpunum() can read the id
          lapicaddr,
          mpentry_kstack,
          core,        \* the processors by APIC id: [pc, stack, ts]
          lock,        \* holder of the kernel lock, an APIC id, or -1
          envs         \* environments that can run

josBootVars == <<mach, left, ap, phase, jcpus, ncpu, lapic, lapicaddr, mpentry_kstack, core, lock, envs>>

MainCalls == <<"trap_init", "mp_init", "lapic_init", "lock_kernel", "boot_aps", "ENV_CREATE", "sched_yield">>

Core0 == [pc |-> "halted", stack |-> -1, ts |-> -1]
HwIds(m) == {m.ids[j] : j \in 1..Len(m.ids)}

(* The boot processor runs on the stack of entry.S, which is processor 0's.*)
JosBootInit == /\ mach \in Machines
               /\ left = MainCalls /\ ap = 0 /\ phase = "next"
               /\ jcpus = [j \in 0..(JNCPU - 1) |-> "unused"]
               /\ ncpu = 0 /\ lapic = FALSE /\ lapicaddr = FALSE /\ mpentry_kstack = -1
               /\ core = [c \in HwIds(mach) |-> IF c = mach.bsp THEN [Core0 EXCEPT !.pc = "i386_init", !.stack = 0]
                                                ELSE Core0]
               /\ lock = -1 /\ envs = 0

BootCpu == mach.bsp
Calling(name) == core[BootCpu].pc = "i386_init" /\ left # <<>> /\ Head(left) = name
Returns == left' = Tail(left)
cpunum(c) == IF lapic THEN c ELSE 0

(* trap_init_percpu: thiscpu's task state, loaded from slot cpu_id, which  *)
(* mp_init makes its index.                                                *)
trap_init_percpu(c, then) == core' = [core EXCEPT ![c].ts = cpunum(c), ![c].pc = then]
trap_init == /\ Calling("trap_init") /\ trap_init_percpu(BootCpu, "i386_init") /\ Returns
             /\ UNCHANGED <<mach, ap, phase, jcpus, ncpu, lapic, lapicaddr, mpentry_kstack, lock, envs>>

(* mp_init counts at most NCPU processors, and one only if it meets an     *)
(* entry it does not know; bootcpu is the one flagged, started already.    *)
Least(a, b) == IF a < b THEN a ELSE b
bootcpu == CHOOSE j \in 0..(Len(mach.ids) - 1) : mach.ids[j + 1] = BootCpu
mp_init == /\ Calling("mp_init") /\ Returns
           /\ jcpus' = IF bootcpu \in DOMAIN jcpus THEN [jcpus EXCEPT ![bootcpu] = "started"] ELSE jcpus
           /\ ncpu' = IF mach.odd THEN 1 ELSE Least(JNCPU, Len(mach.ids))
           /\ lapicaddr' = ~mach.odd
           /\ UNCHANGED <<mach, ap, phase, lapic, mpentry_kstack, core, lock, envs>>

lapic_init == /\ Calling("lapic_init") /\ Returns
              /\ lapic' = lapicaddr
              /\ UNCHANGED <<mach, ap, phase, jcpus, ncpu, lapicaddr, mpentry_kstack, core, lock, envs>>

lock_kernel(c) == lock = -1 /\ lock' = c
init_lock == /\ Calling("lock_kernel") /\ lock_kernel(BootCpu) /\ Returns
             /\ UNCHANGED <<mach, ap, phase, jcpus, ncpu, lapic, lapicaddr, mpentry_kstack, core, envs>>

(* boot_aps: the stack for mpentry.S, INIT and STARTUP, the wait.          *)
boot_aps == /\ Calling("boot_aps") /\ phase = "next"
            /\ IF ap >= ncpu THEN Returns /\ UNCHANGED <<ap, phase, mpentry_kstack>>
               ELSE /\ left' = left
                    /\ IF ap = cpunum(BootCpu) THEN ap' = ap + 1 /\ UNCHANGED <<phase, mpentry_kstack>>
                       ELSE mpentry_kstack' = ap /\ phase' = "init" /\ ap' = ap
            /\ UNCHANGED <<mach, jcpus, ncpu, lapic, lapicaddr, core, lock, envs>>
lapic_startap == /\ Calling("boot_aps") /\ phase \in {"init", "startup", "again"}
                 /\ core' = IF ap \notin DOMAIN core THEN core
                            ELSE IF phase = "init" THEN [core EXCEPT ![ap] = [Core0 EXCEPT !.pc = "reset"]]
                            ELSE IF core[ap].pc = "reset" THEN [core EXCEPT ![ap].pc = "mpentry"]
                            ELSE core
                 /\ phase' = IF phase = "init" THEN "startup" ELSE IF phase = "startup" THEN "again" ELSE "wait"
                 /\ UNCHANGED <<mach, left, ap, jcpus, ncpu, lapic, lapicaddr, mpentry_kstack, lock, envs>>
Started(j) == jcpus[j] = "started"
boot_wait == /\ Calling("boot_aps") /\ phase = "wait" /\ Started(ap)
             /\ ap' = ap + 1 /\ phase' = "next"
             /\ UNCHANGED <<mach, left, jcpus, ncpu, lapic, lapicaddr, mpentry_kstack, core, lock, envs>>

ENV_CREATE == /\ Calling("ENV_CREATE") /\ Returns /\ envs' = 2
              /\ UNCHANGED <<mach, ap, phase, jcpus, ncpu, lapic, lapicaddr, mpentry_kstack, core, lock>>

(* mpentry.S takes its stack; mp_main sets up the processor, says so, and  *)
(* waits for the kernel lock.                                              *)
mpentry(c) == /\ core[c].pc = "mpentry"
              /\ core' = [core EXCEPT ![c].stack = mpentry_kstack, ![c].pc = "mp_main"]
              /\ UNCHANGED <<mach, left, ap, phase, jcpus, ncpu, lapic, lapicaddr, mpentry_kstack, lock, envs>>
mp_main(c) == /\ \/ /\ core[c].pc = "mp_main" /\ trap_init_percpu(c, "started")
                    /\ UNCHANGED <<jcpus, lock>>
                 \/ /\ core[c].pc = "started"
                    /\ jcpus' = [jcpus EXCEPT ![cpunum(c)] = "started"]
                    /\ core' = [core EXCEPT ![c].pc = "lock"] /\ lock' = lock
                 \/ /\ core[c].pc = "lock" /\ lock_kernel(c)
                    /\ core' = [core EXCEPT ![c].pc = "sched"] /\ jcpus' = jcpus
              /\ UNCHANGED <<mach, left, ap, phase, ncpu, lapic, lapicaddr, mpentry_kstack, envs>>

(* sched_yield: an environment if one can run, else the halt; with no      *)
(* environment at all, the monitor, in which the processor stays, with     *)
(* the lock.  A processor leaves the kernel by releasing the lock.         *)
boot_sched_yield(c) == /\ core[c].pc = "sched" \/ (c = BootCpu /\ Calling("sched_yield"))
                       /\ IF envs = 0 /\ ~\E d \in DOMAIN core : core[d].pc = "env"
                          THEN core' = [core EXCEPT ![c].pc = "monitor"] /\ UNCHANGED <<jcpus, lock, envs>>
                          ELSE /\ lock' = -1
                               /\ IF envs > 0 THEN /\ envs' = envs - 1 /\ jcpus' = jcpus
                                                   /\ core' = [core EXCEPT ![c].pc = "env"]
                                  ELSE /\ envs' = envs /\ jcpus' = [jcpus EXCEPT ![cpunum(c)] = "halted"]
                                       /\ core' = [core EXCEPT ![c].pc = "idle", ![c].stack = core[c].ts]
                       /\ UNCHANGED <<mach, left, ap, phase, ncpu, lapic, lapicaddr, mpentry_kstack>>

AllCores == UNION {HwIds(m) : m \in Machines}
Main == trap_init \/ mp_init \/ lapic_init \/ init_lock \/ boot_aps \/ lapic_startap \/ boot_wait \/ ENV_CREATE
Core(c) == c \in DOMAIN core /\ (mpentry(c) \/ mp_main(c) \/ boot_sched_yield(c))
JosBootNext == Main \/ \E c \in AllCores : Core(c)
JosBootSpec == JosBootInit /\ [][JosBootNext]_josBootVars

JosBootTypeOK == /\ ncpu \in 0..JNCPU /\ ap \in 0..JNCPU /\ lock \in AllCores \cup {-1}
                 /\ \A j \in DOMAIN jcpus : jcpus[j] \in {"unused", "started", "halted"}

-----------------------------------------------------------------------------
(* The machines the kernel is written for: APIC ids that count from 0 in   *)
(* table order, the boot processor being 0.                                *)
Regular == BootCpu = 0 /\ \A j \in 1..Len(mach.ids) : mach.ids[j] = j - 1

(* Each running processor has its own kernel stack and its own task state, *)
(* and the task state names that stack: mpentry_kstack is not changed      *)
(* before the processor it is meant for has read it.                       *)
Alive == {c \in DOMAIN core : core[c].stack >= 0}
OwnTaskState == Regular => \A c \in Alive : /\ core[c].ts >= 0 => core[c].ts = core[c].stack
                                            /\ \A d \in Alive : core[c].stack = core[d].stack => c = d

(* "Acquire the big kernel lock before waking up APs" (init.c): no         *)
(* processor is in the scheduler while another is in the kernel with the   *)
(* lock, and none before the first environments have been made.            *)
SchedulesAlone == /\ \A c \in DOMAIN core : core[c].pc = "sched" => lock = c /\ Len(left) <= 1
                  /\ \A c, d \in DOMAIN core : core[c].pc = "sched" /\ core[d].pc = "sched" => c = d

(* Every processor that mp_init counted comes to run an environment or to  *)
(* idle, and the boot rests nowhere else: boot_aps sees each one started,  *)
(* which holds only because none can go on to halt before the boot         *)
(* processor gives up the lock.                                            *)
Resting == ~ENABLED Main /\ \A c \in AllCores : ~ENABLED Core(c)
AllRun == Resting /\ Regular => ncpu > 0 /\ \A j \in 0..(ncpu - 1) : core[mach.ids[j + 1]].pc \in {"env", "idle"}
=============================================================================

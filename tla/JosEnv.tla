-------------------------------- MODULE JosEnv --------------------------------
(***************************************************************************)
(* Environments of JOS (src/oslab6/kern: env.c, sched.c, trap.c and the    *)
(* environment and IPC calls of syscall.c): creation, destruction, round   *)
(* robin scheduling and message passing on several CPUs.                   *)
(*                                                                         *)
(* The big kernel lock is taken on every entry from user mode and given    *)
(* back by env_run or sched_halt, so a step is one whole trap: the entry   *)
(* (trap), the handler, and the return to an environment or to the halted  *)
(* state.  Between two steps every CPU is in user mode or halted.          *)
(***************************************************************************)
EXTENDS Integers, Sequences, FiniteSets, Functions

CONSTANTS
    NENV,       \* environments are 0..NENV-1
    CPU,        \* the processors
    None,       \* a null pointer
    FirstEnvs,  \* how many environments i386_init creates
    Calls,      \* the system calls that environments make
    Careful,    \* the calls that are made only the way lib/ and user/ make them
    MaxGen,     \* generations before env_id turns negative (2^19 - 1 in the code)
    MaxBirths   \* bound: environments ever created

Env == 0..(NENV - 1)

ASSUME EnvConstants ==
    /\ NENV \in Nat \ {0} /\ FirstEnvs \in 1..NENV
    /\ MaxGen \in Nat \ {0} /\ MaxBirths \in Nat
    /\ None \notin Env \cup (Nat \X Env)
    /\ Careful \subseteq Calls
    /\ Calls \subseteq {"exofork", "set_status", "destroy", "ipc"}

VARIABLES
    status,    \* env_status
    gen,       \* the generation part of env_id; 0 before the first use
    parent,    \* env_parent_id, as <<generation, index>>
    pgdir,     \* 1 while the environment has a page directory
    free,      \* env_free_list
    recving,   \* env_ipc_recving
    from,      \* env_ipc_from; it stands for the value as well
    curenv,    \* cpus[c].cpu_env
    mode,      \* "user", "halted", or "monitor" (for good, with the lock)
    serial,    \* history: births, to tell environments of one slot apart
    birth,     \* history: the birth number of the environment in a slot
    creator,   \* history: the birth number of the one that created it
    inbox      \* history: messages accepted since its last sys_ipc_recv

idvars == <<gen, parent, serial, birth, creator>>
ipcvars == <<recving, from, inbox>>
vars == <<status, pgdir, free, curenv, mode, idvars, ipcvars>>

Status == {"FREE", "DYING", "RUNNABLE", "RUNNING", "NOT_RUNNABLE"}
EnvId == Nat \X Env
id(e) == <<gen[e], e>>

TypeOK ==
    /\ status \in [Env -> Status]
    /\ gen \in [Env -> Nat]
    /\ parent \in [Env -> EnvId \cup {None}]
    /\ pgdir \in [Env -> {0, 1}]
    /\ free \in Seq(Env)
    /\ recving \in [Env -> {0, 1}]
    /\ from \in [Env -> EnvId \cup {None}]
    /\ curenv \in [CPU -> Env \cup {None}]
    /\ mode \in [CPU -> {"user", "halted", "monitor"}]
    /\ serial \in Nat /\ birth \in [Env -> Nat] /\ creator \in [Env -> Nat]
    /\ inbox \in [Env -> Seq(EnvId)]

\* After env_create of the first environments; every CPU is about to schedule.
Init ==
    /\ status = [e \in Env |-> IF e < FirstEnvs THEN "RUNNABLE" ELSE "FREE"]
    /\ gen = [e \in Env |-> IF e < FirstEnvs THEN 1 ELSE 0]
    /\ parent = [e \in Env |-> None]
    /\ pgdir = [e \in Env |-> IF e < FirstEnvs THEN 1 ELSE 0]
    /\ free = [i \in 1..(NENV - FirstEnvs) |-> FirstEnvs + i - 1]
    /\ recving = [e \in Env |-> 0]
    /\ from = [e \in Env |-> None]
    /\ curenv = [c \in CPU |-> None]
    /\ mode = [c \in CPU |-> "halted"]
    /\ serial = FirstEnvs
    /\ birth = [e \in Env |-> IF e < FirstEnvs THEN e + 1 ELSE 0]
    /\ creator = [e \in Env |-> 0]
    /\ inbox = [e \in Env |-> <<>>]
-----------------------------------------------------------------------------
(* sched_yield, env_run, sched_halt.  They take the statuses st and the      *)
(* current environment cur that the handler has left.                        *)

\* Mutant: every search starts at envs[0].
Distance_zero(cur, e) == e % NENV

\* Position of e in the search that starts just after cur.
Distance(cur, e) == (e - (IF cur = None THEN 0 ELSE cur + 1)) % NENV

env_run(c, st, e) ==
    /\ status' = [i \in Env |-> IF i = e THEN "RUNNING"
                                ELSE IF i = curenv[c] /\ st[i] = "RUNNING" THEN "RUNNABLE"
                                ELSE st[i]]
    /\ curenv' = [curenv EXCEPT ![c] = e]
    /\ mode' = [mode EXCEPT ![c] = "user"]

sched_halt(c, st, cur) ==
    LET busy == \E e \in Env : st[e] \in {"RUNNABLE", "RUNNING", "DYING"}
    IN  /\ status' = st
        /\ curenv' = [curenv EXCEPT ![c] = IF busy THEN None ELSE cur]
        /\ mode' = [mode EXCEPT ![c] = IF busy THEN "halted" ELSE "monitor"]

sched_yield(c, st, cur) ==
    LET ready == {e \in Env : st[e] = "RUNNABLE"}
    IN  IF ready # {}
        THEN env_run(c, st, CHOOSE e \in ready :
                               \A f \in ready : Distance(cur, e) <= Distance(cur, f))
        ELSE IF cur # None /\ st[cur] = "RUNNING"
        THEN env_run(c, st, cur)
        ELSE sched_halt(c, st, cur)

\* The end of trap(): back to the current environment if it is RUNNING.
Return(c, st) ==
    IF st[curenv[c]] = "RUNNING" THEN env_run(c, st, curenv[c])
                                 ELSE sched_yield(c, st, curenv[c])
-----------------------------------------------------------------------------
(* trap *)

\* lock_kernel: a CPU in the monitor keeps the lock.
LockFree == \A c \in CPU : mode[c] # "monitor"

\* The environment on c traps, and has not been marked DYING meanwhile.
Entry(c) == LockFree /\ mode[c] = "user" /\ status[curenv[c]] # "DYING"
Syscall(c, call) == Entry(c) /\ call \in Calls

\* env_free, apart from env_status
env_free(e) ==
    /\ pgdir' = [pgdir EXCEPT ![e] = 0]
    /\ free' = <<e>> \o free
    /\ inbox' = [inbox EXCEPT ![e] = <<>>]

\* Any trap of an environment that another CPU has marked DYING.
trap_dying(c) ==
    /\ LockFree /\ mode[c] = "user" /\ status[curenv[c]] = "DYING"
    /\ env_free(curenv[c])
    /\ sched_yield(c, [status EXCEPT ![curenv[c]] = "FREE"], None)
    /\ UNCHANGED <<idvars, recving, from>>

\* The timer, on a running or a halted CPU; sys_yield does the same.
timer(c) ==
    /\ Entry(c) \/ (LockFree /\ mode[c] = "halted")
    /\ sched_yield(c, status, curenv[c])
    /\ UNCHANGED <<pgdir, free, idvars, ipcvars>>

\* sched_halt found nothing that can ever run: while (1) monitor(NULL).
monitor(c) == mode[c] = "monitor" /\ UNCHANGED vars
-----------------------------------------------------------------------------
(* System calls.  A call that returns an error changes nothing.             *)

\* envid2env with checkperm, for the id of e
envid2env(c, e) == status[e] # "FREE" /\ (e = curenv[c] \/ parent[e] = id(curenv[c]))

\* Mutant: env_destroy never defers.
RunsElsewhere_no(c, e) == FALSE

RunsElsewhere(c, e) == status[e] = "RUNNING" /\ e # curenv[c]

env_destroy(c, e) ==
    IF RunsElsewhere(c, e)
    THEN Return(c, [status EXCEPT ![e] = "DYING"]) /\ UNCHANGED <<pgdir, free, inbox>>
    ELSE /\ env_free(e)
         /\ LET st == [status EXCEPT ![e] = "FREE"]
            IN  IF e = curenv[c] THEN sched_yield(c, st, None) ELSE Return(c, st)

\* Also a fault that nothing handles (e = curenv).  No program of lib/ or user/
\* destroys a child twice.
sys_env_destroy(c, e) ==
    /\ Syscall(c, "destroy") /\ envid2env(c, e)
    /\ "destroy" \in Careful => status[e] # "DYING"
    /\ env_destroy(c, e)
    /\ UNCHANGED <<idvars, recving, from>>

Generation(e) == IF gen[e] < MaxGen THEN gen[e] + 1 ELSE 1

\* With env_alloc, which takes the head of the free list.
sys_exofork(c) ==
    /\ Syscall(c, "exofork")
    /\ free # <<>> /\ serial < MaxBirths
    /\ LET e == Head(free)
       IN  /\ gen' = [gen EXCEPT ![e] = Generation(e)]
           /\ parent' = [parent EXCEPT ![e] = id(curenv[c])]
           /\ pgdir' = [pgdir EXCEPT ![e] = 1]
           /\ recving' = [recving EXCEPT ![e] = 0]
           /\ birth' = [birth EXCEPT ![e] = serial + 1]
           /\ creator' = [creator EXCEPT ![e] = birth[curenv[c]]]
           /\ Return(c, [status EXCEPT ![e] = "NOT_RUNNABLE"])
    /\ free' = Tail(free)
    /\ serial' = serial + 1
    /\ UNCHANGED <<from, inbox>>

\* lib/fork.c and lib/spawn.c only start the child they have just made.
sys_env_set_status(c, e, s) ==
    /\ Syscall(c, "set_status") /\ envid2env(c, e)
    /\ "set_status" \in Careful =>
          s = "RUNNABLE" /\ status[e] = "NOT_RUNNABLE" /\ recving[e] = 0
    /\ Return(c, [status EXCEPT ![e] = s])
    /\ UNCHANGED <<pgdir, free, idvars, ipcvars>>

sys_ipc_recv(c) ==
    /\ Syscall(c, "ipc")
    /\ LET e == curenv[c]
       IN  /\ recving' = [recving EXCEPT ![e] = 1]
           /\ inbox' = [inbox EXCEPT ![e] = <<>>]
           /\ sched_yield(c, [status EXCEPT ![e] = "NOT_RUNNABLE"], e)
    /\ UNCHANGED <<pgdir, free, idvars, from>>

EndWait(e) == [recving EXCEPT ![e] = 0]

\* A send that succeeds.  The page that may go with it, and env_ipc_perm, belong
\* to memory and are left out.
sys_ipc_try_send(c, e) ==
    /\ Syscall(c, "ipc")
    /\ status[e] # "FREE" /\ recving[e] = 1
    /\ recving' = EndWait(e)
    /\ from' = [from EXCEPT ![e] = id(curenv[c])]
    /\ inbox' = [inbox EXCEPT ![e] = Append(@, id(curenv[c]))]
    /\ Return(c, [status EXCEPT ![e] = "RUNNABLE"])
    /\ UNCHANGED <<pgdir, free, idvars>>

Next ==
    \E c \in CPU :
        \/ timer(c) \/ trap_dying(c) \/ monitor(c) \/ sys_exofork(c)
        \/ \E e \in Env :
              \/ sys_env_destroy(c, e)
              \/ \E s \in {"RUNNABLE", "NOT_RUNNABLE"} : sys_env_set_status(c, e, s)
              \/ sys_ipc_try_send(c, e)
        \/ sys_ipc_recv(c)

Spec == Init /\ [][Next]_vars

\* Every CPU's timer interrupts user code again and again (lapic_init).
FairSpec == Spec /\ \A c \in CPU : WF_vars(timer(c) \/ trap_dying(c))
-----------------------------------------------------------------------------
\* sched_yield and env_run put no environment on two CPUs, and the ones on a CPU
\* are exactly those that are RUNNING or, when another CPU has destroyed them
\* meanwhile, DYING.
OneCPU ==
    /\ \A c, d \in CPU : curenv[c] # None /\ curenv[c] = curenv[d] => c = d
    /\ \A e \in Env : status[e] \in {"RUNNING", "DYING"}
                         <=> \E c \in CPU : curenv[c] = e /\ mode[c] = "user"

\* env_destroy (kern/env.c) does not free the page directory of an environment
\* that runs on another CPU before that environment traps: the directory
\* loaded in a CPU's cr3 is always allocated.
PgdirInUse == \A c \in CPU : mode[c] = "user" => pgdir[curenv[c]] = 1

\* env_alloc and env_free keep env_free_list: it holds each FREE environment
\* exactly once, and only these are without a page directory.
FreeList ==
    /\ TypeOK
    /\ IsInjective(free)
    /\ Range(free) = {e \in Env : status[e] = "FREE"}
    /\ \A e \in Env : pgdir[e] = 0 <=> status[e] = "FREE"

\* The test of env_parent_id in envid2env lets only the real parent of an
\* environment through, never a later environment in the parent's slot
\* (while fewer than MaxGen environments have used the slot).
OnlyParents ==
    \A e, f \in Env :
        status[e] # "FREE" /\ status[f] # "FREE" /\ parent[e] = id(f) => creator[e] = birth[f]

\* sys_ipc_try_send sets "env_ipc_recving ... to 0 to block future sends": each
\* sys_ipc_recv accepts one message, no second sender overwrites it before the
\* receiver asks again, and a receiver that waits does not run.
OneMessage ==
    \A e \in Env : status[e] # "FREE" =>
        /\ Len(inbox[e]) <= 1
        /\ inbox[e] # <<>> => from[e] = inbox[e][1] /\ recving[e] = 0
        /\ recving[e] = 1 => status[e] = "NOT_RUNNABLE"

\* Environments: the free list holds exactly the free slots, none runs on two
\* CPUs, no CPU runs on a page directory that was given back, an id of an
\* earlier environment is not taken for a later one, and of several senders
\* one delivers for each sys_ipc_recv (env.c, sched.c, syscall.c).
EnvSound == TypeOK /\ FreeList /\ OneCPU /\ PgdirInUse /\ OnlyParents /\ OneMessage

\* sched_yield starts behind the environment that ran last, but at envs[0] when
\* this CPU has just freed it (env_destroy and trap leave curenv NULL): a low slot
\* that creates children which exit can keep a CPU for ever.  Once no CPU loses
\* its environment that way any more, the search passes over nobody for ever: an
\* environment that is RUNNABLE gets a CPU or is destroyed.
RunnableRuns ==
    <>[][\A c \in DOMAIN curenv : curenv[c] # None => status'[curenv[c]] # "FREE"]_vars
       => \A e \in Env : status[e] = "RUNNABLE" ~> status[e] # "RUNNABLE"

\* The zombie test at the entry of trap() frees every environment that
\* env_destroy has marked DYING.
DyingFreed == \A e \in Env : status[e] = "DYING" ~> status[e] = "FREE"
=============================================================================

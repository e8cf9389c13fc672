----------------------------- MODULE MCProgress -----------------------------
(* Model-checking instance for the waiting in both kernels.  A behaviour is   *)
(* one of                                                                     *)
(*   proc   XvProc: processes of xv6 that sleep, or wait to be reaped,        *)
(*   env    JosEnv: environments of JOS that wait for a CPU, or to be freed,  *)
(*   uni    the same on a machine with one CPU,                               *)
(* with the fairness of that module's FairSpec; the others stay as            *)
(* initialised.                                                               *)
EXTENDS XvProc

VARIABLES
    part,
    status, gen, eparent, pgdir, free, recving, from, curenv, mode, serial, birth, creator,
    inbox

envVars == <<status, gen, eparent, pgdir, free, recving, from, curenv, mode, serial, birth,
             creator, inbox>>

Envs == INSTANCE JosEnv
           WITH NENV <- 3, FirstEnvs <- 3, MaxGen <- 1, MaxBirths <- 4, parent <- eparent,
                Calls <- {"exofork", "set_status", "destroy"},
                Careful <- {"set_status", "destroy"}
Uni == INSTANCE JosEnv
           WITH NENV <- 3, FirstEnvs <- 3, MaxGen <- 1, MaxBirths <- 4, parent <- eparent,
                Calls <- {"exofork", "set_status", "destroy"},
                Careful <- {"set_status", "destroy"}, CPU <- {Cpu0}

ProgressInit ==
    /\ Init
    /\ \/ part \in {"proc", "env"} /\ Envs!Init
       \/ part = "uni" /\ Uni!Init

\* The count of births is set back at its bound, so that environments come and go
\* for ever: it and the other history of births is read by no property below.
Forget ==
    /\ serial = 4 /\ serial' = 3
    /\ birth' = [e \in Envs!Env |-> e + 1] /\ creator' = [e \in Envs!Env |-> 0]
    /\ UNCHANGED <<status, gen, eparent, pgdir, free, recving, from, curenv, mode, inbox>>

ProcStep(A) == part = "proc" /\ A /\ UNCHANGED <<part, envVars>>
EnvStep(p, A) == part = p /\ A /\ UNCHANGED <<part, vars>>

ProgressNext ==
    \/ part = "proc" /\ Next /\ UNCHANGED <<part, envVars>>
    \/ part = "env" /\ Envs!Next /\ UNCHANGED <<part, vars>>
    \/ part = "uni" /\ Uni!Next /\ UNCHANGED <<part, vars>>
    \/ part # "proc" /\ Forget /\ UNCHANGED <<part, vars>>

\* xv6: a CPU that wants ptable.lock gets it and goes on, programs end, and
\* init calls wait.  JOS: each CPU takes its timer interrupts.
all == <<part, vars, envVars>>
ProgressSpec ==
    /\ ProgressInit /\ [][ProgressNext]_all
    /\ \A c \in CPU : SF_all(ProcStep(Kernel(c) \/ \E p \in Slot : trap(c, p)))
    /\ \A p \in Slot \ {initproc} : SF_all(ProcStep(\E c \in CPU : exit(c, p)))
    /\ SF_all(ProcStep(\E c \in CPU : wait_call(c, initproc)))
    /\ \A c \in CPU : WF_all(EnvStep("env", Envs!timer(c) \/ Envs!trap_dying(c)))
    /\ WF_all(EnvStep("uni", Uni!timer(Cpu0)))
-----------------------------------------------------------------------------
\* An environment that is marked RUNNABLE is run, unless a CPU loses its
\* environment to env_destroy again and again: sched_yield starts its search behind
\* the one that ran last only if that one still exists.  And one that env_destroy
\* marked DYING is freed when it next traps.
EnvProgress ==
    /\ part = "env" => Envs!RunnableRuns /\ Envs!DyingFreed
    /\ part = "uni" => Uni!RunnableRuns
=============================================================================

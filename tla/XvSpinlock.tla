------------------------------ MODULE XvSpinlock ------------------------------
(***************************************************************************)
(* Spinlocks of xv6 (src/xv6/spinlock.c): acquire, release, holding,       *)
(* pushcli and popcli, on several CPUs whose interrupt handlers take the   *)
(* same locks as the code they interrupt.                                  *)
(*                                                                         *)
(* A CPU runs in context <<c, 0>> (a process or the scheduler, interrupts  *)
(* enabled while it holds nothing) or <<c, 1>> (a handler entered through  *)
(* an interrupt gate).  Callers follow the kernel's lock order: a context  *)
(* acquires a lock above all locks that it holds itself.                   *)
(***************************************************************************)
EXTENDS Integers, FiniteSets

CONSTANTS
    CPU,      \* the processors
    Lock,     \* the locks, numbered in the order in which they are acquired
    None,     \* the null pointer of lk->cpu
    MaxCli    \* bound: pushcli calls of a context outside acquire

ASSUME LockConstants ==
    /\ None \notin CPU
    /\ Lock \subseteq Nat /\ IsFiniteSet(Lock)
    /\ MaxCli \in Nat

VARIABLES
    locked,   \* lk->locked
    lkcpu,    \* lk->cpu
    ncli,     \* c->ncli: depth of pushcli nesting
    intena,   \* c->intena: were interrupts enabled before the first pushcli?
    fl,       \* FL_IF of the CPU's eflags
    irq,      \* 1 while the CPU runs an interrupt handler
    pc,       \* where each context is
    want,     \* the lock the context is acquiring or releasing
    own,      \* the locks a context acquired and has not yet released
    cli,      \* pushcli calls of a context that are not part of acquire
    panicked  \* a CPU has called panic

vars == <<locked, lkcpu, ncli, intena, fl, irq, pc, want, own, cli, panicked>>

Context == CPU \X {0, 1}
Here(c) == <<c, irq[c]>>

TypeOK ==
    /\ locked \in [Lock -> {0, 1}]
    /\ lkcpu \in [Lock -> CPU \cup {None}]
    /\ ncli \in [CPU -> Int]
    /\ intena \in [CPU -> {0, 1}]
    /\ fl \in [CPU -> {0, 1}]
    /\ irq \in [CPU -> {0, 1}]
    /\ pc \in [Context -> {"run", "check", "spin", "record", "unlock", "popcli"}]
    /\ want \in [Context -> Lock \cup {None}]
    /\ own \in [Context -> SUBSET Lock]
    /\ cli \in [Context -> 0..MaxCli]
    /\ panicked \in {0, 1}

Init ==
    /\ locked = [l \in Lock |-> 0]
    /\ lkcpu = [l \in Lock |-> None]
    /\ ncli = [c \in CPU |-> 0]
    /\ intena = [c \in CPU |-> 0]
    /\ fl = [c \in CPU |-> 1]
    /\ irq = [c \in CPU |-> 0]
    /\ pc = [x \in Context |-> "run"]
    /\ want = [x \in Context |-> None]
    /\ own = [x \in Context |-> {}]
    /\ cli = [x \in Context |-> 0]
    /\ panicked = 0
-----------------------------------------------------------------------------
\* lock->locked && lock->cpu == mycpu()
holding(c, l) == locked[l] = 1 /\ lkcpu[l] = c

\* Mutant: pushcli records the flags at every level.
pushcli_always(c) ==
    /\ intena' = [intena EXCEPT ![c] = fl[c]]
    /\ fl' = [fl EXCEPT ![c] = 0]
    /\ ncli' = [ncli EXCEPT ![c] = @ + 1]

pushcli(c) ==
    /\ intena' = [intena EXCEPT ![c] = IF ncli[c] = 0 THEN fl[c] ELSE @]
    /\ fl' = [fl EXCEPT ![c] = 0]
    /\ ncli' = [ncli EXCEPT ![c] = @ + 1]

popcli(c) ==
    IF fl[c] = 1 \/ ncli[c] - 1 < 0
    THEN panicked' = 1 /\ UNCHANGED <<ncli, fl>>
    ELSE /\ ncli' = [ncli EXCEPT ![c] = @ - 1]
         /\ fl' = [fl EXCEPT ![c] = IF ncli[c] = 1 /\ intena[c] = 1 THEN 1 ELSE @]
         /\ UNCHANGED panicked

\* Mutant: acquire does not disable interrupts.
acquire_interruptible(c, l) ==
    /\ panicked = 0
    /\ pc[Here(c)] = "run"
    /\ \A m \in own[Here(c)] : m < l
    /\ pc' = [pc EXCEPT ![Here(c)] = "check"]
    /\ want' = [want EXCEPT ![Here(c)] = l]
    /\ ncli' = [ncli EXCEPT ![c] = @ + 1]
    /\ UNCHANGED <<locked, lkcpu, intena, fl, irq, own, cli, panicked>>

\* acquire, in four steps: pushcli, the test of holding, xchg, lk->cpu.
acquire(c, l) ==
    /\ panicked = 0
    /\ pc[Here(c)] = "run"
    /\ \A m \in own[Here(c)] : m < l
    /\ pushcli(c)
    /\ pc' = [pc EXCEPT ![Here(c)] = "check"]
    /\ want' = [want EXCEPT ![Here(c)] = l]
    /\ UNCHANGED <<locked, lkcpu, irq, own, cli, panicked>>

\* holding's own pushcli and popcli cancel out.
acquire_check(c) ==
    /\ panicked = 0
    /\ pc[Here(c)] = "check"
    /\ IF holding(c, want[Here(c)])
       THEN panicked' = 1 /\ UNCHANGED pc
       ELSE pc' = [pc EXCEPT ![Here(c)] = "spin"] /\ UNCHANGED panicked
    /\ UNCHANGED <<locked, lkcpu, ncli, intena, fl, irq, want, own, cli>>

\* Mutant: the exchange is a test followed by a store.
acquire_xchg_torn(c) ==
    /\ panicked = 0
    /\ pc[Here(c)] = "spin"
    /\ locked' = [locked EXCEPT ![want[Here(c)]] = 1]
    /\ pc' = [pc EXCEPT ![Here(c)] = "record"]
    /\ UNCHANGED <<lkcpu, ncli, intena, fl, irq, want, own, cli, panicked>>

\* One turn of the loop: xchg stores 1 and returns the old value.
acquire_xchg(c) ==
    /\ panicked = 0
    /\ pc[Here(c)] = "spin"
    /\ locked' = [locked EXCEPT ![want[Here(c)]] = 1]
    /\ pc' = [pc EXCEPT ![Here(c)] = IF locked[want[Here(c)]] = 0 THEN "record" ELSE @]
    /\ UNCHANGED <<lkcpu, ncli, intena, fl, irq, want, own, cli, panicked>>

acquire_record(c) ==
    /\ panicked = 0
    /\ pc[Here(c)] = "record"
    /\ lkcpu' = [lkcpu EXCEPT ![want[Here(c)]] = c]
    /\ own' = [own EXCEPT ![Here(c)] = @ \cup {want[Here(c)]}]
    /\ pc' = [pc EXCEPT ![Here(c)] = "run"]
    /\ UNCHANGED <<locked, ncli, intena, fl, irq, want, cli, panicked>>

\* release, in three steps: the test and lk->cpu, the store, popcli.
release(c, l) ==
    /\ panicked = 0
    /\ pc[Here(c)] = "run"
    /\ l \in own[Here(c)]
    /\ IF ~holding(c, l)
       THEN panicked' = 1 /\ UNCHANGED <<lkcpu, own, pc, want>>
       ELSE /\ lkcpu' = [lkcpu EXCEPT ![l] = None]
            /\ own' = [own EXCEPT ![Here(c)] = @ \ {l}]
            /\ want' = [want EXCEPT ![Here(c)] = l]
            /\ pc' = [pc EXCEPT ![Here(c)] = "unlock"]
            /\ UNCHANGED panicked
    /\ UNCHANGED <<locked, ncli, intena, fl, irq, cli>>

release_store(c) ==
    /\ panicked = 0
    /\ pc[Here(c)] = "unlock"
    /\ locked' = [locked EXCEPT ![want[Here(c)]] = 0]
    /\ pc' = [pc EXCEPT ![Here(c)] = "popcli"]
    /\ UNCHANGED <<lkcpu, ncli, intena, fl, irq, want, own, cli, panicked>>

release_popcli(c) ==
    /\ panicked = 0
    /\ pc[Here(c)] = "popcli"
    /\ popcli(c)
    /\ pc' = [pc EXCEPT ![Here(c)] = "run"]
    /\ UNCHANGED <<locked, lkcpu, intena, irq, want, own, cli>>

\* pushcli and popcli of myproc and switchuvm, around a use of mycpu().
Pushcli(c) ==
    /\ panicked = 0
    /\ pc[Here(c)] = "run"
    /\ cli[Here(c)] < MaxCli
    /\ pushcli(c)
    /\ cli' = [cli EXCEPT ![Here(c)] = @ + 1]
    /\ UNCHANGED <<locked, lkcpu, irq, pc, want, own, panicked>>

Popcli(c) ==
    /\ panicked = 0
    /\ pc[Here(c)] = "run"
    /\ cli[Here(c)] > 0
    /\ popcli(c)
    /\ cli' = [cli EXCEPT ![Here(c)] = @ - 1]
    /\ UNCHANGED <<locked, lkcpu, intena, irq, pc, want, own>>

\* The hardware enters a handler through an interrupt gate, and iret leaves.
Interrupt(c) ==
    /\ panicked = 0
    /\ irq[c] = 0
    /\ fl[c] = 1
    /\ irq' = [irq EXCEPT ![c] = 1]
    /\ fl' = [fl EXCEPT ![c] = 0]
    /\ UNCHANGED <<locked, lkcpu, ncli, intena, pc, want, own, cli, panicked>>

Iret(c) ==
    /\ panicked = 0
    /\ irq[c] = 1
    /\ pc[Here(c)] = "run"
    /\ own[Here(c)] = {} /\ cli[Here(c)] = 0
    /\ irq' = [irq EXCEPT ![c] = 0]
    /\ fl' = [fl EXCEPT ![c] = 1]
    /\ UNCHANGED <<locked, lkcpu, ncli, intena, pc, want, own, cli, panicked>>

Step(c) ==
    \/ \E l \in Lock : acquire(c, l) \/ release(c, l)
    \/ acquire_check(c) \/ acquire_xchg(c) \/ acquire_record(c)
    \/ release_store(c) \/ release_popcli(c)
    \/ Pushcli(c) \/ Popcli(c)
    \/ Interrupt(c) \/ Iret(c)

Next == \E c \in CPU : Step(c)

Spec == Init /\ [][Next]_vars
-----------------------------------------------------------------------------
\* x has won the xchg of l and has not yet stored 0 into it.
Inside(x, l) ==
    l \in own[x] \/ (want[x] = l /\ pc[x] \in {"record", "unlock"})

\* spinlock.c:32: at most one context of all CPUs is between the xchg of a
\* lock and the store that frees it, and lk->locked tells whether one is.
MutualExclusion ==
    \A l \in Lock :
        /\ \A x, y \in Context : Inside(x, l) /\ Inside(y, l) => x = y
        /\ locked[l] = 1 <=> \E x \in Context : Inside(x, l)

\* spinlock.c:28, 49, 119 and 121: no caller that follows the lock order ever
\* reaches a panic of acquire, release or popcli, not even from a handler.
NoPanic == panicked = 0

\* spinlock.c:27 "disable interrupts to avoid deadlock": while a CPU holds or
\* waits for a lock no handler can start on it, and when it holds nothing its
\* interrupt flag is what it was before the first pushcli.
InterruptsMatch ==
    \A c \in CPU :
        fl[c] = IF ncli[c] = 0 /\ irq[c] = 0 THEN 1 ELSE 0

\* holding() reads locked and cpu without the lock; its answer is exact for
\* the CPU that asks: true exactly of the locks that CPU has acquired.
HoldingExact ==
    \A c \in CPU, l \in Lock :
        holding(c, l) <=> \E k \in {0, 1} : l \in own[<<c, k>>]

\* Nothing is in progress in x.
Idle(x) == pc[x] = "run" /\ own[x] = {} /\ cli[x] = 0

\* Where contexts can be: only the current one of a CPU is active, it wants a
\* lock while it is inside acquire or release, and that lock is a new one.
ControlInv ==
    /\ \A c \in CPU : Idle(<<c, 1 - irq[c]>>)
    /\ \A x \in Context :
        /\ pc[x] # "run" => want[x] \in Lock
        /\ pc[x] \in {"check", "spin", "record"} => \A m \in own[x] : m < want[x]
        /\ pc[x] = "unlock" => want[x] \notin own[x]

\* c->ncli counts the locks, the other pushcli calls and the lock operation
\* in progress, and c->intena is the flag of the current context.
CliInv ==
    \A c \in CPU :
        /\ ncli[c] = Cardinality(own[Here(c)]) + cli[Here(c)]
                       + (IF pc[Here(c)] = "run" THEN 0 ELSE 1)
        /\ ncli[c] > 0 => intena[c] = 1 - irq[c]

\* lk->cpu names the CPU whose current context has the lock.
OwnerInv ==
    \A c \in CPU, l \in Lock : lkcpu[l] = c <=> l \in own[Here(c)]

\* The inductive invariant of Spec: the type invariant and what each step of
\* spinlock.c relies on.  HoldingExact follows from it.
IndInv ==
    /\ TypeOK /\ ControlInv /\ CliInv /\ OwnerInv
    /\ MutualExclusion /\ InterruptsMatch /\ NoPanic
=============================================================================

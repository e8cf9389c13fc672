------------------------------ MODULE JosProofs ------------------------------
(***************************************************************************)
(* Proofs about JosEnv and JosServe: an inductive invariant of the         *)
(* environment table, the scheduler and the message calls, for any number  *)
(* of environments and CPUs, with the properties that follow from it; and  *)
(* that the reference count of a descriptor page, which clients change     *)
(* behind the file server's back, is enough for the server to tell which   *)
(* slots are in use, for any number of clients, descriptors and slots.     *)
(***************************************************************************)
EXTENDS JosEnv, JosServe, FiniteSetTheorems, TLAPS

\* The provers of the leaves that do not name their own, in the order of the trials.
USE SMTT(30), SMTT(60), Zenon

\* The hypothesis of the theorems: sys_env_set_status and sys_env_destroy are
\* called as lib/ and user/ call them.
CarefulCalls == {"set_status", "destroy"} \cap Calls \subseteq Careful

\* What a CPU is doing and what it has for curenv.
CpuInv ==
    \A c \in CPU : /\ mode[c] = "user" => curenv[c] \in Env
                   /\ mode[c] = "halted" => curenv[c] = None

\* Messages of environments that wait for one, or do not exist.
InboxInv == \A e \in Env : status[e] = "FREE" \/ recving[e] = 1 => inbox[e] = <<>>

EnvInv == TypeOK /\ OneCPU /\ CpuInv /\ FreeList /\ InboxInv /\ OneMessage

\* An id in env_parent_id belongs to the creator, or to nobody any more.
ParentInv ==
    /\ \A e \in Env : gen[e] <= serial
    /\ \A e, f \in Env : \A g \in Nat :
          parent[e] = <<g, f>> => g <= gen[f] /\ (g = gen[f] => creator[e] = birth[f])
-----------------------------------------------------------------------------
(* The scheduler. *)

\* e runs on a CPU other than c.
Elsewhere(c, e) == \E d \in CPU \ {c} : mode[d] = "user" /\ curenv[d] = e

\* The statuses st that a handler on c leaves to the scheduler.
Handed(c, st) ==
    /\ st \in [Env -> Status]
    /\ \A e \in Env : st[e] \in {"RUNNING", "DYING"} =>
                         Elsewhere(c, e) \/ (e = curenv[c] /\ st[e] = "RUNNING")
    /\ \A e \in Env : Elsewhere(c, e) => st[e] \in {"RUNNING", "DYING"}

\* What the scheduler makes of them.
Settled(st) ==
    /\ status' \in [Env -> Status]
    /\ curenv' \in [CPU -> Env \cup {None}]
    /\ mode' \in [CPU -> {"user", "halted", "monitor"}]
    /\ OneCPU' /\ CpuInv'
    /\ \A e \in Env : \/ status'[e] = st[e]
                      \/ status'[e] \in {"RUNNABLE", "RUNNING"} /\ st[e] \in {"RUNNABLE", "RUNNING"}

\* env_run of an environment that nobody else runs.
LEMMA Run ==
    ASSUME EnvInv, NEW c \in CPU, LockFree, NEW st, Handed(c, st), NEW e \in Env,
           st[e] = "RUNNABLE" \/ (e = curenv[c] /\ st[e] = "RUNNING"), env_run(c, st, e)
    PROVE  Settled(st)
<1> USE EnvConstants
<1>t. /\ curenv \in [CPU -> Env \cup {None}] /\ mode \in [CPU -> {"user", "halted", "monitor"}]
      /\ st \in [Env -> Status]
  BY Zenon DEF EnvInv, TypeOK, Handed
<1>0. /\ status' = [i \in Env |-> IF i = e THEN "RUNNING"
                                  ELSE IF i = curenv[c] /\ st[i] = "RUNNING" THEN "RUNNABLE"
                                  ELSE st[i]]
      /\ curenv' = [curenv EXCEPT ![c] = e] /\ mode' = [mode EXCEPT ![c] = "user"]
  BY Zenon DEF env_run
<1>1. /\ status' \in [Env -> Status] /\ curenv' \in [CPU -> Env \cup {None}]
      /\ mode' \in [CPU -> {"user", "halted", "monitor"}]
  BY <1>0, <1>t, Zenon DEF Status
<1>2. \A f \in Env : \/ status'[f] = st[f]
                     \/ status'[f] \in {"RUNNABLE", "RUNNING"} /\ st[f] \in {"RUNNABLE", "RUNNING"}
  BY <1>0, Zenon
<1>n. ~Elsewhere(c, e) /\ (curenv[c] \in Env => ~Elsewhere(c, curenv[c]))
  BY <1>t DEF Elsewhere, Handed, EnvInv, OneCPU
<1>d. \A d \in CPU \ {c} : mode[d] = "user" \/ curenv[d] = None
  BY <1>t, Zenon DEF LockFree, EnvInv, CpuInv
<1>3. \A d \in CPU \ {c} : curenv[d] # e
  BY <1>n, <1>d, Zenon DEF Elsewhere
<1>4. CpuInv'
  BY <1>0, <1>t, Zenon DEF EnvInv, CpuInv
<1>5. \A a, b \in CPU : curenv'[a] # None /\ curenv'[a] = curenv'[b] => a = b
  BY <1>0, <1>t, <1>3 DEF EnvInv, OneCPU
<1>6. \A f \in Env : Elsewhere(c, f)' <=> Elsewhere(c, f)
  BY <1>0, <1>t, Zenon DEF Elsewhere
<1>7. \A f \in Env : (\E d \in CPU : curenv'[d] = f /\ mode'[d] = "user") <=> f = e \/ Elsewhere(c, f)
  BY <1>0, <1>t, Zenon DEF Elsewhere
<1>8. \A f \in Env : status'[f] \in {"RUNNING", "DYING"} <=> f = e \/ Elsewhere(c, f)
  <2> TAKE f \in Env
  <2>1. CASE f = e
    BY <1>0, <2>1, Zenon
  <2>2. CASE f # e /\ f = curenv[c]
    BY <1>0, <1>n, <2>2, Zenon DEF Handed
  <2>3. CASE f # e /\ f # curenv[c]
    BY <1>0, <2>3, Zenon DEF Handed
  <2> QED  BY <2>1, <2>2, <2>3, Zenon
<1>9. OneCPU'
  BY <1>5, <1>7, <1>8, Zenon DEF OneCPU
<1> QED  BY <1>1, <1>2, <1>4, <1>9, Zenon DEF Settled

\* sched_halt gives up curenv, or enters the monitor when nothing is left to run.
LEMMA Halt ==
    ASSUME EnvInv, NEW c \in CPU, LockFree, NEW st, Handed(c, st), NEW cur,
           cur = curenv[c] \/ cur = None, curenv[c] \in Env => st[curenv[c]] # "RUNNING",
           \A e \in Env : st[e] # "RUNNABLE", sched_halt(c, st, cur)
    PROVE  Settled(st)
<1> USE EnvConstants
<1> DEFINE busy == \E e \in Env : st[e] \in {"RUNNABLE", "RUNNING", "DYING"}
<1>t. /\ curenv \in [CPU -> Env \cup {None}] /\ mode \in [CPU -> {"user", "halted", "monitor"}]
      /\ st \in [Env -> Status]
  BY Zenon DEF EnvInv, TypeOK, Handed
<1>0. /\ status' = st
      /\ curenv' = [curenv EXCEPT ![c] = IF busy THEN None ELSE cur]
      /\ mode' = [mode EXCEPT ![c] = IF busy THEN "halted" ELSE "monitor"]
  BY Zenon DEF sched_halt
<1>b. busy \/ \A e \in Env : ~Elsewhere(c, e)
  BY Zenon DEF Handed
<1>1. /\ status' \in [Env -> Status] /\ curenv' \in [CPU -> Env \cup {None}]
      /\ mode' \in [CPU -> {"user", "halted", "monitor"}]
  BY <1>0, <1>t, Zenon
<1>2. \A f \in Env : status'[f] = st[f]
  BY <1>0, Zenon
<1>4. CpuInv'
  BY <1>0, <1>t, Zenon DEF EnvInv, CpuInv
<1>5. \A a, b \in CPU : curenv'[a] # None /\ curenv'[a] = curenv'[b] => a = b
  BY <1>0, <1>t DEF EnvInv, OneCPU
<1>7. \A f \in Env : (\E d \in CPU : curenv'[d] = f /\ mode'[d] = "user") <=> Elsewhere(c, f)
  BY <1>0, <1>t, Zenon DEF Elsewhere
<1>8. \A f \in Env : st[f] \in {"RUNNING", "DYING"} <=> Elsewhere(c, f)
  BY Zenon DEF Handed
<1>9. OneCPU'
  BY <1>2, <1>5, <1>7, <1>8, Zenon DEF OneCPU
<1> QED  BY <1>1, <1>2, <1>4, <1>9, Zenon DEF Settled

\* The search of sched_yield ends at a RUNNABLE environment if there is one.
LEMMA SearchFinds ==
    ASSUME NEW cur \in Env \cup {None}, NEW S \in SUBSET Env, S # {}
    PROVE  (CHOOSE e \in S : \A f \in S : Distance(cur, e) <= Distance(cur, f)) \in S
<1> USE EnvConstants
<1> DEFINE R == OpToRel(<, Nat)
           T == {Distance(cur, e) : e \in S}
<1>1. IsWellFoundedOn(R, Nat)
  BY NatLessThanWellFounded, Zenon
<1>2. \A e \in S : Distance(cur, e) \in Nat
  BY DEF Distance, Env
<1>3. T \subseteq Nat /\ T # {}
  BY <1>2
<1> HIDE DEF R
<1>4. PICK m \in T : \A n \in T : ~(<<n, m>> \in R)
  <2> HIDE DEF T
  <2> QED  BY <1>1, <1>3, WFMin, Zenon
<1>5. \A n \in T : m <= n
  <2> TAKE n \in T
  <2>1. m \in Nat /\ n \in Nat
    BY <1>3, Zenon
  <2>2. ~(n < m)
    BY <1>4, <2>1, Zenon DEF R, OpToRel
  <2> QED  BY <2>1, <2>2
<1>6. PICK e \in S : m = Distance(cur, e)
  BY Zenon
<1>7. \A f \in S : Distance(cur, e) <= Distance(cur, f)
  BY <1>5, <1>6
<1> QED  BY <1>7, Zenon

\* sched_yield picks an environment that no other CPU runs, or halts.
LEMMA Yield ==
    ASSUME EnvInv, NEW c \in CPU, LockFree, NEW st, Handed(c, st),
           NEW cur, cur = curenv[c] \/ (cur = None /\ (curenv[c] \in Env => st[curenv[c]] # "RUNNING")),
           sched_yield(c, st, cur)
    PROVE  Settled(st)
<1> USE EnvConstants
<1> DEFINE ready == {e \in Env : st[e] = "RUNNABLE"}
           pick == CHOOSE e \in ready : \A f \in ready : Distance(cur, e) <= Distance(cur, f)
<1>t. curenv[c] \in Env \cup {None} /\ cur \in Env \cup {None}
  BY Zenon DEF EnvInv, TypeOK
<1>1. CASE ready # {}
  <2>0. ready \in SUBSET Env
    BY Zenon
  <2>1. pick \in ready
    <3> HIDE DEF ready
    <3> QED  BY <1>1, <1>t, <2>0, SearchFinds, Zenon
  <2>2. env_run(c, st, pick)
    BY <1>1, Zenon DEF sched_yield
  <2> HIDE DEF pick
  <2>3. pick \in Env /\ st[pick] = "RUNNABLE"
    BY <2>1, Zenon
  <2> QED  BY <2>2, <2>3, Run, Zenon
<1>2. CASE ready = {} /\ cur # None /\ st[cur] = "RUNNING"
  <2>1. env_run(c, st, cur)
    BY <1>2, Zenon DEF sched_yield
  <2> QED  BY <1>2, <1>t, <2>1, Run, Zenon
<1>3. CASE ready = {} /\ ~(cur # None /\ st[cur] = "RUNNING")
  <2>1. sched_halt(c, st, cur)
    BY <1>3, Zenon DEF sched_yield
  <2>2. curenv[c] \in Env => st[curenv[c]] # "RUNNING"
    BY <1>3, Zenon
  <2> QED  BY <1>3, <2>1, <2>2, Halt, Zenon
<1> QED  BY <1>1, <1>2, <1>3, Zenon

\* The return from a trap: to curenv, or through sched_yield.
LEMMA Back ==
    ASSUME EnvInv, NEW c \in CPU, LockFree, mode[c] = "user", NEW st, Handed(c, st), Return(c, st)
    PROVE  Settled(st)
<1>1. curenv[c] \in Env
  BY Zenon DEF EnvInv, CpuInv
<1>2. CASE st[curenv[c]] = "RUNNING"
  BY <1>1, <1>2, Run, Zenon DEF Return
<1>3. CASE st[curenv[c]] # "RUNNING"
  BY <1>3, Yield, Zenon DEF Return
<1> QED  BY <1>2, <1>3, Zenon

\* At the entry of a trap the environment on c is RUNNING, and nowhere else.
LEMMA AtEntry ==
    ASSUME EnvInv, NEW c \in CPU, LockFree
    PROVE  /\ \A e \in Env : status[e] \in {"RUNNING", "DYING"} <=>
                  Elsewhere(c, e) \/ (e = curenv[c] /\ mode[c] = "user")
           /\ mode[c] = "user" => curenv[c] \in Env /\ ~Elsewhere(c, curenv[c])
<1>1. \A e \in Env : (\E d \in CPU : curenv[d] = e /\ mode[d] = "user") <=>
           Elsewhere(c, e) \/ (e = curenv[c] /\ mode[c] = "user")
  BY Zenon DEF Elsewhere
<1>2. mode[c] = "user" => curenv[c] \in Env
  BY Zenon DEF EnvInv, CpuInv
<1>3. mode[c] = "user" => ~Elsewhere(c, curenv[c])
  BY <1>2, EnvConstants DEF Elsewhere, EnvInv, OneCPU
<1> QED  BY <1>1, <1>2, <1>3, Zenon DEF EnvInv, OneCPU
-----------------------------------------------------------------------------
(* The free list. *)

\* env_free puts e at the front of env_free_list.
LEMMA FreePush ==
    ASSUME EnvInv, NEW e \in Env, status[e] # "FREE", free' = <<e>> \o free
    PROVE  /\ free' \in Seq(Env) /\ IsInjective(free')
           /\ Range(free') = {f \in Env : status[f] = "FREE" \/ f = e}
<1>1. free \in Seq(Env) /\ IsInjective(free) /\ Range(free) = {f \in Env : status[f] = "FREE"}
  BY Zenon DEF EnvInv, FreeList, TypeOK
<1>2. /\ free' \in Seq(Env) /\ Len(free') = Len(free) + 1 /\ Len(free) \in Nat
      /\ free'[1] = e /\ \A i \in 1..Len(free) : free'[i + 1] = free[i]
  BY <1>1
<1>3. \A i \in 1..Len(free') : i = 1 \/ (i - 1 \in 1..Len(free) /\ free'[i] = free[i - 1])
  <2> TAKE i \in 1..Len(free')
  <2>1. i # 1 => i - 1 \in 1..Len(free) /\ (i - 1) + 1 = i
    BY <1>2
  <2> QED  BY <1>2, <2>1, Zenon
<1>4. DOMAIN free = 1..Len(free) /\ DOMAIN free' = 1..Len(free')
  BY <1>1, <1>2
<1>5. \A i \in 1..Len(free) : free[i] \in Range(free) /\ free[i] # e
  BY <1>1, <1>4, Zenon DEF Range
<1>6. IsInjective(free')
  <2> SUFFICES ASSUME NEW i \in 1..Len(free'), NEW j \in 1..Len(free'), free'[i] = free'[j]
               PROVE  i = j
    BY <1>4, Zenon DEF IsInjective
  <2>1. CASE i = 1 \/ j = 1
    BY <1>2, <1>3, <1>5, <2>1, Zenon
  <2>2. CASE i # 1 /\ j # 1
    <3>1. i - 1 \in 1..Len(free) /\ j - 1 \in 1..Len(free) /\ free[i - 1] = free[j - 1]
      BY <1>3, <1>4, <2>2
    <3>2. \A a, b \in 1..Len(free) : free[a] = free[b] => a = b
      BY <1>1, <1>4, Zenon DEF IsInjective
    <3>3. i - 1 = j - 1
      BY <3>1, <3>2, Zenon
    <3> QED  BY <1>2, <3>3
  <2> QED  BY <2>1, <2>2, Zenon
<1>7. \A f : f \in Range(free') <=> f \in Range(free) \/ f = e
  <2> TAKE f
  <2>1. f \in Range(free') <=> \E i \in 1..Len(free') : free'[i] = f
    BY <1>4, Zenon DEF Range
  <2>2. f \in Range(free) <=> \E i \in 1..Len(free) : free[i] = f
    BY <1>4, Zenon DEF Range
  <2>3. \A i \in 1..Len(free) : i + 1 \in 1..Len(free')
    BY <1>2
  <2>4. 1 \in 1..Len(free')
    BY <1>2
  <2> QED  BY <1>2, <1>3, <2>1, <2>2, <2>3, <2>4, Zenon
<1> QED  BY <1>1, <1>2, <1>6, <1>7, Zenon

\* env_alloc takes the first of env_free_list.
LEMMA FreePop ==
    ASSUME EnvInv, free # <<>>, free' = Tail(free)
    PROVE  /\ Head(free) \in Env /\ status[Head(free)] = "FREE"
           /\ free' \in Seq(Env) /\ IsInjective(free')
           /\ Range(free') = {f \in Env : status[f] = "FREE" /\ f # Head(free)}
<1>1. free \in Seq(Env) /\ IsInjective(free) /\ Range(free) = {f \in Env : status[f] = "FREE"}
  BY Zenon DEF EnvInv, FreeList, TypeOK
<1>2. /\ free' \in Seq(Env) /\ Len(free') = Len(free) - 1 /\ Len(free) \in Nat \ {0}
      /\ Head(free) = free[1] /\ \A i \in 1..Len(free') : free'[i] = free[i + 1]
  BY <1>1
<1>4. DOMAIN free = 1..Len(free) /\ DOMAIN free' = 1..Len(free')
  BY <1>1, <1>2
<1>3. \A i \in 1..Len(free') : i + 1 \in 1..Len(free) /\ i + 1 # 1
  BY <1>2
<1>5. Head(free) \in Range(free)
  <2>1. 1 \in DOMAIN free
    BY <1>2, <1>4
  <2> QED  BY <1>2, <2>1, Zenon DEF Range
<1>6. IsInjective(free')
  <2> SUFFICES ASSUME NEW i \in 1..Len(free'), NEW j \in 1..Len(free'), free'[i] = free'[j]
               PROVE  i = j
    BY <1>4, Zenon DEF IsInjective
  <2>1. i + 1 = j + 1
    BY <1>1, <1>2, <1>3, <1>4 DEF IsInjective
  <2> QED  BY <1>2, <2>1
<1>7. \A f : f \in Range(free') <=> f \in Range(free) /\ f # Head(free)
  <2> TAKE f
  <2>1. f \in Range(free') <=> \E i \in 1..Len(free') : free'[i] = f
    BY <1>4, Zenon DEF Range
  <2>2. f \in Range(free) <=> \E i \in 1..Len(free) : free[i] = f
    BY <1>4, Zenon DEF Range
  <2>3. \A i \in 1..Len(free) : i # 1 => i - 1 \in 1..Len(free') /\ (i - 1) + 1 = i
    BY <1>2
  <2>4. \A i \in 1..Len(free') : free[i + 1] # free[1]
    <3>1. 1 \in 1..Len(free)
      BY <1>2
    <3> QED  BY <1>1, <1>3, <1>4, <3>1, Zenon DEF IsInjective
  <2>5. ASSUME NEW i \in 1..Len(free'), free'[i] = f PROVE f \in Range(free) /\ f # Head(free)
    BY <1>2, <1>3, <2>2, <2>4, <2>5, Zenon
  <2>6. ASSUME NEW i \in 1..Len(free), free[i] = f, f # Head(free) PROVE f \in Range(free')
    <3>1. i - 1 \in 1..Len(free') /\ free'[i - 1] = f
      BY <1>2, <2>3, <2>6, Zenon
    <3> QED  BY <2>1, <3>1
  <2> QED  BY <2>1, <2>2, <2>5, <2>6, Zenon
<1> QED  BY <1>1, <1>2, <1>5, <1>6, <1>7, Zenon
-----------------------------------------------------------------------------
(* The steps.  Each hands its statuses to the scheduler; what is left to show *)
(* is about the free list and the messages.                                   *)

\* A step that neither creates nor frees.
LEMMA SameSlots ==
    ASSUME EnvInv, NEW st, Settled(st), \A e \in Env : st[e] = "FREE" <=> status[e] = "FREE",
           UNCHANGED <<pgdir, free>>, TypeOK'
    PROVE  FreeList'
<1>1. \A e \in Env : status'[e] = "FREE" <=> status[e] = "FREE"
  BY Zenon DEF Settled
<1> QED  BY <1>1, Zenon DEF EnvInv, FreeList

\* A step without messages.
LEMMA SameMessages ==
    ASSUME EnvInv, NEW st, Settled(st), UNCHANGED ipcvars,
           \A e \in Env : (st[e] = "FREE" <=> status[e] = "FREE") /\
                          (st[e] # "NOT_RUNNABLE" => status[e] # "NOT_RUNNABLE" \/ recving[e] = 0)
    PROVE  InboxInv' /\ OneMessage'
<1> USE DEF ipcvars
<1>1. \A e \in Env : /\ status'[e] = "FREE" <=> status[e] = "FREE"
                     /\ status'[e] # "NOT_RUNNABLE" => status[e] # "NOT_RUNNABLE" \/ recving[e] = 0
  BY Zenon DEF Settled
<1>2. InboxInv'
  BY <1>1, Zenon DEF EnvInv, InboxInv
<1>3. OneMessage'
  BY <1>1 DEF EnvInv, OneMessage, TypeOK
<1> QED  BY <1>2, <1>3, Zenon

\* The timer's sched_yield makes curenv RUNNABLE and picks another.
LEMMA Step_timer ==
    ASSUME EnvInv, NEW c \in CPU, timer(c)
    PROVE  EnvInv'
<1> USE DEF idvars, ipcvars
<1>0. LockFree
  BY Zenon DEF timer, Entry
<1>h. Handed(c, status)
  <2>1. mode[c] = "user" => status[curenv[c]] # "DYING"
    BY Zenon DEF timer, Entry
  <2> QED  BY <1>0, <2>1, AtEntry, Zenon DEF Handed, EnvInv, TypeOK
<1>1. Settled(status)
  BY <1>0, <1>h, Yield, Zenon DEF timer
<1>2. TypeOK'
  BY <1>1, Zenon DEF timer, EnvInv, TypeOK, Settled
<1>3. FreeList'
  BY <1>1, <1>2, SameSlots, Zenon DEF timer
<1>4. InboxInv' /\ OneMessage'
  BY <1>1, SameMessages, Zenon DEF timer
<1> QED  BY <1>1, <1>2, <1>3, <1>4, Zenon DEF EnvInv, Settled

\* env_free(e) by c, then back to user mode.
LEMMA Freed ==
    ASSUME EnvInv, NEW e \in Env, status[e] # "FREE", NEW st, Settled(st),
           st = [status EXCEPT ![e] = "FREE"], env_free(e), UNCHANGED <<idvars, recving, from>>
    PROVE  EnvInv'
<1> USE DEF idvars
<1>e. status \in [Env -> Status] /\ \A f \in Env : st[f] = IF f = e THEN "FREE" ELSE status[f]
  BY Zenon DEF EnvInv, TypeOK
<1>s. \A f \in Env : status'[f] = "FREE" <=> f = e \/ status[f] = "FREE"
  BY <1>e, Zenon DEF Settled
<1>n. \A f \in Env \ {e} : status[f] = "NOT_RUNNABLE" => status'[f] = "NOT_RUNNABLE"
  BY <1>e, Zenon DEF Settled
<1>f. /\ free' \in Seq(Env) /\ IsInjective(free')
      /\ Range(free') = {f \in Env : status[f] = "FREE" \/ f = e}
  BY FreePush, Zenon DEF env_free
<1>2. TypeOK'
  <2>1. <<>> \in Seq(EnvId)
    OBVIOUS
  <2> QED  BY <1>f, <2>1, Zenon DEF EnvInv, TypeOK, Settled, env_free
<1>3. FreeList'
  <2>1. Range(free') = {f \in Env : status'[f] = "FREE"}
    BY <1>f, <1>s, Zenon
  <2>2. \A f \in Env : pgdir'[f] = 0 <=> status'[f] = "FREE"
    BY <1>s, Zenon DEF EnvInv, FreeList, TypeOK, env_free
  <2> QED  BY <1>2, <1>f, <2>1, <2>2, Zenon DEF FreeList
<1>4. InboxInv'
  BY <1>s, Zenon DEF EnvInv, InboxInv, TypeOK, env_free
<1>5. OneMessage'
  BY <1>s, <1>n, Zenon DEF EnvInv, OneMessage, TypeOK, env_free
<1> QED  BY <1>2, <1>3, <1>4, <1>5, Zenon DEF EnvInv, Settled

\* trap() frees a DYING curenv before it dispatches, and yields.
LEMMA Step_trap_dying ==
    ASSUME EnvInv, NEW c \in CPU, trap_dying(c)
    PROVE  EnvInv'
<1> DEFINE st == [status EXCEPT ![curenv[c]] = "FREE"]
<1>0. LockFree /\ mode[c] = "user" /\ status[curenv[c]] = "DYING"
  BY Zenon DEF trap_dying
<1>1. curenv[c] \in Env /\ ~Elsewhere(c, curenv[c])
  BY <1>0, AtEntry, Zenon
<1>e. st \in [Env -> Status] /\ \A f \in Env : st[f] = IF f = curenv[c] THEN "FREE" ELSE status[f]
  BY <1>1, Zenon DEF EnvInv, TypeOK, Status
<1>y. sched_yield(c, st, None) /\ env_free(curenv[c]) /\ UNCHANGED <<idvars, recving, from>>
  BY Zenon DEF trap_dying
<1>d. st = [status EXCEPT ![curenv[c]] = "FREE"]
  BY Zenon
<1> HIDE DEF st
<1>h. Handed(c, st)
  BY <1>0, <1>1, <1>e, AtEntry DEF Handed
<1>2. Settled(st)
  BY <1>0, <1>1, <1>e, <1>h, <1>y, Yield, Zenon
<1> QED  BY <1>0, <1>1, <1>2, <1>d, <1>y, Freed, Zenon

\* env_destroy frees at once, or marks DYING what another CPU runs.
LEMMA Step_sys_env_destroy ==
    ASSUME CarefulCalls, EnvInv, NEW c \in CPU, NEW e \in Env, sys_env_destroy(c, e)
    PROVE  EnvInv'
<1>0. /\ LockFree /\ mode[c] = "user" /\ status[curenv[c]] # "DYING" /\ status[e] # "FREE"
      /\ status[e] # "DYING" /\ UNCHANGED <<idvars, recving, from>> /\ env_destroy(c, e)
  BY Zenon DEF sys_env_destroy, Syscall, Entry, envid2env, CarefulCalls
<1>a. curenv[c] \in Env /\ ~Elsewhere(c, curenv[c]) /\ status[curenv[c]] = "RUNNING"
  BY <1>0, AtEntry, Zenon
<1>1. CASE RunsElsewhere(c, e)
  <2> DEFINE st == [status EXCEPT ![e] = "DYING"]
  <2>r. status[e] = "RUNNING" /\ e # curenv[c]
    BY <1>1, Zenon DEF RunsElsewhere
  <2>e. st \in [Env -> Status] /\ \A f \in Env : st[f] = IF f = e THEN "DYING" ELSE status[f]
    BY Zenon DEF EnvInv, TypeOK, Status
  <2>y. Return(c, st) /\ UNCHANGED <<pgdir, free, inbox>>
    BY <1>0, <1>1, Zenon DEF env_destroy
  <2> HIDE DEF st
  <2>h. Handed(c, st)
    BY <1>0, <1>a, <2>r, <2>e, AtEntry DEF Handed
  <2>1. Settled(st)
    BY <1>0, <2>h, <2>y, Back, Zenon
  <2>2. TypeOK'
    BY <1>0, <2>1, <2>y, Zenon DEF idvars, EnvInv, TypeOK, Settled
  <2>3. FreeList'
    BY <2>1, <2>2, <2>e, <2>r, <2>y, SameSlots, Zenon
  <2>4. InboxInv' /\ OneMessage'
    BY <1>0, <2>1, <2>e, <2>r, <2>y, SameMessages, Zenon DEF ipcvars
  <2> QED  BY <2>1, <2>2, <2>3, <2>4, Zenon DEF EnvInv, Settled
<1>2. CASE ~RunsElsewhere(c, e)
  <2> DEFINE st == [status EXCEPT ![e] = "FREE"]
  <2>r. ~Elsewhere(c, e)
    BY <1>0, <1>2, <1>a, AtEntry, Zenon DEF RunsElsewhere
  <2>e. st \in [Env -> Status] /\ \A f \in Env : st[f] = IF f = e THEN "FREE" ELSE status[f]
    BY Zenon DEF EnvInv, TypeOK, Status
  <2>y. /\ IF e = curenv[c] THEN sched_yield(c, st, None) ELSE Return(c, st)
        /\ env_free(e)
    BY <1>0, <1>2, Zenon DEF env_destroy
  <2>d. st = [status EXCEPT ![e] = "FREE"]
    BY Zenon
  <2> HIDE DEF st
  <2>h. Handed(c, st)
    BY <1>0, <1>a, <2>r, <2>e, AtEntry, Zenon DEF Handed
  <2>1. Settled(st)
    BY <1>0, <1>a, <2>e, <2>h, <2>y, Back, Yield, Zenon
  <2> QED  BY <1>0, <2>1, <2>d, <2>y, Freed, Zenon
<1> QED  BY <1>1, <1>2, Zenon

\* env_alloc gives the child a fresh id and a page directory.
LEMMA Step_sys_exofork ==
    ASSUME EnvInv, NEW c \in CPU, sys_exofork(c)
    PROVE  EnvInv'
<1> DEFINE st == [status EXCEPT ![Head(free)] = "NOT_RUNNABLE"]
<1>0. /\ LockFree /\ mode[c] = "user" /\ status[curenv[c]] # "DYING"
      /\ free # <<>> /\ free' = Tail(free)
  BY Zenon DEF sys_exofork, Syscall, Entry
<1>f. /\ Head(free) \in Env /\ status[Head(free)] = "FREE"
      /\ free' \in Seq(Env) /\ IsInjective(free')
      /\ Range(free') = {f \in Env : status[f] = "FREE" /\ f # Head(free)}
  BY <1>0, FreePop, Zenon
<1>p. PICK e \in Env : e = Head(free) /\ status[e] = "FREE"
  BY <1>f, Zenon
<1>a. curenv[c] \in Env /\ ~Elsewhere(c, curenv[c]) /\ status[curenv[c]] = "RUNNING"
  BY <1>0, AtEntry, Zenon
<1>e. st \in [Env -> Status] /\ \A f \in Env : st[f] = IF f = e THEN "NOT_RUNNABLE" ELSE status[f]
  BY <1>p, Zenon DEF EnvInv, TypeOK, Status
<1>y. /\ gen' = [gen EXCEPT ![e] = Generation(e)]
      /\ parent' = [parent EXCEPT ![e] = id(curenv[c])]
      /\ pgdir' = [pgdir EXCEPT ![e] = 1] /\ recving' = [recving EXCEPT ![e] = 0]
      /\ birth' = [birth EXCEPT ![e] = serial + 1]
      /\ creator' = [creator EXCEPT ![e] = birth[curenv[c]]]
      /\ Return(c, st) /\ serial' = serial + 1 /\ UNCHANGED <<from, inbox>>
  BY <1>p, Zenon DEF sys_exofork
<1> HIDE DEF st
<1>h. Handed(c, st)
  BY <1>0, <1>a, <1>e, <1>p, AtEntry, Zenon DEF Handed
<1>1. Settled(st)
  BY <1>0, <1>h, <1>y, Back, Zenon
<1>s. \A f \in Env : status'[f] = "FREE" <=> f # e /\ status[f] = "FREE"
  BY <1>1, <1>e, Zenon DEF Settled
<1>n. \A f \in Env \ {e} : status[f] = "NOT_RUNNABLE" => status'[f] = "NOT_RUNNABLE"
  BY <1>1, <1>e, Zenon DEF Settled
<1>2. TypeOK'
  <2>1. gen' \in [Env -> Nat] /\ gen[curenv[c]] \in Nat
    BY <1>a, <1>y, EnvConstants DEF EnvInv, TypeOK, Generation
  <2>2. id(curenv[c]) \in EnvId
    BY <1>a, <2>1, Zenon DEF id, EnvId
  <2>3. /\ parent' \in [Env -> EnvId \cup {None}] /\ pgdir' \in [Env -> {0, 1}]
        /\ recving' \in [Env -> {0, 1}]
    BY <1>y, <2>2, Zenon DEF EnvInv, TypeOK
  <2>4. /\ serial' \in Nat /\ birth' \in [Env -> Nat] /\ creator' \in [Env -> Nat]
    BY <1>a, <1>y DEF EnvInv, TypeOK
  <2> QED  BY <1>1, <1>f, <1>y, <2>1, <2>3, <2>4, Zenon DEF EnvInv, TypeOK, Settled
<1>3. FreeList'
  <2>1. Range(free') = {f \in Env : status'[f] = "FREE"}
    BY <1>f, <1>p, <1>s, Zenon
  <2>2. \A f \in Env : pgdir'[f] = 0 <=> status'[f] = "FREE"
    BY <1>s, <1>y DEF EnvInv, FreeList, TypeOK
  <2> QED  BY <1>2, <1>f, <2>1, <2>2, Zenon DEF FreeList
<1>4. InboxInv'
  BY <1>p, <1>s, <1>y, Zenon DEF EnvInv, InboxInv, TypeOK
<1>5. OneMessage'
  BY <1>p, <1>s, <1>n, <1>y DEF EnvInv, InboxInv, OneMessage, TypeOK
<1> QED  BY <1>1, <1>2, <1>3, <1>4, <1>5, Zenon DEF EnvInv, Settled

\* A careful caller starts only its own child, which runs nowhere.
LEMMA Step_sys_env_set_status ==
    ASSUME CarefulCalls, EnvInv, NEW c \in CPU, NEW e \in Env, NEW s \in {"RUNNABLE", "NOT_RUNNABLE"},
           sys_env_set_status(c, e, s)
    PROVE  EnvInv'
<1> DEFINE st == [status EXCEPT ![e] = s]
<1>0. /\ LockFree /\ mode[c] = "user" /\ status[curenv[c]] # "DYING" /\ s = "RUNNABLE"
      /\ status[e] = "NOT_RUNNABLE" /\ recving[e] = 0
      /\ UNCHANGED <<pgdir, free, idvars, ipcvars>> /\ Return(c, st)
  BY Zenon DEF sys_env_set_status, Syscall, Entry, CarefulCalls
<1>a. curenv[c] \in Env /\ ~Elsewhere(c, curenv[c]) /\ status[curenv[c]] = "RUNNING"
  BY <1>0, AtEntry, Zenon
<1>e. st \in [Env -> Status] /\ \A f \in Env : st[f] = IF f = e THEN s ELSE status[f]
  BY Zenon DEF EnvInv, TypeOK, Status
<1> HIDE DEF st
<1>h. Handed(c, st)
  BY <1>0, <1>a, <1>e, AtEntry, Zenon DEF Handed
<1>1. Settled(st)
  BY <1>0, <1>h, Back, Zenon
<1>2. TypeOK'
  BY <1>0, <1>1, Zenon DEF idvars, ipcvars, EnvInv, TypeOK, Settled
<1>3. FreeList'
  BY <1>0, <1>1, <1>2, <1>e, SameSlots, Zenon
<1>4. InboxInv' /\ OneMessage'
  BY <1>0, <1>1, <1>e, SameMessages, Zenon
<1> QED  BY <1>1, <1>2, <1>3, <1>4, Zenon DEF EnvInv, Settled

\* The receiver blocks and empties its inbox.
LEMMA Step_sys_ipc_recv ==
    ASSUME EnvInv, NEW c \in CPU, sys_ipc_recv(c)
    PROVE  EnvInv'
<1>0. /\ LockFree /\ mode[c] = "user" /\ status[curenv[c]] # "DYING"
      /\ UNCHANGED <<pgdir, free, idvars, from>>
  BY Zenon DEF sys_ipc_recv, Syscall, Entry
<1>a. PICK e \in Env : curenv[c] = e /\ ~Elsewhere(c, e) /\ status[e] = "RUNNING"
  BY <1>0, AtEntry, Zenon
<1> DEFINE st == [status EXCEPT ![e] = "NOT_RUNNABLE"]
<1>e. st \in [Env -> Status] /\ \A f \in Env : st[f] = IF f = e THEN "NOT_RUNNABLE" ELSE status[f]
  BY Zenon DEF EnvInv, TypeOK, Status
<1>y. /\ recving' = [recving EXCEPT ![e] = 1] /\ inbox' = [inbox EXCEPT ![e] = <<>>]
      /\ sched_yield(c, st, e)
  BY <1>a, Zenon DEF sys_ipc_recv
<1> HIDE DEF st
<1>h. Handed(c, st)
  BY <1>0, <1>a, <1>e, AtEntry, Zenon DEF Handed
<1>1. Settled(st)
  BY <1>0, <1>a, <1>h, <1>y, Yield, Zenon
<1>2. TypeOK'
  <2>1. <<>> \in Seq(EnvId)
    OBVIOUS
  <2> QED  BY <1>0, <1>1, <1>y, <2>1, Zenon DEF idvars, EnvInv, TypeOK, Settled
<1>3. FreeList'
  BY <1>0, <1>1, <1>2, <1>a, <1>e, SameSlots, Zenon
<1>s. /\ status'[e] = "NOT_RUNNABLE"
      /\ \A f \in Env : status'[f] = "FREE" <=> status[f] = "FREE"
      /\ \A f \in Env : status[f] = "NOT_RUNNABLE" => status'[f] = "NOT_RUNNABLE"
  BY <1>1, <1>a, <1>e, Zenon DEF Settled
<1>4. InboxInv'
  BY <1>s, <1>y, Zenon DEF EnvInv, InboxInv, TypeOK
<1>5. OneMessage'
  BY <1>0, <1>s, <1>y DEF EnvInv, OneMessage, TypeOK
<1> QED  BY <1>1, <1>2, <1>3, <1>4, <1>5, Zenon DEF EnvInv, Settled

\* A send finds recving set and clears it.
LEMMA Step_sys_ipc_try_send ==
    ASSUME EnvInv, NEW c \in CPU, NEW e \in Env, sys_ipc_try_send(c, e)
    PROVE  EnvInv'
<1> DEFINE st == [status EXCEPT ![e] = "RUNNABLE"]
<1>0. /\ LockFree /\ mode[c] = "user" /\ status[curenv[c]] # "DYING"
      /\ status[e] # "FREE" /\ recving[e] = 1
      /\ recving' = [recving EXCEPT ![e] = 0] /\ from' = [from EXCEPT ![e] = id(curenv[c])]
      /\ inbox' = [inbox EXCEPT ![e] = Append(@, id(curenv[c]))]
      /\ Return(c, st) /\ UNCHANGED <<pgdir, free, idvars>>
  BY Zenon DEF sys_ipc_try_send, Syscall, Entry, EndWait
<1>w. status[e] = "NOT_RUNNABLE" /\ inbox[e] = <<>>
  BY <1>0, Zenon DEF EnvInv, OneMessage, InboxInv
<1>a. curenv[c] \in Env /\ ~Elsewhere(c, curenv[c]) /\ status[curenv[c]] = "RUNNING"
  BY <1>0, AtEntry, Zenon
<1>i. PICK m \in EnvId : m = id(curenv[c])
  BY <1>a, Zenon DEF id, EnvId, EnvInv, TypeOK
<1>e. st \in [Env -> Status] /\ \A f \in Env : st[f] = IF f = e THEN "RUNNABLE" ELSE status[f]
  BY Zenon DEF EnvInv, TypeOK, Status
<1> HIDE DEF st
<1>h. Handed(c, st)
  BY <1>0, <1>a, <1>e, <1>w, AtEntry, Zenon DEF Handed
<1>1. Settled(st)
  BY <1>0, <1>h, Back, Zenon
<1>m. /\ inbox'[e] = <<m>> /\ <<m>> \in Seq(EnvId) /\ Len(<<m>>) = 1 /\ <<m>>[1] = m
      /\ inbox' \in [Env -> Seq(EnvId)] /\ \A f \in Env \ {e} : inbox'[f] = inbox[f]
  BY <1>0, <1>i, <1>w DEF EnvInv, TypeOK
<1>2. TypeOK'
  BY <1>0, <1>1, <1>i, <1>m, Zenon DEF idvars, EnvInv, TypeOK, Settled
<1>3. FreeList'
  BY <1>0, <1>1, <1>2, <1>e, SameSlots, Zenon
<1>s. /\ \A f \in Env : status'[f] = "FREE" <=> status[f] = "FREE"
      /\ \A f \in Env \ {e} : status[f] = "NOT_RUNNABLE" => status'[f] = "NOT_RUNNABLE"
  BY <1>1, <1>0, <1>e, Zenon DEF Settled
<1>4. InboxInv'
  BY <1>0, <1>m, <1>s DEF EnvInv, InboxInv, TypeOK
<1>5. OneMessage'
  <2> SUFFICES ASSUME NEW f \in Env, status'[f] # "FREE"
               PROVE  /\ Len(inbox'[f]) <= 1
                      /\ inbox'[f] # <<>> => from'[f] = inbox'[f][1] /\ recving'[f] = 0
                      /\ recving'[f] = 1 => status'[f] = "NOT_RUNNABLE"
    BY Zenon DEF OneMessage
  <2>1. CASE f = e
    <3>1. inbox'[f] = <<m>> /\ from'[f] = m /\ recving'[f] = 0
      BY <1>0, <1>i, <1>m, <2>1, Zenon DEF EnvInv, TypeOK
    <3> QED  BY <1>m, <3>1
  <2>2. CASE f # e
    BY <1>0, <1>m, <1>s, <2>2, Zenon DEF EnvInv, OneMessage, TypeOK
  <2> QED  BY <2>1, <2>2, Zenon
<1> QED  BY <1>1, <1>2, <1>3, <1>4, <1>5, Zenon DEF EnvInv, Settled

\* i386_init creates the first environments on one CPU.
LEMMA InitEnvInv ==
    ASSUME Init
    PROVE  EnvInv /\ ParentInv
<1> USE EnvConstants DEF Init
<1>f. /\ free \in Seq(Env) /\ Len(free) = NENV - FirstEnvs /\ DOMAIN free = 1..NENV - FirstEnvs
      /\ \A i \in 1..NENV - FirstEnvs : free[i] = FirstEnvs + i - 1
  <2>1. NENV - FirstEnvs \in Nat
    OBVIOUS
  <2>2. free \in [1..NENV - FirstEnvs -> Env]
    BY DEF Env
  <2>3. \A i \in 1..NENV - FirstEnvs : free[i] = FirstEnvs + i - 1
    BY Zenon
  <2>4. ASSUME NEW n \in Nat, NEW f \in [1..n -> Env]
        PROVE  f \in Seq(Env) /\ Len(f) = n /\ DOMAIN f = 1..n
    OBVIOUS
  <2> HIDE DEF Init
  <2> QED  BY <2>1, <2>2, <2>3, <2>4, Zenon
<1>s. \A e \in Env : status[e] = "FREE" <=> e >= FirstEnvs
  BY DEF Env
<1>1. TypeOK
  <2>1. birth \in [Env -> Nat] /\ gen \in [Env -> Nat]
    BY DEF Env
  <2>2. inbox \in [Env -> Seq(EnvId)]
    <3>1. <<>> \in Seq(EnvId)
      OBVIOUS
    <3> QED  BY <3>1, Zenon
  <2>3. status \in [Env -> Status] /\ pgdir \in [Env -> {0, 1}]
    BY Zenon DEF Status
  <2> QED  BY <1>f, <2>1, <2>2, <2>3 DEF TypeOK
<1>2. OneCPU /\ CpuInv
  BY Zenon DEF OneCPU, CpuInv
<1>3. FreeList
  <2>1. IsInjective(free)
    BY <1>f DEF IsInjective
  <2>2. \A e \in Env : e \in Range(free) <=> e >= FirstEnvs
    <3> TAKE e \in Env
    <3>1. e \in Range(free) <=> \E i \in 1..NENV - FirstEnvs : FirstEnvs + i - 1 = e
      BY <1>f, Zenon DEF Range
    <3>2. e >= FirstEnvs => e - FirstEnvs + 1 \in 1..NENV - FirstEnvs
                             /\ FirstEnvs + (e - FirstEnvs + 1) - 1 = e
      BY DEF Env
    <3>3. \A i \in 1..NENV - FirstEnvs : FirstEnvs + i - 1 >= FirstEnvs
      OBVIOUS
    <3> QED  BY <3>1, <3>2, <3>3, Zenon
  <2>3. Range(free) \subseteq Env
    BY <1>f DEF Range, Env
  <2>4. Range(free) = {e \in Env : status[e] = "FREE"}
    BY <1>s, <2>2, <2>3, Zenon
  <2>5. \A e \in Env : pgdir[e] = 0 <=> status[e] = "FREE"
    BY DEF Env
  <2> QED  BY <1>1, <2>1, <2>4, <2>5, Zenon DEF FreeList
<1>4. InboxInv
  BY Zenon DEF InboxInv
<1>5. OneMessage
  BY DEF OneMessage
<1>6. ParentInv
  <2>1. \A e \in Env : gen[e] <= serial
    BY DEF Env
  <2>2. \A e, f \in Env : \A g \in Nat : parent[e] # <<g, f>>
    <3> SUFFICES ASSUME NEW g \in Nat, NEW f \in Env, None = <<g, f>> PROVE FALSE
      BY Zenon
    <3> QED  BY Zenon DEF EnvId
  <2> QED  BY <2>1, <2>2, Zenon DEF ParentInv
<1> QED  BY <1>1, <1>2, <1>3, <1>4, <1>5, <1>6, Zenon DEF EnvInv

\* Every step keeps the invariant.
LEMMA NextEnvInv ==
    ASSUME CarefulCalls, EnvInv, [Next]_vars
    PROVE  EnvInv'
<1>1. CASE UNCHANGED vars
  BY <1>1 DEF vars, idvars, ipcvars, EnvInv, TypeOK, OneCPU, CpuInv, FreeList, InboxInv, OneMessage
<1>2. CASE Next
  BY <1>1, <1>2, Step_timer, Step_trap_dying, Step_sys_exofork, Step_sys_env_destroy,
     Step_sys_env_set_status, Step_sys_ipc_recv, Step_sys_ipc_try_send, Zenon DEF Next, monitor
<1> QED  BY <1>1, <1>2, Zenon

\* Only sys_exofork changes what ParentInv is about.
LEMMA NextParentInv ==
    ASSUME MaxBirths <= MaxGen, EnvInv, ParentInv, [Next]_vars
    PROVE  ParentInv'
<1> USE EnvConstants
<1>1. CASE UNCHANGED idvars
  BY <1>1 DEF idvars, ParentInv
<1>2. ASSUME NEW c \in CPU, sys_exofork(c) PROVE ParentInv'
  <2>0. /\ LockFree /\ mode[c] = "user" /\ status[curenv[c]] # "DYING" /\ free # <<>>
        /\ serial < MaxBirths /\ serial' = serial + 1 /\ free' = Tail(free)
    BY <1>2, Zenon DEF sys_exofork, Syscall, Entry
  <2>1. PICK e \in Env : e = Head(free) /\ status[e] = "FREE"
    BY <2>0, FreePop, Zenon
  <2>2. PICK h \in Env : h = curenv[c] /\ h # e
    BY <2>0, <2>1, AtEntry, Zenon
  <2>3. /\ gen \in [Env -> Nat] /\ parent \in [Env -> EnvId \cup {None}] /\ serial \in Nat
        /\ birth \in [Env -> Nat] /\ creator \in [Env -> Nat]
    BY Zenon DEF EnvInv, TypeOK
  <2>4. gen[e] < MaxGen /\ gen[e] <= serial
    BY <2>0, <2>3 DEF ParentInv
  <2>5. /\ gen' = [gen EXCEPT ![e] = gen[e] + 1]
        /\ parent' = [parent EXCEPT ![e] = <<gen[h], h>>]
        /\ birth' = [birth EXCEPT ![e] = serial + 1]
        /\ creator' = [creator EXCEPT ![e] = birth[h]]
    BY <1>2, <2>1, <2>2, <2>4, Zenon DEF sys_exofork, Generation, id
  <2>6. \A f \in Env : gen'[f] <= serial'
    BY <2>0, <2>3, <2>5 DEF ParentInv
  <2>7. ASSUME NEW a \in Env, NEW f \in Env, NEW g \in Nat, parent'[a] = <<g, f>>
        PROVE  g <= gen'[f] /\ (g = gen'[f] => creator'[a] = birth'[f])
    <3>1. CASE a = e
      <4>1. g = gen[h] /\ f = h
        BY <2>3, <2>5, <2>7, <3>1, Zenon
      <4> QED  BY <2>2, <2>3, <2>5, <3>1, <4>1
    <3>2. CASE a # e
      <4>1. parent[a] = <<g, f>>
        BY <2>3, <2>5, <2>7, <3>2, Zenon
      <4>2. g <= gen[f] /\ (g = gen[f] => creator[a] = birth[f])
        BY <4>1, Zenon DEF ParentInv
      <4>3. CASE f = e
        BY <2>3, <2>5, <4>2, <4>3
      <4>4. CASE f # e
        BY <2>3, <2>5, <3>2, <4>2, <4>4, Zenon
      <4> QED  BY <4>3, <4>4, Zenon
    <3> QED  BY <3>1, <3>2, Zenon
  <2> QED  BY <2>6, <2>7, Zenon DEF ParentInv
<1>3. CASE Next
  BY <1>1, <1>2, <1>3, Zenon
  DEF Next, timer, trap_dying, monitor, sys_env_destroy, sys_env_set_status,
      sys_ipc_try_send, sys_ipc_recv, vars
<1> QED  BY <1>1, <1>3, Zenon DEF vars
-----------------------------------------------------------------------------
(* The theorems, for any number of environments and CPUs.                    *)

\* The invariant holds in every reachable state.
THEOREM EnvInvariant ==
    ASSUME CarefulCalls
    PROVE  Spec => []EnvInv
<1>1. Init => EnvInv
  BY InitEnvInv, Zenon
<1>2. EnvInv /\ [Next]_vars => EnvInv'
  BY NextEnvInv, Zenon
<1> QED  BY <1>1, <1>2, PTL DEF Spec

\* sched_yield and env_run (kern/sched.c, kern/env.c) put no environment on two
\* CPUs, and one that another CPU destroys stays where it runs until it traps.
THEOREM EnvOnOneCPU ==
    ASSUME CarefulCalls
    PROVE  Spec => []OneCPU
<1>1. EnvInv => OneCPU
  BY Zenon DEF EnvInv
<1>2. Spec => []EnvInv
  BY EnvInvariant, Zenon
<1> QED  BY <1>1, <1>2, PTL

\* The page directory in a CPU's cr3 is never one that env_free gave back.
THEOREM EnvPgdirInUse ==
    ASSUME CarefulCalls
    PROVE  Spec => []PgdirInUse
<1>1. EnvInv => PgdirInUse
  <2> SUFFICES ASSUME EnvInv, NEW c \in CPU, mode[c] = "user" PROVE pgdir[curenv[c]] = 1
    BY Zenon DEF PgdirInUse
  <2>1. curenv[c] \in Env
    BY Zenon DEF EnvInv, CpuInv
  <2>2. status[curenv[c]] # "FREE"
    BY <2>1, Zenon DEF EnvInv, OneCPU
  <2> QED  BY <2>1, <2>2, Zenon DEF EnvInv, FreeList, TypeOK
<1>2. Spec => []EnvInv
  BY EnvInvariant, Zenon
<1> QED  BY <1>1, <1>2, PTL

\* env_free_list holds the FREE environments, each once (env_alloc, env_free).
THEOREM EnvFreeListExact ==
    ASSUME CarefulCalls
    PROVE  Spec => []FreeList
<1>1. EnvInv => FreeList
  BY Zenon DEF EnvInv
<1>2. Spec => []EnvInv
  BY EnvInvariant, Zenon
<1> QED  BY <1>1, <1>2, PTL

\* Each sys_ipc_recv takes one message, which nobody overwrites (syscall.c).
THEOREM EnvOneMessage ==
    ASSUME CarefulCalls
    PROVE  Spec => []OneMessage
<1>1. EnvInv => OneMessage
  BY Zenon DEF EnvInv
<1>2. Spec => []EnvInv
  BY EnvInvariant, Zenon
<1> QED  BY <1>1, <1>2, PTL

\* The permission test of envid2env (kern/env.c) is never passed by a later
\* environment in the slot of the parent, as long as no slot can be used
\* MaxGen times.
THEOREM EnvOnlyParents ==
    ASSUME CarefulCalls, MaxBirths <= MaxGen
    PROVE  Spec => []OnlyParents
<1>1. EnvInv /\ ParentInv => OnlyParents
  <2> SUFFICES ASSUME EnvInv, ParentInv, NEW e \in Env, NEW f \in Env, parent[e] = id(f)
               PROVE  creator[e] = birth[f]
    BY Zenon DEF OnlyParents
  <2>1. gen[f] \in Nat /\ parent[e] = <<gen[f], f>>
    BY Zenon DEF EnvInv, TypeOK, id
  <2> QED  BY <2>1, Zenon DEF ParentInv
<1>2. EnvInv /\ ParentInv /\ [Next]_vars => ParentInv'
  BY NextParentInv, Zenon
<1>3. Init => ParentInv
  BY InitEnvInv, Zenon
<1>4. Spec => []EnvInv
  BY EnvInvariant, Zenon
<1> QED  BY <1>1, <1>2, <1>3, <1>4, PTL DEF Spec

\* What env.c, sched.c and syscall.c keep true of the environments together:
\* the free list is exact, each runs on one CPU with its page directory, only a
\* parent passes for one, and each sys_ipc_recv takes one message.
THEOREM EnvIsSound ==
    ASSUME CarefulCalls, MaxBirths <= MaxGen
    PROVE  Spec => []EnvSound
<1>1. Spec => [](OneCPU /\ OneMessage)
  BY EnvOnOneCPU, EnvOneMessage, PTL
<1>2. Spec => [](PgdirInUse /\ FreeList)
  BY EnvPgdirInUse, EnvFreeListExact, PTL
<1>3. Spec => []OnlyParents
  BY EnvOnlyParents, Zenon
<1>4. OneCPU /\ OneMessage /\ PgdirInUse /\ FreeList /\ OnlyParents => EnvSound
  BY Zenon DEF EnvSound, FreeList
<1> QED  BY <1>1, <1>2, <1>3, <1>4, PTL
-----------------------------------------------------------------------------
(* The file server and its clients. *)

Stages == {"send", "sent", "recv"}      \* places in a call to the server
Files == Path \cup {NoPath}

\* What a client can be: outside a call, or in one that names a path or an id.
ClientState ==
    [at : {"unborn", "idle", "dead"}]
    \cup [at : Stages, req : {"open"}, path : Files, fd : Fds]
    \cup [at : Stages, req : {"use", "close"}, id : Int, fd : Fds]

ServerState ==
    [at : {"idle", "panic"}]
    \cup [at : {"serve"}, from : Client]
    \cup [at : {"reply"}, to : Client, r : TabSlots \cup {NoSlot}]
    \cup [at : {"reply"}, to : Client, r : {NoSlot}, file : Files]

ServeTypes ==
    /\ opentab \in [TabSlots -> [id : Int, file : Files]]
    /\ \A k \in TabSlots : opentab[k].id % MAXOPEN = k
    /\ fdpage \in [TabSlots -> [alloc : BOOLEAN, id : Int]]
    /\ fd \in [Client -> [Fds -> TabSlots \cup {NoSlot}]]
    /\ meant \in [Client -> [Fds -> Files]]
    /\ cl \in [Client -> ClientState]
    /\ sv \in ServerState

Mapped(c, n) == fd[c][n] # NoSlot
InCall(c) == cl[c].at \in Stages

\* A page that a client maps has been allocated.
MappedAllocated == \A c \in Client, n \in Fds : Mapped(c, n) => fdpage[fd[c][n]].alloc

\* A request that names a file by its id holds the descriptor it was read
\* from, so that the id is still that of its slot.
RequestHolds ==
    \A c \in Client : InCall(c) /\ cl[c].req # "open" =>
        /\ Mapped(c, cl[c].fd)
        /\ cl[c].id = opentab[fd[c][cl[c].fd]].id

\* Whom the server works for: a client that waits for it, or has died since.
Served == IF sv.at = "serve" THEN sv.from ELSE sv.to
Busy == sv.at \in {"serve", "reply"}
ServedWaits == Busy => cl[Served].at \in {"sent", "recv", "dead"}

\* A slot on its way to the client that opened it is set up for its path.
ReplyReady ==
    sv.at = "reply" /\ InCall(sv.to) =>
        IF cl[sv.to].req = "open"
        THEN sv.r # NoSlot => /\ fdpage[sv.r].alloc
                              /\ fdpage[sv.r].id = opentab[sv.r].id
                              /\ opentab[sv.r].file = cl[sv.to].path
        ELSE sv.file = meant[sv.to][cl[sv.to].fd]

ServeInv ==
    /\ ServeTypes /\ MappedAllocated /\ DescriptorHolds
    /\ RequestHolds /\ ServedWaits /\ ReplyReady
-----------------------------------------------------------------------------
(* Slots and their reference counts. *)

\* The first free number, or slot, is one of them.
LEMMA LeastIsIn ==
    ASSUME NEW S \in SUBSET Nat, S # {}
    PROVE  Min(S) \in S
<1> DEFINE R == OpToRel(<, Nat)
<1>1. IsWellFoundedOn(R, Nat)
  BY NatLessThanWellFounded, Zenon
<1>2. PICK m \in S : \A n \in S : ~(<<n, m>> \in R)
  <2> HIDE DEF R
  <2> QED  BY <1>1, WFMin, Zenon
<1>3. \A n \in S : m <= n
  <2> TAKE n \in S
  <2>1. m \in Nat /\ n \in Nat
    BY Zenon
  <2>2. ~(n < m)
    BY <1>2, <2>1, Zenon DEF OpToRel
  <2> QED  BY <2>1, <2>2
<1> QED  BY <1>3, Zenon DEF Min

LEMMA RemainderIs ==
    ASSUME NEW m \in Nat \ {0}, NEW x \in Int, NEW r \in 0..m-1
    PROVE  (m * x + r) % m = r
OBVIOUS

\* The next id of a slot still names it.
LEMMA NextIdNames ==
    ASSUME NEW k \in TabSlots, opentab[k].id \in Int
    PROVE  NextId(k) \in Int /\ NextId(k) % MAXOPEN = k
<1> DEFINE x == ((opentab[k].id \div MAXOPEN) + 1) % GENS
<1>1. x \in Int
  BY ServeConstants
<1> HIDE DEF x
<1>2. MAXOPEN \in Nat \ {0} /\ k \in 0..MAXOPEN-1
  BY ServeConstants, Zenon DEF TabSlots
<1>3. k + MAXOPEN * x = MAXOPEN * x + k /\ k + MAXOPEN * x \in Int
  BY <1>1, <1>2
<1>4. (MAXOPEN * x + k) % MAXOPEN = k
  BY <1>1, <1>2, RemainderIs, Zenon
<1> QED  BY <1>3, <1>4, Zenon DEF NextId, x

LEMMA MappingsFinite ==
    ASSUME NEW k \in TabSlots
    PROVE  /\ IsFiniteSet(Mappings(k)) /\ Cardinality(Mappings(k)) \in Nat
           /\ pageref(k) \in Nat
<1>1. IsFiniteSet(Client \X Fds)
  BY ServeConstants, FS_Product, Zenon
<1>2. Mappings(k) \subseteq Client \X Fds
  BY Zenon DEF Mappings
<1>3. IsFiniteSet(Mappings(k))
  BY <1>1, <1>2, FS_Subset, Zenon
<1>4. Cardinality(Mappings(k)) \in Nat
  BY <1>3, FS_CardinalityType, Zenon
<1> QED  BY <1>3, <1>4 DEF pageref

\* A slot that can be reused is one whose page no client maps.
LEMMA ReusableUnmapped ==
    ASSUME ServeInv, NEW k \in TabSlots
    PROVE  Reusable(k) <=> \A c \in Client, n \in Fds : fd[c][n] # k
<1>1. IsFiniteSet(Mappings(k)) /\ Cardinality(Mappings(k)) \in Nat
  BY MappingsFinite, Zenon
<1>2. Cardinality(Mappings(k)) = 0 <=> Mappings(k) = {}
  BY <1>1, FS_EmptySet, Zenon
<1>3. Mappings(k) = {} <=> \A c \in Client, n \in Fds : fd[c][n] # k
  <2>1. ASSUME Mappings(k) = {}, NEW c \in Client, NEW n \in Fds PROVE fd[c][n] # k
    <3>1. <<c, n>> \notin Mappings(k)
      BY <2>1, Zenon
    <3> QED  BY <3>1, Zenon DEF Mappings
  <2>2. ASSUME \A c \in Client, n \in Fds : fd[c][n] # k PROVE Mappings(k) = {}
    BY <2>2, Zenon DEF Mappings
  <2> QED  BY <2>1, <2>2, Zenon
<1>4. CASE fdpage[k].alloc
  <2>1. Reusable(k) <=> 1 + Cardinality(Mappings(k)) <= 1
    BY <1>4, Zenon DEF Reusable, pageref
  <2> QED  BY <2>1, <1>1, <1>2, <1>3
<1>5. CASE ~fdpage[k].alloc
  <2>1. Reusable(k)
    BY <1>5 DEF Reusable, pageref
  <2>2. \A c \in Client, n \in Fds : fd[c][n] # k
    BY <1>5, SMT DEF ServeInv, MappedAllocated, Mapped, TabSlots, NoSlot
  <2> QED  BY <2>1, <2>2, Zenon
<1> QED  BY <1>4, <1>5, Zenon
-----------------------------------------------------------------------------
(* The state of a client in its call. *)

LEMMA ClientTyped ==
    ASSUME ServeTypes, NEW c \in Client
    PROVE  /\ cl[c].at \in {"unborn", "idle", "dead"} \cup Stages
           /\ InCall(c) => /\ cl[c].fd \in Fds
                           /\ cl[c].req \in {"open", "use", "close"}
                           /\ cl[c].req = "open" => /\ cl[c].path \in Files
                                                    /\ cl[c] \in [at : Stages, req : {"open"}, path : Files, fd : Fds]
                           /\ cl[c].req # "open" => /\ cl[c].id \in Int
                                                    /\ cl[c] \in [at : Stages, req : {"use", "close"}, id : Int, fd : Fds]
<1>1. cl[c] \in ClientState
  BY Zenon DEF ServeTypes
<1>2. CASE cl[c] \in [at : {"unborn", "idle", "dead"}]
  BY <1>2, Zenon DEF InCall, Stages
<1>3. CASE cl[c] \in [at : Stages, req : {"open"}, path : Files, fd : Fds]
  BY <1>3, Zenon DEF InCall
<1>4. CASE cl[c] \in [at : Stages, req : {"use", "close"}, id : Int, fd : Fds]
  BY <1>4, Zenon DEF InCall
<1> QED  BY <1>1, <1>2, <1>3, <1>4, Zenon DEF ClientState

LEMMA ServerTyped ==
    ASSUME ServeTypes
    PROVE  /\ sv.at \in {"idle", "panic", "serve", "reply"}
           /\ sv.at = "serve" => sv.from \in Client
           /\ sv.at = "reply" => sv.to \in Client /\ sv.r \in TabSlots \cup {NoSlot}
           /\ Busy => Served \in Client
<1>1. sv \in ServerState
  BY Zenon DEF ServeTypes
<1>2. CASE sv \in [at : {"idle", "panic"}]
  BY <1>2, Zenon DEF Busy
<1>3. CASE sv \in [at : {"serve"}, from : Client]
  BY <1>3, Zenon DEF Busy, Served
<1>4. CASE sv \in [at : {"reply"}, to : Client, r : TabSlots \cup {NoSlot}]
  BY <1>4, Zenon DEF Busy, Served
<1>5. CASE sv \in [at : {"reply"}, to : Client, r : {NoSlot}, file : Files]
  BY <1>5, Zenon DEF Busy, Served
<1> QED  BY <1>1, <1>2, <1>3, <1>4, <1>5, Zenon DEF ServerState
-----------------------------------------------------------------------------
(* Steps of the clients. *)

\* Starting a call: nothing changes but what the client is doing.
LEMMA Step_begins ==
    ASSUME ServeInv, NEW c \in Client, cl[c].at = "idle",
           NEW q \in ClientState, q.at = "send",
           q.req # "open" => Mapped(c, q.fd) /\ q.id = opentab[fd[c][q.fd]].id,
           cl' = [cl EXCEPT ![c] = q],
           UNCHANGED <<opentab, fdpage, fd, meant, sv>>
    PROVE  ServeInv'
<1> USE DEF ServeInv
<1>1. ServeTypes'
  BY Zenon DEF ServeTypes
<1>2. MappedAllocated' /\ DescriptorHolds'
  BY Zenon DEF MappedAllocated, Mapped, DescriptorHolds
<1>3. RequestHolds'
  BY Zenon DEF RequestHolds, InCall, Mapped, ServeTypes
<1>4. Busy => Served # c
  BY Zenon DEF ServedWaits
<1>5. ServedWaits'
  BY <1>4, ServerTyped, Zenon DEF ServedWaits, Busy, Served, ServeTypes
<1>6. ReplyReady'
  BY <1>4, ServerTyped, Zenon DEF ReplyReady, Busy, Served, ServeTypes, InCall
<1> QED  BY <1>1, <1>2, <1>3, <1>5, <1>6, Zenon

LEMMA Step_open ==
    ASSUME ServeInv, NEW c \in Client, NEW path \in Files, open(c, path)
    PROVE  ServeInv'
<1> DEFINE q == [at |-> "send", req |-> "open", path |-> path, fd |-> Min(fd_alloc(c))]
<1>1. Min(fd_alloc(c)) \in Fds
  <2>1. fd_alloc(c) \in SUBSET Nat /\ fd_alloc(c) \subseteq Fds /\ fd_alloc(c) # {}
    BY ServeConstants, Zenon DEF open, fd_alloc
  <2> QED  BY <2>1, LeastIsIn, Zenon
<1>2. q \in ClientState
  BY <1>1, Zenon DEF ClientState, Stages
<1>3. cl[c].at = "idle" /\ cl' = [cl EXCEPT ![c] = q] /\ UNCHANGED <<opentab, fdpage, fd, meant, sv>>
  BY Zenon DEF open, Requesting, Resumes
<1>4. q.at = "send" /\ q.req = "open"
  BY Zenon
<1> QED  BY <1>2, <1>3, <1>4, Step_begins, Zenon

LEMMA Step_devfile_call ==
    ASSUME ServeInv, NEW c \in Client, NEW n \in Fds, NEW b \in BOOLEAN, devfile_call(c, n, b)
    PROVE  ServeInv'
<1> DEFINE q == [at |-> "send", req |-> IF b THEN "close" ELSE "use", id |-> fdpage[fd[c][n]].id, fd |-> n]
<1>1. fd[c][n] \in TabSlots
  BY DEF devfile_call, ServeInv, ServeTypes
<1>2. fdpage[fd[c][n]].id \in Int /\ fdpage[fd[c][n]].id = opentab[fd[c][n]].id
  BY <1>1, Zenon DEF devfile_call, ServeInv, ServeTypes, DescriptorHolds
<1>3. q \in ClientState
  BY <1>2, Zenon DEF ClientState, Stages
<1>4. cl[c].at = "idle" /\ cl' = [cl EXCEPT ![c] = q] /\ UNCHANGED <<opentab, fdpage, fd, meant, sv>>
  BY Zenon DEF devfile_call, Requesting, Resumes
<1>5. q.at = "send" /\ Mapped(c, q.fd) /\ q.id = opentab[fd[c][q.fd]].id
  BY <1>2, Zenon DEF devfile_call, Mapped
<1> QED  BY <1>3, <1>4, <1>5, Step_begins, Zenon

LEMMA Step_client_dup ==
    ASSUME ServeInv, NEW c \in Client, NEW old \in Fds, NEW new \in Fds, client_dup(c, old, new)
    PROVE  ServeInv'
<1> USE DEF ServeInv
<1>e. /\ cl[c].at = "idle" /\ fd[c][old] # NoSlot /\ fd[c][new] = NoSlot
      /\ fd' = [fd EXCEPT ![c][new] = fd[c][old]]
      /\ meant' = [meant EXCEPT ![c][new] = meant[c][old]]
      /\ UNCHANGED <<opentab, fdpage, cl, sv>>
  BY Zenon DEF client_dup, Requesting
<1>d. \A d \in Client, n \in Fds :
        /\ fd'[d][n] = IF d = c /\ n = new THEN fd[c][old] ELSE fd[d][n]
        /\ meant'[d][n] = IF d = c /\ n = new THEN meant[c][old] ELSE meant[d][n]
  BY <1>e, Zenon DEF ServeTypes
<1>1. ServeTypes'
  BY <1>e, Zenon DEF ServeTypes
<1>2. MappedAllocated' /\ DescriptorHolds'
  BY <1>e, <1>d DEF MappedAllocated, Mapped, DescriptorHolds
<1>3. RequestHolds'
  BY <1>e, <1>d, ClientTyped DEF RequestHolds, InCall, Mapped, Stages
<1>4. Busy => Served # c
  BY <1>e, Zenon DEF ServedWaits
<1>5. ServedWaits'
  BY <1>e, Zenon DEF ServedWaits, Busy, Served
<1>6. ReplyReady'
  BY <1>e, <1>d, <1>4, ServerTyped, ClientTyped DEF ReplyReady, Busy, Served, InCall
<1> QED  BY <1>1, <1>2, <1>3, <1>5, <1>6, Zenon

LEMMA Step_client_fork ==
    ASSUME ServeInv, NEW c \in Client, NEW d \in Client, client_fork(c, d)
    PROVE  ServeInv'
<1> USE DEF ServeInv
<1>e. /\ cl[c].at = "idle" /\ cl[d].at = "unborn"
      /\ fd' = [fd EXCEPT ![d] = fd[c]] /\ meant' = [meant EXCEPT ![d] = meant[c]]
      /\ cl' = [cl EXCEPT ![d] = Idle]
      /\ UNCHANGED <<opentab, fdpage, sv>>
  BY Zenon DEF client_fork, Requesting, Resumes
<1>i. Idle \in ClientState /\ Idle.at = "idle"
  BY Zenon DEF Idle, ClientState
<1>d. \A a \in Client : /\ fd'[a] = IF a = d THEN fd[c] ELSE fd[a]
                        /\ meant'[a] = IF a = d THEN meant[c] ELSE meant[a]
                        /\ cl'[a] = IF a = d THEN Idle ELSE cl[a]
  BY <1>e, Zenon DEF ServeTypes
<1>1. ServeTypes'
  BY <1>e, <1>i, Zenon DEF ServeTypes
<1>2. MappedAllocated' /\ DescriptorHolds'
  BY <1>e, <1>d DEF MappedAllocated, Mapped, DescriptorHolds
<1>3. RequestHolds'
  BY <1>e, <1>d, <1>i, ClientTyped DEF RequestHolds, InCall, Mapped, Stages
<1>4. Busy => Served # d
  BY <1>e, Zenon DEF ServedWaits
<1>5. ServedWaits'
  BY <1>e, <1>d, <1>4, ServerTyped, Zenon DEF ServedWaits, Busy, Served
<1>6. ReplyReady'
  BY <1>e, <1>d, <1>4, ServerTyped DEF ReplyReady, Busy, Served, InCall
<1> QED  BY <1>1, <1>2, <1>3, <1>5, <1>6, Zenon

LEMMA Step_client_destroyed ==
    ASSUME ServeInv, NEW c \in Client, client_destroyed(c)
    PROVE  ServeInv'
<1> USE DEF ServeInv
<1> DEFINE gone == [at |-> "dead"]
<1>e. /\ fd' = [fd EXCEPT ![c] = NoFds] /\ meant' = [meant EXCEPT ![c] = [n \in Fds |-> NoPath]]
      /\ cl' = [cl EXCEPT ![c] = gone]
      /\ UNCHANGED <<opentab, fdpage, sv>>
  BY Zenon DEF client_destroyed, Resumes
<1>i. gone \in ClientState /\ gone.at = "dead"
  BY Zenon DEF ClientState
<1> HIDE DEF gone
<1>d. \A a \in Client : /\ fd'[a] = IF a = c THEN NoFds ELSE fd[a]
                        /\ a # c => meant'[a] = meant[a]
                        /\ cl'[a] = IF a = c THEN gone ELSE cl[a]
  BY <1>e, Zenon DEF ServeTypes
<1>1. ServeTypes'
  BY <1>e, <1>i, Zenon DEF ServeTypes, NoFds, Files
<1>2. MappedAllocated' /\ DescriptorHolds'
  BY <1>e, <1>d DEF MappedAllocated, Mapped, DescriptorHolds, NoFds
<1>3. RequestHolds'
  <2> SUFFICES ASSUME NEW a \in Client, InCall(a)', cl'[a].req # "open"
               PROVE  Mapped(a, cl[a].fd)' /\ cl'[a].id = opentab'[fd'[a][cl'[a].fd]].id
    BY Zenon DEF RequestHolds
  <2>1. a # c
    BY <1>d, <1>i, Zenon DEF InCall, Stages
  <2>2. cl'[a] = cl[a] /\ fd'[a] = fd[a]
    BY <1>d, <2>1, Zenon
  <2> QED  BY <1>e, <2>2, Zenon DEF RequestHolds, InCall, Mapped
<1>5. ServedWaits'
  BY <1>e, <1>d, <1>i, ServerTyped, Zenon DEF ServedWaits, Busy, Served
<1>6. ReplyReady'
  BY <1>e, <1>d, <1>i, ServerTyped DEF ReplyReady, Busy, Served, InCall, Stages
<1> QED  BY <1>1, <1>2, <1>3, <1>5, <1>6, Zenon

\* The next stage of the same call.
LEMMA NextStage ==
    ASSUME ServeTypes, NEW c \in Client, InCall(c), NEW a \in Stages
    PROVE  LET q == [cl[c] EXCEPT !.at = a] IN
           /\ q \in ClientState /\ q.at = a /\ q.fd = cl[c].fd /\ q.req = cl[c].req
           /\ q.req = "open" => q.path = cl[c].path
           /\ q.req # "open" => q.id = cl[c].id
<1>1. CASE cl[c].req = "open"
  <2>1. cl[c] \in [at : Stages, req : {"open"}, path : Files, fd : Fds]
    BY <1>1, ClientTyped, Zenon
  <2> QED  BY <2>1, Zenon DEF ClientState
<1>2. CASE cl[c].req # "open"
  <2>1. cl[c] \in [at : Stages, req : {"use", "close"}, id : Int, fd : Fds]
    BY <1>2, ClientTyped, Zenon
  <2> QED  BY <2>1, Zenon DEF ClientState
<1> QED  BY <1>1, <1>2, Zenon

\* Going on in a call: ipc_send reaches the server, ipc_recv waits for it.
LEMMA Step_goes_on ==
    ASSUME ServeInv, NEW c \in Client, InCall(c), NEW a \in {"sent", "recv"},
           cl' = [cl EXCEPT ![c] = [cl[c] EXCEPT !.at = a]],
           \/ sv' = sv
           \/ sv' = [at |-> "serve", from |-> c],
           UNCHANGED <<opentab, fdpage, fd, meant>>
    PROVE  ServeInv'
<1> USE DEF ServeInv
<1> DEFINE q == [cl[c] EXCEPT !.at = a]
<1>a. a \in Stages
  BY Zenon DEF Stages
<1>q. /\ q \in ClientState /\ q.at = a /\ q.fd = cl[c].fd /\ q.req = cl[c].req
      /\ q.req = "open" => q.path = cl[c].path
      /\ q.req # "open" => q.id = cl[c].id
  BY <1>a, NextStage, Zenon
<1> HIDE DEF q
<1>e. cl' = [cl EXCEPT ![c] = q]
  BY Zenon DEF q
<1>d. \A d \in Client : cl'[d] = IF d = c THEN q ELSE cl[d]
  BY <1>e, Zenon DEF ServeTypes
<1>1. ServeTypes'
  <2>1. cl' \in [Client -> ClientState]
    BY <1>e, <1>q, Zenon DEF ServeTypes
  <2>2. sv' \in ServerState
    BY DEF ServeTypes, ServerState
  <2> QED  BY <2>1, <2>2, Zenon DEF ServeTypes
<1>2. MappedAllocated' /\ DescriptorHolds'
  BY Zenon DEF MappedAllocated, Mapped, DescriptorHolds
<1>3. RequestHolds'
  BY <1>d, <1>q DEF RequestHolds, InCall, Mapped
<1>4. CASE sv' = sv
  <2>1. ServedWaits'
    BY <1>4, <1>d, <1>q, ServerTyped, Zenon DEF ServedWaits, Busy, Served
  <2>2. ReplyReady'
    BY <1>4, <1>d, <1>q, ServerTyped DEF ReplyReady, InCall
  <2> QED  BY <2>1, <2>2, <1>1, <1>2, <1>3, Zenon
<1>5. CASE sv' = [at |-> "serve", from |-> c]
  <2>1. sv'.at = "serve" /\ sv'.from = c
    BY <1>5, Zenon
  <2>2. ServedWaits'
    BY <2>1, <1>d, <1>q, Zenon DEF ServedWaits, Busy, Served
  <2>3. ReplyReady'
    BY <2>1, Zenon DEF ReplyReady
  <2> QED  BY <2>2, <2>3, <1>1, <1>2, <1>3, Zenon
<1> QED  BY <1>4, <1>5, Zenon

LEMMA Step_ipc ==
    ASSUME ServeInv, NEW c \in Client, ipc_send(c) \/ ipc_recv(c)
    PROVE  ServeInv'
<1>1. CASE ipc_send(c)
  BY <1>1, Step_goes_on, Zenon DEF ipc_send, Resumes, InCall, Stages
<1>2. CASE ipc_recv(c)
  BY <1>2, Step_goes_on, Zenon DEF ipc_recv, Resumes, InCall, Stages
<1> QED  BY <1>1, <1>2, Zenon
-----------------------------------------------------------------------------
(* Steps of the server. *)

LEMMA Step_reply_panic ==
    ASSUME ServeInv, reply_panic
    PROVE  ServeInv'
<1> USE DEF ServeInv
<1>e. sv' = [at |-> "panic"] /\ UNCHANGED <<opentab, fdpage, fd, meant, cl>>
  BY Zenon DEF reply_panic
<1>1. sv' \in ServerState /\ sv'.at = "panic"
  BY <1>e, Zenon DEF ServerState
<1>2. ServeTypes'
  BY <1>e, <1>1, Zenon DEF ServeTypes
<1>3. MappedAllocated' /\ DescriptorHolds' /\ RequestHolds'
  BY <1>e, Zenon DEF MappedAllocated, Mapped, DescriptorHolds, RequestHolds, InCall
<1>4. ServedWaits' /\ ReplyReady'
  BY <1>1, Zenon DEF ServedWaits, Busy, ReplyReady
<1> QED  BY <1>2, <1>3, <1>4, Zenon

\* serve_open: a slot that nobody maps gets a new id, and a file if there is one.
LEMMA Step_serve_open ==
    ASSUME ServeInv, sv.at = "serve", cl[sv.from].at \in {"sent", "recv"},
           cl[sv.from].req = "open", serve_open_slot(cl[sv.from].path),
           UNCHANGED <<fd, meant, cl>>
    PROVE  ServeInv'
<1> USE DEF ServeInv
<1> DEFINE c == sv.from
           path == cl[sv.from].path
<1>c. c \in Client /\ InCall(c) /\ path \in Files
  BY ServerTyped, ClientTyped, Zenon DEF InCall, Stages
<1>r. ASSUME NEW r \in TabSlots \cup {NoSlot}, Reply(r)
      PROVE  /\ sv' \in ServerState /\ sv'.at = "reply" /\ sv'.to = c /\ sv'.r = r
             /\ ServedWaits'
  <2>1. sv' = [at |-> "reply", to |-> c, r |-> r]
    BY <1>r, Zenon DEF Reply
  <2>2. sv' \in ServerState /\ sv'.at = "reply" /\ sv'.to = c /\ sv'.r = r
    BY <2>1, <1>c, Zenon DEF ServerState
  <2> HIDE DEF c
  <2> QED  BY <2>2, Zenon DEF ServedWaits, Busy, Served, c
<1>1. CASE Available = {}
  <2>1. Reply(NoSlot) /\ UNCHANGED <<opentab, fdpage>>
    BY <1>1, Zenon DEF serve_open_slot
  <2>2. sv' \in ServerState /\ sv'.at = "reply" /\ sv'.to = c /\ sv'.r = NoSlot /\ ServedWaits'
    BY <2>1, <1>r, Zenon
  <2>3. ServeTypes'
    BY <2>1, <2>2, Zenon DEF ServeTypes
  <2>4. MappedAllocated' /\ DescriptorHolds' /\ RequestHolds'
    BY <2>1, Zenon DEF MappedAllocated, Mapped, DescriptorHolds, RequestHolds, InCall
  <2>5. ReplyReady'
    BY <2>2, Zenon DEF ReplyReady
  <2> QED  BY <2>2, <2>3, <2>4, <2>5, Zenon
<1>2. CASE Available # {}
  <2> DEFINE k == Min(Available)
             fid == NextId(k)
             ok == ~Negative(fid) /\ path # NoPath
  <2>1. k \in TabSlots /\ Reusable(k)
    <3>1. Available \in SUBSET Nat
      BY ServeConstants DEF Available, TabSlots
    <3>2. Min(Available) \in Available
      BY <1>2, <3>1, LeastIsIn, Zenon
    <3> QED  BY <3>2, Zenon DEF Available
  <2>2. \A a \in Client, n \in Fds : fd[a][n] # k
    BY <2>1, ReusableUnmapped, Zenon
  <2>3. fid \in Int /\ fid % MAXOPEN = k
    BY <2>1, NextIdNames, Zenon DEF ServeTypes
  <2>4. /\ opentab' = [opentab EXCEPT ![k].id = fid, ![k].file = IF ok THEN path ELSE @]
        /\ fdpage' = [fdpage EXCEPT ![k] = [alloc |-> TRUE, id |-> IF ok THEN fid ELSE 0]]
        /\ Reply(IF ok THEN k ELSE NoSlot)
    BY <1>2, Zenon DEF serve_open_slot
  <2> HIDE DEF k, fid, ok, c, path
  <2>5. /\ opentab' \in [TabSlots -> [id : Int, file : Files]]
        /\ fdpage' \in [TabSlots -> [alloc : BOOLEAN, id : Int]]
        /\ \A j \in TabSlots \ {k} : opentab'[j] = opentab[j] /\ fdpage'[j] = fdpage[j]
        /\ opentab'[k].id = fid /\ fdpage'[k].alloc
        /\ ok => fdpage'[k].id = fid /\ opentab'[k].file = path
    <3> DEFINE e == [opentab[k] EXCEPT !.id = fid, !.file = IF ok THEN path ELSE @]
    <3>1. opentab[k] \in [id : Int, file : Files]
      BY <2>1, Zenon DEF ServeTypes
    <3>2. e \in [id : Int, file : Files] /\ e.id = fid /\ (ok => e.file = path)
      BY <3>1, <2>3, <1>c, Zenon
    <3>3. opentab' = [opentab EXCEPT ![k] = e]
      BY <2>1, <2>4, Zenon DEF ServeTypes
    <3> HIDE DEF e
    <3>4. /\ opentab' \in [TabSlots -> [id : Int, file : Files]] /\ opentab'[k] = e
          /\ \A j \in TabSlots \ {k} : opentab'[j] = opentab[j]
      BY <2>1, <3>2, <3>3, Zenon DEF ServeTypes
    <3>5. /\ fdpage' \in [TabSlots -> [alloc : BOOLEAN, id : Int]]
          /\ \A j \in TabSlots \ {k} : fdpage'[j] = fdpage[j]
          /\ fdpage'[k].alloc /\ (ok => fdpage'[k].id = fid)
      BY <2>1, <2>3, <2>4 DEF ServeTypes
    <3> QED  BY <3>2, <3>4, <3>5, Zenon
  <2>6. /\ sv' \in ServerState /\ sv'.at = "reply" /\ sv'.to = c
        /\ sv'.r = IF ok THEN k ELSE NoSlot
        /\ ServedWaits'
    BY <2>1, <2>4, <1>r, Zenon
  <2>7. ServeTypes'
    BY <2>3, <2>5, <2>6 DEF ServeTypes
  <2>8. \A a \in Client, n \in Fds : Mapped(a, n) => fd[a][n] \in TabSlots \ {k}
    BY <2>2 DEF Mapped, ServeTypes
  <2>9. MappedAllocated' /\ DescriptorHolds'
    BY <2>5, <2>8 DEF MappedAllocated, Mapped, DescriptorHolds
  <2>10. RequestHolds'
    BY <2>5, <2>8, ClientTyped DEF RequestHolds, InCall, Mapped
  <2>11. ReplyReady'
    <3>1. sv'.r # NoSlot => ok /\ sv'.r = k
      BY <2>6, Zenon
    <3>2. cl'[sv'.to].req = "open" /\ cl'[sv'.to].path = path
      BY <2>6, Zenon DEF c, path
    <3> QED  BY <2>5, <3>1, <3>2, Zenon DEF ReplyReady
  <2> QED  BY <2>6, <2>7, <2>9, <2>10, <2>11, Zenon
<1> QED  BY <1>1, <1>2, Zenon

\* openfile_lookup: the descriptor of the request is mapped, so its slot has a
\* reference beside the server's, the id asked for, and the file it was opened as.
LEMMA Step_serve_lookup ==
    ASSUME ServeInv, sv.at = "serve", cl[sv.from].at \in {"sent", "recv"},
           cl[sv.from].req # "open", openfile_lookup(cl[sv.from].id),
           UNCHANGED <<fd, meant, cl>>
    PROVE  ServeInv'
<1> USE DEF ServeInv
<1> DEFINE c == sv.from
           q == cl[c]
           k == fd[c][q.fd]
           file == IF FoundSlot(q.id) THEN opentab[q.id % MAXOPEN].file ELSE NoPath
<1>1. c \in Client /\ InCall(c) /\ q.fd \in Fds /\ q.id \in Int
  BY ServerTyped, ClientTyped, Zenon DEF InCall, Stages
<1>2. k # NoSlot /\ q.id = opentab[k].id
  BY <1>1, Zenon DEF RequestHolds, Mapped
<1>3. k \in TabSlots
  <2>1. fd[c] \in [Fds -> TabSlots \cup {NoSlot}]
    BY <1>1, Zenon DEF ServeTypes
  <2> HIDE DEF c, q
  <2> QED  BY <1>1, <1>2, <2>1, Zenon
<1>4. q.id % MAXOPEN = k
  BY <1>2, <1>3, Zenon DEF ServeTypes
<1>5. pageref(k) > 1
  <2>1. ~Reusable(k)
    BY <1>1, <1>3, ReusableUnmapped, Zenon
  <2>2. pageref(k) \in Int
    BY <1>3, MappingsFinite
  <2> QED  BY <2>1, <2>2 DEF Reusable
<1>6. file = opentab[k].file
  BY <1>2, <1>4, <1>5, Zenon DEF FoundSlot
<1>7. opentab[k].file = meant[c][q.fd] /\ meant[c][q.fd] \in Files
  BY <1>1, <1>2, Zenon DEF DescriptorHolds, ServeTypes
<1>8. sv' = [at |-> "reply", to |-> c, r |-> NoSlot, file |-> file] /\ UNCHANGED <<opentab, fdpage>>
  BY Zenon DEF openfile_lookup
<1> HIDE DEF file
<1>9. sv' \in ServerState /\ sv'.at = "reply" /\ sv'.to = c /\ sv'.file = meant[c][q.fd]
  BY <1>1, <1>6, <1>7, <1>8, Zenon DEF ServerState
<1>10. ServeTypes'
  BY <1>8, <1>9, Zenon DEF ServeTypes
<1>11. MappedAllocated' /\ DescriptorHolds' /\ RequestHolds'
  BY <1>8, Zenon DEF MappedAllocated, Mapped, DescriptorHolds, RequestHolds, InCall
<1>12. ServedWaits'
  BY <1>9, Zenon DEF ServedWaits, Busy, Served
<1>13. ReplyReady'
  BY <1>9, Zenon DEF ReplyReady
<1> QED  BY <1>10, <1>11, <1>12, <1>13, Zenon

LEMMA Step_serve ==
    ASSUME ServeInv, serve
    PROVE  ServeInv'
<1>1. CASE cl[sv.from].req = "open"
  BY <1>1, Step_serve_open, Zenon DEF serve
<1>2. CASE cl[sv.from].req # "open"
  BY <1>2, Step_serve_lookup, Zenon DEF serve
<1> QED  BY <1>1, <1>2, Zenon

\* The answer arrives: an open maps the slot that was set up, a close unmaps.
LEMMA Step_reply ==
    ASSUME ServeInv, reply
    PROVE  ServeInv'
<1> USE DEF ServeInv
<1> DEFINE c == sv.to
           q == cl[c]
           slot == IF q.req = "open" THEN sv.r ELSE IF q.req = "close" THEN NoSlot ELSE fd[c][q.fd]
           file == IF q.req = "open" /\ sv.r # NoSlot THEN q.path
                   ELSE IF q.req = "use" THEN meant[c][q.fd] ELSE NoPath
<1>c. /\ c \in Client /\ InCall(c) /\ q.fd \in Fds /\ q.req \in {"open", "use", "close"}
      /\ sv.at = "reply" /\ sv.r \in TabSlots \cup {NoSlot}
      /\ q.req = "open" => q.path \in Files
  BY ServerTyped, ClientTyped, Zenon DEF reply, InCall, Stages
<1>e. /\ fd' = [fd EXCEPT ![c][q.fd] = slot] /\ meant' = [meant EXCEPT ![c][q.fd] = file]
      /\ cl' = [cl EXCEPT ![c] = Idle] /\ sv' = Idle
      /\ UNCHANGED <<opentab, fdpage>>
  BY <1>c, Zenon DEF reply, Deliver, Resumes, ServeTypes
<1>i. Idle \in ClientState /\ Idle \in ServerState /\ Idle.at = "idle"
  BY Zenon DEF Idle, ClientState, ServerState
<1>s. slot \in TabSlots \cup {NoSlot} /\ file \in Files
  BY <1>c DEF ServeTypes, Files
<1>m. slot # NoSlot => /\ fdpage[slot].alloc /\ fdpage[slot].id = opentab[slot].id
                       /\ opentab[slot].file = file
  <2>1. CASE q.req = "open"
    BY <2>1, <1>c, Zenon DEF ReplyReady
  <2>2. CASE q.req # "open"
    BY <2>2, <1>c, Zenon DEF MappedAllocated, Mapped, DescriptorHolds
  <2> QED  BY <2>1, <2>2, Zenon
<1>d. \A a \in Client, n \in Fds :
        /\ fd'[a][n] = IF a = c /\ n = q.fd THEN slot ELSE fd[a][n]
        /\ meant'[a][n] = IF a = c /\ n = q.fd THEN file ELSE meant[a][n]
  <2> HIDE DEF c, q, slot, file
  <2> QED  BY <1>c, <1>e, Zenon DEF ServeTypes
<1>l. \A a \in Client : cl'[a] = IF a = c THEN Idle ELSE cl[a]
  BY <1>e, Zenon DEF ServeTypes
<1>1. ServeTypes'
  <2> HIDE DEF c, q, slot, file
  <2> QED  BY <1>c, <1>e, <1>i, <1>s, Zenon DEF ServeTypes
<1>2. MappedAllocated' /\ DescriptorHolds'
  <2> HIDE DEF c, q, slot, file
  <2> QED  BY <1>e, <1>d, <1>m DEF MappedAllocated, Mapped, DescriptorHolds
<1>3. RequestHolds'
  <2> HIDE DEF c, q, slot, file
  <2> QED  BY <1>e, <1>d, <1>l, <1>i, ClientTyped DEF RequestHolds, InCall, Mapped, Stages
<1>4. ServedWaits' /\ ReplyReady'
  BY <1>e, <1>i, Zenon DEF ServedWaits, Busy, ReplyReady
<1> QED  BY <1>1, <1>2, <1>3, <1>4, Zenon
-----------------------------------------------------------------------------
(* The theorems. *)

LEMMA ServeInv_Init ==
    ASSUME ServeInit
    PROVE  ServeInv
<1> USE DEF ServeInit
<1>1. ServeTypes
  <2>1. \A k \in TabSlots : k \in Int /\ k % MAXOPEN = k
    <3> TAKE k \in TabSlots
    <3>1. MAXOPEN \in Nat \ {0} /\ k \in 0..MAXOPEN-1
      BY ServeConstants, Zenon DEF TabSlots
    <3>2. (MAXOPEN * 0 + k) % MAXOPEN = k
      BY <3>1, RemainderIs
    <3> QED  BY <3>1, <3>2
  <2>2. cl \in [Client -> ClientState] /\ sv \in ServerState
    BY Zenon DEF Idle, ClientState, ServerState
  <2> QED  BY <2>1, <2>2 DEF ServeTypes, NoFds, Files
<1>2. \A c \in Client : cl[c].at \in {"idle", "unborn"}
  BY Zenon DEF Idle
<1>3. MappedAllocated /\ DescriptorHolds
  BY Zenon DEF MappedAllocated, Mapped, DescriptorHolds, NoFds
<1>4. RequestHolds /\ ServedWaits /\ ReplyReady
  BY <1>2, Zenon DEF RequestHolds, InCall, Stages, ServedWaits, Busy, ReplyReady, Idle
<1> QED  BY <1>1, <1>3, <1>4, Zenon DEF ServeInv

LEMMA ServeInv_Next ==
    ASSUME ServeInv, [ServeNext]_serveVars
    PROVE  ServeInv'
<1>1. ASSUME NEW c \in Client, NEW path \in Path \cup {NoPath}, open(c, path) PROVE ServeInv'
  BY <1>1, Step_open, Zenon DEF Files
<1>2. ASSUME NEW c \in Client, NEW n \in Fds, NEW b \in BOOLEAN, devfile_call(c, n, b) PROVE ServeInv'
  BY <1>2, Step_devfile_call, Zenon
<1>3. ASSUME NEW c \in Client, NEW m \in Fds, NEW n \in Fds, client_dup(c, m, n) PROVE ServeInv'
  BY <1>3, Step_client_dup, Zenon
<1>4. ASSUME NEW c \in Client, NEW d \in Client, client_fork(c, d) PROVE ServeInv'
  BY <1>4, Step_client_fork, Zenon
<1>5. ASSUME NEW c \in Client, ipc_send(c) \/ ipc_recv(c) \/ client_destroyed(c) PROVE ServeInv'
  BY <1>5, Step_ipc, Step_client_destroyed, Zenon
<1>6. CASE serve \/ reply \/ reply_panic
  BY <1>6, Step_serve, Step_reply, Step_reply_panic, Zenon
<1>7. CASE UNCHANGED serveVars
  BY <1>7, Zenon DEF serveVars, ServeInv, ServeTypes, MappedAllocated, Mapped, DescriptorHolds,
              RequestHolds, InCall, ServedWaits, Busy, Served, ReplyReady
<1> QED  BY <1>1, <1>2, <1>3, <1>4, <1>5, <1>6, <1>7, Zenon DEF ServeNext

LEMMA ServeInvariant == ServeSpec => []ServeInv
<1>1. ServeInit => ServeInv
  BY ServeInv_Init, Zenon
<1>2. ServeInv /\ [ServeNext]_serveVars => ServeInv'
  BY ServeInv_Next, Zenon
<1> QED  BY <1>1, <1>2, PTL DEF ServeSpec

\* Every descriptor a client holds names, to the server, the file it was opened
\* as, and a request on it is served for that file (serve_open, openfile_lookup,
\* devfile_read and the others): the server, which keeps no list of its
\* clients, never gives a slot to a second file while one of them maps it.
THEOREM DescriptorsNameFiles == ServeSpec => []ServeSound
<1>1. ServeInv => ServeSound
  <2> SUFFICES ASSUME ServeInv PROVE ServeSound
    BY Zenon
  <2>1. ServeTypeOK
    BY ServerTyped, Zenon DEF ServeInv, ServeTypes, ServeTypeOK, Files
  <2>2. ServedRight
    BY Zenon DEF ServeInv, ReplyReady, ServedRight, InCall, Stages
  <2> QED  BY <2>1, <2>2, Zenon DEF ServeInv, ServeSound
<1> QED  BY <1>1, ServeInvariant, PTL
=============================================================================

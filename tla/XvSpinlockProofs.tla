-------------------------- MODULE XvSpinlockProofs --------------------------
(***************************************************************************)
(* Proofs about XvSpinlock: the inductive invariant, for any number of     *)
(* CPUs and locks, and the properties that follow from it.                 *)
(***************************************************************************)
EXTENDS XvSpinlock, FiniteSetTheorems, TLAPS

\* The provers of the leaves that do not name their own, in the order of the trials.
USE SMTT(30), SMTT(60), Zenon

\* The number of locks a context has is a natural number, and acquiring or
\* releasing one changes it by one.
LEMMA OwnCount ==
    ASSUME NEW S \in SUBSET Lock, NEW l \in Lock
    PROVE  /\ Cardinality(S) \in Nat
           /\ Cardinality(S) = 0 <=> S = {}
           /\ l \notin S => Cardinality(S \cup {l}) = Cardinality(S) + 1
           /\ l \in S => Cardinality(S \ {l}) = Cardinality(S) - 1
<1>1. IsFiniteSet(S)
  BY LockConstants, FS_Subset, Zenon
<1> QED  BY <1>1, FS_CardinalityType, FS_EmptySet, FS_AddElement, FS_RemoveElement, Zenon

\* The contexts of a CPU: the current one and the other.
LEMMA Contexts ==
    ASSUME TypeOK, NEW c \in CPU
    PROVE  /\ Here(c) \in Context
           /\ \A k \in {0, 1} : <<c, k>> \in Context
           /\ \A d \in CPU, k \in {0, 1} :
                 <<d, k>> = Here(c) <=> d = c /\ k = irq[c]
           /\ \A d \in CPU : Here(d) = Here(c) <=> d = c
           /\ <<c, 1 - irq[c]>> \in Context
           /\ \A d \in CPU : <<d, 1 - irq[d]>> # Here(c)
<1>1. \A d \in CPU : irq[d] \in {0, 1} /\ 1 - irq[d] \in {0, 1} /\ 1 - irq[d] # irq[d]
  BY DEF TypeOK
<1> QED  BY <1>1, Zenon DEF Context, Here

\* What IndInv says of one CPU: holding is right about it, its pushcli count
\* is zero exactly when nothing is in progress, and interrupts follow.
LEMMA OneCPU ==
    ASSUME IndInv, NEW c \in CPU
    PROVE  /\ \A l \in Lock : holding(c, l) <=> l \in own[Here(c)]
           /\ ncli[c] \in Nat
           /\ ncli[c] = 0 <=> Idle(Here(c))
<1>T. TypeOK
  BY Zenon DEF IndInv
<1>1. irq[c] \in {0, 1} /\ Here(c) = <<c, irq[c]>> /\ Here(c) \in Context
  BY <1>T, Contexts, Zenon DEF TypeOK, Here
<1>3. \A l \in Lock : holding(c, l) <=> l \in own[Here(c)]
  <2> SUFFICES ASSUME NEW l \in Lock PROVE holding(c, l) <=> l \in own[Here(c)]
    BY Zenon
  <2>1. lkcpu[l] = c <=> l \in own[Here(c)]
    BY Zenon DEF IndInv, OwnerInv
  <2>2. l \in own[Here(c)] => locked[l] = 1
    BY <1>1, Zenon DEF IndInv, MutualExclusion, Inside
  <2> QED  BY <2>1, <2>2, Zenon DEF holding
<1>4. own[Here(c)] \in SUBSET Lock /\ cli[Here(c)] \in Nat
  BY <1>T, <1>1, LockConstants DEF TypeOK
<1>5. Cardinality(own[Here(c)]) \in Nat /\ (Cardinality(own[Here(c)]) = 0 <=> own[Here(c)] = {})
  <2>1. IsFiniteSet(own[Here(c)])
    BY <1>4, LockConstants, FS_Subset, Zenon
  <2> QED  BY <2>1, FS_CardinalityType, FS_EmptySet, Zenon
<1>6. ncli[c] = Cardinality(own[Here(c)]) + cli[Here(c)] + (IF pc[Here(c)] = "run" THEN 0 ELSE 1)
  BY Zenon DEF IndInv, CliInv
<1>7. ncli[c] \in Nat /\ (ncli[c] = 0 <=> pc[Here(c)] = "run" /\ Cardinality(own[Here(c)]) = 0 /\ cli[Here(c)] = 0)
  BY <1>4, <1>5, <1>6
<1> QED  BY <1>3, <1>5, <1>7, Zenon DEF Idle

\* A context inside acquire or release works on a lock it does not own.
LEMMA Wanted ==
    ASSUME ControlInv, NEW x \in Context
    PROVE  /\ pc[x] # "run" => want[x] \in Lock
           /\ pc[x] \in {"check", "spin", "record", "unlock"} => want[x] \notin own[x]
<1>1. pc[x] # "run" => want[x] \in Lock
  BY Zenon DEF ControlInv
<1>2. ASSUME pc[x] \in {"check", "spin", "record"} PROVE want[x] \notin own[x]
  <2>1. want[x] \in Nat
    BY <1>1, <1>2, LockConstants, Zenon
  <2>2. \A m \in own[x] : m < want[x]
    BY <1>2, Zenon DEF ControlInv
  <2> QED  BY <2>1, <2>2
<1>3. pc[x] = "unlock" => want[x] \notin own[x]
  BY Zenon DEF ControlInv
<1> QED  BY <1>1, <1>2, <1>3, Zenon

\* A step that leaves lk->locked alone and does not change who is inside
\* a lock keeps the mutual exclusion.
LEMMA SameInside ==
    ASSUME MutualExclusion, locked' = locked,
           \A x \in Context, l \in Lock : Inside(x, l)' <=> Inside(x, l)
    PROVE  MutualExclusion'
  BY Zenon DEF MutualExclusion

\* No lock is held and interrupts are on.
LEMMA InitIndInv == Init => IndInv
<1> SUFFICES ASSUME Init PROVE IndInv
  BY Zenon
<1> USE LockConstants DEF Init
<1>1. \A c \in CPU : <<c, 0>> \in Context /\ <<c, 1>> \in Context /\ Here(c) = <<c, 0>>
  BY Zenon DEF Context, Here
<1>2. TypeOK
  BY DEF TypeOK
<1>3. ControlInv
  <2>1. \A c \in CPU : irq[c] = 0 /\ 1 - irq[c] = 1
    OBVIOUS
  <2>2. \A x \in Context : Idle(x) /\ pc[x] = "run"
    BY Zenon DEF Idle
  <2>3. \A c \in CPU : <<c, 1 - irq[c]>> \in Context
    BY <1>1, <2>1, Zenon
  <2> HIDE DEF Init
  <2>4. \A c \in CPU : Idle(<<c, 1 - irq[c]>>)
    BY <2>2, <2>3, Zenon
  <2> QED  BY <2>2, <2>4, Zenon DEF ControlInv
<1>4. CliInv
  <2> SUFFICES ASSUME NEW c \in CPU
               PROVE  /\ ncli[c] = Cardinality(own[Here(c)]) + cli[Here(c)]
                                      + (IF pc[Here(c)] = "run" THEN 0 ELSE 1)
                      /\ ~(ncli[c] > 0)
    BY Zenon DEF CliInv
  <2>1. ncli[c] = 0 /\ own[Here(c)] = {} /\ cli[Here(c)] = 0 /\ pc[Here(c)] = "run"
    BY <1>1, Zenon
  <2>2. Cardinality({}) = 0
    BY FS_EmptySet, Zenon
  <2> HIDE DEF Init
  <2> QED  BY <2>1, <2>2
<1>5. MutualExclusion
  <2> SUFFICES ASSUME NEW l \in Lock, NEW x \in Context PROVE locked[l] # 1 /\ ~Inside(x, l)
    BY DEF MutualExclusion
  <2>1. locked[l] = 0 /\ own[x] = {} /\ pc[x] = "run"
    BY Zenon
  <2> HIDE DEF Init
  <2> QED  BY <2>1 DEF Inside
<1>6. OwnerInv
  BY <1>1, Zenon DEF OwnerInv
<1> QED  BY <1>2, <1>3, <1>4, <1>5, <1>6, Zenon DEF IndInv, InterruptsMatch, NoPanic

\* pushcli turns interrupts off before anything else.
LEMMA Step_acquire ==
    ASSUME IndInv, NEW c \in CPU, NEW l \in Lock, acquire(c, l)
    PROVE  IndInv'
<1> DEFINE x == Here(c)
<1>T. TypeOK  BY Zenon DEF IndInv
<1>C. ControlInv  BY Zenon DEF IndInv
<1>K. CliInv  BY Zenon DEF IndInv
<1>M. MutualExclusion  BY Zenon DEF IndInv
<1>H. OwnerInv  BY Zenon DEF IndInv
<1>I. InterruptsMatch  BY Zenon DEF IndInv
<1>N. panicked = 0  BY Zenon DEF IndInv, NoPanic
<1>x. /\ x \in Context /\ irq[c] \in {0, 1} /\ x = <<c, irq[c]>>
      /\ \A d \in CPU : Here(d) \in Context /\ (Here(d) = x <=> d = c)
      /\ \A d \in CPU, k \in {0, 1} : <<d, k>> \in Context /\ (<<d, k>> = x <=> d = c /\ k = irq[c])
  BY <1>T, Contexts, Zenon DEF TypeOK, Here
<1>y. \A m \in Lock : holding(c, m) <=> m \in own[x]  BY OneCPU, Zenon
<1>z. ncli[c] \in Nat /\ (ncli[c] = 0 <=> Idle(x))  BY OneCPU, Zenon
<1>n. panicked' = 0
  BY <1>N, Zenon DEF acquire
<1>1. TypeOK'
  BY <1>T, <1>x, <1>n, LockConstants DEF TypeOK, acquire, pushcli
<1>2. ControlInv'
  <2>1. \A d \in CPU : <<d, 1 - irq[d]>> \in Context /\ <<d, 1 - irq[d]>> # x
    BY <1>T, Contexts, Zenon
  <2>2. \A y \in Context : y # x =>
           pc'[y] = pc[y] /\ want'[y] = want[y] /\ own'[y] = own[y] /\ cli'[y] = cli[y]
    BY <1>T, Zenon DEF TypeOK, acquire, pushcli
  <2>3. \A d \in CPU : Idle(<<d, 1 - irq[d]>>)'
    <3>1. irq' = irq
      BY Zenon DEF acquire
    <3> QED  BY <1>C, <2>1, <2>2, <3>1, Zenon DEF ControlInv, Idle
  <2>4. /\ pc'[x] # "run" => want'[x] \in Lock
        /\ pc'[x] \in {"check", "spin", "record"} => \A m \in own'[x] : m < want'[x]
        /\ pc'[x] = "unlock" => want'[x] \notin own'[x]
    BY <1>T, <1>C, <1>x, <1>y, <1>n, Zenon DEF TypeOK, ControlInv, acquire, pushcli
  <2> HIDE DEF x
  <2> QED  BY <1>C, <2>2, <2>3, <2>4, Zenon DEF ControlInv
<1>3. CliInv'
  <2> SUFFICES ASSUME NEW d \in CPU
               PROVE  /\ ncli'[d] = Cardinality(own'[Here(d)]) + cli'[Here(d)]
                                       + (IF pc'[Here(d)] = "run" THEN 0 ELSE 1)
                      /\ ncli'[d] > 0 => intena'[d] = 1 - irq[d]
    BY Zenon DEF CliInv, Here, acquire
  <2>0. /\ ncli[d] = Cardinality(own[Here(d)]) + cli[Here(d)]
                      + (IF pc[Here(d)] = "run" THEN 0 ELSE 1)
        /\ ncli[d] > 0 => intena[d] = 1 - irq[d]
    BY <1>K, Zenon DEF CliInv
  <2>1. CASE d # c
    <3>1. Here(d) # x /\ Here(d) \in Context
      BY <1>x, <2>1, Zenon
    <3> HIDE DEF x
    <3>2. /\ ncli'[d] = ncli[d] /\ intena'[d] = intena[d]
          /\ own'[Here(d)] = own[Here(d)] /\ cli'[Here(d)] = cli[Here(d)]
          /\ pc'[Here(d)] = pc[Here(d)]
      BY <1>T, <2>1, <3>1, Zenon DEF x, TypeOK, acquire, pushcli
    <3> QED  BY <2>0, <3>2, Zenon
  <2>2. CASE d = c
    <3>1. /\ own[x] \in SUBSET Lock /\ cli[x] \in Nat /\ fl[c] \in {0, 1}
          /\ intena[c] \in {0, 1}
      BY <1>T, <1>x, LockConstants DEF TypeOK
    <3>2. Cardinality(own[x]) \in Nat
      BY <3>1, LockConstants, FS_Subset, FS_CardinalityType, Zenon
    <3>3. /\ own'[x] = own[x] /\ pc[x] = "run" /\ ncli'[c] = ncli[c] + 1
          /\ intena'[c] = IF ncli[c] = 0 THEN fl[c] ELSE intena[c]
          /\ pc'[x] = "check" /\ cli'[x] = cli[x]
      BY <1>T, <1>x, Zenon DEF TypeOK, acquire, pushcli
    <3>4. ncli[c] = 0 => fl[c] = 1 - irq[c]
      BY <1>I, <1>x DEF InterruptsMatch
    <3> HIDE DEF x
    <3> QED  BY <1>z, <2>0, <2>2, <3>1, <3>2, <3>3, <3>4 DEF x
  <2> QED  BY <2>1, <2>2, Zenon
<1>4. MutualExclusion'
  <2>1. \A y \in Context, m \in Lock : Inside(y, m)' <=> Inside(y, m)
    BY <1>T, <1>x, <1>y, <1>n, Zenon DEF TypeOK, Inside, acquire, pushcli
  <2> QED  BY <1>M, <2>1, SameInside, Zenon DEF acquire, pushcli
<1>5. OwnerInv'
  BY <1>H, Zenon DEF OwnerInv, Here, acquire
<1>6. InterruptsMatch'
  BY <1>T, <1>I, <1>x, <1>n, <1>z DEF TypeOK, InterruptsMatch, acquire, pushcli
<1> QED  BY <1>1, <1>2, <1>3, <1>4, <1>5, <1>6, <1>n, Zenon DEF IndInv, NoPanic

\* acquire panics on a lock that this CPU holds.
LEMMA Step_acquire_check ==
    ASSUME IndInv, NEW c \in CPU, acquire_check(c)
    PROVE  IndInv'
<1> DEFINE x == Here(c)
<1>T. TypeOK  BY Zenon DEF IndInv
<1>C. ControlInv  BY Zenon DEF IndInv
<1>K. CliInv  BY Zenon DEF IndInv
<1>M. MutualExclusion  BY Zenon DEF IndInv
<1>H. OwnerInv  BY Zenon DEF IndInv
<1>I. InterruptsMatch  BY Zenon DEF IndInv
<1>N. panicked = 0  BY Zenon DEF IndInv, NoPanic
<1>x. /\ x \in Context /\ irq[c] \in {0, 1} /\ x = <<c, irq[c]>>
      /\ \A d \in CPU : Here(d) \in Context /\ (Here(d) = x <=> d = c)
      /\ \A d \in CPU, k \in {0, 1} : <<d, k>> \in Context /\ (<<d, k>> = x <=> d = c /\ k = irq[c])
  BY <1>T, Contexts, Zenon DEF TypeOK, Here
<1>y. \A m \in Lock : holding(c, m) <=> m \in own[x]  BY OneCPU, Zenon
<1>z. ncli[c] \in Nat /\ (ncli[c] = 0 <=> Idle(x))  BY OneCPU, Zenon
<1>n. panicked' = 0
  <2>1. want[x] \in Lock /\ want[x] \notin own[x]
    BY <1>C, <1>x, Wanted, Zenon DEF acquire_check
  <2> QED  BY <1>N, <1>y, <2>1, Zenon DEF acquire_check
<1>1. TypeOK'
  BY <1>T, <1>x, <1>n, LockConstants, Zenon DEF TypeOK, acquire_check
<1>2. ControlInv'
  <2>1. \A d \in CPU : <<d, 1 - irq[d]>> \in Context /\ <<d, 1 - irq[d]>> # x
    BY <1>T, Contexts, Zenon
  <2>2. \A y \in Context : y # x =>
           pc'[y] = pc[y] /\ want'[y] = want[y] /\ own'[y] = own[y] /\ cli'[y] = cli[y]
    BY <1>T, Zenon DEF TypeOK, acquire_check
  <2>3. \A d \in CPU : Idle(<<d, 1 - irq[d]>>)'
    <3>1. irq' = irq
      BY Zenon DEF acquire_check
    <3> QED  BY <1>C, <2>1, <2>2, <3>1, Zenon DEF ControlInv, Idle
  <2>4. /\ pc'[x] # "run" => want'[x] \in Lock
        /\ pc'[x] \in {"check", "spin", "record"} => \A m \in own'[x] : m < want'[x]
        /\ pc'[x] = "unlock" => want'[x] \notin own'[x]
    BY <1>T, <1>C, <1>x, <1>y, <1>n, Zenon DEF TypeOK, ControlInv, acquire_check
  <2> HIDE DEF x
  <2> QED  BY <1>C, <2>2, <2>3, <2>4, Zenon DEF ControlInv
<1>3. CliInv'
  <2> SUFFICES ASSUME NEW d \in CPU
               PROVE  /\ ncli'[d] = Cardinality(own'[Here(d)]) + cli'[Here(d)]
                                       + (IF pc'[Here(d)] = "run" THEN 0 ELSE 1)
                      /\ ncli'[d] > 0 => intena'[d] = 1 - irq[d]
    BY Zenon DEF CliInv, Here, acquire_check
  <2>0. /\ ncli[d] = Cardinality(own[Here(d)]) + cli[Here(d)]
                      + (IF pc[Here(d)] = "run" THEN 0 ELSE 1)
        /\ ncli[d] > 0 => intena[d] = 1 - irq[d]
    BY <1>K, Zenon DEF CliInv
  <2>1. CASE d # c
    <3>1. Here(d) # x /\ Here(d) \in Context
      BY <1>x, <2>1, Zenon
    <3> HIDE DEF x
    <3>2. /\ ncli'[d] = ncli[d] /\ intena'[d] = intena[d]
          /\ own'[Here(d)] = own[Here(d)] /\ cli'[Here(d)] = cli[Here(d)]
          /\ pc'[Here(d)] = pc[Here(d)]
      BY <1>T, <2>1, <3>1, Zenon DEF x, TypeOK, acquire_check
    <3> QED  BY <2>0, <3>2, Zenon
  <2>2. CASE d = c
    <3>1. /\ own[x] \in SUBSET Lock /\ cli[x] \in Nat /\ fl[c] \in {0, 1}
          /\ intena[c] \in {0, 1}
      BY <1>T, <1>x, LockConstants DEF TypeOK
    <3>2. Cardinality(own[x]) \in Nat
      BY <3>1, LockConstants, FS_Subset, FS_CardinalityType, Zenon
    <3> QED  BY <1>T, <1>I, <1>x, <1>n, <1>z, <2>0, <2>2, <3>1, <3>2, Zenon
              DEF TypeOK, InterruptsMatch, acquire_check
  <2> QED  BY <2>1, <2>2, Zenon
<1>4. MutualExclusion'
  <2>1. \A y \in Context, m \in Lock : Inside(y, m)' <=> Inside(y, m)
    BY <1>T, <1>x, <1>y, <1>n DEF TypeOK, Inside, acquire_check
  <2> QED  BY <1>M, <2>1, SameInside, Zenon DEF acquire_check
<1>5. OwnerInv'
  BY <1>H, Zenon DEF OwnerInv, Here, acquire_check
<1>6. InterruptsMatch'
  BY <1>T, <1>I, <1>x, <1>n, <1>z, Zenon DEF TypeOK, InterruptsMatch, acquire_check
<1> QED  BY <1>1, <1>2, <1>3, <1>4, <1>5, <1>6, <1>n, Zenon DEF IndInv, NoPanic

\* The xchg takes the lock if it is free.
LEMMA Step_acquire_xchg ==
    ASSUME IndInv, NEW c \in CPU, acquire_xchg(c)
    PROVE  IndInv'
<1> DEFINE x == Here(c)
<1>T. TypeOK  BY Zenon DEF IndInv
<1>C. ControlInv  BY Zenon DEF IndInv
<1>K. CliInv  BY Zenon DEF IndInv
<1>M. MutualExclusion  BY Zenon DEF IndInv
<1>H. OwnerInv  BY Zenon DEF IndInv
<1>I. InterruptsMatch  BY Zenon DEF IndInv
<1>N. panicked = 0  BY Zenon DEF IndInv, NoPanic
<1>x. /\ x \in Context /\ irq[c] \in {0, 1} /\ x = <<c, irq[c]>>
      /\ \A d \in CPU : Here(d) \in Context /\ (Here(d) = x <=> d = c)
      /\ \A d \in CPU, k \in {0, 1} : <<d, k>> \in Context /\ (<<d, k>> = x <=> d = c /\ k = irq[c])
  BY <1>T, Contexts, Zenon DEF TypeOK, Here
<1>y. \A m \in Lock : holding(c, m) <=> m \in own[x]  BY OneCPU, Zenon
<1>z. ncli[c] \in Nat /\ (ncli[c] = 0 <=> Idle(x))  BY OneCPU, Zenon
<1>n. panicked' = 0
  BY <1>N, Zenon DEF acquire_xchg
<1>1. TypeOK'
  BY <1>T, <1>x, <1>n, LockConstants, Zenon DEF TypeOK, acquire_xchg
<1>2. ControlInv'
  <2>1. \A d \in CPU : <<d, 1 - irq[d]>> \in Context /\ <<d, 1 - irq[d]>> # x
    BY <1>T, Contexts, Zenon
  <2>2. \A y \in Context : y # x =>
           pc'[y] = pc[y] /\ want'[y] = want[y] /\ own'[y] = own[y] /\ cli'[y] = cli[y]
    BY <1>T, Zenon DEF TypeOK, acquire_xchg
  <2>3. \A d \in CPU : Idle(<<d, 1 - irq[d]>>)'
    <3>1. irq' = irq
      BY Zenon DEF acquire_xchg
    <3> QED  BY <1>C, <2>1, <2>2, <3>1, Zenon DEF ControlInv, Idle
  <2>4. /\ pc'[x] # "run" => want'[x] \in Lock
        /\ pc'[x] \in {"check", "spin", "record"} => \A m \in own'[x] : m < want'[x]
        /\ pc'[x] = "unlock" => want'[x] \notin own'[x]
    BY <1>T, <1>C, <1>x, <1>y, <1>n, Zenon DEF TypeOK, ControlInv, acquire_xchg
  <2> HIDE DEF x
  <2> QED  BY <1>C, <2>2, <2>3, <2>4, Zenon DEF ControlInv
<1>3. CliInv'
  <2> SUFFICES ASSUME NEW d \in CPU
               PROVE  /\ ncli'[d] = Cardinality(own'[Here(d)]) + cli'[Here(d)]
                                       + (IF pc'[Here(d)] = "run" THEN 0 ELSE 1)
                      /\ ncli'[d] > 0 => intena'[d] = 1 - irq[d]
    BY Zenon DEF CliInv, Here, acquire_xchg
  <2>0. /\ ncli[d] = Cardinality(own[Here(d)]) + cli[Here(d)]
                      + (IF pc[Here(d)] = "run" THEN 0 ELSE 1)
        /\ ncli[d] > 0 => intena[d] = 1 - irq[d]
    BY <1>K, Zenon DEF CliInv
  <2>1. CASE d # c
    <3>1. Here(d) # x /\ Here(d) \in Context
      BY <1>x, <2>1, Zenon
    <3> HIDE DEF x
    <3>2. /\ ncli'[d] = ncli[d] /\ intena'[d] = intena[d]
          /\ own'[Here(d)] = own[Here(d)] /\ cli'[Here(d)] = cli[Here(d)]
          /\ pc'[Here(d)] = pc[Here(d)]
      BY <1>T, <2>1, <3>1, Zenon DEF x, TypeOK, acquire_xchg
    <3> QED  BY <2>0, <3>2, Zenon
  <2>2. CASE d = c
    <3>1. /\ own[x] \in SUBSET Lock /\ cli[x] \in Nat /\ fl[c] \in {0, 1}
          /\ intena[c] \in {0, 1}
      BY <1>T, <1>x, LockConstants DEF TypeOK
    <3>2. Cardinality(own[x]) \in Nat
      BY <3>1, LockConstants, FS_Subset, FS_CardinalityType, Zenon
    <3> QED  BY <1>T, <1>I, <1>x, <1>n, <1>z, <2>0, <2>2, <3>1, <3>2, Zenon
              DEF TypeOK, InterruptsMatch, acquire_xchg
  <2> QED  BY <2>1, <2>2, Zenon
<1>4. MutualExclusion'
  <2>1. want[x] \in Lock /\ want[x] \notin own[x]
    BY <1>C, <1>x, Wanted, Zenon DEF acquire_xchg
  <2>2. CASE locked[want[x]] = 0
    <3>1. \A y \in Context, m \in Lock :
             Inside(y, m)' <=> Inside(y, m) \/ (y = x /\ m = want[x])
      BY <1>T, <1>x, <2>1, <2>2, Zenon DEF TypeOK, Inside, acquire_xchg
    <3>2. \A y \in Context : ~Inside(y, want[x])
      BY <1>M, <2>1, <2>2 DEF MutualExclusion
    <3>3. \A m \in Lock : locked'[m] = IF m = want[x] THEN 1 ELSE locked[m]
      BY <1>T, <2>1, Zenon DEF TypeOK, acquire_xchg
    <3> SUFFICES ASSUME NEW m \in Lock
                 PROVE  /\ \A y, z \in Context : Inside(y, m)' /\ Inside(z, m)' => y = z
                        /\ locked'[m] = 1 <=> \E y \in Context : Inside(y, m)'
      BY Zenon DEF MutualExclusion
    <3>4. /\ \A y, z \in Context : Inside(y, m) /\ Inside(z, m) => y = z
          /\ locked[m] = 1 <=> \E y \in Context : Inside(y, m)
      BY <1>M, Zenon DEF MutualExclusion
    <3> HIDE DEF x
    <3> QED  BY <1>x, <3>1, <3>2, <3>3, <3>4
  <2>3. CASE locked[want[x]] # 0
    <3>1. locked' = locked /\ pc' = pc
      BY <1>T, <1>x, <2>1, <2>3 DEF TypeOK, acquire_xchg
    <3> QED  BY <1>M, <3>1, SameInside, Zenon DEF Inside, acquire_xchg
  <2> QED  BY <2>2, <2>3, Zenon
<1>5. OwnerInv'
  BY <1>H, Zenon DEF OwnerInv, Here, acquire_xchg
<1>6. InterruptsMatch'
  BY <1>T, <1>I, <1>x, <1>n, <1>z, Zenon DEF TypeOK, InterruptsMatch, acquire_xchg
<1> QED  BY <1>1, <1>2, <1>3, <1>4, <1>5, <1>6, <1>n, Zenon DEF IndInv, NoPanic

\* acquire records the CPU in lk->cpu.
LEMMA Step_acquire_record ==
    ASSUME IndInv, NEW c \in CPU, acquire_record(c)
    PROVE  IndInv'
<1> DEFINE x == Here(c)
<1>T. TypeOK  BY Zenon DEF IndInv
<1>C. ControlInv  BY Zenon DEF IndInv
<1>K. CliInv  BY Zenon DEF IndInv
<1>M. MutualExclusion  BY Zenon DEF IndInv
<1>H. OwnerInv  BY Zenon DEF IndInv
<1>I. InterruptsMatch  BY Zenon DEF IndInv
<1>N. panicked = 0  BY Zenon DEF IndInv, NoPanic
<1>x. /\ x \in Context /\ irq[c] \in {0, 1} /\ x = <<c, irq[c]>>
      /\ \A d \in CPU : Here(d) \in Context /\ (Here(d) = x <=> d = c)
      /\ \A d \in CPU, k \in {0, 1} : <<d, k>> \in Context /\ (<<d, k>> = x <=> d = c /\ k = irq[c])
  BY <1>T, Contexts, Zenon DEF TypeOK, Here
<1>y. \A m \in Lock : holding(c, m) <=> m \in own[x]  BY OneCPU, Zenon
<1>z. ncli[c] \in Nat /\ (ncli[c] = 0 <=> Idle(x))  BY OneCPU, Zenon
<1>n. panicked' = 0
  BY <1>N, Zenon DEF acquire_record
<1>1. TypeOK'
  <2>1. want[x] \in Lock
    BY <1>C, <1>x, Wanted, Zenon DEF acquire_record
  <2> QED  BY <1>T, <1>x, <1>n, <2>1, LockConstants DEF TypeOK, acquire_record
<1>2. ControlInv'
  <2>1. \A d \in CPU : <<d, 1 - irq[d]>> \in Context /\ <<d, 1 - irq[d]>> # x
    BY <1>T, Contexts, Zenon
  <2>2. \A y \in Context : y # x =>
           pc'[y] = pc[y] /\ want'[y] = want[y] /\ own'[y] = own[y] /\ cli'[y] = cli[y]
    BY <1>T, Zenon DEF TypeOK, acquire_record
  <2>3. \A d \in CPU : Idle(<<d, 1 - irq[d]>>)'
    <3>1. irq' = irq
      BY Zenon DEF acquire_record
    <3> QED  BY <1>C, <2>1, <2>2, <3>1, Zenon DEF ControlInv, Idle
  <2>4. /\ pc'[x] # "run" => want'[x] \in Lock
        /\ pc'[x] \in {"check", "spin", "record"} => \A m \in own'[x] : m < want'[x]
        /\ pc'[x] = "unlock" => want'[x] \notin own'[x]
    BY <1>T, <1>C, <1>x, <1>y, <1>n, Zenon DEF TypeOK, ControlInv, acquire_record
  <2> HIDE DEF x
  <2> QED  BY <1>C, <2>2, <2>3, <2>4, Zenon DEF ControlInv
<1>3. CliInv'
  <2> SUFFICES ASSUME NEW d \in CPU
               PROVE  /\ ncli'[d] = Cardinality(own'[Here(d)]) + cli'[Here(d)]
                                       + (IF pc'[Here(d)] = "run" THEN 0 ELSE 1)
                      /\ ncli'[d] > 0 => intena'[d] = 1 - irq[d]
    BY DEF CliInv, Here, acquire_record
  <2>0. /\ ncli[d] = Cardinality(own[Here(d)]) + cli[Here(d)]
                      + (IF pc[Here(d)] = "run" THEN 0 ELSE 1)
        /\ ncli[d] > 0 => intena[d] = 1 - irq[d]
    BY <1>K, Zenon DEF CliInv
  <2>1. CASE d # c
    <3>1. Here(d) # x /\ Here(d) \in Context
      BY <1>x, <2>1, Zenon
    <3> HIDE DEF x
    <3>2. /\ ncli'[d] = ncli[d] /\ intena'[d] = intena[d]
          /\ own'[Here(d)] = own[Here(d)] /\ cli'[Here(d)] = cli[Here(d)]
          /\ pc'[Here(d)] = pc[Here(d)]
      BY <1>T, <2>1, <3>1, Zenon DEF x, TypeOK, acquire_record
    <3> QED  BY <2>0, <3>2, Zenon
  <2>2. CASE d = c
    <3>1. /\ own[x] \in SUBSET Lock /\ cli[x] \in Nat /\ fl[c] \in {0, 1}
          /\ intena[c] \in {0, 1}
      BY <1>T, <1>x, LockConstants DEF TypeOK
    <3>2. Cardinality(own[x]) \in Nat
      BY <3>1, LockConstants, FS_Subset, FS_CardinalityType, Zenon
    <3>3. want[x] \in Lock /\ want[x] \notin own[x]
      BY <1>C, <1>x, Wanted, Zenon DEF acquire_record
    <3>4. Cardinality(own[x] \cup {want[x]}) = Cardinality(own[x]) + 1
      BY <3>1, <3>3, OwnCount, Zenon
    <3>5. /\ own'[x] = own[x] \cup {want[x]} /\ pc'[x] = "run" /\ pc[x] = "record"
          /\ cli' = cli /\ ncli' = ncli /\ intena' = intena
      BY <1>T, <1>x, Zenon DEF TypeOK, acquire_record
    <3>6. ncli[c] = Cardinality(own[x]) + cli[x] + 1 /\ (ncli[c] > 0 => intena[c] = 1 - irq[c])
      BY <2>0, <2>2, <3>5, Zenon
    <3>7. ncli'[c] = Cardinality(own'[x]) + cli'[x] + 0
      BY <3>1, <3>2, <3>4, <3>5, <3>6
    <3> QED  BY <2>2, <3>5, <3>6, <3>7, Zenon
  <2> QED  BY <2>1, <2>2, Zenon
<1>4. MutualExclusion'
  <2>1. \A y \in Context, m \in Lock : Inside(y, m)' <=> Inside(y, m)
    BY <1>T, <1>x, <1>y, <1>n, Zenon DEF TypeOK, Inside, acquire_record
  <2> QED  BY <1>M, <2>1, SameInside, Zenon DEF acquire_record
<1>5. OwnerInv'
  <2>1. want[x] \in Lock /\ want[x] \notin own[x]
    BY <1>C, <1>x, Wanted, Zenon DEF acquire_record
  <2>2. \A d \in CPU : lkcpu[want[x]] # d
    <3> SUFFICES ASSUME NEW d \in CPU, want[x] \in own[Here(d)] PROVE FALSE
      BY <1>H, <2>1, Zenon DEF OwnerInv
    <3>1. Inside(x, want[x]) /\ Inside(Here(d), want[x])
      BY Zenon DEF Inside, acquire_record
    <3>2. Here(d) = x
      BY <1>M, <1>x, <2>1, <3>1, Zenon DEF MutualExclusion
    <3> QED  BY <2>1, <3>2, Zenon
  <2>3. /\ \A m \in Lock : lkcpu'[m] = IF m = want[x] THEN c ELSE lkcpu[m]
        /\ \A y \in Context : own'[y] = IF y = x THEN own[x] \cup {want[x]} ELSE own[y]
    BY <1>T, <1>x, <2>1, Zenon DEF TypeOK, acquire_record
  <2>4. irq' = irq
    BY Zenon DEF acquire_record
  <2> SUFFICES ASSUME NEW d \in CPU, NEW m \in Lock
               PROVE  lkcpu'[m] = d <=> m \in own'[Here(d)]
    BY <2>4, Zenon DEF OwnerInv, Here
  <2>5. /\ lkcpu[m] = d <=> m \in own[Here(d)]
        /\ lkcpu[want[x]] = d <=> want[x] \in own[Here(d)]
    BY <1>H, <2>1, Zenon DEF OwnerInv
  <2> HIDE DEF x
  <2> QED  BY <1>x, <2>2, <2>3, <2>5
<1>6. InterruptsMatch'
  BY <1>T, <1>I, <1>x, <1>n, <1>z, Zenon DEF TypeOK, InterruptsMatch, acquire_record
<1> QED  BY <1>1, <1>2, <1>3, <1>4, <1>5, <1>6, <1>n, Zenon DEF IndInv, NoPanic

\* release panics unless this CPU holds the lock, and clears lk->cpu.
LEMMA Step_release ==
    ASSUME IndInv, NEW c \in CPU, NEW l \in Lock, release(c, l)
    PROVE  IndInv'
<1> DEFINE x == Here(c)
<1>T. TypeOK  BY Zenon DEF IndInv
<1>C. ControlInv  BY Zenon DEF IndInv
<1>K. CliInv  BY Zenon DEF IndInv
<1>M. MutualExclusion  BY Zenon DEF IndInv
<1>H. OwnerInv  BY Zenon DEF IndInv
<1>I. InterruptsMatch  BY Zenon DEF IndInv
<1>N. panicked = 0  BY Zenon DEF IndInv, NoPanic
<1>x. /\ x \in Context /\ irq[c] \in {0, 1} /\ x = <<c, irq[c]>>
      /\ \A d \in CPU : Here(d) \in Context /\ (Here(d) = x <=> d = c)
      /\ \A d \in CPU, k \in {0, 1} : <<d, k>> \in Context /\ (<<d, k>> = x <=> d = c /\ k = irq[c])
  BY <1>T, Contexts, Zenon DEF TypeOK, Here
<1>y. \A m \in Lock : holding(c, m) <=> m \in own[x]  BY OneCPU, Zenon
<1>z. ncli[c] \in Nat /\ (ncli[c] = 0 <=> Idle(x))  BY OneCPU, Zenon
<1>n. panicked' = 0
  BY <1>N, <1>y, Zenon DEF release
<1>e. /\ l \in own[x] /\ pc[x] = "run" /\ locked' = locked /\ irq' = irq
      /\ \A m \in Lock : lkcpu'[m] = IF m = l THEN None ELSE lkcpu[m]
      /\ \A y \in Context : /\ own'[y] = IF y = x THEN own[x] \ {l} ELSE own[y]
                            /\ want'[y] = IF y = x THEN l ELSE want[y]
                            /\ pc'[y] = IF y = x THEN "unlock" ELSE pc[y]
  <2>1. /\ lkcpu' = [lkcpu EXCEPT ![l] = None]
        /\ own' = [own EXCEPT ![x] = @ \ {l}]
        /\ want' = [want EXCEPT ![x] = l]
        /\ pc' = [pc EXCEPT ![x] = "unlock"]
    BY <1>y, Zenon DEF release
  <2> QED  BY <1>T, <1>x, <2>1, Zenon DEF TypeOK, release
<1>1. TypeOK'
  <2>1. /\ lkcpu' = [lkcpu EXCEPT ![l] = None]
        /\ own' = [own EXCEPT ![x] = @ \ {l}]
        /\ want' = [want EXCEPT ![x] = l]
        /\ pc' = [pc EXCEPT ![x] = "unlock"]
    BY <1>y, Zenon DEF release
  <2> HIDE DEF x
  <2> QED  BY <1>T, <1>x, <1>n, <2>1, LockConstants, Zenon DEF TypeOK, release
<1>2. ControlInv'
  <2>1. \A d \in CPU : <<d, 1 - irq[d]>> \in Context /\ <<d, 1 - irq[d]>> # x
    BY <1>T, Contexts, Zenon
  <2>2. \A y \in Context : y # x =>
           pc'[y] = pc[y] /\ want'[y] = want[y] /\ own'[y] = own[y] /\ cli'[y] = cli[y]
    BY <1>T, Zenon DEF TypeOK, release
  <2>3. \A d \in CPU : Idle(<<d, 1 - irq[d]>>)'
    <3>1. irq' = irq
      BY Zenon DEF release
    <3> QED  BY <1>C, <2>1, <2>2, <3>1, Zenon DEF ControlInv, Idle
  <2>4. /\ pc'[x] # "run" => want'[x] \in Lock
        /\ pc'[x] \in {"check", "spin", "record"} => \A m \in own'[x] : m < want'[x]
        /\ pc'[x] = "unlock" => want'[x] \notin own'[x]
    BY <1>x, <1>e, Zenon
  <2> HIDE DEF x
  <2> QED  BY <1>C, <2>2, <2>3, <2>4, Zenon DEF ControlInv
<1>3. CliInv'
  <2> SUFFICES ASSUME NEW d \in CPU
               PROVE  /\ ncli'[d] = Cardinality(own'[Here(d)]) + cli'[Here(d)]
                                       + (IF pc'[Here(d)] = "run" THEN 0 ELSE 1)
                      /\ ncli'[d] > 0 => intena'[d] = 1 - irq[d]
    BY Zenon DEF CliInv, Here, release
  <2>0. /\ ncli[d] = Cardinality(own[Here(d)]) + cli[Here(d)]
                      + (IF pc[Here(d)] = "run" THEN 0 ELSE 1)
        /\ ncli[d] > 0 => intena[d] = 1 - irq[d]
    BY <1>K, Zenon DEF CliInv
  <2>1. CASE d # c
    <3>1. Here(d) # x /\ Here(d) \in Context
      BY <1>x, <2>1, Zenon
    <3> HIDE DEF x
    <3>2. /\ ncli'[d] = ncli[d] /\ intena'[d] = intena[d]
          /\ own'[Here(d)] = own[Here(d)] /\ cli'[Here(d)] = cli[Here(d)]
          /\ pc'[Here(d)] = pc[Here(d)]
      BY <1>T, <2>1, <3>1, Zenon DEF x, TypeOK, release
    <3> QED  BY <2>0, <3>2, Zenon
  <2>2. CASE d = c
    <3>1. /\ own[x] \in SUBSET Lock /\ cli[x] \in Nat /\ fl[c] \in {0, 1}
          /\ intena[c] \in {0, 1}
      BY <1>T, <1>x, LockConstants DEF TypeOK
    <3>2. Cardinality(own[x]) \in Nat
      BY <3>1, LockConstants, FS_Subset, FS_CardinalityType, Zenon
    <3>3. Cardinality(own[x] \ {l}) = Cardinality(own[x]) - 1
      BY <1>e, <3>1, OwnCount
    <3>4. cli' = cli /\ ncli' = ncli /\ intena' = intena
      BY Zenon DEF release
    <3> QED  BY <1>x, <1>e, <2>0, <2>2, <3>1, <3>2, <3>3, <3>4
  <2> QED  BY <2>1, <2>2, Zenon
<1>4. MutualExclusion'
  <2> HIDE DEF x
  <2>1. \A y \in Context, m \in Lock : Inside(y, m)' <=> Inside(y, m)
    BY <1>x, <1>e DEF Inside
  <2> QED  BY <1>M, <1>e, <2>1, SameInside, Zenon
<1>5. OwnerInv'
  <2> SUFFICES ASSUME NEW d \in CPU, NEW m \in Lock
               PROVE  lkcpu'[m] = d <=> m \in own'[Here(d)]
    BY <1>e, Zenon DEF OwnerInv, Here
  <2>1. /\ lkcpu[m] = d <=> m \in own[Here(d)]
        /\ lkcpu[l] = d <=> l \in own[Here(d)]
        /\ lkcpu[l] = c
    BY <1>H, <1>e, Zenon DEF OwnerInv
  <2> HIDE DEF x
  <2> QED  BY <1>x, <1>e, <2>1, LockConstants
<1>6. InterruptsMatch'
  BY <1>T, <1>I, <1>x, <1>n, <1>z, Zenon DEF TypeOK, InterruptsMatch, release
<1> QED  BY <1>1, <1>2, <1>3, <1>4, <1>5, <1>6, <1>n, Zenon DEF IndInv, NoPanic

\* The store that frees the lock.
LEMMA Step_release_store ==
    ASSUME IndInv, NEW c \in CPU, release_store(c)
    PROVE  IndInv'
<1> DEFINE x == Here(c)
<1>T. TypeOK  BY Zenon DEF IndInv
<1>C. ControlInv  BY Zenon DEF IndInv
<1>K. CliInv  BY Zenon DEF IndInv
<1>M. MutualExclusion  BY Zenon DEF IndInv
<1>H. OwnerInv  BY Zenon DEF IndInv
<1>I. InterruptsMatch  BY Zenon DEF IndInv
<1>N. panicked = 0  BY Zenon DEF IndInv, NoPanic
<1>x. /\ x \in Context /\ irq[c] \in {0, 1} /\ x = <<c, irq[c]>>
      /\ \A d \in CPU : Here(d) \in Context /\ (Here(d) = x <=> d = c)
      /\ \A d \in CPU, k \in {0, 1} : <<d, k>> \in Context /\ (<<d, k>> = x <=> d = c /\ k = irq[c])
  BY <1>T, Contexts, Zenon DEF TypeOK, Here
<1>y. \A m \in Lock : holding(c, m) <=> m \in own[x]  BY OneCPU, Zenon
<1>z. ncli[c] \in Nat /\ (ncli[c] = 0 <=> Idle(x))  BY OneCPU, Zenon
<1>n. panicked' = 0
  BY <1>N, Zenon DEF release_store
<1>1. TypeOK'
  BY <1>T, <1>x, <1>n, LockConstants, Zenon DEF TypeOK, release_store
<1>2. ControlInv'
  <2>1. \A d \in CPU : <<d, 1 - irq[d]>> \in Context /\ <<d, 1 - irq[d]>> # x
    BY <1>T, Contexts, Zenon
  <2>2. \A y \in Context : y # x =>
           pc'[y] = pc[y] /\ want'[y] = want[y] /\ own'[y] = own[y] /\ cli'[y] = cli[y]
    BY <1>T, Zenon DEF TypeOK, release_store
  <2>3. \A d \in CPU : Idle(<<d, 1 - irq[d]>>)'
    <3>1. irq' = irq
      BY Zenon DEF release_store
    <3> QED  BY <1>C, <2>1, <2>2, <3>1, Zenon DEF ControlInv, Idle
  <2>4. /\ pc'[x] # "run" => want'[x] \in Lock
        /\ pc'[x] \in {"check", "spin", "record"} => \A m \in own'[x] : m < want'[x]
        /\ pc'[x] = "unlock" => want'[x] \notin own'[x]
    BY <1>T, <1>C, <1>x, <1>y, <1>n, Zenon DEF TypeOK, ControlInv, release_store
  <2> HIDE DEF x
  <2> QED  BY <1>C, <2>2, <2>3, <2>4, Zenon DEF ControlInv
<1>3. CliInv'
  <2> SUFFICES ASSUME NEW d \in CPU
               PROVE  /\ ncli'[d] = Cardinality(own'[Here(d)]) + cli'[Here(d)]
                                       + (IF pc'[Here(d)] = "run" THEN 0 ELSE 1)
                      /\ ncli'[d] > 0 => intena'[d] = 1 - irq[d]
    BY Zenon DEF CliInv, Here, release_store
  <2>0. /\ ncli[d] = Cardinality(own[Here(d)]) + cli[Here(d)]
                      + (IF pc[Here(d)] = "run" THEN 0 ELSE 1)
        /\ ncli[d] > 0 => intena[d] = 1 - irq[d]
    BY <1>K, Zenon DEF CliInv
  <2>1. CASE d # c
    <3>1. Here(d) # x /\ Here(d) \in Context
      BY <1>x, <2>1, Zenon
    <3> HIDE DEF x
    <3>2. /\ ncli'[d] = ncli[d] /\ intena'[d] = intena[d]
          /\ own'[Here(d)] = own[Here(d)] /\ cli'[Here(d)] = cli[Here(d)]
          /\ pc'[Here(d)] = pc[Here(d)]
      BY <1>T, <2>1, <3>1, Zenon DEF x, TypeOK, release_store
    <3> QED  BY <2>0, <3>2, Zenon
  <2>2. CASE d = c
    <3>1. /\ own[x] \in SUBSET Lock /\ cli[x] \in Nat /\ fl[c] \in {0, 1}
          /\ intena[c] \in {0, 1}
      BY <1>T, <1>x, LockConstants DEF TypeOK
    <3>2. Cardinality(own[x]) \in Nat
      BY <3>1, LockConstants, FS_Subset, FS_CardinalityType, Zenon
    <3> QED  BY <1>T, <1>I, <1>x, <1>n, <1>z, <2>0, <2>2, <3>1, <3>2, Zenon
              DEF TypeOK, InterruptsMatch, release_store
  <2> QED  BY <2>1, <2>2, Zenon
<1>4. MutualExclusion'
  <2>1. want[x] \in Lock /\ want[x] \notin own[x]
    BY <1>C, <1>x, Wanted, Zenon DEF release_store
  <2>2. Inside(x, want[x])
    BY Zenon DEF Inside, release_store
  <2>3. \A m \in Lock : locked'[m] = IF m = want[x] THEN 0 ELSE locked[m]
    BY <1>T, <2>1, Zenon DEF TypeOK, release_store
  <2>4. /\ own' = own /\ want' = want /\ pc[x] = "unlock"
        /\ \A y \in Context : pc'[y] = IF y = x THEN "popcli" ELSE pc[y]
    BY <1>T, <1>x, Zenon DEF TypeOK, release_store
  <2> HIDE DEF x
  <2>5. \A y \in Context, m \in Lock :
           Inside(y, m)' <=> Inside(y, m) /\ ~(y = x /\ m = want[x])
    BY <1>x, <2>1, <2>4, Zenon DEF Inside
  <2> SUFFICES ASSUME NEW m \in Lock
               PROVE  /\ \A y, z \in Context : Inside(y, m)' /\ Inside(z, m)' => y = z
                      /\ locked'[m] = 1 <=> \E y \in Context : Inside(y, m)'
    BY Zenon DEF MutualExclusion
  <2>6. /\ \A y, z \in Context : Inside(y, m) /\ Inside(z, m) => y = z
        /\ locked[m] = 1 <=> \E y \in Context : Inside(y, m)
    BY <1>M, Zenon DEF MutualExclusion
  <2> QED  BY <1>x, <2>2, <2>3, <2>5, <2>6
<1>5. OwnerInv'
  BY <1>H, Zenon DEF OwnerInv, Here, release_store
<1>6. InterruptsMatch'
  BY <1>T, <1>I, <1>x, <1>n, <1>z, Zenon DEF TypeOK, InterruptsMatch, release_store
<1> QED  BY <1>1, <1>2, <1>3, <1>4, <1>5, <1>6, <1>n, Zenon DEF IndInv, NoPanic

\* popcli turns interrupts on after the last lock.
LEMMA Step_release_popcli ==
    ASSUME IndInv, NEW c \in CPU, release_popcli(c)
    PROVE  IndInv'
<1> DEFINE x == Here(c)
<1>T. TypeOK  BY Zenon DEF IndInv
<1>C. ControlInv  BY Zenon DEF IndInv
<1>K. CliInv  BY Zenon DEF IndInv
<1>M. MutualExclusion  BY Zenon DEF IndInv
<1>H. OwnerInv  BY Zenon DEF IndInv
<1>I. InterruptsMatch  BY Zenon DEF IndInv
<1>N. panicked = 0  BY Zenon DEF IndInv, NoPanic
<1>x. /\ x \in Context /\ irq[c] \in {0, 1} /\ x = <<c, irq[c]>>
      /\ \A d \in CPU : Here(d) \in Context /\ (Here(d) = x <=> d = c)
      /\ \A d \in CPU, k \in {0, 1} : <<d, k>> \in Context /\ (<<d, k>> = x <=> d = c /\ k = irq[c])
  BY <1>T, Contexts, Zenon DEF TypeOK, Here
<1>y. \A m \in Lock : holding(c, m) <=> m \in own[x]  BY OneCPU, Zenon
<1>z. ncli[c] \in Nat /\ (ncli[c] = 0 <=> Idle(x))  BY OneCPU, Zenon
<1>n. panicked' = 0
  <2>1. ncli[c] > 0 /\ fl[c] = 0
    BY <1>I, <1>z DEF InterruptsMatch, Idle, release_popcli
  <2> QED  BY <1>N, <1>z, <2>1 DEF release_popcli, popcli
<1>1. TypeOK'
  BY <1>T, <1>x, <1>n, LockConstants DEF TypeOK, release_popcli, popcli
<1>2. ControlInv'
  <2>1. \A d \in CPU : <<d, 1 - irq[d]>> \in Context /\ <<d, 1 - irq[d]>> # x
    BY <1>T, Contexts, Zenon
  <2>2. \A y \in Context : y # x =>
           pc'[y] = pc[y] /\ want'[y] = want[y] /\ own'[y] = own[y] /\ cli'[y] = cli[y]
    BY <1>T, Zenon DEF TypeOK, release_popcli, popcli
  <2>3. \A d \in CPU : Idle(<<d, 1 - irq[d]>>)'
    <3>1. irq' = irq
      BY Zenon DEF release_popcli
    <3> QED  BY <1>C, <2>1, <2>2, <3>1, Zenon DEF ControlInv, Idle
  <2>4. /\ pc'[x] # "run" => want'[x] \in Lock
        /\ pc'[x] \in {"check", "spin", "record"} => \A m \in own'[x] : m < want'[x]
        /\ pc'[x] = "unlock" => want'[x] \notin own'[x]
    BY <1>T, <1>C, <1>x, <1>y, <1>n, Zenon DEF TypeOK, ControlInv, release_popcli, popcli
  <2> HIDE DEF x
  <2> QED  BY <1>C, <2>2, <2>3, <2>4, Zenon DEF ControlInv
<1>3. CliInv'
  <2> SUFFICES ASSUME NEW d \in CPU
               PROVE  /\ ncli'[d] = Cardinality(own'[Here(d)]) + cli'[Here(d)]
                                       + (IF pc'[Here(d)] = "run" THEN 0 ELSE 1)
                      /\ ncli'[d] > 0 => intena'[d] = 1 - irq[d]
    BY Zenon DEF CliInv, Here, release_popcli
  <2>0. /\ ncli[d] = Cardinality(own[Here(d)]) + cli[Here(d)]
                      + (IF pc[Here(d)] = "run" THEN 0 ELSE 1)
        /\ ncli[d] > 0 => intena[d] = 1 - irq[d]
    BY <1>K, Zenon DEF CliInv
  <2>1. CASE d # c
    <3>1. Here(d) # x /\ Here(d) \in Context
      BY <1>x, <2>1, Zenon
    <3> HIDE DEF x
    <3>2. /\ ncli'[d] = ncli[d] /\ intena'[d] = intena[d]
          /\ own'[Here(d)] = own[Here(d)] /\ cli'[Here(d)] = cli[Here(d)]
          /\ pc'[Here(d)] = pc[Here(d)]
      BY <1>T, <2>1, <3>1, Zenon DEF x, TypeOK, release_popcli, popcli
    <3> QED  BY <2>0, <3>2, Zenon
  <2>2. CASE d = c
    <3>1. /\ own[x] \in SUBSET Lock /\ cli[x] \in Nat /\ fl[c] \in {0, 1}
          /\ intena[c] \in {0, 1}
      BY <1>T, <1>x, LockConstants DEF TypeOK
    <3>2. Cardinality(own[x]) \in Nat
      BY <3>1, LockConstants, FS_Subset, FS_CardinalityType, Zenon
    <3> QED  BY <1>T, <1>I, <1>x, <1>n, <1>z, <2>0, <2>2, <3>1, <3>2
              DEF TypeOK, InterruptsMatch, release_popcli, popcli
  <2> QED  BY <2>1, <2>2, Zenon
<1>4. MutualExclusion'
  <2>1. \A y \in Context, m \in Lock : Inside(y, m)' <=> Inside(y, m)
    BY <1>T, <1>x, <1>y, <1>n, Zenon DEF TypeOK, Inside, release_popcli, popcli
  <2> QED  BY <1>M, <2>1, SameInside, Zenon DEF release_popcli, popcli
<1>5. OwnerInv'
  BY <1>H, Zenon DEF OwnerInv, Here, release_popcli
<1>6. InterruptsMatch'
  <2>1. ncli[c] > 0 /\ fl[c] = 0
    BY <1>I, <1>z DEF InterruptsMatch, Idle, release_popcli
  <2>2. intena[c] = 1 - irq[c]
    BY <1>K, <2>1, Zenon DEF CliInv
  <2>3. /\ ncli'[c] = ncli[c] - 1 /\ irq' = irq
        /\ fl'[c] = IF ncli[c] = 1 /\ intena[c] = 1 THEN 1 ELSE fl[c]
        /\ \A d \in CPU : d # c => ncli'[d] = ncli[d] /\ fl'[d] = fl[d]
    BY <1>T, <1>z, <2>1 DEF TypeOK, release_popcli, popcli
  <2> QED  BY <1>I, <1>x, <1>z, <2>1, <2>2, <2>3 DEF InterruptsMatch
<1> QED  BY <1>1, <1>2, <1>3, <1>4, <1>5, <1>6, <1>n, Zenon DEF IndInv, NoPanic

\* A pushcli without a lock (mycpu's callers).
LEMMA Step_Pushcli ==
    ASSUME IndInv, NEW c \in CPU, Pushcli(c)
    PROVE  IndInv'
<1> DEFINE x == Here(c)
<1>T. TypeOK  BY Zenon DEF IndInv
<1>C. ControlInv  BY Zenon DEF IndInv
<1>K. CliInv  BY Zenon DEF IndInv
<1>M. MutualExclusion  BY Zenon DEF IndInv
<1>H. OwnerInv  BY Zenon DEF IndInv
<1>I. InterruptsMatch  BY Zenon DEF IndInv
<1>N. panicked = 0  BY Zenon DEF IndInv, NoPanic
<1>x. /\ x \in Context /\ irq[c] \in {0, 1} /\ x = <<c, irq[c]>>
      /\ \A d \in CPU : Here(d) \in Context /\ (Here(d) = x <=> d = c)
      /\ \A d \in CPU, k \in {0, 1} : <<d, k>> \in Context /\ (<<d, k>> = x <=> d = c /\ k = irq[c])
  BY <1>T, Contexts, Zenon DEF TypeOK, Here
<1>y. \A m \in Lock : holding(c, m) <=> m \in own[x]  BY OneCPU, Zenon
<1>z. ncli[c] \in Nat /\ (ncli[c] = 0 <=> Idle(x))  BY OneCPU, Zenon
<1>n. panicked' = 0
  BY <1>N, Zenon DEF Pushcli
<1>1. TypeOK'
  BY <1>T, <1>x, <1>n, LockConstants DEF TypeOK, Pushcli, pushcli
<1>2. ControlInv'
  <2>1. \A d \in CPU : <<d, 1 - irq[d]>> \in Context /\ <<d, 1 - irq[d]>> # x
    BY <1>T, Contexts, Zenon
  <2>2. \A y \in Context : y # x =>
           pc'[y] = pc[y] /\ want'[y] = want[y] /\ own'[y] = own[y] /\ cli'[y] = cli[y]
    BY <1>T, Zenon DEF TypeOK, Pushcli, pushcli
  <2>3. \A d \in CPU : Idle(<<d, 1 - irq[d]>>)'
    <3>1. irq' = irq
      BY Zenon DEF Pushcli
    <3> QED  BY <1>C, <2>1, <2>2, <3>1, Zenon DEF ControlInv, Idle
  <2>4. /\ pc'[x] # "run" => want'[x] \in Lock
        /\ pc'[x] \in {"check", "spin", "record"} => \A m \in own'[x] : m < want'[x]
        /\ pc'[x] = "unlock" => want'[x] \notin own'[x]
    BY <1>T, <1>C, <1>x, <1>y, <1>n, Zenon DEF TypeOK, ControlInv, Pushcli, pushcli
  <2> HIDE DEF x
  <2> QED  BY <1>C, <2>2, <2>3, <2>4, Zenon DEF ControlInv
<1>3. CliInv'
  <2> SUFFICES ASSUME NEW d \in CPU
               PROVE  /\ ncli'[d] = Cardinality(own'[Here(d)]) + cli'[Here(d)]
                                       + (IF pc'[Here(d)] = "run" THEN 0 ELSE 1)
                      /\ ncli'[d] > 0 => intena'[d] = 1 - irq[d]
    BY Zenon DEF CliInv, Here, Pushcli
  <2>0. /\ ncli[d] = Cardinality(own[Here(d)]) + cli[Here(d)]
                      + (IF pc[Here(d)] = "run" THEN 0 ELSE 1)
        /\ ncli[d] > 0 => intena[d] = 1 - irq[d]
    BY <1>K, Zenon DEF CliInv
  <2>1. CASE d # c
    <3>1. Here(d) # x /\ Here(d) \in Context
      BY <1>x, <2>1, Zenon
    <3> HIDE DEF x
    <3>2. /\ ncli'[d] = ncli[d] /\ intena'[d] = intena[d]
          /\ own'[Here(d)] = own[Here(d)] /\ cli'[Here(d)] = cli[Here(d)]
          /\ pc'[Here(d)] = pc[Here(d)]
      BY <1>T, <2>1, <3>1, Zenon DEF x, TypeOK, Pushcli, pushcli
    <3> QED  BY <2>0, <3>2, Zenon
  <2>2. CASE d = c
    <3>1. /\ own[x] \in SUBSET Lock /\ cli[x] \in Nat /\ fl[c] \in {0, 1}
          /\ intena[c] \in {0, 1}
      BY <1>T, <1>x, LockConstants DEF TypeOK
    <3>2. Cardinality(own[x]) \in Nat
      BY <3>1, LockConstants, FS_Subset, FS_CardinalityType, Zenon
    <3>3. /\ own'[x] = own[x] /\ pc[x] = "run" /\ ncli'[c] = ncli[c] + 1
          /\ intena'[c] = IF ncli[c] = 0 THEN fl[c] ELSE intena[c]
          /\ pc'[x] = "run" /\ cli'[x] = cli[x] + 1
      BY <1>T, <1>x, Zenon DEF TypeOK, Pushcli, pushcli
    <3>4. ncli[c] = 0 => fl[c] = 1 - irq[c]
      BY <1>I, <1>x DEF InterruptsMatch
    <3> HIDE DEF x
    <3> QED  BY <1>z, <2>0, <2>2, <3>1, <3>2, <3>3, <3>4 DEF x
  <2> QED  BY <2>1, <2>2, Zenon
<1>4. MutualExclusion'
  <2>1. \A y \in Context, m \in Lock : Inside(y, m)' <=> Inside(y, m)
    BY <1>T, <1>x, <1>y, <1>n, Zenon DEF TypeOK, Inside, Pushcli, pushcli
  <2> QED  BY <1>M, <2>1, SameInside, Zenon DEF Pushcli, pushcli
<1>5. OwnerInv'
  BY <1>H, Zenon DEF OwnerInv, Here, Pushcli
<1>6. InterruptsMatch'
  BY <1>T, <1>I, <1>x, <1>n, <1>z DEF TypeOK, InterruptsMatch, Pushcli, pushcli
<1> QED  BY <1>1, <1>2, <1>3, <1>4, <1>5, <1>6, <1>n, Zenon DEF IndInv, NoPanic

\* Its popcli.
LEMMA Step_Popcli ==
    ASSUME IndInv, NEW c \in CPU, Popcli(c)
    PROVE  IndInv'
<1> DEFINE x == Here(c)
<1>T. TypeOK  BY Zenon DEF IndInv
<1>C. ControlInv  BY Zenon DEF IndInv
<1>K. CliInv  BY Zenon DEF IndInv
<1>M. MutualExclusion  BY Zenon DEF IndInv
<1>H. OwnerInv  BY Zenon DEF IndInv
<1>I. InterruptsMatch  BY Zenon DEF IndInv
<1>N. panicked = 0  BY Zenon DEF IndInv, NoPanic
<1>x. /\ x \in Context /\ irq[c] \in {0, 1} /\ x = <<c, irq[c]>>
      /\ \A d \in CPU : Here(d) \in Context /\ (Here(d) = x <=> d = c)
      /\ \A d \in CPU, k \in {0, 1} : <<d, k>> \in Context /\ (<<d, k>> = x <=> d = c /\ k = irq[c])
  BY <1>T, Contexts, Zenon DEF TypeOK, Here
<1>y. \A m \in Lock : holding(c, m) <=> m \in own[x]  BY OneCPU, Zenon
<1>z. ncli[c] \in Nat /\ (ncli[c] = 0 <=> Idle(x))  BY OneCPU, Zenon
<1>n. panicked' = 0
  <2>1. ncli[c] > 0 /\ fl[c] = 0
    BY <1>I, <1>z DEF InterruptsMatch, Idle, Popcli
  <2> QED  BY <1>N, <1>z, <2>1 DEF Popcli, popcli
<1>1. TypeOK'
  BY <1>T, <1>x, <1>n, LockConstants DEF TypeOK, Popcli, popcli
<1>2. ControlInv'
  <2>1. \A d \in CPU : <<d, 1 - irq[d]>> \in Context /\ <<d, 1 - irq[d]>> # x
    BY <1>T, Contexts, Zenon
  <2>2. \A y \in Context : y # x =>
           pc'[y] = pc[y] /\ want'[y] = want[y] /\ own'[y] = own[y] /\ cli'[y] = cli[y]
    BY <1>T, Zenon DEF TypeOK, Popcli, popcli
  <2>3. \A d \in CPU : Idle(<<d, 1 - irq[d]>>)'
    <3>1. irq' = irq
      BY Zenon DEF Popcli
    <3> QED  BY <1>C, <2>1, <2>2, <3>1, Zenon DEF ControlInv, Idle
  <2>4. /\ pc'[x] # "run" => want'[x] \in Lock
        /\ pc'[x] \in {"check", "spin", "record"} => \A m \in own'[x] : m < want'[x]
        /\ pc'[x] = "unlock" => want'[x] \notin own'[x]
    BY <1>T, <1>C, <1>x, <1>y, <1>n, Zenon DEF TypeOK, ControlInv, Popcli, popcli
  <2> HIDE DEF x
  <2> QED  BY <1>C, <2>2, <2>3, <2>4, Zenon DEF ControlInv
<1>3. CliInv'
  <2> SUFFICES ASSUME NEW d \in CPU
               PROVE  /\ ncli'[d] = Cardinality(own'[Here(d)]) + cli'[Here(d)]
                                       + (IF pc'[Here(d)] = "run" THEN 0 ELSE 1)
                      /\ ncli'[d] > 0 => intena'[d] = 1 - irq[d]
    BY Zenon DEF CliInv, Here, Popcli
  <2>0. /\ ncli[d] = Cardinality(own[Here(d)]) + cli[Here(d)]
                      + (IF pc[Here(d)] = "run" THEN 0 ELSE 1)
        /\ ncli[d] > 0 => intena[d] = 1 - irq[d]
    BY <1>K, Zenon DEF CliInv
  <2>1. CASE d # c
    <3>1. Here(d) # x /\ Here(d) \in Context
      BY <1>x, <2>1, Zenon
    <3> HIDE DEF x
    <3>2. /\ ncli'[d] = ncli[d] /\ intena'[d] = intena[d]
          /\ own'[Here(d)] = own[Here(d)] /\ cli'[Here(d)] = cli[Here(d)]
          /\ pc'[Here(d)] = pc[Here(d)]
      BY <1>T, <2>1, <3>1, Zenon DEF x, TypeOK, Popcli, popcli
    <3> QED  BY <2>0, <3>2, Zenon
  <2>2. CASE d = c
    <3>1. /\ own[x] \in SUBSET Lock /\ cli[x] \in Nat /\ fl[c] \in {0, 1}
          /\ intena[c] \in {0, 1}
      BY <1>T, <1>x, LockConstants DEF TypeOK
    <3>2. Cardinality(own[x]) \in Nat
      BY <3>1, LockConstants, FS_Subset, FS_CardinalityType, Zenon
    <3> QED  BY <1>T, <1>I, <1>x, <1>n, <1>z, <2>0, <2>2, <3>1, <3>2
              DEF TypeOK, InterruptsMatch, Popcli, popcli
  <2> QED  BY <2>1, <2>2, Zenon
<1>4. MutualExclusion'
  <2>1. \A y \in Context, m \in Lock : Inside(y, m)' <=> Inside(y, m)
    BY <1>T, <1>x, <1>y, <1>n, Zenon DEF TypeOK, Inside, Popcli, popcli
  <2> QED  BY <1>M, <2>1, SameInside, Zenon DEF Popcli, popcli
<1>5. OwnerInv'
  BY <1>H, Zenon DEF OwnerInv, Here, Popcli
<1>6. InterruptsMatch'
  <2>1. ncli[c] > 0 /\ fl[c] = 0
    BY <1>I, <1>z DEF InterruptsMatch, Idle, Popcli
  <2>2. intena[c] = 1 - irq[c]
    BY <1>K, <2>1, Zenon DEF CliInv
  <2>3. /\ ncli'[c] = ncli[c] - 1 /\ irq' = irq
        /\ fl'[c] = IF ncli[c] = 1 /\ intena[c] = 1 THEN 1 ELSE fl[c]
        /\ \A d \in CPU : d # c => ncli'[d] = ncli[d] /\ fl'[d] = fl[d]
    BY <1>T, <1>z, <2>1 DEF TypeOK, Popcli, popcli
  <2> QED  BY <1>I, <1>x, <1>z, <2>1, <2>2, <2>3 DEF InterruptsMatch
<1> QED  BY <1>1, <1>2, <1>3, <1>4, <1>5, <1>6, <1>n, Zenon DEF IndInv, NoPanic

\* An interrupt is taken only with interrupts on, when nothing is held.
LEMMA Step_Interrupt ==
    ASSUME IndInv, NEW c \in CPU, Interrupt(c)
    PROVE  IndInv'
<1> DEFINE x == Here(c)
<1>T. TypeOK  BY Zenon DEF IndInv
<1>C. ControlInv  BY Zenon DEF IndInv
<1>K. CliInv  BY Zenon DEF IndInv
<1>M. MutualExclusion  BY Zenon DEF IndInv
<1>H. OwnerInv  BY Zenon DEF IndInv
<1>I. InterruptsMatch  BY Zenon DEF IndInv
<1>N. panicked = 0  BY Zenon DEF IndInv, NoPanic
<1>x. /\ x \in Context /\ irq[c] \in {0, 1} /\ x = <<c, irq[c]>>
      /\ \A d \in CPU : Here(d) \in Context /\ (Here(d) = x <=> d = c)
      /\ \A d \in CPU, k \in {0, 1} : <<d, k>> \in Context /\ (<<d, k>> = x <=> d = c /\ k = irq[c])
  BY <1>T, Contexts, Zenon DEF TypeOK, Here
<1>y. \A m \in Lock : holding(c, m) <=> m \in own[x]  BY OneCPU, Zenon
<1>z. ncli[c] \in Nat /\ (ncli[c] = 0 <=> Idle(x))  BY OneCPU, Zenon
<1>n. panicked' = 0
  BY <1>N, Zenon DEF Interrupt
<1>e. Idle(x) /\ ncli[c] = 0
  BY <1>I, <1>z DEF InterruptsMatch, Interrupt
<1>f. Idle(Here(c)')
  <2>1. Here(c)' = <<c, 1 - irq[c]>>
    BY <1>T DEF TypeOK, Here, Interrupt
  <2> QED  BY <1>C, <2>1, Zenon DEF ControlInv
<1>1. TypeOK'
  BY <1>T, <1>x, <1>n, LockConstants, Zenon DEF TypeOK, Interrupt
<1>2. ControlInv'
  <2>1. \A d \in CPU : Idle(<<d, 1 - irq'[d]>>)
    <3> SUFFICES ASSUME NEW d \in CPU PROVE Idle(<<d, 1 - irq'[d]>>)
      BY Zenon
    <3>1. CASE d = c
      <4>1. 1 - irq'[c] = irq[c]
        BY <1>T DEF TypeOK, Interrupt
      <4> QED  BY <1>e, <1>x, <3>1, <4>1, Zenon
    <3>2. CASE d # c
      <4>1. irq'[d] = irq[d]
        BY <1>T, <3>2, Zenon DEF TypeOK, Interrupt
      <4> QED  BY <1>C, <4>1, Zenon DEF ControlInv
    <3> QED  BY <3>1, <3>2, Zenon
  <2>2. UNCHANGED <<pc, want, own, cli>>
    BY Zenon DEF Interrupt
  <2> QED  BY <1>C, <2>1, <2>2, Zenon DEF ControlInv, Idle
<1>3. CliInv'
  <2> SUFFICES ASSUME NEW d \in CPU
               PROVE  /\ ncli[d] = Cardinality(own[Here(d)']) + cli[Here(d)']
                                      + (IF pc[Here(d)'] = "run" THEN 0 ELSE 1)
                      /\ ncli[d] > 0 => intena[d] = 1 - irq'[d]
    BY Zenon DEF CliInv, Interrupt
  <2>1. CASE d = c
    <3>1. Idle(Here(d)')
      BY <1>f, <2>1, Zenon
    <3>2. Cardinality({}) = 0
      BY FS_EmptySet, Zenon
    <3> QED  BY <1>e, <2>1, <3>1, <3>2 DEF Idle
  <2>2. CASE d # c
    <3>1. irq'[d] = irq[d] /\ Here(d)' = Here(d)
      BY <1>T, <2>2, Zenon DEF TypeOK, Here, Interrupt
    <3> QED  BY <1>K, <3>1, Zenon DEF CliInv
  <2> QED  BY <2>1, <2>2, Zenon
<1>4. MutualExclusion'
  <2>1. \A y \in Context, m \in Lock : Inside(y, m)' <=> Inside(y, m)
    BY <1>T, <1>x, <1>y, <1>n, Zenon DEF TypeOK, Inside, Interrupt
  <2> QED  BY <1>M, <2>1, SameInside, Zenon DEF Interrupt
<1>5. OwnerInv'
  <2> SUFFICES ASSUME NEW d \in CPU, NEW m \in Lock
               PROVE  lkcpu[m] = d <=> m \in own[Here(d)']
    BY Zenon DEF OwnerInv, Interrupt
  <2>0. lkcpu[m] = d <=> m \in own[Here(d)]
    BY <1>H, Zenon DEF OwnerInv
  <2>1. CASE d = c
    BY <1>e, <1>f, <2>0, <2>1, Zenon DEF Idle
  <2>2. CASE d # c
    <3>1. irq'[d] = irq[d] /\ Here(d)' = Here(d)
      BY <1>T, <2>2, Zenon DEF TypeOK, Here, Interrupt
    <3> QED  BY <2>0, <3>1, Zenon
  <2> QED  BY <2>1, <2>2, Zenon
<1>6. InterruptsMatch'
  <2>1. /\ ncli' = ncli /\ irq'[c] = 1 - irq[c] /\ fl'[c] = irq[c]
        /\ \A d \in CPU : d # c => irq'[d] = irq[d] /\ fl'[d] = fl[d]
    BY <1>T, <1>x DEF TypeOK, Interrupt
  <2> QED  BY <1>I, <1>x, <1>e, <2>1 DEF InterruptsMatch
<1> QED  BY <1>1, <1>2, <1>3, <1>4, <1>5, <1>6, <1>n, Zenon DEF IndInv, NoPanic

\* The handler returns with nothing held.
LEMMA Step_Iret ==
    ASSUME IndInv, NEW c \in CPU, Iret(c)
    PROVE  IndInv'
<1> DEFINE x == Here(c)
<1>T. TypeOK  BY Zenon DEF IndInv
<1>C. ControlInv  BY Zenon DEF IndInv
<1>K. CliInv  BY Zenon DEF IndInv
<1>M. MutualExclusion  BY Zenon DEF IndInv
<1>H. OwnerInv  BY Zenon DEF IndInv
<1>I. InterruptsMatch  BY Zenon DEF IndInv
<1>N. panicked = 0  BY Zenon DEF IndInv, NoPanic
<1>x. /\ x \in Context /\ irq[c] \in {0, 1} /\ x = <<c, irq[c]>>
      /\ \A d \in CPU : Here(d) \in Context /\ (Here(d) = x <=> d = c)
      /\ \A d \in CPU, k \in {0, 1} : <<d, k>> \in Context /\ (<<d, k>> = x <=> d = c /\ k = irq[c])
  BY <1>T, Contexts, Zenon DEF TypeOK, Here
<1>y. \A m \in Lock : holding(c, m) <=> m \in own[x]  BY OneCPU, Zenon
<1>z. ncli[c] \in Nat /\ (ncli[c] = 0 <=> Idle(x))  BY OneCPU, Zenon
<1>n. panicked' = 0
  BY <1>N, Zenon DEF Iret
<1>e. Idle(x) /\ ncli[c] = 0
  BY <1>z, Zenon DEF Idle, Iret
<1>f. Idle(Here(c)')
  <2>1. Here(c)' = <<c, 1 - irq[c]>>
    BY <1>T DEF TypeOK, Here, Iret
  <2> QED  BY <1>C, <2>1, Zenon DEF ControlInv
<1>1. TypeOK'
  BY <1>T, <1>x, <1>n, LockConstants, Zenon DEF TypeOK, Iret
<1>2. ControlInv'
  <2>1. \A d \in CPU : Idle(<<d, 1 - irq'[d]>>)
    <3> SUFFICES ASSUME NEW d \in CPU PROVE Idle(<<d, 1 - irq'[d]>>)
      BY Zenon
    <3>1. CASE d = c
      <4>1. 1 - irq'[c] = irq[c]
        BY <1>T DEF TypeOK, Iret
      <4> QED  BY <1>e, <1>x, <3>1, <4>1, Zenon
    <3>2. CASE d # c
      <4>1. irq'[d] = irq[d]
        BY <1>T, <3>2, Zenon DEF TypeOK, Iret
      <4> QED  BY <1>C, <4>1, Zenon DEF ControlInv
    <3> QED  BY <3>1, <3>2, Zenon
  <2>2. UNCHANGED <<pc, want, own, cli>>
    BY Zenon DEF Iret
  <2> QED  BY <1>C, <2>1, <2>2, Zenon DEF ControlInv, Idle
<1>3. CliInv'
  <2> SUFFICES ASSUME NEW d \in CPU
               PROVE  /\ ncli[d] = Cardinality(own[Here(d)']) + cli[Here(d)']
                                      + (IF pc[Here(d)'] = "run" THEN 0 ELSE 1)
                      /\ ncli[d] > 0 => intena[d] = 1 - irq'[d]
    BY Zenon DEF CliInv, Iret
  <2>1. CASE d = c
    <3>1. Idle(Here(d)')
      BY <1>f, <2>1, Zenon
    <3>2. Cardinality({}) = 0
      BY FS_EmptySet, Zenon
    <3> QED  BY <1>e, <2>1, <3>1, <3>2 DEF Idle
  <2>2. CASE d # c
    <3>1. irq'[d] = irq[d] /\ Here(d)' = Here(d)
      BY <1>T, <2>2, Zenon DEF TypeOK, Here, Iret
    <3> QED  BY <1>K, <3>1, Zenon DEF CliInv
  <2> QED  BY <2>1, <2>2, Zenon
<1>4. MutualExclusion'
  <2>1. \A y \in Context, m \in Lock : Inside(y, m)' <=> Inside(y, m)
    BY <1>T, <1>x, <1>y, <1>n, Zenon DEF TypeOK, Inside, Iret
  <2> QED  BY <1>M, <2>1, SameInside, Zenon DEF Iret
<1>5. OwnerInv'
  <2> SUFFICES ASSUME NEW d \in CPU, NEW m \in Lock
               PROVE  lkcpu[m] = d <=> m \in own[Here(d)']
    BY Zenon DEF OwnerInv, Iret
  <2>0. lkcpu[m] = d <=> m \in own[Here(d)]
    BY <1>H, Zenon DEF OwnerInv
  <2>1. CASE d = c
    BY <1>e, <1>f, <2>0, <2>1, Zenon DEF Idle
  <2>2. CASE d # c
    <3>1. irq'[d] = irq[d] /\ Here(d)' = Here(d)
      BY <1>T, <2>2, Zenon DEF TypeOK, Here, Iret
    <3> QED  BY <2>0, <3>1, Zenon
  <2> QED  BY <2>1, <2>2, Zenon
<1>6. InterruptsMatch'
  <2>1. /\ ncli' = ncli /\ irq'[c] = 1 - irq[c] /\ fl'[c] = irq[c]
        /\ \A d \in CPU : d # c => irq'[d] = irq[d] /\ fl'[d] = fl[d]
    BY <1>T, <1>x DEF TypeOK, Iret
  <2> QED  BY <1>I, <1>x, <1>e, <2>1 DEF InterruptsMatch
<1> QED  BY <1>1, <1>2, <1>3, <1>4, <1>5, <1>6, <1>n, Zenon DEF IndInv, NoPanic

-----------------------------------------------------------------------------
\* Every step keeps the invariant.
LEMMA NextIndInv == IndInv /\ [Next]_vars => IndInv'
<1> SUFFICES ASSUME IndInv, [Next]_vars PROVE IndInv'
  BY Zenon
<1>1. ASSUME NEW c \in CPU, Step(c) PROVE IndInv'
  BY <1>1, Step_acquire, Step_release, Step_acquire_check, Step_acquire_xchg,
     Step_acquire_record, Step_release_store, Step_release_popcli, Step_Pushcli,
     Step_Popcli, Step_Interrupt, Step_Iret, Zenon DEF Step
<1>2. CASE UNCHANGED vars
  BY <1>2 DEF vars, IndInv, TypeOK, ControlInv, Idle, CliInv, OwnerInv, Here,
     MutualExclusion, Inside, InterruptsMatch, NoPanic
<1> QED  BY <1>1, <1>2, Zenon DEF Next

\* spinlock.c as a whole: the inductive invariant holds of every behaviour,
\* for every set of CPUs and every finite ordered set of locks.
THEOREM SpinlockInvariant == Spec => []IndInv
  BY InitIndInv, NextIndInv, PTL DEF Spec

\* acquire excludes: no two contexts, of the same CPU or of two, are inside
\* a lock at the same time (spinlock.c:32 and 65).
THEOREM AcquireExcludes == Spec => []MutualExclusion
<1>1. IndInv => MutualExclusion
  BY Zenon DEF IndInv
<1> QED  BY <1>1, SpinlockInvariant, PTL

\* The panics of acquire, release and popcli are unreachable for callers that
\* follow the lock order, although interrupt handlers take locks too.
THEOREM SpinlockNeverPanics == Spec => []NoPanic
<1>1. IndInv => NoPanic
  BY Zenon DEF IndInv
<1> QED  BY <1>1, SpinlockInvariant, PTL

\* pushcli and popcli keep interrupts off exactly while something is in
\* progress and then restore them.
THEOREM InterruptsAreRestored == Spec => []InterruptsMatch
<1>1. IndInv => InterruptsMatch
  BY Zenon DEF IndInv
<1> QED  BY <1>1, SpinlockInvariant, PTL

\* holding, which reads the lock without owning it, is exact for its CPU.
THEOREM HoldingIsExact == Spec => []HoldingExact
<1>1. ASSUME IndInv PROVE HoldingExact
  <2> SUFFICES ASSUME NEW c \in CPU, NEW l \in Lock
               PROVE  holding(c, l) <=> \E k \in {0, 1} : l \in own[<<c, k>>]
    BY Zenon DEF HoldingExact
  <2>1. holding(c, l) <=> l \in own[Here(c)]
    BY <1>1, OneCPU, Zenon
  <2>2. own[<<c, 1 - irq[c]>>] = {}
    BY <1>1, Zenon DEF IndInv, ControlInv, Idle
  <2>3. Here(c) = <<c, irq[c]>> /\ (irq[c] = 0 \/ irq[c] = 1)
    BY <1>1, Zenon DEF IndInv, TypeOK, Here
  <2> QED  BY <2>1, <2>2, <2>3
<1> QED  BY <1>1, SpinlockInvariant, PTL
=============================================================================

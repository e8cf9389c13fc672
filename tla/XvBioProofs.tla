----------------------------- MODULE XvBioProofs -----------------------------
(***************************************************************************)
(* Proofs about XvBio: the inductive invariant BioInv of the buffer cache  *)
(* and of the disk driver, the lemmas about reference counts, the LRU list *)
(* and the request queue, a lemma per step, and the properties that follow *)
(* from it, for any number of processes, blocks and buffers.               *)
(***************************************************************************)
EXTENDS XvBio, FiniteSetTheorems, TLAPS

\* The provers of the leaves that do not name their own, in the order of the trials.
USE SMTT(30), SMTT(60), Zenon

Busy == {"iderw", "io", "iosleep"}
Outside == {"lock", "locksleep", "brelse"}

\* The buffers that process p has a reference to, and who has one to b.
Refs(p) == held[p] \cup {b \in Buf : cur[p] = b}
Users(b) == {p \in Proc : b \in Refs(p)}

\* The buffers in the hands of iderw.
InFlight == {b \in Buf : \E p \in Proc : cur[p] = b /\ bpc[p] \in Busy}

\* Where a process is, and the buffers it holds.
HoldInv ==
    /\ \A p \in Proc, b \in Buf : b \in held[p] <=> owner[b] = p
    /\ \A p \in Proc :
          /\ bpc[p] = "run" <=> cur[p] = Nobody
          /\ bpc[p] \in Outside => cur[p] \notin held[p]
          /\ bpc[p] \in Busy => cur[p] \in held[p]
    /\ \A p \in Proc : Cardinality(Refs(p)) <= MAXHELD

\* Reference counts count, and a buffer in use has a block.
RefInv ==
    \A b \in Buf :
        /\ refcnt[b] = Cardinality(Users(b))
        /\ Users(b) # {} => blockno[b] # Nobody

\* No buffer is missing in the list.
ListInv == \A b \in Buf : \E i \in Buf : lru[i] = b

\* idequeue holds what iderw waits for, each buffer once.
QueueInv ==
    /\ QueuedIsLocked /\ DriveMatchesQueue
    /\ \A i, j \in 1..Len(queue) : queue[i] = queue[j] => i = j
    /\ \A i \in 1..Len(queue) : ~Finished(queue[i])
    /\ \A p \in Proc : bpc[p] = "io" => InQueue(queue, cur[p]) \/ Finished(cur[p])

\* Which copies of a block are current.
DataInv ==
    /\ OneBuffer
    /\ \A b \in valid : data[b] /\ blockno[b] # Nobody
    /\ dirty \subseteq valid
    /\ \A k \in Block : disk[k] \/ \E b \in dirty : blockno[b] = k
    /\ \A p \in Proc : \A b \in held[p] : b \in valid \/ (b = cur[p] /\ bpc[p] \in Busy)
    /\ \A p \in Proc : bpc[p] = "iderw" => ~NothingToDo(cur[p])

\* Buffers pinned by log_write, without those on their way to the disk.
PinInv == Cardinality(dirty \ InFlight) <= LOGSIZE

BioInv ==
    /\ BioTypeOK /\ HoldInv /\ RefInv /\ ListInv /\ QueueInv /\ DataInv /\ PinInv
    /\ NoLostWakeup
-----------------------------------------------------------------------------
(* Counting. *)

\* The cache has NBUF buffers, so its subsets can be counted.
LEMMA BufFinite ==
    ASSUME NEW S \in SUBSET Buf
    PROVE  IsFiniteSet(S) /\ Cardinality(S) \in Nat
<1>1. IsFiniteSet(Buf)
  BY BioConstants, FS_Interval DEF Buf
<1>2. IsFiniteSet(S)
  BY <1>1, FS_Subset, Zenon
<1> QED  BY <1>2, FS_CardinalityType, Zenon

\* Giving a buffer back keeps a process within MAXHELD.
LEMMA FewerHeld ==
    ASSUME NEW S \in SUBSET Buf, NEW b \in S, Cardinality(S) <= MAXHELD
    PROVE  Cardinality(S \ {b}) <= MAXHELD
<1>1. IsFiniteSet(S) /\ Cardinality(S) \in Nat
  BY BufFinite, Zenon
<1>2. Cardinality(S \ {b}) = Cardinality(S) - 1
  BY <1>1, FS_RemoveElement, Zenon
<1> QED  BY <1>1, <1>2, BioConstants

\* Of a set of buffers, all in the list, the scan from the tail finds one.
LEMMA OldestIn ==
    ASSUME BioTypeOK, ListInv, NEW S \in SUBSET Buf, S # {}
    PROVE  Oldest(S) \in S
<1> DEFINE R == OpToRel(<, Nat)
           T == {n \in Nat : \E i \in Buf : lru[i] \in S /\ n = NBUF - i}
<1>1. IsWellFoundedOn(R, Nat)
  BY NatLessThanWellFounded, Zenon
<1>2. T \subseteq Nat
  BY Zenon
<1>3. T # {}
  <2>1. PICK i \in Buf : lru[i] \in S
    BY Zenon DEF ListInv
  <2>2. NBUF - i \in Nat
    BY BioConstants DEF Buf
  <2> QED  BY <2>1, <2>2, Zenon
<1> HIDE DEF R
<1>4. PICK n \in T : \A m \in T : ~(<<m, n>> \in R)
  <2> HIDE DEF T
  <2> QED  BY <1>1, <1>2, <1>3, WFMin, Zenon
<1>5. PICK i \in Buf : lru[i] \in S /\ n = NBUF - i
  BY Zenon
<1>6. \A j \in i+1..NBUF : lru[j] \notin S
  <2> SUFFICES ASSUME NEW j \in i+1..NBUF, lru[j] \in S PROVE FALSE
    BY Zenon
  <2>1. j \in Buf /\ NBUF - j \in Nat /\ NBUF - j < n
    BY <1>5, BioConstants DEF Buf
  <2>2. NBUF - j \in T
    BY <2>1, Zenon
  <2>3. <<NBUF - j, n>> \notin R
    BY <1>4, <2>2, Zenon
  <2> QED  BY <2>1, <2>3, Zenon DEF R, OpToRel
<1> DEFINE Lru(x) == lru[x] \in S /\ \A j \in x+1..NBUF : lru[j] \notin S
<1>7. \E x \in Buf : Lru(x)
  BY <1>5, <1>6, Zenon
<1>8. Lru(CHOOSE x \in Buf : Lru(x))
  <2> HIDE DEF Lru
  <2> QED  BY <1>7, Zenon
<1> QED  BY <1>8, Zenon DEF Oldest

\* The list keeps every buffer when one is moved to its head.
LEMMA ListKept ==
    ASSUME BioTypeOK, ListInv, NEW b \in Buf, lru' = MoveToFront(b)
    PROVE  lru' \in [Buf -> Buf] /\ ListInv'
<1> DEFINE i == CHOOSE j \in Buf : lru[j] = b
<1>1. i \in Buf /\ lru[i] = b
  BY Zenon DEF ListInv
<1>2. lru' = [j \in Buf |-> IF j = 1 THEN b ELSE IF j <= i THEN lru[j - 1] ELSE lru[j]]
  BY Zenon DEF MoveToFront
<1> HIDE DEF i
<1>3. NBUF \in Nat
  BY BioConstants, Zenon
<1>4. \A j \in Buf : lru[j] \in Buf
  BY Zenon DEF BioTypeOK
<1>5. lru' \in [Buf -> Buf]
  BY <1>1, <1>2, <1>3, <1>4 DEF Buf
<1>6. ASSUME NEW c \in Buf PROVE \E j \in Buf : lru'[j] = c
  <2>1. PICK j \in Buf : lru[j] = c
    BY Zenon DEF ListInv
  <2>2. CASE j = i
    <3>1. 1 \in Buf /\ lru'[1] = b
      BY <1>1, <1>2, <1>3 DEF Buf
    <3> QED  BY <1>1, <2>1, <2>2, <3>1, Zenon
  <2>3. CASE j < i
    <3>1. j + 1 \in Buf /\ j + 1 # 1 /\ j + 1 <= i /\ (j + 1) - 1 = j
      BY <1>1, <1>3, <2>3 DEF Buf
    <3>2. lru'[j + 1] = c
      BY <1>2, <2>1, <3>1, Zenon
    <3> QED  BY <3>1, <3>2, Zenon
  <2>4. CASE j > i
    BY <1>1, <1>2, <1>3, <2>1, <2>4 DEF Buf
  <2> QED  BY <1>1, <1>3, <2>2, <2>3, <2>4 DEF Buf
<1> QED  BY <1>5, <1>6, Zenon DEF ListInv
-----------------------------------------------------------------------------
(* The steps. *)

\* The counts depend on who refers to what only.
LEMMA SameRefs ==
    ASSUME RefInv, \A q \in Proc : Refs(q)' = Refs(q), UNCHANGED <<refcnt, blockno>>
    PROVE  RefInv'
<1>1. \A b \in Buf : Users(b)' = Users(b)
  BY Zenon DEF Users
<1> QED  BY <1>1, Zenon DEF RefInv

\* A step that pins nothing new stays within LOGSIZE.
LEMMA FewerPinned ==
    ASSUME BioTypeOK, PinInv, (dirty \ InFlight)' \subseteq dirty \ InFlight
    PROVE  PinInv'
<1> DEFINE S == dirty \ InFlight
           T == (dirty \ InFlight)'
<1>1. IsFiniteSet(S) /\ Cardinality(S) \in Nat
  BY BufFinite, Zenon DEF BioTypeOK
<1>2. T \in SUBSET S
  BY Zenon
<1>3. IsFiniteSet(T) /\ Cardinality(T) <= Cardinality(S)
  <2> HIDE DEF S, T
  <2> QED  BY <1>1, <1>2, FS_Subset, Zenon
<1>4. Cardinality(T) \in Nat
  <2> HIDE DEF S, T
  <2> QED  BY <1>3, FS_CardinalityType, Zenon
<1>5. Cardinality(S) <= LOGSIZE /\ LOGSIZE \in Nat
  BY BioConstants, Zenon DEF PinInv
<1>6. Cardinality(T) <= LOGSIZE
  <2> HIDE DEF S, T
  <2> QED  BY <1>1, <1>3, <1>4, <1>5
<1> QED  BY <1>6, Zenon DEF PinInv

\* Whoever queued a buffer holds it and waits for it in iderw.
LEMMA Queued ==
    ASSUME BioInv
    PROVE  \A i \in 1..Len(queue) :
              /\ queue[i] \in Buf /\ owner[queue[i]] \in Proc
              /\ cur[owner[queue[i]]] = queue[i] /\ bpc[owner[queue[i]]] \in {"io", "iosleep"}
<1> TAKE i \in 1..Len(queue)
<1>1. queue[i] \in Buf
  BY DEF BioInv, BioTypeOK
<1>2. owner[queue[i]] \in Proc \cup {Nobody}
  BY <1>1, Zenon DEF BioInv, BioTypeOK
<1> QED  BY <1>1, <1>2, Zenon DEF BioInv, QueueInv, QueuedIsLocked

\* Who is about to look at its request finds it queued or done.
LEMMA Waited ==
    ASSUME BioInv, NEW q \in Proc, bpc[q] = "io"
    PROVE  InQueue(queue, cur[q]) \/ (cur[q] \in valid /\ cur[q] \notin dirty)
BY Zenon DEF BioInv, QueueInv, Finished, NothingToDo

\* A step that leaves the queued buffers and their owners alone.
LEMMA QueueKept ==
    ASSUME BioInv, UNCHANGED <<queue, drive, owner>>,
           \A i \in 1..Len(queue) :
              /\ blockno'[queue[i]] = blockno[queue[i]] /\ data'[queue[i]] = data[queue[i]]
              /\ queue[i] \in dirty' <=> queue[i] \in dirty
              /\ queue[i] \in valid' <=> queue[i] \in valid
              /\ cur'[owner[queue[i]]] = cur[owner[queue[i]]]
              /\ bpc'[owner[queue[i]]] \in {"io", "iosleep"},
           \A q \in Proc : bpc'[q] = "io" =>
              InQueue(queue, cur'[q]) \/ (cur'[q] \in valid' /\ cur'[q] \notin dirty')
    PROVE  QueueInv'
<1>1. QueuedIsLocked'
  BY DEF BioInv, QueueInv, QueuedIsLocked
<1>2. DriveMatchesQueue'
  <2>1. CASE queue = <<>>
    BY <2>1, Zenon DEF BioInv, QueueInv, DriveMatchesQueue, idestart
  <2>2. CASE queue # <<>>
    <3>1. Head(queue) = queue[1] /\ 1 \in 1..Len(queue)
      BY <2>2 DEF BioInv, BioTypeOK
    <3> QED  BY <2>2, <3>1 DEF BioInv, QueueInv, DriveMatchesQueue, idestart
  <2> QED  BY <2>1, <2>2, Zenon
<1> QED  BY <1>1, <1>2 DEF BioInv, QueueInv, InQueue, Finished, NothingToDo

\* bget gives p a reference to b, which it did not have.
LEMMA NewRef ==
    ASSUME BioInv, NEW p \in Proc, NEW b \in Buf, bpc[p] = "run", b \notin held[p],
           Cardinality(held[p]) < MAXHELD, blockno'[b] # Nobody,
           \A c \in Buf \ {b} : blockno'[c] = blockno[c],
           refcnt' = [refcnt EXCEPT ![b] = @ + 1], cur' = [cur EXCEPT ![p] = b],
           bpc' = [bpc EXCEPT ![p] = "lock"], UNCHANGED <<held, owner>>
    PROVE  HoldInv' /\ RefInv'
<1> USE BioConstants DEF Busy, Outside
<1>0. BioTypeOK /\ HoldInv /\ RefInv
  BY Zenon DEF BioInv
<1>1. Refs(p) = held[p] /\ Refs(p)' = held[p] \cup {b}
  BY <1>0 DEF Refs, BioTypeOK, HoldInv
<1>2. \A q \in Proc \ {p} : Refs(q)' = Refs(q)
  BY <1>0, Zenon DEF Refs, BioTypeOK
<1>3. IsFiniteSet(held[p]) /\ Cardinality(held[p]) \in Nat
  BY <1>0, BufFinite, Zenon DEF BioTypeOK
<1>4. Cardinality(Refs(p)') <= MAXHELD
  <2>1. Cardinality(held[p] \cup {b}) = Cardinality(held[p]) + 1
    BY <1>3, FS_AddElement, Zenon
  <2> QED  BY <1>1, <1>3, <2>1
<1>5. HoldInv'
  <2>1. \A q \in Proc : Cardinality(Refs(q)') <= MAXHELD
    BY <1>0, <1>2, <1>4, Zenon DEF HoldInv
  <2>2. \A q \in Proc :
           /\ bpc'[q] = "run" <=> cur'[q] = Nobody
           /\ bpc'[q] \in Outside => cur'[q] \notin held'[q]
           /\ bpc'[q] \in Busy => cur'[q] \in held'[q]
    BY <1>0 DEF HoldInv, BioTypeOK
  <2> QED  BY <1>0, <2>1, <2>2 DEF HoldInv
<1>6. Users(b)' = Users(b) \cup {p} /\ p \notin Users(b)
  BY <1>1, <1>2, Zenon DEF Users
<1>7. \A c \in Buf \ {b} : Users(c)' = Users(c)
  BY <1>1, <1>2, Zenon DEF Users
<1>8. Cardinality(Users(b)') = Cardinality(Users(b)) + 1
  <2>1. IsFiniteSet(Users(b))
    BY FS_Subset, Zenon DEF Users
  <2> QED  BY <1>6, <2>1, FS_AddElement, Zenon
<1>9. RefInv'
  BY <1>0, <1>7, <1>8, Zenon DEF RefInv, BioTypeOK
<1> QED  BY <1>5, <1>9, Zenon

\* bget finds the block in the cache.
LEMMA Step_bget_cached ==
    ASSUME BioInv, NEW p \in Proc, NEW k \in Block, NEW b \in Buf,
           bpc[p] = "run", Cardinality(held[p]) < MAXHELD, \A c \in held[p] : blockno[c] < k,
           blockno[b] = k, refcnt' = [refcnt EXCEPT ![b] = @ + 1],
           cur' = [cur EXCEPT ![p] = b], bpc' = [bpc EXCEPT ![p] = "lock"],
           UNCHANGED <<lru, blockno, valid, dirty, data, owner, queue, drive, disk, driver, held, panic>>
    PROVE  BioInv'
<1> USE BioConstants DEF bufs, procs, Busy, Outside
<1>r. b \notin held[p]
  BY DEF BioInv, BioTypeOK
<1>n. HoldInv' /\ RefInv'
  BY <1>r, NewRef, Zenon
<1>1. BioTypeOK'
  BY <1>r DEF BioInv, BioTypeOK
<1>2. HoldInv'
  BY <1>n, Zenon
<1>3. RefInv'
  BY <1>n, Zenon
<1>4. ListInv'
  BY <1>r, Zenon DEF BioInv, ListInv
<1>5. QueueInv'
  <2>1. \A i \in 1..Len(queue) : owner[queue[i]] # p /\ queue[i] \in Buf
    BY Queued, Zenon
  <2>2. \A q \in Proc : bpc'[q] = "io" => q # p /\ bpc[q] = "io" /\ cur'[q] = cur[q] /\ cur[q] \in held[q]
    BY DEF BioInv, BioTypeOK, HoldInv
  <2>3. \A q \in Proc \ {p} : cur'[q] = cur[q] /\ bpc'[q] = bpc[q]
    BY Zenon DEF BioInv, BioTypeOK
  <2>4. \A q \in Proc : bpc'[q] = "io" =>
              InQueue(queue, cur'[q]) \/ (cur'[q] \in valid' /\ cur'[q] \notin dirty')
    BY <2>2, Waited
  <2>5. \A i \in 1..Len(queue) :
              /\ blockno'[queue[i]] = blockno[queue[i]] /\ data'[queue[i]] = data[queue[i]]
              /\ queue[i] \in dirty' <=> queue[i] \in dirty
              /\ queue[i] \in valid' <=> queue[i] \in valid
    BY <2>1, Zenon DEF BioInv, BioTypeOK
  <2> QED  BY <2>1, <2>3, <2>4, <2>5, Queued, QueueKept, Zenon
<1>6. DataInv'
  BY <1>r DEF BioInv, DataInv, OneBuffer, NothingToDo, BioTypeOK
<1>7. PinInv'
  <2>1. InFlight' = InFlight
    BY Zenon DEF InFlight, BioInv, BioTypeOK, HoldInv
  <2> QED  BY <2>1, FewerPinned, Zenon DEF BioInv
<1>8. NoLostWakeup'
  BY <1>r, Zenon DEF BioInv, NoLostWakeup, InQueue, BioTypeOK
<1> QED  BY <1>1, <1>2, <1>3, <1>4, <1>5, <1>6, <1>7, <1>8, Zenon DEF BioInv

\* bget recycles the buffer b.
LEMMA Step_bget_recycle ==
    ASSUME BioInv, NEW p \in Proc, NEW k \in Block, NEW b \in Buf,
           bpc[p] = "run", Cardinality(held[p]) < MAXHELD, Cached(k) = {},
           refcnt[b] = 0, b \notin dirty,
           blockno' = [blockno EXCEPT ![b] = k], valid' = valid \ {b},
           data' = [data EXCEPT ![b] = FALSE], refcnt' = [refcnt EXCEPT ![b] = 1],
           cur' = [cur EXCEPT ![p] = b], bpc' = [bpc EXCEPT ![p] = "lock"],
           UNCHANGED <<lru, dirty, owner, queue, drive, disk, driver, held, panic>>
    PROVE  BioInv'
<1> USE BioConstants DEF bufs, procs, Busy, Outside
<1>r. \A q \in Proc : b \notin held[q] /\ cur[q] # b
  <2>1. IsFiniteSet(Users(b))
    BY FS_Subset, Zenon DEF Users
  <2>2. Users(b) = {}
    BY <2>1, FS_EmptySet, Zenon DEF BioInv, RefInv
  <2> QED  BY <2>2, Zenon DEF Users, Refs
<1>k. \A c \in Buf : blockno[c] # k
  BY Zenon DEF Cached
<1>i. \A i \in 1..Len(queue) : queue[i] # b
  BY <1>r DEF BioInv, QueueInv, QueuedIsLocked, HoldInv, BioTypeOK
<1>n. HoldInv' /\ RefInv'
  <2>1. refcnt' = [refcnt EXCEPT ![b] = @ + 1]
    BY DEF BioInv, BioTypeOK
  <2>2. blockno'[b] # Nobody /\ \A c \in Buf \ {b} : blockno'[c] = blockno[c]
    BY Zenon DEF BioInv, BioTypeOK
  <2> QED  BY <1>r, <2>1, <2>2, NewRef, Zenon
<1>1. BioTypeOK'
  BY <1>r, <1>k, <1>i, Zenon DEF BioInv, BioTypeOK
<1>2. HoldInv'
  BY <1>n, Zenon
<1>3. RefInv'
  BY <1>n, Zenon
<1>4. ListInv'
  BY <1>r, <1>k, <1>i, Zenon DEF BioInv, ListInv
<1>5. QueueInv'
  <2>1. \A i \in 1..Len(queue) : owner[queue[i]] # p /\ queue[i] \in Buf
    BY Queued, Zenon
  <2>2. \A q \in Proc : bpc'[q] = "io" => q # p /\ bpc[q] = "io" /\ cur'[q] = cur[q] /\ cur[q] \in held[q]
    BY DEF BioInv, BioTypeOK, HoldInv
  <2>3. \A q \in Proc \ {p} : cur'[q] = cur[q] /\ bpc'[q] = bpc[q]
    BY Zenon DEF BioInv, BioTypeOK
  <2>4. \A q \in Proc : bpc'[q] = "io" =>
              InQueue(queue, cur'[q]) \/ (cur'[q] \in valid' /\ cur'[q] \notin dirty')
    BY <2>2, <1>r, Waited
  <2>5. \A i \in 1..Len(queue) :
              /\ blockno'[queue[i]] = blockno[queue[i]] /\ data'[queue[i]] = data[queue[i]]
              /\ queue[i] \in dirty' <=> queue[i] \in dirty
              /\ queue[i] \in valid' <=> queue[i] \in valid
    BY <2>1, <1>i, Zenon DEF BioInv, BioTypeOK
  <2> QED  BY <2>1, <2>3, <2>4, <2>5, Queued, QueueKept, Zenon
<1>6. DataInv'
  BY <1>r, <1>k, <1>i DEF BioInv, DataInv, OneBuffer, NothingToDo, BioTypeOK
<1>7. PinInv'
  <2>1. InFlight' = InFlight
    BY Zenon DEF InFlight, BioInv, BioTypeOK, HoldInv
  <2> QED  BY <2>1, FewerPinned, Zenon DEF BioInv
<1>8. NoLostWakeup'
  BY <1>r, <1>k, <1>i DEF BioInv, NoLostWakeup, InQueue, BioTypeOK
<1> QED  BY <1>1, <1>2, <1>3, <1>4, <1>5, <1>6, <1>7, <1>8, Zenon DEF BioInv

\* acquiresleep finds the buffer locked.
LEMMA Step_acquiresleep_wait ==
    ASSUME BioInv, NEW p \in Proc, bpc[p] = "lock", owner[cur[p]] # Nobody,
           bpc' = [bpc EXCEPT ![p] = "locksleep"],
           UNCHANGED <<bufs, queue, drive, disk, driver, cur, held, panic>>
    PROVE  BioInv'
<1> USE BioConstants DEF bufs, procs, Busy, Outside
<1>s. \A q \in Proc : Refs(q)' = Refs(q)
  BY Zenon DEF Refs
<1>1. BioTypeOK'
  BY <1>s, Zenon DEF BioInv, BioTypeOK
<1>2. HoldInv'
  BY <1>s DEF BioInv, HoldInv, BioTypeOK
<1>3. RefInv'
  BY <1>s, SameRefs, Zenon DEF BioInv
<1>4. ListInv'
  BY <1>s, Zenon DEF BioInv, ListInv
<1>5. QueueInv'
  <2>1. \A i \in 1..Len(queue) : owner[queue[i]] # p /\ queue[i] \in Buf
    BY Queued, Zenon
  <2>2. \A q \in Proc : bpc'[q] = "io" => q # p /\ bpc[q] = "io" /\ cur'[q] = cur[q] /\ cur[q] \in held[q]
    BY DEF BioInv, BioTypeOK, HoldInv
  <2>3. \A q \in Proc \ {p} : cur'[q] = cur[q] /\ bpc'[q] = bpc[q]
    BY Zenon DEF BioInv, BioTypeOK
  <2>4. \A q \in Proc : bpc'[q] = "io" =>
              InQueue(queue, cur'[q]) \/ (cur'[q] \in valid' /\ cur'[q] \notin dirty')
    BY <2>2, Waited, Zenon
  <2>5. \A i \in 1..Len(queue) :
              /\ blockno'[queue[i]] = blockno[queue[i]] /\ data'[queue[i]] = data[queue[i]]
              /\ queue[i] \in dirty' <=> queue[i] \in dirty
              /\ queue[i] \in valid' <=> queue[i] \in valid
    BY <2>1, Zenon DEF BioInv, BioTypeOK
  <2> QED  BY <2>1, <2>3, <2>4, <2>5, Queued, QueueKept, Zenon
<1>6. DataInv'
  BY <1>s DEF BioInv, DataInv, OneBuffer, NothingToDo, BioTypeOK
<1>7. PinInv'
  <2>1. InFlight' = InFlight
    BY Zenon DEF InFlight, BioInv, BioTypeOK
  <2> QED  BY <2>1, FewerPinned, Zenon DEF BioInv
<1>8. NoLostWakeup'
  BY <1>s, Zenon DEF BioInv, NoLostWakeup, InQueue, BioTypeOK
<1> QED  BY <1>1, <1>2, <1>3, <1>4, <1>5, <1>6, <1>7, <1>8, Zenon DEF BioInv

\* acquiresleep takes the lock: a block that is in memory is returned, another
\* one has to be read.
LEMMA Step_acquiresleep_take ==
    ASSUME BioInv, NEW p \in Proc, NEW b \in Buf, bpc[p] = "lock", cur[p] = b, owner[b] = Nobody,
           owner' = [owner EXCEPT ![b] = p], held' = [held EXCEPT ![p] = @ \cup {b}],
           \/ b \in valid /\ bpc' = [bpc EXCEPT ![p] = "run"] /\ cur' = [cur EXCEPT ![p] = Nobody]
           \/ b \notin valid /\ bpc' = [bpc EXCEPT ![p] = "iderw"] /\ cur' = cur,
           UNCHANGED <<lru, blockno, refcnt, valid, dirty, data, queue, drive, disk, driver, panic>>
    PROVE  BioInv'
<1> USE BioConstants DEF bufs, procs, Busy, Outside
<1>s. \A q \in Proc : Refs(q)' = Refs(q)
  BY DEF Refs, BioInv, BioTypeOK
<1>i. \A i \in 1..Len(queue) : queue[i] \in Buf /\ queue[i] # b /\ owner[queue[i]] # p
  BY Queued, Zenon
<1>1. BioTypeOK'
  <2>1. bpc' \in [Proc -> {"run", "lock", "locksleep", "iderw", "io", "iosleep", "brelse"}]
    BY Zenon DEF BioInv, BioTypeOK
  <2>2. cur' \in [Proc -> Buf \cup {Nobody}]
    BY DEF BioInv, BioTypeOK
  <2>3. owner' \in [Buf -> Proc \cup {Nobody}] /\ held' \in [Proc -> SUBSET Buf]
    BY DEF BioInv, BioTypeOK
  <2> QED  BY <2>1, <2>2, <2>3, Zenon DEF BioInv, BioTypeOK
<1>2. HoldInv'
  BY <1>s, <1>i DEF BioInv, HoldInv, BioTypeOK
<1>3. RefInv'
  BY <1>s, SameRefs, Zenon DEF BioInv
<1>4. ListInv'
  BY <1>s, <1>i, Zenon DEF BioInv, ListInv
<1>5. QueueInv'
  <2>1. \A q \in Proc : bpc'[q] = "io" => q # p /\ bpc[q] = "io" /\ cur'[q] = cur[q]
    BY DEF BioInv, BioTypeOK
  <2>2. QueuedIsLocked'
    BY <1>i DEF BioInv, QueueInv, QueuedIsLocked, BioTypeOK
  <2>3. DriveMatchesQueue'
    BY Zenon DEF BioInv, QueueInv, DriveMatchesQueue, idestart
  <2> QED  BY <2>1, <2>2, <2>3 DEF BioInv, QueueInv, InQueue, Finished, NothingToDo
<1>6. DataInv'
  <2>1. \A q \in Proc : \A c \in held'[q] :
           c \in valid \/ (c = cur'[q] /\ bpc'[q] \in Busy)
    BY DEF BioInv, BioTypeOK, DataInv
  <2>2. \A q \in Proc : bpc'[q] = "iderw" => cur'[q] \notin valid \/ cur'[q] \in dirty
    <3> SUFFICES ASSUME NEW q \in Proc, bpc'[q] = "iderw"
                 PROVE  cur'[q] \notin valid \/ cur'[q] \in dirty
      BY Zenon
    <3>1. CASE q = p
      BY <3>1, Zenon DEF BioInv, BioTypeOK
    <3>2. CASE q # p
      BY <3>2 DEF BioInv, BioTypeOK, DataInv, NothingToDo
    <3> QED  BY <3>1, <3>2, Zenon
  <2> QED  BY <2>1, <2>2, Zenon DEF BioInv, DataInv, OneBuffer, NothingToDo
<1>7. PinInv'
  <2>1. InFlight \subseteq InFlight'
    BY DEF InFlight, BioInv, BioTypeOK
  <2> QED  BY <2>1, FewerPinned, Zenon DEF BioInv
<1>8. NoLostWakeup'
  <2> SUFFICES ASSUME NEW q \in Proc
               PROVE  /\ bpc'[q] = "locksleep" => owner'[cur'[q]] # Nobody
                      /\ bpc'[q] = "iosleep" => InQueue(queue, cur'[q])
    BY Zenon DEF NoLostWakeup, InQueue
  <2>1. CASE q = p
    BY <2>1 DEF BioInv, BioTypeOK
  <2>2. CASE q # p
    <3>1. bpc'[q] = bpc[q] /\ cur'[q] = cur[q] /\ cur[q] \in Buf \cup {Nobody}
      BY <2>2 DEF BioInv, BioTypeOK
    <3>2. owner[cur[q]] # Nobody => owner'[cur[q]] # Nobody
      BY <3>1 DEF BioInv, BioTypeOK
    <3> QED  BY <3>1, <3>2, Zenon DEF BioInv, NoLostWakeup
  <2> QED  BY <2>1, <2>2, Zenon
<1> QED  BY <1>1, <1>2, <1>3, <1>4, <1>5, <1>6, <1>7, <1>8, Zenon DEF BioInv

\* acquiresleep in bget: wait for the owner, or take the buffer.
LEMMA Step_acquiresleep ==
    ASSUME BioInv, NEW p \in Proc, acquiresleep(p)
    PROVE  BioInv'
<1> DEFINE b == cur[p]
<1>1. b \in Buf /\ bpc[p] = "lock"
  BY DEF acquiresleep, BioInv, BioTypeOK, HoldInv, Outside
<1>2. CASE owner[b] # Nobody
  BY <1>1, <1>2, Step_acquiresleep_wait, Zenon DEF acquiresleep, bufs
<1>3. CASE owner[b] = Nobody
  <2>1. /\ owner' = [owner EXCEPT ![b] = p] /\ held' = [held EXCEPT ![p] = @ \cup {b}]
        /\ UNCHANGED <<lru, blockno, refcnt, valid, dirty, data, queue, drive, disk, driver, panic>>
        /\ \/ b \in valid /\ bpc' = [bpc EXCEPT ![p] = "run"] /\ cur' = [cur EXCEPT ![p] = Nobody]
           \/ b \notin valid /\ bpc' = [bpc EXCEPT ![p] = "iderw"] /\ cur' = cur
    BY <1>3, Zenon DEF acquiresleep, Return
  <2> QED  BY <1>1, <1>3, <2>1, Step_acquiresleep_take, Zenon
<1> QED  BY <1>2, <1>3, Zenon

\* bwrite marks the buffer dirty and calls iderw.
LEMMA Step_bwrite ==
    ASSUME BioInv, NEW p \in Proc, NEW b \in Buf, bwrite(p, b)
    PROVE  BioInv'
<1> USE BioConstants DEF bufs, procs, Busy, Outside
<1>r. b \in held[p] /\ bpc[p] = "run" /\ blockno[b] \in Block /\ owner[b] = p /\ b \in valid
  BY DEF bwrite, Holds, BioInv, BioTypeOK, HoldInv, DataInv
<1>s. \A q \in Proc : Refs(q)' = Refs(q)
  BY <1>r DEF bwrite, Refs, BioInv, BioTypeOK, HoldInv
<1>i. \A i \in 1..Len(queue) : queue[i] # b
  BY <1>r, Zenon DEF BioInv, QueueInv, QueuedIsLocked
<1>d. \A c \in Buf : data'[c] = IF c = b THEN TRUE ELSE data[c]
  BY <1>r, BioConstants, ZenonT(30) DEF bwrite, Store, BioInv, DataInv, OneBuffer
<1>1. BioTypeOK'
  BY <1>r, <1>s, <1>i, <1>d, ZenonT(30) DEF bwrite, Holds, Store, BioInv, BioTypeOK
<1>2. HoldInv'
  BY <1>r, <1>s, <1>i, <1>d DEF bwrite, Holds, Store, BioInv, HoldInv, BioTypeOK
<1>3. RefInv'
  BY <1>s, SameRefs, Zenon DEF bwrite, BioInv
<1>4. ListInv'
  BY <1>r, <1>s, <1>i, <1>d, Zenon DEF bwrite, Holds, Store, BioInv, ListInv
<1>5. QueueInv'
  <2>1. \A i \in 1..Len(queue) : owner[queue[i]] # p /\ queue[i] \in Buf
    BY <1>r, Queued, Zenon
  <2>2. \A q \in Proc : bpc'[q] = "io" => /\ q # p /\ bpc[q] = "io" /\ cur'[q] = cur[q]
                                          /\ cur[q] \in Buf \ {b}
    BY <1>r DEF bwrite, BioInv, BioTypeOK, HoldInv
  <2>3. UNCHANGED <<queue, drive, owner, blockno, valid>> /\ dirty' = dirty \cup {b}
    BY Zenon DEF bwrite
  <2>4. \A q \in Proc \ {p} : cur'[q] = cur[q] /\ bpc'[q] = bpc[q]
    BY Zenon DEF bwrite, BioInv, BioTypeOK
  <2>5. \A i \in 1..Len(queue) : owner[queue[i]] \in Proc /\ bpc[owner[queue[i]]] \in {"io", "iosleep"}
    BY DEF bwrite, Holds, Store, BioInv, QueueInv, QueuedIsLocked, BioTypeOK
  <2>6. \A q \in Proc : bpc'[q] = "io" =>
              InQueue(queue, cur'[q]) \/ (cur'[q] \in valid' /\ cur'[q] \notin dirty')
    BY <2>2, <2>3, Zenon DEF bwrite, Holds, Store, BioInv, QueueInv, Finished, NothingToDo
  <2> QED  BY <2>1, <2>3, <2>4, <2>5, <2>6, <1>i, <1>d, QueueKept, Zenon
<1>6. DataInv'
  BY <1>r, <1>s, <1>i, <1>d DEF bwrite, Holds, Store, BioInv, DataInv, OneBuffer, NothingToDo, BioTypeOK
<1>7. PinInv'
  <2>1. InFlight' = InFlight \cup {b}
    BY <1>r DEF bwrite, InFlight, BioInv, BioTypeOK, HoldInv
  <2> QED  BY <2>1, FewerPinned, Zenon DEF bwrite, BioInv
<1>8. NoLostWakeup'
  BY <1>r, <1>s, <1>i, <1>d DEF bwrite, Holds, Store, BioInv, NoLostWakeup, InQueue, BioTypeOK
<1> QED  BY <1>1, <1>2, <1>3, <1>4, <1>5, <1>6, <1>7, <1>8, Zenon DEF BioInv

\* log_write pins the buffer while the log has room.
LEMMA Step_log_write ==
    ASSUME BioInv, NEW p \in Proc, NEW b \in Buf, log_write(p, b)
    PROVE  BioInv'
<1> USE BioConstants DEF bufs, procs, Busy, Outside
<1>r. b \in held[p] /\ bpc[p] = "run" /\ blockno[b] \in Block /\ owner[b] = p /\ b \in valid
  BY DEF log_write, Holds, BioInv, BioTypeOK, HoldInv, DataInv
<1>s. \A q \in Proc : Refs(q)' = Refs(q)
  BY Zenon DEF log_write, Refs
<1>i. \A i \in 1..Len(queue) : queue[i] # b
  BY <1>r, Zenon DEF BioInv, QueueInv, QueuedIsLocked
<1>d. \A c \in Buf : data'[c] = IF c = b THEN TRUE ELSE data[c]
  BY <1>r, ZenonT(30) DEF log_write, Store, BioInv, DataInv, OneBuffer
<1>1. BioTypeOK'
  BY <1>r, <1>s, <1>i, <1>d, ZenonT(30) DEF log_write, Store, BioInv, BioTypeOK
<1>2. HoldInv'
  BY <1>r, <1>s, <1>i, <1>d DEF log_write, Store, BioInv, HoldInv, BioTypeOK
<1>3. RefInv'
  BY <1>s, SameRefs, Zenon DEF log_write, BioInv
<1>4. ListInv'
  BY <1>r, <1>s, <1>i, <1>d, Zenon DEF log_write, Store, BioInv, ListInv
<1>5. QueueInv'
  <2>1. \A i \in 1..Len(queue) : owner[queue[i]] # p /\ queue[i] \in Buf
    BY <1>r, Queued, Zenon
  <2>2. \A q \in Proc : bpc'[q] = "io" => /\ q # p /\ bpc[q] = "io" /\ cur'[q] = cur[q]
                                          /\ cur[q] \in Buf \ {b}
    BY <1>r DEF log_write, BioInv, BioTypeOK, HoldInv
  <2>3. UNCHANGED <<queue, drive, owner, blockno, valid>> /\ dirty' = dirty \cup {b}
    BY Zenon DEF log_write
  <2>4. \A q \in Proc \ {p} : cur'[q] = cur[q] /\ bpc'[q] = bpc[q]
    BY Zenon DEF log_write, BioInv, BioTypeOK
  <2>5. \A i \in 1..Len(queue) : owner[queue[i]] \in Proc /\ bpc[owner[queue[i]]] \in {"io", "iosleep"}
    BY DEF log_write, Store, BioInv, QueueInv, QueuedIsLocked, BioTypeOK
  <2>6. \A q \in Proc : bpc'[q] = "io" =>
              InQueue(queue, cur'[q]) \/ (cur'[q] \in valid' /\ cur'[q] \notin dirty')
    BY <2>2, <2>3, Zenon DEF log_write, Store, BioInv, QueueInv, Finished, NothingToDo
  <2> QED  BY <2>1, <2>3, <2>4, <2>5, <2>6, <1>i, <1>d, QueueKept, Zenon
<1>6. DataInv'
  BY <1>r, <1>s, <1>i, <1>d DEF log_write, Store, BioInv, DataInv, OneBuffer, NothingToDo, BioTypeOK
<1>7. PinInv'
  <2>1. dirty' \in SUBSET Buf /\ (dirty \ InFlight)' \in SUBSET dirty'
    BY Zenon DEF log_write, BioInv, BioTypeOK
  <2>2. IsFiniteSet(dirty') /\ Cardinality(dirty') \in Nat
    BY <2>1, BufFinite, Zenon
  <2>3. /\ Cardinality((dirty \ InFlight)') <= Cardinality(dirty')
        /\ Cardinality((dirty \ InFlight)') \in Nat
    BY <2>1, <2>2, FS_Subset, FS_CardinalityType, Zenon
  <2>4. Cardinality(dirty') <= LOGSIZE
    BY Zenon DEF log_write
  <2> QED  BY <2>2, <2>3, <2>4 DEF PinInv
<1>8. NoLostWakeup'
  BY <1>r, <1>s, <1>i, <1>d DEF log_write, Store, BioInv, NoLostWakeup, InQueue, BioTypeOK
<1> QED  BY <1>1, <1>2, <1>3, <1>4, <1>5, <1>6, <1>7, <1>8, Zenon DEF BioInv

\* brelse first gives the sleep lock up and wakes who waits for it.
LEMMA Step_releasesleep ==
    ASSUME BioInv, NEW p \in Proc, NEW b \in Buf, releasesleep(p, b)
    PROVE  BioInv'
<1> USE BioConstants DEF bufs, procs, Busy, Outside
<1>r. b \in held[p] /\ bpc[p] = "run" /\ owner[b] = p /\ b \in valid /\ cur[p] = Nobody
  BY DEF releasesleep, Holds, BioInv, HoldInv, DataInv
<1>e. /\ owner' = [owner EXCEPT ![b] = Nobody] /\ held' = [held EXCEPT ![p] = @ \ {b}]
      /\ cur' = [cur EXCEPT ![p] = b]
      /\ UNCHANGED <<lru, blockno, refcnt, valid, dirty, data, queue, drive, disk, driver, panic>>
  BY Zenon DEF releasesleep
<1>w. /\ bpc' \in [Proc -> {"run", "lock", "locksleep", "iderw", "io", "iosleep", "brelse"}]
      /\ bpc'[p] = "brelse"
      /\ \A q \in Proc \ {p} :
            bpc'[q] = IF bpc[q] = "locksleep" /\ cur[q] = b THEN "lock" ELSE bpc[q]
  BY Zenon DEF releasesleep, LockWakeup, BioInv, BioTypeOK
<1>s. \A q \in Proc : Refs(q)' = Refs(q)
  BY <1>r, <1>e DEF Refs, BioInv, BioTypeOK
<1>i. \A i \in 1..Len(queue) : queue[i] \in Buf \ {b} /\ owner[queue[i]] \in Proc \ {p}
  BY <1>r, Queued, Zenon
<1>1. BioTypeOK'
  BY <1>r, <1>e, <1>w, <1>s, Zenon DEF BioInv, BioTypeOK
<1>2. HoldInv'
  BY <1>r, <1>e, <1>w, <1>s DEF BioInv, HoldInv, BioTypeOK
<1>3. RefInv'
  BY <1>e, <1>s, SameRefs, Zenon DEF BioInv
<1>4. ListInv'
  BY <1>r, <1>e, <1>w, <1>s, Zenon DEF BioInv, ListInv
<1>5. QueueInv'
  <2>1. \A q \in Proc : bpc'[q] = "io" => q # p /\ bpc[q] = "io" /\ cur'[q] = cur[q]
    BY <1>e, <1>w, Zenon DEF BioInv, BioTypeOK
  <2>2. QueuedIsLocked'
    BY <1>e, <1>w, <1>i, Queued DEF BioInv, QueuedIsLocked, BioTypeOK
  <2>3. DriveMatchesQueue'
    BY <1>e, Zenon DEF BioInv, QueueInv, DriveMatchesQueue, idestart
  <2> QED  BY <1>e, <2>1, <2>2, <2>3 DEF BioInv, QueueInv, InQueue, Finished, NothingToDo
<1>6. DataInv'
  <2>1. \A q \in Proc : \A c \in held'[q] : c \in valid \/ (c = cur'[q] /\ bpc'[q] \in Busy)
    <3> SUFFICES ASSUME NEW q \in Proc, NEW c \in held'[q]
                 PROVE  c \in valid \/ (c = cur'[q] /\ bpc'[q] \in Busy)
      BY Zenon
    <3>1. CASE q = p
      BY <1>r, <1>e, <3>1, Zenon DEF BioInv, BioTypeOK, DataInv
    <3>2. CASE q # p
      BY <1>e, <1>w, <3>2, ZenonT(30) DEF BioInv, BioTypeOK, DataInv
    <3> QED  BY <3>1, <3>2, Zenon
  <2>2. \A q \in Proc : bpc'[q] = "iderw" => bpc[q] = "iderw" /\ cur'[q] = cur[q]
    BY <1>e, <1>w, Zenon DEF BioInv, BioTypeOK
  <2> QED  BY <1>e, <2>1, <2>2 DEF BioInv, DataInv, OneBuffer, NothingToDo
<1>7. PinInv'
  <2>1. InFlight' = InFlight
    BY <1>r, <1>e, <1>w, Zenon DEF InFlight, BioInv, BioTypeOK
  <2> QED  BY <1>e, <2>1, FewerPinned, Zenon DEF BioInv
<1>8. NoLostWakeup'
  <2> SUFFICES ASSUME NEW q \in Proc
               PROVE  /\ bpc'[q] = "locksleep" => owner'[cur'[q]] # Nobody
                      /\ bpc'[q] = "iosleep" => InQueue(queue, cur'[q])
    BY <1>e, Zenon DEF NoLostWakeup
  <2>1. CASE q = p
    BY <1>w, <2>1, Zenon
  <2>2. CASE q # p
    <3>1. cur'[q] = cur[q] /\ bpc'[q] \in {"locksleep", "iosleep"} => bpc[q] = bpc'[q]
      BY <1>e, <1>w, <2>2, Zenon DEF BioInv, BioTypeOK
    <3>2. bpc'[q] = "locksleep" => cur[q] \in Buf \ {b}
      BY <1>w, <2>2 DEF BioInv, BioTypeOK, HoldInv
    <3>3. bpc'[q] = "locksleep" => owner'[cur[q]] = owner[cur[q]]
      BY <1>e, <3>2, Zenon DEF BioInv, BioTypeOK
    <3>4. cur'[q] = cur[q]
      BY <1>e, <2>2, Zenon DEF BioInv, BioTypeOK
    <3> QED  BY <3>1, <3>3, <3>4, Zenon DEF BioInv, NoLostWakeup
  <2> QED  BY <2>1, <2>2, Zenon
<1> QED  BY <1>1, <1>2, <1>3, <1>4, <1>5, <1>6, <1>7, <1>8, Zenon DEF BioInv

\* brelse drops the reference and moves an unused buffer to the front.
LEMMA Step_brelse ==
    ASSUME BioInv, NEW p \in Proc, brelse(p)
    PROVE  BioInv'
<1> USE BioConstants DEF bufs, procs, Busy, Outside
<1>0. PICK b \in Buf : cur[p] = b
  BY DEF brelse, BioInv, BioTypeOK, HoldInv
<1>r. cur[p] = b /\ b \notin held[p] /\ bpc[p] = "brelse"
  BY <1>0, Zenon DEF brelse, BioInv, BioTypeOK, HoldInv
<1>e. /\ bpc' = [bpc EXCEPT ![p] = "run"] /\ cur' = [cur EXCEPT ![p] = Nobody]
      /\ refcnt' = [refcnt EXCEPT ![b] = @ - 1]
      /\ lru' = lru \/ lru' = MoveToFront(b)
      /\ UNCHANGED <<blockno, valid, dirty, data, owner, queue, drive, disk, driver, held, panic>>
  BY <1>0, Zenon DEF brelse, Return, Refcnt
<1>s. Refs(p)' = Refs(p) \ {b} /\ \A q \in Proc \ {p} : Refs(q)' = Refs(q)
  BY <1>r, <1>e DEF Refs, BioInv, BioTypeOK
<1>u. /\ p \in Users(b) /\ Users(b)' = Users(b) \ {p}
      /\ \A c \in Buf \ {b} : Users(c)' = Users(c)
  <2>1. b \in Refs(p)
    BY <1>r, Zenon DEF Refs
  <2> QED  BY <1>s, <2>1, Zenon DEF Users
<1>c. /\ Cardinality(Users(b)) \in Nat /\ Cardinality(Users(b)') = Cardinality(Users(b)) - 1
      /\ Cardinality(Users(b)') \in Nat
  <2>1. IsFiniteSet(Users(b))
    BY FS_Subset, Zenon DEF Users
  <2> QED  BY <1>u, <2>1, FS_RemoveElement, FS_CardinalityType
<1>l. lru' \in [Buf -> Buf] /\ ListInv'
  BY <1>r, <1>e, ListKept, Zenon DEF BioInv, BioTypeOK, ListInv
<1>d. Refs(p) \in SUBSET Buf /\ b \in Refs(p)
  BY <1>r, Zenon DEF Refs, BioInv, BioTypeOK
<1>1. BioTypeOK'
  <2>1. refcnt' \in [Buf -> Nat]
    BY <1>r, <1>e, <1>c DEF BioInv, BioTypeOK, RefInv
  <2> QED  BY <1>e, <1>l, <2>1, Zenon DEF BioInv, BioTypeOK
<1>2. HoldInv'
  <2>1. Cardinality(Refs(p)') <= MAXHELD
    <3>1. Cardinality(Refs(p)) <= MAXHELD
      BY Zenon DEF BioInv, HoldInv
    <3>2. Cardinality(Refs(p) \ {b}) <= MAXHELD
      BY <1>d, <3>1, FewerHeld, Zenon
    <3> QED  BY <1>s, <3>2, Zenon
  <2>2. \A q \in Proc : Cardinality(Refs(q)') <= MAXHELD
    BY <1>s, <2>1, Zenon DEF BioInv, HoldInv
  <2> QED  BY <1>r, <1>e, <2>2 DEF BioInv, HoldInv, BioTypeOK
<1>3. RefInv'
  <2> SUFFICES ASSUME NEW c \in Buf
               PROVE  /\ refcnt'[c] = Cardinality(Users(c)')
                      /\ Users(c)' # {} => blockno'[c] # Nobody
    BY Zenon DEF RefInv
  <2>1. CASE c = b
    BY <1>r, <1>e, <1>u, <1>c, <2>1, Zenon DEF BioInv, RefInv, BioTypeOK
  <2>2. CASE c # b
    <3>1. refcnt'[c] = refcnt[c] /\ Users(c)' = Users(c) /\ blockno'[c] = blockno[c]
      BY <1>e, <1>u, <2>2, Zenon DEF BioInv, BioTypeOK
    <3> QED  BY <3>1, Zenon DEF BioInv, RefInv
  <2> QED  BY <2>1, <2>2, Zenon
<1>4. ListInv'
  BY <1>l, Zenon
<1>5. QueueInv'
  <2>1. \A i \in 1..Len(queue) : owner[queue[i]] # p /\ queue[i] \in Buf
    BY <1>r, Queued, Zenon
  <2>2. \A q \in Proc : bpc'[q] = "io" => q # p /\ bpc[q] = "io" /\ cur'[q] = cur[q] /\ cur[q] \in held[q]
    BY <1>r, <1>e DEF BioInv, BioTypeOK, HoldInv
  <2>3. \A q \in Proc \ {p} : cur'[q] = cur[q] /\ bpc'[q] = bpc[q]
    BY <1>r, <1>e, Zenon DEF BioInv, BioTypeOK
  <2>4. \A q \in Proc : bpc'[q] = "io" =>
              InQueue(queue, cur'[q]) \/ (cur'[q] \in valid' /\ cur'[q] \notin dirty')
    <3>1. valid' = valid /\ dirty' = dirty
      BY <1>e, Zenon
    <3> QED  BY <2>2, <3>1, Waited, Zenon
  <2>5. \A i \in 1..Len(queue) :
              /\ blockno'[queue[i]] = blockno[queue[i]] /\ data'[queue[i]] = data[queue[i]]
              /\ queue[i] \in dirty' <=> queue[i] \in dirty
              /\ queue[i] \in valid' <=> queue[i] \in valid
    BY <2>1, <1>e, Zenon DEF BioInv, BioTypeOK
  <2> QED  BY <1>e, <2>1, <2>3, <2>4, <2>5, Queued, QueueKept, Zenon
<1>6. DataInv'
  BY <1>r, <1>e, <1>s DEF BioInv, DataInv, OneBuffer, NothingToDo, BioTypeOK
<1>7. PinInv'
  <2>1. InFlight' = InFlight
    BY <1>r, <1>e, Zenon DEF InFlight, BioInv, BioTypeOK
  <2> QED  BY <1>e, <2>1, FewerPinned, Zenon DEF BioInv
<1>8. NoLostWakeup'
  BY <1>r, <1>e, <1>s, Zenon DEF BioInv, NoLostWakeup, InQueue, BioTypeOK
<1> QED  BY <1>1, <1>2, <1>3, <1>4, <1>5, <1>6, <1>7, <1>8, Zenon DEF BioInv

\* kill makes a sleeper look at its condition again.
LEMMA Step_kill ==
    ASSUME BioInv, NEW p \in Proc, kill(p)
    PROVE  BioInv'
<1> USE BioConstants DEF bufs, procs, Busy, Outside
<1>e. UNCHANGED <<bufs, queue, drive, disk, driver, cur, held, panic>>
  BY Zenon DEF kill
<1>r. \/ bpc[p] = "locksleep" /\ bpc' = [bpc EXCEPT ![p] = "lock"]
      \/ bpc[p] = "iosleep" /\ bpc' = [bpc EXCEPT ![p] = "io"]
  BY Zenon DEF kill, BioInv, BioTypeOK
<1>s. \A q \in Proc : Refs(q)' = Refs(q)
  BY <1>e, Zenon DEF Refs
<1>1. BioTypeOK'
  BY <1>e, <1>r, <1>s, Zenon DEF BioInv, BioTypeOK
<1>2. HoldInv'
  BY <1>e, <1>r, <1>s DEF BioInv, HoldInv, BioTypeOK
<1>3. RefInv'
  BY <1>e, <1>s, SameRefs, Zenon DEF BioInv
<1>4. ListInv'
  BY <1>e, <1>r, <1>s, Zenon DEF BioInv, ListInv
<1>5. QueueInv'
  <2>1. QueuedIsLocked'
    <3> SUFFICES ASSUME NEW i \in 1..Len(queue)
                 PROVE  LET q == owner[queue[i]]
                        IN  q # Nobody /\ cur[q] = queue[i] /\ bpc'[q] \in {"io", "iosleep"}
      BY <1>e, Zenon DEF QueuedIsLocked
    <3>1. \A q \in Proc : bpc[q] \in {"io", "iosleep"} => bpc'[q] \in {"io", "iosleep"}
      BY <1>r, Zenon DEF BioInv, BioTypeOK
    <3> QED  BY <3>1, Queued, Zenon
  <2>2. DriveMatchesQueue'
    BY <1>e, Zenon DEF BioInv, QueueInv, DriveMatchesQueue, idestart
  <2>3. \A q \in Proc : bpc'[q] = "io" => bpc[q] = "io" \/ bpc[q] = "iosleep"
    BY <1>r, Zenon DEF BioInv, BioTypeOK
  <2> QED  BY <1>e, <2>1, <2>2, <2>3, Zenon DEF BioInv, QueueInv, NoLostWakeup, InQueue, Finished, NothingToDo
<1>6. DataInv'
  <2>1. \A q \in Proc : (bpc'[q] = "iderw" <=> bpc[q] = "iderw") /\ (bpc'[q] \in Busy <=> bpc[q] \in Busy)
    BY <1>r DEF BioInv, BioTypeOK
  <2> HIDE DEF Busy
  <2> QED  BY <1>e, <2>1, Zenon DEF BioInv, DataInv, OneBuffer, NothingToDo
<1>7. PinInv'
  <2>1. InFlight' = InFlight
    BY <1>r, <1>e DEF InFlight, BioInv, BioTypeOK
  <2> QED  BY <1>e, <2>1, FewerPinned, Zenon DEF BioInv
<1>8. NoLostWakeup'
  BY <1>e, <1>r, <1>s DEF BioInv, NoLostWakeup, InQueue, BioTypeOK
<1> QED  BY <1>1, <1>2, <1>3, <1>4, <1>5, <1>6, <1>7, <1>8, Zenon DEF BioInv

-----------------------------------------------------------------------------
(* The steps of the disk driver. *)

\* The caller of iderw holds the buffer, which has something to do: iderw does
\* not panic.
LEMMA Step_iderw ==
    ASSUME BioInv, NEW p \in Proc, iderw(p)
    PROVE  BioInv'
<1> USE BioConstants DEF bufs, procs, Busy, Outside
<1>0. PICK b \in Buf : cur[p] = b /\ b \in held[p] /\ owner[b] = p
  BY Zenon DEF iderw, BioInv, BioTypeOK, HoldInv
<1>r. ~NothingToDo(b) /\ bpc[p] = "iderw"
  BY <1>0, Zenon DEF iderw, BioInv, DataInv
<1>e. /\ queue' = Append(queue, b) /\ bpc' = [bpc EXCEPT ![p] = "io"]
      /\ drive' = IF queue = <<>> THEN idestart(<<b>>) ELSE drive
      /\ UNCHANGED <<bufs, disk, driver, cur, held, panic>>
  BY <1>0, <1>r, Zenon DEF iderw, StartNow
<1>s. \A q \in Proc : Refs(q)' = Refs(q)
  BY <1>e, Zenon DEF Refs
<1>i. \A i \in 1..Len(queue) : queue[i] \in Buf \ {b} /\ owner[queue[i]] \in Proc \ {p}
  BY <1>0, <1>r, Queued
<1>q. /\ queue \in Seq(Buf) /\ queue' \in Seq(Buf) /\ Len(queue) \in Nat /\ Len(queue') = Len(queue) + 1
      /\ queue'[Len(queue) + 1] = b /\ \A i \in 1..Len(queue) : queue'[i] = queue[i]
  BY <1>e DEF BioInv, BioTypeOK
<1>c. InQueue(queue', b) /\ \A c \in Buf : InQueue(queue, c) => InQueue(queue', c)
  BY <1>q DEF InQueue
<1>1. BioTypeOK'
  BY <1>e, <1>q, Zenon DEF BioInv, BioTypeOK
<1>2. HoldInv'
  BY <1>0, <1>e, <1>s DEF BioInv, HoldInv, BioTypeOK
<1>3. RefInv'
  BY <1>e, <1>s, SameRefs, Zenon DEF BioInv
<1>4. ListInv'
  BY <1>0, <1>e, <1>s, Zenon DEF BioInv, ListInv
<1>5. QueueInv'
  <2>1. QueuedIsLocked'
    <3> SUFFICES ASSUME NEW i \in 1..Len(queue')
                 PROVE  LET q == owner[queue'[i]]
                        IN  q # Nobody /\ cur[q] = queue'[i] /\ bpc'[q] \in {"io", "iosleep"}
      BY <1>e, Zenon DEF QueuedIsLocked
    <3>1. CASE i = Len(queue) + 1
      BY <1>0, <1>e, <1>q, <3>1 DEF BioInv, BioTypeOK
    <3>2. CASE i \in 1..Len(queue)
      BY <1>e, <1>i, <1>q, <3>2, Queued DEF BioInv, BioTypeOK
    <3> QED  BY <1>q, <3>1, <3>2
  <2>2. DriveMatchesQueue'
    <3>1. CASE queue = <<>>
      <4>1. queue' = <<b>> /\ queue' # <<>> /\ Head(queue') = b /\ Head(<<b>>) = b /\ <<b>> # <<>>
        BY <1>e, <3>1
      <4> QED  BY <1>e, <3>1, <4>1, Zenon DEF DriveMatchesQueue, idestart
    <3>2. CASE queue # <<>>
      <4>1. queue' # <<>> /\ Head(queue') = Head(queue)
        BY <1>e, <1>q, <3>2
      <4> QED  BY <1>e, <3>2, <4>1, Zenon DEF BioInv, QueueInv, DriveMatchesQueue, idestart
    <3> QED  BY <3>1, <3>2, Zenon
  <2>3. \A i, j \in 1..Len(queue') : queue'[i] = queue'[j] => i = j
    BY <1>i, <1>q DEF BioInv, QueueInv
  <2>4. \A i \in 1..Len(queue') : ~NothingToDo(queue'[i])
    BY <1>r, <1>q DEF BioInv, QueueInv, Finished
  <2>5. \A q \in Proc : bpc'[q] = "io" => InQueue(queue', cur'[q]) \/ Finished(cur'[q])
    <3> SUFFICES ASSUME NEW q \in Proc, bpc'[q] = "io"
                 PROVE  InQueue(queue', cur[q]) \/ Finished(cur[q])
      BY <1>e, Zenon
    <3>1. CASE q = p
      BY <1>0, <1>c, <3>1, Zenon
    <3>2. CASE q # p
      <4>1. bpc[q] = "io" /\ cur[q] \in Buf
        BY <1>e, <3>2 DEF BioInv, BioTypeOK, HoldInv
      <4> QED  BY <1>c, <4>1, Zenon DEF BioInv, QueueInv
    <3> QED  BY <3>1, <3>2, Zenon
  <2> QED  BY <1>e, <2>1, <2>2, <2>3, <2>4, <2>5, Zenon DEF QueueInv, Finished, NothingToDo
<1>6. DataInv'
  <2>1. \A q \in Proc : (bpc'[q] = "iderw" => bpc[q] = "iderw") /\ (bpc'[q] \in Busy <=> bpc[q] \in Busy)
    BY <1>e, <1>r, Zenon DEF BioInv, BioTypeOK
  <2> HIDE DEF Busy
  <2> QED  BY <1>e, <2>1, Zenon DEF BioInv, DataInv, OneBuffer, NothingToDo
<1>7. PinInv'
  <2>1. InFlight' = InFlight
    BY <1>r, <1>e, Zenon DEF InFlight, BioInv, BioTypeOK
  <2> QED  BY <1>e, <2>1, FewerPinned, Zenon DEF BioInv
<1>8. NoLostWakeup'
  <2>1. \A q \in Proc : bpc'[q] \in {"locksleep", "iosleep"} => bpc[q] = bpc'[q] /\ cur[q] \in Buf
    BY <1>e DEF BioInv, BioTypeOK, HoldInv
  <2> QED  BY <1>e, <1>c, <2>1, Zenon DEF BioInv, NoLostWakeup
<1> QED  BY <1>1, <1>2, <1>3, <1>4, <1>5, <1>6, <1>7, <1>8, Zenon DEF BioInv

\* iderw returns: the request is finished, so it is not queued any more.
LEMMA Step_iderw_return ==
    ASSUME BioInv, NEW p \in Proc, bpc[p] = "io", Finished(cur[p]),
           bpc' = [bpc EXCEPT ![p] = "run"], cur' = [cur EXCEPT ![p] = Nobody],
           UNCHANGED <<bufs, queue, drive, disk, driver, held, panic>>
    PROVE  BioInv'
<1> USE BioConstants DEF bufs, procs, Busy, Outside
<1>0. PICK b \in Buf : cur[p] = b /\ b \in held[p] /\ owner[b] = p
  BY Zenon DEF BioInv, BioTypeOK, HoldInv
<1>s. \A q \in Proc : Refs(q)' = Refs(q)
  BY <1>0 DEF Refs, BioInv, BioTypeOK
<1>f. b \in valid /\ b \notin dirty
  BY <1>0, Zenon DEF Finished, NothingToDo
<1>i. \A i \in 1..Len(queue) : queue[i] \in Buf \ {b} /\ owner[queue[i]] \in Proc \ {p}
  <2> TAKE i \in 1..Len(queue)
  <2>1. queue[i] \in Buf /\ owner[queue[i]] \in Proc /\ cur[owner[queue[i]]] = queue[i]
    BY Queued, Zenon
  <2>2. ~Finished(queue[i])
    BY Zenon DEF BioInv, QueueInv
  <2> QED  BY <1>0, <2>1, <2>2, Zenon
<1>1. BioTypeOK'
  BY <1>0, <1>s, <1>f, Zenon DEF BioInv, BioTypeOK
<1>2. HoldInv'
  BY <1>0, <1>s, <1>f DEF BioInv, HoldInv, BioTypeOK
<1>3. RefInv'
  BY <1>s, SameRefs, Zenon DEF BioInv
<1>4. ListInv'
  BY <1>0, <1>s, <1>f, Zenon DEF BioInv, ListInv
<1>5. QueueInv'
  <2>1. \A i \in 1..Len(queue) : queue[i] \in Buf \ {b} /\ owner[queue[i]] \in Proc \ {p}
    BY <1>i, Zenon
  <2>2. \A q \in Proc : bpc'[q] = "io" => /\ q # p /\ bpc[q] = "io" /\ cur'[q] = cur[q]
                                          /\ cur[q] \in Buf \ {b}
    BY <1>0 DEF BioInv, BioTypeOK, HoldInv
  <2>3. \A q \in Proc \ {p} : cur'[q] = cur[q] /\ bpc'[q] = bpc[q]
    BY Zenon DEF BioInv, BioTypeOK
  <2>4. \A q \in Proc : bpc'[q] = "io" =>
              InQueue(queue, cur'[q]) \/ (cur'[q] \in valid' /\ cur'[q] \notin dirty')
    BY <2>2, Waited
  <2> QED  BY <2>1, <2>3, <2>4, Queued, QueueKept, Zenon
<1>6. DataInv'
  BY <1>0, <1>s, <1>f DEF BioInv, DataInv, OneBuffer, NothingToDo, BioTypeOK
<1>7. PinInv'
  <2>1. InFlight \subseteq InFlight' \cup {b}
    BY <1>0, Zenon DEF InFlight, BioInv, BioTypeOK
  <2> QED  BY <1>f, <2>1, FewerPinned, Zenon DEF BioInv
<1>8. NoLostWakeup'
  BY <1>0, <1>s, <1>f, Zenon DEF BioInv, NoLostWakeup, InQueue, BioTypeOK
<1> QED  BY <1>1, <1>2, <1>3, <1>4, <1>5, <1>6, <1>7, <1>8, Zenon DEF BioInv

\* iderw sleeps: its request is still queued.
LEMMA Step_iderw_sleep ==
    ASSUME BioInv, NEW p \in Proc, bpc[p] = "io", ~Finished(cur[p]),
           bpc' = [bpc EXCEPT ![p] = "iosleep"],
           UNCHANGED <<bufs, queue, drive, disk, driver, cur, held, panic>>
    PROVE  BioInv'
<1> USE BioConstants DEF bufs, procs, Busy, Outside
<1>s. \A q \in Proc : Refs(q)' = Refs(q)
  BY Zenon DEF Refs
<1>c. InQueue(queue, cur[p])
  BY Zenon DEF BioInv, QueueInv
<1>1. BioTypeOK'
  BY <1>s, <1>c, Zenon DEF BioInv, BioTypeOK
<1>2. HoldInv'
  BY <1>s, <1>c DEF BioInv, HoldInv, BioTypeOK
<1>3. RefInv'
  BY <1>s, SameRefs, Zenon DEF BioInv
<1>4. ListInv'
  BY <1>s, <1>c, Zenon DEF BioInv, ListInv
<1>5. QueueInv'
  <2>1. \A q \in Proc : bpc'[q] = "io" => bpc[q] = "io"
    BY Zenon DEF BioInv, BioTypeOK
  <2>2. \A q \in Proc : bpc[q] \in {"io", "iosleep"} => bpc'[q] \in {"io", "iosleep"}
    BY Zenon DEF BioInv, BioTypeOK
  <2>3. \A q \in Proc : bpc'[q] = "io" =>
              InQueue(queue, cur'[q]) \/ (cur'[q] \in valid' /\ cur'[q] \notin dirty')
    BY <2>1, Waited, Zenon
  <2> QED  BY <2>2, <2>3, Queued, QueueKept, Zenon
<1>6. DataInv'
  BY <1>s, <1>c DEF BioInv, DataInv, OneBuffer, NothingToDo, BioTypeOK
<1>7. PinInv'
  <2>1. InFlight' = InFlight
    BY Zenon DEF InFlight, BioInv, BioTypeOK
  <2> QED  BY <2>1, FewerPinned, Zenon DEF BioInv
<1>8. NoLostWakeup'
  <2>1. \A q \in Proc \ {p} : bpc'[q] = bpc[q]
    BY Zenon DEF BioInv, BioTypeOK
  <2>2. bpc'[p] = "iosleep"
    BY Zenon DEF BioInv, BioTypeOK
  <2> QED  BY <1>c, <2>1, <2>2, Zenon DEF BioInv, NoLostWakeup
<1> QED  BY <1>1, <1>2, <1>3, <1>4, <1>5, <1>6, <1>7, <1>8, Zenon DEF BioInv

\* iderw leaves its loop only when the request is finished.
LEMMA Step_iderw_wait ==
    ASSUME BioInv, NEW p \in Proc, iderw_wait(p)
    PROVE  BioInv'
<1>1. CASE Finished(cur[p])
  BY <1>1, Step_iderw_return, Zenon DEF iderw_wait, Return
<1>2. CASE ~Finished(cur[p])
  BY <1>2, Step_iderw_sleep, Zenon DEF iderw_wait
<1> QED  BY <1>1, <1>2, Zenon

\* The memory disk.
LEMMA Step_iderw_mem ==
    ASSUME BioInv, NEW p \in Proc, iderw_mem(p)
    PROVE  BioInv'
<1> USE BioConstants DEF bufs, procs, Busy, Outside
<1>0. PICK b \in Buf : cur[p] = b /\ b \in held[p] /\ owner[b] = p
  BY DEF iderw_mem, BioInv, BioTypeOK, HoldInv
<1>r. ~NothingToDo(b) /\ bpc[p] = "iderw"
  BY <1>0, Zenon DEF iderw_mem, BioInv, DataInv
<1>k. blockno[b] \in Block
  <2>1. p \in Users(b)
    BY <1>0, Zenon DEF Users, Refs
  <2> QED  BY <2>1, Zenon DEF BioInv, BioTypeOK, RefInv
<1>e. /\ IF b \in dirty
         THEN disk' = [disk EXCEPT ![blockno[b]] = data[b]] /\ UNCHANGED data
         ELSE data' = [data EXCEPT ![b] = disk[blockno[b]]] /\ UNCHANGED disk
      /\ dirty' = dirty \ {b} /\ valid' = valid \cup {b}
      /\ bpc' = [bpc EXCEPT ![p] = "run"] /\ cur' = [cur EXCEPT ![p] = Nobody]
      /\ UNCHANGED <<lru, blockno, refcnt, owner, queue, drive, driver, held, panic>>
  BY <1>0, <1>r, Zenon DEF iderw_mem, Return
<1>s. \A q \in Proc : Refs(q)' = Refs(q)
  BY <1>0, <1>e DEF Refs, BioInv, BioTypeOK
<1>i. \A i \in 1..Len(queue) : queue[i] \in Buf \ {b} /\ owner[queue[i]] \in Proc \ {p}
  BY <1>0, <1>r, Queued, Zenon
<1>d. /\ data' \in [Buf -> BOOLEAN] /\ disk' \in [Block -> BOOLEAN]
      /\ data'[b] = TRUE /\ \A c \in Buf \ {b} : data'[c] = data[c]
      /\ disk'[blockno[b]] = TRUE /\ \A k \in Block \ {blockno[b]} : disk'[k] = disk[k]
  <2>0. data \in [Buf -> BOOLEAN] /\ disk \in [Block -> BOOLEAN]
    BY Zenon DEF BioInv, BioTypeOK
  <2>1. CASE b \in dirty
    <3>1. data[b] = TRUE
      BY <2>0, <2>1, Zenon DEF BioInv, DataInv
    <3> QED  BY <1>e, <1>k, <2>0, <2>1, <3>1, Zenon
  <2>2. CASE b \notin dirty
    <3>1. disk[blockno[b]] = TRUE
      <4>1. \A c \in dirty : blockno[c] # blockno[b]
        BY <1>k, <2>2 DEF BioInv, BioTypeOK, DataInv, OneBuffer
      <4> QED  BY <1>k, <2>0, <4>1, ZenonT(30) DEF BioInv, DataInv
    <3> QED  BY <1>e, <1>k, <2>0, <2>2, <3>1, Zenon
  <2> QED  BY <2>1, <2>2, Zenon
<1>t. /\ dirty' = dirty \ {b} /\ valid' = valid \cup {b}
      /\ bpc' = [bpc EXCEPT ![p] = "run"] /\ cur' = [cur EXCEPT ![p] = Nobody]
      /\ UNCHANGED <<lru, blockno, refcnt, owner, queue, drive, driver, held, panic>>
  BY <1>e, Zenon
<1>1. BioTypeOK'
  BY <1>t, <1>d DEF BioInv, BioTypeOK
<1>2. HoldInv'
  BY <1>0, <1>t, <1>s DEF BioInv, HoldInv, BioTypeOK
<1>3. RefInv'
  BY <1>t, <1>s, SameRefs, Zenon DEF BioInv
<1>4. ListInv'
  BY <1>0, <1>t, <1>s, Zenon DEF BioInv, ListInv
<1>5. QueueInv'
  <2>1. \A i \in 1..Len(queue) : queue[i] \in Buf \ {b} /\ owner[queue[i]] \in Proc \ {p}
    BY <1>i, Zenon
  <2>2. \A q \in Proc : bpc'[q] = "io" => /\ q # p /\ bpc[q] = "io" /\ cur'[q] = cur[q]
                                          /\ cur[q] \in Buf \ {b}
    BY <1>0, <1>t DEF BioInv, BioTypeOK, HoldInv
  <2>3. \A q \in Proc \ {p} : cur'[q] = cur[q] /\ bpc'[q] = bpc[q]
    BY <1>t, Zenon DEF BioInv, BioTypeOK
  <2>4. \A q \in Proc : bpc'[q] = "io" =>
              InQueue(queue, cur'[q]) \/ (cur'[q] \in valid' /\ cur'[q] \notin dirty')
    BY <2>2, <1>t, Waited
  <2> QED  BY <1>t, <1>d, <2>1, <2>3, <2>4, Queued, QueueKept, Zenon
<1>6. DataInv'
  <2>1. \A c \in valid' : data'[c] /\ blockno'[c] # Nobody
    BY <1>k, <1>t, <1>d DEF BioInv, BioTypeOK, DataInv
  <2>2. \A k \in Block : disk'[k] \/ \E c \in dirty' : blockno'[c] = k
    <3> SUFFICES ASSUME NEW k \in Block, ~disk'[k] PROVE \E c \in dirty' : blockno'[c] = k
      BY Zenon
    <3>1. k # blockno[b] /\ ~disk[k]
      BY <1>d, Zenon
    <3> QED  BY <1>t, <3>1, Zenon DEF BioInv, DataInv
  <2>3. \A q \in Proc : \A c \in held'[q] : c \in valid' \/ (c = cur'[q] /\ bpc'[q] \in Busy)
    BY <1>0, <1>t DEF BioInv, BioTypeOK, DataInv
  <2>4. \A q \in Proc : bpc'[q] = "iderw" => q # p /\ bpc[q] = "iderw" /\ cur'[q] = cur[q] /\ cur[q] # b
    BY <1>0, <1>t DEF BioInv, BioTypeOK, HoldInv
  <2>5. \A q \in Proc : bpc'[q] = "iderw" => cur'[q] \notin valid' \/ cur'[q] \in dirty'
    <3> TAKE q \in Proc
    <3>1. bpc[q] = "iderw" => cur[q] \notin valid \/ cur[q] \in dirty
      BY Zenon DEF BioInv, DataInv, NothingToDo
    <3> QED  BY <1>t, <2>4, <3>1
  <2> QED  BY <1>t, <2>1, <2>2, <2>3, <2>5, Zenon DEF BioInv, DataInv, OneBuffer, NothingToDo
<1>7. PinInv'
  <2>1. InFlight \subseteq InFlight' \cup {b}
    BY <1>0, <1>t, Zenon DEF InFlight, BioInv, BioTypeOK
  <2> QED  BY <1>t, <2>1, FewerPinned, Zenon DEF BioInv
<1>8. NoLostWakeup'
  BY <1>0, <1>t, <1>s, Zenon DEF BioInv, NoLostWakeup, InQueue, BioTypeOK
<1> QED  BY <1>1, <1>2, <1>3, <1>4, <1>5, <1>6, <1>7, <1>8, Zenon DEF BioInv

\* The interrupt: the request at the head of the queue is done.
LEMMA Step_ideintr ==
    ASSUME BioInv, ideintr
    PROVE  BioInv'
<1> USE BioConstants DEF bufs, procs, Busy, Outside
<1>q. queue \in Seq(Buf) /\ queue # <<>>
  BY Zenon DEF ideintr, BioInv, BioTypeOK, QueueInv, DriveMatchesQueue, idestart
<1>0. PICK b \in Buf, p \in Proc :
          b = queue[1] /\ b = Head(queue) /\ owner[b] = p /\ cur[p] = b /\ bpc[p] \in {"io", "iosleep"}
  <2>1. 1 \in 1..Len(queue) /\ Head(queue) = queue[1]
    BY <1>q
  <2> QED  BY <2>1, Queued, Zenon
<1>h. b \in held[p] /\ \A q \in Proc \ {p} : b \notin held[q]
  BY <1>0 DEF BioInv, HoldInv
<1>k. blockno[b] \in Block
  <2>1. p \in Users(b)
    BY <1>0, Zenon DEF Users, Refs
  <2> QED  BY <2>1, Zenon DEF BioInv, BioTypeOK, RefInv
<1>c. drive = [block |-> blockno[b], write |-> b \in dirty, data |-> data[b]]
  BY <1>0, <1>q, Zenon DEF BioInv, QueueInv, DriveMatchesQueue, idestart
<1>e. /\ disk' = IF b \in dirty THEN [disk EXCEPT ![blockno[b]] = data[b]] ELSE disk
      /\ data' = IF b \notin dirty THEN [data EXCEPT ![b] = disk[blockno[b]]] ELSE data
  <2>1. drive.block = blockno[b] /\ drive.data = data[b] /\ drive.write = (b \in dirty)
    BY <1>c, Zenon
  <2>2. /\ disk' = IF drive.write THEN [disk EXCEPT ![drive.block] = drive.data] ELSE disk
        /\ data' = IF b \notin dirty THEN [data EXCEPT ![b] = disk[drive.block]] ELSE data
    BY <1>0, Zenon DEF ideintr
  <2> QED  BY <2>1, <2>2, Zenon
<1>t. /\ dirty' = dirty \ {b} /\ valid' = valid \cup {b}
      /\ queue' = Tail(queue)
      /\ drive' = IF queue' = <<>> THEN Nobody
                  ELSE [block |-> blockno[Head(queue')], write |-> Head(queue') \in dirty,
                        data |-> data[Head(queue')]]
      /\ bpc' = [q \in Proc |-> IF bpc[q] = "iosleep" /\ cur[q] = b THEN "io" ELSE bpc[q]]
      /\ UNCHANGED <<lru, blockno, refcnt, owner, driver, cur, held, panic>>
  BY <1>0, Zenon DEF ideintr, NextRequest, idestart
<1>d. /\ data' \in [Buf -> BOOLEAN] /\ disk' \in [Block -> BOOLEAN]
      /\ data'[b] = TRUE /\ \A c \in Buf \ {b} : data'[c] = data[c]
      /\ disk'[blockno[b]] = TRUE /\ \A k \in Block \ {blockno[b]} : disk'[k] = disk[k]
  <2>0. data \in [Buf -> BOOLEAN] /\ disk \in [Block -> BOOLEAN]
    BY Zenon DEF BioInv, BioTypeOK
  <2>1. CASE b \in dirty
    <3>1. data[b] = TRUE
      BY <2>0, <2>1, Zenon DEF BioInv, DataInv
    <3> QED  BY <1>e, <1>k, <2>0, <2>1, <3>1, Zenon
  <2>2. CASE b \notin dirty
    <3>1. disk[blockno[b]] = TRUE
      <4>1. \A c \in dirty : blockno[c] # blockno[b]
        BY <1>k, <2>2 DEF BioInv, BioTypeOK, DataInv, OneBuffer
      <4> QED  BY <1>k, <2>0, <4>1, ZenonT(30) DEF BioInv, DataInv
    <3> QED  BY <1>e, <1>k, <2>0, <2>2, <3>1, Zenon
  <2> QED  BY <2>1, <2>2, Zenon
<1>i. /\ queue' \in Seq(Buf) /\ Len(queue') = Len(queue) - 1
      /\ \A i \in 1..Len(queue') : /\ i + 1 \in 1..Len(queue) /\ queue'[i] = queue[i + 1]
                                   /\ queue'[i] \in Buf \ {b}
  <2>1. queue' \in Seq(Buf) /\ Len(queue') = Len(queue) - 1 /\ Len(queue) \in Nat \ {0}
    BY <1>q, <1>t
  <2>2. \A i \in 1..Len(queue') : i + 1 \in 1..Len(queue) /\ queue'[i] = queue[i + 1] /\ i + 1 # 1
    BY <1>q, <1>t, <2>1
  <2>3. \A i \in 1..Len(queue) : i # 1 => queue[i] # b
    BY <1>0, <1>q DEF BioInv, QueueInv
  <2> QED  BY <2>1, <2>2, <2>3
<1>s. \A q \in Proc : Refs(q)' = Refs(q)
  BY <1>t, Zenon DEF Refs
<1>j. \A c \in Buf \ {b} : InQueue(queue, c) => InQueue(queue', c)
  <2> SUFFICES ASSUME NEW c \in Buf \ {b}, NEW i \in 1..Len(queue), queue[i] = c
               PROVE  \E j \in 1..Len(queue') : queue'[j] = c
    BY Zenon DEF InQueue
  <2>1. i - 1 \in 1..Len(queue')
    BY <1>0, <1>i, <1>q
  <2>2. queue'[i - 1] = queue[(i - 1) + 1] /\ (i - 1) + 1 = i
    BY <1>i, <2>1
  <2> QED  BY <2>1, <2>2, Zenon
<1>w. \A q \in Proc : /\ bpc'[q] = bpc[q] \/ (bpc[q] = "iosleep" /\ bpc'[q] = "io" /\ cur[q] = b)
                      /\ bpc'[q] = "iosleep" => cur[q] # b
  BY <1>t, Zenon DEF BioInv, BioTypeOK
<1>1. BioTypeOK'
  BY <1>t, <1>d, <1>i, <1>w DEF BioInv, BioTypeOK
<1>2. HoldInv'
  <2>1. \A q \in Proc, c \in Buf : c \in held'[q] <=> owner'[c] = q
    BY <1>t, Zenon DEF BioInv, HoldInv
  <2>2. \A q \in Proc : /\ bpc'[q] = "run" <=> bpc[q] = "run"
                        /\ bpc'[q] \in Outside <=> bpc[q] \in Outside
                        /\ bpc'[q] \in Busy <=> bpc[q] \in Busy
    BY <1>w, Zenon
  <2>3. \A q \in Proc : /\ bpc'[q] = "run" <=> cur'[q] = Nobody
                        /\ bpc'[q] \in Outside => cur'[q] \notin held'[q]
                        /\ bpc'[q] \in Busy => cur'[q] \in held'[q]
    <3> HIDE DEF Busy, Outside
    <3> QED  BY <1>t, <2>2, Zenon DEF BioInv, HoldInv
  <2>4. \A q \in Proc : Cardinality(Refs(q)') <= MAXHELD
    BY <1>s, Zenon DEF BioInv, HoldInv
  <2> QED  BY <2>1, <2>3, <2>4, Zenon DEF HoldInv
<1>3. RefInv'
  BY <1>t, <1>s, SameRefs, Zenon DEF BioInv
<1>4. ListInv'
  BY <1>0, <1>t, <1>s, Zenon DEF BioInv, ListInv
<1>5. QueueInv'
  <2>1. QueuedIsLocked'
    <3> SUFFICES ASSUME NEW i \in 1..Len(queue')
                 PROVE  /\ owner[queue'[i]] \in Proc /\ cur[owner[queue'[i]]] = queue'[i]
                        /\ bpc'[owner[queue'[i]]] \in {"io", "iosleep"}
      BY <1>t, Zenon DEF QueuedIsLocked
    <3>1. i + 1 \in 1..Len(queue) /\ queue'[i] = queue[i + 1]
      BY <1>i, Zenon
    <3>2. PICK q \in Proc : owner[queue'[i]] = q /\ cur[q] = queue'[i] /\ bpc[q] \in {"io", "iosleep"}
      BY <3>1, Queued
    <3>3. bpc'[q] \in {"io", "iosleep"}
      BY <1>w, <3>2, Zenon
    <3> QED  BY <3>2, <3>3, Zenon
  <2>2. DriveMatchesQueue'
    <3>1. CASE queue' = <<>>
      BY <1>t, <3>1, Zenon DEF DriveMatchesQueue, idestart
    <3>2. CASE queue' # <<>>
      <4>1. Head(queue') \in Buf \ {b}
        BY <1>i, <3>2
      <4>2. /\ blockno'[Head(queue')] = blockno[Head(queue')]
            /\ data'[Head(queue')] = data[Head(queue')]
            /\ Head(queue') \in dirty' <=> Head(queue') \in dirty
        BY <1>d, <1>t, <4>1, Zenon
      <4> QED  BY <1>t, <3>2, <4>2 DEF DriveMatchesQueue, idestart
    <3> QED  BY <3>1, <3>2, Zenon
  <2>3. \A i, j \in 1..Len(queue') : queue'[i] = queue'[j] => i = j
    <3> SUFFICES ASSUME NEW i \in 1..Len(queue'), NEW j \in 1..Len(queue'), queue'[i] = queue'[j]
                 PROVE  i = j
      BY Zenon
    <3>1. i + 1 = j + 1
      BY <1>i, Zenon DEF BioInv, QueueInv
    <3> QED  BY <3>1
  <2>4. \A i \in 1..Len(queue') : ~(queue'[i] \in valid' /\ queue'[i] \notin dirty')
    BY <1>i, <1>t, Zenon DEF BioInv, QueueInv, Finished, NothingToDo
  <2>5. \A q \in Proc : bpc'[q] = "io" =>
              InQueue(queue', cur'[q]) \/ (cur'[q] \in valid' /\ cur'[q] \notin dirty')
    <3> SUFFICES ASSUME NEW q \in Proc, bpc'[q] = "io", cur[q] # b
                 PROVE  InQueue(queue', cur[q]) \/ (cur[q] \in valid' /\ cur[q] \notin dirty')
      BY <1>t, Zenon
    <3>1. bpc[q] = "io" /\ cur[q] \in Buf \ {b}
      BY <1>w, Zenon DEF BioInv, BioTypeOK, HoldInv
    <3> QED  BY <1>j, <1>t, <3>1, Zenon DEF BioInv, QueueInv, Finished, NothingToDo
  <2> QED  BY <2>1, <2>2, <2>3, <2>4, <2>5, Zenon DEF QueueInv, Finished, NothingToDo, InQueue
<1>6. DataInv'
  <2>1. \A c \in valid' : data'[c] /\ blockno'[c] # Nobody
    BY <1>k, <1>t, <1>d DEF BioInv, BioTypeOK, DataInv
  <2>2. \A k \in Block : disk'[k] \/ \E c \in dirty' : blockno'[c] = k
    <3> SUFFICES ASSUME NEW k \in Block, ~disk'[k] PROVE \E c \in dirty' : blockno'[c] = k
      BY Zenon
    <3>1. k # blockno[b] /\ ~disk[k]
      BY <1>d, Zenon
    <3> QED  BY <1>t, <3>1, Zenon DEF BioInv, DataInv
  <2>3. \A q \in Proc : \A c \in held'[q] : c \in valid' \/ (c = cur'[q] /\ bpc'[q] \in Busy)
    BY <1>t, <1>w, Zenon DEF BioInv, DataInv
  <2>4. \A q \in Proc : bpc'[q] = "iderw" => bpc[q] = "iderw" /\ cur'[q] = cur[q] /\ cur[q] # b
    <3>1. \A q \in Proc : bpc[q] = "iderw" => cur[q] \in held[q]
      BY Zenon DEF BioInv, HoldInv
    <3> QED  BY <1>0, <1>h, <1>t, <3>1, Zenon
  <2>5. \A q \in Proc : bpc'[q] = "iderw" => cur'[q] \notin valid' \/ cur'[q] \in dirty'
    <3> TAKE q \in Proc
    <3>1. bpc[q] = "iderw" => cur[q] \notin valid \/ cur[q] \in dirty
      BY Zenon DEF BioInv, DataInv, NothingToDo
    <3> QED  BY <1>t, <2>4, <3>1, Zenon
  <2> QED  BY <1>t, <2>1, <2>2, <2>3, <2>5, Zenon DEF BioInv, DataInv, OneBuffer, NothingToDo
<1>7. PinInv'
  <2>1. InFlight' = InFlight
    BY <1>t, <1>w, Zenon DEF InFlight
  <2> QED  BY <1>t, <2>1, FewerPinned, Zenon DEF BioInv
<1>8. NoLostWakeup'
  <2>1. \A q \in Proc : bpc'[q] = "locksleep" => owner'[cur'[q]] # Nobody
    BY <1>t, <1>w, Zenon DEF BioInv, NoLostWakeup
  <2>2. \A q \in Proc : bpc'[q] = "iosleep" => bpc[q] = "iosleep" /\ cur[q] \in Buf \ {b}
    BY <1>w, Zenon DEF BioInv, BioTypeOK, HoldInv
  <2>3. \A q \in Proc : bpc'[q] = "iosleep" => InQueue(queue', cur'[q])
    BY <1>j, <1>t, <2>2, Zenon DEF BioInv, NoLostWakeup
  <2> QED  BY <2>1, <2>3, Zenon DEF NoLostWakeup, InQueue
<1> QED  BY <1>1, <1>2, <1>3, <1>4, <1>5, <1>6, <1>7, <1>8, Zenon DEF BioInv

\* A step that leaves the cache, the queue and the disk alone: a stuttering one,
\* or a panic.
LEMMA Step_same ==
    ASSUME BioInv, UNCHANGED <<bufs, queue, drive, disk, driver, procs>>
    PROVE  BioInv'
<1> USE DEF bufs, procs
<1>r. /\ \A p \in Proc : Refs(p)' = Refs(p) /\ \A b \in Buf : Users(b)' = Users(b)
      /\ InFlight' = InFlight
  BY Zenon DEF Refs, Users, InFlight
<1>1. BioTypeOK' /\ ListInv'
  BY Zenon DEF BioInv, BioTypeOK, ListInv
<1>2. HoldInv'
  BY <1>r, Zenon DEF BioInv, HoldInv
<1>3. RefInv'
  BY <1>r, SameRefs, Zenon DEF BioInv
<1>4. QueueInv'
  BY Zenon DEF BioInv, QueueInv, QueuedIsLocked, DriveMatchesQueue, idestart, InQueue, Finished,
         NothingToDo
<1>5. DataInv'
  BY Zenon DEF BioInv, DataInv, OneBuffer, NothingToDo
<1>6. PinInv' /\ NoLostWakeup'
  BY <1>r, Zenon DEF BioInv, PinInv, NoLostWakeup, InQueue
<1> QED  BY <1>1, <1>2, <1>3, <1>4, <1>5, <1>6, Zenon DEF BioInv

\* bget finds the block, recycles a buffer nobody wants, or panics.
LEMMA Step_bget ==
    ASSUME BioInv, NEW p \in Proc, NEW k \in Block, bget(p, k)
    PROVE  BioInv'
<1>1. CASE Cached(k) # {}
  BY <1>1, Step_bget_cached, Zenon DEF bget, Cached
<1>2. CASE Cached(k) = {} /\ Recyclable = {}
  BY <1>2, Step_same, Zenon DEF bget, bufs, procs
<1>3. CASE Cached(k) = {} /\ Recyclable # {}
  <2>2. PICK b \in Buf : b = Oldest(Recyclable) /\ refcnt[b] = 0 /\ b \notin dirty
    <3>1. Recyclable \in SUBSET Buf
      BY Zenon DEF Recyclable
    <3>2. Oldest(Recyclable) \in Recyclable
      BY <1>3, <3>1, OldestIn, Zenon DEF BioInv
    <3> QED  BY <3>2, Zenon DEF Recyclable
  <2> QED  BY <1>3, <2>2, Step_bget_recycle, Zenon DEF bget
<1> QED  BY <1>1, <1>2, <1>3, Zenon

\* binit leaves the invariant true ...
LEMMA InitBioInv ==
    ASSUME BioInit
    PROVE  BioInv
<1> USE BioConstants DEF BioInit
<1>r. \A p \in Proc : Refs(p) = {}
  BY Zenon DEF Refs
<1>u. \A b \in Buf : Users(b) = {}
  BY <1>r, Zenon DEF Users
<1>c. Cardinality({}) = 0
  BY FS_EmptySet, Zenon
<1>1. BioTypeOK
  BY DEF BioTypeOK, Buf
<1>2. HoldInv
  <2>1. ASSUME NEW p \in Proc PROVE Cardinality(Refs(p)) <= MAXHELD
    <3>1. Refs(p) = {}
      BY <1>r, Zenon
    <3>2. Cardinality(Refs(p)) = 0
      BY <1>c, <3>1, Zenon
    <3>3. 0 <= MAXHELD
      OBVIOUS
    <3> QED  BY <3>2, <3>3, Zenon
  <2>2. \A p \in Proc, b \in Buf : b \in held[p] <=> owner[b] = p
    BY Zenon
  <2> QED  BY <2>1, <2>2, Zenon DEF HoldInv, Busy, Outside
<1>3. RefInv
  BY <1>u, <1>c, Zenon DEF RefInv
<1>4. ListInv
  <2> SUFFICES ASSUME NEW b \in Buf PROVE \E i \in Buf : lru[i] = b
    BY Zenon DEF ListInv
  <2>1. NBUF + 1 - b \in Buf /\ lru[NBUF + 1 - b] = b
    BY DEF Buf
  <2> QED  BY <2>1, Zenon
<1>5. QueueInv
  BY DEF QueueInv, QueuedIsLocked, DriveMatchesQueue, idestart
<1>6. DataInv
  BY Zenon DEF DataInv, OneBuffer
<1>7. PinInv
  <2>1. dirty \ InFlight = {}
    BY Zenon
  <2> QED  BY <2>1, <1>c DEF PinInv
<1>8. NoLostWakeup
  BY Zenon DEF NoLostWakeup
<1> QED  BY <1>1, <1>2, <1>3, <1>4, <1>5, <1>6, <1>7, <1>8, Zenon DEF BioInv

\* ... and every step keeps it.
LEMMA NextBioInv ==
    ASSUME BioInv, [BioNext]_bioVars
    PROVE  BioInv'
<1>1. ASSUME NEW p \in Proc, Use(p) PROVE BioInv'
  BY <1>1, Step_bget, Step_bwrite, Step_log_write, Zenon DEF Use
<1>2. ASSUME NEW p \in Proc, Finish(p) PROVE BioInv'
  BY <1>2, Step_acquiresleep, Step_iderw, Step_iderw_wait, Step_iderw_mem, Step_brelse, Zenon DEF Finish
<1>3. ASSUME NEW p \in Proc, kill(p) PROVE BioInv'
  BY <1>3, Step_kill, Zenon
<1>4. ASSUME NEW p \in Proc, NEW b \in Buf, releasesleep(p, b) PROVE BioInv'
  BY <1>4, Step_releasesleep, Zenon
<1>5. CASE ideintr
  BY <1>5, Step_ideintr, Zenon
<1>6. CASE UNCHANGED bioVars
  BY <1>6, Step_same, Zenon DEF bioVars
<1> QED  BY <1>1, <1>2, <1>3, <1>4, <1>5, <1>6, Zenon DEF BioNext
-----------------------------------------------------------------------------
(* The theorems: for any number of processes, blocks and buffers. *)

\* The invariant holds in every reachable state.
THEOREM BioInvariant == BioSpec => []BioInv
<1> QED  BY InitBioInv, NextBioInv, PTL DEF BioSpec

\* bget never caches a block twice (bio.c:60-93), although it gives up
\* bcache.lock before it sleeps for the buffer it has found.
THEOREM BlockCachedOnce == BioSpec => []OneBuffer
<1>1. BioInv => OneBuffer
  BY Zenon DEF BioInv, DataInv
<1> QED  BY <1>1, BioInvariant, PTL

\* Whoever comes out of bread (bio.c:97-107) has the contents that were last
\* stored into the block, in the cache, on the disk or on the way between them.
THEOREM ReaderSeesLatest == BioSpec => []ReadsLatest
<1>1. BioInv => ReadsLatest
  BY Zenon DEF BioInv, DataInv, ReadsLatest, Busy
<1> QED  BY <1>1, BioInvariant, PTL

\* Nobody sleeps in acquiresleep on a free buffer, or in iderw on a request
\* that is no longer queued.
THEOREM BioWakeupNotLost == BioSpec => []NoLostWakeup
<1>1. BioInv => NoLostWakeup
  BY Zenon DEF BioInv
<1> QED  BY <1>1, BioInvariant, PTL

\* The controller is always busy with the head of idequeue (ide.c:76-134), and
\* every queued buffer is locked by a process that waits for it in iderw.
THEOREM DriveFollowsQueue == BioSpec => [](DriveMatchesQueue /\ QueuedIsLocked)
<1>1. BioInv => DriveMatchesQueue /\ QueuedIsLocked
  BY Zenon DEF BioInv, QueueInv
<1> QED  BY <1>1, BioInvariant, PTL

\* The panics of iderw (ide.c:142-145) are out of reach: whoever gets there holds
\* the buffer, and it has something to read or to write.  The one panic of the
\* cache is that of bget (bio.c:92), with every buffer referenced or pinned.
THEOREM OnlyFullCachePanics == BioSpec => OnlyBgetPanics
<1>1. ASSUME BioInv, [BioNext]_bioVars PROVE [panic' = panic \/ Recyclable = {}]_bioVars
  <2>1. ASSUME NEW p \in Proc, NEW k \in Block, bget(p, k)
        PROVE  panic' = panic \/ Recyclable = {}
    BY <2>1, Zenon DEF bget
  <2>2. ASSUME NEW p \in Proc, iderw(p) \/ iderw_mem(p) PROVE panic' = panic
    <3>1. bpc[p] = "iderw" /\ cur[p] \in held[p] /\ ~NothingToDo(cur[p])
      BY <1>1, <2>2, Zenon DEF iderw, iderw_mem, BioInv, HoldInv, DataInv, Busy
    <3>2. owner[cur[p]] = p
      BY <1>1, <3>1, Zenon DEF BioInv, BioTypeOK, HoldInv
    <3> QED  BY <2>2, <3>1, <3>2, Zenon DEF iderw, iderw_mem
  <2>3. ASSUME NEW p \in Proc,
               acquiresleep(p) \/ iderw_wait(p) \/ brelse(p) \/ kill(p)
        PROVE  panic' = panic
    BY <2>3, Zenon DEF acquiresleep, iderw_wait, brelse, kill
  <2>4. ASSUME NEW p \in Proc, NEW b \in Buf,
               bwrite(p, b) \/ log_write(p, b) \/ releasesleep(p, b)
        PROVE  panic' = panic
    BY <2>4, Zenon DEF bwrite, log_write, releasesleep
  <2>5. ASSUME ideintr PROVE panic' = panic
    BY <2>5, Zenon DEF ideintr
  <2> QED  BY <1>1, <2>1, <2>2, <2>3, <2>4, <2>5, Zenon DEF BioNext, Use, Finish
<1> QED  BY <1>1, BioInvariant, PTL DEF BioSpec, OnlyBgetPanics
=============================================================================

----------------------------- MODULE RingProofs -----------------------------
(***************************************************************************)
(* Proofs about the circular buffers: the pipe of xv6, whose counters wrap *)
(* and which implements a bounded queue; the console of xv6 with its line  *)
(* editor and its readers; and the input buffer of JOS.  They hold for any *)
(* size of the buffers and any number of users.                            *)
(***************************************************************************)
EXTENDS XvPipe, XvConsole, PcConsole, WellFoundedInduction, TLAPS

\* The provers of the leaves that do not name their own, in the order of the trials.
USE SMTT(30), SMTT(60), Zenon

(* Sequences. *)

LEMMA SameElements ==
    ASSUME NEW S, NEW u \in Seq(S), NEW v \in Seq(S),
           Len(u) = Len(v), \A i \in 1..Len(u) : u[i] = v[i]
    PROVE  u = v
OBVIOUS

LEMMA ConcatEmpty ==
    ASSUME NEW S, NEW u \in Seq(S)
    PROVE  u \o <<>> = u
OBVIOUS

LEMMA SubSeqIs ==
    ASSUME NEW S, NEW u, NEW j \in Int, NEW k \in Int, \A i \in j..k : u[i] \in S
    PROVE  /\ SubSeq(u, j, k) \in Seq(S)
           /\ Len(SubSeq(u, j, k)) = IF j <= k THEN k - j + 1 ELSE 0
           /\ \A i \in 1..k-j+1 : SubSeq(u, j, k)[i] = u[j + i - 1]
OBVIOUS
-----------------------------------------------------------------------------
(* Remainders. *)

\* Quotient and remainder, with the quotient as a witness.
LEMMA DivMod ==
    ASSUME NEW m \in Nat \ {0}, NEW x \in Int
    PROVE  \E k \in Int : x = m * k + (x % m) /\ x % m \in 0..m-1
<1>1. x = m * (x \div m) + (x % m) /\ x % m \in 0..m-1 /\ x \div m \in Int
  OBVIOUS
<1> QED  BY <1>1, Zenon

\* A remainder is recognised by its range.
LEMMA ModIs ==
    ASSUME NEW m \in Nat \ {0}, NEW k \in Int, NEW r \in 0..m-1
    PROVE  (m * k + r) % m = r
OBVIOUS

\* Zero is the only multiple of m within m of zero.
LEMMA MultipleZero ==
    ASSUME NEW m \in Nat \ {0}, NEW k \in Int, -m < m * k, m * k < m
    PROVE  m * k = 0
OBVIOUS

\* Whole turns do not matter.
LEMMA ModTurns ==
    ASSUME NEW m \in Nat \ {0}, NEW x \in Int, NEW k \in Int
    PROVE  (m * k + x) % m = x % m
<1>1. PICK j \in Int : x = m * j + (x % m) /\ x % m \in 0..m-1
  BY DivMod, Zenon
<1> DEFINE r == x % m
<1>2. m * k + x = m * (k + j) + r
  BY <1>1
<1>3. k + j \in Int /\ r \in 0..m-1
  BY <1>1
<1> HIDE DEF r
<1>4. (m * (k + j) + r) % m = r
  BY <1>3, ModIs, Zenon
<1> QED  BY <1>2, <1>4, Zenon DEF r

\* Two numbers less than m apart have different remainders.
LEMMA ModApart ==
    ASSUME NEW m \in Nat \ {0}, NEW x \in Int, NEW y \in Int, x % m = y % m,
           x - y < m, y - x < m
    PROVE  x = y
<1>1. PICK j \in Int : x = m * j + (x % m) /\ x % m \in 0..m-1
  BY DivMod, Zenon
<1>2. PICK k \in Int : y = m * k + (y % m) /\ y % m \in 0..m-1
  BY DivMod, Zenon
<1>3. x - y = m * j - m * k
  BY <1>1, <1>2
<1>4. m * j - m * k = m * (j - k) /\ j - k \in Int /\ m * (j - k) \in Int
  OBVIOUS
<1>5. m * (j - k) = 0
  BY <1>3, <1>4, MultipleZero
<1> QED  BY <1>3, <1>4, <1>5

\* A remainder modulo a multiple of m does not disturb the remainder modulo m.
LEMMA NestedMod ==
    ASSUME NEW m \in Nat \ {0}, NEW n \in Nat \ {0}, n % m = 0, NEW x \in Int
    PROVE  (x % n) % m = x % m
<1>1. PICK k \in Int : x = n * k + (x % n) /\ x % n \in 0..n-1
  BY DivMod, Zenon
<1>2. PICK j \in Int : n = m * j
  <2>1. n \in Int
    OBVIOUS
  <2>2. PICK j \in Int : n = m * j + (n % m)
    BY <2>1, DivMod, Zenon
  <2> QED  BY <2>2
<1> DEFINE r == x % n
<1>3. r \in Int /\ j * k \in Int
  BY <1>1
<1>4. x = m * (j * k) + r
  <2>1. n * k = m * (j * k)
    BY <1>2
  <2> QED  BY <1>1, <2>1, Zenon
<1> HIDE DEF r
<1>5. (m * (j * k) + r) % m = r % m
  BY <1>3, ModTurns, Zenon
<1> QED  BY <1>4, <1>5, Zenon DEF r

\* A remainder may be taken before an addition.
LEMMA AddMod ==
    ASSUME NEW n \in Nat \ {0}, NEW x \in Int, NEW y \in Int
    PROVE  ((x % n) + y) % n = (x + y) % n
<1> DEFINE r == x % n
<1>1. PICK k \in Int : x = n * k + r /\ r \in 0..n-1
  BY DivMod, Zenon
<1> HIDE DEF r
<1>2. x + y = n * k + (r + y) /\ r + y \in Int
  BY <1>1
<1>3. (n * k + (r + y)) % n = (r + y) % n
  BY <1>2, ModTurns, Zenon
<1> QED  BY <1>2, <1>3, Zenon DEF r

\* Distances in a ring of m places.
LEMMA DistFrom ==
    ASSUME NEW m \in Nat \ {0}, NEW a \in 0..m-1, NEW b \in 0..m-1
    PROVE  b = (a + ((b - a) % m)) % m
<1> DEFINE s == (b - a) % m
<1>1. PICK k \in Int : b - a = m * k + s /\ s \in 0..m-1
  <2>1. b - a \in Int
    OBVIOUS
  <2> QED  BY <2>1, DivMod, Zenon
<1> HIDE DEF s
<1>2. a + s = m * (-k) + b /\ -k \in Int
  BY <1>1
<1>3. (m * (-k) + b) % m = b
  BY <1>2, ModIs, Zenon
<1> QED  BY <1>2, <1>3, Zenon DEF s

LEMMA DistOf ==
    ASSUME NEW m \in Nat \ {0}, NEW a \in Int, NEW i \in Int, NEW j \in Int, i <= j, j - i < m
    PROVE  (((a + j) % m) - ((a + i) % m)) % m = j - i
<1>u. a + i \in Int /\ a + j \in Int
  OBVIOUS
<1> DEFINE x == (a + i) % m
           y == (a + j) % m
<1>1. PICK k \in Int : a + i = m * k + x /\ x \in 0..m-1
  BY <1>u, DivMod, Zenon
<1>2. PICK l \in Int : a + j = m * l + y /\ y \in 0..m-1
  BY <1>u, DivMod, Zenon
<1> HIDE DEF x, y
<1>3. y - x = m * (k - l) + (j - i) /\ k - l \in Int /\ j - i \in 0..m-1
  BY <1>u, <1>1, <1>2
<1>4. (m * (k - l) + (j - i)) % m = j - i
  BY <1>3, ModIs, Zenon
<1> QED  BY <1>3, <1>4, Zenon DEF x, y

-----------------------------------------------------------------------------
(* The pipe. *)

\* Who may be inside a call, and with what to do.
CallInv ==
    /\ \A u \in User : upc[u] # "idle" => u \in holders /\ todo[u] > 0
    /\ writeopen = 1 <=> Writers \cap holders # {}
    /\ readopen = 1 <=> Readers \cap holders # {}
    /\ freed <=> holders = {}

\* Nobody goes to sleep without a reason; pipe.lock keeps the reason true.
ReasonInv ==
    \A u \in User : upc[u] = "tosleep" =>
        IF u \in Writers THEN Full /\ readopen = 1 ELSE writeopen = 1 /\ Empty

PipeInv ==
    /\ PipeTypeOK /\ Used <= PIPESIZE
    /\ CallInv /\ ReasonInv /\ PipeNoLostWakeup /\ EofIsFinal
-----------------------------------------------------------------------------
(* Arithmetic modulo WRAP and PIPESIZE. *)

\* DivMod for the counters, which count modulo WRAP.
LEMMA DivWrap ==
    ASSUME NEW x \in Int
    PROVE  \E k \in Int : x = WRAP * k + (x % WRAP) /\ x % WRAP \in 0..WRAP-1
<1>1. WRAP \in Nat \ {0}
  BY PipeConstants
<1> QED  BY <1>1, DivMod, Zenon

\* The wrap of the counters does not disturb the index into the ring.
LEMMA RingIndex ==
    ASSUME NEW x \in Int
    PROVE  (x % WRAP) % PIPESIZE = x % PIPESIZE
<1> USE PipeConstants
<1>1. PICK k \in Int : x = WRAP * k + (x % WRAP) /\ x % WRAP \in 0..WRAP-1
  BY DivWrap, Zenon
<1>2. PICK j \in Int : WRAP = PIPESIZE * j
  <2>1. WRAP \in Int
    OBVIOUS
  <2>2. PICK j \in Int : WRAP = PIPESIZE * j + (WRAP % PIPESIZE)
    BY <2>1, DivMod, Zenon
  <2> QED  BY <2>2
<1> DEFINE r == x % WRAP
<1>3. r \in Int /\ j * k \in Int
  BY <1>1
<1>4. x = PIPESIZE * (j * k) + r
  <2>1. WRAP * k = PIPESIZE * (j * k)
    BY <1>2
  <2> QED  BY <1>1, <2>1, Zenon
<1> HIDE DEF r
<1>5. (PIPESIZE * (j * k) + r) % PIPESIZE = r % PIPESIZE
  BY <1>3, ModTurns, Zenon
<1> QED  BY <1>4, <1>5, Zenon DEF r

\* What the counters say, as long as at most PIPESIZE bytes are in the pipe.
LEMMA Counters ==
    ASSUME PipeTypeOK, Used <= PIPESIZE
    PROVE  /\ Used \in 0..PIPESIZE
           /\ Room = PIPESIZE - Used
           /\ Full <=> Used = PIPESIZE
           /\ Empty <=> Used = 0
           /\ \A k \in Int : (nwrite + k) % PIPESIZE = (nread + Used + k) % PIPESIZE
<1> USE PipeConstants
<1>0. nread \in 0..WRAP-1 /\ nwrite \in 0..WRAP-1
  BY Zenon DEF PipeTypeOK
<1>1. PICK t \in Int : nwrite - nread = WRAP * t + Used /\ Used \in 0..WRAP-1
  <2>1. nwrite - nread \in Int
    BY <1>0
  <2> QED  BY <2>1, DivWrap, Zenon DEF Used
<1>2. Used \in 0..PIPESIZE
  BY <1>1
<1> HIDE DEF Used
<1>3. Room = PIPESIZE - Used
  <2>1. nread + PIPESIZE - nwrite = WRAP * (-t) + (PIPESIZE - Used)
    BY <1>0, <1>1, <1>2
  <2>2. -t \in Int /\ PIPESIZE - Used \in 0..WRAP-1
    BY <1>2
  <2> QED  BY <2>1, <2>2, ModIs DEF Room
<1>4. Used = PIPESIZE => Full
  <2> SUFFICES ASSUME Used = PIPESIZE PROVE Full
    BY Zenon
  <2>1. nread + PIPESIZE = WRAP * (-t) + nwrite /\ -t \in Int
    BY <1>0, <1>1
  <2> QED  BY <1>0, <2>1, ModIs DEF Full
<1>5. Full => Used = PIPESIZE
  <2> SUFFICES ASSUME Full PROVE Used = PIPESIZE
    BY Zenon
  <2>1. PICK j \in Int : nread + PIPESIZE = WRAP * j + nwrite
    <3>1. nread + PIPESIZE \in Int
      BY <1>0
    <3> QED  BY <3>1, DivWrap, Zenon DEF Full
  <2>2. nwrite - nread = WRAP * (-j) + PIPESIZE /\ -j \in Int /\ PIPESIZE \in 0..WRAP-1
    BY <1>0, <2>1
  <2> QED  BY <2>2, ModIs DEF Used
<1>6. Empty => Used = 0
  <2> SUFFICES ASSUME Empty PROVE Used = 0
    BY Zenon
  <2>1. nwrite - nread = WRAP * 0 + 0 /\ 0 \in 0..WRAP-1
    BY <1>0 DEF Empty
  <2> QED  BY <2>1, ModIs DEF Used
<1>7. Used = 0 => Empty
  <2> SUFFICES ASSUME Used = 0 PROVE Empty
    BY Zenon
  <2>1. nwrite - nread = WRAP * t
    BY <1>0, <1>1
  <2>2. -WRAP < WRAP * t /\ WRAP * t < WRAP
    BY <1>0, <2>1
  <2>3. WRAP * t = 0
    BY <2>2, MultipleZero
  <2> QED  BY <1>0, <2>1, <2>3 DEF Empty
<1>8. ASSUME NEW k \in Int PROVE (nwrite + k) % PIPESIZE = (nread + Used + k) % PIPESIZE
  <2>1. nwrite + k = WRAP * t + (nread + Used + k) /\ nread + Used + k \in Int
    BY <1>0, <1>1, <1>2
  <2>2. (nwrite + k) % WRAP = (nread + Used + k) % WRAP
    <3>1. WRAP \in Nat \ {0}
      OBVIOUS
    <3> QED  BY <2>1, <3>1, ModTurns, Zenon
  <2>3. ((nwrite + k) % WRAP) % PIPESIZE = ((nread + Used + k) % WRAP) % PIPESIZE
    BY <2>2, Zenon
  <2>4. nwrite + k \in Int
    BY <1>0
  <2> QED  BY <2>1, <2>3, <2>4, RingIndex, Zenon
<1> QED  BY <1>2, <1>3, <1>4, <1>5, <1>6, <1>7, <1>8, Zenon

\* Adding n to nwrite, or to nread, changes the number of bytes by n.
LEMMA UsedAfterWrite ==
    ASSUME PipeTypeOK, Used <= PIPESIZE, NEW n \in 0..PIPESIZE - Used,
           nwrite' = (nwrite + n) % WRAP, nread' = nread
    PROVE  nwrite' \in 0..WRAP-1 /\ Used' = Used + n
<1> USE PipeConstants
<1>0. nread \in 0..WRAP-1 /\ nwrite \in 0..WRAP-1 /\ n \in Nat
  BY Counters DEF PipeTypeOK
<1>1. PICK t \in Int : nwrite - nread = WRAP * t + Used /\ Used \in 0..PIPESIZE
  <2>1. nwrite - nread \in Int
    BY <1>0
  <2>2. Used \in 0..PIPESIZE
    BY Counters, Zenon
  <2> QED  BY <2>1, <2>2, DivWrap, Zenon DEF Used
<1>2. PICK j \in Int : nwrite + n = WRAP * j + nwrite' /\ nwrite' \in 0..WRAP-1
  <2>1. nwrite + n \in Int
    BY <1>0
  <2> QED  BY <2>1, DivWrap, Zenon
<1>3. nwrite' - nread = WRAP * (t - j) + (Used + n) /\ t - j \in Int
  BY <1>0, <1>1, <1>2
<1>4. Used + n \in 0..WRAP-1
  BY <1>0, <1>1
<1>5. (nwrite' - nread) % WRAP = Used + n
  BY <1>3, <1>4, ModIs
<1> QED  BY <1>2, <1>5, Zenon DEF Used

\* piperead takes n bytes away, whether or not nread wraps.
LEMMA UsedAfterRead ==
    ASSUME PipeTypeOK, Used <= PIPESIZE, NEW n \in 0..Used,
           nread' = (nread + n) % WRAP, nwrite' = nwrite
    PROVE  nread' \in 0..WRAP-1 /\ Used' = Used - n
<1> USE PipeConstants
<1>0. nread \in 0..WRAP-1 /\ nwrite \in 0..WRAP-1 /\ n \in Nat
  BY Counters DEF PipeTypeOK
<1>1. PICK t \in Int : nwrite - nread = WRAP * t + Used /\ Used \in 0..PIPESIZE
  <2>1. nwrite - nread \in Int
    BY <1>0
  <2>2. Used \in 0..PIPESIZE
    BY Counters, Zenon
  <2> QED  BY <2>1, <2>2, DivWrap, Zenon DEF Used
<1>2. PICK j \in Int : nread + n = WRAP * j + nread' /\ nread' \in 0..WRAP-1
  <2>1. nread + n \in Int
    BY <1>0
  <2> QED  BY <2>1, DivWrap, Zenon
<1>3. nwrite - nread' = WRAP * (t + j) + (Used - n) /\ t + j \in Int
  BY <1>0, <1>1, <1>2
<1>4. Used - n \in 0..WRAP-1
  BY <1>0, <1>1
<1>5. (nwrite - nread') % WRAP = Used - n
  BY <1>3, <1>4, ModIs
<1> QED  BY <1>2, <1>5, Zenon DEF Used
-----------------------------------------------------------------------------
(* The invariant. *)

\* pipealloc makes an empty pipe with both ends open.
LEMMA InitPipeInv ==
    ASSUME PipeInit
    PROVE  PipeInv
<1> USE PipeConstants DEF PipeInit, User
<1>1. PipeTypeOK
  <2>1. data \in [0..PIPESIZE-1 -> Byte]
    BY Zenon
  <2>2. 0 \in 0..WRAP-1 /\ 0 \in 0..MaxCount
    OBVIOUS
  <2> QED  BY <2>1, <2>2, Zenon DEF PipeTypeOK
<1>2. Used = 0
  <2>1. nwrite - nread = WRAP * 0 + 0 /\ 0 \in 0..WRAP-1 /\ WRAP \in Nat \ {0}
    OBVIOUS
  <2> QED  BY <2>1, ModIs DEF Used
<1>3. CallInv /\ ReasonInv /\ PipeNoLostWakeup /\ EofIsFinal
  BY Zenon DEF CallInv, ReasonInv, PipeNoLostWakeup, EofIsFinal
<1> QED  BY <1>1, <1>2, <1>3 DEF PipeInv

\* Steps that leave the counters alone.
LEMMA SameCounters ==
    ASSUME UNCHANGED <<nread, nwrite>>
    PROVE  Used' = Used /\ (Full' <=> Full) /\ (Empty' <=> Empty)
BY Zenon DEF Used, Full, Empty

\* The tests of pipe.c on the counters are right while at most PIPESIZE are stored.
LEMMA CountersAgree ==
    PipeTypeOK /\ Used <= PIPESIZE => (Full <=> Used = PIPESIZE) /\ (Empty <=> Used = 0)
BY Counters, Zenon

\* The same after a step.
LEMMA NextCounters ==
    ASSUME PipeTypeOK', (Used <= PIPESIZE)'
    PROVE  (Full' <=> Used' = PIPESIZE) /\ (Empty' <=> Used' = 0)
<1>1. (PipeTypeOK /\ Used <= PIPESIZE =>
           (Full <=> Used = PIPESIZE) /\ (Empty <=> Used = 0))'
  BY CountersAgree, PTL
<1> QED  BY <1>1, Zenon

\* A call enters pipewrite or piperead.
LEMMA Step_Call ==
    ASSUME PipeInv, NEW u \in User, NEW n \in 1..MaxCount, Call(u, n)
    PROVE  PipeInv'
<1> USE PipeConstants DEF pipe
<1>c. Used' = Used /\ (Full' <=> Full) /\ (Empty' <=> Empty)
  BY SameCounters, Zenon DEF Call
<1>1. PipeTypeOK'
  BY DEF Call, PipeInv, PipeTypeOK
<1>2. CallInv'
  BY DEF Call, PipeInv, PipeTypeOK, CallInv
<1>3. ReasonInv' /\ PipeNoLostWakeup' /\ EofIsFinal'
  BY <1>c, Zenon DEF Call, PipeInv, PipeTypeOK, ReasonInv, PipeNoLostWakeup, EofIsFinal
<1> QED  BY <1>c, <1>1, <1>2, <1>3, Zenon DEF PipeInv

\* A writer sleeps on a full pipe, a reader on an empty one.
LEMMA Step_sleep ==
    ASSUME PipeInv, NEW u \in User, sleep(u)
    PROVE  PipeInv'
<1> USE PipeConstants DEF pipe
<1>c. Used' = Used /\ (Full' <=> Full) /\ (Empty' <=> Empty)
  BY SameCounters, Zenon DEF sleep
<1>1. PipeTypeOK'
  BY Zenon DEF sleep, PipeInv, PipeTypeOK
<1>2. CallInv'
  BY Zenon DEF sleep, PipeInv, PipeTypeOK, CallInv
<1>3. ReasonInv' /\ PipeNoLostWakeup' /\ EofIsFinal'
  BY <1>c, Zenon DEF sleep, PipeInv, PipeTypeOK, ReasonInv, PipeNoLostWakeup, EofIsFinal
<1> QED  BY <1>c, <1>1, <1>2, <1>3, Zenon DEF PipeInv

\* A killed process leaves the call with -1.
LEMMA Step_killed ==
    ASSUME PipeInv, NEW u \in User, killed(u)
    PROVE  PipeInv'
<1> USE PipeConstants DEF pipe
<1>c. Used' = Used /\ (Full' <=> Full) /\ (Empty' <=> Empty)
  BY SameCounters, Zenon DEF killed
<1>1. PipeTypeOK'
  BY Zenon DEF killed, PipeInv, PipeTypeOK
<1>2. CallInv'
  BY Zenon DEF killed, PipeInv, PipeTypeOK, CallInv
<1>3. ReasonInv' /\ PipeNoLostWakeup' /\ EofIsFinal'
  BY <1>c, Zenon DEF killed, PipeInv, PipeTypeOK, ReasonInv, PipeNoLostWakeup, EofIsFinal
<1> QED  BY <1>c, <1>1, <1>2, <1>3, Zenon DEF PipeInv

\* pipeclose wakes the other side and frees a pipe nobody holds.
LEMMA Step_pipeclose ==
    ASSUME PipeInv, NEW u \in User, pipeclose(u)
    PROVE  PipeInv'
<1> USE PipeConstants DEF pipe
<1> DEFINE end == IF u \in Writers THEN Writers ELSE Readers
<1>c. Used' = Used /\ (Full' <=> Full) /\ (Empty' <=> Empty)
  BY SameCounters, Zenon DEF pipeclose
<1>u. /\ upc[u] = "idle" /\ u \in holders /\ holders' = holders \ {u}
      /\ UNCHANGED <<data, nread, nwrite, todo, dead, eof>>
      /\ \A v \in User : upc[v] # "tosleep"
  BY Zenon DEF pipeclose, LockHeld
<1>1. CASE end \cap holders' # {}
  <2>e. UNCHANGED <<readopen, writeopen, freed, upc>>
    BY <1>1, Zenon DEF pipeclose
  <2>1. PipeTypeOK'
    BY <1>u, <2>e, Zenon DEF PipeInv, PipeTypeOK
  <2>2. CallInv'
    BY <1>1, <1>u, <2>e DEF PipeInv, PipeTypeOK, CallInv, User
  <2>3. ReasonInv' /\ PipeNoLostWakeup' /\ EofIsFinal'
    BY <1>c, <1>u, <2>e, Zenon DEF PipeInv, ReasonInv, PipeNoLostWakeup, EofIsFinal
  <2> QED  BY <1>c, <2>1, <2>2, <2>3, Zenon DEF PipeInv
<1>2. CASE end \cap holders' = {}
  <2>e. /\ writeopen' = (IF u \in Writers THEN 0 ELSE writeopen)
        /\ readopen' = (IF u \in Writers THEN readopen ELSE 0)
        /\ upc' = [v \in User |-> IF v \in User \ end /\ upc[v] = "sleep" THEN "call" ELSE upc[v]]
        /\ freed' = (readopen' = 0 /\ writeopen' = 0)
    BY <1>2, Zenon DEF pipeclose, PipeWakeup, Unused
  <2>1. PipeTypeOK'
    BY <1>u, <2>e, Zenon DEF PipeInv, PipeTypeOK
  <2>2. CallInv'
    <3>1. \A v \in User : upc'[v] # "idle" => v \in holders' /\ todo'[v] > 0
      BY <1>u, <2>e, Zenon DEF PipeInv, CallInv
    <3>2. /\ writeopen' = 1 <=> Writers \cap holders' # {}
          /\ readopen' = 1 <=> Readers \cap holders' # {}
      BY <1>2, <1>u, <2>e DEF PipeInv, CallInv, User
    <3>3. freed' <=> holders' = {}
      <4>1. holders' = {} <=> Writers \cap holders' = {} /\ Readers \cap holders' = {}
        BY <2>1, Zenon DEF PipeTypeOK, User
      <4>2. freed' <=> readopen' = 0 /\ writeopen' = 0
        BY <2>e, Zenon
      <4>3. readopen' \in {0, 1} /\ writeopen' \in {0, 1}
        BY <2>1, Zenon DEF PipeTypeOK
      <4>4. (readopen' = 0 <=> readopen' # 1) /\ (writeopen' = 0 <=> writeopen' # 1)
        BY <4>3
      <4> QED  BY <3>2, <4>1, <4>2, <4>4, Zenon
    <3> QED  BY <3>1, <3>2, <3>3, Zenon DEF CallInv
  <2>3. ReasonInv'
    BY <1>u, <2>e, Zenon DEF ReasonInv
  <2>4. PipeNoLostWakeup'
    <3> SUFFICES ASSUME NEW v \in User, upc'[v] = "sleep"
                 PROVE  IF v \in Writers THEN Full' /\ readopen' = 1
                        ELSE writeopen' = 1 /\ (Empty' \/ dead' \cap Writers # {})
      BY Zenon DEF PipeNoLostWakeup
    <3>1. upc[v] = "sleep" /\ v \in end /\ v \in holders /\ v # u
      BY <1>u, <2>e, Zenon DEF PipeInv, CallInv
    <3> QED  BY <1>2, <1>u, <3>1, Zenon
  <2>5. EofIsFinal'
    BY <1>c, <1>u, <2>e, Zenon DEF PipeInv, EofIsFinal
  <2> QED  BY <1>c, <2>1, <2>2, <2>3, <2>4, <2>5, Zenon DEF PipeInv
<1> QED  BY <1>1, <1>2, Zenon

\* What a read does with the counters and the sleepers.
LEMMA Step_piperead ==
    ASSUME PipeInv, NEW r \in User, piperead(r)
    PROVE  PipeInv'
<1> USE PipeConstants DEF pipe
<1>u. /\ upc[r] = "call" /\ r \in Readers /\ r \notin Writers /\ r \in holders /\ todo[r] > 0
      /\ UNCHANGED <<data, nwrite, readopen, writeopen, freed, holders, dead>>
      /\ \A v \in User : upc[v] # "tosleep"
  BY Zenon DEF piperead, LockHeld, PipeInv, CallInv
<1>1. CASE MustRead /\ r \in dead
  <2>e. /\ upc' = [upc EXCEPT ![r] = "idle"] /\ todo' = [todo EXCEPT ![r] = 0]
        /\ UNCHANGED <<nread, eof>>
    BY <1>1, Zenon DEF piperead
  <2>c. Used' = Used /\ (Full' <=> Full) /\ (Empty' <=> Empty)
    BY <1>u, <2>e, SameCounters, Zenon
  <2>1. PipeTypeOK'
    BY <1>u, <2>e DEF PipeInv, PipeTypeOK
  <2>2. CallInv'
    BY <1>u, <2>e, Zenon DEF PipeInv, PipeTypeOK, CallInv
  <2>3. ReasonInv' /\ PipeNoLostWakeup' /\ EofIsFinal'
    BY <1>u, <2>c, <2>e, Zenon DEF PipeInv, PipeTypeOK, ReasonInv, PipeNoLostWakeup, EofIsFinal
  <2> QED  BY <2>c, <2>1, <2>2, <2>3, Zenon DEF PipeInv
<1>2. CASE MustRead /\ r \notin dead
  <2>e. upc' = [upc EXCEPT ![r] = "tosleep"] /\ UNCHANGED <<nread, todo, eof>>
    BY <1>2, Zenon DEF piperead
  <2>c. Used' = Used /\ (Full' <=> Full) /\ (Empty' <=> Empty)
    BY <1>u, <2>e, SameCounters, Zenon
  <2>1. PipeTypeOK'
    BY <1>u, <2>e, Zenon DEF PipeInv, PipeTypeOK
  <2>2. CallInv'
    BY <1>u, <2>e, Zenon DEF PipeInv, PipeTypeOK, CallInv
  <2>3. ReasonInv'
    BY <1>2, <1>u, <2>c, <2>e, Zenon DEF PipeInv, PipeTypeOK, ReasonInv, MustRead
  <2>4. PipeNoLostWakeup' /\ EofIsFinal'
    BY <1>u, <2>c, <2>e, Zenon DEF PipeInv, PipeTypeOK, PipeNoLostWakeup, EofIsFinal
  <2> QED  BY <2>c, <2>1, <2>2, <2>3, <2>4, Zenon DEF PipeInv
<1>3. CASE ~MustRead
  <2>c. Used \in 0..PIPESIZE /\ (Empty <=> Used = 0)
    BY Counters, Zenon DEF PipeInv
  <2>t. todo[r] \in 1..MaxCount
    BY <1>u DEF PipeInv, PipeTypeOK
  <2>0. PICK n \in 0..Used : /\ n = IF todo[r] < Used THEN todo[r] ELSE Used
                             /\ nread' = (nread + n) % WRAP
                             /\ eof' = IF n = 0 THEN eof \cup {r} ELSE eof \ {r}
    BY <1>3, <2>c, <2>t DEF piperead
  <2>e. /\ upc' = [v \in User |-> IF v \in Writers /\ [upc EXCEPT ![r] = "idle"][v] = "sleep"
                                  THEN "call" ELSE [upc EXCEPT ![r] = "idle"][v]]
        /\ todo' = [todo EXCEPT ![r] = 0]
    BY <1>3, Zenon DEF piperead, PipeWakeup
  <2>n. nread' \in 0..WRAP-1 /\ Used' = Used - n
    BY <1>u, <2>0, UsedAfterRead, Zenon DEF PipeInv
  <2>w. /\ upc'[r] = "idle"
        /\ \A v \in User : v # r => upc'[v] = IF v \in Writers /\ upc[v] = "sleep" THEN "call" ELSE upc[v]
    BY <1>u, <2>e, Zenon DEF PipeInv, PipeTypeOK
  <2>1. PipeTypeOK'
    <3>1. upc' \in [User -> {"idle", "call", "tosleep", "sleep"}]
      BY <2>e, <2>w, Zenon DEF PipeInv, PipeTypeOK
    <3> QED  BY <1>u, <2>0, <2>e, <2>n, <3>1 DEF PipeInv, PipeTypeOK
  <2>d. (Used <= PIPESIZE)'
    BY <2>c, <2>n
  <2>f. Used = 0 => Empty'
    <3>1. Empty' <=> Used' = 0
      BY <2>1, <2>d, NextCounters, Zenon
    <3> SUFFICES ASSUME Used = 0 PROVE Empty'
      BY Zenon
    <3>2. n = 0
      BY <2>0
    <3>3. Used' = 0
      BY <2>n, <3>2
    <3> QED  BY <3>1, <3>3, Zenon
  <2>2. CallInv'
    BY <1>u, <2>e, <2>w, Zenon DEF PipeInv, PipeTypeOK, CallInv
  <2>3. ReasonInv'
    BY <1>u, <2>w, Zenon DEF ReasonInv
  <2>4. PipeNoLostWakeup'
    <3> SUFFICES ASSUME NEW v \in User, upc'[v] = "sleep"
                 PROVE  v \notin Writers /\ writeopen = 1 /\ (Empty' \/ dead \cap Writers # {})
      BY <1>u, Zenon DEF PipeNoLostWakeup
    <3>1. v \notin Writers /\ upc[v] = "sleep"
      BY <2>w, Zenon
    <3> QED  BY <2>c, <2>f, <3>1, Zenon DEF PipeInv, PipeNoLostWakeup
  <2>5. EofIsFinal'
    <3> SUFFICES ASSUME eof' # {} PROVE writeopen' = 0 /\ Empty'
      BY Zenon DEF EofIsFinal
    <3>1. CASE n = 0
      <4>1. Used = 0
        BY <2>0, <2>t, <2>c, <3>1
      <4>2. writeopen = 0
        BY <1>3, <2>c, <4>1, Zenon DEF MustRead, PipeInv, PipeTypeOK
      <4> QED  BY <1>u, <2>f, <4>1, <4>2, Zenon
    <3>2. CASE n # 0
      BY <1>u, <2>0, <2>c, <2>f, <3>2, Zenon DEF PipeInv, EofIsFinal
    <3> QED  BY <3>1, <3>2, Zenon
  <2> QED  BY <2>d, <2>1, <2>2, <2>3, <2>4, <2>5, Zenon DEF PipeInv
<1> QED  BY <1>1, <1>2, <1>3, Zenon

\* Common to the three ways out of pipewrite: n bytes were stored.
LEMMA Step_write ==
    ASSUME PipeInv, NEW w \in Writers, upc[w] = "call", ~LockHeld,
           NEW n \in 0..PIPESIZE - Used, data' \in [0..PIPESIZE-1 -> Byte],
           nwrite' = (nwrite + n) % WRAP,
           UNCHANGED <<nread, readopen, writeopen, freed, holders, dead, eof>>,
           NEW pcw \in {"idle", "tosleep"}, NEW todow \in 0..MaxCount,
           todo' = [todo EXCEPT ![w] = todow], pcw # "idle" => todow > 0,
           pcw = "tosleep" => Used + n = PIPESIZE /\ readopen = 1,
           \/ upc' = PipeWakeup(Readers, [upc EXCEPT ![w] = pcw])
           \/ upc' = [upc EXCEPT ![w] = pcw] /\ (readopen = 0 \/ w \in dead)
    PROVE  PipeInv'
<1> USE PipeConstants DEF User
<1>u. /\ w \notin Readers /\ w \in holders /\ writeopen = 1
      /\ \A v \in User : upc[v] # "tosleep"
  BY Zenon DEF LockHeld, PipeInv, CallInv
<1>c. Used \in 0..PIPESIZE /\ (Full <=> Used = PIPESIZE)
  BY Counters, Zenon DEF PipeInv
<1>n. nwrite' \in 0..WRAP-1 /\ Used' = Used + n
  BY UsedAfterWrite, Zenon DEF PipeInv
<1>w. /\ upc' \in [User -> {"idle", "call", "tosleep", "sleep"}] /\ upc'[w] = pcw
      /\ \A v \in User \ {w} : upc'[v] = upc[v] \/ (upc[v] = "sleep" /\ upc'[v] = "call")
      /\ \A v \in Readers : upc'[v] = "sleep" => readopen = 0 \/ w \in dead
  BY <1>u DEF PipeInv, PipeTypeOK, PipeWakeup
<1>1. PipeTypeOK'
  BY <1>n, <1>w, Zenon DEF PipeInv, PipeTypeOK
<1>d. (Used <= PIPESIZE)'
  BY <1>c, <1>n
<1>f. Full' <=> Used + n = PIPESIZE
  BY <1>1, <1>d, <1>n, NextCounters, Zenon
<1>2. CallInv'
  BY <1>u, <1>w, Zenon DEF PipeInv, PipeTypeOK, CallInv
<1>3. ReasonInv'
  <2> SUFFICES ASSUME NEW v \in User, upc'[v] = "tosleep" PROVE v = w
    BY <1>f, <1>w, Zenon DEF ReasonInv
  <2> QED  BY <1>u, <1>w, Zenon
<1>4. PipeNoLostWakeup'
  <2> SUFFICES ASSUME NEW v \in User, upc'[v] = "sleep"
               PROVE  IF v \in Writers THEN Full' /\ readopen = 1
                      ELSE writeopen = 1 /\ (Empty' \/ dead \cap Writers # {})
    BY Zenon DEF PipeNoLostWakeup
  <2>1. v # w /\ upc[v] = "sleep" /\ v \in holders
    BY <1>w, Zenon DEF PipeInv, CallInv
  <2>2. CASE v \in Writers
    <3>1. Full /\ readopen = 1
      BY <2>1, <2>2, Zenon DEF PipeInv, PipeNoLostWakeup
    <3>2. Used = PIPESIZE /\ n = 0
      BY <1>c, <3>1
    <3> QED  BY <1>f, <2>2, <3>1, <3>2
  <2>3. CASE v \in Readers
    <3>1. readopen = 1
      BY <2>1, <2>3, Zenon DEF PipeInv, CallInv
    <3> QED  BY <1>u, <1>w, <2>3, <3>1
  <2> QED  BY <2>2, <2>3, Zenon
<1>5. EofIsFinal'
  BY <1>u DEF PipeInv, EofIsFinal
<1> QED  BY <1>d, <1>1, <1>2, <1>3, <1>4, <1>5, Zenon DEF PipeInv

\* The bytes pipewrite stores, and where.
StoredAt(n, s) ==
    [i \in 0..PIPESIZE-1 |->
        IF \E k \in 0..n-1 : (nwrite + k) % PIPESIZE = i
        THEN s[CHOOSE k \in 0..n-1 : (nwrite + k) % PIPESIZE = i]
        ELSE data[i]]

\* What pipewrite leaves in the ring are bytes.
LEMMA StoredBytes ==
    ASSUME PipeInv, NEW n \in 0..PIPESIZE, NEW s \in [0..n-1 -> Byte]
    PROVE  StoredAt(n, s) \in [0..PIPESIZE-1 -> Byte]
<1> SUFFICES ASSUME NEW i \in 0..PIPESIZE-1
             PROVE  StoredAt(n, s)[i] \in Byte
  BY Zenon DEF StoredAt
<1>1. CASE \E k \in 0..n-1 : (nwrite + k) % PIPESIZE = i
  <2> DEFINE j == CHOOSE k \in 0..n-1 : (nwrite + k) % PIPESIZE = i
  <2>1. j \in 0..n-1
    BY <1>1, Zenon
  <2>2. StoredAt(n, s)[i] = s[j]
    BY <1>1, Zenon DEF StoredAt
  <2> HIDE DEF j
  <2> QED  BY <2>1, <2>2, Zenon
<1>2. CASE ~\E k \in 0..n-1 : (nwrite + k) % PIPESIZE = i
  BY <1>2, Zenon DEF StoredAt, PipeInv, PipeTypeOK
<1> QED  BY <1>1, <1>2, Zenon

\* pipewrite stores as much as there is room for.
LEMMA Written ==
    ASSUME PipeInv, NEW w \in User, pipewrite(w)
    PROVE  \E n \in 0..PIPESIZE - Used : \E s \in [0..n-1 -> Byte] :
              /\ data' = StoredAt(n, s) /\ nwrite' = (nwrite + n) % WRAP /\ nread' = nread
              /\ n = IF todo[w] < Room THEN todo[w] ELSE Room
<1> USE PipeConstants
<1> DEFINE m == IF todo[w] < Room THEN todo[w] ELSE Room
<1>1. m \in 0..PIPESIZE - Used
  <2>1. Used \in 0..PIPESIZE /\ Room = PIPESIZE - Used
    BY Counters, Zenon DEF PipeInv
  <2>2. todo[w] \in Nat
    BY DEF PipeInv, PipeTypeOK
  <2> HIDE DEF Used, Room
  <2> QED  BY <2>1, <2>2
<1>2. \E s \in [0..m-1 -> Byte] : data' = StoredAt(m, s)
  BY Zenon DEF pipewrite, StoredAt
<1>3. nwrite' = (nwrite + m) % WRAP /\ nread' = nread
  BY Zenon DEF pipewrite
<1>4. m = IF todo[w] < Room THEN todo[w] ELSE Room
  BY Zenon
<1> HIDE DEF m
<1> QED  BY <1>1, <1>2, <1>3, <1>4, Zenon

\* pipewrite fills the ring up to PIPESIZE and wakes the readers.
LEMMA Step_pipewrite ==
    ASSUME PipeInv, NEW w \in User, pipewrite(w)
    PROVE  PipeInv'
<1> USE PipeConstants
<1>1. w \in Writers /\ upc[w] = "call" /\ ~LockHeld
  BY Zenon DEF pipewrite
<1>2. UNCHANGED <<nread, readopen, writeopen, freed, holders, dead, eof>>
  BY Zenon DEF pipewrite
<1>c. Used \in 0..PIPESIZE /\ Room = PIPESIZE - Used /\ todo[w] \in 0..MaxCount
  BY Counters, Zenon DEF PipeInv, PipeTypeOK
<1>n. PICK n \in 0..PIPESIZE - Used : /\ n = IF todo[w] < Room THEN todo[w] ELSE Room
                                      /\ \E s \in [0..n-1 -> Byte] : data' = StoredAt(n, s)
                                      /\ nwrite' = (nwrite + n) % WRAP
  BY Written, Zenon
<1>m. /\ n <= todo[w] /\ (n < todo[w] => Used + n = PIPESIZE)
      /\ todo[w] - n \in 0..MaxCount /\ (n < todo[w] => todo[w] - n > 0) /\ n \in 0..PIPESIZE
  <2> HIDE DEF Used, Room
  <2> QED  BY <1>c, <1>n
<1>d. data' \in [0..PIPESIZE-1 -> Byte]
  <2>1. PICK s \in [0..n-1 -> Byte] : data' = StoredAt(n, s)
    BY <1>n, Zenon
  <2> QED  BY <1>m, <2>1, StoredBytes, Zenon
<1>e. nwrite' = (nwrite + n) % WRAP
  BY <1>n, Zenon
<1>3. \/ /\ n = todo[w]
         /\ upc' = PipeWakeup(Readers, [upc EXCEPT ![w] = "idle"])
         /\ todo' = [todo EXCEPT ![w] = 0]
      \/ /\ n < todo[w] /\ (readopen = 0 \/ w \in dead)
         /\ upc' = [upc EXCEPT ![w] = "idle"]
         /\ todo' = [todo EXCEPT ![w] = 0]
      \/ /\ n < todo[w] /\ ~(readopen = 0 \/ w \in dead)
         /\ upc' = PipeWakeup(Readers, [upc EXCEPT ![w] = "tosleep"])
         /\ todo' = [todo EXCEPT ![w] = todo[w] - n]
  BY <1>n, Zenon DEF pipewrite
<1>4. CASE todo' = [todo EXCEPT ![w] = 0] /\ \/ upc' = PipeWakeup(Readers, [upc EXCEPT ![w] = "idle"])
                                             \/ /\ upc' = [upc EXCEPT ![w] = "idle"]
                                                /\ readopen = 0 \/ w \in dead
  <2>1. 0 \in 0..MaxCount
    OBVIOUS
  <2> HIDE DEF Used
  <2> QED  BY <1>1, <1>2, <1>d, <1>e, <1>4, <2>1, Step_write, Zenon
<1>5. CASE /\ n < todo[w] /\ ~(readopen = 0 \/ w \in dead)
           /\ upc' = PipeWakeup(Readers, [upc EXCEPT ![w] = "tosleep"])
           /\ todo' = [todo EXCEPT ![w] = todo[w] - n]
  <2>1. readopen = 1
    BY <1>5, Zenon DEF PipeInv, PipeTypeOK
  <2> HIDE DEF Used
  <2> QED  BY <1>1, <1>2, <1>d, <1>e, <1>m, <1>5, <2>1, Step_write, Zenon
<1> QED  BY <1>3, <1>4, <1>5, Zenon

\* Every step keeps the invariant.
LEMMA NextPipeInv ==
    ASSUME PipeInv, [PipeNext]_pipeVars
    PROVE  PipeInv'
<1>1. CASE UNCHANGED pipeVars
  <2> USE <1>1 DEF pipeVars, pipe
  <2>c. Used' = Used /\ (Full' <=> Full) /\ (Empty' <=> Empty)
    BY SameCounters, Zenon
  <2> QED  BY <2>c, Zenon DEF PipeInv, PipeTypeOK, CallInv, ReasonInv, PipeNoLostWakeup, EofIsFinal
<1>2. CASE PipeNext
  BY <1>1, <1>2, Step_Call, Step_pipewrite, Step_piperead, Step_sleep, Step_pipeclose, Step_killed, Zenon
     DEF PipeNext, Departed
<1> QED  BY <1>1, <1>2, Zenon
-----------------------------------------------------------------------------
(* The ring implements a queue. *)

\* The abstract queue: Used bytes from nread on.
LEMMA ContentsIsSeq ==
    ASSUME PipeInv
    PROVE  /\ Contents \in Seq(Byte) /\ Len(Contents) = Used
           /\ \A i \in 1..Used : Contents[i] = data[(nread + i - 1) % PIPESIZE]
<1> USE PipeConstants
<1>1. Used \in Nat
  BY Counters DEF PipeInv
<1>2. ASSUME NEW i \in 1..Used PROVE data[(nread + i - 1) % PIPESIZE] \in Byte
  <2>1. nread + i - 1 \in Int
    BY DEF PipeInv, PipeTypeOK
  <2>2. (nread + i - 1) % PIPESIZE \in 0..PIPESIZE-1
    BY <2>1, DivMod, Zenon
  <2> QED  BY <2>2, Zenon DEF PipeInv, PipeTypeOK
<1>3. Contents \in [1..Used -> Byte]
  BY <1>2, Zenon DEF Contents
<1> HIDE DEF Used
<1> QED  BY <1>1, <1>3 DEF Contents

\* What concatenation does to each element.
LEMMA Joined ==
    ASSUME NEW S, NEW u \in Seq(S), NEW v \in Seq(S)
    PROVE  /\ u \o v \in Seq(S) /\ Len(u \o v) = Len(u) + Len(v)
           /\ \A i \in 1..Len(u) + Len(v) :
                 (u \o v)[i] = IF i <= Len(u) THEN u[i] ELSE v[i - Len(u)]
OBVIOUS

\* Storing n bytes appends them.
LEMMA WriteAppends ==
    ASSUME PipeInv, PipeInv', NEW n \in 0..PIPESIZE - Used, NEW s \in [0..n-1 -> Byte],
           data' = StoredAt(n, s), nwrite' = (nwrite + n) % WRAP, nread' = nread
    PROVE  Contents' = Contents \o [j \in 1..n |-> s[j - 1]]
<1> USE PipeConstants
<1> DEFINE t == [j \in 1..n |-> s[j - 1]]
           U == Used
<1>0. /\ Used \in 0..PIPESIZE /\ n \in Nat
      /\ \A k \in Int : (nwrite + k) % PIPESIZE = (nread + Used + k) % PIPESIZE
  BY Counters DEF PipeInv
<1>r. nread \in Int /\ nwrite \in Int
  BY DEF PipeInv, PipeTypeOK
<1>n. Used' = Used + n
  BY UsedAfterWrite, Zenon DEF PipeInv
<1>1. /\ Contents \in Seq(Byte) /\ Len(Contents) = Used
      /\ \A i \in 1..Used : Contents[i] = data[(nread + i - 1) % PIPESIZE]
  BY ContentsIsSeq, Zenon
<1>2. /\ Contents' \in Seq(Byte) /\ Len(Contents') = Used'
      /\ \A i \in 1..Used' : Contents'[i] = data'[(nread' + i - 1) % PIPESIZE]
  <2>1. (PipeInv => /\ Contents \in Seq(Byte) /\ Len(Contents) = Used
                    /\ \A i \in 1..Used : Contents[i] = data[(nread + i - 1) % PIPESIZE])'
    BY ContentsIsSeq, PTL
  <2> QED  BY <2>1, Zenon
<1>t. t \in Seq(Byte) /\ Len(t) = n /\ \A j \in 1..n : t[j] = s[j - 1]
  <2>1. t \in [1..n -> Byte]
    OBVIOUS
  <2> QED  BY <1>0, <2>1
<1> HIDE DEF t, Used, U
<1>3. /\ Contents \o t \in Seq(Byte) /\ Len(Contents \o t) = Used + n
      /\ \A i \in 1..Used + n : (Contents \o t)[i] = IF i <= Used THEN Contents[i] ELSE t[i - Used]
  <2>1. /\ Contents \o t \in Seq(Byte) /\ Len(Contents \o t) = Len(Contents) + Len(t)
        /\ \A i \in 1..Len(Contents) + Len(t) : (Contents \o t)[i] =
              IF i <= Len(Contents) THEN Contents[i] ELSE t[i - Len(Contents)]
    <3>1. Contents \in Seq(Byte) /\ t \in Seq(Byte)
      BY <1>1, <1>t, Zenon
    <3> QED  BY <3>1, Joined
  <2> QED  BY <1>1, <1>t, <2>1, Zenon
<1>4. ASSUME NEW i \in 1..Used + n PROVE Contents'[i] = (Contents \o t)[i]
  <2> DEFINE x == (nread + i - 1) % PIPESIZE
  <2>0. nread + i - 1 \in Int /\ i \in Nat
    BY <1>0, <1>r
  <2>1. x \in 0..PIPESIZE-1
    BY <2>0, DivMod, Zenon
  <2>2. Contents'[i] = StoredAt(n, s)[x]
    BY <1>2, <1>n, Zenon
  <2>3. ASSUME NEW k \in 0..n-1, (nwrite + k) % PIPESIZE = x PROVE i = Used + k + 1
    <3>1. (nread + Used + k) % PIPESIZE = (nread + i - 1) % PIPESIZE
      BY <1>0, <2>3
    <3>2. /\ nread + Used + k \in Int
          /\ (nread + Used + k) - (nread + i - 1) < PIPESIZE
          /\ (nread + i - 1) - (nread + Used + k) < PIPESIZE
      BY <1>0, <1>r
    <3>3. nread + Used + k = nread + i - 1
      BY <2>0, <3>1, <3>2, ModApart, Zenon
    <3> QED  BY <1>0, <1>r, <3>3
  <2>4. CASE i <= Used
    <3>1. ~\E k \in 0..n-1 : (nwrite + k) % PIPESIZE = x
      BY <1>0, <2>3, <2>4
    <3>2. StoredAt(n, s)[x] = data[x]
      BY <2>1, <3>1, Zenon DEF StoredAt
    <3>3. (Contents \o t)[i] = Contents[i] /\ Contents[i] = data[x]
      BY <1>0, <1>1, <1>3, <2>4
    <3> QED  BY <2>2, <3>2, <3>3, Zenon
  <2>5. CASE i > Used
    <3> DEFINE k == i - Used - 1
    <3>1. k \in 0..n-1 /\ nread + Used + k = nread + i - 1
      BY <1>0, <1>r, <2>5
    <3>2. (nwrite + k) % PIPESIZE = x
      BY <1>0, <3>1
    <3>3. \A j \in 0..n-1 : (nwrite + j) % PIPESIZE = x => j = k
      BY <1>0, <2>3
    <3> HIDE DEF x, k
    <3>4. (CHOOSE j \in 0..n-1 : (nwrite + j) % PIPESIZE = x) = k
      BY <3>1, <3>2, <3>3, Zenon
    <3>5. StoredAt(n, s)[x] = s[k]
      BY <2>1, <3>1, <3>2, <3>4, Zenon DEF StoredAt
    <3>6. (Contents \o t)[i] = t[i - Used] /\ i - Used \in 1..n /\ (i - Used) - 1 = k
      BY <1>0, <1>3, <2>5 DEF k
    <3> QED  BY <1>t, <2>2, <3>5, <3>6, Zenon
  <2>6. i <= Used \/ i > Used
    BY <1>0
  <2> QED  BY <2>4, <2>5, <2>6, Zenon
<1>5. Contents' = Contents \o t
  BY <1>2, <1>3, <1>4, <1>n, SameElements
<1> QED  BY <1>5, Zenon DEF t

\* Reading n bytes takes them from the front.
LEMMA ReadTakes ==
    ASSUME PipeInv, PipeInv', NEW n \in 0..Used,
           nread' = (nread + n) % WRAP, UNCHANGED <<data, nwrite>>
    PROVE  Contents' = SubSeq(Contents, n + 1, Len(Contents))
<1> USE PipeConstants
<1>0. Used \in 0..PIPESIZE /\ n \in Nat
  BY Counters DEF PipeInv
<1>r. nread \in Int
  BY DEF PipeInv, PipeTypeOK
<1>n. Used' = Used - n
  BY UsedAfterRead, Zenon DEF PipeInv
<1>1. /\ Contents \in Seq(Byte) /\ Len(Contents) = Used
      /\ \A i \in 1..Used : Contents[i] = data[(nread + i - 1) % PIPESIZE]
  BY ContentsIsSeq, Zenon
<1>2. /\ Contents' \in Seq(Byte) /\ Len(Contents') = Used'
      /\ \A i \in 1..Used' : Contents'[i] = data'[(nread' + i - 1) % PIPESIZE]
  <2>1. (PipeInv => /\ Contents \in Seq(Byte) /\ Len(Contents) = Used
                    /\ \A i \in 1..Used : Contents[i] = data[(nread + i - 1) % PIPESIZE])'
    BY ContentsIsSeq, PTL
  <2> QED  BY <2>1, Zenon
<1> HIDE DEF Used
<1> DEFINE t == SubSeq(Contents, n + 1, Used)
<1>3. /\ t \in Seq(Byte) /\ Len(t) = Used - n
      /\ \A i \in 1..Used - n : t[i] = Contents[n + i]
  <2>1. \A i \in n + 1..Used : Contents[i] \in Byte
    BY <1>0, <1>1
  <2>2. n + 1 \in Int /\ Used \in Int
    BY <1>0
  <2>3. /\ t \in Seq(Byte) /\ Len(t) = IF n + 1 <= Used THEN Used - (n + 1) + 1 ELSE 0
        /\ \A i \in 1..Used - (n + 1) + 1 : t[i] = Contents[n + 1 + i - 1]
    BY <2>1, <2>2, SubSeqIs
  <2>4. Used - (n + 1) + 1 = Used - n
    BY <1>0
  <2>5. \A i \in 1..Used - n : n + 1 + i - 1 = n + i
    BY <1>0
  <2> HIDE DEF t
  <2> QED  BY <1>0, <2>3, <2>4, <2>5
<1> HIDE DEF t
<1>4. ASSUME NEW i \in 1..Used - n PROVE Contents'[i] = t[i]
  <2>1. i \in Int /\ n + i \in 1..Used
    BY <1>0
  <2>2. Contents'[i] = data[(nread' + i - 1) % PIPESIZE]
    BY <1>2, <1>n, Zenon
  <2>3. t[i] = data[(nread + (n + i) - 1) % PIPESIZE]
    BY <1>1, <1>3, <2>1, Zenon
  <2>4. (nread' + i - 1) % PIPESIZE = (nread + (n + i) - 1) % PIPESIZE
    <3>1. PICK k \in Int : nread + n = WRAP * k + nread' /\ nread' \in 0..WRAP-1
      <4>1. nread + n \in Int
        BY <1>0, <1>r
      <4> QED  BY <4>1, DivWrap, Zenon
    <3>2. /\ nread + (n + i) - 1 = WRAP * k + (nread' + i - 1)
          /\ nread' + i - 1 \in Int /\ nread + (n + i) - 1 \in Int
      BY <1>0, <1>r, <2>1, <3>1
    <3>3. (nread + (n + i) - 1) % WRAP = (nread' + i - 1) % WRAP
      <4>1. WRAP \in Nat \ {0}
        OBVIOUS
      <4> DEFINE y == nread' + i - 1
      <4>2. y \in Int /\ nread + (n + i) - 1 = WRAP * k + y
        BY <3>2, Zenon
      <4> HIDE DEF y
      <4>3. (WRAP * k + y) % WRAP = y % WRAP
        BY <4>1, <4>2, ModTurns, Zenon
      <4> QED  BY <4>2, <4>3, Zenon DEF y
    <3>4. ((nread + (n + i) - 1) % WRAP) % PIPESIZE = ((nread' + i - 1) % WRAP) % PIPESIZE
      BY <3>3, Zenon
    <3> QED  BY <3>2, <3>4, RingIndex, Zenon
  <2> QED  BY <2>2, <2>3, <2>4, Zenon
<1>5. Contents' = t
  BY <1>2, <1>3, <1>4, <1>n, SameElements
<1> QED  BY <1>1, <1>5, Zenon DEF t

\* Steps that leave the ring alone leave the queue alone.
LEMMA SameContents ==
    ASSUME UNCHANGED <<data, nread, nwrite>>
    PROVE  Contents' = Contents
BY Zenon DEF Contents, Used

\* Every step of the pipe is a step of the queue, or none.
LEMMA StepIsFifo ==
    ASSUME PipeInv, PipeInv', [PipeNext]_pipeVars
    PROVE  [Fifo!Put \/ Fifo!Get]_Contents
<1> USE PipeConstants
<1>c. Used \in 0..PIPESIZE /\ Contents \in Seq(Byte) /\ Len(Contents) = Used
  BY Counters, ContentsIsSeq, Zenon DEF PipeInv
<1>1. ASSUME NEW w \in User, pipewrite(w) PROVE Contents' = Contents \/ Fifo!Put
  <2>1. PICK n \in 0..PIPESIZE - Used : \E s \in [0..n-1 -> Byte] :
              data' = StoredAt(n, s) /\ nwrite' = (nwrite + n) % WRAP /\ nread' = nread
    BY <1>1, Written, Zenon
  <2>2. PICK s \in [0..n-1 -> Byte] :
              data' = StoredAt(n, s) /\ nwrite' = (nwrite + n) % WRAP /\ nread' = nread
    BY <2>1, Zenon
  <2> DEFINE t == [j \in 1..n |-> s[j - 1]]
  <2>3. Contents' = Contents \o t
    BY <2>2, WriteAppends, Zenon
  <2>4. t \in [1..n -> Byte]
    BY <1>c
  <2>5. CASE n = 0
    <3>1. t = <<>>
      BY <2>5
    <3> HIDE DEF t
    <3> QED  BY <1>c, <2>3, <3>1, ConcatEmpty, Zenon
  <2>6. CASE n # 0
    <3>1. n \in 1..PIPESIZE - Len(Contents)
      BY <1>c, <2>6
    <3> HIDE DEF t
    <3> QED  BY <2>3, <2>4, <3>1, Zenon DEF Fifo!Put
  <2> QED  BY <2>5, <2>6, Zenon
<1>2. ASSUME NEW r \in User, piperead(r) PROVE Contents' = Contents \/ Fifo!Get
  <2>1. CASE UNCHANGED nread
    BY <1>2, <2>1, SameContents, Zenon DEF piperead
  <2>2. CASE ~UNCHANGED nread
    <3>1. PICK n \in 0..Used : nread' = (nread + n) % WRAP /\ UNCHANGED <<data, nwrite>>
      <4>1. todo[r] \in Nat
        BY DEF PipeInv, PipeTypeOK
      <4> DEFINE m == IF todo[r] < Used THEN todo[r] ELSE Used
      <4>2. m \in 0..Used
        <5> HIDE DEF Used
        <5> QED  BY <1>c, <4>1
      <4>3. nread' = (nread + m) % WRAP /\ UNCHANGED <<data, nwrite>>
        BY <1>2, <2>2, Zenon DEF piperead
      <4> HIDE DEF m
      <4> QED  BY <4>2, <4>3, Zenon
    <3>2. Contents' = SubSeq(Contents, n + 1, Len(Contents))
      BY <3>1, ReadTakes, Zenon
    <3>3. n # 0
      <4> SUFFICES ASSUME n = 0 PROVE FALSE
        BY Zenon
      <4>1. nread \in 0..WRAP-1 /\ nread + 0 = WRAP * 0 + nread /\ WRAP \in Nat \ {0}
        BY DEF PipeInv, PipeTypeOK
      <4>2. (nread + 0) % WRAP = nread
        BY <4>1, ModIs
      <4> QED  BY <2>2, <3>1, <4>2, Zenon
    <3>4. n \in 1..Len(Contents)
      <4> HIDE DEF Used
      <4> QED  BY <1>c, <3>3
    <3> QED  BY <3>2, <3>4, Zenon DEF Fifo!Get
  <2> QED  BY <2>1, <2>2, Zenon
<1>3. CASE UNCHANGED <<data, nread, nwrite>>
  BY <1>3, SameContents, Zenon
<1> QED  BY <1>1, <1>2, <1>3, Zenon DEF PipeNext, Call, sleep, pipeclose, killed, Departed, pipeVars, pipe
-----------------------------------------------------------------------------
(* The theorems. *)

\* The invariant holds in every reachable state.
THEOREM PipeInvariant == PipeSpec => []PipeInv
<1> QED  BY InitPipeInv, NextPipeInv, PTL DEF PipeSpec

\* pipe.c delivers the bytes written, each once and in order, and never holds
\* more than PIPESIZE, although nread and nwrite run on and wrap (pipe.c:78-121).
THEOREM PipeImplementsFifo == PipeSpec => PipeIsFifo
<1>1. PipeInit => Fifo!FifoInit
  <2> SUFFICES ASSUME PipeInit PROVE Contents = <<>>
    BY Zenon DEF Fifo!FifoInit
  <2>1. Contents \in Seq(Byte) /\ Len(Contents) = Used
    BY InitPipeInv, ContentsIsSeq, Zenon
  <2>2. Used = 0
    BY InitPipeInv, Counters, Zenon DEF PipeInit, Empty, PipeInv
  <2> QED  BY <2>1, <2>2
<1>2. PipeInv /\ PipeInv' /\ [PipeNext]_pipeVars => [Fifo!Put \/ Fifo!Get]_Contents
  BY StepIsFifo, Zenon
<1> QED  BY <1>1, <1>2, PipeInvariant, PTL DEF PipeSpec, PipeIsFifo, Fifo!FifoSpec

\* Nobody sleeps in piperead or pipewrite while the reason for it is gone
\* (pipe.c:85-92, 106-112), with the exception PipeNoLostWakeup names.
THEOREM PipeWakeupNotLost == PipeSpec => []PipeNoLostWakeup
<1>1. PipeInv => PipeNoLostWakeup
  BY Zenon DEF PipeInv
<1> QED  BY <1>1, PipeInvariant, PTL

\* After a read returned 0 nothing can be read any more (pipe.c:106-121).
THEOREM EndOfFileIsFinal == PipeSpec => []EofIsFinal
<1>1. PipeInv => EofIsFinal
  BY Zenon DEF PipeInv
<1> QED  BY <1>1, PipeInvariant, PTL

\* pipeclose (pipe.c:60-75) gives the page back when the last holder of both
\* ends is gone, and nobody is inside a call then.
THEOREM FreedWhenUnused == PipeSpec => []FreedUnused
<1>1. PipeInv => FreedUnused
  BY Zenon DEF PipeInv, CallInv, FreedUnused
<1> QED  BY <1>1, PipeInvariant, PTL
-----------------------------------------------------------------------------
(* The console. *)

\* A nonempty set of numbers up to n has a largest one.
LEMMA LargestIsIn ==
    ASSUME NEW n \in Nat, NEW S \in SUBSET (0..n), S # {}
    PROVE  Max(S) \in S /\ \A y \in S : Max(S) >= y
<1> DEFINE T == {n - x : x \in S}
           R == OpToRel(<, Nat)
<1>1. T \in SUBSET Nat /\ T # {}
  <2>1. \A x \in S : n - x \in Nat
    OBVIOUS
  <2> QED  BY <2>1, Zenon
<1>2. IsWellFoundedOn(R, Nat)
  BY NatLessThanWellFounded, Zenon
<1>3. PICK t \in T : \A y \in T : ~(<<y, t>> \in R)
  <2> HIDE DEF R, T
  <2> QED  BY <1>1, <1>2, WFMin, Zenon
<1>4. \A y \in T : t <= y
  <2> TAKE y \in T
  <2>1. t \in Nat /\ y \in Nat
    BY <1>1, Zenon
  <2>2. ~(y < t)
    BY <1>3, <2>1, Zenon DEF OpToRel
  <2> QED  BY <2>1, <2>2
<1>5. PICK x \in S : t = n - x
  BY Zenon
<1>6. \A y \in S : x >= y
  <2> TAKE y \in S
  <2>1. n - y \in T
    BY Zenon
  <2> HIDE DEF T
  <2>2. t <= n - y
    BY <1>4, <2>1, Zenon
  <2> QED  BY <1>5, <2>2
<1> QED  BY <1>6, Zenon DEF Max

\* Distances between indices that count modulo UINT.
LEMMA SizeTyped ==
    ASSUME NEW a \in Int, NEW b \in Int
    PROVE  Size(a, b) \in 0..UINT-1
<1>1. UINT \in Nat \ {0} /\ b - a \in Int
  BY ConsoleConstants
<1> QED  BY <1>1, DivMod, Zenon DEF Size

LEMMA SizeFrom ==
    ASSUME NEW a \in 0..UINT-1, NEW b \in 0..UINT-1
    PROVE  b = (a + Size(a, b)) % UINT
<1>1. UINT \in Nat \ {0}
  BY ConsoleConstants
<1> QED  BY <1>1, DistFrom, Zenon DEF Size

LEMMA SizeOf ==
    ASSUME NEW a \in Int, NEW i \in Int, NEW j \in Int, i <= j, j - i < UINT
    PROVE  Size((a + i) % UINT, (a + j) % UINT) = j - i
<1>1. UINT \in Nat \ {0}
  BY ConsoleConstants
<1> QED  BY <1>1, DistOf, Zenon DEF Size

\* Where the indices stand, seen from r.
LEMMA Offsets ==
    ASSUME ConsTypeOK, InputWindow
    PROVE  /\ Size(input.r, input.w) \in 0..INPUT_BUF
           /\ Size(input.r, input.e) \in Size(input.r, input.w)..INPUT_BUF
           /\ input.r = (input.r + 0) % UINT
           /\ input.w = (input.r + Size(input.r, input.w)) % UINT
           /\ input.e = (input.r + Size(input.r, input.e)) % UINT
           /\ Size(input.w, input.e) = Size(input.r, input.e) - Size(input.r, input.w)
           /\ (input.w = input.e) <=> (Size(input.r, input.w) = Size(input.r, input.e))
           /\ (input.r = input.w) <=> (Size(input.r, input.w) = 0)
<1> USE ConsoleConstants
<1> DEFINE r == input.r  w == input.w  e == input.e
<1>1. r \in 0..UINT-1 /\ w \in 0..UINT-1 /\ e \in 0..UINT-1
  BY Zenon DEF ConsTypeOK
<1>2. Size(r, w) <= Size(r, e) /\ Size(r, e) <= INPUT_BUF
  BY Zenon DEF InputWindow
<1> HIDE DEF r, w, e
<1>3. r \in Int /\ w \in Int /\ e \in Int
  BY <1>1
<1>4. Size(r, w) \in 0..UINT-1 /\ Size(r, e) \in 0..UINT-1
  BY <1>3, SizeTyped, Zenon
<1>5. w = (r + Size(r, w)) % UINT /\ e = (r + Size(r, e)) % UINT
  BY <1>1, SizeFrom, Zenon
<1>6. Size(r, w) \in 0..INPUT_BUF /\ Size(r, e) \in Size(r, w)..INPUT_BUF
  BY <1>2, <1>4
<1>7. r = (r + 0) % UINT
  <2>1. UINT \in Nat \ {0} /\ 0 \in Int /\ r + 0 = UINT * 0 + r
    BY <1>1
  <2>2. (UINT * 0 + r) % UINT = r
    BY <1>1, <2>1, ModIs, Zenon
  <2> QED  BY <2>1, <2>2, Zenon
<1>8. Size(w, e) = Size(r, e) - Size(r, w)
  <2> DEFINE i == Size(r, w)  j == Size(r, e)
  <2>1. i \in Int /\ j \in Int /\ i <= j /\ j - i < UINT
    BY <1>6
  <2> HIDE DEF i, j
  <2>2. Size((r + i) % UINT, (r + j) % UINT) = j - i
    BY <1>3, <2>1, SizeOf, Zenon
  <2> QED  BY <1>5, <2>2, Zenon DEF i, j
<1>9. ASSUME NEW a \in Int  PROVE Size(a, a) = 0
  <2>1. a - a = UINT * 0 + 0 /\ UINT \in Nat \ {0} /\ 0 \in Int /\ 0 \in 0..UINT-1
    OBVIOUS
  <2>2. (UINT * 0 + 0) % UINT = 0
    BY <2>1, ModIs, Zenon
  <2> QED  BY <2>1, <2>2, Zenon DEF Size
<1>10. (w = e) <=> (Size(r, w) = Size(r, e))
  BY <1>5, Zenon
<1>11. (r = w) <=> (Size(r, w) = 0)
  BY <1>3, <1>5, <1>7, <1>9, Zenon
<1> QED  BY <1>5, <1>6, <1>7, <1>8, <1>10, <1>11, Zenon DEF r, w, e

\* New indices given by their offsets from the old r are again in order.
LEMMA Moved_to ==
    ASSUME ConsTypeOK, NEW a \in Nat, NEW b \in Nat, NEW c \in Nat,
           a <= b, b <= c, c - a <= INPUT_BUF, c - a = INPUT_BUF => b = c,
           input'.r = (input.r + a) % UINT, input'.w = (input.r + b) % UINT,
           input'.e = (input.r + c) % UINT
    PROVE  /\ input'.r \in 0..UINT-1 /\ input'.w \in 0..UINT-1 /\ input'.e \in 0..UINT-1
           /\ Size(input'.r, input'.w) = b - a /\ Size(input'.r, input'.e) = c - a
           /\ InputWindow'
<1> USE ConsoleConstants
<1> DEFINE r == input.r  x == input'.r  y == input'.w  z == input'.e
<1>1. r \in Int
  BY DEF ConsTypeOK
<1>0. x = (r + a) % UINT /\ y = (r + b) % UINT /\ z = (r + c) % UINT
  BY Zenon
<1> HIDE DEF r, x, y, z
<1>2. UINT \in Nat \ {0} /\ r + a \in Int /\ r + b \in Int /\ r + c \in Int
  BY <1>1
<1>3. x \in 0..UINT-1 /\ y \in 0..UINT-1 /\ z \in 0..UINT-1
  BY <1>0, <1>2, DivMod, Zenon
<1>4. a \in Int /\ b \in Int /\ c \in Int /\ a <= b /\ a <= c /\ b - a < UINT /\ c - a < UINT
  OBVIOUS
<1>5. Size(x, y) = b - a
  BY <1>0, <1>1, <1>4, SizeOf, Zenon
<1>6. Size(x, z) = c - a
  BY <1>0, <1>1, <1>4, SizeOf, Zenon
<1>7. Size(x, y) <= Size(x, z) /\ Size(x, z) <= INPUT_BUF /\ (Size(x, z) = INPUT_BUF => y = z)
  BY <1>0, <1>4, <1>5, <1>6
<1> QED  BY <1>3, <1>5, <1>6, <1>7, Zenon DEF x, y, z, InputWindow, Size

\* The cell of the character at offset i.
LEMMA CellOf ==
    ASSUME ConsTypeOK, NEW i \in Int
    PROVE  /\ ((input.r + i) % UINT) % INPUT_BUF = (input.r + i) % INPUT_BUF
           /\ (input.r + i) % INPUT_BUF \in 0..INPUT_BUF-1
<1>1. INPUT_BUF \in Nat \ {0} /\ UINT \in Nat \ {0} /\ UINT % INPUT_BUF = 0 /\ input.r + i \in Int
  BY ConsoleConstants DEF ConsTypeOK
<1> QED  BY <1>1, NestedMod, DivMod, Zenon

\* The committed text.
LEMMA CommittedText ==
    ASSUME ConsTypeOK, InputWindow
    PROVE  /\ Committed \in Seq(Char) /\ Len(Committed) = Size(input.r, input.w)
           /\ \A k \in 1..Size(input.r, input.w) :
                 Committed[k] = input.buf[(input.r + (k - 1)) % INPUT_BUF]
<1> DEFINE n == Size(input.r, input.w)
           T(k) == input.buf[(input.r + k - 1) % INPUT_BUF]
<1>1. n \in Nat
  BY Offsets, ConsoleConstants
<1>2. ASSUME NEW k \in 1..n
      PROVE  T(k) \in Char /\ T(k) = input.buf[(input.r + (k - 1)) % INPUT_BUF]
  <2>1. k - 1 \in Int /\ input.r + k - 1 = input.r + (k - 1)
    BY <1>1 DEF ConsTypeOK
  <2>2. (input.r + (k - 1)) % INPUT_BUF \in 0..INPUT_BUF-1
    BY <2>1, CellOf, Zenon
  <2> QED  BY <2>1, <2>2, Zenon DEF ConsTypeOK
<1>3. Committed = [k \in 1..n |-> T(k)]
  BY Zenon DEF Committed, Text
<1> HIDE DEF n, T
<1>4. Committed \in [1..n -> Char]
  BY <1>2, <1>3, Zenon
<1>5. Committed \in Seq(Char) /\ Len(Committed) = n
  BY <1>1, <1>4
<1>6. \A k \in 1..n : Committed[k] = input.buf[(input.r + (k - 1)) % INPUT_BUF]
  BY <1>2, <1>3, Zenon
<1> QED  BY <1>5, <1>6, Zenon DEF n

\* want and got stay within one call's bound, and a reader between its test
\* and its sleep, or asleep, has found the buffer empty.
ReadInv ==
    \A u \in ConsReaders : /\ want[u] + got[u] <= MaxRead
                           /\ rpc[u] \in {"tosleep", "sleep"} => input.r = input.w

ConsInv == ConsTypeOK /\ InputWindow /\ ReadInv

\* What a key does to the buffer: it edits the text after w ...
KeepsCommitted ==
    /\ input' \in [buf : [0..INPUT_BUF-1 -> Char], r : Int, w : Int, e : Int]
    /\ \A k \in 0..Size(input.r, input.w)-1 :
          input'.buf[(input.r + k) % INPUT_BUF] = input.buf[(input.r + k) % INPUT_BUF]

Edits(d) ==
    /\ d = INPUT_BUF => d = Size(input.r, input.w)
    /\ input'.r = input.r /\ input'.w = input.w /\ input'.e = (input.r + d) % UINT
    /\ rpc' = rpc

\* ... or commits all there is, with one character more, and wakes the readers.
Commits ==
    /\ Size(input.r, input.e) < INPUT_BUF
    /\ input'.r = input.r
    /\ input'.w = (input.r + (Size(input.r, input.e) + 1)) % UINT /\ input'.e = input'.w
    /\ rpc' = ConsWakeup

LEMMA EditableLen ==
    ASSUME ConsTypeOK, InputWindow
    PROVE  LineStart \in 0..Size(input.w, input.e)
<1> DEFINE n == Size(input.w, input.e)
           S == {0} \cup {k \in 1..Len(Editable) : Editable[k] = "nl"}
           F == [k \in 1..n |-> input.buf[(input.w + k - 1) % INPUT_BUF]]
<1>1. n \in Nat
  <2>1. Size(input.r, input.e) \in Int /\ Size(input.r, input.w) \in Int
        /\ Size(input.r, input.w) <= Size(input.r, input.e)
    BY Offsets, ConsoleConstants
  <2> QED  BY <2>1, Offsets
<1>2. Len(Editable) = n
  <2>1. Editable = F
    BY Zenon DEF Editable, Text
  <2> HIDE DEF F
  <2>2. DOMAIN F = 1..n /\ F \in Seq({F[k] : k \in 1..n})
    <3>1. DOMAIN F = 1..n /\ F = [k \in 1..n |-> F[k]]
      BY Zenon DEF F
    <3> HIDE DEF n
    <3>2. F \in [1..n -> {F[k] : k \in 1..n}]
      BY <3>1, Zenon
    <3> QED  BY <1>1, <3>1, <3>2
  <2> HIDE DEF n
  <2> QED  BY <1>1, <2>1, <2>2
<1>3. S \in SUBSET (0..n) /\ S # {}
  <2> HIDE DEF n
  <2> QED  BY <1>1, <1>2
<1> HIDE DEF n, S
<1>4. Max(S) \in S
  BY <1>1, <1>3, LargestIsIn, Zenon
<1> QED  BY <1>3, <1>4, Zenon DEF LineStart, S, n

LEMMA KeyEffect ==
    ASSUME ConsInv, NEW c \in Key, consoleintr(c)
    PROVE  /\ KeepsCommitted
           /\ \/ \E d \in Size(input.r, input.w)..INPUT_BUF : Edits(d)
              \/ Commits
<1> USE ConsoleConstants
<1> DEFINE r == input.r
           W == Size(input.r, input.w)
           E == Size(input.r, input.e)
<1>1. ConsTypeOK /\ InputWindow
  BY Zenon DEF ConsInv
<1>2. /\ W \in 0..INPUT_BUF /\ E \in W..INPUT_BUF /\ r \in 0..UINT-1
      /\ input.w = (r + W) % UINT /\ input.e = (r + E) % UINT
      /\ Size(input.w, input.e) = E - W
      /\ (input.w = input.e) <=> (W = E)
      /\ E = INPUT_BUF => W = E
  <2>1. r \in 0..UINT-1
    BY <1>1, Zenon DEF ConsTypeOK
  <2>2. E = INPUT_BUF => W = E
    BY <1>1, Offsets, Zenon DEF InputWindow
  <2> QED  BY <1>1, <2>1, <2>2, Offsets, Zenon
<1>3. /\ input \in [buf : [0..INPUT_BUF-1 -> Char], r : 0..UINT-1, w : 0..UINT-1, e : 0..UINT-1]
  BY <1>1, Zenon DEF ConsTypeOK
<1>n. W \in 0..INPUT_BUF /\ E \in W..INPUT_BUF /\ r \in 0..UINT-1
  BY <1>2, Zenon
<1>4. ASSUME input' = input, rpc' = rpc
      PROVE  KeepsCommitted /\ Edits(E)
  BY <1>2, <1>3, <1>4 DEF KeepsCommitted, Edits
<1>5. ASSUME NEW d \in W..E, input' = [input EXCEPT !.e = (r + d) % UINT], rpc' = rpc
      PROVE  KeepsCommitted /\ Edits(d)
  <2> DEFINE v == (r + d) % UINT
  <2>1. v \in Int
    BY <1>2
  <2>2. d = INPUT_BUF => d = W
    BY <1>2
  <2>3. input'.buf = input.buf /\ input'.r = input.r /\ input'.w = input.w
        /\ input'.e = v
    BY <1>3, <1>5, Zenon
  <2>4. input' \in [buf : [0..INPUT_BUF-1 -> Char], r : Int, w : Int, e : Int]
    <3>1. input' = [input EXCEPT !.e = v]
      BY <1>5, Zenon
    <3> HIDE DEF v
    <3>2. input' = [buf |-> input.buf, r |-> input.r, w |-> input.w, e |-> v]
      BY <1>3, <3>1, Zenon
    <3>3. input.buf \in [0..INPUT_BUF-1 -> Char] /\ input.r \in Int /\ input.w \in Int
      BY <1>3
    <3> QED  BY <2>1, <3>2, <3>3, Zenon
  <2> QED  BY <1>5, <2>2, <2>3, <2>4, Zenon DEF KeepsCommitted, Edits
<1>6. CASE c = "kill"
  <2> DEFINE L == LineStart
  <2>1. L \in 0..(E - W)
    BY <1>1, <1>2, EditableLen, Zenon
  <2>2. input' = [input EXCEPT !.e = (input.w + L) % UINT] /\ rpc' = rpc
    BY <1>6, Zenon DEF consoleintr, Char
  <2> HIDE DEF L
  <2>3. W + L \in W..E
    BY <1>2, <2>1
  <2>4. (input.w + L) % UINT = (r + (W + L)) % UINT
    <3>1. UINT \in Nat \ {0} /\ r + W \in Int /\ L \in Int /\ (r + W) + L = r + (W + L)
      BY <1>2, <2>1
    <3>2. (((r + W) % UINT) + L) % UINT = ((r + W) + L) % UINT
      BY <3>1, AddMod, Zenon
    <3> QED  BY <1>2, <3>1, <3>2, Zenon
  <2>5. KeepsCommitted /\ Edits(W + L)
    BY <1>5, <2>2, <2>3, <2>4, Zenon
  <2>6. W + L \in W..INPUT_BUF
    BY <1>2, <2>3
  <2> QED  BY <2>5, <2>6, Zenon
<1>7. CASE c = "bs"
  <2>1. input' = (IF CanErase THEN [input EXCEPT !.e = (input.e - 1) % UINT] ELSE input)
        /\ rpc' = rpc
    BY <1>7, Zenon DEF consoleintr, Char
  <2>2. CASE ~CanErase
    <3>1. input' = input
      BY <2>1, <2>2, Zenon
    <3>2. E \in W..INPUT_BUF
      BY <1>2, Zenon
    <3> QED  BY <1>4, <2>1, <3>1, <3>2, Zenon
  <2>3. CASE CanErase
    <3>1. W # E
      BY <1>2, <2>3, Zenon DEF CanErase
    <3>2. E - 1 \in W..E
      BY <1>2, <3>1
    <3>3. (input.e - 1) % UINT = (r + (E - 1)) % UINT
      <4>1. UINT \in Nat \ {0} /\ r + E \in Int /\ -1 \in Int /\ (r + E) + (-1) = r + (E - 1)
            /\ input.e - 1 = input.e + (-1)
        <5>1. input.e \in Int
          BY <1>3
        <5> HIDE DEF E, r
        <5> QED  BY <1>n, <5>1
      <4>2. (((r + E) % UINT) + (-1)) % UINT = ((r + E) + (-1)) % UINT
        BY <4>1, AddMod, Zenon
      <4> QED  BY <1>2, <4>1, <4>2, Zenon
    <3>4. KeepsCommitted /\ Edits(E - 1)
      BY <1>5, <2>1, <2>3, <3>2, <3>3, Zenon
    <3>5. E - 1 \in W..INPUT_BUF
      BY <1>2, <3>2
    <3> QED  BY <3>4, <3>5, Zenon
  <2> QED  BY <2>2, <2>3, Zenon
<1>8. CASE input' = input /\ rpc' = rpc
  <2>1. E \in W..INPUT_BUF
    BY <1>2, Zenon
  <2> QED  BY <1>4, <1>8, <2>1, Zenon
<1>9. ASSUME c \in Char \cup {"cr"}, InputRoom, Typed(c)
      PROVE  /\ KeepsCommitted
             /\ \/ \E d \in W..INPUT_BUF : Edits(d)
                \/ Commits
  <2> DEFINE ch  == IF c = "cr" THEN "nl" ELSE c
             i   == input.e % INPUT_BUF
             e2  == (input.e + 1) % UINT
             inp == [input EXCEPT !.buf[i] = ch, !.e = e2]
  <2>1. E < INPUT_BUF /\ ch \in Char
    BY <1>9, Zenon DEF InputRoom, Char
  <2>2. i = (r + E) % INPUT_BUF /\ i \in 0..INPUT_BUF-1
    <3>1. E \in Int
      BY <1>2
    <3> QED  BY <1>1, <1>2, <3>1, CellOf, Zenon
  <2>3. e2 = (r + (E + 1)) % UINT
    <3>1. UINT \in Nat \ {0} /\ r + E \in Int /\ 1 \in Int /\ (r + E) + 1 = r + (E + 1)
      BY <1>2
    <3>2. (((r + E) % UINT) + 1) % UINT = ((r + E) + 1) % UINT
      BY <3>1, AddMod, Zenon
    <3> QED  BY <1>2, <3>1, <3>2, Zenon
  <2>4. inp.r = input.r /\ inp.w = input.w /\ inp.e = e2
        /\ inp.buf = [input.buf EXCEPT ![i] = ch]
    BY <1>3, Zenon
  <2>5. inp \in [buf : [0..INPUT_BUF-1 -> Char], r : Int, w : Int, e : Int]
    <3>1. e2 \in Int
      BY <1>3
    <3>2. [input.buf EXCEPT ![i] = ch] \in [0..INPUT_BUF-1 -> Char]
      BY <1>3, <2>1, Zenon
    <3> HIDE DEF e2, ch, i
    <3>3. inp = [buf |-> [input.buf EXCEPT ![i] = ch], r |-> input.r, w |-> input.w, e |-> e2]
      <4> DEFINE J == [input EXCEPT !.buf[i] = ch]
                 B == [input.buf EXCEPT ![i] = ch]
      <4>1. J = [buf |-> B, r |-> input.r, w |-> input.w, e |-> input.e]
        BY <1>3
      <4>2. inp = [J EXCEPT !.e = e2]
        BY Zenon
      <4> HIDE DEF J, B
      <4> QED  BY <4>1, <4>2 DEF B
    <3>4. input.r \in Int /\ input.w \in Int
      BY <1>3
    <3> HIDE DEF inp
    <3> QED  BY <3>1, <3>2, <3>3, <3>4, Zenon
  <2>6. IF CommitNow(inp, ch)
        THEN input' = [inp EXCEPT !.w = inp.e] /\ rpc' = ConsWakeup
        ELSE input' = inp /\ rpc' = rpc
    BY <1>9, Zenon DEF Typed
  <2>7. ASSUME NEW k \in 0..W-1
        PROVE  (r + k) % INPUT_BUF # i /\ (r + k) % INPUT_BUF \in 0..INPUT_BUF-1
    <3>1. INPUT_BUF \in Nat \ {0} /\ r + k \in Int /\ r + E \in Int /\ k \in Int
          /\ r + k < r + E /\ r + E - (r + k) < INPUT_BUF
      BY <1>2, <2>1
    <3>2. (r + k) % INPUT_BUF # (r + E) % INPUT_BUF
      <4> DEFINE x == r + k  y == r + E
      <4>1. x \in Int /\ y \in Int /\ x # y /\ x - y < INPUT_BUF /\ y - x < INPUT_BUF
        BY <1>2, <2>1, <3>1
      <4> HIDE DEF x, y
      <4>2. x % INPUT_BUF # y % INPUT_BUF
        BY <3>1, <4>1, ModApart, Zenon
      <4> QED  BY <4>2, Zenon DEF x, y
    <3> QED  BY <1>1, <2>2, <3>1, <3>2, CellOf, Zenon
  <2> HIDE DEF inp, e2, i, ch
  <2>8. CASE CommitNow(inp, ch)
    <3>1. input' = [inp EXCEPT !.w = inp.e] /\ rpc' = ConsWakeup
      BY <2>6, <2>8, Zenon
    <3>2. /\ input' \in [buf : [0..INPUT_BUF-1 -> Char], r : Int, w : Int, e : Int]
          /\ input'.buf = inp.buf /\ input'.r = inp.r /\ input'.w = inp.e /\ input'.e = inp.e
      BY <2>5, <3>1, Zenon
    <3>3. Commits
      BY <2>1, <2>3, <2>4, <3>1, <3>2 DEF Commits
    <3>4. KeepsCommitted
      BY <1>3, <2>1, <2>2, <2>4, <2>7, <3>2 DEF KeepsCommitted
    <3> QED  BY <3>3, <3>4, Zenon
  <2>9. CASE ~CommitNow(inp, ch)
    <3>1. input' = inp /\ rpc' = rpc
      BY <2>6, <2>9, Zenon
    <3>2. E + 1 # INPUT_BUF
      <4>1. inp.e # (inp.r + INPUT_BUF) % UINT
        BY <2>9, Zenon DEF CommitNow
      <4> QED  BY <2>3, <2>4, <4>1, Zenon
    <3>3. E + 1 \in W..INPUT_BUF
      BY <1>2, <2>1
    <3>4. Edits(E + 1)
      BY <2>3, <2>4, <3>1, <3>2, Zenon DEF Edits
    <3>5. KeepsCommitted
      BY <1>3, <2>1, <2>2, <2>4, <2>5, <2>7, <3>1 DEF KeepsCommitted
    <3> QED  BY <3>3, <3>4, <3>5, Zenon
  <2> QED  BY <2>8, <2>9, Zenon
<1>10. \/ c = "kill" \/ c = "bs" \/ (input' = input /\ rpc' = rpc)
       \/ (c \in Char \cup {"cr"} /\ InputRoom /\ Typed(c))
  BY Zenon DEF consoleintr
<1> QED  BY <1>6, <1>7, <1>8, <1>9, <1>10, Zenon

LEMMA KeyStep ==
    ASSUME ConsInv, NEW c \in Key, consoleintr(c)
    PROVE  ConsInv'
<1> USE ConsoleConstants
<1> DEFINE r == input.r
           W == Size(input.r, input.w)
           E == Size(input.r, input.e)
<1>1. ConsTypeOK /\ InputWindow /\ ReadInv
  BY Zenon DEF ConsInv
<1>2. /\ W \in 0..INPUT_BUF /\ E \in W..INPUT_BUF
      /\ input.r = (r + 0) % UINT /\ input.w = (r + W) % UINT
  BY <1>1, Offsets, Zenon
<1>3. KeepsCommitted /\ ((\E d \in W..INPUT_BUF : Edits(d)) \/ Commits)
  BY KeyEffect, Zenon
<1>4. UNCHANGED <<want, got, kills, lastread>>
  BY Zenon DEF consoleintr
<1>5. ASSUME InputWindow', input'.r \in 0..UINT-1, input'.w \in 0..UINT-1, input'.e \in 0..UINT-1,
             rpc' \in [ConsReaders -> {"idle", "call", "tosleep", "sleep"}]
      PROVE  ConsTypeOK'
  <2>1. input' = [buf |-> input'.buf, r |-> input'.r, w |-> input'.w, e |-> input'.e]
        /\ input'.buf \in [0..INPUT_BUF-1 -> Char]
    BY <1>3, Zenon DEF KeepsCommitted
  <2>2. input' \in [buf : [0..INPUT_BUF-1 -> Char], r : 0..UINT-1, w : 0..UINT-1, e : 0..UINT-1]
    BY <1>5, <2>1, Zenon
  <2> QED  BY <1>1, <1>4, <1>5, <2>2 DEF ConsTypeOK
<1>6. ASSUME NEW d \in W..INPUT_BUF, Edits(d)  PROVE ConsInv'
  <2>1. 0 \in Nat /\ W \in Nat /\ d \in Nat /\ 0 <= W /\ W <= d /\ d - 0 <= INPUT_BUF
    BY <1>2
  <2>2. d - 0 = INPUT_BUF => W = d
    BY <1>2, <1>6 DEF Edits
  <2>3. input'.r = (r + 0) % UINT /\ input'.w = (r + W) % UINT /\ input'.e = (r + d) % UINT
    BY <1>2, <1>6, Zenon DEF Edits
  <2>4. InputWindow' /\ input'.r \in 0..UINT-1 /\ input'.w \in 0..UINT-1 /\ input'.e \in 0..UINT-1
    BY <1>1, <2>1, <2>2, <2>3, Moved_to, Zenon
  <2>5. rpc' = rpc /\ input'.r = input.r /\ input'.w = input.w
    BY <1>6, Zenon DEF Edits
  <2>6. ConsTypeOK'
    BY <1>1, <1>5, <2>4, <2>5, Zenon DEF ConsTypeOK
  <2>7. ReadInv'
    BY <1>1, <1>4, <2>5, Zenon DEF ReadInv
  <2> QED  BY <2>4, <2>6, <2>7, Zenon DEF ConsInv
<1>7. CASE Commits
  <2> DEFINE b == E + 1
  <2>1. 0 \in Nat /\ b \in Nat /\ 0 <= b /\ b <= b /\ b - 0 <= INPUT_BUF
    BY <1>2, <1>7 DEF Commits
  <2>3. input'.r = (r + 0) % UINT /\ input'.w = (r + b) % UINT /\ input'.e = (r + b) % UINT
    BY <1>2, <1>7, Zenon DEF Commits
  <2> HIDE DEF b
  <2>4. InputWindow' /\ input'.r \in 0..UINT-1 /\ input'.w \in 0..UINT-1 /\ input'.e \in 0..UINT-1
    BY <1>1, <2>1, <2>3, Moved_to, Zenon
  <2>5. rpc' = [u \in ConsReaders |-> IF rpc[u] = "sleep" THEN "call" ELSE rpc[u]]
    BY <1>7, Zenon DEF Commits, ConsWakeup
  <2>6. \A u \in ConsReaders : rpc[u] \in {"idle", "call", "tosleep", "sleep"}
                               /\ rpc[u] # "tosleep"
    BY <1>1, Zenon DEF ConsTypeOK, consoleintr, ConsLocked
  <2>7. ConsTypeOK'
    BY <1>5, <2>4, <2>5, <2>6, Zenon
  <2>8. ReadInv'
    BY <1>1, <1>4, <2>5, <2>6, Zenon DEF ReadInv
  <2> QED  BY <2>4, <2>7, <2>8, Zenon DEF ConsInv
<1> QED  BY <1>3, <1>6, <1>7, Zenon

\* What the loop of consoleread stores, and where it stops.
LEMMA StoredIs ==
    ASSUME ConsInv, NEW n \in Nat
    PROVE  /\ Stored(n) \in 0..n /\ Stored(n) <= Len(Committed)
           /\ \A i \in 1..Stored(n) : Committed[i] # "eof"
           /\ Stored(n) < n /\ Stored(n) < Len(Committed)
              /\ ~(Stored(n) > 0 /\ Committed[Stored(n)] = "nl")
                => Committed[Stored(n) + 1] = "eof"
<1> DEFINE C == Committed
           P(k) == /\ k <= Len(C)
                   /\ \A i \in 1..k : C[i] # "eof"
                   /\ \A i \in 1..k-1 : C[i] # "nl"
           S == {k \in 0..n : P(k)}
           m == Max(S)
<1>1. C \in Seq(Char) /\ Len(C) \in Nat
  <2>1. C \in Seq(Char)
    BY CommittedText, Zenon DEF ConsInv
  <2> QED  BY <2>1
<1> HIDE DEF C
<1>2. 0 \in S
  BY <1>1
<1>3. S \in SUBSET (0..n) /\ S # {}
  BY <1>2, Zenon
<1>4. m \in S /\ \A y \in S : m >= y
  <2> HIDE DEF S
  <2> QED  BY <1>3, LargestIsIn, Zenon
<1>5. Stored(n) = m
  BY Zenon DEF Stored, C
<1>6. m \in 0..n /\ P(m)
  BY <1>4, Zenon
<1>7. ASSUME m < n, m < Len(C), ~(m > 0 /\ C[m] = "nl")
      PROVE  C[m + 1] = "eof"
  <2>1. m + 1 \notin S
    <3> HIDE DEF S, m
    <3>1. m \in 0..n
      BY <1>6, Zenon
    <3> QED  BY <1>4, <3>1
  <2> HIDE DEF m
  <2>2. m + 1 \in 0..n /\ m + 1 <= Len(C)
    BY <1>1, <1>6, <1>7
  <2>3. ~P(m + 1)
    BY <2>1, <2>2, Zenon
  <2> HIDE DEF S
  <2>4. PICK i \in 1..m+1 : C[i] = "eof" \/ (i <= m /\ C[i] = "nl")
    <3>1. m \in Int /\ \A i \in 1..(m + 1) - 1 : i \in 1..m+1 /\ i <= m
      BY <1>6
    <3> QED  BY <2>2, <2>3, <3>1, Zenon
  <2>5. CASE C[i] = "eof"
    BY <1>6, <2>5
  <2>6. CASE i <= m /\ C[i] = "nl"
    BY <1>6, <1>7, <2>6
  <2> QED  BY <2>4, <2>5, <2>6, Zenon
<1> HIDE DEF m, S
<1> QED  BY <1>5, <1>6, <1>7, Zenon DEF C

\* The loop of consoleread takes characters from the front, and it takes a
\* C('D') only when it returns 0.
Takes(u, j) ==
    /\ input' = [input EXCEPT !.r = (input.r + j) % UINT]
    /\ \A i \in 1..j : Committed[i] = "eof" => lastread' = 0
    /\ kills' = kills
    /\ \/ \E t \in -1..MaxRead : Finish(u, t)
       \/ \E k \in 0..want[u] :
            /\ j = Len(Committed) /\ k = j
            /\ rpc' = [rpc EXCEPT ![u] = "tosleep"]
            /\ got' = [got EXCEPT ![u] = got[u] + k] /\ want' = [want EXCEPT ![u] = want[u] - k]
            /\ lastread' = lastread

LEMMA LoopEffect ==
    ASSUME ConsInv, NEW u \in ConsReaders, consoleread_loop(u)
    PROVE  \E j \in 0..Len(Committed) : Takes(u, j)
<1> USE ConsoleConstants
<1> DEFINE C == Committed
           L == Len(C)
           k == Stored(want[u])
           total == got[u] + k
           rest == L - k
           done == k = want[u] \/ (k > 0 /\ C[k] = "nl")
           ateof == ~done /\ rest > 0
           used == IF ateof /\ ~SaveEof(total) THEN k + 1 ELSE k
<1>1. ConsTypeOK /\ InputWindow /\ ReadInv
  BY Zenon DEF ConsInv
<1>2. want[u] \in 0..MaxRead /\ got[u] \in 0..MaxRead /\ want[u] + got[u] <= MaxRead
  BY <1>1, Zenon DEF ConsTypeOK, ReadInv
<1>3. L \in Nat
  <2>1. C \in Seq(Char)
    BY <1>1, CommittedText, Zenon
  <2> QED  BY <2>1
<1>4. /\ k \in 0..want[u] /\ k <= L
      /\ \A i \in 1..k : C[i] # "eof"
      /\ ateof => C[k + 1] = "eof"
  <2>1. want[u] \in Nat
    BY <1>2
  <2>2. /\ k \in 0..want[u] /\ k <= L
        /\ \A i \in 1..k : C[i] # "eof"
        /\ k < want[u] /\ k < L /\ ~(k > 0 /\ C[k] = "nl") => C[k + 1] = "eof"
    BY <2>1, StoredIs, Zenon
  <2> HIDE DEF k, C, L
  <2> QED  BY <1>2, <1>3, <2>2
<1>5. /\ input' = [input EXCEPT !.r = (input.r + used) % UINT]
      /\ IF done \/ ateof THEN Finish(u, total)
         ELSE IF u \in kills THEN Finish(u, -1)
         ELSE /\ rpc' = [rpc EXCEPT ![u] = "tosleep"]
              /\ got' = [got EXCEPT ![u] = total] /\ want' = [want EXCEPT ![u] = want[u] - k]
              /\ lastread' = lastread
      /\ kills' = kills
  BY Zenon DEF consoleread_loop
<1> HIDE DEF C, L, k
<1>6. used \in 0..L /\ total \in 0..MaxRead
  BY <1>2, <1>3, <1>4
<1>7. ASSUME NEW i \in 1..used, C[i] = "eof"  PROVE lastread' = 0
  <2>1. ateof /\ ~SaveEof(total)
    BY <1>3, <1>4, <1>7, Zenon
  <2>2. total = 0
    BY <1>2, <1>4, <2>1 DEF SaveEof
  <2> QED  BY <1>5, <2>1, <2>2, Zenon DEF Finish
<1>8. \/ \E t \in -1..MaxRead : Finish(u, t)
      \/ /\ used = L /\ k = used
         /\ rpc' = [rpc EXCEPT ![u] = "tosleep"]
         /\ got' = [got EXCEPT ![u] = got[u] + k] /\ want' = [want EXCEPT ![u] = want[u] - k]
         /\ lastread' = lastread
  <2>1. CASE done \/ ateof
    <3>1. total \in -1..MaxRead
      BY <1>6
    <3> HIDE DEF total
    <3> QED  BY <1>5, <2>1, <3>1, Zenon
  <2>2. CASE ~(done \/ ateof) /\ u \in kills
    <3>1. -1 \in -1..MaxRead
      OBVIOUS
    <3> QED  BY <1>5, <2>2, <3>1, Zenon
  <2>3. CASE ~(done \/ ateof) /\ u \notin kills
    <3>1. k \in Int /\ k <= L
      BY <1>2, <1>4
    <3>2. used = k /\ ~(L - k > 0)
      BY <2>3, Zenon
    <3>3. used = L /\ k = used
      <4> HIDE DEF used
      <4> QED  BY <1>3, <3>1, <3>2
    <3> QED  BY <1>5, <2>3, <3>3, Zenon
  <2> QED  BY <2>1, <2>2, <2>3
<1> HIDE DEF used
<1>9. Takes(u, used)
  BY <1>4, <1>5, <1>7, <1>8, Zenon DEF Takes, L, C
<1> QED  BY <1>6, <1>9, Zenon DEF L, C

LEMMA LoopStep ==
    ASSUME ConsInv, NEW u \in ConsReaders, consoleread_loop(u)
    PROVE  ConsInv'
<1> USE ConsoleConstants
<1> DEFINE r == input.r
           W == Size(input.r, input.w)
           E == Size(input.r, input.e)
<1>1. ConsTypeOK /\ InputWindow /\ ReadInv
  BY Zenon DEF ConsInv
<1>2. /\ W \in 0..INPUT_BUF /\ E \in W..INPUT_BUF
      /\ input.r = (r + 0) % UINT /\ input.w = (r + W) % UINT /\ input.e = (r + E) % UINT
      /\ (input.r = input.w) <=> (W = 0)
      /\ (input.w = input.e) <=> (W = E)
  BY <1>1, Offsets, Zenon
<1>3. PICK j \in 0..Len(Committed) : Takes(u, j)
  BY LoopEffect, Zenon
<1>4. Len(Committed) = W /\ j \in 0..W
  BY <1>1, <1>3, CommittedText, Zenon
<1>5. /\ input' = [input EXCEPT !.r = (r + j) % UINT] /\ kills' = kills
      /\ \/ \E t \in -1..MaxRead : Finish(u, t)
         \/ \E k \in 0..want[u] :
              /\ j = W
              /\ rpc' = [rpc EXCEPT ![u] = "tosleep"]
              /\ got' = [got EXCEPT ![u] = got[u] + k] /\ want' = [want EXCEPT ![u] = want[u] - k]
              /\ lastread' = lastread
  BY <1>3, <1>4, Zenon DEF Takes
<1>6. input'.r = (r + j) % UINT /\ input'.w = (r + W) % UINT /\ input'.e = (r + E) % UINT
      /\ input'.buf = input.buf /\ input'.w = input.w
      /\ input' = [buf |-> input'.buf, r |-> input'.r, w |-> input'.w, e |-> input'.e]
  BY <1>1, <1>2, <1>5, Zenon DEF ConsTypeOK
<1>7. InputWindow' /\ input'.r \in 0..UINT-1 /\ input'.w \in 0..UINT-1 /\ input'.e \in 0..UINT-1
  <2>1. j \in Nat /\ W \in Nat /\ E \in Nat /\ j <= W /\ W <= E /\ E - j <= INPUT_BUF
    BY <1>2, <1>4
  <2>2. E - j = INPUT_BUF => W = E
    <3>1. E = INPUT_BUF => W = E
      BY <1>1, <1>2, Zenon DEF InputWindow
    <3> QED  BY <1>2, <1>4, <3>1
  <2> QED  BY <1>1, <1>6, <2>1, <2>2, Moved_to, Zenon
<1>8. input' \in [buf : [0..INPUT_BUF-1 -> Char], r : 0..UINT-1, w : 0..UINT-1, e : 0..UINT-1]
  <2>1. input'.buf \in [0..INPUT_BUF-1 -> Char]
    BY <1>1, <1>6, Zenon DEF ConsTypeOK
  <2> QED  BY <1>6, <1>7, <2>1, Zenon
<1>9. \A v \in ConsReaders : rpc[v] # "tosleep"
  BY Zenon DEF consoleread_loop, ConsLocked
<1>10. ASSUME NEW v \in ConsReaders, rpc[v] = "sleep"  PROVE input'.r = input'.w
  <2>1. W = 0
    BY <1>1, <1>2, <1>10, Zenon DEF ReadInv
  <2>2. j = 0
    BY <1>4, <2>1
  <2> QED  BY <1>6, <2>1, <2>2, Zenon
<1>11. \A v \in ConsReaders : want[v] \in 0..MaxRead /\ got[v] \in 0..MaxRead
                              /\ want[v] + got[v] <= MaxRead
  BY <1>1, Zenon DEF ConsTypeOK, ReadInv
<1>12. CASE \E t \in -1..MaxRead : Finish(u, t)
  <2>1. PICK t \in -1..MaxRead : Finish(u, t)
    BY <1>12, Zenon
  <2>2. /\ lastread' = t /\ rpc' = [rpc EXCEPT ![u] = "idle"]
        /\ want' = [want EXCEPT ![u] = 0] /\ got' = [got EXCEPT ![u] = 0]
    BY <2>1, Zenon DEF Finish
  <2>3. ConsTypeOK'
    <3>1. kills' = kills
      BY <1>5, Zenon
    <3>2. want' \in [ConsReaders -> 0..MaxRead] /\ got' \in [ConsReaders -> 0..MaxRead]
      BY <1>1, <2>2 DEF ConsTypeOK
    <3>3. rpc' \in [ConsReaders -> {"idle", "call", "tosleep", "sleep"}]
      BY <1>1, <2>2, Zenon DEF ConsTypeOK
    <3> QED  BY <1>1, <1>8, <2>2, <3>1, <3>2, <3>3 DEF ConsTypeOK
  <2>4. ASSUME NEW v \in ConsReaders
        PROVE  /\ want'[v] + got'[v] <= MaxRead
               /\ rpc'[v] \in {"tosleep", "sleep"} => input'.r = input'.w
    <3>1. CASE v = u
      BY <1>1, <2>2, <3>1 DEF ConsTypeOK
    <3>2. CASE v # u
      <4>1. rpc'[v] = rpc[v] /\ want'[v] = want[v] /\ got'[v] = got[v]
        BY <1>1, <2>2, <3>2, Zenon DEF ConsTypeOK
      <4> QED  BY <1>9, <1>10, <1>11, <4>1, Zenon
    <3> QED  BY <3>1, <3>2, Zenon
  <2> QED  BY <1>7, <2>3, <2>4, Zenon DEF ConsInv, ReadInv
<1>13. CASE \E k \in 0..want[u] :
              /\ j = W
              /\ rpc' = [rpc EXCEPT ![u] = "tosleep"]
              /\ got' = [got EXCEPT ![u] = got[u] + k] /\ want' = [want EXCEPT ![u] = want[u] - k]
              /\ lastread' = lastread
  <2>1. PICK k \in 0..want[u] :
              /\ j = W
              /\ rpc' = [rpc EXCEPT ![u] = "tosleep"]
              /\ got' = [got EXCEPT ![u] = got[u] + k] /\ want' = [want EXCEPT ![u] = want[u] - k]
              /\ lastread' = lastread
    BY <1>13, Zenon
  <2>2. got[u] + k \in 0..MaxRead /\ want[u] - k \in 0..MaxRead
        /\ (want[u] - k) + (got[u] + k) <= MaxRead
    <3>1. want[u] \in 0..MaxRead /\ got[u] \in 0..MaxRead /\ want[u] + got[u] <= MaxRead
      BY <1>11, Zenon
    <3> QED  BY <3>1
  <2>3. ConsTypeOK'
    <3> DEFINE g == got[u] + k  w2 == want[u] - k
    <3>1. got' = [got EXCEPT ![u] = g] /\ want' = [want EXCEPT ![u] = w2]
          /\ g \in 0..MaxRead /\ w2 \in 0..MaxRead
      BY <2>1, <2>2, Zenon
    <3> HIDE DEF g, w2
    <3>2. kills' = kills
      BY <1>5, Zenon
    <3>3. want' \in [ConsReaders -> 0..MaxRead] /\ got' \in [ConsReaders -> 0..MaxRead]
      BY <1>1, <3>1, Zenon DEF ConsTypeOK
    <3>4. rpc' \in [ConsReaders -> {"idle", "call", "tosleep", "sleep"}] /\ lastread' = lastread
      BY <1>1, <2>1, Zenon DEF ConsTypeOK
    <3> QED  BY <1>1, <1>8, <3>2, <3>3, <3>4, Zenon DEF ConsTypeOK
  <2>4. ASSUME NEW v \in ConsReaders
        PROVE  /\ want'[v] + got'[v] <= MaxRead
               /\ rpc'[v] \in {"tosleep", "sleep"} => input'.r = input'.w
    <3>1. CASE v = u
      <4>1. want'[v] = want[u] - k /\ got'[v] = got[u] + k
        BY <1>1, <2>1, <3>1, Zenon DEF ConsTypeOK
      <4> QED  BY <1>6, <2>1, <2>2, <4>1, Zenon
    <3>2. CASE v # u
      <4>1. rpc'[v] = rpc[v] /\ want'[v] = want[v] /\ got'[v] = got[v]
        BY <1>1, <2>1, <3>2, Zenon DEF ConsTypeOK
      <4> QED  BY <1>9, <1>10, <1>11, <4>1
    <3> QED  BY <3>1, <3>2, Zenon
  <2> QED  BY <1>7, <2>3, <2>4, Zenon DEF ConsInv, ReadInv
<1> QED  BY <1>5, <1>12, <1>13

LEMMA ConsStarts == ConsInit => ConsInv
<1> USE ConsoleConstants
<1> SUFFICES ASSUME ConsInit  PROVE ConsInv
  BY Zenon
<1>1. ConsTypeOK
  BY DEF ConsInit, ConsTypeOK, Char
<1>2. input.r = 0 /\ input.w = 0 /\ input.e = 0
  BY Zenon DEF ConsInit
<1>3. Size(0, 0) = 0
  <2>1. 0 - 0 = UINT * 0 + 0 /\ UINT \in Nat \ {0} /\ 0 \in Int /\ 0 \in 0..UINT-1
    OBVIOUS
  <2>2. (UINT * 0 + 0) % UINT = 0
    BY <2>1, ModIs, Zenon
  <2> QED  BY <2>1, <2>2, Zenon DEF Size
<1>4. InputWindow
  BY <1>2, <1>3 DEF InputWindow
<1>5. ReadInv
  BY DEF ConsInit, ReadInv
<1> QED  BY <1>1, <1>4, <1>5, Zenon DEF ConsInv

LEMMA ConsStep ==
    ASSUME ConsInv, [ConsNext]_consVars
    PROVE  ConsInv'
<1> USE ConsoleConstants
<1>1. ConsTypeOK /\ InputWindow /\ ReadInv
  BY Zenon DEF ConsInv
<1>2. ASSUME input' = input  PROVE InputWindow'
  BY <1>1, <1>2, Zenon DEF InputWindow, Size
<1>3. CASE UNCHANGED consVars
  <2>1. InputWindow'
    BY <1>2, <1>3, Zenon DEF consVars
  <2> QED  BY <1>1, <1>3, <2>1, Zenon DEF consVars, ConsInv, ConsTypeOK, ReadInv
<1>4. CASE \E c \in Key : consoleintr(c)
  BY <1>4, KeyStep, Zenon
<1>5. ASSUME NEW u \in ConsReaders, NEW n \in 0..MaxRead, consoleread(u, n)  PROVE ConsInv'
  <2>1. InputWindow'
    BY <1>2, <1>5, Zenon DEF consoleread
  <2>2. ConsTypeOK'
    BY <1>1, <1>5 DEF consoleread, ConsTypeOK
  <2>3. ReadInv'
    BY <1>1, <1>5 DEF consoleread, ConsTypeOK, ReadInv
  <2> QED  BY <2>1, <2>2, <2>3, Zenon DEF ConsInv
<1>6. ASSUME NEW u \in ConsReaders, consoleread_sleep(u)  PROVE ConsInv'
  <2>1. InputWindow'
    BY <1>2, <1>6, Zenon DEF consoleread_sleep
  <2>2. ConsTypeOK'
    BY <1>1, <1>6, Zenon DEF consoleread_sleep, ConsTypeOK
  <2>3. ReadInv'
    BY <1>1, <1>6, Zenon DEF consoleread_sleep, ConsTypeOK, ReadInv
  <2> QED  BY <2>1, <2>2, <2>3, Zenon DEF ConsInv
<1>7. ASSUME NEW u \in ConsReaders, cons_kill(u)  PROVE ConsInv'
  <2>1. InputWindow'
    BY <1>2, <1>7, Zenon DEF cons_kill
  <2>2. ConsTypeOK'
    BY <1>1, <1>7, Zenon DEF cons_kill, ConsTypeOK
  <2>3. ReadInv'
    BY <1>1, <1>7, Zenon DEF cons_kill, ConsTypeOK, ReadInv
  <2> QED  BY <2>1, <2>2, <2>3, Zenon DEF ConsInv
<1> QED  BY <1>3, <1>4, <1>5, <1>6, <1>7, LoopStep, Zenon DEF ConsNext

LEMMA ConsInvariant == ConsSpec => []ConsInv
BY ConsStarts, ConsStep, PTL DEF ConsSpec

\* A reader of the console never sleeps over committed input, and the indices
\* of the ring keep their order across the wrap of the uints, with a full
\* buffer always committed (consoleintr and consoleread).
THEOREM ConsoleSound == ConsSpec => [](ConsTypeOK /\ InputWindow /\ NoSleeperWithInput)
<1>1. ConsInv => ConsTypeOK /\ InputWindow /\ NoSleeperWithInput
  BY Zenon DEF ConsInv, ReadInv, NoSleeperWithInput
<1> QED  BY <1>1, ConsInvariant, PTL

\* The committed text, as a fact that can be primed.
TextIs ==
    /\ Committed \in Seq(Char) /\ Len(Committed) = Size(input.r, input.w)
    /\ \A k \in 1..Size(input.r, input.w) :
          Committed[k] = input.buf[(input.r + (k - 1)) % INPUT_BUF]

LEMMA CommittedIs == ConsInv => TextIs
BY CommittedText, Zenon DEF ConsInv, TextIs

\* A sequence with the elements j+1..m of another one.
LEMMA PartOf ==
    ASSUME NEW S, NEW s \in Seq(S), NEW t \in Seq(S), NEW j \in Nat, NEW m \in Nat,
           j <= m, m <= Len(s), Len(t) = m - j, \A i \in 1..m-j : t[i] = s[j + i]
    PROVE  t = SubSeq(s, j + 1, m)
<1>1. j + 1 \in Int /\ m \in Int /\ \A i \in j+1..m : s[i] \in S
  OBVIOUS
<1>2. /\ SubSeq(s, j + 1, m) \in Seq(S)
      /\ Len(SubSeq(s, j + 1, m)) = IF j + 1 <= m THEN m - (j + 1) + 1 ELSE 0
      /\ \A i \in 1..m-(j+1)+1 : SubSeq(s, j + 1, m)[i] = s[(j + 1) + i - 1]
  BY <1>1, SubSeqIs
<1> DEFINE q == SubSeq(s, j + 1, m)
<1>3. q \in Seq(S) /\ Len(q) = m - j /\ \A i \in 1..m-j : q[i] = s[j + i]
  <2>1. m - (j + 1) + 1 = m - j
    OBVIOUS
  <2>2. \A i \in 1..m-j : (j + 1) + i - 1 = j + i
    OBVIOUS
  <2>3. Len(q) = m - j
    BY <1>2
  <2> HIDE DEF q
  <2> QED  BY <1>2, <2>1, <2>2, <2>3, Zenon DEF q
<1> HIDE DEF q
<1>4. Len(t) = Len(q) /\ \A i \in 1..Len(t) : t[i] = q[i]
  BY <1>3, Zenon
<1>5. t = q
  BY <1>3, <1>4, SameElements, Zenon
<1> QED  BY <1>5, Zenon DEF q

\* No step of the console changes committed text except by taking from its
\* front or by adding to its end; only a read that returns 0 takes a C('D').
LEMMA KeepsText ==
    ASSUME ConsInv, ConsInv', TextIs', [ConsNext]_consVars
    PROVE  CommittedKept /\ EofGivesZero
<1>c. INPUT_BUF \in Nat \ {0} /\ UINT \in Nat \ {0} /\ UINT > INPUT_BUF
  BY ConsoleConstants
<1> DEFINE r == input.r
           W == Size(input.r, input.w)
           E == Size(input.r, input.e)
           C == Committed
           L == Len(Committed)
<1>1. ConsTypeOK /\ InputWindow /\ TextIs
  BY CommittedIs, Zenon DEF ConsInv
<1>2. /\ W \in 0..INPUT_BUF /\ E \in W..INPUT_BUF
      /\ input.r = (r + 0) % UINT /\ input.w = (r + W) % UINT /\ input.e = (r + E) % UINT
  BY <1>1, Offsets, Zenon
<1>3. r \in 0..UINT-1 /\ L = W /\ C \in Seq(Char) /\ C' \in Seq(Char)
      /\ Len(C') = Size(input'.r, input'.w)
  BY <1>1, Zenon DEF ConsTypeOK, TextIs, Size
<1>n. W \in 0..INPUT_BUF /\ E \in W..INPUT_BUF /\ r \in 0..UINT-1 /\ L = W
  BY <1>2, <1>3, Zenon
<1>4. \A k \in 1..W : C[k] = input.buf[(r + (k - 1)) % INPUT_BUF]
  BY <1>1, Zenon DEF TextIs
<1>5. \A k \in 1..Size(input'.r, input'.w) : C'[k] = input'.buf[(input'.r + (k - 1)) % INPUT_BUF]
  BY Zenon DEF TextIs, Size
<1>6. ASSUME input'.r = input.r  PROVE EofGivesZero
  <2>1. Size(r, r) = 0
    <3>1. 0 \in Int /\ r \in Int /\ 0 <= 0 /\ 0 - 0 < UINT /\ 0 - 0 = 0
      BY <1>c, <1>n
    <3>2. Size((r + 0) % UINT, (r + 0) % UINT) = 0 - 0
      BY <3>1, SizeOf, Zenon
    <3> QED  BY <1>2, <3>1, <3>2, Zenon
  <2>2. Size(input.r, input'.r) = 0
    BY <1>6, <2>1, Zenon
  <2>3. \A k \in 1..L : ~(Size(input.r, input'.r) >= k)
    BY <1>c, <1>n, <2>2
  <2> QED  BY <2>3, Zenon DEF EofGivesZero
<1>7. ASSUME input'.r = input.r, input'.w = input.w,
             \A k \in 0..W-1 : input'.buf[(r + k) % INPUT_BUF] = input.buf[(r + k) % INPUT_BUF]
      PROVE  CommittedKept
  <2>1. Len(C') = W
    BY <1>3, <1>7, Zenon
  <2>2. ASSUME NEW k \in 1..W  PROVE C'[k] = C[k]
    <3>1. C'[k] = input'.buf[(r + (k - 1)) % INPUT_BUF]
      BY <1>5, <1>7, Zenon
    <3>2. k - 1 \in 0..W-1
      BY <1>c, <1>n
    <3>3. C[k] = input.buf[(r + (k - 1)) % INPUT_BUF]
      BY <1>4, Zenon
    <3> QED  BY <1>7, <3>1, <3>2, <3>3, Zenon
  <2> DEFINE D == C'
  <2>3. D \in Seq(Char) /\ 0 \in Nat /\ W \in Nat /\ 0 <= W /\ W <= L /\ Len(D) = W - 0
        /\ \A i \in 1..W-0 : D[i] = C[0 + i]
    <3> HIDE DEF C, D, W
    <3>1. W \in Nat /\ D \in Seq(Char) /\ L = W /\ Len(D) = W /\ \A k \in 1..W : D[k] = C[k]
      BY <1>c, <1>n, <1>3, <2>1, <2>2 DEF C, D, W, Size
    <3> QED  BY <3>1
  <2> HIDE DEF D
  <2>4. D = SubSeq(C, 0 + 1, W)
    BY <1>3, <2>3, PartOf, Zenon
  <2>5. 0 \in 0..L
    BY <1>c, <1>n
  <2> QED  BY <1>3, <2>4, <2>5, Zenon DEF CommittedKept, D
<1>8. CASE UNCHANGED consVars
  BY <1>6, <1>7, <1>8, Zenon DEF consVars
<1>9. ASSUME NEW c \in Key, consoleintr(c)  PROVE CommittedKept /\ EofGivesZero
  <2>1. KeepsCommitted /\ ((\E d \in W..INPUT_BUF : Edits(d)) \/ Commits)
    BY <1>9, KeyEffect, Zenon
  <2>2. \A k \in 0..W-1 : input'.buf[(r + k) % INPUT_BUF] = input.buf[(r + k) % INPUT_BUF]
    BY <2>1, Zenon DEF KeepsCommitted
  <2>3. CASE \E d \in W..INPUT_BUF : Edits(d)
    <3>1. input'.r = input.r /\ input'.w = input.w
      BY <2>3, Zenon DEF Edits
    <3> QED  BY <1>6, <1>7, <2>2, <3>1, Zenon
  <2>4. CASE Commits
    <3>1. E < INPUT_BUF /\ input'.r = input.r /\ input'.w = (r + (E + 1)) % UINT
      BY <2>4, Zenon DEF Commits
    <3>2. Len(C') = E + 1
      <4> DEFINE b == E + 1
      <4>1. 0 \in Int /\ b \in Int /\ r \in Int /\ 0 <= b /\ b - 0 < UINT /\ b - 0 = b
        BY <1>c, <1>n, <3>1
      <4>2. input'.r = (r + 0) % UINT /\ input'.w = (r + b) % UINT
        BY <1>2, <3>1, Zenon
      <4> HIDE DEF b
      <4>3. Size((r + 0) % UINT, (r + b) % UINT) = b - 0
        BY <4>1, SizeOf, Zenon
      <4> QED  BY <1>3, <4>1, <4>2, <4>3, Zenon DEF b
    <3>3. ASSUME NEW k \in 1..W  PROVE C[k] = C'[0 + k]
      <4>1. k \in 1..Size(input'.r, input'.w) /\ 0 + k = k /\ k - 1 \in 0..W-1
        <5> HIDE DEF W, E
        <5>1. Size(input'.r, input'.w) = E + 1
          BY <1>3, <3>2, Zenon
        <5> QED  BY <1>c, <1>n, <5>1
      <4>2. C'[k] = input'.buf[(r + (k - 1)) % INPUT_BUF]
        BY <1>5, <3>1, <4>1, Zenon
      <4>3. C[k] = input.buf[(r + (k - 1)) % INPUT_BUF]
        BY <1>4, Zenon
      <4> QED  BY <2>2, <4>1, <4>2, <4>3, Zenon
    <3> DEFINE D == C'
    <3>4. C \in Seq(Char) /\ D \in Seq(Char) /\ 0 \in Nat /\ W \in Nat /\ 0 <= W /\ W <= Len(D)
          /\ Len(C) = W - 0 /\ Len(D) > L
      <4> HIDE DEF W, E
      <4> QED  BY <1>c, <1>n, <1>3, <3>2
    <3>5. \A i \in 1..W-0 : C[i] = D[0 + i]
      <4> SUFFICES ASSUME NEW i \in 1..W-0  PROVE C[i] = D[0 + i]
        BY Zenon
      <4>1. i \in 1..W
        BY <1>c, <1>n
      <4> QED  BY <3>3, <4>1, Zenon
    <3> HIDE DEF D
    <3>6. C = SubSeq(D, 0 + 1, W)
      BY <3>4, <3>5, PartOf, Zenon
    <3>7. CommittedKept
      BY <1>3, <3>4, <3>6 DEF CommittedKept, D
    <3> QED  BY <1>6, <3>1, <3>7, Zenon
  <2> QED  BY <2>1, <2>3, <2>4, Zenon
<1>10. ASSUME NEW u \in ConsReaders, consoleread_loop(u)  PROVE CommittedKept /\ EofGivesZero
  <2>1. PICK j \in 0..L : Takes(u, j)
    BY <1>10, LoopEffect, Zenon
  <2>2. input' = [input EXCEPT !.r = (r + j) % UINT] /\ \A i \in 1..j : C[i] = "eof" => lastread' = 0
    BY <2>1, Zenon DEF Takes
  <2>3. input'.r = (r + j) % UINT /\ input'.w = (r + W) % UINT /\ input'.buf = input.buf
    BY <1>1, <1>2, <2>2, Zenon DEF ConsTypeOK
  <2>4. j \in Int /\ W \in Int /\ r \in Int /\ j <= W /\ W - j < UINT /\ 0 \in Int
        /\ 0 <= j /\ j - 0 < UINT /\ j - 0 = j
    <3> HIDE DEF W, E, L
    <3> QED  BY <1>c, <1>n
  <2>5. Size(input'.r, input'.w) = W - j
    <3> HIDE DEF W
    <3>1. Size((r + j) % UINT, (r + W) % UINT) = W - j
      BY <2>4, SizeOf, Zenon
    <3> QED  BY <2>3, <3>1, Zenon
  <2>6. Size(input.r, input'.r) = j
    <3>1. Size((r + 0) % UINT, (r + j) % UINT) = j - 0
      BY <2>4, SizeOf, Zenon
    <3> QED  BY <1>2, <2>3, <2>4, <3>1, Zenon
  <2>7. ASSUME NEW i \in 1..W-j  PROVE C'[i] = C[j + i]
    <3> DEFINE y == i - 1
               x == (r + j) % UINT
               z == (r + j) % INPUT_BUF
    <3>1. C'[i] = input.buf[(x + y) % INPUT_BUF]
      BY <1>5, <2>3, <2>5, Zenon
    <3>2. j + i \in 1..W /\ (j + i) - 1 = j + y
      BY <2>4
    <3>3. C[j + i] = input.buf[(r + (j + y)) % INPUT_BUF]
      BY <1>4, <3>2, Zenon
    <3>4. /\ INPUT_BUF \in Nat \ {0} /\ UINT \in Nat \ {0} /\ UINT % INPUT_BUF = 0
          /\ r + j \in Int /\ y \in Int /\ x \in Int /\ (r + j) + y = r + (j + y)
      <4>1. r + j \in Int /\ y \in Int /\ (r + j) + y = r + (j + y)
        BY <2>4
      <4>2. x \in 0..UINT-1
        BY <1>c, <4>1, DivMod, Zenon
      <4>3. x \in Int
        <5> HIDE DEF x
        <5> QED  BY <1>c, <4>2
      <4> QED  BY <1>c, <4>1, <4>3, ConsoleConstants, Zenon
    <3>5. x % INPUT_BUF = z
      BY <3>4, NestedMod, Zenon
    <3>6. ((x % INPUT_BUF) + y) % INPUT_BUF = (x + y) % INPUT_BUF
      <4> HIDE DEF x, y
      <4> QED  BY <3>4, AddMod, Zenon
    <3>7. (z + y) % INPUT_BUF = ((r + j) + y) % INPUT_BUF
      <4> HIDE DEF y
      <4> QED  BY <3>4, AddMod, Zenon
    <3> HIDE DEF x, y, z
    <3> QED  BY <3>1, <3>3, <3>4, <3>5, <3>6, <3>7, Zenon
  <2> DEFINE D == C'
  <2>8. D \in Seq(Char) /\ j \in Nat /\ W \in Nat /\ j <= W /\ W <= L /\ Len(D) = W - j
    BY <1>c, <1>n, <1>3, <2>4, <2>5
  <2>9. \A i \in 1..W-j : D[i] = C[j + i]
    BY <2>7, Zenon
  <2> HIDE DEF D
  <2>10. D = SubSeq(C, j + 1, W)
    BY <1>3, <2>8, <2>9, PartOf, Zenon
  <2>11. CommittedKept
    BY <1>3, <2>1, <2>10, Zenon DEF CommittedKept, D
  <2>12. EofGivesZero
    <3> SUFFICES ASSUME NEW k \in 1..L, C[k] = "eof", Size(input.r, input'.r) >= k
                 PROVE  lastread' = 0
      BY Zenon DEF EofGivesZero
    <3>1. k \in 1..j
      BY <1>c, <1>n, <2>4, <2>6
    <3> QED  BY <2>2, <3>1, Zenon
  <2> QED  BY <2>11, <2>12, Zenon
<1>11. ASSUME input' = input  PROVE CommittedKept /\ EofGivesZero
  BY <1>6, <1>7, <1>11, Zenon
<1>12. ASSUME NEW u \in ConsReaders,
              (\E n \in 0..MaxRead : consoleread(u, n)) \/ consoleread_sleep(u) \/ cons_kill(u)
       PROVE  input' = input
  BY <1>12, Zenon DEF consoleread, consoleread_sleep, cons_kill
<1> QED  BY <1>8, <1>9, <1>10, <1>11, <1>12, Zenon DEF ConsNext

\* Line editing never changes committed text, and a C('D') leaves the buffer
\* only in a read that returns 0 (consoleintr and consoleread).
THEOREM ConsoleKeepsText == ConsSpec => [][CommittedKept /\ EofGivesZero]_consVars
<1>1. ConsInv /\ ConsInv' /\ TextIs' /\ [ConsNext]_consVars => CommittedKept /\ EofGivesZero
  BY KeepsText, Zenon
<1>2. (ConsInv => TextIs)'
  BY CommittedIs, PTL
<1>3. ConsInv /\ ConsInv' /\ [ConsNext]_consVars => [CommittedKept /\ EofGivesZero]_consVars
  BY <1>1, <1>2, Zenon
<1> QED  BY <1>3, ConsInvariant, PTL DEF ConsSpec
-----------------------------------------------------------------------------
(* The input buffer of JOS. *)

\* The characters waiting in r are the last ones up to number last, and g came
\* before them.
Waiting(r) == (r.wpos - r.rpos) % CONSBUFSIZE
Newest(r, last, g) ==
    /\ \A k \in 0..Waiting(r)-1 : r.buf[(r.rpos + k) % CONSBUFSIZE] = last - Waiting(r) + 1 + k
    /\ g <= last - Waiting(r)

Ring == [buf : [0..CONSBUFSIZE-1 -> 0..MaxTyped], rpos : 0..CONSBUFSIZE-1, wpos : 0..CONSBUFSIZE-1]

LEMMA WaitingIs ==
    ASSUME NEW r \in Ring
    PROVE  Waiting(r) \in 0..CONSBUFSIZE-1 /\ r.wpos = (r.rpos + Waiting(r)) % CONSBUFSIZE
<1>1. CONSBUFSIZE \in Nat \ {0} /\ r.rpos \in 0..CONSBUFSIZE-1 /\ r.wpos \in 0..CONSBUFSIZE-1
      /\ r.wpos - r.rpos \in Int
  BY JosConsoleConstants DEF Ring
<1>2. Waiting(r) \in 0..CONSBUFSIZE-1
  BY <1>1, DivMod, Zenon DEF Waiting
<1>3. r.wpos = (r.rpos + Waiting(r)) % CONSBUFSIZE
  BY <1>1, DistFrom, Zenon DEF Waiting
<1> QED  BY <1>2, <1>3

LEMMA AdvanceIs ==
    ASSUME NEW i \in 0..CONSBUFSIZE-1
    PROVE  Advance(i) \in 0..CONSBUFSIZE-1 /\ Advance(i) = (i + 1) % CONSBUFSIZE
<1> USE JosConsoleConstants
<1>1. CASE i + 1 = CONSBUFSIZE
  <2>1. i + 1 = CONSBUFSIZE * 1 + 0 /\ 1 \in Int /\ 0 \in 0..CONSBUFSIZE-1 /\ CONSBUFSIZE \in Nat \ {0}
    BY <1>1
  <2>2. (CONSBUFSIZE * 1 + 0) % CONSBUFSIZE = 0
    BY <2>1, ModIs, Zenon
  <2> QED  BY <1>1, <2>1, <2>2, Zenon DEF Advance
<1>2. CASE i + 1 # CONSBUFSIZE
  <2>1. i + 1 = CONSBUFSIZE * 0 + (i + 1) /\ 0 \in Int /\ i + 1 \in 0..CONSBUFSIZE-1
        /\ CONSBUFSIZE \in Nat \ {0}
    BY <1>2
  <2>2. (CONSBUFSIZE * 0 + (i + 1)) % CONSBUFSIZE = i + 1
    BY <2>1, ModIs, Zenon
  <2> QED  BY <1>2, <2>1, <2>2, Zenon DEF Advance
<1> QED  BY <1>1, <1>2, Zenon

LEMMA NewestIs ==
    ASSUME NEW r, NEW last, NEW g, NEW n, Waiting(r) = n, g <= last - n,
           \A k \in 0..n-1 : r.buf[(r.rpos + k) % CONSBUFSIZE] = last - n + 1 + k
    PROVE  Newest(r, last, g)
<1> DEFINE Ok(m) == /\ \A k \in 0..m-1 : r.buf[(r.rpos + k) % CONSBUFSIZE] = last - m + 1 + k
                    /\ g <= last - m
<1>1. Ok(n)
  BY Zenon
<1> HIDE DEF Ok
<1>2. Ok(Waiting(r))
  BY <1>1, Zenon
<1> QED  BY <1>2, Zenon DEF Ok, Newest

\* One character more, with an overrun when the ring is full.
LEMMA NewestAppended ==
    ASSUME NEW r \in Ring, NEW last \in Nat, NEW g \in Nat, last + 1 <= MaxTyped, Newest(r, last, g)
    PROVE  LET q == [r EXCEPT !.buf[r.wpos] = last + 1, !.wpos = Advance(r.wpos)]
           IN  q \in Ring /\ Newest(q, last + 1, g)
<1> DEFINE B == CONSBUFSIZE
           n == Waiting(r)
           p == r.rpos
           v == last + 1
           a == Advance(r.wpos)
           f == [r.buf EXCEPT ![r.wpos] = v]
           q == [r EXCEPT !.buf[r.wpos] = last + 1, !.wpos = Advance(r.wpos)]
<1>1. B \in Nat \ {0} /\ MaxTyped \in Nat
  BY JosConsoleConstants, Zenon
<1>2. n \in 0..B-1 /\ r.wpos = (p + n) % B
  BY WaitingIs, Zenon
<1>3. p \in 0..B-1 /\ r.wpos \in 0..B-1 /\ r.buf \in [0..B-1 -> 0..MaxTyped]
  BY Zenon DEF Ring
<1>4. a \in 0..B-1 /\ a = (r.wpos + 1) % B
  BY <1>3, AdvanceIs, Zenon
<1>5. v \in 0..MaxTyped
  BY <1>1
<1>6. f \in [0..B-1 -> 0..MaxTyped]
  BY <1>3, <1>5, Zenon
<1>7. q = [buf |-> f, rpos |-> p, wpos |-> a]
  <2> DEFINE J == [r EXCEPT !.buf[r.wpos] = v]
  <2>1. J = [buf |-> f, rpos |-> p, wpos |-> r.wpos]
    BY DEF Ring
  <2>2. q = [J EXCEPT !.wpos = a]
    BY Zenon
  <2> HIDE DEF J, f, a, q
  <2> QED  BY <2>1, <2>2
<1> HIDE DEF q
<1>8. q \in Ring /\ q.buf = f /\ q.rpos = p /\ q.wpos = a
  BY <1>3, <1>4, <1>6, <1>7, Zenon DEF Ring
<1>n. n \in 0..B-1 /\ p \in 0..B-1
  BY <1>2, <1>3, Zenon
<1>9. a = (p + (n + 1)) % B
  <2>1. p + n \in Int /\ 1 \in Int /\ (p + n) + 1 = p + (n + 1)
    <3> HIDE DEF n, p
    <3> QED  BY <1>1, <1>n
  <2>2. (((p + n) % B) + 1) % B = ((p + n) + 1) % B
    BY <1>1, <2>1, AddMod, Zenon
  <2> QED  BY <1>2, <1>4, <2>1, <2>2, Zenon
<1>10. \A k \in 0..n-1 : r.buf[(p + k) % B] = last - n + 1 + k
  BY Zenon DEF Newest
<1>11. g <= last - n
  BY Zenon DEF Newest
<1>p. p = (p + 0) % B
  <2>1. p + 0 = B * 0 + p /\ 0 \in Int
    BY <1>1, <1>3
  <2>2. (B * 0 + p) % B = p
    BY <1>1, <1>3, <2>1, ModIs, Zenon
  <2> QED  BY <2>1, <2>2, Zenon
<1> HIDE DEF n
<1>12. ASSUME n + 1 = B  PROVE Newest(q, last + 1, g)
  <2>1. Waiting(q) = 0
    <3>1. p + (n + 1) = B * 1 + p /\ 1 \in Int
      BY <1>1, <1>2, <1>3, <1>12
    <3>2. (B * 1 + p) % B = p
      BY <1>1, <1>3, <3>1, ModIs, Zenon
    <3>3. a = p
      BY <1>9, <3>1, <3>2, Zenon
    <3>4. a - p = B * 0 + 0 /\ 0 \in Int /\ 0 \in 0..B-1
      BY <1>1, <1>3, <3>3
    <3>5. (B * 0 + 0) % B = 0
      BY <1>1, <3>4, ModIs, Zenon
    <3> QED  BY <1>8, <3>4, <3>5 DEF Waiting
  <2>2. g <= (last + 1) - 0
    BY <1>1, <1>2, <1>11
  <2> DEFINE z == 0
  <2>3. \A k \in 0..z-1 : q.buf[(q.rpos + k) % B] = v - z + 1 + k
    OBVIOUS
  <2>4. Waiting(q) = z /\ g <= v - z
    BY <2>1, <2>2
  <2> HIDE DEF v, z
  <2>5. Newest(q, v, g)
    BY <2>3, <2>4, NewestIs, Zenon
  <2> QED  BY <2>5, Zenon DEF v
<1>13. ASSUME n + 1 # B  PROVE Newest(q, last + 1, g)
  <2>0. n + 1 \in 0..B-1
    BY <1>1, <1>2, <1>13
  <2>1. Waiting(q) = n + 1
    <3> DEFINE j == n + 1
    <3>1. 0 \in Int /\ j \in Int /\ p \in Int /\ 0 <= j /\ j - 0 < B /\ j - 0 = j
      BY <1>1, <1>3, <2>0
    <3> HIDE DEF j
    <3>2. (((p + j) % B) - ((p + 0) % B)) % B = j - 0
      BY <1>1, <3>1, DistOf, ZenonT(40)
    <3>3. Waiting(q) = (a - p) % B
      BY <1>8, Zenon DEF Waiting
    <3>4. a = (p + j) % B
      BY <1>9, Zenon DEF j
    <3> QED  BY <1>p, <3>1, <3>2, <3>3, <3>4, Zenon DEF j
  <2>2. ASSUME NEW k \in 0..(n + 1)-1
        PROVE  f[(p + k) % B] = (last + 1) - (n + 1) + 1 + k
    <3>1. (p + k) % B \in 0..B-1
      <4>1. p + k \in Int
        BY <1>2, <1>3
      <4> QED  BY <1>1, <4>1, DivMod, Zenon
    <3>2. CASE k = n
      <4>1. f[(p + k) % B] = v
        BY <1>2, <1>3, <3>2, Zenon
      <4> QED  BY <1>2, <3>2, <4>1
    <3>3. CASE k # n
      <4> DEFINE x == p + k  y == p + n
      <4>1. x \in Int /\ y \in Int /\ x # y /\ x - y < B /\ y - x < B /\ k \in 0..n-1
        BY <1>1, <1>n, <3>3
      <4> HIDE DEF x, y
      <4>2. x % B # y % B
        BY <1>1, <4>1, ModApart, Zenon
      <4>3. (p + k) % B # r.wpos
        BY <1>2, <4>2, Zenon DEF x, y
      <4>4. f[(p + k) % B] = r.buf[(p + k) % B]
        BY <1>3, <3>1, <4>3
      <4>5. f[(p + k) % B] = last - n + 1 + k
        BY <1>10, <4>1, <4>4, Zenon
      <4> QED  BY <1>2, <4>5
    <3> QED  BY <3>2, <3>3, Zenon
  <2>3. g <= (last + 1) - (n + 1)
    BY <1>1, <1>2, <1>11
  <2>4. \A k \in 0..(n + 1)-1 : q.buf[(q.rpos + k) % B] = (last + 1) - (n + 1) + 1 + k
    BY <1>8, <2>2, Zenon
  <2> QED  BY <1>8, <2>1, <2>3, <2>4, NewestIs, Zenon
<1> QED  BY <1>8, <1>12, <1>13 DEF q

\* The oldest character taken.
LEMMA NewestTaken ==
    ASSUME NEW r \in Ring, NEW last \in Nat, NEW g \in Nat, Newest(r, last, g), r.rpos # r.wpos
    PROVE  LET q == [r EXCEPT !.rpos = Advance(r.rpos)]
           IN  q \in Ring /\ Newest(q, last, r.buf[r.rpos])
<1> DEFINE B == CONSBUFSIZE
           n == Waiting(r)
           p == r.rpos
           a == Advance(r.rpos)
           q == [r EXCEPT !.rpos = Advance(r.rpos)]
<1>1. B \in Nat \ {0}
  BY JosConsoleConstants, Zenon
<1>2. n \in 0..B-1 /\ r.wpos = (p + n) % B
  BY WaitingIs, Zenon
<1>3. p \in 0..B-1 /\ r.wpos \in 0..B-1 /\ r.buf \in [0..B-1 -> 0..MaxTyped]
  BY Zenon DEF Ring
<1>4. a \in 0..B-1 /\ a = (p + 1) % B
  BY <1>3, AdvanceIs, Zenon
<1>5. q = [buf |-> r.buf, rpos |-> a, wpos |-> r.wpos]
  <2>1. q = [r EXCEPT !.rpos = a]
    BY Zenon
  <2> HIDE DEF q, a
  <2> QED  BY <2>1, Zenon DEF Ring
<1> HIDE DEF q
<1>6. q \in Ring /\ q.buf = r.buf /\ q.rpos = a /\ q.wpos = r.wpos
  BY <1>3, <1>4, <1>5 DEF Ring
<1>7. \A k \in 0..n-1 : r.buf[(p + k) % B] = last - n + 1 + k
  BY Zenon DEF Newest
<1>p. p = (p + 0) % B
  <2>1. p + 0 = B * 0 + p /\ 0 \in Int
    BY <1>1, <1>3
  <2>2. (B * 0 + p) % B = p
    BY <1>1, <1>3, <2>1, ModIs, Zenon
  <2> QED  BY <2>1, <2>2
<1>n. n \in 0..B-1 /\ p \in 0..B-1
  BY <1>2, <1>3, Zenon
<1> HIDE DEF n
<1>8. n # 0
  BY <1>2, <1>p, Zenon
<1>9. Waiting(q) = n - 1
  <2>1. 1 \in Int /\ n \in Int /\ p \in Int /\ 1 <= n /\ n - 1 < B
    BY <1>1, <1>n, <1>8
  <2>2. (((p + n) % B) - ((p + 1) % B)) % B = n - 1
    BY <1>1, <2>1, DistOf, Zenon
  <2> QED  BY <1>2, <1>4, <1>6, <2>2, Zenon DEF Waiting
<1>10. r.buf[p] <= last - (n - 1)
  <2>1. 0 \in 0..n-1
    BY <1>1, <1>n, <1>8
  <2>2. r.buf[p] = last - n + 1 + 0
    BY <1>7, <1>p, <2>1, Zenon
  <2> QED  BY <1>n, <2>2
<1>11. ASSUME NEW k \in 0..(n - 1)-1
       PROVE  q.buf[(q.rpos + k) % B] = last - (n - 1) + 1 + k
  <2>1. k + 1 \in 0..n-1 /\ last - n + 1 + (k + 1) = last - (n - 1) + 1 + k
    BY <1>1, <1>n
  <2>2. r.buf[(p + (k + 1)) % B] = last - n + 1 + (k + 1)
    BY <1>7, <2>1, Zenon
  <2>3. (a + k) % B = (p + (k + 1)) % B
    <3>1. p + 1 \in Int /\ k \in Int /\ (p + 1) + k = p + (k + 1)
      BY <1>1, <1>n
    <3>2. (((p + 1) % B) + k) % B = ((p + 1) + k) % B
      BY <1>1, <3>1, AddMod, Zenon
    <3> QED  BY <1>4, <3>1, <3>2, Zenon
  <2> QED  BY <1>6, <2>1, <2>2, <2>3, Zenon
<1> DEFINE c == r.buf[p]
           l == n - 1
<1>12. Waiting(q) = l /\ c <= last - l /\ \A k \in 0..l-1 : q.buf[(q.rpos + k) % B] = last - l + 1 + k
  BY <1>9, <1>10, <1>11, Zenon
<1> HIDE DEF c, l
<1>13. Newest(q, last, c)
  BY <1>12, NewestIs, Zenon
<1> QED  BY <1>6, <1>13 DEF q, c

\* The numbers of the characters waiting form an interval.
LEMMA UnreadIs ==
    ASSUME NEW r \in Ring, NEW last \in Nat, NEW g \in Nat, Newest(r, last, g)
    PROVE  Unread(r) = last - Waiting(r) + 1 .. last
<1> DEFINE n == Waiting(r)
           F(k) == r.buf[(r.rpos + k) % CONSBUFSIZE]
<1>1. CONSBUFSIZE \in Nat \ {0}
  BY JosConsoleConstants, Zenon
<1>2. n \in 0..CONSBUFSIZE-1
  BY WaitingIs, Zenon
<1>3. \A k \in 0..n-1 : F(k) = last - n + 1 + k
  BY Zenon DEF Newest
<1>4. Unread(r) = {F(k) : k \in 0..n-1}
  BY Zenon DEF Unread, Waiting
<1> HIDE DEF F, n
<1>5. \A x \in last - n + 1 .. last : x - (last - n + 1) \in 0..n-1 /\ x = last - n + 1 + (x - (last - n + 1))
  BY <1>1, <1>2
<1>6. \A k \in 0..n-1 : F(k) \in last - n + 1 .. last
  BY <1>1, <1>2, <1>3
<1>7. \A x \in last - n + 1 .. last : \E k \in 0..n-1 : x = F(k)
  BY <1>3, <1>5
<1>8. {F(k) : k \in 0..n-1} = last - n + 1 .. last
  BY <1>6, <1>7, Zenon
<1> QED  BY <1>4, <1>8 DEF n

JosConsInv == JosConsTypeOK /\ Newest(ring, typedno - 1 - uartq, gotc)

LEMMA JosConsMeans == JosConsInv => JosConsTypeOK /\ UnreadIsNewest
<1> SUFFICES ASSUME JosConsInv  PROVE JosConsTypeOK /\ UnreadIsNewest
  BY Zenon
<1> DEFINE last == typedno - 1 - uartq
<1>1. JosConsTypeOK /\ Newest(ring, last, gotc)
  BY Zenon DEF JosConsInv
<1>2. ring \in Ring /\ gotc \in Nat /\ last \in Int /\ MaxTyped \in Nat
  BY <1>1, JosConsoleConstants DEF JosConsTypeOK, Ring, Wire
<1>3. Waiting(ring) \in Nat
  <2>1. CONSBUFSIZE \in Nat \ {0}
    BY JosConsoleConstants, Zenon
  <2>2. Waiting(ring) \in 0..CONSBUFSIZE-1
    BY <1>2, WaitingIs, Zenon
  <2> QED  BY <2>1, <2>2
<1> HIDE DEF last
<1>4. last \in Nat
  <2>1. gotc <= last - Waiting(ring)
    BY <1>1, Zenon DEF Newest
  <2> QED  BY <1>2, <1>3, <2>1
<1>5. Unread(ring) = last - Waiting(ring) + 1 .. last
  BY <1>1, <1>2, <1>4, UnreadIs, Zenon
<1> QED  BY <1>1, <1>5, Zenon DEF UnreadIsNewest, Newest, Waiting, last

LEMMA JosConsStarts == JosConsInit => JosConsInv
<1> USE JosConsoleConstants
<1> SUFFICES ASSUME JosConsInit  PROVE JosConsInv
  BY Zenon
<1>1. JosConsTypeOK
  BY DEF JosConsInit, JosConsTypeOK, Wire
<1>2. Waiting(ring) = 0
  <2>1. ring.wpos - ring.rpos = CONSBUFSIZE * 0 + 0 /\ CONSBUFSIZE \in Nat \ {0} /\ 0 \in Int
        /\ 0 \in 0..CONSBUFSIZE-1
    BY DEF JosConsInit
  <2>2. (CONSBUFSIZE * 0 + 0) % CONSBUFSIZE = 0
    BY <2>1, ModIs, Zenon
  <2> QED  BY <2>1, <2>2 DEF Waiting
<1>3. \A k \in 0..0-1 : ring.buf[(ring.rpos + k) % CONSBUFSIZE] = (typedno - 1 - uartq) - 0 + 1 + k
  OBVIOUS
<1>4. gotc <= (typedno - 1 - uartq) - 0
  BY DEF JosConsInit
<1>5. Newest(ring, typedno - 1 - uartq, gotc)
  BY <1>2, <1>3, <1>4, NewestIs, Zenon
<1> QED  BY <1>1, <1>5 DEF JosConsInv

\* What polling the devices leaves.
LEMMA TakenKeeps ==
    ASSUME JosConsInv
    PROVE  Taken(ring) \in Ring /\ typedno - 1 \in Nat /\ Newest(Taken(ring), typedno - 1, gotc)
<1> USE JosConsoleConstants
<1>1. JosConsTypeOK /\ Newest(ring, typedno - 1 - uartq, gotc)
  BY Zenon DEF JosConsInv
<1>2. ring \in Ring /\ gotc \in Nat /\ typedno \in 1..MaxTyped+1 /\ uartq \in 0..1
  BY <1>1 DEF JosConsTypeOK, Ring, Wire
<1>3. CASE uartq = 0
  BY <1>1, <1>2, <1>3 DEF Taken
<1>4. CASE uartq = 1
  <2> DEFINE last == typedno - 2
  <2>0. typedno - 1 - uartq = last /\ last + 1 = typedno - 1 /\ last \in Int
    BY <1>2, <1>4
  <2>1. last \in Nat /\ last + 1 <= MaxTyped
    <3>1. Waiting(ring) \in Nat
      <4>1. CONSBUFSIZE \in Nat \ {0}
        BY Zenon
      <4>2. Waiting(ring) \in 0..CONSBUFSIZE-1
        BY <1>2, WaitingIs, Zenon
      <4> QED  BY <4>1, <4>2
    <3>2. gotc <= last - Waiting(ring)
      BY <1>1, <2>0, Zenon DEF Newest
    <3> QED  BY <1>2, <2>0, <3>1, <3>2
  <2>2. Newest(ring, last, gotc)
    BY <1>1, <2>0, Zenon
  <2>3. Taken(ring) = [ring EXCEPT !.buf[ring.wpos] = last + 1, !.wpos = Advance(ring.wpos)]
    BY <1>4, <2>0, Zenon DEF Taken
  <2> HIDE DEF last
  <2>4. Taken(ring) \in Ring /\ Newest(Taken(ring), last + 1, gotc)
    BY <1>2, <2>1, <2>2, <2>3, NewestAppended, ZenonT(40)
  <2> QED  BY <2>0, <2>1, <2>4
<1> QED  BY <1>2, <1>3, <1>4

LEMMA JosConsStep ==
    ASSUME JosConsInv, [JosConsNext]_josConsVars
    PROVE  JosConsInv'
<1> USE JosConsoleConstants
<1>1. JosConsTypeOK /\ Newest(ring, typedno - 1 - uartq, gotc)
  BY Zenon DEF JosConsInv
<1>2. ring \in Ring /\ gotc \in 0..MaxTyped /\ typedno \in 1..MaxTyped+1 /\ uartq \in 0..1
  BY <1>1, Zenon DEF JosConsTypeOK, Ring, Wire
<1> DEFINE q == Taken(ring)
<1>3. q \in Ring /\ typedno - 1 \in Nat /\ Newest(q, typedno - 1, gotc)
  BY TakenKeeps, Zenon
<1>4. ASSUME ring' \in Ring, gotc' \in 0..MaxTyped, typedno' \in 1..MaxTyped+1, uartq' \in 0..1,
             Newest(ring', typedno' - 1 - uartq', gotc')
      PROVE  JosConsInv'
  BY <1>4, Zenon DEF JosConsInv, JosConsTypeOK, Ring, Wire, Newest, Waiting
<1>5. CASE UNCHANGED josConsVars
  BY <1>1, <1>2, <1>4, <1>5 DEF josConsVars
<1>6. CASE TypeKey
  <2>1. typedno' - 1 - uartq' = typedno - 1 - uartq /\ typedno' \in 1..MaxTyped+1 /\ uartq' \in 0..1
    BY <1>2, <1>6 DEF TypeKey
  <2> QED  BY <1>1, <1>2, <1>4, <1>6, <2>1 DEF TypeKey
<1>7. ASSUME ring' = q, uartq' = 0, typedno' = typedno, gotc' \in {gotc, 0}
      PROVE  JosConsInv'
  <2>1. typedno' - 1 - uartq' = typedno - 1
    BY <1>2, <1>7
  <2>2. gotc' \in 0..MaxTyped
    BY <1>2, <1>7
  <2>3. Waiting(q) \in Nat
    <3>1. CONSBUFSIZE \in Nat \ {0}
      BY Zenon
    <3>2. Waiting(q) \in 0..CONSBUFSIZE-1
      BY <1>3, WaitingIs, Zenon
    <3> HIDE DEF q
    <3> QED  BY <3>1, <3>2
  <2> HIDE DEF q
  <2>4. gotc <= typedno - 1 - Waiting(q)
        /\ \A k \in 0..Waiting(q)-1 : q.buf[(q.rpos + k) % CONSBUFSIZE] = (typedno - 1) - Waiting(q) + 1 + k
    BY <1>3, Zenon DEF Newest
  <2>5. gotc' <= typedno - 1 - Waiting(q)
    BY <1>2, <1>3, <1>7, <2>3, <2>4
  <2>6. Newest(q, typedno - 1, gotc')
    BY <2>4, <2>5, Zenon DEF Newest
  <2>7. Newest(ring', typedno' - 1 - uartq', gotc')
    BY <1>7, <2>1, <2>6, Zenon
  <2>8. ring' \in Ring /\ typedno' \in 1..MaxTyped+1 /\ uartq' \in 0..1
    BY <1>2, <1>3, <1>7
  <2> QED  BY <1>4, <2>2, <2>7, <2>8, Zenon
<1>8. CASE cons_intr
  BY <1>7, <1>8, Zenon DEF cons_intr
<1>9. CASE cons_getc
  <2>1. CASE q.rpos = q.wpos
    BY <1>7, <1>9, <2>1, Zenon DEF cons_getc
  <2>2. CASE q.rpos # q.wpos
    <3> DEFINE q2 == [q EXCEPT !.rpos = Advance(q.rpos)]
    <3>1. gotc' = q.buf[q.rpos] /\ ring' = q2 /\ uartq' = 0 /\ typedno' = typedno
      BY <1>9, <2>2, Zenon DEF cons_getc
    <3> HIDE DEF q
    <3>2. gotc \in Nat
      BY <1>2
    <3>3. q2 \in Ring /\ Newest(q2, typedno - 1, q.buf[q.rpos])
      BY <1>3, <2>2, <3>2, NewestTaken
    <3>4. q.buf[q.rpos] \in 0..MaxTyped
      BY <1>3, Zenon DEF Ring
    <3>5. typedno' - 1 - uartq' = typedno - 1 /\ typedno' \in 1..MaxTyped+1 /\ uartq' \in 0..1
      BY <1>2, <3>1
    <3> HIDE DEF q2
    <3>6. Newest(ring', typedno' - 1 - uartq', gotc')
      BY <3>1, <3>3, <3>5, Zenon
    <3> QED  BY <1>4, <3>1, <3>3, <3>4, <3>5, <3>6, Zenon
  <2> QED  BY <2>1, <2>2, Zenon
<1> QED  BY <1>5, <1>6, <1>8, <1>9, Zenon DEF JosConsNext

\* Whatever overruns happened, what cons_getc of JOS has still to return are
\* the last characters typed, in order and without repetition.
THEOREM JosConsoleSound == JosConsSpec => [](JosConsTypeOK /\ UnreadIsNewest)
<1>1. JosConsSpec => []JosConsInv
  BY JosConsStarts, JosConsStep, PTL DEF JosConsSpec
<1> QED  BY <1>1, JosConsMeans, PTL
=============================================================================

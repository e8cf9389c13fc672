--------------------------- MODULE JosStreamProofs ---------------------------
(***************************************************************************)
(* Proofs about JosPipe: an inductive invariant of the page mappings of a  *)
(* pipe's ends through close, dup and fork, and of its bytes.  Proofs      *)
(* about PcConsole: the keyboard decoder, for any order of presses and     *)
(* releases, and the screen, for any number of rows and columns.           *)
(***************************************************************************)
EXTENDS JosPipe, PcConsole, FiniteSetTheorems, TLAPS

\* The provers of the leaves that do not name their own, in the order of the trials.
USE SMTT(30), SMTT(60), Zenon

(* The pipe of JOS. *)

\* One CPU; each of Rd and Wr has one end only, and only they fork: fork maps
\* the Fd pages before the data pages, so that the counts of an end are not to
\* be trusted while somebody else who holds that end forks.
Apart == NRUN = 1 /\ ~KeepBoth /\ ForkEnv \subseteq {Rd, Wr}

Other(x) == IF x = "r" THEN "w" ELSE "r"
Forking(e) == jpc[e] = "forking"
Bare(c) == \A s \in Slot : fdmap[c][s] = "no" /\ ~datamap[c][s]

FamilyInv ==
    /\ {Rd, Wr} \cap Free = {}
    /\ \A s \in Slot : fdmap[Rd][s] # "w" /\ fdmap[Wr][s] # "r"

ArgInv == \A e \in PEnv :
    /\ jpc[e] \notin {"closing", "dupping", "forking"} => arg[e] = 0
    /\ jpc[e] = "closing" => arg[e] \in Slot
    /\ jpc[e] = "dupping" => arg[e] \in Slot /\ seen[e] \in Slot /\ datamap[e][arg[e]]

\* How far fork has come.
ForkInv == \A e \in PEnv : Forking(e) =>
    /\ e \in {Rd, Wr} /\ Free # {} /\ \A o \in PEnv \ {e} : ~Forking(o)
    /\ \A s \in Slot : /\ fdmap[Child][s] = IF s < arg[e] THEN fdmap[e][s] ELSE "no"
                       /\ datamap[Child][s] <=> (s < arg[e] - Slots /\ datamap[e][s])

\* Environments that are not in use map nothing, but for the child of a fork.
UnbornInv == \A c \in Free : Bare(c) \/ (c = Child /\ \E e \in PEnv : Forking(e))

\* A descriptor has its data page, except in a child that is being made.
DataInv == \A c \in PEnv \ Free, s \in Slot : fdmap[c][s] # "no" => datamap[c][s]

MapInv == FamilyInv /\ ArgInv /\ ForkInv /\ UnbornInv /\ DataInv

\* What _pipeisclosed has read is still so, if env_runs says so.
CheckInv == \A e \in running : undisturbed[e] =>
    /\ jpc[e] = "check2" => seen[e] = pageref_fd(End(e))
    /\ jpc[e] = "check3" /\ seen[e] = 1 => pageref_fd(End(e)) = pageref_pipe

RunInv == \E e \in PEnv : running = {e}

ByteInv ==
    /\ PipeHoldsBytes
    /\ jpc[Wr] = "stored" => /\ p_wpos < p_rpos + PIPEBUFSIZ /\ p_wpos < MaxBytes
                             /\ p_buf[p_wpos % PIPEBUFSIZ] = p_wpos + 1
    /\ jpc[Rd] = "stored" => p_rpos < p_wpos

ByteTypes ==
    /\ p_rpos \in 0..MaxBytes /\ p_wpos \in 0..MaxBytes
    /\ p_buf \in [0..PIPEBUFSIZ-1 -> 0..MaxBytes]
    /\ jpc \in [PEnv -> {"unborn", "idle", "closing", "dupping", "forking", "io", "check1",
                        "check2", "check3", "yield", "stored"}]

JosPipeInv == JosPipeTypeOK /\ MapInv /\ RunInv /\ CheckInv /\ ClosedIsTrue /\ ByteInv
-----------------------------------------------------------------------------
(* Counting mappings. *)

LEMMA SlotsFinite ==
    /\ IsFiniteSet(PEnv \X Slot) /\ Cardinality(PEnv) \in Nat
    /\ Cardinality(PEnv \X Slot) = Cardinality(PEnv) * Slots
    /\ Cardinality(PEnv) * Slots \in Nat /\ Slots <= Cardinality(PEnv) * Slots
<1>1. IsFiniteSet(Slot) /\ Cardinality(Slot) = Slots
  BY JosPipeConstants, FS_Interval DEF Slot
<1>2. IsFiniteSet(PEnv) /\ Cardinality(PEnv) \in Nat
  BY JosPipeConstants, FS_CardinalityType, Zenon
<1>3. Cardinality(PEnv) # 0
  BY <1>2, JosPipeConstants, FS_EmptySet, Zenon
<1>4. IsFiniteSet(PEnv \X Slot) /\ Cardinality(PEnv \X Slot) = Cardinality(PEnv) * Slots
  BY <1>1, <1>2, FS_Product, Zenon
<1>5. \A n \in Nat \ {0}, k \in Nat : n * k \in Nat /\ k <= n * k
  OBVIOUS
<1> QED  BY <1>2, <1>3, <1>4, <1>5, JosPipeConstants, Zenon

LEMMA CountsTyped ==
    /\ \A x : pageref_fd(x) \in 0..Cardinality(PEnv) * Slots
    /\ pageref_pipe \in 0..Cardinality(PEnv) * Slots
<1>1. ASSUME NEW T \in SUBSET (PEnv \X Slot)
      PROVE  Cardinality(T) \in 0..Cardinality(PEnv) * Slots
  <2>1. IsFiniteSet(T) /\ Cardinality(T) <= Cardinality(PEnv \X Slot)
    BY SlotsFinite, FS_Subset, Zenon
  <2>2. Cardinality(T) \in Nat
    BY <2>1, FS_CardinalityType, Zenon
  <2> QED  BY <2>1, <2>2, SlotsFinite
<1> QED  BY <1>1, Zenon DEF pageref_fd, pageref_pipe

\* Equal counts: if each descriptor of one end has its data page, nobody has
\* the other end.
LEMMA EqualCounts ==
    ASSUME NEW x \in {"r", "w"}, pageref_fd(x) = pageref_pipe, DataInv,
           \A y \in PEnv \X Slot : fdmap[y[1]][y[2]] = x => datamap[y[1]][y[2]]
    PROVE  \A c \in PEnv \ Free, s \in Slot : fdmap[c][s] # Other(x)
<1> DEFINE F == {y \in PEnv \X Slot : fdmap[y[1]][y[2]] = x}
           D == {y \in PEnv \X Slot : datamap[y[1]][y[2]]}
<1>1. F \subseteq D /\ D \subseteq PEnv \X Slot
  BY Zenon
<1>2. IsFiniteSet(D)
  BY <1>1, SlotsFinite, FS_Subset, Zenon
<1>3. Cardinality(F) = Cardinality(D)
  BY Zenon DEF pageref_fd, pageref_pipe
<1>4. F = D
  BY <1>1, <1>2, <1>3, FS_Subset, Zenon
<1> SUFFICES ASSUME NEW c \in PEnv \ Free, NEW s \in Slot, fdmap[c][s] = Other(x) PROVE FALSE
  BY Zenon
<1>5. datamap[c][s]
  BY Zenon DEF DataInv, Other
<1>6. <<c, s>> \in D
  BY <1>5, Zenon
<1>7. fdmap[c][s] = x
  BY <1>4, <1>6, Zenon
<1> QED  BY <1>7, Zenon DEF Other

\* An end that nobody holds is not opened again.
LEMMA ClosedStays ==
    ASSUME ClosedIsTrue, answer' = answer,
           \A c \in PEnv, s \in Slot : fdmap'[c][s] # "no" => Held(fdmap'[c][s])
    PROVE  ClosedIsTrue'
<1>1. \A x \in {"r", "w"} : Held(x)' => Held(x)
  <2> SUFFICES ASSUME NEW x \in {"r", "w"}, NEW y \in PEnv \X Slot, fdmap'[y[1]][y[2]] = x
               PROVE  Held(x)
    BY Zenon DEF Held
  <2>1. y[1] \in PEnv /\ y[2] \in Slot
    BY Zenon
  <2> QED  BY <2>1, Zenon
<1> QED  BY <1>1, Zenon DEF ClosedIsTrue

LEMMA HeldIs ==
    ASSUME NEW c \in PEnv, NEW s \in Slot
    PROVE  Held(fdmap[c][s])
<1>1. <<c, s>> \in PEnv \X Slot /\ <<c, s>>[1] = c /\ <<c, s>>[2] = s
  BY Zenon
<1> QED  BY <1>1, Zenon DEF Held
-----------------------------------------------------------------------------
(* Steps that change no mapping. *)

MapCalls == {"unborn", "closing", "dupping", "forking"}

LEMMA MapsKept ==
    ASSUME MapInv, UNCHANGED <<fdmap, datamap, arg>>,
           \A e \in PEnv : jpc'[e] = jpc[e] \/ (jpc[e] \notin MapCalls /\ jpc'[e] \notin MapCalls),
           \A e \in PEnv : jpc[e] = "dupping" => seen'[e] = seen[e]
    PROVE  MapInv'
<1>1. Free' = Free
  BY Zenon DEF Free, MapCalls
<1>2. Child' = Child
  BY <1>1, Zenon DEF Child
<1>3. \A e \in PEnv : Forking(e)' <=> Forking(e)
  BY Zenon DEF Forking, MapCalls
<1>4. FamilyInv'
  BY <1>1, Zenon DEF MapInv, FamilyInv
<1>5. ArgInv'
  BY Zenon DEF MapInv, ArgInv, MapCalls
<1>6. ForkInv'
  BY <1>1, <1>2, <1>3, Zenon DEF MapInv, ForkInv
<1>7. UnbornInv'
  BY <1>1, <1>2, <1>3, Zenon DEF MapInv, UnbornInv, Bare
<1>8. DataInv'
  BY <1>1, Zenon DEF MapInv, DataInv
<1> QED  BY <1>4, <1>5, <1>6, <1>7, <1>8, Zenon DEF MapInv

LEMMA CountsKept ==
    ASSUME UNCHANGED <<fdmap, datamap>>
    PROVE  (\A x : pageref_fd(x)' = pageref_fd(x)) /\ pageref_pipe' = pageref_pipe
BY Zenon DEF pageref_fd, pageref_pipe

LEMMA Step_Switch ==
    ASSUME JosPipeInv, NRUN = 1, NEW e \in PEnv, NEW f \in PEnv, Switch(e, f)
    PROVE  JosPipeInv'
<1> USE DEF JosPipeInv
<1>e. /\ running' = (running \ {e}) \cup {f} /\ e \in running
      /\ undisturbed' = [undisturbed EXCEPT ![f] = FALSE]
      /\ jpc' = [jpc EXCEPT ![f] = IF @ = "yield" THEN "io" ELSE @]
      /\ UNCHANGED <<fdmap, datamap, p_buf, p_rpos, p_wpos, arg, seen, answer>>
  BY Zenon DEF Switch, maps, pipe_
<1>r. running' = {f}
  BY <1>e, Zenon DEF RunInv
<1>j. \A a \in PEnv : jpc'[a] = jpc[a] \/ (jpc[a] = "yield" /\ jpc'[a] = "io")
  BY <1>e, Zenon DEF JosPipeTypeOK
<1>1. JosPipeTypeOK'
  <2>1. Cardinality(running') = 1
    BY <1>r, FS_Singleton, Zenon
  <2> QED  BY <1>e, <1>r, <2>1 DEF JosPipeTypeOK
<1>2. MapInv'
  BY <1>e, <1>j, MapsKept, Zenon DEF MapCalls
<1>3. RunInv'
  BY <1>r, Zenon DEF RunInv
<1>4. CheckInv'
  BY <1>e, <1>r, Zenon DEF CheckInv, JosPipeTypeOK
<1>5. ClosedIsTrue'
  BY <1>e, HeldIs, ClosedStays, Zenon
<1>6. ByteInv'
  BY <1>e, <1>j, JosPipeConstants, Zenon DEF ByteInv, PipeHoldsBytes
<1> QED  BY <1>1, <1>2, <1>3, <1>4, <1>5, <1>6, Zenon

\* The environment that runs goes on in a read or a write.
LEMMA Step_call ==
    ASSUME JosPipeInv, NEW e \in {Rd, Wr}, e \in running,
           jpc[e] \notin MapCalls, jpc'[e] \notin MapCalls,
           UNCHANGED <<fdmap, datamap, arg, running>>,
           \A a \in PEnv \ {e} : jpc'[a] = jpc[a] /\ seen'[a] = seen[a],
           undisturbed'[e] =>
              /\ jpc'[e] = "check2" => seen'[e] = pageref_fd(End(e))
              /\ jpc'[e] = "check3" /\ seen'[e] = 1 => pageref_fd(End(e)) = pageref_pipe
    PROVE  MapInv' /\ RunInv' /\ CheckInv'
<1> USE DEF JosPipeInv
<1>0. e \in PEnv /\ running = {e}
  BY JosPipeConstants, Zenon DEF RunInv
<1>2. MapInv'
  <2>1. \A a \in PEnv : jpc'[a] = jpc[a] \/ (jpc[a] \notin MapCalls /\ jpc'[a] \notin MapCalls)
    BY Zenon
  <2>2. \A a \in PEnv : jpc[a] = "dupping" => seen'[a] = seen[a]
    BY Zenon DEF MapCalls
  <2> QED  BY <2>1, <2>2, MapsKept, Zenon
<1>3. RunInv'
  BY Zenon DEF RunInv
<1>4. CheckInv'
  <2>1. pageref_fd(End(e))' = pageref_fd(End(e)) /\ pageref_pipe' = pageref_pipe
    BY CountsKept, Zenon DEF End, pageref_fd
  <2> QED  BY <1>0, <2>1, Zenon DEF CheckInv
<1> QED  BY <1>2, <1>3, <1>4, Zenon

\* Numbers less than m apart have different remainders.
LEMMA RemaindersApart ==
    ASSUME NEW m \in Nat \ {0}, NEW x \in Nat, NEW y \in Nat, x < y, y - x < m
    PROVE  x % m # y % m
<1> DEFINE j == x \div m
           k == y \div m
<1>1. /\ x = m * j + (x % m) /\ j \in Int /\ x % m \in 0..m-1
      /\ y = m * k + (y % m) /\ k \in Int /\ y % m \in 0..m-1
  OBVIOUS
<1> HIDE DEF j, k
<1> SUFFICES ASSUME x % m = y % m PROVE FALSE
  BY Zenon
<1>2. y - x = m * (k - j) /\ k - j \in Int
  BY <1>1
<1>3. \A d \in Int : 0 < m * d => m * d >= m
  OBVIOUS
<1> QED  BY <1>2, <1>3

\* The pieces of ByteInv, when only other environments or positions change.
LEMMA BytesKept ==
    ASSUME ByteInv, UNCHANGED <<p_buf, p_rpos, p_wpos>>,
           \A e \in {Rd, Wr} : jpc'[e] = "stored" => jpc[e] = "stored"
    PROVE  ByteInv'
BY JosPipeConstants, Zenon DEF ByteInv, PipeHoldsBytes

LEMMA Step_Start ==
    ASSUME JosPipeInv, NEW e \in {Rd, Wr}, Start_(e)
    PROVE  JosPipeInv'
<1> USE DEF JosPipeInv
<1>e. /\ e \in running /\ jpc[e] = "idle" /\ jpc' = [jpc EXCEPT ![e] = "io"]
      /\ UNCHANGED <<fdmap, datamap, p_buf, p_rpos, p_wpos, running, arg, seen, undisturbed, answer>>
  BY Zenon DEF Start_, At, Goto_, maps, pipe_
<1>j. \A a \in PEnv : jpc'[a] = IF a = e THEN "io" ELSE jpc[a]
  BY <1>e, Zenon DEF JosPipeTypeOK
<1>m. jpc[e] \notin MapCalls /\ jpc'[e] = "io" /\ jpc'[e] \notin MapCalls
  BY <1>e, <1>j, JosPipeConstants DEF MapCalls
<1>1. MapInv' /\ RunInv' /\ CheckInv'
  BY <1>e, <1>j, <1>m, Step_call, Zenon
<1>c. ClosedIsTrue'
  BY <1>e, HeldIs, ClosedStays, Zenon
<1>2. JosPipeTypeOK'
  BY <1>e, Zenon DEF JosPipeTypeOK
<1>3. ByteInv'
  BY <1>e, BytesKept, JosPipeConstants, Zenon DEF JosPipeTypeOK
<1> QED  BY <1>1, <1>c, <1>2, <1>3, Zenon

\* What the two steps of a transfer do to the bytes, whoever else runs.
LEMMA Bytes_move_byte ==
    ASSUME ByteTypes, ByteInv, NEW e \in {Rd, Wr}, move_byte(e)
    PROVE  ByteTypes' /\ ByteInv'
<1>e. /\ jpc[e] = "io" /\ jpc' = [jpc EXCEPT ![e] = "stored"]
      /\ ~Must_wait(e) /\ (e = Wr => p_wpos < MaxBytes)
      /\ p_buf' = IF e = Wr THEN [p_buf EXCEPT ![p_wpos % PIPEBUFSIZ] = p_wpos + 1] ELSE p_buf
      /\ UNCHANGED <<p_rpos, p_wpos>>
  BY Zenon DEF move_byte, At, Goto_
<1>p. p_wpos \in Nat /\ p_rpos \in Nat /\ p_wpos % PIPEBUFSIZ \in 0..PIPEBUFSIZ-1
  BY JosPipeConstants DEF ByteTypes
<1>2. ByteTypes'
  BY <1>e, <1>p, JosPipeConstants DEF ByteTypes
<1>3. CASE e = Rd
  <2>1. p_rpos < p_wpos
    BY <1>3, <1>e, <1>p DEF Must_wait, ByteInv, PipeHoldsBytes
  <2>2. jpc'[Wr] = jpc[Wr] /\ p_buf' = p_buf
    BY <1>3, <1>e, JosPipeConstants, Zenon DEF ByteTypes
  <2>3. ByteInv'
    BY <2>1, <2>2, <1>e, JosPipeConstants, Zenon DEF ByteInv, PipeHoldsBytes
  <2> QED  BY <1>2, <2>3, Zenon
<1>4. CASE e = Wr
  <2>1. p_wpos < p_rpos + PIPEBUFSIZ /\ p_wpos < MaxBytes
    BY <1>4, <1>e, <1>p, JosPipeConstants DEF Must_wait, PipeFull
  <2>2. p_buf'[p_wpos % PIPEBUFSIZ] = p_wpos + 1
    BY <1>4, <1>e, <1>p, Zenon DEF ByteTypes
  <2>3. ASSUME NEW k \in p_rpos..p_wpos-1
        PROVE  p_buf'[k % PIPEBUFSIZ] = k + 1
    <3>1. k \in Nat /\ k < p_wpos /\ p_wpos - k < PIPEBUFSIZ
      BY <1>p, <2>1, JosPipeConstants
    <3>2. k % PIPEBUFSIZ # p_wpos % PIPEBUFSIZ
      BY <3>1, <1>p, RemaindersApart, JosPipeConstants, Zenon
    <3>3. k % PIPEBUFSIZ \in 0..PIPEBUFSIZ-1
      BY <3>1, JosPipeConstants
    <3>4. p_buf'[k % PIPEBUFSIZ] = p_buf[k % PIPEBUFSIZ]
      BY <1>4, <1>e, <1>p, <3>2, <3>3, Zenon DEF ByteTypes
    <3> QED  BY <3>4, Zenon DEF ByteInv, PipeHoldsBytes
  <2>4. jpc'[Rd] = jpc[Rd]
    BY <1>4, <1>e, JosPipeConstants, Zenon DEF ByteTypes
  <2>5. ByteInv'
    BY <2>1, <2>2, <2>3, <2>4, <1>e, Zenon DEF ByteInv, PipeHoldsBytes
  <2> QED  BY <1>2, <2>5, Zenon
<1> QED  BY <1>3, <1>4, Zenon

LEMMA Bytes_advance ==
    ASSUME ByteTypes, ByteInv, NEW e \in {Rd, Wr}, advance(e)
    PROVE  ByteTypes' /\ ByteInv'
<1>e. /\ jpc[e] = "stored" /\ jpc' = [jpc EXCEPT ![e] = "idle"]
      /\ IF e = Rd THEN p_rpos' = p_rpos + 1 /\ UNCHANGED p_wpos
                   ELSE p_wpos' = p_wpos + 1 /\ UNCHANGED p_rpos
      /\ UNCHANGED p_buf
  BY Zenon DEF advance, At, Goto_
<1>j. \A a \in PEnv : jpc'[a] = IF a = e THEN "idle" ELSE jpc[a]
  BY <1>e, Zenon DEF ByteTypes
<1>p. p_wpos \in Nat /\ p_rpos \in Nat /\ p_wpos <= MaxBytes
  BY JosPipeConstants DEF ByteTypes
<1>3. CASE e = Rd
  <2>1. p_rpos' = p_rpos + 1 /\ p_wpos' = p_wpos /\ p_rpos < p_wpos
    BY <1>3, <1>e, Zenon DEF ByteInv
  <2>2. ByteTypes'
    BY <1>e, <1>p, <2>1, JosPipeConstants DEF ByteTypes
  <2>3. ByteInv'
    <3>1. PipeHoldsBytes'
      <4>1. \A k \in p_rpos'..p_wpos'-1 : k \in p_rpos..p_wpos-1
        BY <1>p, <2>1
      <4>2. p_buf' = p_buf
        BY <1>e, Zenon
      <4>3. p_rpos' <= p_wpos' /\ p_wpos' <= p_rpos' + PIPEBUFSIZ
        BY <1>p, <2>1, JosPipeConstants DEF ByteInv, PipeHoldsBytes
      <4> QED  BY <4>1, <4>2, <4>3, Zenon DEF ByteInv, PipeHoldsBytes
    <3>2. jpc'[Rd] = "idle" /\ jpc'[Wr] = jpc[Wr]
      BY <1>3, <1>j, JosPipeConstants, Zenon
    <3>3. p_wpos < p_rpos + PIPEBUFSIZ => p_wpos' < p_rpos' + PIPEBUFSIZ
      BY <1>p, <2>1, JosPipeConstants
    <3> QED  BY <1>e, <2>1, <3>1, <3>2, <3>3, Zenon DEF ByteInv
  <2> QED  BY <2>2, <2>3, Zenon
<1>4. CASE e = Wr
  <2>1. /\ p_wpos' = p_wpos + 1 /\ p_rpos' = p_rpos
        /\ p_wpos < p_rpos + PIPEBUFSIZ /\ p_wpos < MaxBytes
        /\ p_buf[p_wpos % PIPEBUFSIZ] = p_wpos + 1
    BY <1>4, <1>e, JosPipeConstants, Zenon DEF ByteInv
  <2>2. ByteTypes'
    BY <1>e, <1>p, <2>1, JosPipeConstants DEF ByteTypes
  <2>3. ByteInv'
    <3>1. \A k \in p_rpos'..p_wpos'-1 : k = p_wpos \/ k \in p_rpos..p_wpos-1
      BY <1>p, <2>1
    <3>2. PipeHoldsBytes'
      <4>1. \A k \in p_rpos'..p_wpos'-1 : p_buf'[k % PIPEBUFSIZ] = k + 1
        <5> TAKE k \in p_rpos'..p_wpos'-1
        <5>1. CASE k = p_wpos
          BY <5>1, <1>e, <2>1, Zenon
        <5>2. CASE k \in p_rpos..p_wpos-1
          BY <5>2, <1>e, Zenon DEF ByteInv, PipeHoldsBytes
        <5> QED  BY <3>1, <5>1, <5>2, Zenon
      <4>2. p_rpos' <= p_wpos' /\ p_wpos' <= p_rpos' + PIPEBUFSIZ
        BY <1>p, <2>1, JosPipeConstants DEF ByteInv, PipeHoldsBytes
      <4> QED  BY <4>1, <4>2, Zenon DEF PipeHoldsBytes
    <3>3. p_rpos < p_wpos => p_rpos' < p_wpos'
      BY <1>p, <2>1
    <3> QED  BY <1>4, <1>j, <3>2, <3>3, JosPipeConstants, Zenon DEF ByteInv
  <2> QED  BY <2>2, <2>3, Zenon
<1> QED  BY <1>3, <1>4, Zenon

LEMMA Step_move_byte ==
    ASSUME JosPipeInv, NEW e \in {Rd, Wr}, move_byte(e)
    PROVE  JosPipeInv'
<1> USE DEF JosPipeInv
<1>e. /\ e \in running /\ jpc[e] = "io" /\ jpc' = [jpc EXCEPT ![e] = "stored"]
      /\ seen' = IF e = Rd THEN [seen EXCEPT ![e] = 0] ELSE seen
      /\ UNCHANGED <<fdmap, datamap, running, arg, undisturbed, answer>>
  BY Zenon DEF move_byte, At, Goto_, maps
<1>j. \A a \in PEnv : /\ jpc'[a] = (IF a = e THEN "stored" ELSE jpc[a])
                      /\ a # e => seen'[a] = seen[a]
  BY <1>e, Zenon DEF JosPipeTypeOK
<1>m. jpc[e] \notin MapCalls /\ jpc'[e] = "stored" /\ jpc'[e] \notin MapCalls
  BY <1>e, <1>j, JosPipeConstants DEF MapCalls
<1>1. MapInv' /\ RunInv' /\ CheckInv'
  BY <1>e, <1>j, <1>m, Step_call, Zenon
<1>2. ClosedIsTrue'
  BY <1>e, HeldIs, ClosedStays, Zenon
<1>3. ByteTypes' /\ ByteInv'
  BY Bytes_move_byte, Zenon DEF JosPipeTypeOK, ByteTypes
<1>4. seen' \in [PEnv -> 0..Cardinality(PEnv)*Slots+1]
  BY <1>e, SlotsFinite DEF JosPipeTypeOK
<1>5. JosPipeTypeOK'
  BY <1>e, <1>3, <1>4, Zenon DEF JosPipeTypeOK, ByteTypes
<1> QED  BY <1>1, <1>2, <1>3, <1>5, Zenon

LEMMA Step_advance ==
    ASSUME JosPipeInv, NEW e \in {Rd, Wr}, advance(e)
    PROVE  JosPipeInv'
<1> USE DEF JosPipeInv
<1>e. /\ e \in running /\ jpc[e] = "stored" /\ jpc' = [jpc EXCEPT ![e] = "idle"]
      /\ UNCHANGED <<fdmap, datamap, running, arg, seen, undisturbed, answer>>
  BY Zenon DEF advance, At, Goto_, maps
<1>j. \A a \in PEnv : jpc'[a] = IF a = e THEN "idle" ELSE jpc[a]
  BY <1>e, Zenon DEF JosPipeTypeOK
<1>m. jpc[e] \notin MapCalls /\ jpc'[e] = "idle" /\ jpc'[e] \notin MapCalls
  BY <1>e, <1>j, JosPipeConstants DEF MapCalls
<1>1. MapInv' /\ RunInv' /\ CheckInv'
  BY <1>e, <1>j, <1>m, Step_call, Zenon
<1>2. ClosedIsTrue'
  BY <1>e, HeldIs, ClosedStays, Zenon
<1>3. ByteTypes' /\ ByteInv'
  BY Bytes_advance, Zenon DEF JosPipeTypeOK, ByteTypes
<1>5. JosPipeTypeOK'
  BY <1>e, <1>3, Zenon DEF JosPipeTypeOK, ByteTypes
<1> QED  BY <1>1, <1>2, <1>3, <1>5, Zenon

\* The data of the pipe and its users' descriptors stay as they are.
LEMMA Step_check ==
    ASSUME JosPipeInv, NEW e \in {Rd, Wr}, e \in running,
           jpc[e] \notin MapCalls, NEW l \in {"idle", "check1", "check2", "check3", "yield"},
           NEW n \in 0..Cardinality(PEnv) * Slots + 1, NEW u \in BOOLEAN,
           jpc' = [jpc EXCEPT ![e] = l], seen' = [seen EXCEPT ![e] = n],
           undisturbed' = [undisturbed EXCEPT ![e] = u],
           UNCHANGED <<fdmap, datamap, p_buf, p_rpos, p_wpos, running, arg>>,
           u => /\ l = "check2" => n = pageref_fd(End(e))
                /\ l = "check3" /\ n = 1 => pageref_fd(End(e)) = pageref_pipe,
           ClosedIsTrue', answer' \subseteq PEnv
    PROVE  JosPipeInv'
<1> USE DEF JosPipeInv
<1>0. e \in PEnv
  BY JosPipeConstants, Zenon
<1>j. /\ \A a \in PEnv : jpc'[a] = (IF a = e THEN l ELSE jpc[a]) /\ (a # e => seen'[a] = seen[a])
      /\ seen'[e] = n /\ undisturbed'[e] = u
  BY <1>0, Zenon DEF JosPipeTypeOK
<1>m. jpc'[e] = l /\ jpc'[e] \notin MapCalls
  BY <1>0, <1>j, Zenon DEF MapCalls
<1>1. MapInv' /\ RunInv' /\ CheckInv'
  BY <1>j, <1>m, Step_call, Zenon
<1>2. JosPipeTypeOK'
  BY Zenon DEF JosPipeTypeOK
<1>3. ByteInv'
  <2>1. \A a \in {Rd, Wr} : jpc'[a] = "stored" => jpc[a] = "stored"
    BY <1>j, JosPipeConstants, Zenon
  <2> QED  BY <2>1, BytesKept, Zenon
<1> QED  BY <1>1, <1>2, <1>3, Zenon

LEMMA Step_isclosed_n ==
    ASSUME JosPipeInv, NEW e \in {Rd, Wr}, isclosed_n(e)
    PROVE  JosPipeInv'
<1> DEFINE n == seen[e]
<1>e. /\ e \in running /\ jpc[e] = "io" /\ jpc' = [jpc EXCEPT ![e] = "check1"]
      /\ undisturbed' = [undisturbed EXCEPT ![e] = TRUE] /\ seen' = seen /\ answer' = answer
      /\ UNCHANGED <<fdmap, datamap, p_buf, p_rpos, p_wpos, running, arg>>
  BY Zenon DEF isclosed_n, At, Goto_, maps, pipe_
<1>n. n \in 0..Cardinality(PEnv) * Slots + 1 /\ seen' = [seen EXCEPT ![e] = n] /\ answer' \subseteq PEnv
  BY <1>e, JosPipeConstants, Zenon DEF JosPipeInv, JosPipeTypeOK
<1>m. jpc[e] \notin MapCalls
  BY <1>e, Zenon DEF MapCalls
<1>c. ClosedIsTrue'
  BY <1>e, HeldIs, ClosedStays, Zenon DEF JosPipeInv
<1> HIDE DEF n
<1> QED  BY <1>e, <1>n, <1>m, <1>c, Step_check, Zenon

LEMMA Step_isclosed_fd ==
    ASSUME JosPipeInv, NEW e \in {Rd, Wr}, isclosed_fd(e)
    PROVE  JosPipeInv'
<1> DEFINE n == pageref_fd(End(e))
           u == undisturbed[e]
<1>e. /\ e \in running /\ jpc[e] = "check1" /\ jpc' = [jpc EXCEPT ![e] = "check2"]
      /\ seen' = [seen EXCEPT ![e] = n] /\ undisturbed' = undisturbed /\ answer' = answer
      /\ UNCHANGED <<fdmap, datamap, p_buf, p_rpos, p_wpos, running, arg>>
  BY Zenon DEF isclosed_fd, At, Goto_, maps, pipe_
<1>n. n \in 0..Cardinality(PEnv) * Slots + 1
  BY CountsTyped, SlotsFinite
<1>u. u \in BOOLEAN /\ undisturbed' = [undisturbed EXCEPT ![e] = u] /\ answer' \subseteq PEnv
  BY <1>e, JosPipeConstants, Zenon DEF JosPipeInv, JosPipeTypeOK
<1>m. jpc[e] \notin MapCalls
  BY <1>e, Zenon DEF MapCalls
<1>c. ClosedIsTrue'
  BY <1>e, HeldIs, ClosedStays, Zenon DEF JosPipeInv
<1> HIDE DEF u
<1> QED  BY <1>e, <1>n, <1>u, <1>m, <1>c, Step_check, Zenon

LEMMA Step_isclosed_pipe ==
    ASSUME JosPipeInv, NEW e \in {Rd, Wr}, isclosed_pipe(e)
    PROVE  JosPipeInv'
<1> DEFINE n == IF seen[e] = pageref_pipe THEN 1 ELSE 0
           u == undisturbed[e]
<1>e. /\ e \in running /\ jpc[e] = "check2" /\ jpc' = [jpc EXCEPT ![e] = "check3"]
      /\ seen' = [seen EXCEPT ![e] = n] /\ undisturbed' = undisturbed /\ answer' = answer
      /\ UNCHANGED <<fdmap, datamap, p_buf, p_rpos, p_wpos, running, arg>>
  BY JosPipeConstants, Zenon DEF isclosed_pipe, At, Goto_, maps, pipe_, JosPipeInv, JosPipeTypeOK
<1>n. n \in 0..Cardinality(PEnv) * Slots + 1
  BY SlotsFinite
<1>u. u \in BOOLEAN /\ undisturbed' = [undisturbed EXCEPT ![e] = u] /\ answer' \subseteq PEnv
  BY <1>e, JosPipeConstants, Zenon DEF JosPipeInv, JosPipeTypeOK
<1>s. u /\ n = 1 => pageref_fd(End(e)) = pageref_pipe
  BY <1>e DEF JosPipeInv, CheckInv
<1>m. jpc[e] \notin MapCalls
  BY <1>e, Zenon DEF MapCalls
<1>c. ClosedIsTrue'
  BY <1>e, HeldIs, ClosedStays, Zenon DEF JosPipeInv
<1> HIDE DEF u, n
<1> QED  BY <1>e, <1>n, <1>u, <1>s, <1>m, <1>c, Step_check, Zenon

\* Equal counts seen by an environment that has run alone: the end it asks
\* about is closed.  A child that is being made by the other side has only
\* descriptors of that side.
LEMMA OtherClosed ==
    ASSUME JosPipeInv, NEW e \in {Rd, Wr}, jpc[e] = "check3",
           pageref_fd(End(e)) = pageref_pipe
    PROVE  ~Held(Other(End(e)))
<1> USE DEF JosPipeInv
<1> DEFINE x == End(e)
<1>0. x \in {"r", "w"} /\ e \in PEnv
  BY JosPipeConstants, Zenon DEF End
<1>1. ASSUME NEW c \in Free, NEW s \in Slot, fdmap[c][s] # "no"
      PROVE  \E o \in {Rd, Wr} \ {e} : fdmap[c][s] = fdmap[o][s] /\ o \notin Free
  <2>1. c = Child /\ \E o \in PEnv : Forking(o)
    BY <1>1, Zenon DEF MapInv, UnbornInv, Bare
  <2>2. PICK o \in PEnv : Forking(o)
    BY <2>1, Zenon
  <2>3. o \in {Rd, Wr} /\ o # e /\ o \notin Free
    BY <2>2, Zenon DEF MapInv, ForkInv, Forking, Free
  <2>4. fdmap[c][s] = fdmap[o][s]
    BY <1>1, <2>1, <2>2, Zenon DEF MapInv, ForkInv
  <2> QED  BY <2>3, <2>4, Zenon
<1>2. \A y \in PEnv \X Slot : fdmap[y[1]][y[2]] = x => datamap[y[1]][y[2]]
  <2> SUFFICES ASSUME NEW c \in PEnv, NEW s \in Slot, fdmap[c][s] = x PROVE datamap[c][s]
    BY Zenon
  <2>1. c \notin Free
    BY <1>0, <1>1 DEF MapInv, FamilyInv, End
  <2> QED  BY <2>1, <1>0, Zenon DEF MapInv, DataInv
<1>3. \A c \in PEnv \ Free, s \in Slot : fdmap[c][s] # Other(x)
  <2> HIDE DEF x
  <2> QED  BY <1>0, <1>2, EqualCounts, Zenon DEF MapInv, x
<1>4. \A c \in PEnv, s \in Slot : fdmap[c][s] # Other(x)
  <2> SUFFICES ASSUME NEW c \in Free, NEW s \in Slot, fdmap[c][s] = Other(x) PROVE FALSE
    BY <1>3, Zenon
  <2>1. fdmap[c][s] # "no"
    BY <1>0, Zenon DEF Other
  <2>2. PICK o \in {Rd, Wr} \ {e} : fdmap[c][s] = fdmap[o][s] /\ o \notin Free
    BY <1>1, <2>1, Zenon
  <2> QED  BY <1>3, <2>2, JosPipeConstants, Zenon
<1> QED  BY <1>4, Zenon DEF Held

LEMMA Step_isclosed_nn ==
    ASSUME JosPipeInv, NEW e \in {Rd, Wr}, isclosed_nn(e)
    PROVE  JosPipeInv'
<1> USE DEF JosPipeInv
<1>0. /\ e \in running /\ jpc[e] = "check3" /\ jpc[e] \notin MapCalls /\ e \in PEnv
      /\ UNCHANGED <<fdmap, datamap, p_buf, p_rpos, p_wpos, running, arg>>
  BY JosPipeConstants, Zenon DEF isclosed_nn, At, maps, pipe_, MapCalls
<1>s. /\ seen[e] \in 0..Cardinality(PEnv) * Slots + 1 /\ 0 \in 0..Cardinality(PEnv) * Slots + 1
      /\ undisturbed[e] \in BOOLEAN
      /\ seen = [seen EXCEPT ![e] = seen[e]]
      /\ undisturbed = [undisturbed EXCEPT ![e] = undisturbed[e]]
  BY <1>0, SlotsFinite DEF JosPipeTypeOK
<1>k. answer' = answer => ClosedIsTrue' /\ answer' \subseteq PEnv
  BY <1>0, HeldIs, ClosedStays, Zenon DEF JosPipeTypeOK
<1>1. CASE /\ ~SameRun(e) /\ undisturbed' = [undisturbed EXCEPT ![e] = TRUE]
           /\ seen' = [seen EXCEPT ![e] = 0] /\ Goto_(e, "check1") /\ UNCHANGED answer
  <2>1. jpc' = [jpc EXCEPT ![e] = "check1"]
    BY <1>1, Zenon DEF Goto_
  <2> QED  BY <1>0, <1>s, <1>k, <1>1, <2>1, Step_check, Zenon
<1>2. CASE /\ SameRun(e) /\ seen[e] = 1 /\ answer' = answer \cup {e}
           /\ seen' = [seen EXCEPT ![e] = 0] /\ Goto_(e, "idle") /\ UNCHANGED undisturbed
  <2>1. jpc' = [jpc EXCEPT ![e] = "idle"] /\ undisturbed' = [undisturbed EXCEPT ![e] = undisturbed[e]]
    BY <1>2, <1>s, Zenon DEF Goto_
  <2>2. pageref_fd(End(e)) = pageref_pipe
    BY <1>0, <1>2, Zenon DEF CheckInv, SameRun
  <2>3. ~Held(Other(End(e)))
    BY <1>0, <2>2, OtherClosed, Zenon
  <2>4. ClosedIsTrue' /\ answer' \subseteq PEnv
    BY <1>0, <1>2, <2>3, JosPipeConstants DEF ClosedIsTrue, Held, Other, End, JosPipeTypeOK
  <2> QED  BY <1>0, <1>s, <2>1, <1>2, <2>4, Step_check, Zenon
<1>3. CASE /\ SameRun(e) /\ seen[e] = 0 /\ Goto_(e, "yield")
           /\ UNCHANGED <<seen, undisturbed, answer>>
  <2>1. /\ jpc' = [jpc EXCEPT ![e] = "yield"] /\ seen' = [seen EXCEPT ![e] = seen[e]]
        /\ undisturbed' = [undisturbed EXCEPT ![e] = undisturbed[e]]
    BY <1>3, <1>s, Zenon DEF Goto_
  <2> QED  BY <1>0, <1>s, <1>k, <1>3, <2>1, Step_check, Zenon
<1> QED  BY <1>1, <1>2, <1>3, Zenon DEF isclosed_nn
-----------------------------------------------------------------------------
(* Steps that change mappings. *)

\* The environment that runs is not in _pipeisclosed, and no end is opened
\* that nobody had.
LEMMA Step_maps ==
    ASSUME JosPipeInv, NEW e \in PEnv, e \in running, running' = running, answer' = answer,
           jpc'[e] \in {"idle", "closing", "dupping", "forking"},
           \A a \in PEnv \ {e} : jpc'[a] = jpc[a] \/ jpc'[a] = "idle",
           UNCHANGED <<p_buf, p_rpos, p_wpos>>,
           \A c \in PEnv, s \in Slot :
              fdmap'[c][s] # "no" => \E d \in PEnv, t \in Slot : fdmap'[c][s] = fdmap[d][t]
    PROVE  RunInv' /\ CheckInv' /\ ClosedIsTrue' /\ ByteInv'
<1> USE DEF JosPipeInv
<1>1. RunInv' /\ running' = {e}
  BY Zenon DEF RunInv
<1>2. CheckInv'
  BY <1>1, Zenon DEF CheckInv
<1>3. ClosedIsTrue'
  BY HeldIs, ClosedStays
<1>4. ByteInv'
  <2>1. \A a \in {Rd, Wr} : jpc'[a] = "stored" => jpc[a] = "stored"
    BY JosPipeConstants, Zenon
  <2> QED  BY <2>1, BytesKept, Zenon
<1> QED  BY <1>1, <1>2, <1>3, <1>4, Zenon

\* close and dup change the maps of the environment that calls them, which is
\* neither forking nor a child that is being made.
LEMMA OwnMaps ==
    ASSUME MapInv, NEW e \in PEnv, jpc[e] \notin {"unborn", "forking"},
           jpc'[e] \notin {"unborn", "forking"},
           \A a \in PEnv \ {e} : /\ jpc'[a] = jpc[a] /\ arg'[a] = arg[a]
                                 /\ fdmap'[a] = fdmap[a] /\ datamap'[a] = datamap[a]
    PROVE  Free' = Free /\ e \notin Free /\ ForkInv' /\ UnbornInv'
<1>1. Free' = Free /\ e \notin Free
  BY Zenon DEF Free
<1>2. Child' = Child /\ \A a \in PEnv : Forking(a)' <=> Forking(a)
  BY <1>1, Zenon DEF Child, Forking
<1>3. ForkInv'
  <2> SUFFICES ASSUME NEW a \in PEnv, Forking(a)'
               PROVE  /\ a \in {Rd, Wr} /\ Free # {} /\ \A o \in PEnv \ {a} : ~Forking(o)
                      /\ \A t \in Slot : /\ fdmap'[Child][t] = IF t < arg'[a] THEN fdmap'[a][t] ELSE "no"
                                         /\ datamap'[Child][t] <=> (t < arg'[a] - Slots /\ datamap'[a][t])
    BY <1>1, <1>2, Zenon DEF ForkInv
  <2>1. Forking(a) /\ a # e /\ Free # {}
    BY <1>2, Zenon DEF MapInv, ForkInv, Forking
  <2>2. Child \in PEnv /\ Child # e
    BY <1>1, <2>1, Zenon DEF Child, Free
  <2> QED  BY <2>1, <2>2 DEF MapInv, ForkInv
<1>4. UnbornInv'
  BY <1>1, <1>2 DEF MapInv, UnbornInv, Bare, Free
<1> QED  BY <1>1, <1>3, <1>4, Zenon

LEMMA Step_devpipe_close ==
    ASSUME JosPipeInv, NEW e \in PEnv, NEW s \in Slot, devpipe_close(e, s)
    PROVE  JosPipeInv'
<1> USE DEF JosPipeInv
<1>e. /\ e \in running /\ jpc[e] = "idle" /\ jpc' = [jpc EXCEPT ![e] = "closing"]
      /\ fdmap' = [fdmap EXCEPT ![e][s] = "no"] /\ arg' = [arg EXCEPT ![e] = s]
      /\ UNCHANGED <<datamap, p_buf, p_rpos, p_wpos, running, seen, undisturbed, answer>>
  BY Zenon DEF devpipe_close, CloseFirst, At, Goto_, pipe_
<1>j. \A a \in PEnv : /\ jpc'[a] = (IF a = e THEN "closing" ELSE jpc[a])
                      /\ arg'[a] = (IF a = e THEN s ELSE arg[a])
                      /\ \A t \in Slot : fdmap'[a][t] = IF a = e /\ t = s THEN "no" ELSE fdmap[a][t]
  BY <1>e, Zenon DEF JosPipeTypeOK
<1>o. /\ jpc'[e] = "closing"
      /\ \A a \in PEnv \ {e} : /\ jpc'[a] = jpc[a] /\ arg'[a] = arg[a]
                               /\ fdmap'[a] = fdmap[a] /\ datamap'[a] = datamap[a]
  BY <1>e, Zenon DEF JosPipeTypeOK
<1>1. RunInv' /\ CheckInv' /\ ClosedIsTrue' /\ ByteInv'
  BY <1>e, <1>j, Step_maps
<1>2. JosPipeTypeOK'
  BY <1>e, JosPipeConstants DEF JosPipeTypeOK, Slot
<1>f. Free' = Free /\ e \notin Free /\ ForkInv' /\ UnbornInv'
  BY <1>e, <1>o, OwnMaps, Zenon
<1>3. FamilyInv'
  BY <1>f, <1>j, JosPipeConstants DEF MapInv, FamilyInv
<1>4. ArgInv'
  BY <1>e, <1>j DEF MapInv, ArgInv
<1>5. DataInv'
  BY <1>e, <1>f, <1>j DEF MapInv, DataInv
<1> QED  BY <1>1, <1>2, <1>f, <1>3, <1>4, <1>5, Zenon DEF MapInv

LEMMA Step_devpipe_close2 ==
    ASSUME JosPipeInv, NEW e \in PEnv, devpipe_close2(e)
    PROVE  JosPipeInv'
<1> USE DEF JosPipeInv
<1> DEFINE s == arg[e]
<1>e. /\ e \in running /\ jpc[e] = "closing" /\ jpc' = [jpc EXCEPT ![e] = "idle"]
      /\ fdmap' = [fdmap EXCEPT ![e][s] = "no"] /\ datamap' = [datamap EXCEPT ![e][s] = FALSE]
      /\ arg' = [arg EXCEPT ![e] = 0]
      /\ UNCHANGED <<p_buf, p_rpos, p_wpos, running, seen, undisturbed, answer>>
  BY Zenon DEF devpipe_close2, At, Goto_, pipe_
<1>s. s \in Slot
  BY <1>e, Zenon DEF MapInv, ArgInv
<1> HIDE DEF s
<1>j. \A a \in PEnv : /\ jpc'[a] = (IF a = e THEN "idle" ELSE jpc[a])
                      /\ arg'[a] = (IF a = e THEN 0 ELSE arg[a])
                      /\ \A t \in Slot :
                         /\ fdmap'[a][t] = IF a = e /\ t = s THEN "no" ELSE fdmap[a][t]
                         /\ datamap'[a][t] <=> (datamap[a][t] /\ ~(a = e /\ t = s))
  BY <1>e, <1>s, Zenon DEF JosPipeTypeOK
<1>o. /\ jpc'[e] = "idle"
      /\ \A a \in PEnv \ {e} : /\ jpc'[a] = jpc[a] /\ arg'[a] = arg[a]
                               /\ fdmap'[a] = fdmap[a] /\ datamap'[a] = datamap[a]
  BY <1>e, Zenon DEF JosPipeTypeOK
<1>1. RunInv' /\ CheckInv' /\ ClosedIsTrue' /\ ByteInv'
  BY <1>e, <1>j, Step_maps
<1>2. JosPipeTypeOK'
  <2>1. 0 \in 0..2 * Slots
    BY JosPipeConstants
  <2>2. fdmap' \in [PEnv -> [Slot -> {"r", "w", "no"}]] /\ datamap' \in [PEnv -> [Slot -> BOOLEAN]]
    BY <1>e, <1>s, Zenon DEF JosPipeTypeOK
  <2>3. arg' \in [PEnv -> 0..2 * Slots]
    BY <1>e, <2>1, Zenon DEF JosPipeTypeOK
  <2> QED  BY <1>e, <2>2, <2>3, Zenon DEF JosPipeTypeOK
<1>f. Free' = Free /\ e \notin Free /\ ForkInv' /\ UnbornInv'
  BY <1>e, <1>o, OwnMaps, Zenon
<1>3. FamilyInv'
  BY <1>f, <1>j, JosPipeConstants DEF MapInv, FamilyInv
<1>4. ArgInv'
  BY <1>e, <1>j DEF MapInv, ArgInv
<1>5. DataInv'
  BY <1>e, <1>f, <1>j DEF MapInv, DataInv
<1> QED  BY <1>1, <1>2, <1>f, <1>3, <1>4, <1>5, Zenon DEF MapInv

LEMMA Step_dup ==
    ASSUME JosPipeInv, NEW e \in PEnv, NEW s \in Slot, NEW n \in Slot, dup(e, s, n)
    PROVE  JosPipeInv'
<1> USE DEF JosPipeInv
<1>e. /\ e \in running /\ jpc[e] = "idle" /\ jpc' = [jpc EXCEPT ![e] = "dupping"]
      /\ datamap' = [datamap EXCEPT ![e][n] = TRUE]
      /\ arg' = [arg EXCEPT ![e] = n] /\ seen' = [seen EXCEPT ![e] = s]
      /\ UNCHANGED <<fdmap, p_buf, p_rpos, p_wpos, running, undisturbed, answer>>
  BY Zenon DEF dup, At, Goto_, pipe_
<1>j. \A a \in PEnv : /\ jpc'[a] = (IF a = e THEN "dupping" ELSE jpc[a])
                      /\ arg'[a] = (IF a = e THEN n ELSE arg[a])
                      /\ seen'[a] = (IF a = e THEN s ELSE seen[a])
                      /\ \A t \in Slot :
                         datamap'[a][t] <=> (datamap[a][t] \/ (a = e /\ t = n))
  BY <1>e, Zenon DEF JosPipeTypeOK
<1>o. /\ jpc'[e] = "dupping"
      /\ \A a \in PEnv \ {e} : /\ jpc'[a] = jpc[a] /\ arg'[a] = arg[a]
                               /\ fdmap'[a] = fdmap[a] /\ datamap'[a] = datamap[a]
  BY <1>e, Zenon DEF JosPipeTypeOK
<1>1. RunInv' /\ CheckInv' /\ ClosedIsTrue' /\ ByteInv'
  BY <1>e, <1>j, Step_maps
<1>2. JosPipeTypeOK'
  <2>1. s \in 0..Cardinality(PEnv) * Slots + 1 /\ n \in 0..2 * Slots
    BY SlotsFinite, JosPipeConstants DEF Slot
  <2> QED  BY <1>e, <2>1, Zenon DEF JosPipeTypeOK
<1>f. Free' = Free /\ e \notin Free /\ ForkInv' /\ UnbornInv'
  BY <1>e, <1>o, OwnMaps, Zenon
<1>3. FamilyInv'
  BY <1>e, <1>f, JosPipeConstants, Zenon DEF MapInv, FamilyInv
<1>4. ArgInv'
  BY <1>e, <1>j DEF MapInv, ArgInv
<1>5. DataInv'
  BY <1>e, <1>f, <1>j DEF MapInv, DataInv
<1> QED  BY <1>1, <1>2, <1>f, <1>3, <1>4, <1>5, Zenon DEF MapInv

LEMMA Step_dup2 ==
    ASSUME JosPipeInv, NEW e \in PEnv, dup2(e)
    PROVE  JosPipeInv'
<1> USE DEF JosPipeInv
<1> DEFINE n == arg[e]
           x == fdmap[e][seen[e]]
<1>e. /\ e \in running /\ jpc[e] = "dupping" /\ jpc' = [jpc EXCEPT ![e] = "idle"]
      /\ fdmap' = [fdmap EXCEPT ![e][n] = x]
      /\ arg' = [arg EXCEPT ![e] = 0] /\ seen' = [seen EXCEPT ![e] = 0]
      /\ UNCHANGED <<datamap, p_buf, p_rpos, p_wpos, running, undisturbed, answer>>
  BY Zenon DEF dup2, At, Goto_, pipe_
<1>s. n \in Slot /\ datamap[e][n] /\ x \in {"r", "w", "no"} /\ \E t \in Slot : x = fdmap[e][t]
  BY <1>e DEF MapInv, ArgInv, JosPipeTypeOK
<1> HIDE DEF n, x
<1>j. \A a \in PEnv : /\ jpc'[a] = (IF a = e THEN "idle" ELSE jpc[a])
                      /\ arg'[a] = (IF a = e THEN 0 ELSE arg[a])
                      /\ seen'[a] = (IF a = e THEN 0 ELSE seen[a])
                      /\ \A t \in Slot : fdmap'[a][t] = IF a = e /\ t = n THEN x ELSE fdmap[a][t]
  BY <1>e, <1>s, Zenon DEF JosPipeTypeOK
<1>o. /\ jpc'[e] = "idle"
      /\ \A a \in PEnv \ {e} : /\ jpc'[a] = jpc[a] /\ arg'[a] = arg[a]
                               /\ fdmap'[a] = fdmap[a] /\ datamap'[a] = datamap[a]
  BY <1>e, Zenon DEF JosPipeTypeOK
<1>1. RunInv' /\ CheckInv' /\ ClosedIsTrue' /\ ByteInv'
  BY <1>e, <1>s, <1>j, Step_maps
<1>2. JosPipeTypeOK'
  <2>1. 0 \in 0..2 * Slots /\ 0 \in 0..Cardinality(PEnv) * Slots + 1
    BY SlotsFinite, JosPipeConstants
  <2>2. fdmap' \in [PEnv -> [Slot -> {"r", "w", "no"}]]
    BY <1>e, <1>s, Zenon DEF JosPipeTypeOK
  <2>3. arg' \in [PEnv -> 0..2 * Slots] /\ seen' \in [PEnv -> 0..Cardinality(PEnv) * Slots + 1]
    BY <1>e, <2>1, Zenon DEF JosPipeTypeOK
  <2> QED  BY <1>e, <2>2, <2>3, Zenon DEF JosPipeTypeOK
<1>f. Free' = Free /\ e \notin Free /\ ForkInv' /\ UnbornInv'
  BY <1>e, <1>o, OwnMaps, Zenon
<1>3. FamilyInv'
  BY <1>s, <1>f, <1>j, JosPipeConstants DEF MapInv, FamilyInv
<1>4. ArgInv'
  BY <1>e, <1>j DEF MapInv, ArgInv
<1>5. DataInv'
  BY <1>e, <1>s, <1>f, <1>j DEF MapInv, DataInv
<1> QED  BY <1>1, <1>2, <1>f, <1>3, <1>4, <1>5, Zenon DEF MapInv

\* The next page of the child: what ForkInv says of the child goes one page on.
LEMMA Step_fork_page ==
    ASSUME JosPipeInv, Apart, NEW e \in PEnv, fork_page(e)
    PROVE  JosPipeInv'
<1> USE DEF JosPipeInv
<1> DEFINE k == arg[e]
           x == fdmap[e][k]
           d == datamap[e][k - Slots]
<1>0. /\ e \in running /\ e \in {Rd, Wr} /\ Free # {} /\ jpc' = [jpc EXCEPT ![e] = "forking"]
      /\ \A o \in PEnv \ {e} : ~Forking(o)
      /\ jpc[e] = "idle" \/ (Forking(e) /\ k < 2 * Slots)
      /\ arg' = [arg EXCEPT ![e] = k + 1]
      /\ UNCHANGED <<p_buf, p_rpos, p_wpos, running, seen, undisturbed, answer>>
  BY Zenon DEF fork_page, Goto_, pipe_, Forking, Apart
<1>c. Child \in Free /\ Child \in PEnv /\ Child # e /\ Child \notin {Rd, Wr}
  BY <1>0, Zenon DEF Child, Free, MapInv, FamilyInv
<1>k. k \in 0..2 * Slots - 1 /\ (jpc[e] = "idle" => k = 0)
  <2>1. k \in 0..2 * Slots /\ (jpc[e] = "idle" => k = 0)
    BY <1>0, Zenon DEF MapInv, ArgInv, JosPipeTypeOK
  <2> QED  BY <1>0, <2>1, JosPipeConstants
<1>m. \/ k < Slots /\ fdmap' = [fdmap EXCEPT ![Child][k] = x] /\ UNCHANGED datamap
      \/ k >= Slots /\ datamap' = [datamap EXCEPT ![Child][k - Slots] = d] /\ UNCHANGED fdmap
  BY <1>k, JosPipeConstants DEF fork_page
<1>x. /\ k < Slots => k \in Slot /\ x \in {"r", "w", "no"}
      /\ k >= Slots => k - Slots \in Slot /\ d \in BOOLEAN
  BY <1>k, JosPipeConstants DEF Slot, JosPipeTypeOK
<1>o. \A s \in Slot : /\ fdmap[Child][s] = IF s < k THEN fdmap[e][s] ELSE "no"
                      /\ datamap[Child][s] <=> (s < k - Slots /\ datamap[e][s])
  <2>1. CASE Forking(e)
    BY <2>1, Zenon DEF MapInv, ForkInv
  <2>2. CASE jpc[e] = "idle"
    <3>1. Bare(Child)
      BY <1>0, <1>c, <2>2, Zenon DEF MapInv, UnbornInv, Forking
    <3> QED  BY <3>1, <1>k, <2>2, JosPipeConstants DEF Bare, Slot
  <2> QED  BY <1>0, <2>1, <2>2, Zenon
<1> HIDE DEF k
<1>p. \A a \in PEnv \ {Child} : fdmap'[a] = fdmap[a] /\ datamap'[a] = datamap[a]
  BY <1>m, Zenon DEF JosPipeTypeOK
<1>q. \A s \in Slot : /\ fdmap'[Child][s] = IF s < k + 1 THEN fdmap[e][s] ELSE "no"
                      /\ datamap'[Child][s] <=> (s < k + 1 - Slots /\ datamap[e][s])
  <2> TAKE s \in Slot
  <2>1. CASE k < Slots
    <3>1. datamap' = datamap /\ fdmap'[Child][s] = IF s = k THEN x ELSE fdmap[Child][s]
      BY <2>1, <1>m, <1>c, <1>x, <1>k, JosPipeConstants DEF JosPipeTypeOK
    <3> QED  BY <3>1, <2>1, <1>o, <1>k, JosPipeConstants DEF Slot
  <2>2. CASE k >= Slots
    <3>1. /\ fdmap' = fdmap
          /\ datamap'[Child][s] <=> IF s = k - Slots THEN d ELSE datamap[Child][s]
      BY <2>2, <1>m, <1>c, <1>x, <1>k, JosPipeConstants DEF JosPipeTypeOK
    <3> QED  BY <3>1, <2>2, <1>o, <1>k, JosPipeConstants DEF Slot
  <2> QED  BY <2>1, <2>2, <1>k, JosPipeConstants
<1>j. \A a \in PEnv : /\ jpc'[a] = (IF a = e THEN "forking" ELSE jpc[a])
                      /\ arg'[a] = (IF a = e THEN k + 1 ELSE arg[a])
  BY <1>0, Zenon DEF JosPipeTypeOK
<1>1. RunInv' /\ CheckInv' /\ ClosedIsTrue' /\ ByteInv'
  <2>1. \A c \in PEnv, s \in Slot :
           fdmap'[c][s] # "no" => \E f \in PEnv, t \in Slot : fdmap'[c][s] = fdmap[f][t]
    BY <1>p, <1>q, Zenon
  <2> QED  BY <1>0, <1>j, <2>1, Step_maps
<1>2. JosPipeTypeOK'
  <2>1. fdmap' \in [PEnv -> [Slot -> {"r", "w", "no"}]] /\ datamap' \in [PEnv -> [Slot -> BOOLEAN]]
    <3>1. CASE k < Slots
      <4>1. fdmap' = [fdmap EXCEPT ![Child][k] = x] /\ datamap' = datamap
        BY <3>1, <1>m, <1>k, JosPipeConstants
      <4> QED  BY <3>1, <4>1, <1>x, <1>c, Zenon DEF JosPipeTypeOK
    <3>2. CASE k >= Slots
      <4>1. datamap' = [datamap EXCEPT ![Child][k - Slots] = d] /\ fdmap' = fdmap
        BY <3>2, <1>m, <1>k, JosPipeConstants
      <4> HIDE DEF d
      <4> QED  BY <3>2, <4>1, <1>x, <1>c, Zenon DEF JosPipeTypeOK
    <3> QED  BY <3>1, <3>2, <1>k, JosPipeConstants
  <2>2. k + 1 \in 0..2 * Slots
    BY <1>k, JosPipeConstants
  <2> QED  BY <1>0, <2>1, <2>2, Zenon DEF JosPipeTypeOK
<1>f. Free' = Free /\ Child' = Child /\ \A a \in PEnv : Forking(a)' <=> a = e
  <2>1. e \notin Free
    BY <1>0, Zenon DEF MapInv, FamilyInv
  <2>2. Free' = Free
    BY <2>1, <1>j, Zenon DEF Free
  <2> QED  BY <2>2, <1>0, <1>j, Zenon DEF Child, Forking
<1>3. FamilyInv'
  BY <1>f, <1>p, <1>c, JosPipeConstants, Zenon DEF MapInv, FamilyInv
<1>4. ArgInv'
  <2> SUFFICES ASSUME NEW a \in PEnv
               PROVE  /\ jpc'[a] \notin {"closing", "dupping", "forking"} => arg'[a] = 0
                      /\ jpc'[a] = "closing" => arg'[a] \in Slot
                      /\ jpc'[a] = "dupping" => arg'[a] \in Slot /\ seen'[a] \in Slot /\ datamap'[a][arg'[a]]
    BY Zenon DEF ArgInv
  <2>1. a = Child => jpc[a] = "unborn"
    BY <1>c, Zenon DEF Free
  <2> QED  BY <1>0, <1>j, <1>p, <2>1 DEF MapInv, ArgInv
<1>5. ForkInv'
  <2>1. arg'[e] = k + 1 /\ fdmap'[e] = fdmap[e] /\ datamap'[e] = datamap[e]
    BY <1>j, <1>p, <1>c, Zenon
  <2>2. e \in {Rd, Wr} /\ Free' # {} /\ \A o \in PEnv \ {e} : ~(Forking(o)')
    BY <1>0, <1>f, Zenon
  <2>3. \A s \in Slot : /\ fdmap'[Child][s] = IF s < arg'[e] THEN fdmap'[e][s] ELSE "no"
                        /\ datamap'[Child][s] <=> (s < arg'[e] - Slots /\ datamap'[e][s])
    BY <1>q, <2>1, <1>k, JosPipeConstants DEF Slot
  <2> QED  BY <1>f, <2>2, <2>3, Zenon DEF ForkInv
<1>6. UnbornInv'
  BY <1>0, <1>f, <1>p DEF MapInv, UnbornInv, Bare, Free
<1>7. DataInv'
  BY <1>f, <1>p, <1>c DEF MapInv, DataInv
<1> QED  BY <1>1, <1>2, <1>3, <1>4, <1>5, <1>6, <1>7, Zenon DEF MapInv

\* The child has all that its parent has, and may run.
LEMMA Step_fork_done ==
    ASSUME JosPipeInv, NEW e \in PEnv, fork_done(e)
    PROVE  JosPipeInv'
<1> USE DEF JosPipeInv
<1> DEFINE C == Child
<1>0. /\ e \in running /\ Forking(e) /\ arg[e] = 2 * Slots
      /\ jpc' = [jpc EXCEPT ![e] = "idle", ![C] = "idle"] /\ arg' = [arg EXCEPT ![e] = 0]
      /\ UNCHANGED <<fdmap, datamap, p_buf, p_rpos, p_wpos, running, seen, undisturbed, answer>>
  BY Zenon DEF fork_done, At, maps, pipe_, Forking
<1>f. /\ e \in {Rd, Wr} /\ Free # {} /\ \A o \in PEnv \ {e} : ~Forking(o)
      /\ \A s \in Slot : /\ fdmap[C][s] = IF s < arg[e] THEN fdmap[e][s] ELSE "no"
                         /\ datamap[C][s] <=> (s < arg[e] - Slots /\ datamap[e][s])
  BY <1>0, Zenon DEF MapInv, ForkInv
<1>c. C \in Free /\ C \in PEnv /\ C # e /\ C \notin {Rd, Wr} /\ jpc[C] = "unborn" /\ e \notin Free
  BY <1>f, Zenon DEF Child, Free, MapInv, FamilyInv
<1>q. \A s \in Slot : fdmap[C][s] = fdmap[e][s] /\ (datamap[C][s] <=> datamap[e][s])
  BY <1>0, <1>f, JosPipeConstants DEF Slot
<1>b. \A c \in Free \ {C} : Bare(c)
  BY Zenon DEF MapInv, UnbornInv
<1> HIDE DEF C
<1>j. \A a \in PEnv : /\ jpc'[a] = (IF a \in {e, C} THEN "idle" ELSE jpc[a])
                      /\ arg'[a] = (IF a = e THEN 0 ELSE arg[a])
  BY <1>0, <1>c, Zenon DEF JosPipeTypeOK
<1>1. RunInv' /\ CheckInv' /\ ClosedIsTrue' /\ ByteInv'
  BY <1>0, <1>j, Step_maps, Zenon
<1>2. JosPipeTypeOK'
  <2>1. jpc' \in [PEnv -> {"unborn", "idle", "closing", "dupping", "forking", "io", "check1",
                        "check2", "check3", "yield", "stored"}]
    BY <1>0, Zenon DEF JosPipeTypeOK
  <2>2. arg' \in [PEnv -> 0..2 * Slots]
    BY <1>0, JosPipeConstants DEF JosPipeTypeOK
  <2> QED  BY <1>0, <2>1, <2>2, Zenon DEF JosPipeTypeOK
<1>g. Free' = Free \ {C} /\ \A a \in PEnv : ~(Forking(a)')
  BY <1>c, <1>j, <1>f DEF Free, Forking
<1>3. FamilyInv'
  BY <1>g, <1>0, Zenon DEF MapInv, FamilyInv
<1>4. ArgInv'
  <2> SUFFICES ASSUME NEW a \in PEnv
               PROVE  /\ jpc'[a] \notin {"closing", "dupping", "forking"} => arg'[a] = 0
                      /\ jpc'[a] = "closing" => arg'[a] \in Slot
                      /\ jpc'[a] = "dupping" => arg'[a] \in Slot /\ seen'[a] \in Slot /\ datamap'[a][arg'[a]]
    BY Zenon DEF ArgInv
  <2>1. CASE a \in {e, C}
    BY <2>1, <1>j, <1>c, Zenon DEF MapInv, ArgInv
  <2>2. CASE a \notin {e, C}
    BY <2>2, <1>0, <1>j, Zenon DEF MapInv, ArgInv
  <2> QED  BY <2>1, <2>2, Zenon
<1>5. ForkInv'
  BY <1>g, Zenon DEF ForkInv
<1>6. UnbornInv'
  BY <1>g, <1>b, <1>0, Zenon DEF UnbornInv, Bare
<1>7. DataInv'
  BY <1>g, <1>q, <1>0, <1>c, Zenon DEF MapInv, DataInv
<1> QED  BY <1>1, <1>2, <1>3, <1>4, <1>5, <1>6, <1>7, Zenon DEF MapInv
-----------------------------------------------------------------------------
LEMMA JosPipeInitially ==
    ASSUME Apart, JosPipeInit
    PROVE  JosPipeInv
<1> USE DEF JosPipeInv
<1>0. /\ fdmap = [e \in PEnv |-> IF e = Rd THEN [Blank EXCEPT ![0] = "r"]
                                 ELSE IF e = Wr THEN [Blank EXCEPT ![1] = "w", ![0] = "no"] ELSE Blank]
      /\ datamap = [e \in PEnv |-> [s \in Slot |-> fdmap[e][s] # "no"]]
      /\ p_buf = [i \in 0..PIPEBUFSIZ-1 |-> 0] /\ p_rpos = 0 /\ p_wpos = 0
      /\ running \subseteq {Rd, Wr} /\ Cardinality(running) = 1
      /\ jpc = [e \in PEnv |-> IF e \in {Rd, Wr} THEN "idle" ELSE "unborn"]
      /\ arg = [e \in PEnv |-> 0] /\ seen = [e \in PEnv |-> 0]
      /\ undisturbed = [e \in PEnv |-> TRUE] /\ answer = {}
  BY Zenon DEF JosPipeInit, Apart
<1>f. /\ fdmap \in [PEnv -> [Slot -> {"r", "w", "no"}]]
      /\ \A s \in Slot : fdmap[Rd][s] # "w" /\ fdmap[Wr][s] # "r"
      /\ \A c \in PEnv \ {Rd, Wr}, s \in Slot : fdmap[c][s] = "no"
  <2>1. Blank \in [Slot -> {"r", "w", "no"}] /\ \A s \in Slot : Blank[s] = "no"
    BY Zenon DEF Blank
  <2>2. [Blank EXCEPT ![1] = "w", ![0] = "no"] \in [Slot -> {"w", "no"}]
    BY <2>1, Zenon
  <2>3. [Blank EXCEPT ![0] = "r"] \in [Slot -> {"r", "no"}]
    BY <2>1, Zenon
  <2> QED  BY <1>0, <2>1, <2>2, <2>3, JosPipeConstants, Zenon
<1>1. JosPipeTypeOK
  <2>1. datamap \in [PEnv -> [Slot -> BOOLEAN]]
    BY <1>0, Zenon
  <2>2. seen \in [PEnv -> 0..Cardinality(PEnv) * Slots + 1]
    BY <1>0, SlotsFinite
  <2> QED  BY <1>0, <1>f, <2>1, <2>2, JosPipeConstants DEF JosPipeTypeOK
<1>2. MapInv
  <2>1. Free = PEnv \ {Rd, Wr}
    BY <1>0, Zenon DEF Free
  <2>2. FamilyInv
    BY <2>1, <1>f, Zenon DEF FamilyInv
  <2>3. ArgInv /\ ForkInv
    BY <1>0, Zenon DEF ArgInv, ForkInv, Forking
  <2>4. UnbornInv
    BY <2>1, <1>0, <1>f, Zenon DEF UnbornInv, Bare
  <2>5. DataInv
    BY <1>0, Zenon DEF DataInv
  <2> QED  BY <2>2, <2>3, <2>4, <2>5, Zenon DEF MapInv
<1>3. RunInv
  <2>1. IsFiniteSet(PEnv) /\ running \subseteq PEnv
    BY <1>0, JosPipeConstants, Zenon
  <2>2. PICK a : running = {a}
    BY <2>1, <1>0, FS_Subset, FS_Singleton, Zenon
  <2> QED  BY <2>1, <2>2, Zenon DEF RunInv
<1>4. CheckInv /\ ClosedIsTrue
  BY <1>0, JosPipeConstants, Zenon DEF CheckInv, ClosedIsTrue
<1>5. ByteInv
  BY <1>0, JosPipeConstants DEF ByteInv, PipeHoldsBytes
<1> QED  BY <1>1, <1>2, <1>3, <1>4, <1>5, Zenon

LEMMA JosPipeStutter ==
    ASSUME JosPipeInv, UNCHANGED josPipeVars
    PROVE  JosPipeInv'
<1> USE DEF JosPipeInv
<1>e. UNCHANGED <<fdmap, datamap, p_buf, p_rpos, p_wpos, running, jpc, arg, seen, undisturbed, answer>>
  BY Zenon DEF josPipeVars, maps, pipe_, local
<1>1. JosPipeTypeOK'
  BY <1>e, Zenon DEF JosPipeTypeOK
<1>2. MapInv' /\ RunInv'
  BY <1>e, MapsKept, Zenon DEF RunInv
<1>3. CheckInv'
  BY <1>e DEF CheckInv, pageref_fd, pageref_pipe, End
<1>4. ClosedIsTrue'
  BY <1>e, HeldIs, ClosedStays, Zenon
<1>5. ByteInv'
  BY <1>e, BytesKept, Zenon
<1> QED  BY <1>1, <1>2, <1>3, <1>4, <1>5, Zenon

LEMMA JosPipeInvariant ==
    ASSUME Apart
    PROVE  JosPipeSpec => []JosPipeInv
<1>n. NRUN = 1
  BY Zenon DEF Apart
<1>1. JosPipeInit => JosPipeInv
  BY JosPipeInitially, Zenon
<1>2. JosPipeInv /\ [JosPipeNext]_josPipeVars => JosPipeInv'
  <2> SUFFICES ASSUME JosPipeInv, [JosPipeNext]_josPipeVars PROVE JosPipeInv'
    BY Zenon
  <2>1. ASSUME NEW e \in PEnv, NEW f \in PEnv, Switch(e, f) PROVE JosPipeInv'
    BY <2>1, <1>n, Step_Switch, Zenon
  <2>2. ASSUME NEW e \in PEnv, NEW s \in Slot, devpipe_close(e, s) \/ \E n \in Slot : dup(e, s, n)
        PROVE  JosPipeInv'
    BY <2>2, Step_devpipe_close, Step_dup, Zenon
  <2>3. ASSUME NEW e \in PEnv, devpipe_close2(e) \/ dup2(e) \/ fork_page(e) \/ fork_done(e)
        PROVE  JosPipeInv'
    BY <2>3, Step_devpipe_close2, Step_dup2, Step_fork_page, Step_fork_done, Zenon
  <2>4. ASSUME NEW e \in {Rd, Wr}, Start_(e) \/ move_byte(e) \/ advance(e)
        PROVE  JosPipeInv'
    BY <2>4, Step_Start, Step_move_byte, Step_advance, Zenon
  <2>5. ASSUME NEW e \in {Rd, Wr},
               isclosed_n(e) \/ isclosed_fd(e) \/ isclosed_pipe(e) \/ isclosed_nn(e)
        PROVE  JosPipeInv'
    BY <2>5, Step_isclosed_n, Step_isclosed_fd, Step_isclosed_pipe, Step_isclosed_nn, Zenon
  <2>6. CASE UNCHANGED josPipeVars
    BY <2>6, JosPipeStutter, Zenon
  <2> QED  BY <2>1, <2>2, <2>3, <2>4, <2>5, <2>6, Zenon DEF JosPipeNext
<1> QED  BY <1>1, <1>2, PTL DEF JosPipeSpec
-----------------------------------------------------------------------------
(* The theorems. *)

\* _pipeisclosed answers "closed" only if nobody has the other end open,
\* whatever closes, dups and forks the others are in the middle of: for any
\* number of environments, descriptors and bytes, on one CPU, as long as each
\* side has closed the end it does not use and no third environment forks.
THEOREM PipeClosedIsTrue ==
    ASSUME Apart
    PROVE  JosPipeSpec => []ClosedIsTrue
<1>1. JosPipeInv => ClosedIsTrue
  BY Zenon DEF JosPipeInv
<1> QED  BY <1>1, JosPipeInvariant, PTL

\* The bytes between p_rpos and p_wpos are the ones written and not yet read,
\* in order, on any number of CPUs and whoever forks: one environment moves
\* each position, after it has moved the byte.
THEOREM PipeKeepsBytes == JosPipeSpec => []PipeHoldsBytes
<1> DEFINE Inv == ByteTypes /\ ByteInv
<1>1. JosPipeInit => Inv
  <2> SUFFICES ASSUME JosPipeInit PROVE Inv
    BY Zenon
  <2>1. /\ p_buf = [i \in 0..PIPEBUFSIZ-1 |-> 0] /\ p_rpos = 0 /\ p_wpos = 0
        /\ jpc = [e \in PEnv |-> IF e \in {Rd, Wr} THEN "idle" ELSE "unborn"]
    BY Zenon DEF JosPipeInit
  <2> QED  BY <2>1, JosPipeConstants DEF ByteTypes, ByteInv, PipeHoldsBytes
<1>2. Inv /\ [JosPipeNext]_josPipeVars => Inv'
  <2> SUFFICES ASSUME Inv, [JosPipeNext]_josPipeVars PROVE Inv'
    BY Zenon
  <2>k. ASSUME UNCHANGED <<p_buf, p_rpos, p_wpos>>, NEW e \in PEnv,
               NEW l \in {"idle", "closing", "dupping", "forking", "io", "check1", "check2",
                          "check3", "yield", jpc[e]},
               jpc' = [jpc EXCEPT ![e] = l]
        PROVE  Inv'
    <3>1. \A a \in PEnv : jpc'[a] = "stored" => jpc[a] = "stored"
      BY <2>k, Zenon DEF ByteTypes
    <3>2. ByteInv'
      BY <2>k, <3>1, BytesKept, JosPipeConstants, Zenon
    <3> QED  BY <2>k, <3>2, Zenon DEF ByteTypes
  <2> HIDE DEF Inv
  <2>1. ASSUME NEW e \in PEnv, NEW f \in PEnv, Switch(e, f) PROVE Inv'
    <3> DEFINE l == IF jpc[f] = "yield" THEN "io" ELSE jpc[f]
    <3>1. jpc' = [jpc EXCEPT ![f] = l] /\ UNCHANGED <<p_buf, p_rpos, p_wpos>>
      BY <2>1, Zenon DEF Switch, pipe_, Inv, ByteTypes
    <3>2. l \in {"io", jpc[f]}
      BY Zenon
    <3> HIDE DEF l
    <3> QED  BY <3>1, <3>2, <2>k, Zenon
  <2>2. ASSUME NEW e \in PEnv, NEW s \in Slot, devpipe_close(e, s) \/ \E n \in Slot : dup(e, s, n)
        PROVE  Inv'
    BY <2>2, <2>k, Zenon DEF devpipe_close, dup, Goto_, pipe_
  <2>3. ASSUME NEW e \in PEnv, devpipe_close2(e) \/ dup2(e) \/ fork_page(e)
        PROVE  Inv'
    BY <2>3, <2>k, Zenon DEF devpipe_close2, dup2, fork_page, Goto_, pipe_
  <2>4. ASSUME NEW e \in PEnv, fork_done(e)
        PROVE  Inv'
    <3> DEFINE C == Child
    <3>1. jpc' = [jpc EXCEPT ![e] = "idle", ![C] = "idle"] /\ UNCHANGED <<p_buf, p_rpos, p_wpos>>
      BY <2>4, Zenon DEF fork_done, pipe_
    <3> HIDE DEF C
    <3>2. \A a \in PEnv : jpc'[a] = "stored" => jpc[a] = "stored"
      BY <3>1, Zenon DEF Inv, ByteTypes
    <3>3. ByteInv'
      BY <3>1, <3>2, BytesKept, JosPipeConstants, Zenon DEF Inv
    <3> QED  BY <3>1, <3>3, Zenon DEF Inv, ByteTypes
  <2>5. ASSUME NEW e \in {Rd, Wr}, Start_(e) \/ isclosed_n(e) \/ isclosed_fd(e) \/ isclosed_pipe(e)
        PROVE  Inv'
    BY <2>5, <2>k, JosPipeConstants, Zenon DEF Start_, isclosed_n, isclosed_fd, isclosed_pipe, Goto_, pipe_
  <2>6. ASSUME NEW e \in {Rd, Wr}, isclosed_nn(e)
        PROVE  Inv'
    BY <2>6, <2>k, JosPipeConstants, Zenon DEF isclosed_nn, Goto_, pipe_
  <2>7. ASSUME NEW e \in {Rd, Wr}, move_byte(e) \/ advance(e)
        PROVE  Inv'
    BY <2>7, Bytes_move_byte, Bytes_advance, Zenon DEF Inv
  <2>8. CASE UNCHANGED josPipeVars
    BY <2>8, BytesKept, Zenon DEF Inv, ByteTypes, josPipeVars, pipe_, local
  <2> QED  BY <2>1, <2>2, <2>3, <2>4, <2>5, <2>6, <2>7, <2>8, Zenon DEF JosPipeNext
<1>3. Inv => PipeHoldsBytes
  BY Zenon DEF ByteInv
<1> QED  BY <1>1, <1>2, <1>3, PTL DEF JosPipeSpec
-----------------------------------------------------------------------------
(* The keyboard. *)

Mods == {"SHIFT", "CTL", "ALT"}

\* No bytes are pending, and every flag has a key that is down.
Quiet == /\ "E0ESC" \notin shift
         /\ \A m \in Mods : m \in shift => KeysOf(m) \cap down # {}

\* The bytes of one event of key k are pending, all or all but E0; the flags
\* are those of before the event.
Pending(k, up) ==
    /\ up \/ k \in down
    /\ \/ port = Bytes(k, up) /\ "E0ESC" \notin shift
       \/ k[2] /\ port = <<[code |-> k[1], up |-> up]>> /\ "E0ESC" \in shift
    /\ \A m \in Mods : m \in shift => KeysOf(m) \cap down # {} \/ (up /\ m \in shiftcode(k))

KbdInv == /\ down \subseteq Keys /\ reboot \in BOOLEAN
          /\ IF port = <<>> THEN Quiet ELSE \E k \in Keys, up \in BOOLEAN : Pending(k, up)

LEMMA PairIs ==
    ASSUME NEW S, NEW T, NEW k \in S \X T
    PROVE  k[1] \in S /\ k[2] \in T /\ k = <<k[1], k[2]>>
OBVIOUS

LEMMA KeyIs ==
    ASSUME NEW k \in Keys
    PROVE  k[1] \in Plain /\ k[2] \in BOOLEAN /\ k = <<k[1], k[2]>> /\ k[1] # "E0"
<1>1. k \in Plain \X {FALSE} \/ k \in Extended \X {TRUE}
  BY Zenon DEF Keys
<1>2. Extended \subseteq Plain /\ "E0" \notin Plain
  BY Zenon DEF Plain, Extended
<1>3. CASE k \in Plain \X {FALSE}
  <2> DEFINE T == {FALSE}
  <2>1. k \in Plain \X T
    BY <1>3, Zenon
  <2>2. k[1] \in Plain /\ k[2] \in T /\ k = <<k[1], k[2]>>
    <3> HIDE DEF T
    <3> QED  BY <2>1, PairIs, Zenon
  <2> QED  BY <1>2, <2>2, Zenon
<1>4. CASE k \in Extended \X {TRUE}
  <2> DEFINE T == {TRUE}
  <2>1. k \in Extended \X T
    BY <1>4, Zenon
  <2>2. k[1] \in Extended /\ k[2] \in T /\ k = <<k[1], k[2]>>
    <3> HIDE DEF T
    <3> QED  BY <2>1, PairIs, Zenon
  <2> QED  BY <1>2, <2>2, Zenon
<1> QED  BY <1>1, <1>3, <1>4, Zenon

\* shiftcode yields modifiers only, togglecode CAPSLOCK only.
LEMMA CodesApart ==
    ASSUME NEW k
    PROVE  shiftcode(k) \subseteq Mods /\ togglecode(k) \subseteq {"CAPSLOCK"}
BY Zenon DEF shiftcode, togglecode, Mods

\* The decoder, given the byte that ends an event of key k.
LEMMA KeyDecoded ==
    ASSUME KbdInv, NEW k \in Keys, NEW up \in BOOLEAN, Pending(k, up), kbd_proc_data,
           port = <<[code |-> k[1], up |-> up]>>, k[2] <=> "E0ESC" \in shift
    PROVE  KbdInv' /\ ResetMeant
<1>1. k[1] \in Plain /\ k[2] \in BOOLEAN /\ k = <<k[1], k[2]>> /\ k[1] # "E0"
  BY KeyIs, Zenon
<1> DEFINE b == Head(port)
           e == "E0ESC" \in shift
           j == <<b.code, e>>
<1>2. b.code = k[1] /\ b.up = up /\ Tail(port) = <<>>
  <2> DEFINE x == [code |-> k[1], up |-> up]
  <2>1. port = <<x>> /\ x.code = k[1] /\ x.up = up
    BY Zenon
  <2> HIDE DEF x
  <2>2. b = x /\ Tail(port) = <<>>
    BY <2>1
  <2> QED  BY <2>1, <2>2, Zenon
<1>3. j = k
  <2>1. e = k[2]
    BY <1>1
  <2> QED  BY <1>1, <1>2, <2>1, Zenon
<1>4. port' = <<>> /\ down' = down
  BY <1>2, Zenon DEF kbd_proc_data, kbdgetc
<1>5. /\ \/ up /\ shift' = Released(k) /\ key' = "0"
         \/ /\ ~up /\ shift' = Pressed(k)
            /\ key' = IF "CAPSLOCK" \in Pressed(k) THEN Capital(charcode(Pressed(k), k))
                                                   ELSE charcode(Pressed(k), k)
      /\ reboot' = (reboot \/ (Reset(shift') /\ key' = "DEL"))
  BY <1>1, <1>2, <1>3, Zenon DEF kbd_proc_data, kbdgetc
<1>6. \A m \in Mods : m \in shift => KeysOf(m) \cap down # {} \/ (up /\ m \in shiftcode(k))
  BY Zenon DEF Pending
<1>7. ~up => k \in down
  BY Zenon DEF Pending
<1>8. Quiet'
  <2>1. CASE up
    <3>1. shift' = shift \ (shiftcode(k) \cup {"E0ESC"})
      BY <1>5, <2>1, Zenon DEF Released
    <3>2. "E0ESC" \notin shift'
      BY <3>1, Zenon
    <3>3. ASSUME NEW m \in Mods, m \in shift'  PROVE KeysOf(m) \cap down' # {}
      BY <1>4, <1>6, <3>1, <3>3, Zenon
    <3> QED  BY <3>2, <3>3, Zenon DEF Quiet, KeysOf
  <2>2. CASE ~up
    <3>1. shift' = Toggle((shift \ {"E0ESC"}) \cup shiftcode(k), togglecode(k))
      BY <1>5, <2>2, Zenon DEF Pressed
    <3>2. shiftcode(k) \subseteq Mods /\ togglecode(k) \subseteq {"CAPSLOCK"}
      BY CodesApart, Zenon
    <3>3. "E0ESC" \notin shift'
      BY <3>1, <3>2, Zenon DEF Toggle, Mods
    <3>4. ASSUME NEW m \in Mods, m \in shift'  PROVE KeysOf(m) \cap down' # {}
      <4>1. m \in shift \/ m \in shiftcode(k)
        BY <3>1, <3>2, <3>4, Zenon DEF Toggle, Mods
      <4>2. CASE m \in shift
        BY <1>4, <1>6, <2>2, <4>2, Zenon
      <4>3. CASE m \in shiftcode(k)
        <5>1. k \in KeysOf(m) /\ k \in down
          BY <1>7, <2>2, <4>3, Zenon DEF KeysOf
        <5> QED  BY <1>4, <5>1, Zenon
      <4> QED  BY <4>1, <4>2, <4>3, Zenon
    <3> QED  BY <3>3, <3>4, Zenon DEF Quiet, KeysOf
  <2> QED  BY <2>1, <2>2, Zenon
<1>9. KbdInv'
  <2>1. reboot' \in BOOLEAN
    BY <1>5, Zenon
  <2> QED  BY <1>4, <1>8, <2>1, Zenon DEF KbdInv
<1>10. ASSUME reboot' # reboot
       PROVE  /\ KeysOf("CTL") \cap down # {} /\ KeysOf("ALT") \cap down # {}
              /\ <<"53", TRUE>> \in down
  <2>1. Reset(shift') /\ key' = "DEL"
    <3>1. reboot' = (reboot \/ (Reset(shift') /\ key' = "DEL")) /\ reboot \in BOOLEAN
      BY <1>5, Zenon DEF KbdInv
    <3> QED  BY <1>10, <3>1, Zenon
  <2>2. ~up
    BY <1>5, <2>1, Zenon
  <2>3. k = <<"53", TRUE>>
    <3> DEFINE c == charcode(Pressed(k), k)
    <3>1. key' = IF "CAPSLOCK" \in Pressed(k) THEN Capital(c) ELSE c
      BY <1>5, <2>2, Zenon
    <3>2. c \in {"C-a", "A", "a", "0", ".", "DEL"} /\ (c = "DEL" => k = <<"53", TRUE>>)
      BY Zenon DEF charcode
    <3> HIDE DEF c
    <3>3. c = "DEL"
      BY <2>1, <3>1, <3>2, Zenon DEF Capital
    <3> QED  BY <3>2, <3>3, Zenon
  <2>4. "CTL" \in shift' /\ "ALT" \in shift'
    BY <2>1, Zenon DEF Reset
  <2>5. KeysOf("CTL") \cap down' # {} /\ KeysOf("ALT") \cap down' # {}
    BY <1>8, <2>4, Zenon DEF Quiet, Mods, KeysOf
  <2> QED  BY <1>4, <1>7, <2>2, <2>3, <2>5, Zenon
<1> QED  BY <1>9, <1>10, Zenon DEF ResetMeant

LEMMA KbdStep ==
    ASSUME KbdInv, [KbdNext]_kbdVars
    PROVE  KbdInv' /\ ResetMeant
<1>1. CASE UNCHANGED kbdVars
  BY <1>1, Zenon DEF kbdVars, KbdInv, Quiet, Pending, Bytes, KeysOf, ResetMeant
<1>2. ASSUME NEW k \in Keys, NEW up \in BOOLEAN, KeyEvent(k, up)  PROVE KbdInv' /\ ResetMeant
  <2>1. /\ port = <<>> /\ (up => k \in down)
        /\ down' = (IF up THEN down \ {k} ELSE down \cup {k})
        /\ port' = Bytes(k, up) /\ shift' = shift /\ reboot' = reboot
    BY <1>2, Zenon DEF KeyEvent
  <2>2. Quiet
    BY <2>1, Zenon DEF KbdInv
  <2>3. ASSUME NEW m \in Mods, m \in shift'
        PROVE  KeysOf(m) \cap down' # {} \/ (up /\ m \in shiftcode(k))
    <3>1. PICK x \in KeysOf(m) : x \in down
      BY <2>1, <2>2, <2>3, Zenon DEF Quiet
    <3>2. CASE x \in down'
      BY <3>1, <3>2, Zenon
    <3>3. CASE x \notin down'
      <4>1. up /\ x = k
        BY <2>1, <3>1, <3>3, Zenon
      <4> QED  BY <3>1, <4>1, Zenon DEF KeysOf
    <3> QED  BY <3>2, <3>3, Zenon
  <2>4. up \/ k \in down'
    BY <2>1, Zenon
  <2>5. "E0ESC" \notin shift'
    BY <2>1, <2>2, Zenon DEF Quiet
  <2>6. Pending(k, up)'
    BY <2>1, <2>3, <2>4, <2>5, Zenon DEF Pending, Bytes, KeysOf
  <2>7. down' \subseteq Keys /\ reboot' \in BOOLEAN
    BY <2>1, Zenon DEF KbdInv
  <2>8. port' # <<>>
    BY <2>1, Zenon DEF Bytes
  <2>9. KbdInv'
    BY <2>6, <2>7, <2>8, Zenon DEF KbdInv
  <2> QED  BY <2>1, <2>9, Zenon DEF ResetMeant
<1>3. CASE kbd_proc_data
  <2>1. port # <<>>
    BY <1>3, Zenon DEF kbd_proc_data, kbdgetc
  <2>2. PICK k \in Keys, up \in BOOLEAN : Pending(k, up)
    BY <2>1, Zenon DEF KbdInv
  <2>3. k[1] \in Plain /\ k[2] \in BOOLEAN
    BY KeyIs, Zenon
  <2>4. CASE k[2] /\ port = <<[code |-> k[1], up |-> up]>> /\ "E0ESC" \in shift
    BY <1>3, <2>2, <2>4, KeyDecoded, Zenon
  <2>5. CASE port = Bytes(k, up) /\ "E0ESC" \notin shift /\ ~k[2]
    <3>1. port = <<[code |-> k[1], up |-> up]>>
      BY <2>5, Zenon DEF Bytes
    <3> QED  BY <1>3, <2>2, <2>5, <3>1, KeyDecoded, Zenon
  <2>6. CASE port = Bytes(k, up) /\ "E0ESC" \notin shift /\ k[2]
    <3> DEFINE a == [code |-> "E0", up |-> FALSE]
               b == [code |-> k[1], up |-> up]
    <3>1. port = <<a, b>>
      BY <2>6, Zenon DEF Bytes
    <3>3. Head(port) = a /\ Tail(port) = <<b>>
      <4> HIDE DEF a, b
      <4> QED  BY <3>1
    <3>4. Head(port).code = "E0"
      BY <3>3
    <3>5. port' = <<b>> /\ shift' = shift \cup {"E0ESC"} /\ key' = "0" /\ down' = down
      BY <1>3, <3>3, <3>4, Zenon DEF kbd_proc_data, kbdgetc
    <3>6. reboot' = (reboot \/ (Reset(shift') /\ key' = "DEL"))
      BY <1>3, Zenon DEF kbd_proc_data
    <3>7. ResetMeant /\ reboot' \in BOOLEAN
      <4>1. key' # "DEL" /\ reboot \in BOOLEAN
        BY <3>5, Zenon DEF KbdInv
      <4>2. reboot' = reboot
        BY <3>6, <4>1, Zenon
      <4> QED  BY <4>1, <4>2, Zenon DEF ResetMeant
    <3>8. Pending(k, up)'
      <4>1. ASSUME NEW m \in Mods, m \in shift'
            PROVE  KeysOf(m) \cap down' # {} \/ (up /\ m \in shiftcode(k))
        BY <2>2, <3>5, <4>1, Zenon DEF Pending, Mods
      <4>2. up \/ k \in down'
        BY <2>2, <3>5, Zenon DEF Pending
      <4>3. k[2] /\ port' = <<[code |-> k[1], up |-> up]>> /\ "E0ESC" \in shift'
        BY <2>6, <3>5, Zenon
      <4> QED  BY <4>1, <4>2, <4>3, Zenon DEF Pending, KeysOf, Bytes
    <3>9. port' # <<>> /\ down' \subseteq Keys
      BY <3>5, Zenon DEF KbdInv
    <3> QED  BY <3>7, <3>8, <3>9, Zenon DEF KbdInv
  <2> QED  BY <2>2, <2>4, <2>5, <2>6, Zenon DEF Pending
<1> QED  BY <1>1, <1>2, <1>3, Zenon DEF KbdNext

LEMMA KbdInvariant == KbdSpec => []KbdInv
<1>1. KbdInit => KbdInv
  BY Zenon DEF KbdInit, KbdInv, Quiet
<1>2. KbdInv /\ [KbdNext]_kbdVars => KbdInv'
  BY KbdStep, Zenon
<1> QED  BY <1>1, <1>2, PTL DEF KbdSpec

\* No order of presses, repeats and releases of left and right keys makes a
\* modifier stick in the decoder (kbdgetc, kbd_proc_data).
THEOREM ModifiersDoNotStick == KbdSpec => []NoStuckModifier
<1>1. KbdInv => NoStuckModifier
  BY Zenon DEF KbdInv, Quiet, Mods, NoStuckModifier
<1> QED  BY <1>1, KbdInvariant, PTL

\* JOS resets the machine only while Ctrl, Alt and Del are held.
THEOREM ResetIsMeant == KbdSpec => [][ResetMeant]_kbdVars
<1>1. KbdInv /\ [KbdNext]_kbdVars => [ResetMeant]_kbdVars
  BY KbdStep, Zenon
<1> QED  BY <1>1, KbdInvariant, PTL DEF KbdSpec
-----------------------------------------------------------------------------
(* The screen. *)

\* The cursor is on the screen.
ScreenInv ==
    /\ cga \in {"xv6", "jos"} /\ pos \in Cells
    /\ crt \in [Cells -> Glyph]

\* The cursor is not in the row that xv6 does not use.
OffLastRow == cga = "xv6" => pos < CRT_SIZE - COLS

\* The text before cell n is kept, up to scrolling by one row.
KeptBefore(n) == \E up \in {0, COLS} : \A i \in Cells : i < n /\ i >= up => crt'[i - up] = crt[i]

LEMMA ScreenSize ==
    /\ CRT_SIZE \in Nat /\ COLS \in Nat \ {0} /\ CRT_SIZE >= 3 * COLS
    /\ (ROWS - 1) * COLS = CRT_SIZE - COLS /\ Moved = CRT_SIZE - 2 * COLS
<1> USE ScreenConstants
<1>1. CRT_SIZE \in Nat /\ (ROWS - 1) * COLS = CRT_SIZE - COLS /\ Moved = CRT_SIZE - 2 * COLS
  BY DEF CRT_SIZE, Moved
<1>2. ROWS * COLS = 3 * COLS + (ROWS - 3) * COLS /\ ROWS - 3 \in Nat
  OBVIOUS
<1>3. (ROWS - 3) * COLS \in Nat
  BY <1>2
<1>4. CRT_SIZE >= 3 * COLS
  <2> DEFINE x == (ROWS - 3) * COLS
  <2>1. CRT_SIZE = 3 * COLS + x /\ x \in Nat
    BY <1>2, <1>3, Zenon DEF CRT_SIZE
  <2> HIDE DEF x
  <2> QED  BY <2>1
<1> QED  BY <1>1, <1>4, Zenon

\* The test of cgaputc for the row that it does not use.
LEMMA RowTest ==
    ASSUME NEW p \in Nat
    PROVE  p \div COLS >= ROWS - 1 <=> p >= CRT_SIZE - COLS
<1> USE ScreenConstants
<1> DEFINE k == p \div COLS  m == p % COLS  R == ROWS - 1
<1>1. p = COLS * k + m /\ m \in 0..COLS-1 /\ k \in Int /\ R \in Int
  OBVIOUS
<1>2. CRT_SIZE - COLS = COLS * R
  BY DEF CRT_SIZE
<1> HIDE DEF k, m, R
<1>3. CASE k >= R
  <2>1. COLS * k = COLS * R + COLS * (k - R) /\ k - R \in Nat
    BY <1>1, <1>3
  <2>2. COLS * (k - R) \in Nat /\ COLS * R \in Int
    BY <1>1, <2>1
  <2> DEFINE y == COLS * (k - R)  z == COLS * R
  <2>3. p = z + y + m /\ y \in Nat /\ z \in Int
    BY <1>1, <2>1, <2>2, Zenon
  <2> HIDE DEF y, z
  <2>4. p >= z
    BY <1>1, <2>3
  <2> QED  BY <1>2, <1>3, <2>4, Zenon DEF z, k, R
<1>4. CASE k < R
  <2>1. COLS * R = COLS * k + COLS + COLS * (R - k - 1) /\ R - k - 1 \in Nat
    BY <1>1, <1>4
  <2>2. COLS * (R - k - 1) \in Nat /\ COLS * k \in Int
    BY <1>1, <2>1
  <2> DEFINE y == COLS * (R - k - 1)  z == COLS * k
  <2>3. CRT_SIZE - COLS = z + COLS + y /\ p = z + m /\ y \in Nat /\ z \in Int
    BY <1>1, <1>2, <2>1, <2>2, Zenon
  <2> HIDE DEF y, z
  <2>4. p < CRT_SIZE - COLS
    BY <1>1, <2>3
  <2>5. ~(p >= CRT_SIZE - COLS) /\ ~(k >= R)
    BY <1>1, <1>4, <2>4, ScreenSize
  <2> QED  BY <2>5, Zenon DEF k, R
<1> QED  BY <1>1, <1>3, <1>4

\* The start of the next row is at most the end of the screen.
LEMMA NextRow ==
    ASSUME NEW p \in Cells
    PROVE  p + COLS - (p % COLS) \in p+1..CRT_SIZE
<1> USE ScreenConstants
<1> DEFINE k == p \div COLS  m == p % COLS
<1>0. p \in Nat /\ p < CRT_SIZE
  BY ScreenSize DEF Cells
<1>1. p = COLS * k + m /\ m \in 0..COLS-1 /\ k \in Int
  BY <1>0
<1> HIDE DEF k, m
<1>2. k + 1 <= ROWS
  <2> SUFFICES ASSUME ROWS < k + 1  PROVE FALSE
    BY <1>1
  <2>1. COLS * k = ROWS * COLS + COLS * (k - ROWS) /\ k - ROWS \in Nat
    BY <1>1
  <2>2. COLS * (k - ROWS) \in Nat /\ CRT_SIZE = ROWS * COLS
    BY <2>1 DEF CRT_SIZE
  <2> DEFINE y == COLS * (k - ROWS)
  <2>3. p = CRT_SIZE + y + m /\ y \in Nat
    BY <1>1, <2>1, <2>2, Zenon
  <2> HIDE DEF y
  <2> QED  BY <1>0, <1>1, <2>3, ScreenSize
<1>3. CRT_SIZE = COLS * k + COLS + COLS * (ROWS - k - 1) /\ ROWS - k - 1 \in Nat
  BY <1>1, <1>2 DEF CRT_SIZE
<1>4. COLS * (ROWS - k - 1) \in Nat /\ COLS * k \in Int
  BY <1>1, <1>3
<1> DEFINE y == COLS * (ROWS - k - 1)  z == COLS * k
<1>5. CRT_SIZE = z + COLS + y /\ p = z + m /\ y \in Nat /\ z \in Int
  BY <1>1, <1>3, <1>4, Zenon
<1> HIDE DEF y, z
<1>6. p + COLS - m \in p+1..CRT_SIZE
  BY <1>0, <1>1, <1>5, ScreenSize
<1> QED  BY <1>6, Zenon DEF m

\* How cgaputc ends, given the new position p and the screen c.
LEMMA XvScrolls ==
    ASSUME ScreenInv, cga = "xv6", NEW p \in 0..CRT_SIZE, NEW n \in Int, n <= p, n <= pos,
           NEW c \in [Cells -> Glyph], \A i \in Cells : i < n => c[i] = crt[i],
           LET scroll == p \div COLS >= ROWS - 1
               q == IF scroll THEN p - COLS ELSE p
               d == IF scroll THEN Scrolled(c, Moved, q, (ROWS - 1) * COLS) ELSE c
           IN  pos' = q /\ crt' = StoreCell(d, q, "blank"),
           cga' = cga
    PROVE  ScreenInv' /\ (OffLastRow => KeptBefore(n))
<1> DEFINE S == CRT_SIZE
           scroll == p \div COLS >= ROWS - 1
           q == IF scroll THEN p - COLS ELSE p
           d == IF scroll THEN Scrolled(c, Moved, q, (ROWS - 1) * COLS) ELSE c
<1>1. S \in Nat /\ COLS \in Nat \ {0} /\ S >= 3 * COLS /\ Cells = 0..S-1
  BY ScreenSize, Zenon DEF Cells
<1>2. scroll <=> p >= S - COLS
  <2>1. p \in Nat
    BY <1>1
  <2> QED  BY <2>1, RowTest, Zenon
<1>3. pos' = q /\ crt' = StoreCell(d, q, "blank")
  BY Zenon
<1>4. scroll => d = Scrolled(c, S - 2 * COLS, q, S - COLS)
  BY ScreenSize, Zenon
<1>5. ~scroll => d = c
  BY Zenon
<1>6. (scroll => q = p - COLS) /\ (~scroll => q = p)
  BY Zenon
<1>p. p \in 0..S
  BY Zenon
<1> HIDE DEF scroll, q, d, S
<1>7. q \in 0..S-COLS
  BY <1>p, <1>1, <1>2, <1>6
<1>8. q \in Cells
  BY <1>1, <1>7
<1>9. d \in [Cells -> Glyph]
  <2>1. CASE scroll
    <3>1. d = [i \in Cells |-> IF i >= q /\ i < S - COLS THEN "blank"
                               ELSE IF i < S - 2 * COLS THEN c[i + COLS] ELSE c[i]]
      BY <1>4, <2>1, Zenon DEF Scrolled
    <3>2. \A i \in Cells : i < S - 2 * COLS => i + COLS \in Cells
      BY <1>1
    <3> QED  BY <3>1, <3>2, ScreenConstants, Zenon
  <2> QED  BY <1>5, <2>1, Zenon
<1>10. crt' = [d EXCEPT ![q] = "blank"]
  BY <1>3, <1>8, Zenon DEF StoreCell
<1>11. ScreenInv'
  <2>1. pos' \in Cells /\ crt' \in [Cells -> Glyph] /\ cga' \in {"xv6", "jos"}
    BY <1>3, <1>8, <1>9, <1>10, ScreenConstants, Zenon DEF ScreenInv
  <2> QED  BY <2>1, Zenon DEF ScreenInv, Cells, CRT_SIZE
<1>12. CASE ~scroll
  <2>1. \A i \in Cells : i < n /\ i >= 0 => crt'[i - 0] = crt[i]
    <3> SUFFICES ASSUME NEW i \in Cells, i < n  PROVE crt'[i - 0] = crt[i]
      BY Zenon
    <3>1. i - 0 = i /\ i # q
      BY <1>1, <1>6, <1>12
    <3> QED  BY <1>5, <1>9, <1>10, <1>12, <3>1, Zenon
  <2> QED  BY <1>11, <2>1, Zenon DEF KeptBefore
<1>13. ASSUME scroll, OffLastRow
       PROVE  ScreenInv' /\ KeptBefore(n)
  <2>1. \A i \in Cells : i < n /\ i >= COLS => crt'[i - COLS] = crt[i]
    <3> SUFFICES ASSUME NEW i \in Cells, i < n, i >= COLS  PROVE crt'[i - COLS] = crt[i]
      BY Zenon
    <3> DEFINE j == i - COLS
    <3>1. j \in Cells /\ j < q /\ j # q /\ j + COLS = i /\ j < n /\ i \in Int
      BY <1>1, <1>6, <1>13
    <3> HIDE DEF j
    <3>2. crt'[j] = d[j]
      BY <1>9, <1>10, <3>1, Zenon
    <3>3. d[j] = IF j >= q /\ j < S - COLS THEN "blank"
                 ELSE IF j < S - 2 * COLS THEN c[j + COLS] ELSE c[j]
      BY <1>4, <1>13, <3>1, Zenon DEF Scrolled
    <3>4. ~(j >= q)
      BY <1>1, <1>7, <3>1
    <3>5. j < S - 2 * COLS
      <4>1. pos \in Int /\ pos < S - COLS
        BY <1>1, <1>13, ScreenSize DEF ScreenInv, OffLastRow, S
      <4> QED  BY <1>1, <3>1, <4>1
    <3> QED  BY <3>1, <3>2, <3>3, <3>4, <3>5, Zenon DEF j
  <2> QED  BY <1>11, <2>1, Zenon DEF KeptBefore
<1> QED  BY <1>11, <1>12, <1>13, Zenon

\* How cga_putc ends.
LEMMA JosScrolls ==
    ASSUME ScreenInv, cga = "jos", NEW p \in Nat, p < CRT_SIZE + COLS, NEW n \in Int,
           NEW c \in [Cells -> Glyph], \A i \in Cells : i < n => c[i] = crt[i],
           JosScroll(c, p), cga' = cga
    PROVE  ScreenInv' /\ KeptBefore(n)
<1> DEFINE S == CRT_SIZE
<1>1. S \in Nat /\ COLS \in Nat \ {0} /\ S >= 3 * COLS /\ Cells = 0..S-1
  BY ScreenSize, Zenon DEF Cells
<1>2. CASE p >= S
  <2>1. pos' = p - COLS /\ crt' = Scrolled(c, S - COLS, S - COLS, S)
    BY <1>2, Zenon DEF JosScroll, ScrollAt
  <2>2. crt' = [i \in Cells |-> IF i >= S - COLS /\ i < S THEN "blank"
                                ELSE IF i < S - COLS THEN c[i + COLS] ELSE c[i]]
    BY <2>1, Zenon DEF Scrolled
  <2> HIDE DEF S
  <2>3. pos' \in Cells
    BY <1>1, <1>2, <2>1 DEF S
  <2>4. \A i \in Cells : i < S - COLS => i + COLS \in Cells
    BY <1>1
  <2>5. crt' \in [Cells -> Glyph]
    BY <2>2, <2>4, ScreenConstants, Zenon
  <2>6. ScreenInv'
    BY <2>3, <2>5, Zenon DEF ScreenInv, Cells, CRT_SIZE
  <2>7. \A i \in Cells : i < n /\ i >= COLS => crt'[i - COLS] = crt[i]
    <3> SUFFICES ASSUME NEW i \in Cells, i < n, i >= COLS  PROVE crt'[i - COLS] = crt[i]
      BY Zenon
    <3> DEFINE j == i - COLS
    <3>1. j \in Cells /\ j < S - COLS /\ ~(j >= S - COLS) /\ j + COLS = i
      BY <1>1
    <3> HIDE DEF j
    <3>2. crt'[j] = c[j + COLS]
      BY <2>2, <3>1, Zenon
    <3> QED  BY <3>1, <3>2, Zenon DEF j
  <2> QED  BY <2>6, <2>7, Zenon DEF KeptBefore
<1>3. CASE ~(p >= S)
  <2>1. pos' = p /\ crt' = c
    BY <1>3, Zenon DEF JosScroll, ScrollAt
  <2>2. pos' \in Cells
    BY <1>1, <1>3, <2>1
  <2>3. ScreenInv'
    BY <2>1, <2>2, Zenon DEF ScreenInv, Cells, CRT_SIZE
  <2>4. \A i \in Cells : i < n /\ i >= 0 => crt'[i - 0] = crt[i]
    <3>1. \A i \in Cells : i - 0 = i
      BY <1>1
    <3> QED  BY <2>1, <3>1, Zenon
  <2> QED  BY <2>3, <2>4, Zenon DEF KeptBefore
<1> QED  BY <1>2, <1>3, Zenon

LEMMA StoredCell ==
    ASSUME ScreenInv, NEW i \in Int, NEW v \in Glyph
    PROVE  /\ StoreCell(crt, i, v) \in [Cells -> Glyph]
           /\ \A j \in Cells : j < i => StoreCell(crt, i, v)[j] = crt[j]
<1>1. Cells \subseteq Int /\ crt \in [Cells -> Glyph]
  BY ScreenSize DEF Cells, ScreenInv
<1>2. CASE i \in Cells
  BY <1>1, <1>2 DEF StoreCell
<1>3. CASE i \notin Cells
  BY <1>1, <1>3, Zenon DEF StoreCell
<1> QED  BY <1>2, <1>3, Zenon

LEMMA ScreenStep ==
    ASSUME ScreenInv, [ScreenNext]_screenVars
    PROVE  ScreenInv' /\ TextKept
<1> DEFINE S == CRT_SIZE
           B == Before(line')
<1>1. S \in Nat /\ COLS \in Nat \ {0} /\ S >= 3 * COLS /\ pos \in 0..S-1
  BY ScreenSize, Zenon DEF Cells, ScreenInv
<1>2. crt \in [Cells -> Glyph] /\ pos \in Cells /\ Cells \subseteq Int
  BY ScreenSize DEF ScreenInv, Cells
<1>3. TextKept <=> (OffLastRow => KeptBefore(B))
  BY Zenon DEF TextKept, KeptBefore, OffLastRow
<1>m. pos % COLS \in 0..COLS-1
  <2>1. pos \in Int
    BY <1>1
  <2> QED  BY <1>1, <2>1
<1> DEFINE m == pos % COLS
<1> HIDE DEF S, m
<1>b. B = IF line' = "backspace" THEN pos - 1 ELSE IF line' = "return" THEN pos - m ELSE pos
  BY Zenon DEF Before, m
<1>4. CASE UNCHANGED screenVars
  <2>1. ScreenInv'
    BY <1>4, Zenon DEF screenVars, ScreenInv, Cells, CRT_SIZE
  <2>2. \A i \in Cells : i < B /\ i >= 0 => crt'[i - 0] = crt[i]
    <3>1. \A i \in Cells : i - 0 = i
      BY <1>2
    <3> QED  BY <1>4, <3>1, Zenon DEF screenVars
  <2> QED  BY <1>3, <2>1, <2>2, Zenon DEF KeptBefore
<1>5. ASSUME NEW o \in Out, line' = o, cga' = cga, cga = "xv6", NEW v \in Glyph, cgaputc(o, v)
      PROVE  ScreenInv' /\ TextKept
  <2> DEFINE p == CASE o = "newline" -> pos + COLS - (pos % COLS)
                    [] o = "backspace" -> IF pos > 0 THEN pos - 1 ELSE 0
                    [] OTHER -> pos + 1
             c == IF o \in {"newline", "backspace"} THEN crt ELSE StoreCell(crt, pos, v)
  <2>1. LET scroll == p \div COLS >= ROWS - 1
            q == IF scroll THEN p - COLS ELSE p
            d == IF scroll THEN Scrolled(c, Moved, q, (ROWS - 1) * COLS) ELSE c
        IN  pos' = q /\ crt' = StoreCell(d, q, "blank")
    BY <1>5, Zenon DEF cgaputc
  <2>2. B \in Int /\ B <= pos
    BY <1>1, <1>m, <1>b DEF m
  <2>3. p \in 0..S /\ B <= p
    <3>1. CASE o = "newline"
      <4>1. pos + COLS - (pos % COLS) \in pos+1..S
        BY <1>2, NextRow, Zenon DEF S
      <4>2. p = pos + COLS - (pos % COLS)
        BY <3>1, Zenon
      <4> HIDE DEF p
      <4>3. p \in pos+1..S
        BY <4>1, <4>2, Zenon
      <4> QED  BY <1>1, <2>2, <4>3
    <3>2. CASE o = "backspace"
      BY <1>1, <1>5, <1>b, <3>2
    <3>3. CASE o \notin {"newline", "backspace"}
      <4>1. p = pos + 1
        BY <3>3, Zenon
      <4> HIDE DEF p
      <4> QED  BY <1>1, <2>2, <4>1
    <3> QED  BY <3>1, <3>2, <3>3, Zenon
  <2>4. c \in [Cells -> Glyph] /\ \A i \in Cells : i < B => c[i] = crt[i]
    <3>1. CASE o \in {"newline", "backspace"}
      BY <1>2, <3>1, Zenon
    <3>2. CASE o \notin {"newline", "backspace"}
      <4>1. c = StoreCell(crt, pos, v) /\ pos \in Int /\ v \in Glyph
        BY <1>1, <3>2
      <4>2. c \in [Cells -> Glyph] /\ \A i \in Cells : i < pos => c[i] = crt[i]
        BY <4>1, StoredCell, Zenon
      <4>3. \A i \in Cells : i < B => i < pos
        BY <1>1, <1>2, <2>2
      <4> QED  BY <4>2, <4>3, Zenon
    <3> QED  BY <3>1, <3>2, Zenon
  <2> HIDE DEF p, c, B
  <2>5. ScreenInv' /\ (OffLastRow => KeptBefore(B))
    BY <1>5, <2>1, <2>2, <2>3, <2>4, XvScrolls, Zenon DEF S
  <2> QED  BY <1>3, <2>5, Zenon
<1>6. ASSUME NEW o \in Out, line' = o, cga' = cga, cga = "jos", NEW v \in Glyph, cga_putc(o, v)
      PROVE  ScreenInv' /\ TextKept
  <2>1. ASSUME NEW p \in Nat, p < S + COLS, NEW c \in [Cells -> Glyph],
               \A i \in Cells : i < B => c[i] = crt[i], JosScroll(c, p)
        PROVE  ScreenInv' /\ TextKept
    <3>1. B \in Int
      BY <1>1, <1>m, <1>b DEF m
    <3> HIDE DEF B
    <3>2. ScreenInv' /\ KeptBefore(B)
      BY <1>6, <2>1, <3>1, JosScrolls, Zenon DEF S
    <3> QED  BY <1>3, <3>2, Zenon
  <2>2. CASE o = "backspace" /\ pos > 0
    <3> DEFINE c == StoreCell(crt, pos - 1, "blank")  p == pos - 1
    <3>1. JosScroll(c, p)
      BY <1>6, <2>2, Zenon DEF cga_putc
    <3>2. p \in Nat /\ p < S + COLS /\ p \in Int /\ B = p
      BY <1>1, <1>6, <1>b, <2>2
    <3>3. c \in [Cells -> Glyph] /\ \A i \in Cells : i < p => c[i] = crt[i]
      BY <3>2, StoredCell, ScreenConstants, Zenon
    <3> HIDE DEF c, p, B
    <3> QED  BY <2>1, <3>1, <3>2, <3>3, Zenon
  <2>3. CASE o = "backspace" /\ ~(pos > 0)
    <3>1. JosScroll(crt, pos)
      BY <1>6, <2>3, Zenon DEF cga_putc
    <3>2. pos \in Nat /\ pos < S + COLS
      BY <1>1
    <3> QED  BY <1>2, <2>1, <3>1, <3>2, Zenon
  <2>4. CASE o = "newline"
    <3> DEFINE p == pos + COLS - ((pos + COLS) % COLS)
    <3>1. JosScroll(crt, p)
      BY <1>6, <2>4, Zenon DEF cga_putc
    <3>2. p \in Nat /\ p < S + COLS
      <4> DEFINE x == (pos + COLS) % COLS
      <4>1. x \in 0..COLS-1
        <5>1. pos + COLS \in Int
          BY <1>1
        <5> QED  BY <1>1, <5>1
      <4> HIDE DEF x
      <4>2. pos + COLS - x \in Nat /\ pos + COLS - x < S + COLS
        BY <1>1, <4>1
      <4> QED  BY <4>2, Zenon DEF x
    <3> HIDE DEF p
    <3> QED  BY <1>2, <2>1, <3>1, <3>2, Zenon
  <2>5. CASE o = "return"
    <3> DEFINE p == pos - (pos % COLS)
    <3>1. JosScroll(crt, p)
      BY <1>6, <2>5, Zenon DEF cga_putc
    <3>2. p \in Nat /\ p < S + COLS
      <4>1. m \in 0..COLS-1 /\ p = pos - m
        BY <1>m, Zenon DEF m
      <4>2. m <= pos
        <5>1. PICK k \in Int : pos = COLS * k + m
          <6>1. pos = COLS * (pos \div COLS) + (pos % COLS) /\ pos \div COLS \in Int
            BY <1>1
          <6> QED  BY <6>1, Zenon DEF m
        <5>2. COLS * k + m >= 0 /\ m < COLS
          BY <1>1, <4>1, <5>1
        <5>3. k >= 0
          <6> SUFFICES ASSUME k <= -1  PROVE FALSE
            BY <5>1
          <6>1. COLS * (-1 - k) \in Nat /\ COLS * k = -COLS - COLS * (-1 - k)
            BY <1>1, <5>1
          <6> DEFINE y == COLS * (-1 - k)
          <6>2. pos = -COLS - y + m /\ y \in Nat
            BY <1>1, <5>1, <6>1, Zenon
          <6> HIDE DEF y
          <6> QED  BY <1>1, <4>1, <6>2
        <5>4. COLS * k \in Nat
          BY <1>1, <5>1, <5>3
        <5> DEFINE z == COLS * k
        <5>5. pos = z + m /\ z \in Nat
          BY <5>1, <5>4, Zenon
        <5> HIDE DEF z
        <5> QED  BY <1>1, <4>1, <5>5
      <4> HIDE DEF p
      <4> QED  BY <1>1, <4>1, <4>2
    <3> HIDE DEF p
    <3> QED  BY <1>2, <2>1, <3>1, <3>2, Zenon
  <2>6. CASE o \notin {"backspace", "newline", "return"}
    <3> DEFINE c == StoreCell(crt, pos, v)  p == pos + 1
    <3>1. JosScroll(c, p)
      BY <1>6, <2>6, Zenon DEF cga_putc
    <3>2. p \in Nat /\ p < S + COLS /\ pos \in Int /\ B = pos
      BY <1>1, <1>6, <1>b, <2>6
    <3>3. c \in [Cells -> Glyph] /\ \A i \in Cells : i < pos => c[i] = crt[i]
      BY <3>2, StoredCell, Zenon
    <3> HIDE DEF c, p, B
    <3> QED  BY <2>1, <3>1, <3>2, <3>3, Zenon
  <2> QED  BY <2>2, <2>3, <2>4, <2>5, <2>6, Zenon
<1> QED  BY <1>4, <1>5, <1>6, Zenon DEF ScreenNext

LEMMA ScreenInvariant == ScreenSpec => []ScreenInv
<1>1. ScreenInit => ScreenInv
  BY Zenon DEF ScreenInit, ScreenInv
<1>2. ScreenInv /\ [ScreenNext]_screenVars => ScreenInv'
  BY ScreenStep, Zenon
<1> QED  BY <1>1, <1>2, PTL DEF ScreenSpec

\* Whatever is printed, both drivers leave the cursor inside the display
\* memory (cgaputc, cga_putc).
THEOREM CursorStaysOnScreen == ScreenSpec => []CursorOnScreen
<1>1. ScreenInv => CursorOnScreen
  BY Zenon DEF ScreenInv, CursorOnScreen
<1> QED  BY <1>1, ScreenInvariant, PTL

\* Scrolling loses the first row and nothing else of the text before the cursor,
\* whatever the cells show, unless the cursor is in the row xv6 does not use.
THEOREM ScrollingKeepsText == ScreenSpec => [][TextKept]_screenVars
<1>1. ScreenInv /\ [ScreenNext]_screenVars => [TextKept]_screenVars
  BY ScreenStep, Zenon
<1> QED  BY <1>1, ScreenInvariant, PTL DEF ScreenSpec
=============================================================================

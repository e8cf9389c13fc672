-------------------------------- MODULE XvPipe --------------------------------
(***************************************************************************)
(* A pipe of xv6 (src/xv6/pipe.c).  Writers and Readers are the processes  *)
(* that hold its two ends open; the last one to close an end calls         *)
(* pipeclose (src/xv6/file.c).                                             *)
(*                                                                         *)
(* pipe.lock is held from the entry of a call to its return or its sleep,  *)
(* so that is one step; only the test of myproc()->killed and the sleep    *)
(* after it are two steps, because kill does not take pipe.lock.           *)
(***************************************************************************)
EXTENDS Integers, Sequences, FiniteSets

CONSTANTS
    Writers, Readers,
    Byte,       \* contents
    PIPESIZE,
    WRAP,       \* nread and nwrite are uints: 2^32 in the code
    MaxCount    \* bound: bytes per call

User == Writers \cup Readers

ASSUME PipeConstants ==
    /\ Writers \cap Readers = {} /\ Writers # {} /\ Readers # {}
    /\ PIPESIZE \in Nat \ {0} /\ WRAP \in Nat /\ MaxCount \in Nat
    /\ WRAP % PIPESIZE = 0 /\ WRAP > PIPESIZE

VARIABLES
    data, nread, nwrite, readopen, writeopen,   \* struct pipe
    freed,     \* the page of the pipe was given back
    holders,   \* processes whose file descriptor of the pipe is open
    upc,       \* what each process is doing with the pipe
    todo,      \* bytes its write has still to store, or its read may return
    dead,      \* processes with killed set
    eof        \* history: readers whose last read returned 0

pipe == <<data, nread, nwrite, readopen, writeopen, freed>>
pipeVars == <<pipe, holders, upc, todo, dead, eof>>

PipeTypeOK ==
    /\ data \in [0..PIPESIZE-1 -> Byte]
    /\ nread \in 0..WRAP-1 /\ nwrite \in 0..WRAP-1
    /\ readopen \in {0, 1} /\ writeopen \in {0, 1} /\ freed \in BOOLEAN
    /\ holders \subseteq User /\ dead \subseteq User /\ eof \subseteq Readers
    /\ upc \in [User -> {"idle", "call", "tosleep", "sleep"}]
    /\ todo \in [User -> 0..MaxCount]

\* pipealloc has succeeded and both ends have been handed out by fork.
PipeInit ==
    /\ \E b \in Byte : data = [i \in 0..PIPESIZE-1 |-> b]
    /\ nread = 0 /\ nwrite = 0 /\ readopen = 1 /\ writeopen = 1 /\ freed = FALSE
    /\ holders = User
    /\ upc = [u \in User |-> "idle"] /\ todo = [u \in User |-> 0]
    /\ dead = {} /\ eof = {}

Full  == nwrite = (nread + PIPESIZE) % WRAP
Empty == nread = nwrite
Used  == (nwrite - nread) % WRAP

\* pipe.lock: somebody is between the test of killed and sleep.
LockHeld == \E u \in User : upc[u] = "tosleep"

\* Mutant: nobody is woken.
PipeWakeup_none(ends, pcs) == pcs

\* wakeup(&p->nread) for ends = Readers, wakeup(&p->nwrite) for ends = Writers.
PipeWakeup(ends, pcs) ==
    [u \in User |-> IF u \in ends /\ pcs[u] = "sleep" THEN "call" ELSE pcs[u]]

Call(u, n) ==
    /\ upc[u] = "idle" /\ u \in holders \ dead
    /\ upc' = [upc EXCEPT ![u] = "call"]
    /\ todo' = [todo EXCEPT ![u] = n]
    /\ UNCHANGED <<pipe, holders, dead, eof>>

\* Mutant: pipewrite compares the counters with <, which fails when they wrap.
Room_ordered == IF nwrite < nread + PIPESIZE THEN nread + PIPESIZE - nwrite ELSE 0

\* The bytes pipewrite stores before nwrite == nread + PIPESIZE stops it.
Room == (nread + PIPESIZE - nwrite) % WRAP

\* pipewrite from entry or wakeup: store what fits, then return or go to sleep.
pipewrite(w) ==
    /\ upc[w] = "call" /\ w \in Writers /\ ~LockHeld
    /\ LET n == IF todo[w] < Room THEN todo[w] ELSE Room IN
       /\ \E s \in [0..n-1 -> Byte] :
             data' = [i \in 0..PIPESIZE-1 |->
                         IF \E k \in 0..n-1 : (nwrite + k) % PIPESIZE = i
                         THEN s[CHOOSE k \in 0..n-1 : (nwrite + k) % PIPESIZE = i]
                         ELSE data[i]]
       /\ nwrite' = (nwrite + n) % WRAP
       /\ \/ /\ n = todo[w]
             /\ upc' = PipeWakeup(Readers, [upc EXCEPT ![w] = "idle"])
             /\ todo' = [todo EXCEPT ![w] = 0]
          \/ /\ n < todo[w] /\ (readopen = 0 \/ w \in dead)
             /\ upc' = [upc EXCEPT ![w] = "idle"]
             /\ todo' = [todo EXCEPT ![w] = 0]
          \/ /\ n < todo[w] /\ ~(readopen = 0 \/ w \in dead)
             /\ upc' = PipeWakeup(Readers, [upc EXCEPT ![w] = "tosleep"])
             /\ todo' = [todo EXCEPT ![w] = @ - n]
    /\ UNCHANGED <<nread, readopen, writeopen, freed, holders, dead, eof>>

MustRead == Empty /\ writeopen = 1

\* piperead from entry or wakeup.
piperead(r) ==
    /\ upc[r] = "call" /\ r \in Readers /\ ~LockHeld
    /\ \/ /\ MustRead /\ r \in dead
          /\ upc' = [upc EXCEPT ![r] = "idle"]
          /\ todo' = [todo EXCEPT ![r] = 0]
          /\ UNCHANGED <<nread, eof>>
       \/ /\ MustRead /\ r \notin dead
          /\ upc' = [upc EXCEPT ![r] = "tosleep"]
          /\ UNCHANGED <<nread, todo, eof>>
       \/ /\ ~MustRead
          /\ LET n == IF todo[r] < Used THEN todo[r] ELSE Used IN
             /\ nread' = (nread + n) % WRAP
             /\ eof' = IF n = 0 THEN eof \cup {r} ELSE eof \ {r}
          /\ upc' = PipeWakeup(Writers, [upc EXCEPT ![r] = "idle"])
          /\ todo' = [todo EXCEPT ![r] = 0]
    /\ UNCHANGED <<data, nwrite, readopen, writeopen, freed, holders, dead>>

\* sleep gives up pipe.lock.
sleep(u) ==
    /\ upc[u] = "tosleep"
    /\ upc' = [upc EXCEPT ![u] = "sleep"]
    /\ UNCHANGED <<pipe, holders, todo, dead, eof>>

Unused(r, w) == r = 0 /\ w = 0

\* close, or exit: fileclose calls pipeclose when the last descriptor goes.
pipeclose(u) ==
    /\ upc[u] = "idle" /\ u \in holders /\ ~LockHeld
    /\ holders' = holders \ {u}
    /\ LET end == IF u \in Writers THEN Writers ELSE Readers IN
       IF end \cap holders' # {} THEN UNCHANGED <<pipe, upc>>
       ELSE /\ writeopen' = (IF u \in Writers THEN 0 ELSE writeopen)
            /\ readopen' = (IF u \in Writers THEN readopen ELSE 0)
            /\ upc' = PipeWakeup(User \ end, upc)
            /\ freed' = Unused(readopen', writeopen')
            /\ UNCHANGED <<data, nread, nwrite>>
    /\ UNCHANGED <<todo, dead, eof>>

\* kill(): sets killed and wakes the process if it sleeps.
killed(u) ==
    /\ u \notin dead
    /\ dead' = dead \cup {u}
    /\ upc' = [upc EXCEPT ![u] = IF @ = "sleep" THEN "call" ELSE @]
    /\ UNCHANGED <<pipe, holders, todo, eof>>

\* Everybody is done with the pipe.
Departed == holders = {} /\ dead = User /\ UNCHANGED pipeVars

PipeNext ==
    \/ \E u \in User :
        \/ \E n \in 1..MaxCount : Call(u, n)
        \/ pipewrite(u) \/ piperead(u) \/ sleep(u) \/ pipeclose(u) \/ killed(u)
    \/ Departed

PipeSpec == PipeInit /\ [][PipeNext]_pipeVars
-----------------------------------------------------------------------------
(* Properties *)

\* The bytes between nread and nwrite, in order.
Contents == [i \in 1..Used |-> data[(nread + i - 1) % PIPESIZE]]

\* The ring with its free-running counters implements a bounded queue, across
\* the wrap of the counters.
Fifo == INSTANCE BoundedFifo WITH Size <- PIPESIZE, q <- Contents
PipeIsFifo == Fifo!FifoSpec

\* A reader sleeps only on an empty pipe that still has a writer, a writer only
\* on a full one that still has a reader: the wakeups of piperead, pipewrite and
\* pipeclose leave nobody behind.  One exception is in the code: a killed writer
\* that has just filled the pipe returns -1 without wakeup(&p->nread), and a
\* reader sleeps on, whatever the other readers take, until a write or close.
PipeNoLostWakeup ==
    \A u \in User : upc[u] = "sleep" =>
        IF u \in Writers THEN Full /\ readopen = 1
        ELSE writeopen = 1 /\ (Empty \/ dead \cap Writers # {})

\* read returns 0 only when every writer has closed and nothing is left
\* (the end of file a shell pipeline relies on).
EofIsFinal == eof # {} => writeopen = 0 /\ Empty

\* The page is given back exactly when both ends are closed, when nobody can
\* be inside a call on the pipe.
FreedUnused ==
    /\ freed <=> holders = {}
    /\ freed => \A u \in User : upc[u] = "idle"
=============================================================================

-------------------------------- MODULE XvBio --------------------------------
(***************************************************************************)
(* The buffer cache of xv6 (src/xv6/bio.c) with its sleep locks            *)
(* (src/xv6/sleeplock.c) and the disk driver under it: the interrupt       *)
(* driven one (src/xv6/ide.c) or the memory disk (src/xv6/memide.c).       *)
(*                                                                         *)
(* A step is one critical section of bcache.lock, of a buffer's lock.lk or *)
(* of idelock.  sleep gives up its lock and sleeps in one step (XvProc     *)
(* shows that no wakeup is lost in between); kill makes a sleeper look     *)
(* at its condition again.  Processes change a buffer only while they hold *)
(* it, and then call bwrite or log_write, as the callers in log.c and fs.c *)
(* do.  Of the contents of a block the model keeps whether a copy is       *)
(* current, that is, whether it holds what was last stored into the block. *)
(* The disk does not fail: ideintr ignores the error bit of a read.        *)
(***************************************************************************)
EXTENDS Integers, Sequences, FiniteSets

CONSTANTS
    Proc,       \* processes using the file system
    Block,      \* disk blocks: numbers, in the order in which callers nest them
    Nobody,     \* nobody, no block
    NBUF,       \* buffers in the cache
    LOGSIZE,    \* buffers log_write keeps dirty at most
    MAXHELD     \* buffers a process holds at once (2 in fs.c and log.c)

Buf == 1..NBUF

ASSUME BioConstants ==
    /\ Block \subseteq Nat /\ IsFiniteSet(Proc)
    /\ Nobody \notin Block \cup Proc \cup Buf
    /\ NBUF \in Nat /\ LOGSIZE \in Nat /\ MAXHELD \in Nat

VARIABLES
    lru,      \* bcache list from head.next, most recently used first
    blockno, refcnt, valid, dirty, data,   \* the fields of each struct buf
              \* (data: is the copy current?)
    owner,    \* who holds b->lock
    queue,    \* idequeue
    drive,    \* the request the IDE controller works on, or None
    disk,     \* for each block on the disk, is it current?
    driver,   \* the driver linked in: "ide" or "mem"
    bpc, cur, held,   \* each process: step, the buffer it is about, the buffers it holds
    panic

bufs == <<lru, blockno, refcnt, valid, dirty, data, owner>>
procs == <<bpc, cur, held>>
bioVars == <<bufs, queue, drive, disk, driver, procs, panic>>

BioTypeOK ==
    /\ lru \in [Buf -> Buf] /\ queue \in Seq(Buf)
    /\ blockno \in [Buf -> Block \cup {Nobody}]
    /\ refcnt \in [Buf -> Nat]
    /\ valid \in SUBSET Buf /\ dirty \in SUBSET Buf
    /\ data \in [Buf -> BOOLEAN] /\ disk \in [Block -> BOOLEAN]
    /\ owner \in [Buf -> Proc \cup {Nobody}]
    /\ driver \in {"ide", "mem"}
    /\ bpc \in [Proc -> {"run", "lock", "locksleep", "iderw", "io", "iosleep", "brelse"}]
    /\ cur \in [Proc -> Buf \cup {Nobody}] /\ held \in [Proc -> SUBSET Buf]

\* binit: the list is built by inserting each buffer at its head.
BioInit ==
    /\ lru = [i \in Buf |-> NBUF + 1 - i]
    /\ blockno = [b \in Buf |-> Nobody] /\ refcnt = [b \in Buf |-> 0]
    /\ valid = {} /\ dirty = {}
    /\ data = [b \in Buf |-> FALSE] /\ disk = [k \in Block |-> TRUE]
    /\ owner = [b \in Buf |-> Nobody]
    /\ queue = <<>> /\ drive = Nobody
    /\ driver \in {"ide", "mem"}
    /\ bpc = [p \in Proc |-> "run"] /\ cur = [p \in Proc |-> Nobody]
    /\ held = [p \in Proc |-> {}]
    /\ panic = FALSE

Panic == panic' = TRUE /\ UNCHANGED <<bufs, queue, drive, disk, driver, procs>>
\* Process p is back in its own code.
Return(p) == bpc' = [bpc EXCEPT ![p] = "run"] /\ cur' = [cur EXCEPT ![p] = Nobody]
-----------------------------------------------------------------------------
(* bio.c *)

\* Mutant: bget does not look for the block among the cached ones.
Cached_never(k) == {}

Cached(k) == {b \in Buf : blockno[b] = k}

\* Mutant: bget recycles buffers that log.c has still to commit.
Recyclable_dirty == {b \in Buf : refcnt[b] = 0}

Recyclable == {b \in Buf : refcnt[b] = 0 /\ b \notin dirty}

\* The last of a set of buffers in the list: the least recently used.
Oldest(S) == lru[CHOOSE i \in Buf : lru[i] \in S /\ \A j \in i+1..NBUF : lru[j] \notin S]

\* bget up to the acquiresleep of the buffer it has chosen.
bget(p, k) ==
    /\ bpc[p] = "run" /\ ~panic
    /\ Cardinality(held[p]) < MAXHELD
    /\ \A b \in held[p] : blockno[b] < k
    /\ IF Cached(k) # {}
       THEN \E b \in Cached(k) :
               /\ refcnt' = [refcnt EXCEPT ![b] = @ + 1]
               /\ cur' = [cur EXCEPT ![p] = b]
               /\ bpc' = [bpc EXCEPT ![p] = "lock"]
               /\ UNCHANGED <<blockno, valid, data, panic>>
       ELSE IF Recyclable = {} THEN panic' = TRUE /\ UNCHANGED <<refcnt, blockno, valid, data, bpc, cur>>
       ELSE LET b == Oldest(Recyclable) IN
               /\ blockno' = [blockno EXCEPT ![b] = k]
               /\ valid' = valid \ {b}
               /\ data' = [data EXCEPT ![b] = FALSE]
               /\ refcnt' = [refcnt EXCEPT ![b] = 1]
               /\ cur' = [cur EXCEPT ![p] = b]
               /\ bpc' = [bpc EXCEPT ![p] = "lock"]
               /\ UNCHANGED panic
    /\ UNCHANGED <<lru, dirty, owner, queue, drive, disk, driver, held>>

\* acquiresleep, and bread's test whether the block still has to be read.
acquiresleep(p) ==
    /\ bpc[p] = "lock"
    /\ LET b == cur[p] IN
       IF owner[b] # Nobody
       THEN bpc' = [bpc EXCEPT ![p] = "locksleep"] /\ UNCHANGED <<owner, cur, held>>
       ELSE /\ owner' = [owner EXCEPT ![b] = p]
            /\ held' = [held EXCEPT ![p] = @ \cup {b}]
            /\ IF b \in valid THEN Return(p)
               ELSE bpc' = [bpc EXCEPT ![p] = "iderw"] /\ UNCHANGED cur
    /\ UNCHANGED <<lru, blockno, refcnt, valid, dirty, data, queue, drive, disk, driver, panic>>

Holds(p, b) == bpc[p] = "run" /\ b \in held[p] /\ ~panic

\* The holder of b stores into its block: every other copy is out of date.
Store(b) ==
    /\ data' = [c \in Buf |-> IF blockno[c] = blockno[b] THEN c = b ELSE data[c]]
    /\ disk' = [disk EXCEPT ![blockno[b]] = FALSE]

\* The holder changes the block and calls bwrite (a commit, or recovery).
bwrite(p, b) ==
    /\ Holds(p, b)
    /\ Store(b)
    /\ dirty' = dirty \cup {b}
    /\ cur' = [cur EXCEPT ![p] = b]
    /\ bpc' = [bpc EXCEPT ![p] = "iderw"]
    /\ UNCHANGED <<lru, blockno, refcnt, valid, owner, queue, drive, driver, held, panic>>

\* The holder changes the block and calls log_write, which pins the buffer.
log_write(p, b) ==
    /\ Holds(p, b)
    /\ Cardinality(dirty \cup {b}) <= LOGSIZE
    /\ Store(b)
    /\ dirty' = dirty \cup {b}
    /\ UNCHANGED <<lru, blockno, refcnt, valid, owner, queue, drive, driver, procs, panic>>

\* Mutant: releasesleep forgets wakeup(lk).
LockWakeup_none(b, pcs) == pcs

LockWakeup(b, pcs) ==
    [q \in Proc |-> IF pcs[q] = "locksleep" /\ cur[q] = b THEN "lock" ELSE pcs[q]]

\* brelse: releasesleep first ...
releasesleep(p, b) ==
    /\ Holds(p, b)
    /\ owner' = [owner EXCEPT ![b] = Nobody]
    /\ held' = [held EXCEPT ![p] = @ \ {b}]
    /\ cur' = [cur EXCEPT ![p] = b]
    /\ bpc' = LockWakeup(b, [bpc EXCEPT ![p] = "brelse"])
    /\ UNCHANGED <<lru, blockno, refcnt, valid, dirty, data, queue, drive, disk, driver, panic>>

\* The buffer is moved to the head of the list.
MoveToFront(b) ==
    LET i == CHOOSE j \in Buf : lru[j] = b
    IN  [j \in Buf |-> IF j = 1 THEN b ELSE IF j <= i THEN lru[j - 1] ELSE lru[j]]

Refcnt(b) == [refcnt EXCEPT ![b] = @ - 1]

\* ... then the reference count and the list, under bcache.lock.
brelse(p) ==
    /\ bpc[p] = "brelse"
    /\ LET b == cur[p] IN
       /\ refcnt' = Refcnt(b)
       /\ lru' = IF refcnt'[b] = 0 THEN MoveToFront(b) ELSE lru
    /\ Return(p)
    /\ UNCHANGED <<blockno, valid, dirty, data, owner, queue, drive, disk, driver, held, panic>>
-----------------------------------------------------------------------------
(* ide.c, memide.c *)

\* idestart: the command, and for a write the data, go to the controller.
idestart(q) ==
    IF q = <<>> THEN Nobody
    ELSE [block |-> blockno[Head(q)], write |-> Head(q) \in dirty, data |-> data[Head(q)]]

NothingToDo(b) == b \in valid /\ b \notin dirty

StartNow(b) == queue = <<>>

\* iderw up to its loop: append the buffer, start the disk if it is idle.
iderw(p) ==
    /\ bpc[p] = "iderw" /\ ~panic
    /\ driver = "ide"
    /\ LET b == cur[p] IN
       IF owner[b] # p \/ NothingToDo(b) THEN Panic
       ELSE /\ queue' = Append(queue, b)
            /\ drive' = IF StartNow(b) THEN idestart(<<b>>) ELSE drive
            /\ bpc' = [bpc EXCEPT ![p] = "io"]
            /\ UNCHANGED <<bufs, disk, driver, cur, held, panic>>

Finished(b) == NothingToDo(b)

\* One turn of iderw's loop.
iderw_wait(p) ==
    /\ bpc[p] = "io"
    /\ IF Finished(cur[p]) THEN Return(p)
       ELSE bpc' = [bpc EXCEPT ![p] = "iosleep"] /\ UNCHANGED cur
    /\ UNCHANGED <<bufs, queue, drive, disk, driver, held, panic>>

\* The memory disk copies at once.
iderw_mem(p) ==
    /\ bpc[p] = "iderw" /\ ~panic
    /\ driver = "mem"
    /\ LET b == cur[p] IN
       IF owner[b] # p \/ NothingToDo(b) THEN Panic
       ELSE /\ IF b \in dirty
               THEN disk' = [disk EXCEPT ![blockno[b]] = data[b]] /\ UNCHANGED data
               ELSE data' = [data EXCEPT ![b] = disk[blockno[b]]] /\ UNCHANGED disk
            /\ dirty' = dirty \ {b}
            /\ valid' = valid \cup {b}
            /\ Return(p)
            /\ UNCHANGED <<lru, blockno, refcnt, owner, queue, drive, driver, held, panic>>

\* Mutant: the interrupt does not start the next request.
NextRequest_none(q) == Nobody

NextRequest(q) == idestart(q)

\* ideintr: the controller has finished the request at the head of the queue.
ideintr ==
    /\ drive # Nobody
    /\ LET b == Head(queue) IN
       /\ queue' = Tail(queue)
       /\ disk' = IF drive.write THEN [disk EXCEPT ![drive.block] = drive.data] ELSE disk
       /\ data' = IF b \notin dirty THEN [data EXCEPT ![b] = disk[drive.block]] ELSE data
       /\ valid' = valid \cup {b}
       /\ dirty' = dirty \ {b}
       /\ bpc' = [q \in Proc |-> IF bpc[q] = "iosleep" /\ cur[q] = b THEN "io" ELSE bpc[q]]
       /\ drive' = NextRequest(queue')
    /\ UNCHANGED <<lru, blockno, refcnt, owner, driver, cur, held, panic>>

\* kill of a sleeping process makes it runnable whatever it waits for.
kill(p) ==
    /\ bpc[p] \in {"locksleep", "iosleep"}
    /\ bpc' = [bpc EXCEPT ![p] = IF @ = "locksleep" THEN "lock" ELSE "io"]
    /\ UNCHANGED <<bufs, queue, drive, disk, driver, cur, held, panic>>
-----------------------------------------------------------------------------
Use(p) ==
    \/ \E k \in Block : bget(p, k)
    \/ \E b \in Buf : bwrite(p, b) \/ log_write(p, b)

Finish(p) ==
    \/ acquiresleep(p) \/ iderw(p) \/ iderw_wait(p) \/ iderw_mem(p) \/ brelse(p)

BioNext ==
    \/ \E p \in Proc : Use(p) \/ Finish(p) \/ kill(p)
    \/ \E p \in Proc, b \in Buf : releasesleep(p, b)
    \/ ideintr

BioSpec == BioInit /\ [][BioNext]_bioVars

\* Code between two waits goes on, buffers are given back, and the disk
\* answers every command it was given.
BioFairSpec ==
    /\ BioSpec
    /\ \A p \in Proc :
          WF_bioVars(Finish(p)) /\ WF_bioVars(\E b \in Buf : releasesleep(p, b))
    /\ WF_bioVars(ideintr)
-----------------------------------------------------------------------------
(* Properties *)

\* A block is cached in at most one buffer ("a synchronization point for disk
\* blocks used by multiple processes", bio.c).
OneBuffer == \A a, b \in Buf : blockno[a] = blockno[b] /\ blockno[a] # Nobody => a = b

\* Whoever holds a buffer after bread sees what was last stored into the
\* block, whether it came from the cache or back from the disk.
ReadsLatest ==
    \A p \in Proc : \A b \in held[p] :
        ~(b = cur[p] /\ bpc[p] \in {"iderw", "io", "iosleep"}) => data[b]

\* The controller works on the request at the head of idequeue and is idle
\* only when the queue is empty: idestart is called exactly once per request.
DriveMatchesQueue == drive = idestart(queue)

\* A buffer on idequeue is locked by a process that waits for it inside
\* iderw: nobody reuses or changes it under the disk's hands.
QueuedIsLocked ==
    \A i \in 1..Len(queue) :
        LET p == owner[queue[i]] IN p # Nobody /\ cur[p] = queue[i] /\ bpc[p] \in {"io", "iosleep"}

InQueue(q, b) == \E i \in 1..Len(q) : q[i] = b

\* No sleeper without a reason: the lock it waits for is held, or its request
\* is still queued (no wakeup of releasesleep or ideintr is missing).
NoLostWakeup ==
    \A p \in Proc :
        /\ bpc[p] = "locksleep" => owner[cur[p]] # Nobody
        /\ bpc[p] = "iosleep" => InQueue(queue, cur[p])

\* iderw is never called without the buffer's lock or with nothing to do (ide.c:142
\* to 145): the only panic is bget's, with every buffer referenced or pinned.
OnlyBgetPanics == [][panic' = panic \/ Recyclable = {}]_bioVars

\* Every disk request returns to its process.
IoReturns == \A p \in Proc : bpc[p] \in {"io", "iosleep"} ~> bpc[p] = "run"
=============================================================================

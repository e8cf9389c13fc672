-------------------------------- MODULE XvLog --------------------------------
(***************************************************************************)
(* The write-ahead log of xv6 (src/xv6/log.c) over the buffer cache        *)
(* (src/xv6/bio.c) and a disk that writes one block at a time.  A machine  *)
(* crash may come between any two steps; the reboot replays the log.       *)
(*                                                                         *)
(* A step is either one critical section of log.lock or one synchronous    *)
(* disk write (bwrite returns when the disk is done).  The cache is        *)
(* abstracted to one optional copy per block: any copy that bget could     *)
(* recycle may be dropped at any time.                                     *)
(***************************************************************************)
EXTENDS Integers, Sequences, FiniteSets

CONSTANTS
    Proc,         \* processes making file system calls
    Block,        \* home blocks of the file system
    Val,          \* contents of a block
    None,         \* no block, or "not in the cache"
    MAXOPBLOCKS,  \* blocks begin_op reserves for a call
    LOGSIZE,      \* entries of the header's block array
    NLOG,         \* sb.nlog: blocks of the on-disk log, header included
    OPBLOCKS      \* distinct blocks that a modelled call logs at most

ASSUME LogConstants ==
    /\ None \notin Val \cup Block
    /\ IsFiniteSet(Proc)
    /\ MAXOPBLOCKS \in Nat /\ LOGSIZE \in Nat /\ NLOG \in Nat /\ OPBLOCKS \in Nat

VARIABLES
    pc,           \* where each process is in its file system call
    held,         \* the buffer a process has modified and still holds
    wrote,        \* the blocks the current call of a process has logged
    outstanding,  \* log.outstanding
    committing,   \* log.committing
    lh,           \* log.lh: the block numbers logged so far
    tail,         \* loop index of write_log and install_trans
    buf,          \* cached copy of each home block, or None
    dirty,        \* home blocks whose buffer has B_DIRTY set
    home,         \* home blocks on the disk
    head,         \* header block on the disk
    logblk,       \* data blocks of the log on the disk
    boot          \* "run", the step that initlog has reached, or "panic"

disk == <<home, head, logblk>>
vars == <<pc, held, wrote, outstanding, committing, lh, tail, buf, dirty, disk, boot>>

OpPC     == {"op", "held", "log_write"}
CommitPC == {"write_log", "write_head", "install_trans", "clear", "done"}

TypeOK ==
    /\ pc \in [Proc -> {"idle", "begin_op", "sleep"} \cup OpPC \cup CommitPC]
    /\ held \in [Proc -> Block \cup {None}]
    /\ wrote \in [Proc -> SUBSET Block]
    /\ outstanding \in Nat /\ committing \in {0, 1}
    /\ lh \in Seq(Block) /\ tail \in Nat \ {0}
    /\ buf \in [Block -> Val \cup {None}]
    /\ dirty \in SUBSET Block
    /\ home \in [Block -> Val]
    /\ head \in Seq(Block)
    /\ logblk \in [1..(NLOG - 1) -> Val]
    /\ boot \in {"run", "install_trans", "clear", "panic"}

Entries(s) == {s[i] : i \in 1..Len(s)}

\* What bread(b) returns: the cached copy, or the block read from the disk.
bread(b) == IF buf[b] = None THEN home[b] ELSE buf[b]

Running == boot = "run"

\* mkfs leaves an empty log; the first process runs initlog.
Init ==
    /\ pc = [p \in Proc |-> "idle"]
    /\ held = [p \in Proc |-> None]
    /\ wrote = [p \in Proc |-> {}]
    /\ outstanding = 0 /\ committing = 0
    /\ lh = <<>> /\ tail = 1
    /\ buf = [b \in Block |-> None] /\ dirty = {}
    /\ home \in [Block -> Val]
    /\ head = <<>>
    /\ \E v \in Val : logblk = [i \in 1..(NLOG - 1) |-> v]
    /\ boot = "install_trans"
-----------------------------------------------------------------------------
(* File system calls *)

\* Mutant: begin_op looks only at what is logged, not at what calls may still log.
MustWait_unreserved ==
    \/ committing = 1
    \/ Len(lh) + MAXOPBLOCKS > LOGSIZE

\* begin_op's reasons to sleep: a commit is running, or the log might fill up.
MustWait ==
    \/ committing = 1
    \/ Len(lh) + (outstanding + 1) * MAXOPBLOCKS > LOGSIZE

\* wakeup(&log): every sleeper goes round begin_op's loop again.
Wakeup(pcs) == [q \in Proc |-> IF pcs[q] = "sleep" THEN "begin_op" ELSE pcs[q]]


\* Mutant: the call is not counted in log.outstanding.
begin_op_uncounted(p) ==
    /\ Running
    /\ pc[p] \in {"idle", "begin_op"}
    /\ pc' = [pc EXCEPT ![p] = IF MustWait THEN "sleep" ELSE "op"]
    /\ wrote' = [wrote EXCEPT ![p] = {}]
    /\ UNCHANGED <<held, outstanding, committing, lh, tail, buf, dirty, disk, boot>>

begin_op(p) ==
    /\ Running
    /\ pc[p] \in {"idle", "begin_op"}
    /\ \/ /\ MustWait
          /\ pc' = [pc EXCEPT ![p] = "sleep"]
          /\ UNCHANGED <<outstanding, wrote>>
       \/ /\ ~MustWait
          /\ pc' = [pc EXCEPT ![p] = "op"]
          /\ outstanding' = outstanding + 1
          /\ wrote' = [wrote EXCEPT ![p] = {}]
    /\ UNCHANGED <<held, committing, lh, tail, buf, dirty, disk, boot>>

\* bp = bread(b); modify bp->data.  The buffer stays locked until brelse.
Modify(p, b, v) ==
    /\ Running
    /\ pc[p] = "op"
    /\ \A q \in Proc : held[q] # b
    /\ Cardinality(wrote[p] \cup {b}) <= OPBLOCKS
    /\ buf' = [buf EXCEPT ![b] = v]
    /\ held' = [held EXCEPT ![p] = b]
    /\ pc' = [pc EXCEPT ![p] = "held"]
    /\ UNCHANGED <<wrote, outstanding, committing, lh, tail, dirty, disk, boot>>

\* log_write looks at the log without log.lock first ...
LogFull == Len(lh) >= LOGSIZE \/ Len(lh) >= NLOG - 1

log_write_check(p) ==
    /\ Running
    /\ pc[p] = "held"
    /\ IF LogFull \/ outstanding < 1
       THEN boot' = "panic" /\ UNCHANGED pc
       ELSE pc' = [pc EXCEPT ![p] = "log_write"] /\ UNCHANGED boot
    /\ UNCHANGED <<held, wrote, outstanding, committing, lh, tail, buf, dirty, disk>>

Absorb(s, b) == IF b \in Entries(s) THEN s ELSE Append(s, b)

\* ... and then records the block under the lock; brelse follows.
log_write(p) ==
    /\ Running
    /\ pc[p] = "log_write"
    /\ lh' = Absorb(lh, held[p])
    /\ dirty' = dirty \cup {held[p]}
    /\ wrote' = [wrote EXCEPT ![p] = @ \cup {held[p]}]
    /\ held' = [held EXCEPT ![p] = None]
    /\ pc' = [pc EXCEPT ![p] = "op"]
    /\ UNCHANGED <<outstanding, committing, tail, buf, disk, boot>>


end_op(p) ==
    /\ Running
    /\ pc[p] = "op"
    /\ outstanding' = outstanding - 1
    /\ IF committing = 1
       THEN boot' = "panic" /\ UNCHANGED <<pc, committing, tail>>
       ELSE /\ UNCHANGED boot
            /\ IF outstanding = 1
               THEN /\ committing' = 1
                    /\ tail' = 1
                    /\ pc' = [pc EXCEPT ![p] = IF lh = <<>> THEN "done" ELSE "write_log"]
               ELSE /\ pc' = Wakeup([pc EXCEPT ![p] = "idle"])
                    /\ UNCHANGED <<committing, tail>>
    /\ UNCHANGED <<held, wrote, lh, buf, dirty, disk>>
-----------------------------------------------------------------------------
(* commit(), run by the process whose end_op was the last *)

\* One turn of write_log: copy a cached block into the log on the disk.
write_log(p) ==
    /\ Running
    /\ pc[p] = "write_log"
    /\ logblk' = [logblk EXCEPT ![tail] = bread(lh[tail])]
    /\ buf' = [buf EXCEPT ![lh[tail]] = bread(lh[tail])]
    /\ tail' = tail + 1
    /\ pc' = [pc EXCEPT ![p] = IF tail = Len(lh) THEN "write_head" ELSE @]
    /\ UNCHANGED <<held, wrote, outstanding, committing, lh, dirty, home, head, boot>>

\* write_head, "the true point at which the current transaction commits".
write_head(p) ==
    /\ Running
    /\ pc[p] = "write_head"
    /\ head' = lh
    /\ tail' = 1
    /\ pc' = [pc EXCEPT ![p] = "install_trans"]
    /\ UNCHANGED <<held, wrote, outstanding, committing, lh, buf, dirty, home, logblk,
                   boot>>


\* Mutant: the loop of install_trans does not advance.
Install_stuck ==
    /\ home' = [home EXCEPT ![lh[tail]] = logblk[tail]]
    /\ buf' = [buf EXCEPT ![lh[tail]] = logblk[tail]]
    /\ dirty' = dirty \ {lh[tail]}
    /\ UNCHANGED <<head, logblk, tail>>

\* One turn of install_trans: copy a log block to its home location.
Install ==
    /\ home' = [home EXCEPT ![lh[tail]] = logblk[tail]]
    /\ buf' = [buf EXCEPT ![lh[tail]] = logblk[tail]]
    /\ dirty' = dirty \ {lh[tail]}
    /\ tail' = tail + 1
    /\ UNCHANGED <<head, logblk>>

install_trans(p) ==
    /\ Running
    /\ pc[p] = "install_trans"
    /\ Install
    /\ pc' = [pc EXCEPT ![p] = IF tail = Len(lh) THEN "clear" ELSE @]
    /\ UNCHANGED <<held, wrote, outstanding, committing, lh, boot>>


\* Mutant: the emptied header is not written back.
Erase_memory ==
    /\ lh' = <<>>
    /\ UNCHANGED <<home, head, logblk>>

\* log.lh.n = 0; write_head()
Erase ==
    /\ lh' = <<>>
    /\ head' = <<>>
    /\ UNCHANGED <<home, logblk>>

clear_log(p) ==
    /\ Running
    /\ pc[p] = "clear"
    /\ Erase
    /\ pc' = [pc EXCEPT ![p] = "done"]
    /\ UNCHANGED <<held, wrote, outstanding, committing, tail, buf, dirty, boot>>


\* Mutant: the committer leaves without wakeup(&log).
commit_done_silent(p) ==
    /\ Running
    /\ pc[p] = "done"
    /\ committing' = 0
    /\ pc' = [pc EXCEPT ![p] = "idle"]
    /\ UNCHANGED <<held, wrote, outstanding, lh, tail, buf, dirty, disk, boot>>

\* The end of end_op: let the calls that wait for the commit go on.
commit_done(p) ==
    /\ Running
    /\ pc[p] = "done"
    /\ committing' = 0
    /\ pc' = Wakeup([pc EXCEPT ![p] = "idle"])
    /\ UNCHANGED <<held, wrote, outstanding, lh, tail, buf, dirty, disk, boot>>
-----------------------------------------------------------------------------
(* Buffer cache, crash and recovery *)

\* A reader (readi, outside any call's transaction) brings a block in.
Fetch(b) ==
    /\ Running
    /\ buf[b] = None
    /\ buf' = [buf EXCEPT ![b] = home[b]]
    /\ UNCHANGED <<pc, held, wrote, outstanding, committing, lh, tail, dirty, disk, boot>>


\* bget recycles a buffer that nobody holds and that is not B_DIRTY.
Recycle(b) ==
    /\ Running
    /\ buf[b] # None
    /\ b \notin dirty
    /\ \A q \in Proc : held[q] # b
    /\ buf' = [buf EXCEPT ![b] = None]
    /\ UNCHANGED <<pc, held, wrote, outstanding, committing, lh, tail, dirty, disk, boot>>

\* The machine stops; initlog of the next boot has read the header.
Crash ==
    /\ pc' = [p \in Proc |-> "idle"]
    /\ held' = [p \in Proc |-> None]
    /\ wrote' = [p \in Proc |-> {}]
    /\ outstanding' = 0 /\ committing' = 0
    /\ lh' = head /\ tail' = 1
    /\ buf' = [b \in Block |-> None] /\ dirty' = {}
    /\ boot' = "install_trans"
    /\ UNCHANGED disk

recover_install ==
    /\ boot = "install_trans"
    /\ IF tail <= Len(lh)
       THEN Install /\ UNCHANGED boot
       ELSE boot' = "clear" /\ UNCHANGED <<disk, buf, dirty, tail>>
    /\ UNCHANGED <<pc, held, wrote, outstanding, committing, lh>>

recover_clear ==
    /\ boot = "clear"
    /\ Erase
    /\ boot' = "run"
    /\ UNCHANGED <<pc, held, wrote, outstanding, committing, tail, buf, dirty>>
-----------------------------------------------------------------------------
Step(p) ==
    \/ begin_op(p)
    \/ \E b \in Block, v \in Val : Modify(p, b, v)
    \/ log_write_check(p)
    \/ log_write(p)
    \/ end_op(p)
    \/ write_log(p)
    \/ write_head(p)
    \/ install_trans(p)
    \/ clear_log(p)
    \/ commit_done(p)

Next ==
    \/ \E p \in Proc : Step(p)
    \/ \E b \in Block : Fetch(b) \/ Recycle(b)
    \/ recover_install
    \/ recover_clear
    \/ Crash

Spec == Init /\ [][Next]_vars

\* Scheduled processes go on, and every file system call ends: it logs a
\* bounded number of blocks, however often it goes back to "op".
Progress(p) ==
    \/ log_write_check(p) \/ log_write(p)
    \/ write_log(p) \/ write_head(p) \/ install_trans(p) \/ clear_log(p) \/ commit_done(p)

FairSpec ==
    /\ Spec
    /\ WF_vars(recover_install \/ recover_clear)
    /\ \A p \in Proc : WF_vars(Progress(p)) /\ SF_vars(end_op(p))
-----------------------------------------------------------------------------
\* The refinement mapping to AtomicDisk.  A non-empty header on the disk
\* means that its blocks are read from the log after a reboot.
LoggedAt(b) == CHOOSE i \in 1..Len(head) : head[i] = b
Stable == [b \in Block |-> IF b \in Entries(head) THEN logblk[LoggedAt(b)] ELSE home[b]]
Cur    == IF boot \in {"run", "panic"} THEN [b \in Block |-> bread(b)] ELSE Stable
Active == {p \in Proc : pc[p] \in OpPC}

AD == INSTANCE AtomicDisk WITH cur <- Cur, stable <- Stable, active <- Active

\* log.c:9-15 and log.c:98-100: every file system call is atomic with respect
\* to a crash.  After any crash, also one during commit or during recovery,
\* the disk holds exactly the finished calls of a prefix of the commits.
CallsAreAtomic == AD!Spec

\* begin_op's reservation (log.c:132) is enough: log_write never panics, and
\* although log.c:218 tests lh.n before it takes log.lock, so that two
\* processes may pass together, the entries fit the on-disk log.
LogNeverFull == boot # "panic" /\ Len(lh) <= LOGSIZE /\ Len(lh) <= NLOG - 1

\* No lost wakeup on &log: a process sleeps in begin_op only while a commit
\* runs or the log space it needs is reserved by others.
SleepersMustWait == \A p \in Proc : pc[p] = "sleep" => MustWait

\* The commit section excludes every file system call, and itself.
CommitAlone ==
    \A p \in Proc : pc[p] \in CommitPC =>
        /\ Active = {}
        /\ \A q \in Proc : pc[q] \in CommitPC => q = p

\* A block that was logged and not yet installed is pinned in the cache, and
\* every other cached copy that nobody is modifying equals the disk's.
CacheCoherent ==
    boot = "run" => \A b \in Block :
        /\ b \in dirty => b \in Entries(lh) /\ buf[b] # None
        /\ (b \notin dirty /\ buf[b] # None /\ \A p \in Proc : held[p] # b)
              => buf[b] = home[b]

\* A process that sleeps in begin_op is woken: by the commit of the last
\* call, or by a call that ends and gives its reservation back.
SleeperWoken == \A p \in Proc : pc[p] = "sleep" ~> pc[p] # "sleep"

\* initlog finishes replaying the log unless the machine crashes forever.
RecoveryEnds == <>[][~Crash]_vars => <>[](boot = "run")
-----------------------------------------------------------------------------
(* The inductive invariant, in four parts: control, log space, memory, disk *)

\* log.outstanding counts the calls, and log.committing marks the committer.
ControlInv ==
    /\ outstanding = Cardinality(Active)
    /\ committing = 1 <=> \E p \in Proc : pc[p] \in CommitPC
    /\ CommitAlone
    /\ \A p \in Proc : held[p] # None <=> pc[p] \in {"held", "log_write"}
    /\ \A p, q \in Proc : held[p] # None /\ held[p] = held[q] => p = q
    /\ boot # "run" => \A p \in Proc : pc[p] = "idle"

\* The entries that the calls in progress may still add, as a set: begin_op
\* puts MAXOPBLOCKS of them aside, each new block of a call uses one up.
Room == {s \in Proc \X (1..MAXOPBLOCKS) :
            pc[s[1]] \in OpPC /\ s[2] > Cardinality(wrote[s[1]])}

SpaceInv ==
    /\ \A p \in Proc : IsFiniteSet(wrote[p])
    /\ \A p \in Proc : pc[p] \in OpPC => Cardinality(wrote[p]) <= OPBLOCKS
    /\ \A p \in Proc : pc[p] \in {"held", "log_write"} =>
                           Cardinality(wrote[p] \cup {held[p]}) <= OPBLOCKS
    /\ \A p \in Proc : pc[p] \in OpPC => wrote[p] \subseteq Entries(lh)
    /\ boot = "run" => Len(lh) + Cardinality(Room) <= LOGSIZE
    /\ LogNeverFull

\* Between log_write and install_trans a block lives in the cache, pinned.
MemoryInv ==
    /\ \A i, j \in 1..Len(lh) : lh[i] = lh[j] => i = j
    /\ \A b \in dirty : buf[b] # None
    /\ \A p \in Proc : held[p] # None => buf[held[p]] # None
    /\ \A b \in Block : (b \notin dirty /\ buf[b] # None /\ \A p \in Proc : held[p] # b)
                            => buf[b] = home[b]
    /\ boot # "run" => dirty = {} /\ lh = head
    /\ (boot = "run" /\ \A p \in Proc : pc[p] \notin {"install_trans", "clear"})
            => dirty = Entries(lh)
    /\ \A p \in Proc :
          /\ pc[p] = "install_trans" => dirty = {lh[i] : i \in tail..Len(lh)}
          /\ pc[p] = "clear" => dirty = {}
          /\ pc[p] \in {"write_log", "install_trans"} => tail <= Len(lh)
          /\ pc[p] \in {"write_head"} => lh # <<>>

\* The header on the disk is empty or describes a log that is complete.
DiskInv ==
    /\ head = <<>> \/ head = lh
    /\ boot = "run" /\ head # <<>> => \E p \in Proc : pc[p] \in {"install_trans", "clear"}
    /\ boot = "clear" => \A i \in 1..Len(lh) : home[lh[i]] = logblk[i]
    /\ boot = "install_trans" => \A i \in 1..Len(lh) : i < tail => home[lh[i]] = logblk[i]
    /\ \A p \in Proc :
          /\ pc[p] \in {"install_trans", "clear"} => head = lh
          /\ pc[p] = "write_log" => \A i \in 1..Len(lh) : i < tail => logblk[i] = buf[lh[i]]
          /\ pc[p] = "write_head" => \A i \in 1..Len(lh) : logblk[i] = buf[lh[i]]
          /\ pc[p] = "install_trans" =>
                \A i \in 1..Len(lh) : IF i < tail THEN home[lh[i]] = logblk[i]
                                                  ELSE logblk[i] = buf[lh[i]]
          /\ pc[p] = "clear" => \A i \in 1..Len(lh) : home[lh[i]] = logblk[i]

IndInv == TypeOK /\ ControlInv /\ SpaceInv /\ MemoryInv /\ DiskInv
=============================================================================

----------------------------- MODULE MCXvFiles ------------------------------
(***************************************************************************)
(* Files and memory of xv6: parts that meet only through system calls,     *)
(* explored one at a time.  `part` is chosen at the start and the          *)
(* variables of the others stay 0.                                         *)
(***************************************************************************)
EXTENDS XvFs, XvBlocks, XvMkfs, XvVm, XvMalloc

VARIABLE part       \* the component whose behaviour this is

VARIABLES pc, held, wrote, outstanding, committing, lh, tail, buf, dirty, home, head, logblk,
          boot
logVars == <<pc, held, wrote, outstanding, committing, lh, tail, buf, dirty, home, head,
             logblk, boot>>

\* The log with LOGSIZE = NLOG = 3 * MAXOPBLOCKS, as in param.h, and as many blocks
\* as the log has room for: what they hold does not matter here.
Log == INSTANCE XvLog WITH Block <- 1..5, Val <- {"v"}, MAXOPBLOCKS <- 2, LOGSIZE <- 6,
                           NLOG <- 6, OPBLOCKS <- 1

\* Paths with a name, a subdirectory, a parent, the root and the empty path.
Old == {<<"a">>, <<>>, <<"..">>}
New == {<<"a">>, <<"b">>, <<"b", "a">>, <<"..", "a">>, <<"/", "b">>}

\* Programs of one segment, of two, and one that ends in the kernel's half.
ThreePrograms == {<<1>>, <<3, 2>>, <<5>>}

\* A component that does not take part.
FsOff == dinode = 0 /\ ents = 0 /\ ref = 0 /\ mem = 0 /\ lock = 0 /\ file = 0 /\
         ofile = 0 /\ cwd = 0 /\ frame = 0 /\ calls = 0 /\ panic = 0
BlocksOff == dsk = 0 /\ off = 0 /\ bytes = 0 /\ wr = 0 /\ logged = 0 /\ iocalls = 0
MkfsOff == host = 0 /\ img = 0 /\ done = 0 /\ rd = 0 /\ bitmap = 0 /\ end = 0
VmOff == freelist = 0 /\ vm = 0 /\ sz = 0 /\ kstack = 0 /\ life = 0 /\ job = 0 /\ ops = 0
LogOff == pc = 0 /\ held = 0 /\ wrote = 0 /\ outstanding = 0 /\ committing = 0 /\ lh = 0 /\
          tail = 0 /\ buf = 0 /\ dirty = 0 /\ home = 0 /\ head = 0 /\ logblk = 0 /\ boot = 0
MallocOff == hdr = 0 /\ freep = 0 /\ brk = 0 /\ live = 0 /\ gaps = 0 /\ gotptr = 0

FilesInit ==
    /\ part \in {"fs", "blocks", "mkfs", "vm", "malloc", "log"}
    /\ IF part = "fs" THEN Init ELSE FsOff
    /\ IF part = "blocks" THEN BlkInit ELSE BlocksOff
    /\ IF part = "mkfs" THEN MkfsInit ELSE MkfsOff
    /\ IF part = "vm" THEN VmInit ELSE VmOff
    /\ IF part = "malloc" THEN MallocInit ELSE MallocOff
    /\ IF part = "log" THEN Log!Init ELSE LogOff

FilesNext ==
    \/ /\ part = "fs" /\ Next
       /\ UNCHANGED <<part, blkVars, mkfsVars, vmVars, mallocVars, logVars>>
    \/ /\ part = "blocks" /\ BlkNext
       /\ UNCHANGED <<part, vars, mkfsVars, vmVars, mallocVars, logVars>>
    \/ /\ part = "mkfs" /\ MkfsNext
       /\ UNCHANGED <<part, vars, blkVars, vmVars, mallocVars, logVars>>
    \/ /\ part = "vm" /\ VmNext
       /\ UNCHANGED <<part, vars, blkVars, mkfsVars, mallocVars, logVars>>
    \/ /\ part = "malloc" /\ MallocNext
       /\ UNCHANGED <<part, vars, blkVars, mkfsVars, vmVars, logVars>>
    \/ /\ part = "log" /\ Log!Next
       /\ UNCHANGED <<part, vars, blkVars, mkfsVars, vmVars, mallocVars>>

filesVars == <<part, vars, blkVars, mkfsVars, vmVars, mallocVars, logVars>>
FilesSpec == FilesInit /\ [][FilesNext]_filesVars
-----------------------------------------------------------------------------

\* Every ref in the inode cache and the file table counts exactly the pointers
\* that processes, files and calls hold; nlink is never below the number of
\* entries, so no entry names a free inode; and an inode that somebody holds is
\* not freed on disk by iput (fs.c, file.c, sysfile.c).
FsSound == part = "fs" => TypeOK /\ RefsExact /\ LinksCover /\ InUse

\* A file reads back as what was written to it, across bmap's direct and
\* indirect blocks and the chunks of filewrite, and the bitmap has a bit set
\* exactly for the blocks some inode uses, each used once (balloc, bfree, itrunc).
BlkSound == part = "blocks" => BlkTypeOK /\ FileIsBytes /\ BitmapExact

\* No transaction logs more than MAXOPBLOCKS blocks, whatever the alignment of
\* filewrite's chunk.
BlkOpFits == part = "blocks" => OpFits

\* begin_op's reservation (log.c:132) is enough: however many calls end and begin
\* while another is under way, log_write never meets a full log, though log.c:218
\* looks at lh.n before it takes log.lock.
LogFits == part = "log" => Log!LogNeverFull

\* The image that mkfs writes is a file system: every file has its bytes, every
\* block one use, and the bitmap says which are in use.
MkfsImageSound == part = "mkfs" => MkfsTypeOK /\ ImageSound

\* Memory has one owner: each physical page is free, a page of one process or
\* one of its tables, on every failing path of fork, exec and sbrk, and a
\* process has every page below its size; and the blocks that malloc gave out
\* and the free list, which stays in order, divide the heap.
MemoryDivided ==
    /\ part = "vm" => VmTypeOK /\ OneUsePerFrame /\ NoHoles
    /\ part = "malloc" => MallocTypeOK /\ HeapDivided /\ ListSorted

\* usertests.c:855 "another concurrent link/unlink/create test, to look for
\* deadlocks": no two processes wait for each other's inode locks.
FsNoDeadlock == part = "fs" => NoDeadlock
=============================================================================

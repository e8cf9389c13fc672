------------------------------ MODULE JosFile ------------------------------
(***************************************************************************)
(* The JOS file system below its request interface: the image fsformat     *)
(* builds (oslab6/fs/fsformat.c), the block cache (fs/bc.c), the bitmap,   *)
(* the block map of a file, the root directory and the file operations     *)
(* (fs/fs.c), and the self tests the server runs each time it starts       *)
(* (check_bc, check_bitmap, fs/test.c).                                    *)
(*                                                                         *)
(* The server is one environment that serves one request at a time, so a   *)
(* request changes the cached blocks in one step.  What others can see of  *)
(* a request half done is the DISK: the blocks it flushes are written one  *)
(* by one, in order, and the power may fail between any two of them.       *)
(*                                                                         *)
(* A File structure is named by its place, <<block, index>>: the root is   *)
(* in the super block, every other one in a block of the root directory.   *)
(* A block is counted in cells of which BLKSIZE hold bytes of a file or    *)
(* NINDIRECT block numbers.                                                *)
(***************************************************************************)
EXTENDS Integers, Sequences, FiniteSets, FiniteSetsExt

CONSTANTS NBLOCKS,    \* super->s_nblocks; one bitmap block covers them
          BLKSIZE,    \* bytes in a block
          BLKFILES,   \* File structures in a block of a directory
          NDIRECT, NINDIRECT,
          Image,      \* fsformat's arguments: <<name, bytes>> of each file
          NewName,    \* names that may be created
          Mode,       \* flags of an open: sets of CREAT, EXCL, TRUNC
          Val,        \* bytes that may be written
          Lengths,       \* sizes that set_size is asked for
          Span,       \* <<offset, count>> of the writes and reads asked for
          MaxReqs, MaxBoots

ASSUME FileConstants ==
    /\ {NBLOCKS, BLKSIZE, BLKFILES, NDIRECT, NINDIRECT} \subseteq Nat \ {0}
    /\ NINDIRECT = BLKSIZE
    /\ {MaxReqs, MaxBoots} \subseteq Nat

VARIABLES s,        \* the server's memory, see Memory
          disk,     \* what the disk holds, block by block
          up,       \* "off", "up", or "panic": the server has stopped
          truth,    \* by name, the size and bytes the file should have
          flushed,  \* files flushed, and not changed since
          soon,     \* files that will be once the writes under way are done
          reqs, boots

fileVars == <<s, disk, up, truth, flushed, soon, reqs, boots>>

Super == 1
Bitmap == 2
Smashed == <<>>     \* the super block while check_bc has overwritten it
Zero(n) == [i \in 1..n |-> 0]
NoFile == [name |-> "", size |-> 0, direct |-> Zero(NDIRECT), indirect |-> 0]
NewDirBlock == [j \in 1..BLKFILES |-> NoFile]
root == <<Super, 1>>
Blocks(n) == (n + BLKSIZE - 1) \div BLKSIZE

----------------------------------------------------------------------------
(* The block cache.  cached: blocks mapped in the DISKMAP region; dirty:   *)
(* those with PTE_D set; out: the writes flush_block has issued; bad: the  *)
(* panic reached.  A block not cached reads as the disk holds it.          *)

CacheOf(d) == [mem |-> d, cached |-> {}, dirty |-> {}, out |-> <<>>, bad |-> ""]

Free(m) == m.mem[Bitmap]
Panic(m, why) == IF m.bad = "" THEN [m EXCEPT !.bad = why] ELSE m

(* A first touch faults the block in; bc_pgfault refuses a free one, after *)
(* it has read it.                                                         *)
bc_pgfault(m, b) ==
    IF b \in m.cached THEN m
    ELSE LET r == [m EXCEPT !.cached = @ \cup {b}]
         IN  IF b \in Free(r) THEN Panic(r, "reading free block") ELSE r

Put(m, b, c) ==
    LET t == bc_pgfault(m, b) IN [t EXCEPT !.mem[b] = c, !.dirty = @ \cup {b}]

flush_block(m, b) ==
    IF b \notin m.cached \/ b \notin m.dirty THEN m
    ELSE [m EXCEPT !.out = Append(@, <<b, m.mem[b]>>), !.dirty = @ \ {b}]

----------------------------------------------------------------------------
(* The bitmap.                                                             *)

free_block(m, b) == Put(m, Bitmap, Free(m) \cup {b})

CanAlloc(m) == {b \in Free(m) : b > Bitmap} # {}
NewBlock(m) == Min({b \in Free(m) : b > Bitmap})
alloc_block_lazy(m) == Put(m, Bitmap, Free(m) \ {NewBlock(m)})
alloc_block(m) == flush_block(Put(m, Bitmap, Free(m) \ {NewBlock(m)}), Bitmap)

(* A block just allocated is zeroed and flushed; zeros read as free        *)
(* entries in a directory's block.                                         *)
Cleared(m, b, zeros) == flush_block(Put(m, b, zeros), b)

----------------------------------------------------------------------------
(* The block map of file f.  A walk or a get answers [m, r]: the memory    *)
(* after it and its result.                                                *)

FileAt(m, f) == m.mem[f[1]][f[2]]
SetFile(m, f, file) == Put(m, f[1], [m.mem[f[1]] EXCEPT ![f[2]] = file])

Ok(m) == [m |-> m, r |-> "ok"]
Err(m, e) == [m |-> m, r |-> e]

WithIndirect(m, f, b) ==
    Ok(Cleared(SetFile(alloc_block(m), f, [FileAt(m, f) EXCEPT !.indirect = b]),
               b, Zero(NINDIRECT)))

file_block_walk(m, f, n, alloc) ==
    IF n >= NDIRECT + NINDIRECT THEN Err(m, "INVAL")
    ELSE IF n < NDIRECT THEN Ok(m)
    ELSE IF FileAt(m, f).indirect # 0 THEN Ok(bc_pgfault(m, FileAt(m, f).indirect))
    ELSE IF ~alloc THEN Err(m, "NOT_FOUND")
    ELSE IF ~CanAlloc(m) THEN Err(m, "NO_DISK")
    ELSE WithIndirect(m, f, NewBlock(m))

(* The slot a walk points *ppdiskbno at.                                   *)
BlockSlot(m, f, n) ==
    IF n < NDIRECT THEN FileAt(m, f).direct[n + 1]
    ELSE IF FileAt(m, f).indirect = 0 THEN 0
    ELSE m.mem[FileAt(m, f).indirect][n - NDIRECT + 1]

SetSlot(m, f, n, b) ==
    IF n < NDIRECT THEN SetFile(m, f, [FileAt(m, f) EXCEPT !.direct[n + 1] = b])
    ELSE LET i == FileAt(m, f).indirect
         IN  Put(m, i, [m.mem[i] EXCEPT ![n - NDIRECT + 1] = b])

WithBlock(m, f, n, b) ==
    Ok(Cleared(SetSlot(alloc_block(m), f, n, b), b,
               IF f = root THEN NewDirBlock ELSE Zero(BLKSIZE)))

Get(w, f, n) ==
    IF w.r # "ok" \/ BlockSlot(w.m, f, n) # 0 THEN w
    ELSE IF ~CanAlloc(w.m) THEN Err(w.m, "NO_DISK")
    ELSE WithBlock(w.m, f, n, NewBlock(w.m))

file_get_block(m, f, n) == Get(file_block_walk(m, f, n, TRUE), f, n)

----------------------------------------------------------------------------
(* The size of a file.                                                     *)

(* A walk that fails, or finds no block, leaves nothing to do.             *)
Unmap(w, f, n) ==
    IF w.r # "ok" \/ BlockSlot(w.m, f, n) = 0 THEN w.m
    ELSE SetSlot(free_block(w.m, BlockSlot(w.m, f, n)), f, n, 0)

file_free_block(m, f, n) == Unmap(file_block_walk(m, f, n, FALSE), f, n)

DropIndirect(new) == new <= NDIRECT

IndirectFreed(m, f, i) ==
    SetFile(free_block(m, i), f, [FileAt(m, f) EXCEPT !.indirect = 0])

Shrunk(m, f, new) ==
    IF DropIndirect(new) /\ FileAt(m, f).indirect # 0
    THEN IndirectFreed(m, f, FileAt(m, f).indirect) ELSE m

file_truncate_blocks(m, f, newsize) ==
    LET after[n \in Nat] == IF n <= Blocks(newsize) THEN m
                            ELSE file_free_block(after[n - 1], f, n - 1)
    IN  Shrunk(after[Blocks(FileAt(m, f).size)], f, Blocks(newsize))

Sized(m, f, n) == flush_block(SetFile(m, f, [FileAt(m, f) EXCEPT !.size = n]), f[1])

file_set_size(m, f, newsize) ==
    Sized(IF FileAt(m, f).size > newsize
          THEN file_truncate_blocks(m, f, newsize) ELSE m, f, newsize)

FlushData(w, f, n) ==
    IF w.r # "ok" \/ BlockSlot(w.m, f, n) = 0 THEN w.m
    ELSE flush_block(w.m, BlockSlot(w.m, f, n))

FlushIndirect(m, f) ==
    IF FileAt(m, f).indirect # 0 THEN flush_block(m, FileAt(m, f).indirect) ELSE m

file_flush(m, f) ==
    LET after[n \in Nat] ==
            IF n = 0 THEN m
            ELSE FlushData(file_block_walk(after[n - 1], f, n - 1, FALSE), f, n - 1)
    IN  FlushIndirect(flush_block(after[Blocks(FileAt(m, f).size)], f[1]), f)

----------------------------------------------------------------------------
(* Bytes.  Each byte takes its block with file_get_block; the blocks of a  *)
(* request are taken in order and the first failure ends it, after n bytes. *)

Reading == -1

Accessed(m, b, i, v) ==
    IF v = Reading THEN bc_pgfault(m, b) ELSE Put(m, b, [m.mem[b] EXCEPT ![i] = v])

Moved(a, g, f, p, v) ==
    IF g.r # "ok" THEN [m |-> g.m, r |-> g.r, n |-> a.n]
    ELSE [m |-> Accessed(g.m, BlockSlot(g.m, f, p \div BLKSIZE), (p % BLKSIZE) + 1, v),
          r |-> "ok", n |-> a.n + 1]

Step(a, f, p, v) ==
    IF a.r # "ok" THEN a ELSE Moved(a, file_get_block(a.m, f, p \div BLKSIZE), f, p, v)

Transfer(m, f, off, count, v) ==
    LET after[n \in Nat] == IF n = 0 THEN [m |-> m, r |-> "ok", n |-> 0]
                            ELSE Step(after[n - 1], f, off + n - 1, v)
    IN  after[count]

file_read(m, f, off, count) ==
    IF off >= FileAt(m, f).size THEN m
    ELSE Transfer(m, f, off, Min({count, FileAt(m, f).size - off}), Reading).m

file_write(m, f, off, count, v) ==
    Transfer(IF off + count > FileAt(m, f).size
             THEN file_set_size(m, f, off + count) ELSE m, f, off, count, v)

----------------------------------------------------------------------------
(* The root directory, the only one: fsformat makes no other, and          *)
(* file_create makes regular files.                                        *)

(* Search the blocks of the directory in order for an entry of this name;  *)
(* "" finds a free entry.  Blocks are allocated where the directory has a  *)
(* hole, and a block that cannot be had ends the search with that error.   *)
Matches(m, b, name) == {j \in 1..BLKFILES : m.mem[b][j].name = name}

Match(m, b, name) ==
    IF Matches(m, b, name) = {} THEN Err(m, "NOT_FOUND")
    ELSE [m |-> m, r |-> "ok", f |-> <<b, Min(Matches(m, b, name))>>]

InBlock(g, b, name) == IF g.r # "ok" THEN g ELSE Match(bc_pgfault(g.m, b), b, name)

Try(a, g, n, name) ==
    IF a.r # "NOT_FOUND" THEN a ELSE InBlock(g, BlockSlot(g.m, root, n), name)

Search(m, name) ==
    LET next(a, n) == Try(a, file_get_block(a.m, root, n), n, name)
        after[n \in Nat] == IF n = 0 THEN Err(m, "NOT_FOUND")
                            ELSE next(after[n - 1], n - 1)
    IN  after[FileAt(m, root).size \div BLKSIZE]

dir_lookup(m, name) == Search(m, name)

NewEntry(g, n) == IF g.r # "ok" THEN g
                  ELSE [m |-> g.m, r |-> "ok", f |-> <<BlockSlot(g.m, root, n), 1>>]

(* The directory's size grows before its new block is had, and stays so    *)
(* when there is none.                                                     *)
Grown(m, n) ==
    NewEntry(file_get_block(SetFile(m, root, [FileAt(m, root) EXCEPT !.size = @ + BLKSIZE]),
                            root, n), n)

EntryOrGrow(a) == IF a.r # "NOT_FOUND" THEN a
                  ELSE Grown(a.m, FileAt(a.m, root).size \div BLKSIZE)

dir_alloc_file(m) == EntryOrGrow(Search(m, ""))

(* The entry's other fields keep what a zeroed block gave them.            *)
Named(a, name) ==
    IF a.r # "ok" THEN a
    ELSE [a EXCEPT !.m = file_flush(SetFile(a.m, a.f,
                             [FileAt(a.m, a.f) EXCEPT !.name = name]), root)]

Create(l, name) == IF l.r = "ok" THEN Err(l.m, "FILE_EXISTS")
                   ELSE IF l.r # "NOT_FOUND" THEN l
                   ELSE Named(dir_alloc_file(l.m), name)

file_create(m, name) == Create(dir_lookup(m, name), name)

fs_sync(m) ==
    LET after[b \in Nat] == IF b = 0 THEN m ELSE flush_block(after[b - 1], b)
    IN  after[NBLOCKS - 1]

----------------------------------------------------------------------------
(* fsformat.  a: the image so far, its first unused block and the entries  *)
(* made.  A file's blocks are consecutive, and are followed by an indirect *)
(* block when they fill the direct ones (even when none is left over).     *)

finishfile(a, name, size, chunks) ==
    LET n == Len(chunks)
        ind == a.pos + n
        more == n >= NDIRECT
        data == [b \in a.pos..(ind - 1) |-> chunks[b - a.pos + 1]]
        table == [k \in 1..NINDIRECT |->
                     IF k + NDIRECT <= n THEN a.pos + NDIRECT + k - 1 ELSE 0]
    IN  [d |-> [b \in DOMAIN a.d |-> IF b \in DOMAIN data THEN data[b]
                                     ELSE IF more /\ b = ind THEN table ELSE a.d[b]],
         pos |-> IF more THEN ind + 1 ELSE ind,
         files |-> Append(a.files,
             [name |-> name, size |-> size,
              direct |-> [i \in 1..NDIRECT |-> IF i <= n THEN a.pos + i - 1 ELSE 0],
              indirect |-> IF more THEN ind ELSE 0])]

Chunks(seq, size, pad) ==
    [c \in 1..((Len(seq) + size - 1) \div size) |->
        [i \in 1..size |-> LET k == (c - 1) * size + i
                           IN  IF k <= Len(seq) THEN seq[k] ELSE pad]]

fsformat ==
    LET empty == [d |-> [b \in 0..(NBLOCKS - 1) |-> Zero(BLKSIZE)],
                  pos |-> Bitmap + 1, files |-> <<>>]
        after[i \in Nat] ==
            IF i = 0 THEN empty
            ELSE finishfile(after[i - 1], Image[i][1], Len(Image[i][2]),
                            Chunks(Image[i][2], BLKSIZE, 0))
        all == after[Len(Image)]
        ents == Chunks(all.files, BLKFILES, NoFile)
        done == finishfile(all, "/", Len(ents) * BLKSIZE, ents)
    IN  [done.d EXCEPT ![Super] = <<done.files[Len(done.files)]>>,
                       ![Bitmap] = done.pos..(NBLOCKS - 1)]

----------------------------------------------------------------------------
(* What a reader of the blocks m (in memory or on the disk) finds: the     *)
(* files of the root directory, and the bytes of one; a hole reads as 0.   *)

Entries(m) ==
    {f \in {<<BlockSlot(m, root, n), j>> : n \in 0..(Blocks(FileAt(m, root).size) - 1),
                                      j \in 1..BLKFILES} :
        f[1] # 0 /\ FileAt(m, f).name # ""}

MAXFILESIZE == (NDIRECT + NINDIRECT) * BLKSIZE

FileByte(m, f, p) == LET b == BlockSlot(m, f, p \div BLKSIZE)
                 IN  IF b = 0 THEN 0 ELSE m.mem[b][(p % BLKSIZE) + 1]

Bytes(m, f) == [p \in 0..(Min({FileAt(m, f).size, MAXFILESIZE}) - 1) |-> FileByte(m, f, p)]

(* The blocks the files use, each with its place in its file (-1: the      *)
(* indirect block), as far as the size of the file reaches.                *)
Used(m, f) ==
    {<<f, n, BlockSlot(m, f, n)>> : n \in 0..(Min({Blocks(FileAt(m, f).size),
                                              NDIRECT + NINDIRECT}) - 1)}
        \cup {<<f, -1, FileAt(m, f).indirect>>}

AllUsed(m) == {u \in UNION {Used(m, f) : f \in {root} \cup Entries(m)} : u[3] # 0}

(* Every file as it is found, with the bytes past its end in its last      *)
(* block: the code does not clear them.                                    *)
Found(m) ==
    [name \in {FileAt(m, f).name : f \in Entries(m)} |->
        LET f == CHOOSE e \in Entries(m) : FileAt(m, e).name = name
        IN  [size |-> FileAt(m, f).size,
             byte |-> [p \in 0..(MAXFILESIZE - 1) |-> FileByte(m, f, p)]]]

----------------------------------------------------------------------------
(* The server's start: check_bc smashes the super block on the disk and    *)
(* restores it, twice; then the super block and the bitmap are checked,    *)
(* and fs_test allocates a block, which it keeps, and rewrites the message *)
(* file.                                                                   *)

fs_init(d) ==
    LET smash == <<<<Super, Smashed>>, <<Super, d[Super]>>>>
        m == [CacheOf(d) EXCEPT !.cached = {Super, Bitmap}, !.out = smash \o smash]
    IN  IF d[Super] = Smashed THEN Panic(m, "bad file system magic number")
        ELSE IF Free(m) \cap 0..Bitmap # {} THEN Panic(m, "assertion in check_bitmap")
        ELSE m

motd == Image[1][1]
msg == Chunks(Image[1][2], BLKSIZE, 0)[1]

Asserts(ok, m, why) == IF ok THEN m ELSE Panic(m, why)

Rewritten(m, f) ==
    Asserts({BlockSlot(m, f, 0), f[1]} \cap m.dirty = {}, m, "assertion after file_flush")

Rewrite(g, f) ==
    IF g.r # "ok" THEN Panic(g.m, "file_get_block 2")
    ELSE Rewritten(file_flush(Put(g.m, BlockSlot(g.m, f, 0), msg), f), f)

Truncated(m, f) ==
    IF FileAt(m, f).direct[1] # 0 \/ f[1] \in m.dirty
    THEN Panic(m, "assertion after file_set_size")
    ELSE Rewrite(file_get_block(file_set_size(m, f, Len(Image[1][2])), f, 0), f)

Compare(m, f, b) ==
    IF m.mem[b] # msg THEN Panic(m, "file_get_block returned wrong data")
    ELSE Truncated(file_set_size(file_flush(Put(m, b, m.mem[b]), f), f, 0), f)

ReadMotd(g, f) ==
    IF g.r # "ok" THEN Panic(g.m, "file_get_block")
    ELSE Compare(bc_pgfault(g.m, BlockSlot(g.m, f, 0)), f, BlockSlot(g.m, f, 0))

OpenMotd(l) == IF l.r # "ok" THEN Panic(l.m, "file_open /newmotd")
               ELSE ReadMotd(file_get_block(l.m, l.f, 0), l.f)

OpenNone(l) == IF l.r # "NOT_FOUND" THEN Panic(l.m, "file_open /not-found")
               ELSE OpenMotd(dir_lookup(l.m, motd))

fs_test(m) ==
    IF m.bad # "" THEN m
    ELSE IF ~CanAlloc(m) THEN Panic(m, "alloc_block")
    ELSE OpenNone(dir_lookup(alloc_block(m), "not-found"))

----------------------------------------------------------------------------
Settle(m) == /\ s' = m
             /\ up' = IF m.bad = "" THEN "up" ELSE "panic"

FileInit == /\ disk = fsformat
            /\ s = CacheOf(disk)
            /\ up = "off"
            /\ truth = <<>>
            /\ flushed = {} /\ soon = {}
            /\ reqs = 0 /\ boots = 0

boot ==
    /\ up = "off" /\ boots < MaxBoots
    /\ Settle(fs_test(fs_init(disk)))
    /\ boots' = boots + 1
    /\ truth' = IF up' = "up" THEN Found(s') ELSE truth
    /\ flushed' = IF up' = "up" THEN DOMAIN Found(s') \ {motd} ELSE {}
    /\ soon' = {motd}
    /\ UNCHANGED <<disk, reqs>>

(* ide_write of the next block flushed.                                    *)
ide_write ==
    /\ up = "up" /\ s.out # <<>>
    /\ disk' = [disk EXCEPT ![Head(s.out)[1]] = Head(s.out)[2]]
    /\ s' = [s EXCEPT !.out = Tail(@)]
    /\ flushed' = IF Len(s.out) = 1 THEN flushed \cup soon ELSE flushed
    /\ UNCHANGED <<up, truth, soon, reqs, boots>>

crash == /\ up = "up"
         /\ up' = "off"
         /\ s' = CacheOf(disk)
         /\ soon' = {}
         /\ UNCHANGED <<disk, truth, flushed, reqs, boots>>

(* A request is served when the one before it is done.  After its last     *)
(* start the server is followed through its self tests and no further.     *)
Ready == up = "up" /\ s.out = <<>> /\ reqs < MaxReqs /\ boots < MaxBoots

Serve(m) == /\ reqs' = reqs + 1
            /\ Settle(m)
            /\ UNCHANGED <<disk, boots>>

ReadyFor(name) == Ready /\ name \in DOMAIN truth

Place(name) == CHOOSE f \in Entries(s) : FileAt(s, f).name = name

WithNew(name) ==
    [n \in DOMAIN truth \cup {name} |->
        IF n = name THEN [size |-> 0, byte |-> [p \in 0..(MAXFILESIZE - 1) |-> 0]]
        ELSE truth[n]]

(* Create the file or find it, truncate it, and find it again.             *)
Existing(c, name, mode) ==
    IF c.r = "FILE_EXISTS" /\ "EXCL" \notin mode THEN dir_lookup(c.m, name) ELSE c

Truncate(o, mode) ==
    IF o.r = "ok" /\ "TRUNC" \in mode THEN [o EXCEPT !.m = file_set_size(@, o.f, 0)] ELSE o

Reopened(o, name) == IF o.r = "ok" THEN dir_lookup(o.m, name) ELSE o

Opened(m, name, mode) ==
    Reopened(Truncate(IF "CREAT" \in mode
                      THEN Existing(file_create(m, name), name, mode)
                      ELSE dir_lookup(m, name), mode), name)

Resized(t, n) == [size |-> n,
                  byte |-> [p \in DOMAIN t.byte |->
                               IF n < t.size /\ p >= Blocks(n) * BLKSIZE
                                  /\ p < Blocks(t.size) * BLKSIZE THEN 0 ELSE t.byte[p]]]

serve_open(name, mode) ==
    /\ Ready
    /\ \E o \in {Opened(s, name, mode)} :
        /\ Serve(o.m)
        /\ \E t \in {IF o.r = "ok" /\ name \notin DOMAIN truth THEN WithNew(name) ELSE truth} :
              truth' = IF o.r = "ok" /\ "TRUNC" \in mode
                       THEN [t EXCEPT ![name] = Resized(@, 0)] ELSE t
        /\ soon' = IF o.r = "ok" /\ name \notin DOMAIN truth THEN {name} ELSE {}
        /\ flushed' = IF o.r = "ok" /\ "TRUNC" \in mode THEN flushed \ {name} ELSE flushed

serve_set_size(name, n) ==
    /\ ReadyFor(name)
    /\ Serve(file_set_size(s, Place(name), n))
    /\ truth' = [truth EXCEPT ![name] = Resized(@, n)]
    /\ flushed' = flushed \ {name} /\ soon' = {}

serve_write(name, span, v) ==
    /\ ReadyFor(name)
    /\ \E w \in {file_write(s, Place(name), span[1], span[2], v)} :
        /\ Serve(w.m)
        /\ truth' = [truth EXCEPT
              ![name].size = Max({@, span[1] + span[2]}),
              ![name].byte = [p \in DOMAIN @ |->
                  IF p \in span[1]..(span[1] + w.n - 1) THEN v ELSE @[p]]]
        /\ flushed' = flushed \ {name} /\ soon' = {}

serve_read(name, span) ==
    /\ ReadyFor(name)
    /\ Serve(file_read(s, Place(name), span[1], span[2]))
    /\ soon' = {}
    /\ UNCHANGED <<truth, flushed>>

serve_flush(name) ==
    /\ ReadyFor(name)
    /\ Serve(file_flush(s, Place(name)))
    /\ soon' = {name}
    /\ flushed' = IF s'.out = <<>> THEN flushed \cup {name} ELSE flushed
    /\ UNCHANGED truth

serve_sync ==
    /\ Ready
    /\ Serve(fs_sync(s))
    /\ soon' = DOMAIN truth
    /\ flushed' = IF s'.out = <<>> THEN DOMAIN truth ELSE flushed
    /\ UNCHANGED truth

Names == {Image[i][1] : i \in DOMAIN Image} \cup NewName

FileNext ==
    \/ boot \/ ide_write \/ crash \/ serve_sync
    \/ \E name \in Names :
          \/ \E mode \in Mode : serve_open(name, mode)
          \/ \E n \in Lengths : serve_set_size(name, n)
          \/ \E span \in Span : \/ serve_read(name, span)
                                \/ \E v \in Val : serve_write(name, span, v)
          \/ serve_flush(name)

FileSpec == FileInit /\ [][FileNext]_fileVars

----------------------------------------------------------------------------
FileTypeOK ==
    /\ up \in {"off", "up", "panic"}
    /\ DOMAIN disk = 0..(NBLOCKS - 1)
    /\ s.dirty \subseteq s.cached /\ s.cached \subseteq 0..(NBLOCKS - 1)
    /\ flushed \cup soon \subseteq Names

(* Sound(m): in the blocks m no block is used twice, and none that is used *)
(* is marked free.                                                         *)
Sound(m) == /\ \A u, v \in AllUsed(m) : u[3] = v[3] => u = v
            /\ \A u \in AllUsed(m) : u[3] \notin m.mem[Bitmap]

(* The disk as it stands, until it has been through one power failure.     *)
OnDisk == CacheOf(disk)
Readable == boots = 1 /\ disk[Super] # Smashed

(* While the server runs, the files it sees in its cache share no block    *)
(* and use none that the bitmap calls free.                                *)
CacheSound == up = "up" /\ boots = 1 => Sound(s)

(* file_set_size, which file_write calls too, flushes the file and not its *)
(* indirect block (fs.c:454): until file_flush or fs_sync has written that *)
(* block, its slots on the disk may be old, and name blocks that are free, *)
(* or another file's, by then.                                             *)
Stale(u) == LET ind == FileAt(OnDisk, u[1]).indirect
            IN  u[2] >= NDIRECT /\ (ind \in s.dirty \/ \E i \in DOMAIN s.out : s.out[i][1] = ind)

(* Whenever the power may fail (between any two block writes of any        *)
(* request), the files found on the disk share no block and use none that  *)
(* the bitmap on the disk calls free, but for the slots that are stale.    *)
DiskSound ==
    up = "up" /\ Readable => \E used \in {{u \in AllUsed(OnDisk) : ~Stale(u)}} :
        /\ \A u, v \in used : u[3] = v[3] => u = v
        /\ \A u \in used : u[3] \notin disk[Bitmap]

(* Every file reads as the bytes written to it, and as zero where nothing  *)
(* was, whatever blocks were freed and given out again in between.         *)
ContentsTrue ==
    up = "up" /\ boots = 1 => \A f \in Entries(s) :
        LET t == truth[FileAt(s, f).name]
        IN  /\ FileAt(s, f).size = t.size
            /\ \A p \in DOMAIN Bytes(s, f) : Bytes(s, f)[p] = t.byte[p]

(* A file that was flushed and not changed since is on the disk, byte for  *)
(* byte, whatever requests on other files are half done (file_flush,       *)
(* fs.c:464 "Flush the contents and metadata of file f out to disk.").     *)
Durable ==
    Readable => \A name \in flushed :
        \E f \in Entries(OnDisk) :
            /\ FileAt(OnDisk, f).name = name
            /\ FileAt(OnDisk, f).size = truth[name].size
            /\ \A p \in DOMAIN Bytes(OnDisk, f) :
                  Bytes(OnDisk, f)[p] = truth[name].byte[p]

(* No request makes the server panic while the power has not failed, and   *)
(* the server that starts after a power failure panics only over what its  *)
(* own self tests had left half done on the disk, or for lack of a block   *)
(* for them: never over a free block that a file uses, a lost name or a    *)
(* failed assertion.                                                       *)
RestartSound ==
    up = "panic" => /\ boots = MaxBoots
                    /\ s.bad \in {"bad file system magic number",
                                  "file_get_block returned wrong data",
                                  "alloc_block", "file_open /not-found",
                                  "file_get_block", "file_get_block 2"}

Leaked == {b \in (Bitmap + 1)..(NBLOCKS - 1) : b \notin Free(s)}
              \ {u[3] : u \in AllUsed(s)}

(* No request loses a block: those that are neither free nor used by a     *)
(* file change only when the server starts.                                *)
NoLeak == up = "up" /\ up' = "up" /\ boots = 1 => Leaked' = Leaked
=============================================================================

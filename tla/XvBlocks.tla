------------------------------- MODULE XvBlocks -------------------------------
(***************************************************************************)
(* The contents of files in xv6: balloc, bfree, bmap, itrunc, readi and    *)
(* writei of src/xv6/fs.c, and fileread and filewrite of src/xv6/file.c.   *)
(* Open files share an offset, as after fork or dup.  filewrite splits a   *)
(* write into transactions; each is one step, made under the inode's lock, *)
(* with steps of other processes in between.  What a file should hold is   *)
(* kept as a plain sequence of bytes beside it.                            *)
(***************************************************************************)
EXTENDS Integers, Sequences, FiniteSets, FiniteSetsExt

CONSTANTS
    Writer,              \* processes
    Ino,                 \* inodes; each has one open file
    NBLOCK, BPB,         \* data blocks, and how many one bitmap block covers
    NDIRECT, NINDIRECT, BSIZE, MAXOPBLOCKS,
    Counts,              \* bound: the byte counts of read and write
    MaxIoCalls             \* bound on calls of write and unlink

MAXFILE == NDIRECT + NINDIRECT
DataBlock == 1..NBLOCK

ASSUME BlockConstants ==
    /\ Counts \cup {NBLOCK, BPB, NDIRECT, NINDIRECT, BSIZE, MAXOPBLOCKS} \subseteq Nat \ {0} /\ MAXOPBLOCKS >= 6
    /\ NBLOCK >= Cardinality(Ino) * (MAXFILE + 1)

VARIABLES
    dsk,     \* bitmap, indirect blocks, data; the inodes' addrs and size
    off,      \* per inode: f->off of its open file
    bytes,    \* per inode: what the file should hold
    wr,       \* per process: the rest of its filewrite
    logged,   \* blocks written by the transaction made last
    iocalls

blkVars == <<dsk, off, bytes, wr, logged, iocalls>>

Zeros == [i \in 0..BSIZE-1 |-> 0]
NoAddrs == [i \in 0..NDIRECT |-> 0]
NoIndirect == [i \in 0..NINDIRECT-1 |-> 0]
NoWrite == [ino |-> 0, left |-> 0]

BlkInit ==
    /\ dsk = [used |-> {}, data |-> [b \in DataBlock |-> Zeros], ind |-> [b \in DataBlock |-> NoIndirect],
               addrs |-> [i \in Ino |-> NoAddrs], size |-> [i \in Ino |-> 0], log |-> {}, panic |-> FALSE]
    /\ off = [i \in Ino |-> 0] /\ bytes = [i \in Ino |-> <<>>]
    /\ wr = [w \in Writer |-> NoWrite] /\ logged = {} /\ iocalls = 0

-----------------------------------------------------------------------------
(* Blocks. *)

\* What log_write records: the kinds of blocks are kept apart.
Bitmap(b) == <<"bitmap", b \div BPB>>
Data(b) == <<"data", b>>
Inodes == <<"inode", 0>>

FreeBlocks(d) == DataBlock \ d.used
\* balloc takes the first free block and clears it.
balloc(d) ==
    IF FreeBlocks(d) = {} THEN [d EXCEPT !.panic = TRUE]
    ELSE LET b == Min(FreeBlocks(d)) IN
         [d EXCEPT !.used = @ \cup {b}, !.data[b] = Zeros, !.ind[b] = NoIndirect,
                   !.log = @ \cup {Bitmap(b), Data(b)}]
AllocatedBlock(d) == Min(FreeBlocks(d))

bfree(d, b) ==
    IF b \notin d.used THEN [d EXCEPT !.panic = TRUE]
    ELSE [d EXCEPT !.used = @ \ {b}, !.log = @ \cup {Bitmap(b)}]

\* bmap: the disk with block bn of inode i present, and its number.
WithIndirect(d, i) ==
    IF d.addrs[i][NDIRECT] # 0 THEN d ELSE [balloc(d) EXCEPT !.addrs[i][NDIRECT] = AllocatedBlock(d)]
bmap(d, i, bn) ==
    IF bn < NDIRECT
    THEN IF d.addrs[i][bn] # 0 THEN d ELSE [balloc(d) EXCEPT !.addrs[i][bn] = AllocatedBlock(d)]
    ELSE LET e == WithIndirect(d, i)
             a == e.addrs[i][NDIRECT] IN
         IF e.ind[a][bn - NDIRECT] # 0 THEN e
         ELSE [balloc(e) EXCEPT !.ind[a][bn - NDIRECT] = AllocatedBlock(e), !.log = @ \cup {Data(a)}]
Addr(d, i, bn) == IF bn < NDIRECT THEN d.addrs[i][bn] ELSE d.ind[d.addrs[i][NDIRECT]][bn - NDIRECT]

\* itrunc: the direct blocks, the blocks of the indirect block, and itself.
FreeAll(d, s) ==
    LET after[k \in 0..Len(s)] == IF k = 0 THEN d ELSE IF s[k] = 0 THEN after[k-1] ELSE bfree(after[k-1], s[k])
    IN  after[Len(s)]
Indirect(d, i) == LET a == d.addrs[i][NDIRECT] IN
    IF a = 0 THEN <<>> ELSE [k \in 1..NINDIRECT |-> d.ind[a][k - 1]] \o <<a>>
itrunc(d, i) ==
    [FreeAll(d, [k \in 1..NDIRECT |-> d.addrs[i][k - 1]] \o Indirect(d, i))
        EXCEPT !.addrs[i] = NoAddrs, !.size[i] = 0, !.log = @ \cup {Inodes}]

-----------------------------------------------------------------------------
(* readi and writei. *)

\* Byte o of inode i, through the block map.
ByteAt(d, i, o) == d.data[Addr(d, i, o \div BSIZE)][o % BSIZE]

\* writei of n bytes of value v at offset o, block by block.
Touched(o, n) == (o \div BSIZE)..((o + n - 1) \div BSIZE)
Merged_whole(old, bn, o, n, v) == [k \in 0..BSIZE-1 |-> v]
Merged(old, bn, o, n, v) == [k \in 0..BSIZE-1 |-> IF bn * BSIZE + k \in o..o+n-1 THEN v ELSE old[k]]
StoredBlock(d, i, o, n, v, bn) ==
    LET e == bmap(d, i, bn)
        a == Addr(e, i, bn)
    IN  [e EXCEPT !.data[a] = Merged(@, bn, o, n, v),
                  !.log = @ \cup {Data(a)}]
WriteOk(d, i, o, n) == o <= d.size[i] /\ o + n <= MAXFILE * BSIZE
writei(d, i, o, n, v) ==
    LET first == o \div BSIZE
        after[k \in 0..Cardinality(Touched(o, n))] ==
            IF k = 0 THEN d ELSE StoredBlock(after[k - 1], i, o, n, v, first + k - 1)
        e == after[Cardinality(Touched(o, n))]
    IN  IF o + n > d.size[i] THEN [e EXCEPT !.size[i] = o + n, !.log = @ \cup {Inodes}] ELSE e

\* filewrite: the most one transaction may write.
MaxChunk_slop == ((MAXOPBLOCKS - 1 - 1) \div 2) * BSIZE
MaxChunk == ((MAXOPBLOCKS - 1 - 1 - 2) \div 2) * BSIZE

Overwritten(s, o, n, v) == [k \in 1..Max({Len(s), o + n}) |-> IF k \in o+1..o+n THEN v ELSE s[k]]

write(w, i, n) ==
    /\ wr[w] = NoWrite /\ iocalls < MaxIoCalls
    /\ wr' = [wr EXCEPT ![w] = [ino |-> i, left |-> n]] /\ iocalls' = iocalls + 1
    /\ UNCHANGED <<dsk, off, bytes, logged>>

\* The offset a transaction writes at: read while the inode is locked.
Offset(i) == off[i]

\* One transaction.  When writei refuses, the call ends and returns -1.
filewrite(w) ==
    LET i == wr[w].ino
        n == Min({wr[w].left, MaxChunk})
        d == writei([dsk EXCEPT !.log = {}], i, Offset(i), n, w)
    IN  /\ wr[w] # NoWrite
        /\ IF WriteOk(dsk, i, Offset(i), n)
           THEN /\ dsk' = d /\ logged' = d.log
                /\ off' = [off EXCEPT ![i] = @ + n]
                /\ bytes' = [bytes EXCEPT ![i] = Overwritten(@, off[i], n, w)]
                /\ wr' = [wr EXCEPT ![w] = IF @.left = n THEN NoWrite ELSE [@ EXCEPT !.left = @ - n]]
           ELSE /\ wr' = [wr EXCEPT ![w] = NoWrite] /\ UNCHANGED <<dsk, logged, off, bytes>>
        /\ UNCHANGED iocalls

\* fileread moves the offset, not past the end of the file.
fileread(i, n) ==
    /\ off[i] < dsk.size[i] /\ off' = [off EXCEPT ![i] = Min({dsk.size[i], @ + n})]
    /\ UNCHANGED <<dsk, bytes, wr, logged, iocalls>>

\* A file is opened again: the offset is 0.
reopen(i) ==
    /\ off[i] # 0 /\ \A w \in Writer : wr[w].ino # i
    /\ off' = [off EXCEPT ![i] = 0] /\ UNCHANGED <<dsk, bytes, wr, logged, iocalls>>

\* The last link and the last reference go: iput truncates the inode.
iput_truncates(i) ==
    LET d == itrunc([dsk EXCEPT !.log = {}], i) IN
    /\ iocalls < MaxIoCalls /\ iocalls' = iocalls + 1 /\ \A w \in Writer : wr[w].ino # i
    /\ dsk' = d /\ logged' = d.log /\ bytes' = [bytes EXCEPT ![i] = <<>>]
    /\ off' = [off EXCEPT ![i] = 0] /\ UNCHANGED wr

BlkNext ==
    \/ \E w \in Writer : filewrite(w) \/ \E i \in Ino, n \in Counts : write(w, i, n)
    \/ \E i \in Ino : reopen(i) \/ iput_truncates(i) \/ \E n \in Counts : fileread(i, n)

BlkSpec == BlkInit /\ [][BlkNext]_blkVars

-----------------------------------------------------------------------------
BlkTypeOK ==
    /\ dsk.used \subseteq DataBlock /\ dsk.size \in [Ino -> 0..MAXFILE*BSIZE]
    /\ \A i \in Ino : dsk.addrs[i] \in [0..NDIRECT -> DataBlock \cup {0}] /\ off[i] \in 0..MAXFILE*BSIZE
    /\ iocalls \in 0..MaxIoCalls

\* readi returns, at every offset, the byte written there last: the blocks,
\* direct or indirect, hold exactly the file, whoever wrote in between.
FileIsBytes == \A i \in Ino :
    /\ dsk.size[i] = Len(bytes[i])
    /\ \A o \in 0..dsk.size[i]-1 : ByteAt(dsk, i, o) = bytes[i][o + 1]

\* The blocks of inode i, and the ones the bitmap marks: no block is lost,
\* none is in two places, and balloc and bfree never panic.
BlockUses(b) ==
    Cardinality({x \in Ino \X (0..NDIRECT) : dsk.addrs[x[1]][x[2]] = b})
    + Cardinality({x \in Ino \X (0..NINDIRECT-1) :
                    /\ dsk.addrs[x[1]][NDIRECT] # 0
                    /\ dsk.ind[dsk.addrs[x[1]][NDIRECT]][x[2]] = b})
BitmapExact == ~dsk.panic /\ \A b \in DataBlock : BlockUses(b) = IF b \in dsk.used THEN 1 ELSE 0

\* No transaction of filewrite or of the last iput writes more blocks than
\* begin_op reserved for it, also when every block it allocates is in another
\* bitmap block and the write is not aligned.
OpFits == Cardinality(logged) <= MAXOPBLOCKS
=============================================================================

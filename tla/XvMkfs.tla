------------------------------- MODULE XvMkfs -------------------------------
(***************************************************************************)
(* mkfs.c: the tool that builds xv6's disk image from files of the host.   *)
(*                                                                         *)
(* A block is a sequence of cells.  A cell is a byte of a file, an entry   *)
(* of the directory (mkfs asserts that entries do not straddle blocks) or, *)
(* in an indirect block, a block number.                                   *)
(***************************************************************************)
EXTENDS Integers, Sequences, FiniteSets

CONSTANTS FSSIZE,     \* blocks of the disk
          NMETA,      \* boot, super, log, inode and bitmap blocks
          MBSIZE, MDIRECT, MINDIRECT,
          Sizes,      \* bytes the host's files may have
          MaxFiles    \* files on the command line

ASSUME MkfsConstants == /\ {FSSIZE, NMETA, MBSIZE, MDIRECT, MINDIRECT} \subseteq Nat \ {0}
                        /\ MINDIRECT <= MBSIZE /\ Sizes \subseteq Nat /\ MaxFiles \in Nat

ROOTINO == 1
MMAXFILE == MDIRECT + MINDIRECT
Inums == 1..(MaxFiles + 1)

VARIABLES host,       \* the sizes of the files named on the command line
          img,       \* din: inodes, blk: blocks, freeblock
          done,       \* files begun; the current one is inode done + 1
          rd,         \* bytes read of it, -1 when it is finished
          bitmap,     \* blocks marked in use
          end         \* "" while it runs, "ok", "assert", "read"

mkfsVars == <<host, img, done, rd, bitmap, end>>

(* The i-th byte of file f, and a directory entry for an inode.            *)
ByteOf(f, i) == 100 * f + i
dirent(inum) == inum

----------------------------------------------------------------------------
(* The block of the file's block fbn, allocated if it has none: the disk   *)
(* after, and the block.                                                   *)
Direct(d, inum, fbn) ==
    IF d.din[inum].addrs[fbn] # 0 THEN d
    ELSE [d EXCEPT !.din[inum].addrs[fbn] = d.freeblock, !.freeblock = @ + 1]

(* Mutant: the indirect block is not written back.                         *)
Entry_lost(d, ind, e) == [d EXCEPT !.freeblock = @ + 1]
Entry(d, ind, e) == [d EXCEPT !.blk[ind][e] = d.freeblock, !.freeblock = @ + 1]
IndirectBlock(d, inum, e) ==
    LET ind == d.din[inum].addrs[MDIRECT]
    IN  IF d.blk[ind][e] # 0 THEN d ELSE Entry(d, ind, e)

Failed(d, why) == [d EXCEPT !.err = why]

(* iappend's loop: n cells of data, block by block.  rsect fails on a      *)
(* block past the end of the image.                                        *)
RECURSIVE Append_(_, _, _, _)
Append_(d, inum, off, data) ==
    LET fbn == off \div MBSIZE
        direct == fbn < MDIRECT
        d1 == Direct(d, inum, IF direct THEN fbn ELSE MDIRECT)
        ind == d1.din[inum].addrs[MDIRECT]
        d2 == IF direct THEN d1 ELSE IndirectBlock(d1, inum, fbn - MDIRECT)
        x == IF direct THEN d2.din[inum].addrs[fbn] ELSE d2.blk[ind][fbn - MDIRECT]
        room == (fbn + 1) * MBSIZE - off
        n1 == IF Len(data) < room THEN Len(data) ELSE room
        at == off - fbn * MBSIZE
        d3 == [d2 EXCEPT !.blk[x] = [c \in DOMAIN @ |-> IF c >= at /\ c < at + n1
                                                        THEN data[c - at + 1] ELSE @[c]]]
    IN  IF data = <<>> THEN [d EXCEPT !.din[inum].size = off]
        ELSE IF fbn >= MMAXFILE THEN Failed(d, "assert")
        ELSE IF ~direct /\ ind >= FSSIZE THEN Failed(d1, "read")
        ELSE IF x >= FSSIZE THEN Failed(d2, "read")
        ELSE Append_(d3, inum, off + n1, SubSeq(data, n1 + 1, Len(data)))
iappend(d, inum, data) == Append_(d, inum, d.din[inum].size, data)

NoInode == [type |-> "none", size |-> 0, addrs |-> [i \in 0..MDIRECT |-> 0]]
ialloc(d, inum, type) == [d EXCEPT !.din[inum] = [NoInode EXCEPT !.type = type]]

----------------------------------------------------------------------------
Blank == [din |-> [i \in Inums |-> NoInode],
          blk |-> [b \in 0..(FSSIZE - 1) |-> [c \in 0..(MBSIZE - 1) |-> 0]],
          freeblock |-> NMETA, err |-> ""]

(* The image blank but for the root directory with its two entries.        *)
MkfsInit ==
    /\ \E n \in 0..MaxFiles : host \in [1..n -> Sizes]
    /\ img = iappend(iappend(ialloc(Blank, ROOTINO, "dir"), ROOTINO, <<dirent(ROOTINO)>>),
                      ROOTINO, <<dirent(ROOTINO)>>)
    /\ done = 0 /\ rd = -1 /\ bitmap = {} /\ end = ""

Now(d) == img' = d /\ end' = d.err

addfile == /\ end = "" /\ rd = -1 /\ done < Len(host)
           /\ Now(iappend(ialloc(img, done + 2, "file"), ROOTINO, <<dirent(done + 2)>>))
           /\ done' = done + 1 /\ rd' = 0
           /\ UNCHANGED <<host, bitmap>>

(* A read of the host's file, which may be short.                          *)
copy(cc) == /\ end = "" /\ rd # -1 /\ rd + cc <= host[done]
            /\ Now(iappend(img, done + 1, [i \in 1..cc |-> ByteOf(done, rd + i)]))
            /\ rd' = rd + cc
            /\ UNCHANGED <<host, done, bitmap>>
endfile == /\ end = "" /\ rd # -1 /\ rd = host[done] /\ rd' = -1
           /\ UNCHANGED <<host, img, done, bitmap, end>>

(* The root directory's size rounded up, and the bitmap.                   *)
mkfs_balloc(used) == bitmap' = 0..(used - 1)
finish == /\ end = "" /\ rd = -1 /\ done = Len(host)
          /\ img' = [img EXCEPT !.din[ROOTINO].size = ((@ \div MBSIZE) + 1) * MBSIZE]
          /\ mkfs_balloc(img.freeblock)
          /\ end' = "ok"
          /\ UNCHANGED <<host, done, rd>>

MkfsNext == addfile \/ (\E cc \in 1..MBSIZE : copy(cc)) \/ endfile \/ finish
MkfsSpec == MkfsInit /\ [][MkfsNext]_mkfsVars
MkfsTypeOK == end \in {"", "ok", "assert", "read"} /\ img.freeblock \in NMETA..(FSSIZE + 2)

----------------------------------------------------------------------------
(* The image as the kernel reads it (fs.c bmap): 0 for a hole.             *)
BlockOf(i, fbn) == LET a == img.din[i].addrs
                IN  IF fbn < MDIRECT THEN a[fbn]
                    ELSE IF a[MDIRECT] = 0 THEN 0 ELSE img.blk[a[MDIRECT]][fbn - MDIRECT]
Cell(i, off) == img.blk[BlockOf(i, off \div MBSIZE)][off % MBSIZE]
Places == {<<i, fbn>> \in Inums \X (0..(MMAXFILE - 1)) : BlockOf(i, fbn) # 0}
Indirects == {i \in Inums : img.din[i].addrs[MDIRECT] # 0}
UsedBlocks == {BlockOf(p[1], p[2]) : p \in Places} \cup {img.din[i].addrs[MDIRECT] : i \in Indirects}

(* A finished image is a sound file system for the kernel: each file reads *)
(* back as the host's, the directory lists them in order, no block belongs *)
(* to two places, the bitmap has what is used and nothing else, and none   *)
(* is past the end.  The directory has blocks for the size it was rounded  *)
(* to (mkfs.c "fix size of root inode dir"), unless its entries fill their *)
(* last block: then the size goes one block further.                       *)
ImageSound ==
    end = "ok" =>
        /\ \A f \in 1..Len(host) :
              /\ img.din[f + 1].size = host[f]
              /\ \A k \in 1..host[f] : Cell(f + 1, k - 1) = ByteOf(f, k)
              /\ Cell(ROOTINO, f + 1) = dirent(f + 1)
        /\ Cardinality(UsedBlocks) = Cardinality(Places) + Cardinality(Indirects)
        /\ bitmap = (0..(NMETA - 1)) \cup UsedBlocks
        /\ bitmap \subseteq 0..(FSSIZE - 1)
        /\ (Len(host) + 2) % MBSIZE # 0 =>
              \A fbn \in 0..((img.din[ROOTINO].size \div MBSIZE) - 1) : BlockOf(ROOTINO, fbn) # 0
=============================================================================

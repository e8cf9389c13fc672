----------------------------- MODULE JosFormat ------------------------------
(***************************************************************************)
(* fs/fsformat.c: the tool that builds the disk image of the JOS file      *)
(* server from files of the host.  Blocks are given out in order and never *)
(* taken back.  A block is a sequence of cells, as in XvMkfs.              *)
(***************************************************************************)
EXTENDS Integers, Sequences, FiniteSets

CONSTANTS JBLOCKS,    \* blocks of the disk
          JRESERVED,  \* boot block, super block and bitmap
          JBLKSIZE, JDIRECT, JINDIRECT,
          JSizes, JMaxFiles

ASSUME FormatConstants ==
    /\ {JBLOCKS, JRESERVED, JBLKSIZE, JDIRECT, JINDIRECT} \subseteq Nat \ {0}
    /\ JINDIRECT <= JBLKSIZE /\ JSizes \subseteq Nat /\ JMaxFiles \in Nat

VARIABLES given,      \* the sizes of the files on the command line
          dir,        \* the entries of the root directory, the files in order
          rootfile,       \* the file that is the root directory, in the super block
          diskmap,    \* the blocks
          diskpos,    \* the next to be given out
          freemap,    \* the blocks the bitmap marks free
          formatted   \* "" while it runs, "ok" or "panic"

formatVars == <<given, dir, rootfile, diskmap, diskpos, freemap, formatted>>

Octet(f, i) == 100 * f + i
NoDirent == [size |-> 0, direct |-> [i \in 0..(JDIRECT - 1) |-> 0], indirect |-> 0]

FormatInit ==
    /\ \E n \in 0..JMaxFiles : given \in [1..n -> JSizes]
    /\ dir = <<>> /\ rootfile = NoDirent
    /\ diskmap = [b \in 0..(JBLOCKS - 1) |-> [c \in 0..(JBLKSIZE - 1) |-> 0]]
    /\ diskpos = JRESERVED
    /\ freemap = 0..(JBLOCKS - 1) /\ formatted = ""

----------------------------------------------------------------------------
(* ROUNDUP: of an unsigned number, and of an int, where 0 gives a block    *)
(* because -1 % v is -1.                                                   *)
ROUNDUP(n) == ((n + JBLKSIZE - 1) \div JBLKSIZE) * JBLKSIZE
ROUNDUP_int(n) == IF n = 0 THEN JBLKSIZE ELSE ROUNDUP(n)

alloc(pos, bytes) == pos + ROUNDUP(bytes) \div JBLKSIZE
OutOfBlocks(pos) == pos >= JBLOCKS

Stored(m, start, data) ==
    [b \in DOMAIN m |->
        [c \in DOMAIN m[b] |->
            LET i == (b - start) * JBLKSIZE + c + 1
            IN  IF b >= start /\ i \in DOMAIN data THEN data[i] ELSE m[b][c]]]

(* The loop's count can never pass NDIRECT.                                *)
NeedsIndirect(i) == i = JDIRECT
(* finishfile: the file of len bytes at start, with the image after it.    *)
format_finishfile(im, start, len) ==
    LET n == ROUNDUP(len) \div JBLKSIZE
        i == IF n < JDIRECT THEN n ELSE JDIRECT
        f == [NoDirent EXCEPT !.size = len,
                              !.direct = [k \in DOMAIN @ |-> IF k < i THEN start + k ELSE 0]]
        rest == [k \in 1..(n - i) |-> start + i + k - 1]
    IN  IF NeedsIndirect(i)
        THEN [f |-> [f EXCEPT !.indirect = im.pos],
              m |-> IF OutOfBlocks(im.pos + 1) THEN im.m ELSE Stored(im.m, im.pos, rest),
              pos |-> alloc(im.pos, JBLKSIZE)]
        ELSE [f |-> f, m |-> im.m, pos |-> im.pos]

(* A file or directory of the data given: alloc, the copy, finishfile.     *)
Laid(data, len) ==
    LET after == alloc(diskpos, Len(data))
    IN  IF OutOfBlocks(after) THEN [f |-> NoDirent, m |-> diskmap, pos |-> after]
        ELSE format_finishfile([m |-> Stored(diskmap, diskpos, data), pos |-> after], diskpos, len)
Became(r) == /\ diskmap' = r.m /\ diskpos' = r.pos
             /\ formatted' = IF OutOfBlocks(r.pos) THEN "panic" ELSE formatted

JMAXFILESIZE == (JDIRECT + JINDIRECT) * JBLKSIZE

writefile ==
    LET f == Len(dir) + 1
        r == Laid([i \in 1..given[f] |-> Octet(f, i)], given[f])
    IN  /\ formatted = "" /\ Len(dir) < Len(given) /\ rootfile.size = 0
        /\ IF given[f] >= JMAXFILESIZE
           THEN formatted' = "panic" /\ UNCHANGED <<dir, diskmap, diskpos>>
           ELSE Became(r) /\ dir' = Append(dir, r.f)
        /\ UNCHANGED <<given, rootfile, freemap>>

(* The directory's blocks hold its entries; its size is whole blocks.      *)
finishdir ==
    LET r == Laid([f \in 1..Len(dir) |-> f], ROUNDUP_int(Len(dir)))
    IN  /\ formatted = "" /\ Len(dir) = Len(given) /\ rootfile.size = 0
        /\ Became(r) /\ rootfile' = r.f
        /\ UNCHANGED <<given, dir, freemap>>

finishdisk == /\ formatted = "" /\ rootfile.size # 0
              /\ freemap' = freemap \ (0..(diskpos - 1))
              /\ formatted' = "ok"
              /\ UNCHANGED <<given, dir, rootfile, diskmap, diskpos>>

FormatNext == writefile \/ finishdir \/ finishdisk
FormatSpec == FormatInit /\ [][FormatNext]_formatVars
FormatTypeOK == formatted \in {"", "ok", "panic"} /\ diskpos \in Nat /\ Len(dir) <= Len(given)

----------------------------------------------------------------------------
(* The image as the server reads it (fs.c file_block_walk).                *)
WalkTo(f, n) == IF n < JDIRECT THEN f.direct[n] ELSE diskmap[f.indirect][n - JDIRECT]
BlocksOf(f) == {WalkTo(f, n) : n \in 0..((ROUNDUP(f.size) \div JBLKSIZE) - 1)}
               \cup ({f.indirect} \ {0})
Everything == {rootfile} \cup {dir[f] : f \in 1..Len(dir)}

(* A finished image of at least one file is sound for the server: each     *)
(* file reads back as the host's through the block walk, the directory has *)
(* its entries, no block is in two files, and the bitmap marks in use      *)
(* exactly the blocks given out, so that the server's first allocation     *)
(* damages nothing.                                                        *)
FormatSound ==
    formatted = "ok" /\ given # <<>> =>
        /\ \A f \in 1..Len(given) :
              /\ dir[f].size = given[f]
              /\ \A k \in 0..(given[f] - 1) :
                    diskmap[WalkTo(dir[f], k \div JBLKSIZE)][k % JBLKSIZE] = Octet(f, k + 1)
              /\ diskmap[WalkTo(rootfile, (f - 1) \div JBLKSIZE)][(f - 1) % JBLKSIZE] = f
        /\ \A f, g \in 0..Len(given) : f < g =>
              BlocksOf(IF f = 0 THEN rootfile ELSE dir[f]) \cap BlocksOf(dir[g]) = {}
        /\ (0..(JBLOCKS - 1)) \ freemap
           = (0..(JRESERVED - 1)) \cup UNION {BlocksOf(f) : f \in Everything}
=============================================================================

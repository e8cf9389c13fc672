------------------------------- MODULE PcLoad -------------------------------
(***************************************************************************)
(* The boot loaders: bootmain of xv6 (bootmain.c) and of JOS (boot/main.c  *)
(* of labs 1 and 5, and of lab 6) read the segments of an ELF kernel from  *)
(* the disk, a sector at a time, to the memory it runs in.  The loaders of *)
(* labs 1 and 5 leave the bss to the kernel's first statement.             *)
(***************************************************************************)
EXTENDS Integers, Sequences

CONSTANTS SECTSIZE,
          FILE,       \* bytes of the kernel image
          MEM,        \* bytes of memory
          MAXSEG      \* segments of an image

ASSUME LoadConstants == {SECTSIZE, FILE, MEM, MAXSEG} \subseteq Nat \ {0}

VARIABLES loader,     \* "xv6", "lab1" (and 5) or "lab6"
          image,      \* the segments of the program headers
          mem,        \* memory: bytes of the file are 1..FILE, what was there is -1
          ph          \* segments loaded; one more when the kernel runs

loadVars == <<loader, image, mem, ph>>

Segment == [pa : 0..(MEM - 1), off : 0..(FILE - 1), filesz : 0..FILE, memsz : 0..MEM]

(* What a link of the kernel produces: segments on page boundaries of      *)
(* memory and file (here, of sectors), apart and in increasing order.      *)
LinkedAt(s) ==
    /\ \A i \in DOMAIN s : /\ s[i].pa % SECTSIZE = 0 /\ s[i].off % SECTSIZE = 0
                           /\ s[i].filesz <= s[i].memsz /\ s[i].off + s[i].filesz <= FILE
                           /\ s[i].pa + s[i].memsz <= MEM
    /\ \A i \in 1..(Len(s) - 1) : s[i].pa + s[i].memsz <= s[i + 1].pa

LoadInit == /\ loader \in {"xv6", "lab1", "lab6"}
            /\ \E n \in 1..MAXSEG : \E s \in [1..n -> {g \in Segment : LinkedAt(<<g>>)}] :
                  LinkedAt(s) /\ image = s
            /\ mem = [a \in 0..(MEM - 1) |-> -1]
            /\ ph = 0

(* The bytes of the file the memory [pa, end) is given, whole sectors from *)
(* off's on; past the end of the file the disk has something else, -2.     *)
FileData(i) == IF i < FILE THEN i + 1 ELSE -2
Filled(m, pa, end, off) ==
    LET sectors == (end - pa + SECTSIZE - 1) \div SECTSIZE
        last == pa + sectors * SECTSIZE
    IN  [a \in DOMAIN m |-> IF a >= pa /\ a < last
                            THEN FileData((off \div SECTSIZE) * SECTSIZE + a - pa) ELSE m[a]]

(* Round down to a sector: xv6 by the offset, JOS by the address.          *)
readseg(m, pa, count, off) == Filled(m, pa - (off % SECTSIZE), pa + count, off)
readseg_jos(m, pa, count, off) == Filled(m, (pa \div SECTSIZE) * SECTSIZE, pa + count, off)

(* stosb over the bss: from is in, to is out.                              *)
Zeroed(m, from, to) == [a \in DOMAIN m |-> IF a >= from /\ a < to THEN 0 ELSE m[a]]

bootmain(m, g) == Zeroed(readseg(m, g.pa, g.filesz, g.off), g.pa + g.filesz, g.pa + g.memsz)
bootmain_lab1(m, g) == readseg_jos(m, g.pa, g.memsz, g.off)
bootmain_lab6(m, g) == Zeroed(readseg_jos(m, g.pa, g.memsz, g.off),
                              g.pa + g.filesz, g.pa + g.memsz)

load ==
    /\ ph < Len(image)
    /\ mem' = CASE loader = "xv6" -> bootmain(mem, image[ph + 1])
                [] loader = "lab1" -> bootmain_lab1(mem, image[ph + 1])
                [] loader = "lab6" -> bootmain_lab6(mem, image[ph + 1])
    /\ ph' = ph + 1
    /\ UNCHANGED <<loader, image>>

(* The kernel's first step; in lab 1 it clears from edata, where the data  *)
(* of the last segment ends, to end.                                       *)
i386_init ==
    /\ ph = Len(image)
    /\ LET g == image[Len(image)]
       IN  mem' = IF loader = "lab1" THEN Zeroed(mem, g.pa + g.filesz, g.pa + g.memsz) ELSE mem
    /\ ph' = ph + 1
    /\ UNCHANGED <<loader, image>>

LoadNext == load \/ i386_init
LoadSpec == LoadInit /\ [][LoadNext]_loadVars
LoadTypeOK == ph \in 0..(MAXSEG + 1)

(* The kernel starts with every byte of its segments in place and its bss  *)
(* zero, although each read brings whole sectors and so writes memory that *)
(* belongs to no segment, or to another (bootmain.c: "We'd write more to   *)
(* memory than asked, but it doesn't matter -- we load in increasing       *)
(* order").  The loaders of labs 1 and 5 need the bss in the last segment. *)
LoadedRight ==
    ph > Len(image) =>
        \A i \in DOMAIN image : \A k \in 0..(image[i].memsz - 1) :
            LET g == image[i]
            IN  \/ loader = "lab1" /\ i < Len(image) /\ k >= g.filesz
                \/ mem[g.pa + k] = IF k < g.filesz THEN g.off + k + 1 ELSE 0
=============================================================================

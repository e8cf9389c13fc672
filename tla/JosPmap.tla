------------------------------- MODULE JosPmap --------------------------------
(***************************************************************************)
(* mem_init of JOS (kern/pmap.c of oslab6 and of lab5): boot_alloc,        *)
(* page_init, the kernel's own checks check_page_free_list,                *)
(* check_page_alloc, check_page, check_kern_pgdir and                      *)
(* check_page_installed_pgdir with every assertion                         *)
(* in them, and the mappings above UTOP.  mem_init is a script; each of    *)
(* its instructions is an action.  Sizes are in pages, and differ from     *)
(* machine to machine.                                                     *)
(***************************************************************************)
EXTENDS JosPages, FiniteSets, FiniteSetsExt

CONSTANTS Layouts,   \* lab, npages, end of the kernel, pages of the two arrays
          NKSTACK,
          MAPPED         \* pages that entry_pgdir maps: the first 4MB

IOPHYSMEM == 4
EXTPHYSMEM == 5
MPENTRY == 2
UENVS == 2 * NPT      \* one page directory entry each, in this order
UPAGES == 3 * NPT
UVPT == 4 * NPT
MMIOBASE == 5 * NPT
MMIOLIM == 6 * NPT
KSTACKTOP == 7 * NPT
KERNBASE == 7 * NPT
KSTKSIZE == 1
KSTKGAP == 1
LASTPAGE == NPD * NPT
Stack(i) == 100 + i    \* percpu_kstacks[i], inside the kernel's image
kern == CHOOSE d \in Dirs : TRUE
Reg == {"pp", "pp0", "pp1", "pp2"}

VARIABLES
    layout,       \* the machine
    m,          \* memory
    nextfree,   \* boot_alloc
    mmiobase,   \* mmio_map_region
    pp, fl, nfree,    \* variables of the check functions
    placed,         \* physical pages of kern_pgdir, pages, envs
    low,        \* still on entry_pgdir
    ip,         \* the instruction that is next
    failed      \* an assertion failed, or memory not mapped was touched

pmapVars == <<layout, m, nextfree, mmiobase, pp, fl, nfree, placed, low, ip, failed>>

-----------------------------------------------------------------------------
(* The scripts. *)

check_page_alloc == <<
    <<"count">>,
    <<"alloc", "pp0">>, <<"alloc", "pp1">>, <<"alloc", "pp2">>, <<"distinct">>,
    <<"steal">>, <<"full">>,
    <<"free", "pp0">>, <<"free", "pp1">>, <<"free", "pp2">>,
    <<"alloc", "pp0">>, <<"alloc", "pp1">>, <<"alloc", "pp2">>, <<"distinct">>, <<"full">>,
    <<"fill", "pp0", 1>>, <<"free", "pp0">>, <<"zalloc", "pp">>, <<"same", "pp", "pp0">>, <<"holds", "pp", 0>>,
    <<"giveback">>, <<"free", "pp0">>, <<"free", "pp1">>, <<"free", "pp2">>,
    <<"recount">> >>

lab5_check_page == <<
    <<"alloc", "pp0">>, <<"alloc", "pp1">>, <<"alloc", "pp2">>, <<"distinct">>,
    <<"steal">>, <<"full">>, <<"va", 0, "none">>,
    <<"insert", "pp1", 0, {"W"}, FALSE>>,                       \* no page for a table
    <<"free", "pp0">>, <<"insert", "pp1", 0, {"W"}, TRUE>>,
    <<"table", 0, "pp0">>, <<"va", 0, "pp1">>, <<"ref", "pp1", 1>>, <<"ref", "pp0", 1>>,
    <<"insert", "pp2", 1, {"W"}, TRUE>>, <<"va", 1, "pp2">>, <<"ref", "pp2", 1>>, <<"full">>,
    <<"insert", "pp2", 1, {"W"}, TRUE>>, <<"va", 1, "pp2">>, <<"ref", "pp2", 1>>, <<"full">>,
    <<"insert", "pp2", 1, {"W", "U"}, TRUE>>, <<"va", 1, "pp2">>, <<"ref", "pp2", 1>>,
    <<"perm", 1, {"U"}, {}>>, <<"dirperm", 0, {"U"}>>,
    <<"insert", "pp2", 1, {"W"}, TRUE>>, <<"perm", 1, {"W"}, {"U"}>>,
    <<"insert", "pp0", NPT, {"W"}, FALSE>>,
    <<"insert", "pp1", 1, {"W"}, TRUE>>, <<"perm", 1, {}, {"U"}>>,
    <<"va", 0, "pp1">>, <<"va", 1, "pp1">>, <<"ref", "pp1", 2>>, <<"ref", "pp2", 0>>,
    <<"alloc", "pp">>, <<"same", "pp", "pp2">>,
    <<"remove", 0>>, <<"va", 0, "none">>, <<"va", 1, "pp1">>, <<"ref", "pp1", 1>>, <<"ref", "pp2", 0>>,
    <<"insert", "pp1", 1, {}, TRUE>>, <<"ref", "pp1", 1>>,
    <<"remove", 1>>, <<"va", 0, "none">>, <<"va", 1, "none">>, <<"ref", "pp1", 0>>, <<"ref", "pp2", 0>>,
    <<"alloc", "pp">>, <<"same", "pp", "pp1">>, <<"full">>,
    <<"table", 0, "pp0">>, <<"ref", "pp0", 1>>, <<"untable", 0, "pp0">>,
    <<"free", "pp0">>, <<"walk", NPT + 1>>, <<"table", 1, "pp0">>, <<"untable", 1, "pp0">>,
    <<"fill", "pp0", 255>>, <<"free", "pp0">>, <<"walk", 0>>, <<"clear", "pp0">>, <<"untable", 0, "pp0">>,
    <<"giveback">>, <<"free", "pp0">>, <<"free", "pp1">>, <<"free", "pp2">> >>

\* oslab6 tests the device region too.
check_page == lab5_check_page \o << <<"mmio", 0, 2>>, <<"mmio", 0, 1>>, <<"mmiochecked">> >>

check_page_installed_pgdir == <<
    <<"alloc", "pp0">>, <<"alloc", "pp1">>, <<"alloc", "pp2">>, <<"free", "pp0">>,
    <<"fill", "pp1", 1>>, <<"fill", "pp2", 2>>,
    <<"insert", "pp1", 1, {"W"}, TRUE>>, <<"ref", "pp1", 1>>, <<"reads", 1, 1>>,
    <<"insert", "pp2", 1, {"W"}, TRUE>>, <<"reads", 1, 2>>, <<"ref", "pp2", 1>>, <<"ref", "pp1", 0>>,
    <<"store", 1, 3>>, <<"holds", "pp2", 3>>,
    <<"remove", 1>>, <<"ref", "pp2", 0>>,
    <<"table", 0, "pp0">>, <<"ref", "pp0", 1>>, <<"untable", 0, "pp0">>, <<"free", "pp0">> >>

mem_init_mp == [i \in 1..NKSTACK |->
    <<"map", KSTACKTOP - KSTKSIZE - (i - 1) * (KSTKSIZE + KSTKGAP), KSTKSIZE, Stack(i - 1), {"W"}>>]

mem_init ==
    << <<"boot", "kern_pgdir">>, <<"boot", "pages">>, <<"boot", "envs">>, <<"page_init">>, <<"freelist", TRUE>> >>
    \o check_page_alloc \o check_page
    \o << <<"array", UPAGES, NPT, "pages", {"U"}>>, <<"array", UENVS, NPT, "envs", {"U"}>>,
          <<"map", KSTACKTOP - KSTKSIZE, KSTKSIZE, Stack(0), {"W"}>>,
          <<"map", KERNBASE, LASTPAGE - KERNBASE, 0, {"W"}>> >>
    \o mem_init_mp \o << <<"kern_pgdir">>, <<"lcr3">>, <<"freelist", FALSE>> >>
    \o check_page_installed_pgdir

\* lab 5: no environments, one stack, no device memory.
lab5_mem_init ==
    << <<"boot", "kern_pgdir">>, <<"boot", "pages">>, <<"page_init">>, <<"freelist", TRUE>> >>
    \o check_page_alloc \o lab5_check_page
    \o << <<"array", UPAGES, NPT, "pages", {"U"}>>,
          <<"map", KSTACKTOP - KSTKSIZE, KSTKSIZE, Stack(0), {"W"}>>,
          <<"map", KERNBASE, LASTPAGE - KERNBASE, 0, {"W"}>>,
          <<"kern_pgdir">>, <<"lcr3">>, <<"freelist", FALSE>> >>
    \o check_page_installed_pgdir

script == IF layout.lab = 5 THEN lab5_mem_init ELSE mem_init

PmapInit ==
    /\ layout \in Layouts
    /\ m = Memory(<<>>) /\ nextfree = layout.end /\ mmiobase = MMIOBASE
    /\ pp = [r \in Reg |-> Null] /\ fl = <<>> /\ nfree = 0
    /\ placed = [a \in {"kern_pgdir", "pages", "envs"} |-> Null]
    /\ low = TRUE /\ ip = 1 /\ failed = FALSE

-----------------------------------------------------------------------------
(* The instructions. *)

Ins == script[ip]
Is(op) == ip <= Len(script) /\ ~failed /\ Ins[1] = op
Continue == ip' = ip + 1
Assert_(c) == failed' = (~c \/ m'.panic)
\* Memory the kernel touches: before lcr3 only what entry_pgdir maps.
entry_pgdir == 0..MAPPED-1
Reachable(f) == low => f \in entry_pgdir
OnlyM == UNCHANGED <<layout, nextfree, mmiobase, pp, fl, nfree, placed, low>>

\* Only lab 5 looks whether the machine has the memory.
lab5_boot_alloc(next) == next <= layout.npages
boot_alloc ==
    LET n == CASE Ins[2] = "kern_pgdir" -> 1 [] Ins[2] = "pages" -> layout.pages [] Ins[2] = "envs" -> layout.envs IN
    /\ Is("boot") /\ Continue
    /\ placed' = [placed EXCEPT ![Ins[2]] = nextfree] /\ nextfree' = nextfree + n
    /\ m' = IF Ins[2] = "kern_pgdir"
            THEN [m EXCEPT !.dir[kern][PDX(UVPT)] = [pg |-> nextfree, perm |-> {"U"}]] ELSE m
    /\ Assert_(/\ \A f \in nextfree..nextfree+n-1 : Reachable(f)
               /\ layout.lab = 5 => lab5_boot_alloc(nextfree + n))
    /\ UNCHANGED <<layout, mmiobase, pp, fl, nfree, low>>

\* page_init: the pages from the I/O hole to the end of what boot_alloc gave
\* out are in use, and so are page 0 and the code for the other processors.
InUse(i) == i \in {0, MPENTRY} \cup (IOPHYSMEM..nextfree-1)

\* lab 5 counts everything below nextfree after the hole, low memory twice.
lab5_InUse(i) == i = 0 \/ i \in IOPHYSMEM..(EXTPHYSMEM + nextfree - 1)
TakenPage(i) == IF layout.lab = 5 THEN lab5_InUse(i) ELSE InUse(i)
page_init ==
    LET all == [i \in 1..layout.npages |-> layout.npages - i] IN
    /\ Is("page_init") /\ Continue /\ OnlyM
    /\ m' = [m EXCEPT !.free = SelectSeq(all, LAMBDA i : ~TakenPage(i)),
                      !.ref = [f \in Phys |-> IF TakenPage(f) /\ f < layout.npages THEN 1 ELSE 0]]
    /\ Assert_(TRUE)

\* check_page_free_list: the pages entry_pgdir maps go to the front.
LowFirst(s) == SelectSeq(s, LAMBDA f : f < MAPPED) \o SelectSeq(s, LAMBDA f : f >= MAPPED)
lab5_check_page_free_list(s) ==
    /\ \A i \in 1..Len(s) : /\ s[i] < layout.npages
                            /\ s[i] \notin {0, IOPHYSMEM, EXTPHYSMEM - 1, EXTPHYSMEM}
                            /\ s[i] < EXTPHYSMEM \/ s[i] >= nextfree
    /\ \E i \in 1..Len(s) : s[i] < EXTPHYSMEM
    /\ \E i \in 1..Len(s) : s[i] >= EXTPHYSMEM
check_page_free_list ==
    LET s == IF Ins[2] THEN LowFirst(m.free) ELSE m.free IN
    /\ Is("freelist") /\ Continue /\ OnlyM
    /\ m' = [m EXCEPT !.free = s]
    /\ Assert_(/\ lab5_check_page_free_list(s)
               /\ layout.lab = 6 => \A i \in 1..Len(s) : s[i] # MPENTRY)

allocate ==
    /\ (Is("alloc") \/ Is("zalloc")) /\ Continue
    /\ m' = page_alloc(m, Ins[1] = "zalloc") /\ pp' = [pp EXCEPT ![Ins[2]] = Got(m)]
    /\ Assert_(Got(m) # Null /\ (Ins[1] = "zalloc" => Reachable(Got(m))))
    /\ UNCHANGED <<layout, nextfree, mmiobase, fl, nfree, placed, low>>

liberate == Is("free") /\ Continue /\ m' = page_free(m, pp[Ins[2]]) /\ Assert_(TRUE) /\ OnlyM

setlist ==
    /\ (Is("steal") \/ Is("giveback")) /\ Continue
    /\ fl' = IF Ins[1] = "steal" THEN m.free ELSE fl
    /\ m' = [m EXCEPT !.free = IF Ins[1] = "steal" THEN <<>> ELSE fl] /\ Assert_(TRUE)
    /\ UNCHANGED <<layout, nextfree, mmiobase, pp, nfree, placed, low>>

count ==
    /\ (Is("count") \/ Is("recount")) /\ Continue
    /\ nfree' = Len(m.free) /\ m' = m /\ Assert_(Ins[1] = "recount" => nfree = Len(m.free))
    /\ UNCHANGED <<layout, nextfree, mmiobase, pp, fl, placed, low>>

fill == /\ Is("fill") /\ Continue /\ OnlyM
        /\ m' = [m EXCEPT !.bytes[pp[Ins[2]]] = Ins[3],
                          !.tab[pp[Ins[2]]] = [i \in 0..NPT-1 |-> [pg |-> Ins[3], perm |-> {"W"}]]]
        /\ Assert_(Reachable(pp[Ins[2]]))

insert == /\ Is("insert") /\ Continue /\ OnlyM
          /\ m' = page_insert(m, kern, pp[Ins[2]], Ins[3], Ins[4])
          /\ Assert_(/\ Insertable(m, kern, Ins[3]) = Ins[5]
                     /\ HasTable(m', kern, Ins[3]) => Reachable(m'.dir[kern][PDX(Ins[3])].pg))

\* lab 5: page_lookup takes an empty entry of an existing table for page 0.
lab5_page_lookup(va) == IF ~HasTable(m, kern, va) THEN Null
                        ELSE IF Pte(m, kern, va).pg = Null THEN 0 ELSE Pte(m, kern, va).pg
lab5_page_remove(va) == IF lab5_page_lookup(va) = Null THEN m
                        ELSE SetPte(page_decref(m, lab5_page_lookup(va)), kern, va, NoPte)
remove == /\ Is("remove") /\ Continue /\ OnlyM
          /\ m' = IF layout.lab = 5 THEN lab5_page_remove(Ins[2]) ELSE page_remove(m, kern, Ins[2])
          /\ Assert_(TRUE)

walk == /\ Is("walk") /\ Continue /\ m' = pgdir_walk(m, kern, Ins[2]) /\ OnlyM
        /\ Assert_(HasTable(m', kern, Ins[2]))

untable == /\ Is("untable") /\ Continue /\ OnlyM
           /\ m' = [m EXCEPT !.dir[kern][Ins[2]] = NoPte, !.ref[pp[Ins[3]]] = 0]
           /\ Assert_(TRUE)

store == /\ Is("store") /\ Continue /\ OnlyM
         /\ m' = [m EXCEPT !.bytes[Pte(m, kern, Ins[2]).pg] = Ins[3]]
         /\ Assert_("W" \in Pte(m, kern, Ins[2]).perm)

check_va2pa(va) == Pte(m, kern, va).pg

\* The assertions that only look.
Looked ==
    CASE Ins[1] = "distinct" -> Cardinality({pp["pp0"], pp["pp1"], pp["pp2"]}) = 3
      [] Ins[1] = "full" -> m.free = <<>>
      [] Ins[1] = "same" -> pp[Ins[2]] = pp[Ins[3]]
      [] Ins[1] = "holds" -> m.bytes[pp[Ins[2]]] = Ins[3]
      [] Ins[1] = "va" -> check_va2pa(Ins[2]) = IF Ins[3] = "none" THEN Null ELSE pp[Ins[3]]
      [] Ins[1] = "ref" -> m.ref[pp[Ins[2]]] = Ins[3]
      [] Ins[1] = "table" -> m.dir[kern][Ins[2]].pg = pp[Ins[3]]
      [] Ins[1] = "dirperm" -> Ins[3] \subseteq m.dir[kern][Ins[2]].perm
      [] Ins[1] = "perm" -> /\ Ins[3] \subseteq Pte(m, kern, Ins[2]).perm
                            /\ Ins[4] \cap Pte(m, kern, Ins[2]).perm = {}
      [] Ins[1] = "clear" -> m.tab[pp[Ins[2]]] = EmptyTable
      [] Ins[1] = "reads" -> m.bytes[check_va2pa(Ins[2])] = Ins[3]
Looks == {"distinct", "full", "same", "holds", "va", "ref", "table", "dirperm", "perm", "clear", "reads"}
look == (\E op \in Looks : Is(op)) /\ Continue /\ m' = m /\ Assert_(Looked) /\ OnlyM

\* mmio_map_region; it panics when the region would reach MMIOLIM.
mmio_map_region ==
    /\ Is("mmio") /\ Continue
    /\ m' = IF mmiobase + Ins[3] >= MMIOLIM THEN [m EXCEPT !.panic = TRUE]
            ELSE boot_map_region(m, kern, mmiobase, Ins[3], Ins[2], {"W", "CD", "WT"})
    /\ mmiobase' = mmiobase + Ins[3] /\ Assert_(TRUE)
    /\ UNCHANGED <<layout, nextfree, pp, fl, nfree, placed, low>>
mmio_checked ==
    /\ Is("mmiochecked") /\ Continue /\ OnlyM
    /\ m' = SetPte(SetPte(SetPte(m, kern, MMIOBASE, NoPte), kern, MMIOBASE + 1, NoPte), kern, MMIOBASE + 2, NoPte)
    /\ Assert_(/\ [i \in 0..3 |-> check_va2pa(MMIOBASE + i)] = [i \in 0..3 |-> <<0, 1, 0, Null>>[i + 1]]
               /\ "U" \notin Pte(m, kern, MMIOBASE).perm)

map == /\ (Is("map") \/ Is("array")) /\ Continue /\ OnlyM
       /\ \E x \in {Ins} : \E pa \in {IF x[1] = "array" THEN placed[x[4]] ELSE x[4]} :
             m' = boot_map_region(m, kern, x[2], x[3], pa, x[5])
       /\ Assert_(\A i \in 0..NPD-1 : m'.dir[kern][i].pg # Null => Reachable(m'.dir[kern][i].pg))

check_kern_pgdir ==
    /\ Is("kern_pgdir") /\ layout.lab = 6 /\ Continue /\ m' = m /\ OnlyM
    /\ Assert_(/\ \A i \in 0..layout.pages-1 : check_va2pa(UPAGES + i) = placed["pages"] + i
               /\ \A i \in 0..layout.envs-1 : check_va2pa(UENVS + i) = placed["envs"] + i
               /\ \A i \in 0..layout.npages-1 : check_va2pa(KERNBASE + i) = i
               /\ \A n \in 0..NKSTACK-1 : LET b == KSTACKTOP - (KSTKSIZE + KSTKGAP) * (n + 1) IN
                     check_va2pa(b + KSTKGAP) = Stack(n) /\ check_va2pa(b) = Null
               /\ \A i \in 0..NPD-1 : m.dir[kern][i].pg # Null <=> i >= PDX(UENVS))
lab5_check_kern_pgdir ==
    /\ Is("kern_pgdir") /\ layout.lab = 5 /\ Continue /\ m' = m /\ OnlyM
    /\ Assert_(/\ \A i \in 0..layout.pages-1 : check_va2pa(UPAGES + i) = placed["pages"] + i
               /\ \A i \in 0..layout.npages-1 : check_va2pa(KERNBASE + i) = i
               /\ check_va2pa(KSTACKTOP - KSTKSIZE) = Stack(0) /\ check_va2pa(KSTACKTOP - NPT) = Null
               /\ \A i \in 0..NPD-1 : m.dir[kern][i].pg # Null <=>
                     i \in {PDX(UVPT), PDX(KSTACKTOP - 1), PDX(UPAGES)} \/ i >= PDX(KERNBASE))

lcr3 == Is("lcr3") /\ Continue /\ low' = FALSE /\ m' = m /\ Assert_(TRUE)
        /\ UNCHANGED <<layout, nextfree, mmiobase, pp, fl, nfree, placed>>

PmapNext ==
    \/ boot_alloc \/ page_init \/ check_page_free_list \/ allocate \/ liberate \/ setlist \/ count
    \/ fill \/ insert \/ remove \/ walk \/ untable \/ store \/ look \/ mmio_map_region
    \/ mmio_checked \/ map \/ check_kern_pgdir \/ lab5_check_kern_pgdir \/ lcr3

PmapSpec == PmapInit /\ [][PmapNext]_pmapVars

-----------------------------------------------------------------------------
PmapTypeOK == /\ layout \in Layouts /\ failed \in BOOLEAN /\ low \in BOOLEAN
              /\ \A i \in 1..Len(m.free) : m.free[i] \in Phys
              /\ m.ref \in [Phys -> Nat] /\ pp \in [Reg -> Phys \cup {Null}]

\* mem_init runs to its end on every machine: no assertion of its checks
\* fails, nothing panics, and before lcr3(kern_pgdir) the kernel touches only
\* pages that entry_pgdir maps.
ChecksPass == ~failed

\* Outside the checks, whatever they left behind: a page on the free list is
\* there once, holds none of the kernel's arrays and is not a page table.
FreeIsFree ==
    (\E i \in {ip} : i > Len(script) \/ script[i][1] \in {"count", "map", "array", "freelist"}) =>
        /\ \A i, j \in 1..Len(m.free) : m.free[i] = m.free[j] => i = j
        /\ \A i \in 1..Len(m.free) : /\ m.ref[m.free[i]] = 0
                                     /\ \A k \in 0..NPD-1 : m.dir[kern][k].pg # m.free[i]
                                     /\ \A a \in DOMAIN placed : placed[a] # m.free[i]
=============================================================================

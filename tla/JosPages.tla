------------------------------- MODULE JosPages -------------------------------
(***************************************************************************)
(* The physical page allocator and the page tables of JOS                  *)
(* (src/oslab6/kern/pmap.c) as operators on the kernel's memory m:         *)
(*   free   page_free_list, a sequence of page numbers                     *)
(*   ref    pages[i].pp_ref                                                *)
(*   dir    per page directory: the page table of each entry               *)
(*          and the permissions or-ed into the entry                       *)
(*   tab    per page used as a page table: its entries                     *)
(*   bytes  per page: what is stored there, 0 when cleared                 *)
(*   panic  some call of panic() was reached                               *)
(* Virtual addresses are page numbers.                                     *)
(***************************************************************************)
EXTENDS Integers, Sequences

CONSTANTS
    Phys,     \* page numbers of physical memory, 0 included
    Dirs,     \* page directories
    NPD, NPT  \* entries of a page directory, and of a page table

ASSUME PageConstants == /\ Phys \subseteq Nat /\ 0 \in Phys /\ {NPD, NPT} \subseteq Nat \ {0}

PDX(va) == va \div NPT
PTX(va) == va % NPT
Null == -1       \* no page; also an entry without PTE_P
NoPte == [pg |-> Null, perm |-> {}]
EmptyTable == [i \in 0..NPT-1 |-> NoPte]
Memory(free) ==
    [free |-> free, ref |-> [f \in Phys |-> 0], bytes |-> [f \in Phys |-> 0],
     tab |-> [f \in Phys |-> EmptyTable],
     dir |-> [d \in Dirs |-> [i \in 0..NPD-1 |-> NoPte]], panic |-> FALSE]

\* page_alloc: the page it returns, and the memory after it.
Got(m) == IF m.free = <<>> THEN Null ELSE Head(m.free)
page_alloc(m, zero) ==
    IF m.free = <<>> THEN m
    ELSE [m EXCEPT !.free = Tail(@),
                   !.bytes[Got(m)] = IF zero THEN 0 ELSE @,
                   !.tab[Got(m)] = IF zero THEN EmptyTable ELSE @]

\* page_free: pp_link is not NULL for a page on the list that is not its last.
Linked(m, f) == \E i \in 1..Len(m.free)-1 : m.free[i] = f
page_free(m, f) ==
    IF m.ref[f] # 0 \/ Linked(m, f) THEN [m EXCEPT !.panic = TRUE]
    ELSE [m EXCEPT !.free = <<f>> \o @]

page_decref(m, f) == LET n == [m EXCEPT !.ref[f] = @ - 1] IN IF n.ref[f] = 0 THEN page_free(n, f) ELSE n

\* pgdir_walk: the memory after it, and whether there is a page table then.
HasTable(m, d, va) == m.dir[d][PDX(va)].pg # Null
pgdir_walk(m, d, va) ==
    IF HasTable(m, d, va) \/ m.free = <<>> THEN m
    ELSE [page_alloc(m, TRUE) EXCEPT !.ref[Got(m)] = @ + 1,
             !.dir[d][PDX(va)] = [pg |-> Got(m), perm |-> {"U", "W"}]]

Pte(m, d, va) == IF HasTable(m, d, va) THEN m.tab[m.dir[d][PDX(va)].pg][PTX(va)] ELSE NoPte
SetPte(m, d, va, e) == [m EXCEPT !.tab[m.dir[d][PDX(va)].pg][PTX(va)] = e]

\* page_lookup tests !(*pte) & PTE_P: an entry that is 0.
page_lookup(m, d, va) == Pte(m, d, va).pg

page_remove(m, d, va) ==
    IF page_lookup(m, d, va) = Null THEN m
    ELSE SetPte(page_decref(m, page_lookup(m, d, va)), d, va, NoPte)

\* page_insert counts the new reference before it drops the old one.
Referenced(m, d, f, va) == page_remove([m EXCEPT !.ref[f] = @ + 1], d, va)

page_insert(m, d, f, va, perm) ==
    LET w == pgdir_walk(m, d, va)
        n == Referenced(w, d, f, va)
    IN  IF ~HasTable(w, d, va) THEN m
        ELSE [SetPte(n, d, va, [pg |-> f, perm |-> perm]) EXCEPT !.dir[d][PDX(va)].perm = @ \cup perm]
Insertable(m, d, va) == HasTable(m, d, va) \/ m.free # <<>>

\* boot_map_region: n pages from va to the physical pages from pa.
Mapped1(m, d, va, pa, perm) ==
    LET w == pgdir_walk(m, d, va) IN
    IF HasTable(w, d, va) THEN SetPte(w, d, va, [pg |-> pa, perm |-> perm]) ELSE [m EXCEPT !.panic = TRUE]
boot_map_region(m, d, va, n, pa, perm) ==
    LET after[i \in 0..n] ==
            IF i = 0 THEN m
            ELSE LET x == after[i - 1] IN IF x.panic THEN x ELSE Mapped1(x, d, va + i - 1, pa + i - 1, perm)
    IN  after[n]
=============================================================================

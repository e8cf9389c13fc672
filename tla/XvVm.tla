--------------------------------- MODULE XvVm ---------------------------------
(***************************************************************************)
(* Physical pages and address spaces of xv6 (src/xv6/kalloc.c, vm.c,       *)
(* exec.c, and growproc, fork and wait of proc.c).  Processes on several   *)
(* CPUs take pages from one free list, so that kalloc can fail at every    *)
(* point of fork, exec and sbrk and each must undo what it has done.  One  *)
(* round of a loop around kalloc is one step.                              *)
(***************************************************************************)
EXTENDS Integers, Sequences, FiniteSets, FiniteSetsExt

CONSTANTS
    VProc, vinit,     \* processes; the first one
    NFRAME,           \* pages of physical memory above the kernel
    PGSIZE, NPTE,     \* bytes in a page, pages mapped by one page table
    NTAB,             \* page tables below KERNBASE
    KTAB,             \* page tables that the kernel's mappings need
    Programs,         \* files exec can load: ends of their segments
    MaxOps            \* bound: operations started

KERNBASE == NTAB * NPTE * PGSIZE
Frame == 1..NFRAME
Page  == 0..(NTAB * NPTE - 1)
Tab   == 0..NTAB-1

ASSUME VmConstants ==
    /\ vinit \in VProc /\ NFRAME \in Nat /\ KTAB \in Nat
    /\ {PGSIZE, NPTE, NTAB} \subseteq Nat \ {0}
    /\ \A s \in Programs : s \in Seq(Nat)

VARIABLES
    freelist,   \* kmem.freelist
    vm,         \* per process: its address space, NoVm if none
    sz,         \* per process: proc.sz
    kstack,     \* per process: frame of the kernel stack, 0 if none
    life,       \* per process: "unused", "alive", "zombie"
    job,        \* per process: the operation it is executing
    ops

vmVars == <<freelist, vm, sz, kstack, life, job, ops>>

NoVm  == [dir |-> 0, ktab |-> {}, tab |-> [t \in Tab |-> 0], page |-> [g \in Page |-> 0]]
NoJob == [op |-> "none", new |-> NoVm, a |-> 0, lim |-> 0, old |-> 0, segs |-> <<>>, child |-> vinit]
Ops   == {"none", "kvm", "grow", "copy", "segment", "stack", "args"}

VmTypeOK ==
    /\ freelist \subseteq Frame /\ life \in [VProc -> {"unused", "alive", "zombie"}]
    /\ \A p \in VProc : /\ vm[p].dir \in Frame \cup {0} /\ vm[p].ktab \subseteq Frame
                        /\ vm[p].tab \in [Tab -> Frame \cup {0}]
                        /\ vm[p].page \in [Page -> Frame \cup {0}]
                        /\ job[p].op \in Ops
    /\ sz \in [VProc -> 0..KERNBASE] /\ kstack \in [VProc -> Frame \cup {0}]
    /\ ops \in 0..MaxOps

RoundUp(n) == ((n + PGSIZE - 1) \div PGSIZE) * PGSIZE
PDX(a) == a \div (NPTE * PGSIZE)
PGNUM(a) == a \div PGSIZE

\* userinit: one page of code, and all other frames free.
VmInit ==
    LET v == [NoVm EXCEPT !.dir = 1, !.ktab = 2..KTAB+1, !.tab[0] = KTAB + 2, !.page[0] = KTAB + 3] IN
    /\ vm = [p \in VProc |-> IF p = vinit THEN v ELSE NoVm]
    /\ sz = [p \in VProc |-> IF p = vinit THEN PGSIZE ELSE 0]
    /\ kstack = [p \in VProc |-> IF p = vinit THEN KTAB + 4 ELSE 0]
    /\ life = [p \in VProc |-> IF p = vinit THEN "alive" ELSE "unused"]
    /\ freelist = KTAB+5..NFRAME
    /\ job = [p \in VProc |-> NoJob] /\ ops = 0

-----------------------------------------------------------------------------
(* Page tables. *)

\* mappages of one user page with frame f: the address space and the frames
\* it took for a page table.  It fails if it needs a table and none is free.
NeedsTab(v, a) == v.tab[PDX(a)] = 0
MapPage(v, a, f, t) ==
    [v EXCEPT !.page[PGNUM(a)] = f, !.tab[PDX(a)] = IF NeedsTab(v, a) THEN t ELSE @]

\* One page at address a: kalloc, then mappages.  Frames are taken in order.
FramesFor(v, a) == IF NeedsTab(v, a) THEN 2 ELSE 1
CanMap(v, a) == Cardinality(freelist) >= FramesFor(v, a)
Mapped(v, a) == LET f == Min(freelist) IN
                MapPage(v, a, f, IF NeedsTab(v, a) THEN Min(freelist \ {f}) ELSE 0)
FramesOf(v) == ({v.dir} \cup v.ktab \cup {v.tab[t] : t \in Tab} \cup {v.page[g] : g \in Page}) \ {0}

\* The pages deallocuvm visits from a up to oldsz: where a page table is
\* missing it goes on at the first page of the next one.
AfterTable(a) == (PDX(a) + 1) * NPTE * PGSIZE

RECURSIVE Visited(_, _, _)
Visited(v, a, oldsz) ==
    IF a >= oldsz THEN {}
    ELSE IF NeedsTab(v, a) THEN Visited(v, AfterTable(a), oldsz)
    ELSE {PGNUM(a)} \cup Visited(v, a + PGSIZE, oldsz)

Dropped(v, oldsz, newsz) == IF newsz >= oldsz THEN {} ELSE Visited(v, RoundUp(newsz), oldsz)

\* deallocuvm: the address space left, and the frames it gives to kfree.
deallocuvm(v, oldsz, newsz) ==
    [v EXCEPT !.page = [g \in Page |-> IF g \in Dropped(v, oldsz, newsz) THEN 0 ELSE v.page[g]]]
FreedFrames(v, oldsz, newsz) == {v.page[g] : g \in Dropped(v, oldsz, newsz)} \ {0}

\* freevm: the user pages, every page table and the directory.
FreeVm(v) == FreedFrames(v, KERNBASE, 0) \cup v.ktab \cup ({v.tab[t] : t \in Tab} \ {0}) \cup {v.dir}

-----------------------------------------------------------------------------
(* Operations. *)

Begin(p) == life[p] = "alive" /\ job[p].op = "none" /\ ops < MaxOps /\ ops' = ops + 1
Doing(p, o) == job[p].op = o
Do(p, j) == job' = [job EXCEPT ![p] = j]

\* growproc, n < 0: sz + n wraps below 0 and is then not less than sz.
shrink(p, n) ==
    LET new == IF n > sz[p] THEN sz[p] ELSE sz[p] - n IN
    /\ Begin(p) /\ n > 0
    /\ vm' = [vm EXCEPT ![p] = deallocuvm(@, sz[p], new)]
    /\ freelist' = freelist \cup FreedFrames(vm[p], sz[p], new)
    /\ sz' = IF new = 0 THEN sz ELSE [sz EXCEPT ![p] = new]    \* 0 is taken for an error
    /\ UNCHANGED <<kstack, life, job>>

\* growproc, n > 0: allocuvm from sz to sz + n.
grow(p, n) ==
    /\ Begin(p) /\ n > 0 /\ sz[p] + n < KERNBASE
    /\ Do(p, [NoJob EXCEPT !.op = "grow", !.a = RoundUp(sz[p]), !.lim = sz[p] + n, !.old = sz[p]])
    /\ UNCHANGED <<freelist, vm, sz, kstack, life>>

\* What allocuvm undoes when it runs out of memory.
Undone(j) == [lim |-> j.lim, old |-> j.old]

grow_page(p) ==
    LET j == job[p] IN
    /\ Doing(p, "grow")
    /\ \/ /\ j.a >= j.lim
          /\ sz' = [sz EXCEPT ![p] = j.lim] /\ Do(p, NoJob)
          /\ UNCHANGED <<vm, freelist>>
       \/ /\ j.a < j.lim /\ CanMap(vm[p], j.a)
          /\ vm' = [vm EXCEPT ![p] = Mapped(@, j.a)]
          /\ freelist' = freelist \ FramesOf(vm'[p])
          /\ Do(p, [j EXCEPT !.a = @ + PGSIZE])
          /\ UNCHANGED sz
       \/ /\ j.a < j.lim /\ ~CanMap(vm[p], j.a)
          /\ LET u == Undone(j) IN
             /\ vm' = [vm EXCEPT ![p] = deallocuvm(@, u.lim, u.old)]
             /\ freelist' = freelist \cup FreedFrames(vm[p], u.lim, u.old)
          /\ Do(p, NoJob) /\ UNCHANGED sz
    /\ UNCHANGED <<kstack, life, ops>>

\* fork: allocproc takes a kernel stack, then copyuvm calls setupkvm.
vm_fork(p, c) ==
    /\ Begin(p) /\ life[c] = "unused" /\ kstack[c] = 0
    /\ \/ /\ freelist # {}
          /\ kstack' = [kstack EXCEPT ![c] = Min(freelist)]
          /\ freelist' = freelist \ {Min(freelist)}
          /\ Do(p, [NoJob EXCEPT !.op = "kvm", !.child = c, !.lim = sz[p]])
       \/ freelist = {} /\ UNCHANGED <<kstack, freelist, job>>
    /\ UNCHANGED <<vm, sz, life>>

\* exec: the file has been found and its header is right (else nothing
\* happens); setupkvm is next.
exec(p, s) ==
    /\ Begin(p) /\ s \in Programs
    /\ Do(p, [NoJob EXCEPT !.op = "kvm", !.child = p, !.segs = s])
    /\ UNCHANGED <<freelist, vm, sz, kstack, life>>

\* Giving up: freevm of the new address space; fork also frees the stack.
Abandoned_stack(p) == IF job[p].new.dir = 0 THEN {} ELSE FreeVm(job[p].new)
Abandoned(p) == LET j == job[p] IN
    (IF j.new.dir = 0 THEN {} ELSE FreeVm(j.new))
       \cup (IF j.child = p THEN {} ELSE {kstack[j.child]})
bad(p) ==
    /\ freelist' = freelist \cup Abandoned(p)
    /\ kstack' = IF job[p].child = p THEN kstack ELSE [kstack EXCEPT ![job[p].child] = 0]
    /\ Do(p, NoJob)
    /\ UNCHANGED <<vm, sz, life, ops>>

\* setupkvm: the directory and the tables for the kernel's mappings.
setupkvm(p) ==
    LET j == job[p]
        f == Min(freelist) IN
    /\ Doing(p, "kvm")
    /\ \/ freelist = {} /\ bad(p)
       \/ /\ freelist # {} /\ freelist' = freelist \ {f}
          /\ LET v == IF j.new.dir = 0 THEN [j.new EXCEPT !.dir = f]
                                       ELSE [j.new EXCEPT !.ktab = @ \cup {f}]
                 done == Cardinality(v.ktab) = KTAB
                 next == IF ~done THEN "kvm" ELSE IF j.child # p THEN "copy" ELSE "segment"
             IN  Do(p, [j EXCEPT !.new = v, !.op = next])
          /\ UNCHANGED <<vm, sz, kstack, life, ops>>

\* One page of copyuvm.  At the end the child is complete.
copyuvm(p) ==
    LET j == job[p]
        c == j.child IN
    /\ Doing(p, "copy")
    /\ \/ /\ j.a >= j.lim
          /\ vm' = [vm EXCEPT ![c] = j.new] /\ sz' = [sz EXCEPT ![c] = j.lim]
          /\ life' = [life EXCEPT ![c] = "alive"]
          /\ Do(p, NoJob) /\ UNCHANGED <<freelist, kstack, ops>>
       \/ /\ j.a < j.lim /\ CanMap(j.new, j.a)
          /\ Do(p, [j EXCEPT !.new = Mapped(@, j.a), !.a = @ + PGSIZE])
          /\ freelist' = freelist \ FramesOf(Mapped(j.new, j.a))
          /\ UNCHANGED <<vm, sz, kstack, life, ops>>
       \/ j.a < j.lim /\ ~CanMap(j.new, j.a) /\ bad(p)

\* exec: allocuvm up to the end of the next segment, page by page.  allocuvm
\* refuses an end above KERNBASE and keeps the size for one below it.
Target(j) == IF j.op = "stack" THEN j.lim
             ELSE IF j.segs = <<>> THEN j.old ELSE Max({j.old, Head(j.segs)})

exec_page(p) ==
    LET j == job[p] IN
    /\ job[p].op \in {"segment", "stack"} /\ (j.op = "segment" => j.segs # <<>>)
    /\ \/ Target(j) >= KERNBASE /\ bad(p)
       \/ /\ Target(j) < KERNBASE /\ j.a < Target(j) /\ CanMap(j.new, j.a)
          /\ Do(p, [j EXCEPT !.new = Mapped(@, j.a), !.a = @ + PGSIZE])
          /\ freelist' = freelist \ FramesOf(Mapped(j.new, j.a))
          /\ UNCHANGED <<vm, sz, kstack, life, ops>>
       \/ Target(j) < KERNBASE /\ j.a < Target(j) /\ ~CanMap(j.new, j.a) /\ bad(p)
       \/ /\ Target(j) < KERNBASE /\ j.a >= Target(j) /\ Target(j) > 0
          /\ Do(p, IF j.op = "stack" THEN [j EXCEPT !.op = "args", !.old = j.lim]
                   ELSE [j EXCEPT !.segs = Tail(@), !.old = Target(j)])
          /\ UNCHANGED <<freelist, vm, sz, kstack, life, ops>>
       \/ Target(j) = 0 /\ bad(p)

\* A segment that is malformed or cannot be read, or arguments that do not fit
\* into the stack page.
exec_fails(p) ==
    /\ Doing(p, "args") \/ (Doing(p, "segment") /\ job[p].segs # <<>>)
    /\ bad(p)

\* All segments are loaded: two more pages, a guard and the stack.
exec_stack(p) ==
    LET j == job[p] IN
    /\ Doing(p, "segment") /\ j.segs = <<>>
    /\ Do(p, [j EXCEPT !.op = "stack", !.old = RoundUp(j.old), !.lim = RoundUp(j.old) + 2 * PGSIZE,
                       !.a = RoundUp(j.old)])
    /\ UNCHANGED <<freelist, vm, sz, kstack, life, ops>>

\* The old address space is freed after the switch to the new one.
exec_commit(p) ==
    /\ Doing(p, "args")
    /\ vm' = [vm EXCEPT ![p] = job[p].new] /\ sz' = [sz EXCEPT ![p] = job[p].old]
    /\ freelist' = freelist \cup FreeVm(vm[p])
    /\ Do(p, NoJob) /\ UNCHANGED <<kstack, life, ops>>

vm_exit(p) ==
    /\ p # vinit /\ life[p] = "alive" /\ job[p].op = "none"
    /\ life' = [life EXCEPT ![p] = "zombie"]
    /\ UNCHANGED <<freelist, vm, sz, kstack, job, ops>>

\* wait frees the stack and the address space of a zombie.
wait(c) ==
    /\ life[c] = "zombie"
    /\ freelist' = freelist \cup FreeVm(vm[c]) \cup {kstack[c]}
    /\ vm' = [vm EXCEPT ![c] = NoVm] /\ kstack' = [kstack EXCEPT ![c] = 0]
    /\ sz' = [sz EXCEPT ![c] = 0]
    /\ life' = [life EXCEPT ![c] = "unused"]
    /\ UNCHANGED <<job, ops>>

VmNext == \E p \in VProc :
    \/ \E n \in 1..KERNBASE : grow(p, n) \/ shrink(p, n)
    \/ \E c \in VProc : vm_fork(p, c)
    \/ \E s \in Programs : exec(p, s)
    \/ grow_page(p) \/ setupkvm(p) \/ copyuvm(p) \/ exec_page(p) \/ exec_stack(p)
    \/ exec_fails(p) \/ exec_commit(p) \/ vm_exit(p) \/ wait(p)

VmSpec == VmInit /\ [][VmNext]_vmVars

-----------------------------------------------------------------------------
\* Everything that holds on to a frame, with multiplicity.
Uses(f) ==
    Cardinality({p \in VProc : vm[p].dir = f}) + Cardinality({p \in VProc : f \in vm[p].ktab})
    + Cardinality({x \in VProc \X Tab : vm[x[1]].tab[x[2]] = f})
    + Cardinality({x \in VProc \X Page : vm[x[1]].page[x[2]] = f})
    + Cardinality({p \in VProc : job[p].new.dir = f}) + Cardinality({p \in VProc : f \in job[p].new.ktab})
    + Cardinality({x \in VProc \X Tab : job[x[1]].new.tab[x[2]] = f})
    + Cardinality({x \in VProc \X Page : job[x[1]].new.page[x[2]] = f})
    + Cardinality({p \in VProc : kstack[p] = f})

\* Every frame is free or has exactly one use, at every point: no path out of
\* fork, exec or sbrk loses a page or frees one that is in use, and no two
\* address spaces share a page.
OneUsePerFrame == \A f \in Frame : Uses(f) = IF f \in freelist THEN 0 ELSE 1

\* A process that still has its first page has all the pages below sz, and
\* none above: copyuvm, which panics at a hole, meets none.
NoHoles == \A p \in VProc :
    life[p] = "alive" /\ job[p].op # "grow" /\ vm[p].page[0] # 0 =>
        \A g \in Page : vm[p].page[g] # 0 <=> g * PGSIZE < sz[p]
=============================================================================

-------------------------------- MODULE JosMem --------------------------------
(***************************************************************************)
(* User memory in JOS: the page system calls (src/oslab6/kern/syscall.c),  *)
(* env_setup_vm and env_free (kern/env.c), the page fault upcall           *)
(* (kern/trap.c) and the copy-on-write fork of the user library            *)
(* (lib/fork.c, lib/pgfault.c).  The kernel lock makes a system call one   *)
(* step; fork and the fault handler are sequences of system calls, with    *)
(* the steps of other environments, and faults on their own stack, in      *)
(* between.                                                                *)
(***************************************************************************)
EXTENDS JosPages, FiniteSets

CONSTANTS MEnv, mfirst,   \* environments (page directories); the first one
          NFREE,          \* pages of memory free at the start
          MVal,            \* contents of a page
          MaxForks        \* bound on forks

\* The pages of an address space, in the order fork visits them.
PFTEMP == 0
TEXT == 1      \* read-only
DATA == 2      \* written by the program
STACK == 3     \* written by every call
SHARED == 4    \* PTE_SHARE
UXSTACK == 5   \* the exception stack
UserPage == 0..5
Frames == 1..NFREE
USTACKTOP == 5

ASSUME MemConstants == /\ MEnv = Dirs /\ mfirst \in MEnv /\ Frames \subseteq Phys
                       /\ NPD * NPT = 6 /\ 0 \in MVal

VARIABLES
    mm,        \* the kernel's memory (JosPages)
    mpgdir,     \* per environment: the page of its directory, Null if it is free
    mstatus,    \* per environment: "free", "not_runnable", "runnable"
    upcall,    \* per environment: env_pgfault_upcall is set (_pgfault_handler too)
    upc,       \* per environment: what its library code is doing
    faults,    \* per environment: the fault being handled, Null if none
    view,      \* ghost, per environment: what each private page must hold
    forks

memVars == <<mm, mpgdir, mstatus, upcall, upc, faults, view, forks>>

RW == {"U", "W"}
COW == {"U", "COW"}
RO == {"U"}
SHARE == {"U", "W", "SHARE"}
NoFork == [at |-> "user", child |-> mfirst, va |-> 0, perm |-> {}]
NoFault == [va |-> Null, at |-> "none", val |-> 0]

MemTypeOK ==
    /\ mstatus \in [MEnv -> {"free", "not_runnable", "runnable"}] /\ upcall \in [MEnv -> BOOLEAN]
    /\ mpgdir \in [MEnv -> Phys \cup {Null}] /\ \A f \in Phys : mm.ref[f] \in Nat
    /\ \A e \in MEnv : faults[e].va \in UserPage \cup {Null} /\ view[e] \in [UserPage -> MVal]
    /\ forks \in 0..MaxForks

\* Lookups and calls in the address space of e.
P(m, e, va) == Pte(m, e, va)
Running(e) == mstatus[e] = "runnable" /\ mpgdir[e] # Null
Calling(e) == Running(e) /\ faults[e].va = Null

-----------------------------------------------------------------------------
(* System calls. *)

\* sys_page_alloc: whether it succeeds, and the memory after it.
AllocOk(m, e, va) == m.free # <<>> /\ Insertable(page_alloc(m, TRUE), e, va)
sys_page_alloc(m, e, va, perm) ==
    IF m.free = <<>> THEN m
    ELSE LET n == page_alloc(m, TRUE) IN
         IF Insertable(n, e, va) THEN page_insert(n, e, Got(m), va, perm) ELSE page_free(n, Got(m))

\* sys_page_map: a read-only page may not be mapped writable.
MapOk(m, src, va, dst, dva, perm) ==
    /\ page_lookup(m, src, va) # Null /\ ("W" \in perm => "W" \in P(m, src, va).perm)
    /\ Insertable(m, dst, dva)
sys_page_map(m, src, va, dst, dva, perm) ==
    IF MapOk(m, src, va, dst, dva, perm) THEN page_insert(m, dst, page_lookup(m, src, va), dva, perm) ELSE m

sys_page_unmap(m, e, va) == page_remove(m, e, va)

\* env_free: every page, every page table, the directory.
FreeTable(m, e, i) ==
    LET t == m.dir[e][i].pg
        cleared[k \in 0..NPT] == IF k = 0 THEN m ELSE page_remove(cleared[k - 1], e, i * NPT + k - 1)
    IN  IF t = Null THEN m ELSE page_decref([cleared[NPT] EXCEPT !.dir[e][i] = NoPte], t)
mem_env_free(m, e) ==
    LET after[i \in 0..NPD] == IF i = 0 THEN m ELSE FreeTable(after[i - 1], e, i - 1)
    IN  page_decref(after[NPD], mpgdir[e])

\* The program load_icode makes.
MemInit ==
    LET all == [i \in Frames |-> i]
        m0 == [Memory(Tail(all)) EXCEPT !.ref[Head(all)] = 1]
        m1 == sys_page_alloc(m0, mfirst, TEXT, RO)
        m2 == sys_page_alloc(m1, mfirst, DATA, RW)
        m3 == sys_page_alloc(m2, mfirst, STACK, RW)
    IN  /\ mm = sys_page_alloc(m3, mfirst, SHARED, SHARE)
        /\ mpgdir = [e \in MEnv |-> IF e = mfirst THEN Head(all) ELSE Null]
        /\ mstatus = [e \in MEnv |-> IF e = mfirst THEN "runnable" ELSE "free"]
        /\ upcall = [e \in MEnv |-> FALSE] /\ upc = [e \in MEnv |-> NoFork]
        /\ faults = [e \in MEnv |-> NoFault] /\ view = [e \in MEnv |-> [va \in UserPage |-> 0]]
        /\ forks = 0

-----------------------------------------------------------------------------
(* Environments. *)

\* A panic of the library, or the end of the program: sys_env_destroy.
Destroy(e) ==
    /\ mm' = mem_env_free(mm, e) /\ mpgdir' = [mpgdir EXCEPT ![e] = Null]
    /\ mstatus' = [mstatus EXCEPT ![e] = "free"]
    /\ upc' = [upc EXCEPT ![e] = NoFork] /\ faults' = [faults EXCEPT ![e] = NoFault]
    /\ upcall' = [upcall EXCEPT ![e] = FALSE]
    /\ UNCHANGED <<view, forks>>

exit(e) == Calling(e) /\ upc[e].at = "user" /\ Destroy(e)

\* A store to page va: it goes through, or it faults.  Without an upcall the
\* kernel destroys the environment.
store(e, va, v) ==
    LET p == P(mm, e, va) IN
    /\ Calling(e) /\ va \in {DATA, STACK} /\ p.pg # Null
    /\ upc[e].at # "user" => va = STACK
    /\ va = STACK => v = view[e][va]     \* a call: what it stores there does not matter
    /\ \/ /\ "W" \in p.perm
          /\ v # view[e][va]
          /\ mm' = [mm EXCEPT !.bytes[p.pg] = v]
          /\ view' = [view EXCEPT ![e][va] = v]
          /\ UNCHANGED <<mpgdir, mstatus, upcall, upc, faults, forks>>
       \/ /\ "W" \notin p.perm /\ upcall[e]
          /\ faults' = [faults EXCEPT ![e] = [va |-> va, at |-> "map", val |-> v]]
          /\ UNCHANGED <<mm, mpgdir, mstatus, upcall, upc, view, forks>>
       \/ "W" \notin p.perm /\ ~upcall[e] /\ Destroy(e)

\* pgfault, one system call per step; it panics unless the page is
\* copy-on-write, and when memory runs out.
Handling(e, s) == Running(e) /\ faults[e].at = s
Handled(e, m, s) ==
    /\ mm' = m /\ faults' = [faults EXCEPT ![e].at = s]
    /\ UNCHANGED <<mpgdir, mstatus, upcall, upc, view, forks>>

pgfault_map(e) == LET va == faults[e].va IN
    /\ Handling(e, "map")
    /\ IF "COW" \in P(mm, e, va).perm /\ MapOk(mm, e, va, e, PFTEMP, RO)
       THEN Handled(e, sys_page_map(mm, e, va, e, PFTEMP, RO), "alloc")
       ELSE Destroy(e)
pgfault_alloc(e) == LET va == faults[e].va IN
    /\ Handling(e, "alloc")
    /\ IF AllocOk(mm, e, va) THEN Handled(e, sys_page_alloc(mm, e, va, RW), "copy") ELSE Destroy(e)
pgfault_copy(e) ==
    /\ Handling(e, "copy")
    /\ Handled(e, [mm EXCEPT !.bytes[P(mm, e, faults[e].va).pg] = mm.bytes[P(mm, e, PFTEMP).pg]], "unmap")
pgfault_unmap(e) ==
    /\ Handling(e, "unmap")
    /\ mm' = sys_page_unmap(mm, e, PFTEMP) /\ faults' = [faults EXCEPT ![e] = NoFault]
    /\ UNCHANGED <<mpgdir, mstatus, upcall, upc, view, forks>>

\* fork: set_pgfault_handler, then sys_exofork, which takes a page directory.
MemAt(e, s) == Calling(e) /\ upc[e].at = s
Goto(e, r) == upc' = [upc EXCEPT ![e] = r]

fork(e) ==
    /\ MemAt(e, "user") /\ forks < MaxForks /\ forks' = forks + 1
    /\ \/ /\ upcall[e] \/ AllocOk(mm, e, UXSTACK)
          /\ mm' = IF upcall[e] THEN mm ELSE sys_page_alloc(mm, e, UXSTACK, RW)
          /\ upcall' = [upcall EXCEPT ![e] = TRUE] /\ Goto(e, [upc[e] EXCEPT !.at = "exofork"])
          /\ UNCHANGED <<mpgdir, mstatus, faults, view>>
       \/ /\ ~upcall[e] /\ ~AllocOk(mm, e, UXSTACK)
          /\ mm' = mem_env_free(mm, e) /\ mpgdir' = [mpgdir EXCEPT ![e] = Null]
          /\ mstatus' = [mstatus EXCEPT ![e] = "free"]
          /\ UNCHANGED <<upcall, upc, faults, view>>

mem_exofork(e) ==
    /\ MemAt(e, "exofork")
    /\ \/ \E c \in MEnv :
            /\ mstatus[c] = "free" /\ mm.free # <<>>
            /\ mm' = [page_alloc(mm, TRUE) EXCEPT !.ref[Got(mm)] = @ + 1]
            /\ mpgdir' = [mpgdir EXCEPT ![c] = Got(mm)]
            /\ mstatus' = [mstatus EXCEPT ![c] = "not_runnable"]
            /\ view' = [view EXCEPT ![c] = view[e]]
            /\ Goto(e, [at |-> "look", child |-> c, va |-> 0, perm |-> {}])
            /\ UNCHANGED <<upcall, faults, forks>>
       \/ ((\A c \in MEnv : mstatus[c] # "free") \/ mm.free = <<>>) /\ Destroy(e)

\* The loop of fork: read uvpt, then duppage.
fork_look(e) == LET va == upc[e].va IN
    /\ MemAt(e, "look")
    /\ Goto(e, IF va >= USTACKTOP THEN [upc[e] EXCEPT !.at = "finish"]
               ELSE IF P(mm, e, va).pg = Null THEN [upc[e] EXCEPT !.va = va + 1]
               ELSE [upc[e] EXCEPT !.at = "dup", !.perm = P(mm, e, va).perm])
    /\ UNCHANGED <<mm, mpgdir, mstatus, upcall, faults, view, forks>>

Private(perm) == "SHARE" \notin perm /\ perm \cap {"W", "COW"} # {}
ChildPerm(perm) == IF "SHARE" \in perm THEN SHARE ELSE IF Private(perm) THEN COW ELSE RO

\* duppage, into the child.  Only the private case looks at the result.
duppage(e) == LET j == upc[e] IN
    /\ MemAt(e, "dup")
    /\ IF Private(j.perm) /\ ~MapOk(mm, e, j.va, j.child, j.va, COW) THEN Destroy(e)
       ELSE /\ mm' = sys_page_map(mm, e, j.va, j.child, j.va, ChildPerm(j.perm))
            /\ Goto(e, IF Private(j.perm) THEN [j EXCEPT !.at = "own"] ELSE [j EXCEPT !.at = "look", !.va = @ + 1])
            /\ UNCHANGED <<mpgdir, mstatus, upcall, faults, view, forks>>

\* duppage marks our mapping copy-on-write even if it was already.
OwnPerm_once(e) == IF "COW" \in upc[e].perm THEN P(mm, e, upc[e].va).perm ELSE COW
OwnPerm(e) == COW
duppage_own(e) == LET j == upc[e] IN
    /\ MemAt(e, "own")
    /\ mm' = sys_page_map(mm, e, j.va, e, j.va, OwnPerm(e))
    /\ Goto(e, [j EXCEPT !.at = "look", !.va = @ + 1])
    /\ UNCHANGED <<mpgdir, mstatus, upcall, faults, view, forks>>

\* The exception stack and the upcall of the child, and ENV_RUNNABLE.
fork_finish(e) == LET c == upc[e].child IN
    /\ MemAt(e, "finish")
    /\ IF ~AllocOk(mm, c, UXSTACK) THEN Destroy(e)
       ELSE /\ mm' = sys_page_alloc(mm, c, UXSTACK, RW)
            /\ upcall' = [upcall EXCEPT ![c] = TRUE]
            /\ mstatus' = [mstatus EXCEPT ![c] = "runnable"]
            /\ Goto(e, NoFork) /\ UNCHANGED <<mpgdir, faults, view, forks>>

MemNext == \E e \in MEnv :
    \/ exit(e) \/ (\E va \in {DATA, STACK}, v \in MVal : store(e, va, v))
    \/ pgfault_map(e) \/ pgfault_alloc(e) \/ pgfault_copy(e) \/ pgfault_unmap(e)
    \/ fork(e) \/ mem_exofork(e) \/ fork_look(e) \/ duppage(e) \/ duppage_own(e) \/ fork_finish(e)

MemSpec == MemInit /\ [][MemNext]_memVars

-----------------------------------------------------------------------------
\* Per environment: the page behind each mapping and each directory entry.
MappedPages == [e \in MEnv |-> [va \in UserPage |-> P(mm, e, va).pg]]
TablePages == [e \in MEnv |-> [i \in 0..NPD-1 |-> mm.dir[e][i].pg]]
Uses(f, mappings, tables) ==
    Cardinality({x \in MEnv \X UserPage : mappings[x[1]][x[2]] = f})
    + Cardinality({x \in MEnv \X (0..NPD-1) : tables[x[1]][x[2]] = f})
    + Cardinality({e \in MEnv : mpgdir[e] = f})

\* pp_ref is the number of mappings, tables and directories a page serves as;
\* the pages without any are on the free list, once: no path, also out of
\* memory, loses a page or frees one in use.
RefsExact ==
    /\ ~mm.panic
    /\ \E mappings \in {MappedPages}, tables \in {TablePages} :     \* TLC evaluates each once
        \A f \in Frames :
          /\ mm.ref[f] = Uses(f, mappings, tables)
          /\ Cardinality({i \in 1..Len(mm.free) : mm.free[i] = f}) = IF mm.ref[f] = 0 THEN 1 ELSE 0

\* Copy-on-write cannot be told from copying: each private page holds what
\* its environment stored there, or its parent before fork returned, whatever
\* the others do.
PrivateMemory == \A e \in MEnv, va \in {DATA, STACK} :
    Running(e) /\ ~(faults[e].va = va /\ faults[e].at = "copy") =>
        P(mm, e, va).pg # Null /\ mm.bytes[P(mm, e, va).pg] = view[e][va]

\* A page that some environment holds copy-on-write is writable for nobody,
\* except for a parent between the two halves of duppage.
CowFrozen == \A d, e \in MEnv, va, wa \in {DATA, STACK} :
    /\ "COW" \in P(mm, d, va).perm /\ "W" \in P(mm, e, wa).perm
    /\ P(mm, d, va).pg = P(mm, e, wa).pg
    => upc[e].at = "own" /\ upc[e].va = wa
=============================================================================

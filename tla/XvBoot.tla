------------------------------- MODULE XvBoot -------------------------------
(***************************************************************************)
(* The start of the xv6 kernel on a multiprocessor: main on the boot       *)
(* processor (main.c), the processors it finds (mp.c), how it starts the   *)
(* others one at a time through the words below their entry code           *)
(* (startothers, lapicstartap, entryother.S, mpenter, mpmain), where it    *)
(* sends the device interrupts (ioapic.c), and the page allocator, which   *)
(* takes no lock until kinit2 has run (kalloc.c).                          *)
(***************************************************************************)
EXTENDS Integers, Sequences, FiniteSets

CONSTANTS Tables,      \* MP tables: sequences of entries, [type |-> "proc", id |-> n] and others
          NCPU,
          LOW, HIGH,   \* pages below 4 MB, and those above, that the allocator is given
          MaxAllocs    \* pages a processor takes for processes

ASSUME BootConstants == /\ NCPU \in Nat \ {0} /\ {LOW, HIGH} \subseteq Nat /\ MaxAllocs \in Nat
                        /\ \A t \in Tables : \A e \in {t[i] : i \in 1..Len(t)} : e.type = "proc" => e.id \in Nat

Page == 1..(LOW + HIGH)
Procs(t) == SelectSeq(t, LAMBDA e : e.type = "proc")
Ids(t) == {Procs(t)[i].id : i \in 1..Len(Procs(t))}

(* mpconfig refuses a table with a bad signature, version or checksum, an  *)
(* entry "corrupt" here.                                                   *)
mpconfig(t) == \A n \in 1..Len(t) : t[n].type # "corrupt"
(* The entries up to the first of a kind that mpinit does not know.        *)
Kinds == {"proc", "bus", "ioapic", "iointr", "lintr"}
Readable(t) == CHOOSE k \in 0..Len(t) : /\ \A n \in 1..k : t[n].type \in Kinds
                                       /\ k < Len(t) => t[k + 1].type \notin Kinds
Understood(t) == mpconfig(t) /\ Readable(t) = Len(t)

VARIABLES table, bsp,   \* what the firmware left: the MP table and the processor main runs on
          step,         \* index in Script
          i,            \* the loop variable of startothers (over cpus) and of freerange (over pages)
          at,           \* place in startothers
          cpus,         \* the table mpinit fills: [apicid, started]
          idt,          \* tvinit has run
          route,        \* APIC id each device interrupt goes to
          box,          \* the words below the entry code: stack and page table
          cpu,          \* the processors: [pc, stack, pgdir, gdt, idt]
          freelist, next, use_lock,   \* kmem
          hand,         \* the page a processor has read from an unlocked free list; 0 if none
          taken,        \* how often each page is held
          runnable      \* a process can be run

bootVars == <<table, bsp, step, i, at, cpus, idt, route, box, cpu,
              freelist, next, use_lock, hand, taken, runnable>>
mpVars == <<cpus, idt, route>>
kmem == <<freelist, next, use_lock, hand, taken>>

(* The order in which main calls.  pinit, binit and fileinit, which only   *)
(* name locks, are not in it.                                              *)
Script_early == <<"kinit1", "kvmalloc", "mpinit", "lapicinit", "seginit", "picinit", "ioapicinit",
            "consoleinit", "uartinit", "tvinit", "ideinit", "kinit2", "startothers", "userinit", "mpmain">>
Script == <<"kinit1", "kvmalloc", "mpinit", "lapicinit", "seginit", "picinit", "ioapicinit",
            "consoleinit", "uartinit", "tvinit", "ideinit", "startothers", "kinit2", "userinit", "mpmain">>

Halted == [pc |-> "halted", stack |-> 0, pgdir |-> "none", gdt |-> FALSE, idt |-> FALSE]

BootInit == /\ table \in Tables /\ bsp \in Ids(table)
            /\ step = 1 /\ i = 1 /\ at = "kalloc"
            /\ cpus = <<>> /\ idt = FALSE /\ route = [irq \in {"kbd", "com1", "ide"} |-> -1]
            /\ box = [stack |-> 0, pgdir |-> "none"]
            /\ cpu = [c \in Ids(table) |->
                        IF c = bsp THEN [Halted EXCEPT !.pc = "main", !.pgdir = "entry"] ELSE Halted]
            /\ freelist = 0 /\ next = [p \in Page |-> 0] /\ use_lock = FALSE
            /\ hand = [c \in Ids(table) |-> 0] /\ taken = [p \in Page |-> 0]
            /\ runnable = FALSE

Runs(name) == cpu[bsp].pc = "main" /\ Script[step] = name
Done == step' = step + 1 /\ i' = 1

-----------------------------------------------------------------------------
(* kfree and kalloc.  Under the lock each is one step; without it the head *)
(* of the list is read in one step and written in a later one.             *)
Atomic == use_lock
kfree_link(c, p) == /\ hand[c] = 0
                    /\ IF Atomic THEN /\ next' = [next EXCEPT ![p] = freelist] /\ freelist' = p
                                      /\ hand' = hand
                       ELSE /\ next' = [next EXCEPT ![p] = freelist] /\ hand' = [hand EXCEPT ![c] = p]
                            /\ freelist' = freelist
                    /\ UNCHANGED <<use_lock, taken>>
kfree_head(c) == /\ hand[c] # 0
                 /\ freelist' = hand[c] /\ hand' = [hand EXCEPT ![c] = 0]
                 /\ UNCHANGED <<next, use_lock, taken>>

Given(p) == taken' = [taken EXCEPT ![p] = @ + 1]
kalloc_read(c) == /\ hand[c] = 0 /\ freelist # 0
                  /\ IF Atomic THEN freelist' = next[freelist] /\ Given(freelist) /\ hand' = hand
                     ELSE /\ hand' = [hand EXCEPT ![c] = freelist]
                          /\ UNCHANGED <<freelist, taken>>
                  /\ UNCHANGED <<next, use_lock>>
kalloc_take(c) == /\ hand[c] # 0
                  /\ freelist' = next[hand[c]] /\ Given(hand[c])
                  /\ hand' = [hand EXCEPT ![c] = 0]
                  /\ UNCHANGED <<next, use_lock>>

(* kinit1 gives the pages below 4 MB, kinit2 the others, and turns the     *)
(* lock on at its end.                                                     *)
kinit(name, first, last) ==
    /\ Runs(name)
    /\ IF i <= last - first + 1
       THEN IF hand[bsp] = 0 THEN kfree_link(bsp, first + i - 1) /\ UNCHANGED <<step, i>>
            ELSE kfree_head(bsp) /\ i' = i + 1 /\ step' = step
       ELSE /\ use_lock' = (name = "kinit2") /\ Done
            /\ UNCHANGED <<freelist, next, hand, taken>>
    /\ UNCHANGED <<table, bsp, at, mpVars, box, cpu, runnable>>

-----------------------------------------------------------------------------
(* kvmalloc: the kernel page table, one page here.                         *)
kvmalloc == /\ Runs("kvmalloc")
            /\ IF hand[bsp] = 0 THEN kalloc_read(bsp) /\ UNCHANGED <<step, i, cpu>>
               ELSE kalloc_take(bsp) /\ Done /\ cpu' = [cpu EXCEPT ![bsp].pgdir = "kernel"]
            /\ UNCHANGED <<table, bsp, at, mpVars, box, runnable>>

Panic(c) == cpu' = [cpu EXCEPT ![c].pc = "panic"]

(* mpinit records the first NCPU processors of the table, whatever their   *)
(* APIC ids, and passes over the entries of other known kinds.  At one of  *)
(* an unknown kind the break leaves only the switch: p stays where it is,  *)
(* and the panic behind the loop is never reached.                         *)
mpinit == /\ Runs("mpinit")
          /\ IF ~mpconfig(table) THEN Panic(bsp) /\ UNCHANGED <<cpus, step, i>>
             ELSE LET known == Procs(SubSeq(table, 1, Readable(table)))
                  IN  /\ cpus' = [n \in 1..(IF Len(known) < NCPU THEN Len(known) ELSE NCPU) |->
                                     [apicid |-> known[n].id, started |-> FALSE]]
                      /\ IF Understood(table) THEN Done /\ cpu' = cpu
                         ELSE cpu' = [cpu EXCEPT ![bsp].pc = "looping"] /\ UNCHANGED <<step, i>>
          /\ UNCHANGED <<table, bsp, at, idt, route, box, kmem, runnable>>

(* mycpu finds the processor by its APIC id, and panics if it is not in    *)
(* the table.                                                              *)
Known(c) == \E n \in 1..Len(cpus) : cpus[n].apicid = c
mycpu(c) == CHOOSE n \in 1..Len(cpus) : cpus[n].apicid = c

seginit(c, then) == IF Known(c) THEN cpu' = [cpu EXCEPT ![c].gdt = TRUE, ![c].pc = then] ELSE Panic(c)
main_seginit == /\ Runs("seginit") /\ seginit(bsp, "main") /\ Done
                /\ UNCHANGED <<table, bsp, at, mpVars, box, kmem, runnable>>

(* ioapicinit masks every line; the drivers then route their own, the      *)
(* keyboard and serial port to 0, the disk to the last processor.          *)
LastCpu == Len(cpus) - 1
ioapicenable(irq, cpunum) == route' = [route EXCEPT ![irq] = cpunum]
devices == /\ \/ Runs("ioapicinit") /\ route' = [irq \in DOMAIN route |-> -1]
              \/ Runs("consoleinit") /\ ioapicenable("kbd", 0)
              \/ Runs("uartinit") /\ ioapicenable("com1", 0)
              \/ Runs("ideinit") /\ ioapicenable("ide", LastCpu)
           /\ Done
           /\ UNCHANGED <<table, bsp, at, cpus, idt, box, cpu, kmem, runnable>>
tvinit == /\ Runs("tvinit") /\ idt' = TRUE /\ Done
          /\ UNCHANGED <<table, bsp, at, cpus, route, box, cpu, kmem, runnable>>
(* Controllers whose state is not kept here.                               *)
controllers == /\ Runs("lapicinit") \/ Runs("picinit")
               /\ Done
               /\ UNCHANGED <<table, bsp, at, mpVars, box, cpu, kmem, runnable>>

-----------------------------------------------------------------------------
(* startothers: for each processor but this one, a stack, the words below  *)
(* the entry code, INIT and STARTUP twice, and the wait for started.       *)
Loop(then) == at' = then /\ UNCHANGED <<step, i>>
NextCpu == at' = "kalloc" /\ i' = i + 1 /\ step' = step
others_skip == /\ Runs("startothers") /\ at = "kalloc"
               /\ IF i > Len(cpus) THEN Done /\ at' = at ELSE i = mycpu(bsp) /\ NextCpu
               /\ UNCHANGED <<table, bsp, mpVars, box, cpu, kmem, runnable>>
others_stack == /\ Runs("startothers") /\ at = "kalloc" /\ i <= Len(cpus) /\ i # mycpu(bsp)
                /\ IF hand[bsp] = 0 /\ ~Atomic
                   THEN kalloc_read(bsp) /\ UNCHANGED <<step, i, at, box>>
                   ELSE /\ box' = [stack |-> IF hand[bsp] = 0 THEN freelist ELSE hand[bsp], pgdir |-> "entry"]
                        /\ IF hand[bsp] = 0 THEN kalloc_read(bsp) ELSE kalloc_take(bsp)
                        /\ Loop("init")
                /\ UNCHANGED <<table, bsp, mpVars, cpu, runnable>>
(* lapicstartap: INIT resets the processor; it takes the first STARTUP and *)
(* ignores the second.                                                     *)
lapicstartap == /\ Runs("startothers") /\ at \in {"init", "startup", "again"}
                /\ LET c == cpus[i].apicid
                   IN  IF at = "init" THEN cpu' = [cpu EXCEPT ![c] = [Halted EXCEPT !.pc = "reset"]]
                       ELSE IF cpu[c].pc = "reset" THEN cpu' = [cpu EXCEPT ![c].pc = "cr3"]
                       ELSE cpu' = cpu
                /\ Loop(IF at = "init" THEN "startup" ELSE IF at = "startup" THEN "again" ELSE "wait")
                /\ UNCHANGED <<table, bsp, mpVars, box, kmem, runnable>>
Waited(n) == cpus[n].started
others_wait == /\ Runs("startothers") /\ at = "wait" /\ Waited(i)
               /\ NextCpu
               /\ UNCHANGED <<table, bsp, mpVars, box, cpu, kmem, runnable>>

(* entryother.S: the page table, then the stack, then mpenter.             *)
entryother(c) == /\ \/ /\ cpu[c].pc = "cr3"
                       /\ cpu' = [cpu EXCEPT ![c].pgdir = box.pgdir, ![c].pc = "esp"]
                    \/ /\ cpu[c].pc = "esp"
                       /\ cpu' = [cpu EXCEPT ![c].stack = box.stack, ![c].pc = "mpenter"]
                 /\ UNCHANGED <<table, bsp, step, i, at, mpVars, box, kmem, runnable>>
(* mpenter: switchkvm, seginit; lapicinit keeps no state here.             *)
mpenter(c) == /\ \/ cpu[c].pc = "mpenter" /\ cpu' = [cpu EXCEPT ![c].pgdir = "kernel", ![c].pc = "seginit"]
                 \/ cpu[c].pc = "seginit" /\ seginit(c, "mpmain")
              /\ UNCHANGED <<table, bsp, step, i, at, mpVars, box, kmem, runnable>>
(* mpmain: idtinit, started, the scheduler, which turns interrupts on.     *)
mpmain(c) == /\ cpu[c].pc = "mpmain" \/ (c = bsp /\ Runs("mpmain"))
             /\ \/ ~cpu[c].idt /\ cpu' = [cpu EXCEPT ![c].idt = TRUE] /\ cpus' = cpus
                \/ /\ cpu[c].idt
                   /\ cpus' = [cpus EXCEPT ![mycpu(c)].started = TRUE]
                   /\ cpu' = [cpu EXCEPT ![c].pc = "scheduler"]
             /\ UNCHANGED <<table, bsp, step, i, at, idt, route, box, kmem, runnable>>

(* userinit: memory for the first process, which then any processor in     *)
(* its scheduler may run, and take pages for.                              *)
userinit == /\ Runs("userinit")
            /\ IF hand[bsp] = 0 /\ ~Atomic
               THEN kalloc_read(bsp) /\ UNCHANGED <<step, i, runnable>>
               ELSE /\ IF hand[bsp] = 0 THEN kalloc_read(bsp) ELSE kalloc_take(bsp)
                    /\ runnable' = TRUE /\ Done
            /\ UNCHANGED <<table, bsp, at, mpVars, box, cpu>>
process(c) == /\ cpu[c].pc = "scheduler" /\ runnable
              /\ IF hand[c] # 0 THEN kalloc_take(c)
                 ELSE /\ Cardinality({p \in Page : taken[p] > 0}) < MaxAllocs
                      /\ kalloc_read(c)
              /\ UNCHANGED <<table, bsp, step, i, at, mpVars, box, cpu, runnable>>

Ap(c) == c \in DOMAIN cpu /\ (entryother(c) \/ mpenter(c) \/ mpmain(c))
AllIds == UNION {Ids(t) : t \in Tables}
Bsp == \/ kinit("kinit1", 1, LOW) \/ kinit("kinit2", LOW + 1, LOW + HIGH) \/ kvmalloc \/ mpinit
       \/ main_seginit \/ devices \/ tvinit \/ controllers
       \/ others_skip \/ others_stack \/ lapicstartap \/ others_wait \/ userinit
BootNext == Bsp \/ (\E c \in AllIds : Ap(c)) \/ (\E c \in AllIds : c \in DOMAIN cpu /\ process(c))
BootSpec == BootInit /\ [][BootNext]_bootVars

BootTypeOK == /\ step \in 1..Len(Script) /\ freelist \in Page \cup {0}
              /\ \A c \in DOMAIN cpu : cpu[c].stack \in Page \cup {0} /\ hand[c] \in Page \cup {0}

-----------------------------------------------------------------------------
(* No two processors run on one stack, and a stack is no page of the free  *)
(* list or of a process: the words below the entry code are written for    *)
(* the next processor only after this one has read them.                   *)
Running == {c \in DOMAIN cpu : cpu[c].stack # 0}
RECURSIVE ListFrom(_, _)
ListFrom(p, n) == IF p = 0 \/ n = 0 THEN {} ELSE {p} \cup ListFrom(next[p], n - 1)
OwnStack == /\ \A c, d \in Running : cpu[c].stack = cpu[d].stack => c = d
            /\ \A c \in Running : cpu[c].stack \notin ListFrom(freelist, LOW + HIGH)

(* A page is given out once and is then no longer on the free list, though *)
(* the list is changed without its lock until kinit2 has run and another   *)
(* processor may by then be in its scheduler.                              *)
PagesOnce == \A p \in Page : taken[p] <= 1 /\ (taken[p] = 1 => p \notin ListFrom(freelist, LOW + HIGH))

(* "must come after startothers()" (main.c): a processor that still uses   *)
(* entrypgdir, which maps 4 MB, runs on a stack it maps.                   *)
StackMapped == \A c \in Running : cpu[c].pgdir = "entry" => cpu[c].stack <= LOW

(* Where APIC ids count the processors, as ioapicenable takes for granted, *)
(* every device interrupt goes to a processor that is started.             *)
InOrder == \A n \in 1..Len(cpus) : cpus[n].apicid = n - 1
RoutedToCpu == (cpu[bsp].pc = "scheduler" /\ InOrder) =>
                   \A irq \in DOMAIN route : route[irq] \in DOMAIN cpu /\ cpu[route[irq]].pc = "scheduler"

(* On a machine whose table mpinit understands and which counts the boot   *)
(* processor among its first NCPU, every processor mpinit recorded reaches *)
(* its scheduler: no step of the boot can be taken twice, so it comes to   *)
(* rest, and it rests nowhere else (startothers does not wait for a        *)
(* processor that waits for something else).  On any other machine nothing *)
(* runs: the boot processor stops in mpinit or in mycpu.                   *)
AtRest == ~ENABLED Bsp /\ \A c \in AllIds : ~ENABLED Ap(c)
AllStart == AtRest => IF Understood(table) /\ Known(bsp)
                      THEN \A n \in 1..Len(cpus) : cpu[cpus[n].apicid].pc = "scheduler"
                      ELSE /\ cpu[bsp].pc \in {"panic", "looping"}
                           /\ \A c \in DOMAIN cpu \ {bsp} : cpu[c].pc = "halted"
=============================================================================

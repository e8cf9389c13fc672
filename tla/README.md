# Formal models of the xv6 and JOS kernels

TLA+ models of the two teaching kernels in this repository and of the programs
around them. TLC checks them on small instances. For the parts of which
everything else is made (log, spinlocks, processes, buffer cache and disk
driver, pipes and consoles, JOS environments and file server) TLAPS proves the
main results for every value of the constants.

## The system

`src/xv6` is a multiprocessor Unix-like kernel with its user programs, extended
in the labs with process statistics, `waitsch` and priority scheduling.
`src/oslab6` is JOS, an exokernel with environments, IPC, user-level
copy-on-write fork, pipes and a file server. `src/lab1` and `src/lab5` are
earlier states of the JOS tree, of which only what differs is modelled.

How the parts interact. Every xv6 kernel structure is guarded by a spinlock;
`sleep` and `wakeup` tie a condition lock to `ptable.lock`; file system calls
are bracketed by `begin_op` and `end_op`, whose sleepers use the same channels;
the log writes through the buffer cache, the cache through the disk driver;
programs see all of it through system calls. In JOS one big lock makes every
trap atomic, and concurrency is between traps of different CPUs and between the
system calls of user-level libraries (fork, pipes, the file server).

`PROJECT.json` lists the components with what is left out of each, the source
lines behind each definition, the runs, for each property a mutant that breaks
it, the hazards the properties are about, and the theorems.

## Modules

A step of a kernel module is what the code does between taking and releasing
the lock that protects it; where the code gives the lock up or works without
it, a step ends. Data is abstracted to what the properties tell apart.

### xv6

| Module | Source | What it models |
|---|---|---|
| `XvLog` | `log.c` | transactions, commit, recovery; a crash between any two steps. One disk write is one step |
| `AtomicDisk` | header of `log.c` | what `XvLog` implements: calls take effect at once or not at all |
| `XvSpinlock` | `spinlock.c` | acquire, release, pushcli, popcli split at each access another CPU can see; each CPU has an interrupt handler context |
| `XvProc` | `proc.c`, `trap.c`, `sysproc.c` | fork, exit, wait, waitsch, sleep, wakeup, kill, setpriority, scheduler and statistics. `phase` is "out" and "in" while `ptable.lock` is handed over by `swtch` |
| `XvBio` | `bio.c`, `sleeplock.c`, `ide.c`, `memide.c` | reference counts, LRU list, recycling, sleep locks, request queue and interrupt |
| `XvPipe` | `pipe.c` | readers, writers, close and kill, with counters that wrap |
| `BoundedFifo` | | what `XvPipe` implements |
| `XvFs` | `fs.c`, `file.c`, `sysfile.c` | inode cache, directories, path names, file table and the calls on them, by several processes |
| `XvBlocks` | `fs.c`, `file.c` | bitmap, block map, reading and writing, the transactions of `filewrite` |
| `XvVm` | `vm.c`, `kalloc.c`, `exec.c`, `proc.c` | page tables, fork, exec, sbrk and every failing path, page by page |
| `XvConsole` | `console.c` | line editor and readers |
| `XvBoot` | `main.c`, `mp.c`, `ioapic.c`, `kalloc.c` | start of all processors, the allocator before it has a lock |
| `XvMkfs`, `XvMalloc` | `mkfs.c`, `umalloc.c` | the disk image; the user allocator |
| `XvUser` | system calls | the calls as programs see them, one call a step |
| `XvUserTests` | `usertests.c` | each test as its calls with the results it accepts |
| `XvParse`, `XvShell` | `sh.c`, `init.c` and small programs | the parser against its grammar; what a command line does against what it means |

### JOS and the machine

| Module | Source (`src/oslab6`) | What it models |
|---|---|---|
| `JosEnv` | `kern/env.c`, `sched.c`, `trap.c`, `syscall.c` | environments, scheduling and IPC; a step is a whole trap. `Careful` names the calls that are made only as `lib/` and `user/` make them |
| `JosPages`, `JosPmap` | `kern/pmap.c` (also `lab5`) | page allocator and tables; `mem_init` with all its self checks |
| `JosMem` | `kern/syscall.c`, `lib/fork.c`, `lib/pgfault.c` | page calls, copy-on-write fork, memory running out |
| `JosUpcall` | `kern/trap.c`, `lib/pfentry.S` | frames on the exception stack, nested faults, the return |
| `JosPipe` | `lib/pipe.c`, `lib/fd.c` | pipes by page reference counts, a switch at any instruction |
| `JosFile`, `JosFormat` | `fs/fs.c`, `bc.c`, `test.c`, `fsformat.c` | cache, bitmap, files, with power failures between block writes; the image |
| `JosServe` | `fs/serv.c`, `lib/file.c`, `lib/ipc.c` | request loop, open file table, clients that share descriptors and die |
| `JosBoot` | `kern/init.c`, `mpconfig.c`, `lapic.c` | start of all processors and the first pass through the scheduler |
| `PcConsole`, `PcClock`, `PcLoad` | both kernels, `lab1` | input ring of JOS, keyboard decoder and screen; `cmostime`; the boot loaders |
| `Streams` | | the pipes and consoles of both kernels side by side, with what they promise together |

`MC*` modules are instances for TLC; the runs of one component alone
(`XvLog`, `XvProc`, `JosEnv`) need none. Several of them hold components that do
not interact: the variable `part` is chosen at the start, a behaviour is one of
that component, and the variables of the others stay at a fixed value. Every
invariant there is a conjunction of `part = "x" => ...`.

## Runs

| Run | Shows |
|---|---|
| `xv_log` | calls are all or nothing under crashes (refinement of `AtomicDisk`), sleepers of `begin_op` must wait and are woken, recovery ends; the inductive invariant of the proof |
| `xv_locks` | spinlocks exclude, never panic and restore interrupts; one buffer per block, no stale read, no lost wakeup, `iderw` returns |
| `xv_proc` | a process runs on one CPU, its stack is not freed under it, its parent is alive, no wakeup is lost |
| `progress` | xv6: sleepers run again, zombies are reaped, no process is charged twice for a tick. JOS: dying environments are freed, and runnable ones run once no CPU loses its environment to `env_destroy` any more |
| `xv_files` | inode, link and block accounting, contents, transaction sizes; the reservations of `begin_op` suffice; the image of mkfs; one owner per page and per heap block |
| `xv_programs` | every call of `usertests` returns what the test accepts; the parser accepts its grammar; every order of a pipeline's processes has the effect the line means, and the commands end |
| `machine` | pipes are bounded queues; consoles, keyboard, screen and clock; the boot of both kernels and `mem_init` |
| `jos_services` | environments and IPC; fork's reference counts and privacy; upcalls; files and power failures; the server's descriptors; fsformat |
| `xv_log_full`, `xv_proc_born`, `xv_fs_deadlock`, `jos_env_twice` | violations, see *Disagreements* |

### Bounds

- `xv_log`: 2 processes, 2 blocks, 2 values. Two users overlap and commit for
  each other; two blocks tell partial from complete installation.
- `xv_locks`: 2 CPUs with 2 locks and one extra `pushcli` have every
  interference of an owner, a waiter and a handler. The cache has 2 processes,
  3 buffers and 4 blocks, so buffers are recycled while a block is pinned.
- `xv_proc`: 3 slots, 2 CPUs, pids up to 4, one tick: slots are reused, and a
  process can be made between `ticks++` and `updatestatistics`. That init is
  woken for an inherited zombie takes a fourth slot; the proof covers it.
- `progress`: 3 slots and one tick for xv6, all of one priority: starvation by
  priority is not explored. 3 environments for JOS, on one CPU and on two,
  created and destroyed without end: the count of births is set back at its
  bound.
- `xv_files`: 2 processes, 3 inodes, 4 calls in a behaviour; files of 2 direct
  and 3 indirect blocks on 13 data blocks; 2 processes in 14 page frames, so
  that every allocation can be the one that fails; a heap of 13 units. The log
  has the proportions of `param.h`, 6 entries for calls of 2, and 5 blocks, so
  that it would fill without the reservation.
- `xv_programs`: 6 processes; any two of nine command lines; every line of up
  to 6 tokens. 4 CPUs, so that the tests behind `preempt` are reached.
- `machine`: pipe of 2 bytes whose counters wrap at 4, with 2 writers and 1
  reader; console ring of 2; JOS pipe of 2 bytes with 3 environments on one
  CPU; several machines with missing, extra and unordered processors,
  with a table mpinit refuses and one with an entry it does not know.
- `jos_services`: 3 slots and 4 births, so that a slot is reused and a child
  outlives its parent; 13 free pages and 2 forks; 13 disk blocks, 5 requests
  before a power failure, and the self tests after the restart; 2 clients and 2 open files.

`MaxGen` stays above the generations reached in `jos_services`: the wrap of
`env_id` after 2^19 uses of a slot is not explored. In `progress`, where no
property is about ids, all generations are one. Counters that wrap in short runs (pipe, console
ring, screen) do wrap.

### Fairness

- `XvLog`: steps of the committer and of recovery are not delayed for ever, and
  every call reaches `end_op` (strong fairness: another process may hold
  `log.lock` meanwhile). Disk writes return and calls are finite code.
- `XvBio`: a process in the middle of a call goes on, whoever holds a buffer
  releases it, and the disk interrupts.
- `XvProc`: a CPU that wants `ptable.lock` repeatedly gets it. This is stronger
  than the spinlock gives and stands for a fair bus. The timer's `yield` is
  switched off in `trap.c`, so processes are not preempted: programs are
  assumed to end, and init to call wait (`init.c`).
- `JosEnv`: each CPU's timer keeps interrupting user code (`lapic_init`).
- Programs of `XvShell`: some process that can take a step does. No fairness,
  and so no end, is claimed of `XvUserTests`: a call is one step there, which is
  right for what it returns but hides the deadlock of `xv_fs_deadlock`.

Nothing is claimed of the order in which spinning CPUs get a spinlock: the
`xchg` loop has none.

## Proofs

Each proof follows one pattern: an invariant that holds initially and that
every action preserves, one lemma `Step_...` per action, and the theorems as
its consequences. Which constants are assumed is in the `ASSUME` of the
component's module; further hypotheses are in the theorem.

**`XvLogProofs`**, under `CallsFit` (a call logs at most `MAXOPBLOCKS - 2`
blocks, `LOGSIZE <= NLOG`): the log never fills (`LogSpaceSuffices`), a commit
is alone, the cache is coherent, nobody sleeps in `begin_op` without a reason
(`NobodyLeftAsleep`), and `XvLog` implements `AtomicDisk` (`LogIsAtomic`).
`IndInv` adds which process commits and where (`ControlInv`), that reservations
cover the blocks running calls may still log (`SpaceInv`, with sums over
processes), that dirty buffers are the logged blocks (`MemoryInv`) and what the
disk holds at each stage (`DiskInv`). `LogNeverFull` alone is not inductive: it
says nothing of reservations not yet used. Without `CallsFit` it is false
(`xv_log_full`). `BlkOpFits` supports the hypothesis: with one bitmap block, as
on mkfs's disk, the transactions of `fs.c` and `file.c` log at most 7 blocks.

**`XvSpinlockProofs`**, for any CPUs and any finite ordered set of locks: mutual
exclusion, no panic, interrupts restored, `holding` exact. `IndInv` adds which
context is active (`ControlInv`), what `ncli` counts (`CliInv`) and whom
`lk->cpu` names (`OwnerInv`), needed because `HoldingExact` says nothing of
`lk->cpu` while `locked` is 0.

**`XvProcProofs`**, for any number of slots, CPUs, pids and ticks:
`RunsOnOneCPU`, `StackIsAllocated`, `ParentIsAlive`, `WakeupNotLost`,
`ChargedOnce`, `PidsAreUnique`, `NoSlotLost`. `ProcInv` has one conjunct per
concern: who is on which CPU in which phase of `swtch` (`CpuInv`, `ControlInv`),
whose an EMBRYO is (`ForkInv`), which slots have a stack (`StackInv`), that
parents are alive and are no zombies while they have children to hand over
(`FamilyInv`), sleepers and their channels (`SleepInv`), pids below `nextpid`
(`PidInv`) and statistics against `ticks` and the stage of the timer interrupt
(`ChargeInv`). The wakeups need `FamilyInv`: exit wakes `parent`, which is right
only if that slot still holds the parent. `nextpid` is a natural number below
`MaxPid`; the wrap of a C int is not covered.

**`XvBioProofs`**, for any processes, blocks and buffers and
both disk drivers: `BlockCachedOnce`, `ReaderSeesLatest`, `BioWakeupNotLost`,
`DriveFollowsQueue`, `OnlyFullCachePanics`. `BioInv` says
that a sleep lock names its one holder (`HoldInv`), that `refcnt` counts the
processes between `bget` and `brelse` (`RefInv`), that the LRU list is a
permutation (`ListInv`), that the queue is the set of waiting requests, its head
at the drive (`QueueInv`), where the current copy of a block is (`DataInv`) and
how many buffers are pinned (`PinInv`). The panic of `bio.c:92` is not excluded:
`param.h` has `NBUF = LOGSIZE`, and pinned blocks and processes that read at once
can exhaust that cache. What is proved is that no other panic is reachable.

**`RingProofs`**, for any readers and writers, any buffer sizes and any counter
range that they divide. The pipe of xv6 implements `BoundedFifo`
(`PipeImplementsFifo`), `PipeWakeupNotLost`, `EndOfFileIsFinal`,
`FreedWhenUnused`. The refinement rests on what `%` does to counters that wrap
(`Used` is `nwrite - nread` modulo `WRAP`), which the first lemmas establish.
`PipeInv` adds at most `PIPESIZE` bytes in use, who can be inside a call
(`CallInv`) and why a writer has left its loop (`ReasonInv`).
The proof changed a property. No wakeup is lost was first stated without an
exception for all readers; it fails with two of them behind a killed writer,
which returns from `pipewrite` without waking the readers (`pipe.c:86-89`).
The console of xv6: no reader sleeps over committed input (`ConsoleSound`), and
editing never changes it (`ConsoleKeepsText`). `ConsInv` adds how `r`, `w` and
`e` lie on the circle of the uints and where each reader is (`ReadInv`); a
reader may sleep only while `r = w`, because every step that moves `w` wakes all
of them. The input ring of JOS: what is still to be read are the last characters
typed (`JosConsoleSound`). It overruns by wrapping `wpos` onto `rpos`, which
drops a whole turn at once; `JosConsInv` therefore counts back from the last
character typed, and not forward from the last one read (`Newest`).

**`JosStreamProofs`**. For the pipes of JOS: the buffer holds the bytes written
and not read (`PipeKeepsBytes`, without a hypothesis), and `_pipeisclosed` is
right (`PipeClosedIsTrue`) under `Apart`: one environment runs at a time, each
of the two users keeps one end, and only they fork. `JosPipeInv` relates the
mappings of the two pages in the middle of every close, dup and fork (`MapInv`),
says that one environment runs (`RunInv`), that what a check has read still
holds unless `env_runs` tells otherwise (`CheckInv`), and what the buffer holds
between a store and its count (`ByteInv`). Each part of `Apart` is needed: TLC finds
`ClosedIsTrue` violated with two CPUs, with an environment that keeps both ends,
and with a third one that forks while it has an end open, since `fork` maps the
pages of descriptors before the pages of data, the reverse of the order `dup`
takes care of. For the keyboard of JOS and the screens of both kernels:
`ModifiersDoNotStick`, `ResetIsMeant`, `CursorStaysOnScreen` (at least three
rows), `ScrollingKeepsText`. The last says that what stands before the cursor is
kept or moves up one row, whatever it shows, unless the cursor of xv6 is in the
last row when a character is printed (see *Disagreements*).

**`StreamProofs`** puts these together: the invariant `StreamsSound` and the
action property `InputKept` of the run `machine`, for every value of the
constants.

**`JosProofs`**. For any environments and CPUs, under `CarefulCalls` (nothing is
destroyed twice, `sys_env_set_status` only starts a child just made):
`EnvOnOneCPU`, `EnvPgdirInUse`, `EnvFreeListExact`, `EnvOneMessage`, and
`EnvOnlyParents` while generations do not repeat (`MaxBirths <= MaxGen`);
together they are `EnvSound` (`EnvIsSound`). `EnvInv` adds what `curenv` is in
each mode (`CpuInv`) and who waits for a message (`InboxInv`); `ParentInv`, that
a parent's id was given out earlier. Without `CarefulCalls` the second is false
(`jos_env_twice`).
For any clients, open file slots and file ids, the server answers a request with
the file its descriptor was opened on (`DescriptorsNameFiles`, which states
`ServeSound`). The server learns only from page references whether a slot is
free, so `ServeInv` says that a mapped descriptor keeps its slot allocated
(`MappedAllocated`) and its file (`DescriptorHolds`), that the same is true of
the page a request or a reply is carrying (`RequestHolds`, `ReplyReady`), and
that a client being served is still waiting (`ServedWaits`).

Only model-checked:

- every liveness property (`SleeperWoken`, `RecoveryEnds`, `IoReturns`,
  `SleepersRun`, `ZombiesReaped`, `EnvProgress`, `CommandsEnd`): fairness and
  `ENABLED` are out of the prover's reach;
- what recursive definitions compute (parser, meaning of a command line, block
  maps of files, images of mkfs and fsformat, path names): this takes induction
  over data. `BlkSound`, `BlkOpFits`, `MkfsImageSound`, `AllTestsPass`,
  `ShellRight` and `FileSound` are of this kind;
- `FsSound`, `MemoryDivided`, `MemSound`, `StartSound`, the action property
  `StepsRight`, and of `DevicesSound` the clock and the boot loaders:
  conjunctions over several components, for which no inductive invariant has
  been worked out.

## Disagreements between code and documents

Four are shown by runs that end in a violation; `PROJECT.json` quotes the lines.

- `xv_log_full`: `MAXOPBLOCKS` blocks per call, as `param.h` promises, overrun
  the on-disk log, which has one block less than `begin_op` hands out.
- `xv_proc_born`: `kill` of a pid found in a free slot marks the next process
  made there as killed.
- `xv_fs_deadlock`: `open` with `O_CREATE` and `unlink` of one name can wait for
  each other for ever, since this tree's `iput` takes the lock of its inode.
- `jos_env_twice`: a second `env_destroy` of a DYING environment frees the page
  directory another CPU is using.

Met while reading, without a run:

- `waitsch` stores the numbers of the waiting parent (`proc.c:343`); the lab
  text asks for the child's.
- `iput` reads `ref` and drops its reference in two steps (`fs.c:328-353`): of
  two concurrent puts of an unlinked inode neither may find itself the last, and
  the inode is not freed.
- `ideintr` marks a buffer valid also when the read failed (`ide.c:118`), and
  `ideinit` uses `ncpu - 1` as an APIC id (`ide.c:56`).
- `sys_env_set_status` accepts an environment that runs on another CPU
  (`kern/syscall.c:123`); `sys_ipc_try_send` leaves an old `env_ipc_perm` when no
  page is sent (`kern/syscall.c:374`, against line 305) and uses a `pte` that may
  not have been set (`kern/syscall.c:352`).
- `_pipeisclosed` relies on `env_runs` and is right on one CPU only.
- `page_fault_handler` is to destroy an environment whose exception stack
  overflows (`kern/trap.c:390-392`). When the pushes of `_pgfault_upcall` have
  left the page, its test (`kern/trap.c:405`) takes the stack for the ordinary
  one and puts the frame at `UXSTACKTOP`, over the outermost frames. `JosUpcall`
  reaches this (`Overrun`) and claims nothing of what comes after.
- `sched_yield` says it starts "just after the env this CPU was last running"
  (`kern/sched.c:17-19`). After `env_destroy` of that one `curenv` is NULL and the
  search starts at `envs[0]`: on one CPU an environment in slot 0 that creates,
  again and again, a child in slot 1 which exits keeps slot 2 from running.
- `file_set_size` does not flush the indirect block it has cleared slots of
  (`fs/fs.c:455-461`), so after a power failure a file may name a block that is
  free or another's, and requests after such a restart can meet it. `FileSound`
  excepts these slots (`Stale`), and after a restart follows only the self tests.
- `cgaputc` scrolls when the cursor comes to the last row and moves 23 rows
  (`console.c:152-155`). A cursor the firmware left in that row loses its text.
- `mpinit` has a panic for a machine it does not understand (`mp.c:130`), but an
  entry of an unknown kind never lets the loop end (`mp.c:125-128`).
- `preempt` is "meant to be run w/ at most two CPUs" (`usertests.c:357`). With
  the timer's `yield` switched off (`trap.c:106-108`) its three spinning children
  keep two CPUs for ever, and the test does not come to its kills.
- `fork` ignores the results of two page calls (`lib/fork.c:69` and `76`).
- `sys_env_set_trapframe` panics, so `spawn` cannot complete.

## Not modelled

Register programming and instruction sequences without protocol state (8259A,
serial port, entry code), formatting and printing, the JOS monitor, `spawn`,
and the JOS user programs, which are clients of the modelled calls. TLBs, the
fetching of system call arguments from user memory, and disk errors are left
out of the modules that would meet them.

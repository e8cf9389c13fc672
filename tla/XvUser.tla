------------------------------- MODULE XvUser -------------------------------
(***************************************************************************)
(* xv6 as a user program sees it: processes run code whose instructions    *)
(* are system calls, each one a step, on files, directories, pipes,        *)
(* descriptors, processes and memory.  It is what the kernel modules of    *)
(* this project (XvFs, XvBlocks, XvPipe, XvProc, XvVm) promise together,   *)
(* at the grain of whole calls; a call that may sleep (wait, and reads and *)
(* writes of a pipe) is a step that waits, or several.                     *)
(*                                                                         *)
(* Code is given by the modules that extend this one: for each label a     *)
(* sequence of instructions.  An instruction carries what its caller       *)
(* accepts as the result; any other result is the failure the program      *)
(* reports.                                                                *)
(***************************************************************************)
EXTENDS Integers, Sequences, FiniteSets, FiniteSetsExt, TLC

CONSTANTS NPROC,      \* process table slots; slot 1 is init
          NFILE, NOFILE, NINO,
          MAXFILE,    \* cells in a file
          PIPESIZE,
          PGSIZE,     \* bytes of memory in a page
          NFRAME,     \* page frames of memory
          NCPU,
          SIZE0,      \* bytes of memory a program starts with
          DIRSIZ(_)   \* a path element cut to the length of a directory entry

ASSUME UserConstants ==
    /\ {NPROC, NFILE, NOFILE, NINO, MAXFILE, PIPESIZE, PGSIZE, NFRAME, NCPU} \subseteq Nat \ {0}
    /\ SIZE0 \in Nat

Slot == 1..NPROC
init == 1
Root == <<"/">>
Vars == {"stdin", "stdout", "fd", "fd1", "r", "w", "p1", "p2", "p3"}

VARIABLES code,     \* the instructions of each label; never changes
          node,     \* inodes in use, named after the call that made them
          file,     \* open files; ref 0 when free
          pipe,     \* pipe buffers, indexed like the files
          proc,     \* processes
          nextpid,
          spinning, \* processes that compute for ever, each on its CPU
          failed    \* the instruction whose result its program refused

userVars == <<code, node, file, pipe, proc, nextpid, spinning, failed>>

----------------------------------------------------------------------------
NewFile == [type |-> "file", nlink |-> 1, data |-> <<>>, ents |-> <<>>]
NoFile == [type |-> "none", ref |-> 0, node |-> <<>>, off |-> 0, pipe |-> 0, rw |-> ""]
Unused == [st |-> "unused", pid |-> 0, parent |-> 0, label |-> "", pc |-> 0,
           fd |-> [d \in 0..(NOFILE - 1) |-> 0], cwd |-> Root, killed |-> FALSE,
           var |-> [v \in Vars |-> CASE v = "stdin" -> 0 [] v = "stdout" -> 1 [] OTHER -> -1],
           n |-> 0, acc |-> <<>>, sz |-> 0, poked |-> {}]

Dir(self, up) == [type |-> "dir", nlink |-> 1, data |-> <<>>,
                  ents |-> ("." :> self) @@ (".." :> up)]

(* Slot 1 runs init and slot 2, its child, the label given, if any; the    *)
(* disk has the files named.                                               *)
UserInit(table, initcode, main, files) ==
    /\ code = table
    /\ node = (Root :> [Dir(Root, Root) EXCEPT !.ents = @ @@ [f \in files |-> <<f>>]])
              @@ [i \in {<<f>> : f \in files} |-> NewFile]
    /\ file = [f \in 1..NFILE |-> NoFile]
    /\ pipe = [f \in 1..NFILE |-> <<>>]
    /\ proc = [p \in Slot |->
          IF p = init THEN [Unused EXCEPT !.st = "run", !.pid = 1, !.label = initcode, !.pc = 1]
          ELSE IF p = 2 /\ main # "" THEN [Unused EXCEPT !.st = "run", !.pid = 2, !.parent = init,
                                            !.label = main, !.pc = 1, !.sz = SIZE0]
          ELSE Unused]
    /\ nextpid = 1 + Cardinality({p \in Slot : proc[p].st = "run"})
    /\ spinning = {} /\ failed = <<>>

----------------------------------------------------------------------------
(* Instructions.                                                           *)

I(p) == code[proc[p].label][proc[p].pc]

(* The timer does not preempt (trap.c): a process in a loop without a call *)
(* keeps its CPU until it is killed.                                       *)
HasCpu(p) == p \in spinning \/ Cardinality(spinning) < NCPU
Running(p) == /\ proc[p].st = "run" /\ ~proc[p].killed /\ failed = <<>>
              /\ p \notin spinning /\ HasCpu(p)
              /\ proc[p].pc \in DOMAIN code[proc[p].label]
Var(p, v) == proc[p].var[v]

(* Passed over when the call that set the variable failed, or succeeded.   *)
Skipped(p) == \/ "unless" \in DOMAIN I(p) /\ Var(p, I(p).unless) = -1
              \/ "onlyif" \in DOMAIN I(p) /\ Var(p, I(p).onlyif) # -1
At(p, op) == Running(p) /\ I(p).op = op /\ ~Skipped(p)

Next_(r) == [r EXCEPT !.pc = @ + 1]

(* The call of p returns r, p being left as q: the program goes on if it   *)
(* accepts r; if not it exits when that is what it does (quit), and        *)
(* otherwise has failed.                                                   *)
Accepts(p, r) == "want" \in DOMAIN I(p) => r \in I(p).want
Quits(p) == "quit" \in DOMAIN I(p)
Judged(p, r) == failed' = IF Accepts(p, r) \/ Quits(p) THEN failed
                          ELSE <<proc[p].label, proc[p].pc>>
After(p, r, q) == IF ~Accepts(p, r) /\ Quits(p) THEN [q EXCEPT !.label = "exit", !.pc = 1]
                  ELSE Next_(q)
Returned(p, r, q) == proc' = [proc EXCEPT ![p] = After(p, r, q)] /\ Judged(p, r)

Return(p, r) == Returned(p, r, proc[p])

----------------------------------------------------------------------------
(* Path names: sequences of elements, "/" first when absolute.             *)

Lookup(dir, name) ==
    IF dir # <<>> /\ node[dir].type = "dir" /\ DIRSIZ(name) \in DOMAIN node[dir].ents
    THEN node[dir].ents[DIRSIZ(name)] ELSE <<>>

namex(p, path) ==
    LET abs == path # <<>> /\ path[1] = "/"
        at[i \in 0..Len(path)] ==
            IF i = 0 THEN (IF abs THEN Root ELSE proc[p].cwd)
            ELSE IF abs /\ i = 1 THEN Root
            ELSE Lookup(at[i - 1], path[i])
    IN  at[Len(path)]

Named(path) == path # <<>> /\ path # <<"/">>
Last(path) == DIRSIZ(path[Len(path)])

(* nameiparent: <<>> if the path has no last element or no directory for it. *)
Parent(p, path) ==
    IF ~Named(path) THEN <<>>
    ELSE LET d == namex(p, SubSeq(path, 1, Len(path) - 1))
         IN  IF d # <<>> /\ node[d].type = "dir" THEN d ELSE <<>>

(* Inodes with no link go once no descriptor and no process holds them.    *)
Held(i, files, procs) ==
    \/ \E f \in 1..NFILE : files[f].ref > 0 /\ files[f].node = i
    \/ \E p \in Slot : procs[p].st = "run" /\ procs[p].cwd = i
Collected(nodes, files, procs) ==
    [i \in {j \in DOMAIN nodes : nodes[j].nlink > 0 \/ Held(j, files, procs)} |-> nodes[i]]

NewNode(p) == <<proc[p].pid, proc[p].label, proc[p].pc>>
HasFree == Cardinality(DOMAIN node) < NINO

Keeps(vs) == UNCHANGED <<vs, code, nextpid, spinning>>

----------------------------------------------------------------------------
(* Descriptors.                                                            *)

FreeFd(q) == {d \in DOMAIN q.fd : q.fd[d] = 0}
FreeFile == {f \in 1..NFILE : file[f].ref = 0}

Dropped(files, f) == IF f = 0 THEN files
                     ELSE IF files[f].ref = 1 THEN [files EXCEPT ![f] = NoFile]
                     ELSE [files EXCEPT ![f].ref = @ - 1]

(* A pipe's two ends are files that share its index: the buffer goes when  *)
(* both have.                                                              *)
EndsOpen(files, i, rw) == \E f \in 1..NFILE : files[f].ref > 0 /\ files[f].pipe = i
                                              /\ files[f].rw = rw
Drained(files) == [i \in 1..NFILE |->
    IF EndsOpen(files, i, "r") \/ EndsOpen(files, i, "w") THEN pipe[i] ELSE <<>>]

Opened(p, n, rw) ==
    LET f == Min(FreeFile)
        d == Min(FreeFd(proc[p]))
    IN  /\ file' = [file EXCEPT ![f] = [NoFile EXCEPT !.type = "inode", !.ref = 1,
                                                       !.node = n, !.rw = rw]]
        /\ Returned(p, 0, [proc[p] EXCEPT !.fd[d] = f, !.var[I(p).v] = d])

NotOpened(p) == /\ Returned(p, -1, [proc[p] EXCEPT !.var[I(p).v] = -1])
                /\ UNCHANGED file

(* create of a path that exists opens it if it is a file.                  *)
Creatable(p) == /\ Parent(p, I(p).path) # <<>> /\ namex(p, I(p).path) = <<>>
                /\ HasFree

Entered(dir, name, n) == [node EXCEPT ![dir].ents = (name :> n) @@ @]
Made(p, n) == (NewNode(p) :> n)
              @@ Entered(Parent(p, I(p).path), Last(I(p).path), NewNode(p))

(* One step, and unlink too: no two calls meet half way.  What they return *)
(* and leave is right for calls that come to their end; that they do, with *)
(* the inode locks of XvFs, cannot be read off these steps.                *)
open(p) ==
    LET ip == namex(p, I(p).path)
        rw == I(p).rw
        new == I(p).create /\ Creatable(p)
        old == /\ ip # <<>>
               /\ (I(p).create => Parent(p, I(p).path) # <<>> /\ node[ip].type = "file")
               /\ (node[ip].type = "dir" => rw = "r")
        room == FreeFile # {} /\ FreeFd(proc[p]) # {}
    IN  /\ At(p, "open")
        /\ node' = IF new THEN Made(p, NewFile) ELSE node
        /\ IF (new \/ old) /\ room THEN Opened(p, IF new THEN NewNode(p) ELSE ip, rw)
           ELSE NotOpened(p)
        /\ Keeps(pipe)

File(p) == LET d == Var(p, I(p).v)
           IN  IF d \in 0..(NOFILE - 1) THEN proc[p].fd[d] ELSE 0

close(p) ==
    LET f == File(p)
    IN  /\ At(p, "close")
        /\ Returned(p, IF f = 0 THEN -1 ELSE 0,
                    IF f = 0 THEN proc[p] ELSE [proc[p] EXCEPT !.fd[Var(p, I(p).v)] = 0])
        /\ file' = Dropped(file, f)
        /\ pipe' = Drained(file')
        /\ node' = Collected(node, file', proc)
        /\ Keeps(<<>>)

(* dup(v): into the lowest free number, as the shell uses it.              *)
dup(p) ==
    LET f == File(p)
        ok == f # 0 /\ FreeFd(proc[p]) # {}
    IN  /\ At(p, "dup")
        /\ IF ok THEN /\ file' = [file EXCEPT ![f].ref = @ + 1]
                      /\ Returned(p, 0, [proc[p] EXCEPT !.fd[Min(FreeFd(proc[p]))] = f])
           ELSE Return(p, -1) /\ UNCHANGED file
        /\ Keeps(<<node, pipe>>)

sys_pipe(p) ==
    LET q == proc[p]
        f == Min(FreeFile)
        g == Min(FreeFile \ {f})
        d == Min(FreeFd(q))
        e == Min(FreeFd(q) \ {d})
        End(rw) == [NoFile EXCEPT !.type = "pipe", !.ref = 1, !.pipe = f, !.rw = rw]
    IN  /\ At(p, "pipe")
        /\ IF Cardinality(FreeFile) > 1 /\ Cardinality(FreeFd(q)) > 1
           THEN /\ file' = [file EXCEPT ![f] = End("r"), ![g] = End("w")]
                /\ Returned(p, 0, [q EXCEPT !.fd[d] = f, !.fd[e] = g,
                                            !.var["r"] = d, !.var["w"] = e])
           ELSE Return(p, -1) /\ UNCHANGED file
        /\ Keeps(<<node, pipe>>)

----------------------------------------------------------------------------
(* Reading and writing.  Data are cells, strings; I(p).n is how many.      *)

Take(s, n) == SubSeq(s, 1, Min({n, Len(s)}))
Drop(s, n) == SubSeq(s, Min({n, Len(s)}) + 1, Len(s))

Readable(f) == f # 0 /\ file[f].rw \in {"r", "rw"}
Writable(f) == f # 0 /\ file[f].rw \in {"w", "rw"}

(* What fileread gives, <<>> at the end of file, and what it does; nobody  *)
(* types to a program that reads the console.                              *)
Error == <<"error">>
Got(f, n) == IF ~Readable(f) THEN Error
             ELSE IF file[f].type = "pipe" THEN Take(pipe[file[f].pipe], n)
             ELSE Take(Drop(node[file[f].node].data, file[f].off), n)
ReadOf(f, n) ==
    IF ~Readable(f) THEN UNCHANGED <<file, pipe>>
    ELSE IF file[f].type = "pipe"
    THEN /\ pipe[file[f].pipe] # <<>> \/ ~EndsOpen(file, file[f].pipe, "w")
         /\ pipe' = [pipe EXCEPT ![file[f].pipe] = Drop(@, n)]
         /\ UNCHANGED file
    ELSE /\ node[file[f].node].type # "dev"
         /\ file' = [file EXCEPT ![f].off = @ + Len(Got(f, n))]
         /\ UNCHANGED pipe

read(p) == /\ At(p, "read")
           /\ ReadOf(File(p), I(p).n)
           /\ Return(p, Got(File(p), I(p).n))
           /\ Keeps(node)

(* while((n = read(fd, buf, cc)) > 0): all that comes is kept in acc, and  *)
(* cc doubles when I(p).double; at the end acc is what the program judges. *)
drain(p) ==
    LET cc == I(p).n + proc[p].n
        got == Got(File(p), cc)
    IN  /\ At(p, "drain")
        /\ ReadOf(File(p), cc)
        /\ IF got # <<>> /\ got # Error
           THEN /\ proc' = [proc EXCEPT ![p].acc = @ \o got,
                                        ![p].n = IF I(p).double THEN @ + cc ELSE @]
                /\ UNCHANGED failed
           ELSE Returned(p, proc[p].acc, [proc[p] EXCEPT !.acc = <<>>, !.n = 0])
        /\ Keeps(node)

(* The names a directory holds, read to the end.                           *)
readdir(p) ==
    /\ At(p, "readdir")
    /\ LET names == DOMAIN node[file[File(p)].node].ents
       IN  Return(p, IF I(p).has \subseteq names THEN 0 ELSE -1)
    /\ Keeps(<<node, file, pipe>>)

(* A copying loop: the cells read, or on to I(p).eof at the end; what it   *)
(* read is what a write with no data of its own writes.                    *)
readto(p) ==
    LET got == Got(File(p), I(p).n)
    IN  /\ At(p, "readto")
        /\ ReadOf(File(p), I(p).n)
        /\ proc' = [proc EXCEPT ![p] = IF got \in {<<>>, Error}
                                       THEN [@ EXCEPT !.pc = I(p).eof, !.acc = <<>>]
                                       ELSE [Next_(@) EXCEPT !.acc = got]]
        /\ Keeps(node) /\ UNCHANGED failed

jump(p) == /\ At(p, "jump")
           /\ proc' = [proc EXCEPT ![p].label = I(p).label, ![p].pc = I(p).to]
           /\ UNCHANGED failed
           /\ Keeps(<<node, file, pipe>>)

Payload(p) == IF "data" \in DOMAIN I(p) THEN I(p).data ELSE proc[p].acc

(* A device takes the cells at its end, whatever the offset.               *)
write(p) ==
    LET f == File(p)
        w == Payload(p)
        i == file[f].node
        off == IF node[i].type = "dev" THEN Len(node[i].data) ELSE file[f].off
        fits == node[i].type = "file" => off + Len(w) <= MAXFILE
    IN  /\ At(p, "write") /\ (f # 0 => file[f].type # "pipe")
        /\ IF Writable(f) /\ fits
           THEN /\ node' = [node EXCEPT ![i].data =
                               Take(@, off) \o w \o Drop(@, off + Len(w))]
                /\ file' = [file EXCEPT ![f].off = @ + Len(w)]
                /\ Return(p, Len(w))
           ELSE Return(p, -1) /\ UNCHANGED <<node, file>>
        /\ Keeps(pipe)

(* A write to a pipe puts in what there is room for and sleeps for more;   *)
(* with no reader left it fails.                                           *)
write_pipe(p) ==
    LET f == File(p)
        i == file[f].pipe
        left == Drop(Payload(p), proc[p].n)
        room == Take(left, PIPESIZE - Len(pipe[i]))
    IN  /\ At(p, "write") /\ f # 0 /\ file[f].type = "pipe"
        /\ IF ~Writable(f) \/ (~EndsOpen(file, i, "r") /\ Len(left) > PIPESIZE - Len(pipe[i]))
           THEN Returned(p, -1, [proc[p] EXCEPT !.n = 0]) /\ UNCHANGED pipe
           ELSE /\ room # <<>> \/ left = <<>>
                /\ pipe' = [pipe EXCEPT ![i] = @ \o room]
                /\ IF Len(room) = Len(left)
                   THEN Returned(p, Len(Payload(p)), [proc[p] EXCEPT !.n = 0])
                   ELSE /\ proc' = [proc EXCEPT ![p].n = @ + Len(room)]
                        /\ UNCHANGED failed
        /\ Keeps(<<node, file>>)

----------------------------------------------------------------------------
(* Directories.                                                            *)

mkdir(p) ==
    LET d == Parent(p, I(p).path)
    IN  /\ At(p, "mkdir")
        /\ IF Creatable(p)
           THEN node' = Made(p, Dir(NewNode(p), d)) /\ Return(p, 0)
           ELSE Return(p, -1) /\ UNCHANGED node
        /\ Keeps(<<file, pipe>>)

mknod(p) ==
    /\ At(p, "mknod")
    /\ IF Creatable(p) THEN node' = Made(p, [NewFile EXCEPT !.type = "dev"]) /\ Return(p, 0)
       ELSE Return(p, -1) /\ UNCHANGED node
    /\ Keeps(<<file, pipe>>)

link(p) ==
    LET ip == namex(p, I(p).path)
        d == Parent(p, I(p).new)
    IN  /\ At(p, "link")
        /\ IF /\ ip # <<>> /\ node[ip].type # "dir"
              /\ d # <<>> /\ Last(I(p).new) \notin DOMAIN node[d].ents
           THEN /\ node' = [Entered(d, Last(I(p).new), ip) EXCEPT ![ip].nlink = @ + 1]
                /\ Return(p, 0)
           ELSE Return(p, -1) /\ UNCHANGED node
        /\ Keeps(<<file, pipe>>)

(* Mutant: a directory with entries may be removed.                        *)
Empty_any(n) == TRUE
Empty(n) == node[n].type = "dir" => DOMAIN node[n].ents = {".", ".."}

unlink(p) ==
    LET d == Parent(p, I(p).path)
        name == Last(I(p).path)
        ip == Lookup(d, name)
        gone == [node EXCEPT ![d].ents = [x \in DOMAIN @ \ {name} |-> @[x]],
                             ![ip].nlink = @ - 1]
    IN  /\ At(p, "unlink")
        /\ IF d # <<>> /\ name \notin {".", ".."} /\ ip # <<>> /\ Empty(ip)
           THEN /\ node' = Collected(gone, file, proc)
                /\ Return(p, 0)
           ELSE Return(p, -1) /\ UNCHANGED node
        /\ Keeps(<<file, pipe>>)

chdir(p) ==
    LET ip == namex(p, I(p).path)
    IN  /\ At(p, "chdir")
        /\ IF ip # <<>> /\ node[ip].type = "dir"
           THEN /\ Returned(p, 0, [proc[p] EXCEPT !.cwd = ip])
                /\ node' = Collected(node, file, proc')
           ELSE Return(p, -1) /\ UNCHANGED node
        /\ Keeps(<<file, pipe>>)

----------------------------------------------------------------------------
(* Memory.  A process has the pages of its size, a kernel stack and a page *)
(* table; those of a zombie are freed by wait.                             *)

Pages(sz) == (sz + PGSIZE - 1) \div PGSIZE
Frames(q) == IF q.st = "unused" THEN 0 ELSE 2 + Pages(q.sz)
Spare == NFRAME - MapThenSumSet(LAMBDA p : Frames(proc[p]), Slot)

sbrk(p) ==
    LET old == proc[p].sz
        new == old + I(p).n
        ok == new >= 0 /\ Pages(new) - Pages(old) <= Spare
    IN  /\ At(p, "sbrk")
        /\ IF ok
           THEN LET q == [proc[p] EXCEPT !.sz = new,
                             !.poked = {a \in @ : a < Pages(new) * PGSIZE}]
                IN  IF I(p).every THEN proc' = [proc EXCEPT ![p] = q] /\ UNCHANGED failed
                    ELSE Returned(p, old, q)
           ELSE Return(p, -1)
        /\ Keeps(<<node, file, pipe>>)

(* A store to, and a load from, an address of one's own memory.            *)
poke(p) == /\ At(p, "poke") /\ I(p).a < Pages(proc[p].sz) * PGSIZE
           /\ Returned(p, 0, [proc[p] EXCEPT !.poked = @ \cup {I(p).a}])
           /\ Keeps(<<node, file, pipe>>)

peek(p) == /\ At(p, "peek") /\ I(p).a < Pages(proc[p].sz) * PGSIZE
           /\ Return(p, IF I(p).a \in proc[p].poked THEN 1 ELSE 0)
           /\ Keeps(<<node, file, pipe>>)

(* An access the hardware refuses: trap marks the process killed.          *)
fault(p) == /\ \/ At(p, "fault")
               \/ /\ At(p, "poke") \/ At(p, "peek")
                  /\ I(p).a >= Pages(proc[p].sz) * PGSIZE
            /\ proc' = [proc EXCEPT ![p].killed = TRUE]
            /\ UNCHANGED failed
            /\ Keeps(<<node, file, pipe>>)

----------------------------------------------------------------------------
(* Processes.                                                              *)

FreeSlot == {s \in Slot : proc[s].st = "unused"}
CanFork(p) == FreeSlot # {} /\ Frames(proc[p]) <= Spare

Child(p, label) == [proc[p] EXCEPT !.pid = nextpid, !.parent = p, !.label = label,
                                   !.pc = 1, !.n = 0, !.acc = <<>>]

(* fork counts the descriptors it copies.                                  *)
Shared(q) == [f \in 1..NFILE |->
    [file[f] EXCEPT !.ref = @ + Cardinality({d \in DOMAIN q.fd : q.fd[d] = f})]]

(* The child runs its own code; the parent goes on, or (every) forks again *)
(* until no more can be had, counting in n.                                *)
fork(p) ==
    LET s == Min(FreeSlot)
        q == [proc[p] EXCEPT !.var[I(p).v] = nextpid]
    IN  /\ At(p, "fork")
        /\ IF CanFork(p)
           THEN /\ proc' = [proc EXCEPT ![s] = Child(p, I(p).child),
                                        ![p] = IF I(p).every THEN [q EXCEPT !.n = @ + 1]
                                               ELSE After(p, 0, q)]
                /\ file' = Shared(proc[p])
                /\ nextpid' = nextpid + 1
                /\ Judged(p, 0)
           ELSE /\ Returned(p, -1, [proc[p] EXCEPT !.var[I(p).v] = -1])
                /\ UNCHANGED <<file, nextpid>>
        /\ UNCHANGED <<code, node, pipe, spinning>>

(* exit closes every descriptor.                                           *)
Closed(q) == [f \in 1..NFILE |->
    LET n == Cardinality({d \in DOMAIN q.fd : q.fd[d] = f})
    IN  IF n > 0 /\ n = file[f].ref THEN NoFile ELSE [file[f] EXCEPT !.ref = @ - n]]

(* exit, called or forced by a kill: descriptors closed, children given to *)
(* init.                                                                   *)
Gone(p) == /\ proc' = [q \in Slot |->
                 IF q = p THEN [proc[p] EXCEPT !.st = "zombie", !.fd = Unused.fd]
                 ELSE IF proc[q].st # "unused" /\ proc[q].parent = p
                 THEN [proc[q] EXCEPT !.parent = init] ELSE proc[q]]
           /\ file' = Closed(proc[p])
           /\ pipe' = Drained(file')
           /\ node' = Collected(node, file', proc')
           /\ spinning' = spinning \ {p}
           /\ UNCHANGED <<code, failed, nextpid>>

exit(p) == At(p, "exit") /\ Gone(p)
die(p) == proc[p].st = "run" /\ proc[p].killed /\ failed = <<>> /\ HasCpu(p) /\ Gone(p)

spin(p) == /\ At(p, "spin") /\ spinning' = spinning \cup {p}
           /\ UNCHANGED <<code, node, file, pipe, proc, nextpid, failed>>

(* wait: the children reaped are counted down from n when I(p).all; with   *)
(* v, the pid reaped must be that variable's, or others are waited for     *)
(* until it is.                                                            *)
Kids(p) == {q \in Slot : proc[q].st # "unused" /\ proc[q].parent = p}

wait(p) ==
    /\ At(p, "wait")
    /\ \/ \E z \in Kids(p) :
              LET until == "until" \in DOMAIN I(p)
                  other == I(p).v # "" /\ proc[z].pid # Var(p, I(p).v)
                  r == IF other /\ ~until THEN -1 ELSE 0
                  stay == (I(p).all /\ proc[p].n > 1) \/ (until /\ other)
                  me == IF I(p).all THEN [proc[p] EXCEPT !.n = @ - 1] ELSE proc[p]
              IN  /\ proc[z].st = "zombie"
                  /\ proc' = [proc EXCEPT ![z] = Unused, ![p] = IF stay THEN me ELSE Next_(me)]
                  /\ Judged(p, r)
       \/ Kids(p) = {} /\ Return(p, -1)
    /\ Keeps(<<node, file, pipe>>)

(* An idle init reaps whatever it inherits, for ever.                      *)
reap == /\ failed = <<>> /\ proc[init].label = "idle" /\ HasCpu(init)
        /\ \E z \in Kids(init) : /\ proc[z].st = "zombie"
                                 /\ proc' = [proc EXCEPT ![z] = Unused]
        /\ Keeps(<<node, file, pipe, failed>>)

kill(p) ==
    /\ At(p, "kill")
    /\ LET hit == {q \in Slot : proc[q].st # "unused" /\ proc[q].pid = Var(p, I(p).v)}
       IN  /\ proc' = [q \in Slot |-> IF q = p THEN Next_(proc[q])
                                      ELSE IF q \in hit THEN [proc[q] EXCEPT !.killed = TRUE]
                                      ELSE proc[q]]
           /\ Judged(p, IF hit = {} THEN -1 ELSE 0)
    /\ Keeps(<<node, file, pipe>>)

(* exec keeps descriptors, directory and identity; it fails for a path     *)
(* that is no file or arguments that do not fit a page.                    *)
exec(p) ==
    /\ At(p, "exec")
    /\ LET ip == namex(p, I(p).path)
           ok == ip # <<>> /\ node[ip].type = "file" /\ I(p).fits
       IN  IF ok THEN /\ proc' = [proc EXCEPT ![p].label = I(p).prog, ![p].pc = 1,
                                              ![p].sz = SIZE0, ![p].poked = {}]
                      /\ UNCHANGED failed
           ELSE Return(p, -1)
    /\ Keeps(<<node, file, pipe>>)

(* Calls with no effect here (sleep, getpid, a refused argument), and      *)
(* instructions passed over because the fork they depend on failed.        *)
pass(p) == /\ \/ At(p, "pass") /\ Return(p, -1)
              \/ /\ Running(p) /\ Skipped(p)
                 /\ proc' = [proc EXCEPT ![p] = Next_(@)]
                 /\ UNCHANGED failed
           /\ Keeps(<<node, file, pipe>>)

UserNext ==
    \/ reap
    \/ \E p \in Slot :
          \/ open(p) \/ close(p) \/ dup(p) \/ sys_pipe(p)
          \/ read(p) \/ drain(p) \/ readto(p) \/ jump(p) \/ readdir(p) \/ write(p) \/ write_pipe(p)
          \/ mkdir(p) \/ mknod(p) \/ link(p) \/ unlink(p) \/ chdir(p)
          \/ sbrk(p) \/ poke(p) \/ peek(p) \/ fault(p)
          \/ fork(p) \/ exit(p) \/ die(p) \/ spin(p) \/ wait(p) \/ kill(p) \/ exec(p) \/ pass(p)

UserTypeOK ==
    /\ \A p \in Slot : proc[p].st \in {"unused", "run", "zombie"}
    /\ \A f \in 1..NFILE : file[f].ref \in Nat /\ Len(pipe[f]) <= PIPESIZE
    /\ Cardinality(DOMAIN node) <= NINO /\ Cardinality(spinning) <= NCPU
    /\ \A i \in DOMAIN node : node[i].type = "file" => Len(node[i].data) <= MAXFILE
=============================================================================

--------------------------------- MODULE XvFs ---------------------------------
(***************************************************************************)
(* Inodes, directories, path names, the file table and the system calls on *)
(* them in xv6 (src/xv6/fs.c, file.c, sysfile.c), run by several processes *)
(* on several CPUs.                                                        *)
(*                                                                         *)
(* What a process does while it holds an inode's sleep lock cannot be seen *)
(* by the others, so it is one step, unless it waits for a second lock     *)
(* meanwhile.  iput takes the lock of its inode, and drops the reference   *)
(* only after giving that lock back: two steps.  Blocks and contents of    *)
(* files are in XvBlocks, transactions in XvLog.                           *)
(***************************************************************************)
EXTENDS Integers, Sequences, FiniteSets, FiniteSetsExt, TLC

CONSTANTS
    Proc, None,
    initproc,   \* the first process, which never exits
    Inum,       \* inode numbers, a set of positive integers
    Name,       \* file names other than "." and ".."
    OldPath,    \* paths given to calls that look a file up
    NewPath,    \* paths given to calls that make or remove a name
    NFILE, NOFILE,
    MaxCalls    \* bound: system calls made by all processes together

ROOT == 1
Dots == {".", ".."}
File == 1..NFILE
Fd   == 1..NOFILE
Type == {"free", "dir", "file", "dev"}

ASSUME FsConstants ==
    /\ Inum \subseteq Nat \ {0} /\ ROOT \in Inum /\ IsFiniteSet(Inum)
    /\ Name \cap Dots = {} /\ {"a", "b"} \subseteq Name /\ 1..3 \subseteq Inum /\ initproc \in Proc
    /\ \A q \in OldPath \cup NewPath : q \in Seq(Name \cup Dots \cup {"/"})
    /\ NFILE \in Nat \ {0} /\ NOFILE \in Nat \ {0}

VARIABLES
    dinode,   \* the inodes on disk: type and link count
    ents,     \* contents of the directories: name -> inode number, 0 if absent
    ref,      \* inode cache: references (0: no entry)
    mem,      \* inode cache: copy of the inode, None while ip->valid is 0
    lock,     \* inode cache: holder of the sleep lock
    file,     \* the file table: reference count and inode (0: FD_NONE)
    ofile,    \* open files of each process, 0 if none
    cwd,      \* current directory of each process, 0 if it does not exist
    frame,    \* the call each process is executing
    calls,    \* calls started so far
    panic

ondisk  == <<dinode, ents>>
cache == <<ref, mem, lock>>
files == <<file, ofile, cwd>>
vars  == <<ondisk, cache, files, frame, calls, panic>>

Free    == [type |-> "free", nlink |-> 0]
NoEnts  == [n \in Name \cup Dots |-> 0]
Idle    == [pc |-> "idle", call |-> None, path |-> <<>>, new |-> <<>>,
            ip |-> 0, dp |-> 0, put |-> 0, then |-> None]
Gone    == [Idle EXCEPT !.pc = "gone"]

PutThen == {"idle", "namex", "existing", "made", "unlinked", "bad", "linkbad",
            "linkdup", "linkok", "chdir", "exit", "gone"}
Labels  == PutThen \cup {"found", "unlink2", "put", "unref"}
Calls   == {"open", "write", "create", "mkdir", "mknod", "unlink", "link", "chdir"}

TypeOK ==
    /\ dinode \in [Inum -> [type : Type, nlink : Nat]]
    /\ ents \in [Inum -> [Name \cup Dots -> Inum \cup {0}]]
    /\ ref \in [Inum -> Nat] /\ lock \in [Inum -> Proc \cup {None}]
    /\ \A i \in Inum : mem[i] = None \/ mem[i] \in [type : Type, nlink : Nat]
    /\ file \in [File -> [ref : Nat, ip : Inum \cup {0}]]
    /\ ofile \in [Proc -> [Fd -> File \cup {0}]] /\ cwd \in [Proc -> Inum \cup {0}]
    /\ \A p \in Proc : /\ frame[p].pc \in Labels
                       /\ frame[p].call \in Calls \cup {None}
                       /\ frame[p].then \in PutThen \cup {None}
                       /\ {frame[p].ip, frame[p].dp, frame[p].put} \subseteq Inum \cup {0}
    /\ calls \in 0..MaxCalls

\* A directory with the names of m (a function) in it.
Dir(self, parent, m) == m @@ ("." :> self) @@ (".." :> parent) @@ NoEnts

\* Trees to start from, each a sequence of directories with the links and the
\* names they have: the empty root that mkfs makes, and mkdir b; mkdir b/a.
Trees == {<<[nlink |-> 1, ents |-> Dir(1, 1, <<>>)]>>,
          <<[nlink |-> 2, ents |-> Dir(1, 1, "b" :> 2)],
            [nlink |-> 2, ents |-> Dir(2, 1, "a" :> 3)],
            [nlink |-> 1, ents |-> Dir(3, 2, <<>>)]>>}

\* One process, whose current directory is the deepest one.
Init ==
    /\ \E t \in Trees :
          LET deepest == Len(t) IN
          /\ dinode = [i \in Inum |-> IF i \in DOMAIN t THEN [type |-> "dir", nlink |-> t[i].nlink]
                                                        ELSE Free]
          /\ ents = [i \in Inum |-> IF i \in DOMAIN t THEN t[i].ents ELSE NoEnts]
          /\ ref = [i \in Inum |-> IF i = deepest THEN 1 ELSE 0]
          /\ cwd = [p \in Proc |-> IF p = initproc THEN deepest ELSE 0]
    /\ mem = [i \in Inum |-> None] /\ lock = [i \in Inum |-> None]
    /\ file = [f \in File |-> [ref |-> 0, ip |-> 0]]
    /\ ofile = [p \in Proc |-> [d \in Fd |-> 0]]
    /\ frame = [p \in Proc |-> IF p = initproc THEN Idle ELSE Gone]
    /\ calls = 0 /\ panic = None

-----------------------------------------------------------------------------
(* The inode cache.  An entry whose count drops to 0 can only be found     *)
(* again by iget, which clears valid: mem is None as soon as ref is 0.     *)

\* The inode as ilock shows it: read from disk if the entry is not valid.
Inode(i) == IF mem[i] = None THEN dinode[i] ELSE mem[i]

\* ip->lock is free, so that iput can take it; and so can ilock, which
\* panics if the inode is not allocated (ilock_panic).
Unlocked(i) == lock[i] = None
ilock(i)    == Unlocked(i) /\ Inode(i).type # "free"

\* iget, idup: one more reference.
Get(i)      == ref' = [ref EXCEPT ![i] = @ + 1]

\* ilock fills the entry; iupdate writes the new copies v to the disk at once.
Load(i)     == mem' = [mem EXCEPT ![i] = Inode(i)]
Update(v)   == mem' = v @@ mem /\ dinode' = v @@ dinode
Links(i, n) == i :> [Inode(i) EXCEPT !.nlink = @ + n]

\* iput's test: valid, no links, and this is the only reference.
LastPut_any(i) == mem[i] # None /\ mem[i].nlink = 0
LastPut(i) == mem[i] # None /\ mem[i].nlink = 0 /\ ref[i] = 1

\* iput, having freed the inode, clears ip->valid.
Cleared(i) == None

Goto(p, f) == panic = None /\ frame' = [frame EXCEPT ![p] = f]
\* Go on with iput(i), and then with the label k of frame f.
PutThenGo(p, i, k, f) == Goto(p, [f EXCEPT !.pc = "put", !.put = i, !.then = k])
PutReturn(p, i) == PutThenGo(p, i, "idle", Idle)
Panic(why) == /\ panic = None /\ panic' = why
              /\ UNCHANGED <<ondisk, cache, files, frame, calls>>

iput(p) ==
    LET i == frame[p].put IN
    /\ frame[p].pc = "put" /\ Unlocked(i)
    /\ IF LastPut(i)
       THEN /\ ents' = [ents EXCEPT ![i] = NoEnts]
            /\ dinode' = [dinode EXCEPT ![i] = Free]
            /\ mem' = [mem EXCEPT ![i] = Cleared(i)]
       ELSE UNCHANGED <<ondisk, mem>>
    /\ Goto(p, [frame[p] EXCEPT !.pc = "unref"])
    /\ UNCHANGED <<ref, lock, files, calls, panic>>

\* The end of iput.  chdir and exit change cwd right after it returns.
iput_unref(p) ==
    LET f == frame[p]
        i == f.put IN
    /\ f.pc = "unref"
    /\ ref' = [ref EXCEPT ![i] = @ - 1]
    /\ mem' = IF ref[i] = 1 THEN [mem EXCEPT ![i] = None] ELSE mem
    /\ cwd' = IF f.then = "chdir" THEN [cwd EXCEPT ![p] = f.ip]
              ELSE IF f.then = "gone" THEN [cwd EXCEPT ![p] = 0] ELSE cwd
    /\ Goto(p, CASE f.then \in {"idle", "chdir"} -> Idle
                 [] f.then = "gone" -> Gone
                 [] OTHER -> [f EXCEPT !.pc = f.then, !.put = 0, !.then = None])
    /\ UNCHANGED <<ondisk, lock, file, ofile, calls, panic>>

-----------------------------------------------------------------------------
(* Path names. *)

\* Calls that stop at the parent of the last name: link does so for its
\* second path, which it starts on when the first has been found (dp # 0).
WantParent(f) == f.call \in {"create", "mkdir", "mknod", "unlink"} \/ f.dp # 0

\* namex starts at the root for a path that begins with a slash.
Absolute(path) == path # <<>> /\ path[1] = "/"
Start(p, path) == IF Absolute(path) THEN ROOT ELSE cwd[p]
Names(path)    == IF Absolute(path) THEN Tail(path) ELSE path

\* Enter a system call that takes a path (link: two).
syscall(p, c, old, new) ==
    /\ frame[p].pc = "idle" /\ calls < MaxCalls
    /\ calls' = calls + 1
    /\ Get(Start(p, old))
    /\ Goto(p, [Idle EXCEPT !.pc = "namex", !.call = c, !.path = Names(old), !.new = new,
                            !.ip = Start(p, old)])
    /\ UNCHANGED <<ondisk, mem, lock, files, panic>>

\* namex returns 0 after iput(i): link has to undo its nlink++.
PutFailed(p, i) ==
    IF frame[p].call = "link" /\ frame[p].dp # 0
    THEN PutThenGo(p, i, "linkbad", [frame[p] EXCEPT !.ip = 0, !.path = <<>>])
    ELSE PutReturn(p, i)

\* One round of the loop of namex, or its end.
namex(p) ==
    LET f == frame[p]
        d == f.ip
        next == ents[d][f.path[1]] IN
    /\ f.pc = "namex"
    /\ \/ /\ f.path = <<>> /\ ~WantParent(f)
          /\ Goto(p, [f EXCEPT !.pc = "found"])
          /\ UNCHANGED <<ondisk, cache, files, calls, panic>>
       \/ /\ f.path = <<>> /\ WantParent(f)
          /\ PutFailed(p, d)
          /\ UNCHANGED <<ondisk, cache, files, calls, panic>>
       \/ /\ f.path # <<>> /\ ilock(d) /\ Load(d)
          /\ IF Inode(d).type # "dir"
             THEN PutFailed(p, d) /\ UNCHANGED ref
             ELSE IF WantParent(f) /\ Len(f.path) = 1
             THEN Goto(p, [f EXCEPT !.pc = "found"]) /\ UNCHANGED ref
             ELSE IF next = 0
             THEN PutFailed(p, d) /\ UNCHANGED ref
             ELSE /\ Get(next)
                  /\ PutThenGo(p, d, "namex", [f EXCEPT !.ip = next, !.path = Tail(@)])
          /\ UNCHANGED <<ondisk, lock, files, calls, panic>>

-----------------------------------------------------------------------------
(* System calls, from the point where namex has returned an inode. *)

Found(p, cs) == frame[p].pc = "found" /\ frame[p].call \in cs
LastName(p)  == frame[p].path[1]
FreeFiles    == {f \in File : file[f].ref = 0}
FreeFds(p)   == {d \in Fd : ofile[p][d] = 0}

\* filealloc and fdalloc, and the assignments to f at the end of sys_open.
\* If the descriptors have run out, fileclose gives f back.
OpenFile(p, i) ==
    IF FreeFiles # {} /\ FreeFds(p) # {}
    THEN /\ file'  = [file EXCEPT ![Min(FreeFiles)] = [ref |-> 1, ip |-> i]]
         /\ ofile' = [ofile EXCEPT ![p][Min(FreeFds(p))] = Min(FreeFiles)]
         /\ Goto(p, Idle)
    ELSE PutReturn(p, i) /\ UNCHANGED <<file, ofile>>

\* The inode whose lock p needs for its next step, 0 if none.
Wants(p) ==
    LET f == frame[p] IN
    CASE f.pc = "put" -> f.put
      [] f.pc = "namex" /\ f.path # <<>> -> f.ip
      [] f.pc \in {"found", "existing", "unlink2"} -> f.ip
      [] f.pc = "linkbad" -> f.dp
      [] OTHER -> 0

\* ilock has read an inode that is not allocated.
ilock_panic(p) ==
    /\ frame[p].pc # "put" /\ Wants(p) # 0
    /\ Unlocked(Wants(p)) /\ Inode(Wants(p)).type = "free"
    /\ Panic("ilock: no type")

\* sys_open without O_CREATE; "write" is a mode other than O_RDONLY.
sys_open(p) ==
    LET i == frame[p].ip IN
    /\ Found(p, {"open", "write"}) /\ ilock(i) /\ Load(i)
    /\ IF Inode(i).type = "dir" /\ frame[p].call = "write"
       THEN PutReturn(p, i) /\ UNCHANGED <<file, ofile>>
       ELSE OpenFile(p, i)
    /\ UNCHANGED <<ondisk, ref, lock, cwd, calls, panic>>

\* ialloc takes the first inode that is free on disk.
FreeInodes == {i \in Inum : dinode[i].type = "free"}

NewType(p) == CASE frame[p].call = "mkdir" -> "dir"
                [] frame[p].call = "mknod" -> "dev"
                [] OTHER -> "file"

\* create: the parent is locked.  Somebody may have made the name meanwhile.
create(p) ==
    LET dp == frame[p].ip
        ip == ents[dp][LastName(p)]
        n  == Min(FreeInodes)
        isdir == NewType(p) = "dir" IN
    /\ Found(p, {"create", "mkdir", "mknod"}) /\ ilock(dp)
    /\ \/ /\ ip # 0 /\ Load(dp) /\ Get(ip)
          /\ PutThenGo(p, dp, "existing", [frame[p] EXCEPT !.ip = ip, !.path = <<>>])
          /\ UNCHANGED <<ondisk, lock, files, calls, panic>>
       \/ ip = 0 /\ FreeInodes = {} /\ Panic("ialloc: no inodes")
       \/ /\ ip = 0 /\ FreeInodes # {} /\ Get(n)
          /\ LET new == IF mem[n] = None THEN NewType(p) ELSE mem[n].type
             IN  Update(n :> [type |-> new, nlink |-> 1]
                          @@ Links(dp, IF isdir THEN 1 ELSE 0))
          /\ ents' = [ents EXCEPT ![dp][LastName(p)] = n,
                                  ![n] = IF isdir THEN [NoEnts EXCEPT !["."] = n, ![".."] = dp]
                                                  ELSE NoEnts]
          /\ lock' = [lock EXCEPT ![n] = p]
          /\ PutThenGo(p, dp, "made", [frame[p] EXCEPT !.ip = n, !.path = <<>>])
          /\ UNCHANGED <<files, calls, panic>>

\* create found the name: only an existing file may be opened.
create_existing(p) ==
    LET i == frame[p].ip IN
    /\ frame[p].pc = "existing" /\ ilock(i) /\ Load(i)
    /\ IF frame[p].call = "create" /\ Inode(i).type = "file"
       THEN OpenFile(p, i)
       ELSE PutReturn(p, i) /\ UNCHANGED <<file, ofile>>
    /\ UNCHANGED <<ondisk, ref, lock, cwd, calls, panic>>

\* create returned the new inode, locked, to sys_open, sys_mkdir or sys_mknod.
create_made(p) ==
    LET i == frame[p].ip IN
    /\ frame[p].pc = "made"
    /\ lock' = [lock EXCEPT ![i] = None]
    /\ IF frame[p].call = "create" THEN OpenFile(p, i)
       ELSE PutReturn(p, i) /\ UNCHANGED <<file, ofile>>
    /\ UNCHANGED <<ondisk, ref, mem, cwd, calls, panic>>

\* sys_unlink up to the lock of the file, which it waits for holding the directory.
sys_unlink(p) ==
    LET dp == frame[p].ip
        ip == ents[dp][LastName(p)] IN
    /\ Found(p, {"unlink"}) /\ ilock(dp) /\ Load(dp)
    /\ IF LastName(p) \in Dots \/ ip = 0
       THEN PutReturn(p, dp) /\ UNCHANGED <<ref, lock>>
       ELSE /\ Get(ip)
            /\ lock' = [lock EXCEPT ![dp] = p]
            /\ Goto(p, [frame[p] EXCEPT !.pc = "unlink2", !.ip = ip, !.dp = dp])
    /\ UNCHANGED <<ondisk, files, calls, panic>>

isdirempty(i) == \A n \in Name : ents[i][n] = 0

\* The file is locked too: remove the name.
unlink2(p) ==
    LET ip == frame[p].ip
        dp == frame[p].dp
        isdir == Inode(ip).type = "dir" IN
    /\ frame[p].pc = "unlink2" /\ ilock(ip)
    /\ IF Inode(ip).nlink < 1 THEN Panic("unlink: nlink < 1")
       ELSE IF isdir /\ ~isdirempty(ip)
       THEN /\ Load(ip) /\ PutThenGo(p, ip, "bad", [frame[p] EXCEPT !.ip = 0])
            /\ UNCHANGED <<ondisk, ref, lock, files, calls, panic>>
       ELSE
          /\ ents' = [ents EXCEPT ![dp][LastName(p)] = 0]
          /\ Update(ip :> Inode(ip) @@ Links(dp, IF isdir THEN -1 ELSE 0))
          /\ lock' = [lock EXCEPT ![dp] = None, ![ip] = p]
          /\ PutThenGo(p, dp, "unlinked", [frame[p] EXCEPT !.dp = 0, !.path = <<>>])
          /\ UNCHANGED <<ref, files, calls, panic>>

unlink_bad(p) ==
    /\ frame[p].pc = "bad"
    /\ lock' = [lock EXCEPT ![frame[p].dp] = None]
    /\ PutReturn(p, frame[p].dp)
    /\ UNCHANGED <<ondisk, ref, mem, files, calls, panic>>

\* sys_unlink has given up the directory and still holds the file.
unlinked(p) ==
    LET ip == frame[p].ip IN
    /\ frame[p].pc = "unlinked"
    /\ Update(Links(ip, -1))
    /\ lock' = [lock EXCEPT ![ip] = None]
    /\ PutReturn(p, ip)
    /\ UNCHANGED <<ents, ref, files, calls, panic>>

\* sys_link, first path: nlink++ before the name exists.
FirstLink(i) == Links(i, 1)

sys_link(p) ==
    LET f == frame[p]
        i == f.ip IN
    /\ Found(p, {"link"}) /\ f.dp = 0 /\ ilock(i)
    /\ IF Inode(i).type = "dir"
       THEN Load(i) /\ PutReturn(p, i) /\ UNCHANGED <<dinode, ref>>
       ELSE /\ Update(FirstLink(i)) /\ Get(Start(p, f.new))
            /\ Goto(p, [f EXCEPT !.pc = "namex", !.path = Names(f.new), !.new = <<>>,
                                 !.ip = Start(p, f.new), !.dp = i])
    /\ UNCHANGED <<ents, lock, files, calls, panic>>

\* sys_link, second path: dirlink in the directory.  If the name exists,
\* dirlink calls iput on its inode while the directory is locked.
link_name(p) ==
    LET f == frame[p]
        dp == f.ip
        e  == ents[dp][LastName(p)] IN
    /\ Found(p, {"link"}) /\ f.dp # 0 /\ ilock(dp) /\ Load(dp)
    /\ IF e # 0
       THEN /\ Get(e)
            /\ lock' = [lock EXCEPT ![dp] = p]
            /\ PutThenGo(p, e, "linkdup", [f EXCEPT !.path = <<>>]) /\ UNCHANGED ents
       ELSE /\ ents' = [ents EXCEPT ![dp][LastName(p)] = f.dp]
            /\ PutThenGo(p, dp, "linkok", [f EXCEPT !.ip = 0, !.path = <<>>]) /\ UNCHANGED <<ref, lock>>
    /\ UNCHANGED <<dinode, files, calls, panic>>

link_dup(p) ==
    /\ frame[p].pc = "linkdup"
    /\ lock' = [lock EXCEPT ![frame[p].ip] = None]
    /\ PutThenGo(p, frame[p].ip, "linkbad", [frame[p] EXCEPT !.ip = 0])
    /\ UNCHANGED <<ondisk, ref, mem, files, calls, panic>>

link_ok(p) ==
    /\ frame[p].pc = "linkok" /\ PutReturn(p, frame[p].dp)
    /\ UNCHANGED <<ondisk, cache, files, calls, panic>>

link_bad(p) ==
    LET i == frame[p].dp IN
    /\ frame[p].pc = "linkbad" /\ ilock(i)
    /\ Update(Links(i, -1)) /\ PutReturn(p, i)
    /\ UNCHANGED <<ents, ref, lock, files, calls, panic>>

\* The old directory is put before cwd is replaced.
sys_chdir(p) ==
    LET i == frame[p].ip IN
    /\ Found(p, {"chdir"}) /\ ilock(i) /\ Load(i)
    /\ IF Inode(i).type # "dir" THEN PutReturn(p, i) ELSE PutThenGo(p, cwd[p], "chdir", frame[p])
    /\ UNCHANGED <<ondisk, ref, lock, files, calls, panic>>

-----------------------------------------------------------------------------
(* Descriptors and processes. *)

\* fileclose of descriptor d, going on with k.
LastClose(f) == file[f].ref = 1

fileclose(p, d, k) ==
    LET f == ofile[p][d] IN
    /\ ofile' = [ofile EXCEPT ![p][d] = 0]
    /\ IF LastClose(f)
       THEN /\ file' = [file EXCEPT ![f] = [ref |-> 0, ip |-> 0]]
            /\ PutThenGo(p, file[f].ip, k, Idle)
       ELSE /\ file' = [file EXCEPT ![f].ref = @ - 1]
            /\ Goto(p, [Idle EXCEPT !.pc = k])

sys_close(p, d) ==
    /\ frame[p].pc = "idle" /\ calls < MaxCalls /\ ofile[p][d] # 0
    /\ calls' = calls + 1 /\ fileclose(p, d, "idle")
    /\ UNCHANGED <<ondisk, cache, cwd, panic>>

sys_dup(p, d) ==
    /\ frame[p].pc = "idle" /\ calls < MaxCalls /\ ofile[p][d] # 0 /\ FreeFds(p) # {}
    /\ panic = None /\ calls' = calls + 1
    /\ file' = [file EXCEPT ![ofile[p][d]].ref = @ + 1]
    /\ ofile' = [ofile EXCEPT ![p][Min(FreeFds(p))] = ofile[p][d]]
    /\ UNCHANGED <<ondisk, cache, cwd, frame, panic>>

\* fork gives the child the open files and the current directory.
fork(p, q) ==
    /\ frame[p].pc = "idle" /\ frame[q].pc = "gone" /\ calls < MaxCalls
    /\ calls' = calls + 1
    /\ ofile' = [ofile EXCEPT ![q] = ofile[p]]
    /\ file' = [f \in File |-> [file[f] EXCEPT
                   !.ref = @ + Cardinality({d \in Fd : ofile[p][d] = f})]]
    /\ Get(cwd[p]) /\ cwd' = [cwd EXCEPT ![q] = cwd[p]]
    /\ Goto(q, Idle)
    /\ UNCHANGED <<ondisk, mem, lock, panic>>

\* exit: close the files one after the other, then put the current directory.
exit(p) ==
    /\ frame[p].pc \in {"idle", "exit"} /\ p # initproc
    /\ IF \E d \in Fd : ofile[p][d] # 0
       THEN fileclose(p, Min({d \in Fd : ofile[p][d] # 0}), "exit") /\ UNCHANGED cwd
       ELSE PutThenGo(p, cwd[p], "gone", Idle) /\ UNCHANGED files
    /\ UNCHANGED <<ondisk, cache, calls, panic>>

Enter(p) ==
    \/ \E c \in {"open", "write", "chdir"}, q \in OldPath : syscall(p, c, q, <<>>)
    \/ \E c \in {"create", "mkdir", "mknod", "unlink"}, q \in NewPath : syscall(p, c, q, <<>>)
    \/ \E q \in OldPath, r \in NewPath : syscall(p, "link", q, r)
    \/ \E d \in Fd : sys_close(p, d) \/ sys_dup(p, d)
    \/ \E q \in Proc : fork(p, q)
    \/ exit(p)

Step(p) ==
    \/ iput(p) \/ iput_unref(p) \/ ilock_panic(p) \/ namex(p)
    \/ sys_open(p) \/ create(p) \/ create_existing(p) \/ create_made(p)
    \/ sys_unlink(p) \/ unlink2(p) \/ unlink_bad(p) \/ unlinked(p)
    \/ sys_link(p) \/ link_name(p) \/ link_dup(p) \/ link_ok(p) \/ link_bad(p)
    \/ sys_chdir(p)

Next == \E p \in Proc : Enter(p) \/ Step(p)

Spec == Init /\ [][Next]_vars

-----------------------------------------------------------------------------
(* Properties. *)

\* The references in memory to inode i: current directories, open files and
\* the pointers of calls in progress.  chdir and exit put the current
\* directory, so theirs is counted by the put.
Pointers(i) ==
    {<<p, "cwd">> : p \in {q \in Proc : cwd[q] = i /\ frame[q].then \notin {"chdir", "gone"}}}
    \cup {<<p, "ip">>  : p \in {q \in Proc : frame[q].ip = i}}
    \cup {<<p, "dp">>  : p \in {q \in Proc : frame[q].dp = i}}
    \cup {<<p, "put">> : p \in {q \in Proc : frame[q].put = i}}
    \cup {<<f, "file">> : f \in {g \in File : file[g].ip = i}}

\* ip->ref is the number of pointers to the inode and f->ref the number of
\* descriptors, at every point of every interleaving of the calls: no error
\* path of sysfile.c forgets an iput or does one too many.
RefsExact ==
    /\ \A i \in Inum : ref[i] = Cardinality(Pointers(i))
    /\ \A f \in File : file[f].ref = Cardinality({x \in Proc \X Fd : ofile[x[1]][x[2]] = f})

\* The directories that can be reached by names from the root.
Subdirs(D) == D \cup {i \in Inum : dinode[i].type = "dir"
                                     /\ \E d \in D, n \in Name : ents[d][n] = i}
Reachable == LET grow[k \in 0..Cardinality(Inum)] ==
                    IF k = 0 THEN {ROOT} ELSE Subdirs(grow[k-1])
             IN  grow[Cardinality(Inum)]

Entries(i, D) == {x \in D \X (Name \cup {".."}) : ents[x[1]][x[2]] = i}

\* The link count of an inode is never below the number of names that lead to
\* it in the tree, and what a name of the tree leads to is allocated: a file
\* in use by a name is not freed (create, sys_link and sys_unlink order their
\* updates of nlink and of the directory so).
LinksCover == \A i \in Inum :
    LET n == Cardinality(Entries(i, Reachable)) IN
    /\ dinode[i].nlink >= n
    /\ n > 0 => dinode[i].type # "free"

\* An open file and a current directory stay allocated after their last name
\* is gone: iput frees an inode only when nobody else has a pointer to it.
InUse ==
    /\ \A f \in File : file[f].ip # 0 => dinode[file[f].ip].type \in {"file", "dir", "dev"}
    /\ \A p \in Proc : cwd[p] # 0 /\ frame[p].then \notin {"chdir", "gone"}
                          => dinode[cwd[p]].type = "dir"

\* usertests.c:855 "another concurrent link/unlink/create test, to look for
\* deadlocks": no two processes each wait for an inode the other has locked.
NoDeadlock ==
    LET waits == {x \in Proc \X Proc : Wants(x[1]) # 0 /\ lock[Wants(x[1])] = x[2]}
    IN  \A p, q \in Proc : ~(<<p, q>> \in waits /\ <<q, p>> \in waits)
=============================================================================

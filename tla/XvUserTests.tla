---------------------------- MODULE XvUserTests -----------------------------
(***************************************************************************)
(* usertests.c, the test suite of xv6, as code of the machine of XvUser.   *)
(* Each test is the sequence of its system calls with the results it       *)
(* accepts: a call whose result it ignores is Try(...), one that must fail *)
(* is Fails(...).  A loop is unrolled to the bound named beside it, a      *)
(* write of a whole buffer is a cell of data, and printing is left out.    *)
(***************************************************************************)
EXTENDS XvUser

Fails(i) == [i EXCEPT !.want = {-1}]
Try(i) == [f \in DOMAIN i \ {"want"} |-> i[f]]

Named1(op, path) == [op |-> op, path |-> path, want |-> {0}]
Mkdir(path) == Named1("mkdir", path)
Chdir(path) == Named1("chdir", path)
Unlink(path) == Named1("unlink", path)
Link(path, new) == [op |-> "link", path |-> path, new |-> new, want |-> {0}]
OpenAs(v, path, rw, create) ==
    [op |-> "open", v |-> v, path |-> path, rw |-> rw, create |-> create, want |-> {0}]
Open(path) == OpenAs("fd", path, "r", FALSE)
OpenRW(path) == OpenAs("fd", path, "rw", FALSE)
Create(path) == OpenAs("fd", path, "rw", TRUE)
CreateR(path) == OpenAs("fd", path, "r", TRUE)
Close(v) == [op |-> "close", v |-> v]
Write(v, data) == [op |-> "write", v |-> v, data |-> data, want |-> {Len(data)}]
Read(v, n, got) == [op |-> "read", v |-> v, n |-> n, want |-> {got}]
Drain(v, n, double, want) == [op |-> "drain", v |-> v, n |-> n, double |-> double, want |-> want]
Pipe == [op |-> "pipe", want |-> {0}]
Fork(v, child) == [op |-> "fork", v |-> v, child |-> child, every |-> FALSE, want |-> {0}]
Wait == [op |-> "wait", v |-> "", all |-> FALSE]
Kill(v) == [op |-> "kill", v |-> v]
Exit == [op |-> "exit"]
Spin == [op |-> "spin"]
Sleep == [op |-> "sleep"]    \* for longer than it will live
Pass == [op |-> "pass"]
Oops == [op |-> "pass", want |-> {0}]
Sbrk(n, was) == [op |-> "sbrk", n |-> n, every |-> FALSE, want |-> {was}]
Peek(a, want) == [op |-> "peek", a |-> a, want |-> want]
Poke(a) == [op |-> "poke", a |-> a]
Unless(v, i) == ("unless" :> v) @@ i

(* F(1) \o ... \o F(n), an unrolled loop.                                  *)
Loop(n, F(_)) == LET upto[i \in 0..n] == IF i = 0 THEN <<>> ELSE upto[i - 1] \o F(i)
                 IN  upto[n]

N(c, i) == c \o ToString(i)

----------------------------------------------------------------------------
(* Directories and names.                                                  *)

iputtest == <<Mkdir(<<"iputdir">>), Chdir(<<"iputdir">>), Unlink(<<"..", "iputdir">>),
              Chdir(<<"/">>)>>

exitiputtest == <<Fork("p1", "exitiput"), Wait>>
exitiput == <<Mkdir(<<"iputdir">>), Chdir(<<"iputdir">>), Unlink(<<"..", "iputdir">>), Exit>>

openiputtest == <<Mkdir(<<"oidir">>), Fork("p1", "openiput"), Unlink(<<"oidir">>), Wait>>
openiput == <<Fails(OpenRW(<<"oidir">>)), Exit>>

opentest == <<Open(<<"echo">>), Close("fd"), Fails(Open(<<"doesnotexist">>))>>

createtest ==
    LET Make(i) == <<Try(Create(<<N("a", i)>>)), Close("fd")>>
        Gone1(i) == <<Try(Unlink(<<N("a", i)>>))>>
    IN  Loop(2, Make) \o Loop(2, Gone1)

rmdot == <<Mkdir(<<"dots">>), Chdir(<<"dots">>), Fails(Unlink(<<".">>)), Fails(Unlink(<<"..">>)),
           Chdir(<<"/">>), Fails(Unlink(<<"dots", ".">>)), Fails(Unlink(<<"dots", "..">>)),
           Unlink(<<"dots">>)>>

d14 == "12345678901234"
d15 == "123456789012345"
fourteen == <<Mkdir(<<d14>>), Mkdir(<<d14, d15>>), CreateR(<<d15, d15, d15>>), Close("fd"),
              Open(<<d14, d14, d14>>), Close("fd"), Fails(Mkdir(<<d14, d14>>)),
              Fails(Mkdir(<<d15, d14>>))>>

subdir_make ==
    <<Try(Unlink(<<"ff">>)), Mkdir(<<"dd">>), Create(<<"dd", "ff">>), Try(Write("fd", <<"f">>)),
      Close("fd"), Fails(Unlink(<<"dd">>)), Mkdir(<<"/", "dd", "dd">>),
      Create(<<"dd", "dd", "ff">>), Try(Write("fd", <<"F">>)), Close("fd"),
      Open(<<"dd", "dd", "..", "ff">>), Read("fd", 4, <<"f">>), Close("fd"),
      Link(<<"dd", "dd", "ff">>, <<"dd", "dd", "ffff">>), Unlink(<<"dd", "dd", "ff">>),
      Fails(Open(<<"dd", "dd", "ff">>))>>
subdir_walk ==
    <<Chdir(<<"dd">>), Chdir(<<"dd", "..", "..", "dd">>), Chdir(<<"dd", "..", "..", "..", "dd">>),
      Chdir(<<".", "..">>), Open(<<"dd", "dd", "ffff">>), Read("fd", 4, <<"F">>), Close("fd"),
      Fails(Open(<<"dd", "dd", "ff">>))>>
subdir_refused ==
    <<Fails(Create(<<"dd", "ff", "ff">>)), Fails(Create(<<"dd", "xx", "ff">>)),
      Fails(CreateR(<<"dd">>)), Fails(OpenRW(<<"dd">>)), Fails(OpenAs("fd", <<"dd">>, "w", FALSE)),
      Fails(Link(<<"dd", "ff", "ff">>, <<"dd", "dd", "xx">>)),
      Fails(Link(<<"dd", "xx", "ff">>, <<"dd", "dd", "xx">>)),
      Fails(Link(<<"dd", "ff">>, <<"dd", "dd", "ffff">>)),
      Fails(Mkdir(<<"dd", "ff", "ff">>)), Fails(Mkdir(<<"dd", "xx", "ff">>)),
      Fails(Mkdir(<<"dd", "dd", "ffff">>)), Fails(Unlink(<<"dd", "xx", "ff">>)),
      Fails(Unlink(<<"dd", "ff", "ff">>)), Fails(Chdir(<<"dd", "ff">>)),
      Fails(Chdir(<<"dd", "xx">>))>>
subdir_remove ==
    <<Unlink(<<"dd", "dd", "ffff">>), Unlink(<<"dd", "ff">>), Fails(Unlink(<<"dd">>)),
      Unlink(<<"dd", "dd">>), Unlink(<<"dd">>)>>
subdir == subdir_make \o subdir_walk \o subdir_refused \o subdir_remove

dirfile ==
    <<CreateR(<<"dirfile">>), Close("fd"), Fails(Chdir(<<"dirfile">>)),
      Fails(Open(<<"dirfile", "xx">>)), Fails(CreateR(<<"dirfile", "xx">>)),
      Fails(Mkdir(<<"dirfile", "xx">>)), Fails(Unlink(<<"dirfile", "xx">>)),
      Fails(Link(<<"README">>, <<"dirfile", "xx">>)), Unlink(<<"dirfile">>),
      Fails(OpenRW(<<".">>)), Try(Open(<<".">>)), Fails(Write("fd", <<"x">>)), Close("fd")>>

(* NINODE + 1 nested directories: 2.                                       *)
iref ==
    LET Nest(i) ==
            <<Mkdir(<<"irefd">>), Chdir(<<"irefd">>), Try(Mkdir(<<>>)), Try(Link(<<"README">>, <<>>)),
              Try(CreateR(<<>>)), Close("fd"), Try(CreateR(<<"xx">>)), Close("fd"),
              Try(Unlink(<<"xx">>))>>
    IN  Loop(2, Nest) \o <<Try(Chdir(<<"/">>))>>

(* 500 names: 3.                                                           *)
bigdir ==
    LET Add(i) == <<Link(<<"bd">>, <<N("x", i)>>)>>
        Remove(i) == <<Unlink(<<N("x", i)>>)>>
    IN  <<Try(Unlink(<<"bd">>)), CreateR(<<"bd">>), Close("fd")>> \o Loop(3, Add)
        \o <<Try(Unlink(<<"bd">>))>> \o Loop(3, Remove)

----------------------------------------------------------------------------
(* Contents.                                                               *)

writetest ==
    LET Both(i) == <<Write("fd", <<"a">>), Write("fd", <<"b">>)>>
    IN  <<Create(<<"small">>)>> \o Loop(2, Both)
        \o <<Close("fd"), Open(<<"small">>), Read("fd", 4, <<"a", "b", "a", "b">>), Close("fd"),
             Unlink(<<"small">>)>>

(* As written it refuses only the loss of the last block.                  *)
writetest1 ==
    LET Block(i) == <<Write("fd", <<ToString(i)>>)>>
        Upto(n) == [i \in 1..n |-> ToString(i)]
    IN  <<Create(<<"big">>)>> \o Loop(MAXFILE, Block)
        \o <<Close("fd"), Open(<<"big">>),
             Drain("fd", 1, FALSE, {Upto(n) : n \in (0..MAXFILE) \ {MAXFILE - 1}}),
             Close("fd"), Unlink(<<"big">>)>>

bigwrite ==
    LET Cells(n) == [j \in 1..n |-> "w"]
        Size(n) == <<Create(<<"bigwrite">>), Write("fd", Cells(n)), Write("fd", Cells(n)),
                     Close("fd"), Try(Unlink(<<"bigwrite">>))>>
    IN  <<Try(Unlink(<<"bigwrite">>))>> \o Loop(MAXFILE \div 2, Size)

bigfile ==
    LET Put(i) == <<Write("fd", <<ToString(i), ToString(i)>>)>>
    IN  <<Try(Unlink(<<"bigfile">>)), Create(<<"bigfile">>)>> \o Loop(2, Put)
        \o <<Close("fd"), Open(<<"bigfile">>), Drain("fd", 1, FALSE, {<<"1", "1", "2", "2">>}),
             Close("fd"), Try(Unlink(<<"bigfile">>))>>

unlinkread ==
    <<Create(<<"unlinkread">>), Try(Write("fd", <<"h">>)), Close("fd"), OpenRW(<<"unlinkread">>),
      Unlink(<<"unlinkread">>), Try(OpenAs("fd1", <<"unlinkread">>, "rw", TRUE)),
      Try(Write("fd1", <<"y">>)), Close("fd1"), Read("fd", 4, <<"h">>),
      Write("fd", <<"h", "h">>), Close("fd"), Try(Unlink(<<"unlinkread">>))>>

linktest ==
    <<Try(Unlink(<<"lf1">>)), Try(Unlink(<<"lf2">>)), Create(<<"lf1">>), Write("fd", <<"h">>),
      Close("fd"), Link(<<"lf1">>, <<"lf2">>), Try(Unlink(<<"lf1">>)), Fails(Open(<<"lf1">>)),
      Open(<<"lf2">>), Read("fd", 4, <<"h">>), Close("fd"), Fails(Link(<<"lf2">>, <<"lf2">>)),
      Try(Unlink(<<"lf2">>)), Fails(Link(<<"lf2">>, <<"lf1">>)), Fails(Link(<<".">>, <<"lf1">>))>>

argptest == <<Open(<<"init">>), Pass, Close("fd")>>

----------------------------------------------------------------------------
(* Several processes.                                                      *)

(* Two writers of 2 cells through one descriptor, instead of 1000 each.    *)
Mixes == {s \in [1..4 -> {"c", "p"}] : Cardinality({i \in 1..4 : s[i] = "c"}) = 2}
sharedfd ==
    <<Try(Unlink(<<"sharedfd">>)), Create(<<"sharedfd">>), Try(Fork("p1", "sharedfd_child")),
      Try(Write("fd", <<"p">>)), Try(Write("fd", <<"p">>)), Wait, Close("fd"),
      Open(<<"sharedfd">>), Drain("fd", 1, FALSE, Mixes), Close("fd"),
      Try(Unlink(<<"sharedfd">>))>>
sharedfd_child == <<Try(Write("fd", <<"c">>)), Try(Write("fd", <<"c">>)), Exit>>

(* 3 files and 2 writes each, for 4 and 12.                                *)
fourfiles ==
    LET Begin(i) == <<Try(Unlink(<<N("f", i)>>)), Fork("p1", N("fourfiles", i))>>
        End(i) == <<Wait>>
        Check(i) == <<Try(Open(<<N("f", i)>>)), Drain("fd", 3, FALSE, {<<ToString(i), ToString(i)>>}), Close("fd"),
                      Try(Unlink(<<N("f", i)>>))>>
    IN  Loop(3, Begin) \o Loop(3, End) \o Loop(2, Check)
fourfiles_child(i) == <<Create(<<N("f", i)>>), Write("fd", <<ToString(i)>>),
                        Write("fd", <<ToString(i)>>), Exit>>

(* 3 children and N = 4 for 4 and 20: child c makes c0..c3, removing c(i/2)
   after the i-th when i is even and positive.  The last loop writes 'p' + i
   where the children wrote 'p' + pi, so it removes only some of the files. *)
CD(pi, i) == <<SubSeq("pqrst", pi + 1, pi + 1) \o ToString(i)>>
createdelete ==
    LET Begin(c) == <<Fork("p1", N("createdelete", c))>>
        End(c) == <<Wait>>
        Look(i, pi) == IF i = 0 \/ i >= 2 THEN Open(CD(pi, i)) ELSE Fails(Open(CD(pi, i)))
        Check(k) == <<Look(k - 1, 0), Close("fd"), Look(k - 1, 1), Close("fd"),
                      Look(k - 1, 2), Close("fd")>>
        Clean(k) == <<Try(Unlink(CD(k - 1, k - 1))), Try(Unlink(CD(k - 1, k - 1)))>>
    IN  Loop(3, Begin) \o Loop(3, End) \o Loop(4, Check) \o Loop(4, Clean)
createdelete_child(c) ==
    LET Make(k) == <<Create(CD(c - 1, k - 1)), Close("fd")>>
                   \o (IF k = 3 THEN <<Unlink(CD(c - 1, 1))>> ELSE <<>>)
    IN  Loop(4, Make) \o <<Exit>>

(* 40 files: 6.  Parent and child race to make the same name.              *)
concreate ==
    LET C(i) == <<N("C", i - 1)>>
        Make(i) == <<Try(Unlink(C(i))), Try(Fork("p1", N("concreate", i)))>>
                   \o (IF i % 3 = 2 THEN <<Try(Link(<<"C0">>, C(i)))>>
                       ELSE <<Create(C(i)), Close("fd")>>) \o <<Wait>>
        Names1 == {N("C", i - 1) : i \in 1..6}
        List == <<Try(Open(<<".">>)), [op |-> "readdir", v |-> "fd", has |-> Names1, want |-> {0}],
                  Close("fd")>>
        Twice(ins) == ins \o ins
        Clear(i) == <<Fork("p1", N("concreate_clear", i))>>
                    \o (IF i % 3 = 2 THEN Twice(<<Try(Open(C(i))), Close("fd")>>)
                        ELSE Twice(<<Try(Unlink(C(i)))>>)) \o <<Wait>>
    IN  Loop(6, Make) \o List \o Loop(6, Clear)
concreate_child(i) == (IF i % 5 = 2 THEN <<Try(Link(<<"C0">>, <<N("C", i - 1)>>))>>
                       ELSE <<Create(<<N("C", i - 1)>>), Close("fd")>>) \o <<Exit>>
concreate_clear(i) ==
    (IF i % 3 = 1 THEN <<Try(Open(<<N("C", i - 1)>>)), Close("fd"),
                         Try(Open(<<N("C", i - 1)>>)), Close("fd")>>
     ELSE <<Try(Unlink(<<N("C", i - 1)>>)), Try(Unlink(<<N("C", i - 1)>>))>>) \o <<Exit>>

(* The first 6 draws of the generator, modulo 3, for 100.                  *)
LinkUnlink(draws) ==
    LET Do(i) == CASE draws[i] = 0 -> <<Try(Create(<<"x">>)), Close("fd")>>
                   [] draws[i] = 1 -> <<Try(Link(<<"cat">>, <<"x">>))>>
                   [] draws[i] = 2 -> <<Try(Unlink(<<"x">>))>>
    IN  Loop(Len(draws), Do)
linkunlink == <<Try(Unlink(<<"x">>)), Fork("p1", "linkunlink_child")>>
              \o LinkUnlink(<<0, 2, 1, 0, 0, 2>>) \o <<Wait>>
linkunlink_child == LinkUnlink(<<0, 1, 1, 0, 1, 0>>) \o <<Exit>>

bigargtest == <<Try(Unlink(<<"bigarg-ok">>)), Fork("p1", "bigarg"), Wait, Open(<<"bigarg-ok">>),
                Close("fd"), Try(Unlink(<<"bigarg-ok">>))>>
bigarg == <<[op |-> "exec", path |-> <<"echo">>, prog |-> "echo", fits |-> FALSE],
            Try(CreateR(<<"bigarg-ok">>)), Close("fd"), Exit>>

(* 5 writes of 1033 bytes, twice the buffer and a little: 2 of 3 cells, the
   buffer having 2. *)
pipe1 == <<Pipe, Fork("p1", "pipe1_child"), Close("w"),
           Drain("r", 1, TRUE, {<<"1", "2", "3", "4", "5", "6">>}), Close("r"), Wait>>
pipe1_child == <<Close("r"), Write("w", <<"1", "2", "3">>), Write("w", <<"4", "5", "6">>), Exit>>

(* trap does not yield at the timer, so three processes that spin take     *)
(* three CPUs for good, and this process needs one more to go on.          *)
preempt == <<Try(Fork("p1", "spin")), Try(Fork("p2", "spin")), Try(Pipe),
             Try(Fork("p3", "preempt_child")), Close("w"), Read("r", 2, <<"x">>), Close("r"),
             Kill("p1"), Kill("p2"), Kill("p3"), Wait, Wait, Wait>>
preempt_child == <<Close("r"), Try(Write("w", <<"x">>)), Close("w"), Spin>>

(* 100 children one after the other: 2.                                    *)
exitwait == LET Once(i) == <<Fork("p1", "exit"), [op |-> "wait", v |-> "p1", all |-> FALSE, want |-> {0}]>>
            IN  Loop(2, Once)

(* At most as many forks as there are slots, so never the 1000 it fears.   *)
forktest == <<[op |-> "fork", v |-> "p1", child |-> "exit", every |-> TRUE],
              [op |-> "wait", v |-> "", all |-> TRUE, want |-> {0}], Fails(Wait @@ ("want" :> {}))>>

uio == <<Fork("p1", "refused"), Wait>>
refused == <<[op |-> "fault"], Oops>>

exectest == <<[op |-> "exec", path |-> <<"echo">>, prog |-> "echo", fits |-> TRUE, want |-> {}]>>
echo == <<Exit>>

----------------------------------------------------------------------------
(* Memory.  BIG pages, three of which do not fit the machine.              *)
BIG == 6 * PGSIZE

(* malloc until there is no more.  free gives nothing back to the kernel   *)
(* and joins the blocks again (XvMalloc), so the last malloc finds room if *)
(* the heap has grown at all.                                              *)
mem == <<Try(Fork("p1", "mem_child")), Wait>>
mem_child == <<[op |-> "sbrk", n |-> 2 * PGSIZE, every |-> TRUE],
               [op |-> "sbrk", n |-> 0, every |-> FALSE,
                want |-> (SIZE0 + 2 * PGSIZE)..(NFRAME * PGSIZE)], Exit>>

bsstest == <<Peek(0, {0}), Peek(SIZE0 - 1, {0})>>

(* 5000 bytes one at a time: PGSIZE + 1.                                   *)
sbrk_small ==
    LET One(i) == <<Sbrk(1, SIZE0 + i - 1), Poke(SIZE0 + i - 1)>>
        end == SIZE0 + PGSIZE + 1
    IN  Loop(PGSIZE + 1, One)
        \o <<Fork("p1", "sbrk_child"), Try(Sbrk(1, 0)), Sbrk(1, end + 1), Wait>>
sbrk_child == <<Try(Sbrk(1, 0)), Sbrk(1, SIZE0 + PGSIZE + 2), Exit>>

sbrk_big ==
    LET end == SIZE0 + PGSIZE + 3
    IN  <<Sbrk(BIG - end, end), Poke(BIG - 1), Sbrk(-PGSIZE, BIG), Sbrk(0, BIG - PGSIZE),
          Sbrk(PGSIZE, BIG - PGSIZE), Sbrk(0, BIG), Peek(BIG - 1, {0}),
          Sbrk(SIZE0 - BIG, BIG)>>

(* 10 children that take BIG each: 3.  Each tells the parent when it has   *)
(* tried; a fork that failed is passed over.                               *)
sbrk_full ==
    LET Begin(v) == <<Try(Fork(v, "sbrk_hog")),
                      Unless(v, [op |-> "read", v |-> "r", n |-> 1])>>
        End(v) == <<Unless(v, Kill(v)), Unless(v, Wait)>>
    IN  <<Pipe>> \o Begin("p1") \o Begin("p2") \o Begin("p3") \o <<Sbrk(PGSIZE, SIZE0)>>
        \o End("p1") \o End("p2") \o End("p3") \o <<Try(Sbrk(-PGSIZE, 0))>>
sbrk_hog == <<Try(Sbrk(BIG - SIZE0, 0)), Try(Write("w", <<"x">>)), Sleep>>

sbrktest == sbrk_small \o sbrk_big \o <<Fork("p1", "refused"), Wait>> \o sbrk_full

(* A pointer into the program, where sleep finds some number of ticks, and
   one above it. *)
validatetest ==
    LET Once(child) == <<Try(Fork("p1", child)), Kill("p1"), Wait,
                         Fails(Link(<<"nosuchfile">>, <<"bad">>))>>
    IN  Once("sleep") \o Once("exit")

----------------------------------------------------------------------------
main == <<Fails(Open(<<"usertests.ran">>)), Try(CreateR(<<"usertests.ran">>)), Close("fd")>>
        \o argptest \o createdelete \o linkunlink \o concreate \o fourfiles \o sharedfd
        \o bigargtest \o bigwrite \o bigargtest \o bsstest \o sbrktest \o validatetest
        \o opentest \o writetest \o writetest1 \o createtest
        \o openiputtest \o exitiputtest \o iputtest
        \o mem \o pipe1 \o preempt \o exitwait
        \o rmdot \o fourteen \o bigfile \o subdir \o linktest \o unlinkread \o dirfile \o iref
        \o forktest \o bigdir \o uio \o exectest

Numbered(c, n, F(_)) == [l \in {N(c, i) : i \in 1..n} |-> F(CHOOSE i \in 1..n : l = N(c, i))]
UserTests ==
    Numbered("fourfiles", 3, fourfiles_child) @@ Numbered("createdelete", 3, createdelete_child)
    @@ Numbered("concreate", 6, concreate_child)
    @@ Numbered("concreate_clear", 6, concreate_clear)
    @@ ("idle" :> <<>>) @@ ("spin" :> <<Spin>>) @@ ("sleep" :> <<Sleep>>) @@ ("exit" :> <<Exit>>)
    @@ ("usertests" :> main) @@ ("echo" :> echo) @@ ("exitiput" :> exitiput)
    @@ ("openiput" :> openiput) @@ ("sharedfd_child" :> sharedfd_child)
    @@ ("linkunlink_child" :> linkunlink_child) @@ ("bigarg" :> bigarg)
    @@ ("pipe1_child" :> pipe1_child) @@ ("preempt_child" :> preempt_child)
    @@ ("refused" :> refused) @@ ("mem_child" :> mem_child) @@ ("sbrk_child" :> sbrk_child)
    @@ ("sbrk_hog" :> sbrk_hog)

TestsInit == UserInit(UserTests, "idle", "usertests", {"init", "echo", "cat", "README"})
TestsSpec == TestsInit /\ [][UserNext]_userVars

----------------------------------------------------------------------------
(* Whatever the interleaving of parents and children, every call of every  *)
(* test returns what the test accepts, so usertests prints no complaint.   *)
(* That the suite comes to its end is not said: open and unlink are single *)
(* steps here, while linkunlink can leave two processes waiting for each   *)
(* other's inode, and preempt does not come to its kills on two CPUs.      *)
TestsPass == failed = <<>>

(* An open file is counted once for each descriptor of each process that   *)
(* names it, across fork, exit and kill, so it is closed by the last one.  *)
FilesCounted ==
    \A f \in 1..NFILE :
        file[f].ref = MapThenSumSet(LAMBDA p :
                          Cardinality({d \in DOMAIN proc[p].fd : proc[p].fd[d] = f}), Slot)
=============================================================================

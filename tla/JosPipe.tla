-------------------------------- MODULE JosPipe -------------------------------
(***************************************************************************)
(* Pipes of JOS (src/oslab6/lib/pipe.c, fd.c, pageref.c, fork.c).  They    *)
(* are a user-level library: a descriptor is a page with a struct Fd and a *)
(* page with the struct Pipe, both shared, and an end of the pipe counts   *)
(* as closed when the pages' reference counts say so.  System calls are    *)
(* atomic (big kernel lock); between them an environment can lose the CPU  *)
(* at any instruction, and _pipeisclosed looks at env_runs to notice.      *)
(*                                                                         *)
(* Environment Rd reads and Wr writes; all of them duplicate and close     *)
(* descriptors.                                                            *)
(***************************************************************************)
EXTENDS Integers, Sequences, FiniteSets

CONSTANTS
    PEnv, Rd, Wr,
    NRUN,
    ForkEnv,      \* environments that may call fork
    KeepBoth,     \* Wr still has the read end open as well
    Slots,        \* descriptor numbers of an environment: 0..Slots-1
    PIPEBUFSIZ,
    MaxBytes      \* bound: bytes ever written

ASSUME JosPipeConstants ==
    /\ {Rd, Wr} \subseteq PEnv /\ Rd # Wr /\ ForkEnv \subseteq PEnv /\ KeepBoth \in BOOLEAN
    /\ IsFiniteSet(PEnv)
    /\ NRUN \in Nat \ {0} /\ Slots \in Nat \ {0} /\ PIPEBUFSIZ \in Nat \ {0} /\ MaxBytes \in Nat

VARIABLES
    fdmap,    \* per environment and slot: the Fd page mapped, "r", "w" or "no"
    datamap,  \* per environment and slot: the Pipe page is mapped
    p_buf, p_rpos, p_wpos,   \* struct Pipe
    running,  \* environments on a CPU
    jpc,      \* per environment: what it is doing
    arg,      \* per environment: slot(s) of the call, or position in fork
    seen,      \* per environment: has _pipeisclosed seen equal counts
    undisturbed,  \* per environment: env_runs unchanged since n was read
    answer    \* history: environments that have been told "closed"

maps  == <<fdmap, datamap>>
pipe_ == <<p_buf, p_rpos, p_wpos>>
local == <<jpc, arg, seen, undisturbed, answer>>
josPipeVars == <<maps, pipe_, running, local>>

Slot == 0..Slots-1
Blank == [s \in Slot |-> "no"]

JosPipeTypeOK ==
    /\ fdmap \in [PEnv -> [Slot -> {"r", "w", "no"}]]
    /\ datamap \in [PEnv -> [Slot -> BOOLEAN]]
    /\ p_rpos \in 0..MaxBytes /\ p_wpos \in 0..MaxBytes
    /\ p_buf \in [0..PIPEBUFSIZ-1 -> 0..MaxBytes]
    /\ running \subseteq PEnv /\ Cardinality(running) <= NRUN
    /\ jpc \in [PEnv -> {"unborn", "idle", "closing", "dupping", "forking", "io", "check1",
                        "check2", "check3", "yield", "stored"}]
    /\ arg \in [PEnv -> 0..2*Slots] /\ seen \in [PEnv -> 0..Cardinality(PEnv)*Slots+1]
    /\ undisturbed \in [PEnv -> BOOLEAN] /\ answer \subseteq PEnv

\* After pipe(), fork(), and close of the unused end in Rd and (unless
\* KeepBoth) in Wr; the other environments are not yet in use.
JosPipeInit ==
    /\ fdmap = [e \in PEnv |-> IF e = Rd THEN [Blank EXCEPT ![0] = "r"]
                              ELSE IF e = Wr
                              THEN [Blank EXCEPT ![1] = "w", ![0] = IF KeepBoth THEN "r" ELSE "no"]
                              ELSE Blank]
    /\ datamap = [e \in PEnv |-> [s \in Slot |-> fdmap[e][s] # "no"]]
    /\ p_buf = [i \in 0..PIPEBUFSIZ-1 |-> 0] /\ p_rpos = 0 /\ p_wpos = 0
    /\ running \in {S \in SUBSET {Rd, Wr} : Cardinality(S) = IF NRUN = 1 THEN 1 ELSE 2}
    /\ jpc = [e \in PEnv |-> IF e \in {Rd, Wr} THEN "idle" ELSE "unborn"]
    /\ arg = [e \in PEnv |-> 0] /\ seen = [e \in PEnv |-> 0]
    /\ undisturbed = [e \in PEnv |-> TRUE] /\ answer = {}

-----------------------------------------------------------------------------
(* The scheduler: env_run puts f on the CPU of e and counts env_runs. *)
Switch(e, f) ==
    /\ e \in running /\ f \notin running \ {e} /\ jpc[f] # "unborn"
    /\ running' = (running \ {e}) \cup {f}
    /\ undisturbed' = [undisturbed EXCEPT ![f] = FALSE]
    /\ jpc' = [jpc EXCEPT ![f] = IF @ = "yield" THEN "io" ELSE @]
    /\ UNCHANGED <<maps, pipe_, arg, seen, answer>>

At(e, l) == e \in running /\ jpc[e] = l
Goto_(e, l) == jpc' = [jpc EXCEPT ![e] = l]

(* pageref: the number of mappings of a page. *)
pageref_fd(x) == Cardinality({y \in PEnv \X Slot : fdmap[y[1]][y[2]] = x})
pageref_pipe  == Cardinality({y \in PEnv \X Slot : datamap[y[1]][y[2]]})

OpenSlots(e) == {s \in Slot : fdmap[e][s] # "no"}

-----------------------------------------------------------------------------
(* Descriptors. *)

\* devpipe_close unmaps the Fd page, then the Pipe page: two system calls.
CloseFirst(e, s) == /\ fdmap' = [fdmap EXCEPT ![e][s] = "no"]
                    /\ UNCHANGED datamap

devpipe_close(e, s) ==
    /\ At(e, "idle") /\ s \in OpenSlots(e)
    /\ CloseFirst(e, s)
    /\ arg' = [arg EXCEPT ![e] = s] /\ Goto_(e, "closing")
    /\ UNCHANGED <<pipe_, running, seen, undisturbed, answer>>

\* The second sys_page_unmap, and the one fd_close makes of the Fd page.
devpipe_close2(e) ==
    /\ At(e, "closing")
    /\ fdmap' = [fdmap EXCEPT ![e][arg[e]] = "no"]
    /\ datamap' = [datamap EXCEPT ![e][arg[e]] = FALSE]
    /\ arg' = [arg EXCEPT ![e] = 0] /\ Goto_(e, "idle")
    /\ UNCHANGED <<pipe_, running, seen, undisturbed, answer>>

\* dup to a closed slot maps the data page first, then the Fd page.
dup(e, s, n) ==
    /\ At(e, "idle") /\ s \in OpenSlots(e) /\ fdmap[e][n] = "no"
    /\ datamap' = [datamap EXCEPT ![e][n] = TRUE]
    /\ arg' = [arg EXCEPT ![e] = n] /\ seen' = [seen EXCEPT ![e] = s]
    /\ Goto_(e, "dupping")
    /\ UNCHANGED <<fdmap, pipe_, running, undisturbed, answer>>

dup2(e) ==
    /\ At(e, "dupping")
    /\ fdmap' = [fdmap EXCEPT ![e][arg[e]] = fdmap[e][seen[e]]]
    /\ arg' = [arg EXCEPT ![e] = 0] /\ seen' = [seen EXCEPT ![e] = 0] /\ Goto_(e, "idle")
    /\ UNCHANGED <<datamap, pipe_, running, undisturbed, answer>>

\* The environment sys_exofork takes.
Free == {c \in PEnv : jpc[c] = "unborn"}
Child == CHOOSE c \in Free : TRUE

\* fork maps the shared pages into the child by increasing address: the Fd
\* pages, which lie below, and then the data pages.
fork_page(e) ==
    LET k == arg[e] IN
    /\ e \in running /\ e \in ForkEnv /\ Free # {}
    /\ \A o \in PEnv \ {e} : jpc[o] # "forking"      \* one child is enough
    /\ jpc[e] = "idle" \/ (jpc[e] = "forking" /\ k < 2 * Slots)
    /\ IF k < Slots
       THEN fdmap' = [fdmap EXCEPT ![Child][k] = fdmap[e][k]] /\ UNCHANGED datamap
       ELSE datamap' = [datamap EXCEPT ![Child][k - Slots] = datamap[e][k - Slots]]
            /\ UNCHANGED fdmap
    /\ arg' = [arg EXCEPT ![e] = k + 1] /\ Goto_(e, "forking")
    /\ UNCHANGED <<pipe_, running, seen, undisturbed, answer>>

\* sys_env_set_status(child, ENV_RUNNABLE)
fork_done(e) ==
    /\ At(e, "forking") /\ arg[e] = 2 * Slots
    /\ jpc' = [jpc EXCEPT ![e] = "idle", ![Child] = "idle"]
    /\ arg' = [arg EXCEPT ![e] = 0]
    /\ UNCHANGED <<maps, pipe_, running, seen, undisturbed, answer>>

-----------------------------------------------------------------------------
(* Reading and writing one byte. *)

End(e) == IF e = Rd THEN "r" ELSE "w"
Start_(e) ==
    /\ At(e, "idle") /\ e \in {Rd, Wr} /\ \E s \in Slot : fdmap[e][s] = End(e)
    /\ Goto_(e, "io")
    /\ UNCHANGED <<maps, pipe_, running, arg, seen, undisturbed, answer>>

PipeFull == p_wpos >= p_rpos + PIPEBUFSIZ
Must_wait(e) == IF e = Rd THEN p_rpos = p_wpos ELSE PipeFull

\* The byte is moved first and the position is advanced afterwards.
move_byte(e) ==
    /\ At(e, "io") /\ ~Must_wait(e) /\ (e = Wr => p_wpos < MaxBytes)
    /\ p_buf' = IF e = Wr THEN [p_buf EXCEPT ![p_wpos % PIPEBUFSIZ] = p_wpos + 1] ELSE p_buf
    /\ seen' = IF e = Rd THEN [seen EXCEPT ![e] = 0] ELSE seen
    /\ Goto_(e, "stored")
    /\ UNCHANGED <<maps, p_rpos, p_wpos, running, arg, undisturbed, answer>>

advance(e) ==
    /\ At(e, "stored")
    /\ IF e = Rd THEN p_rpos' = p_rpos + 1 /\ UNCHANGED p_wpos
                 ELSE p_wpos' = p_wpos + 1 /\ UNCHANGED p_rpos
    /\ Goto_(e, "idle")
    /\ UNCHANGED <<maps, p_buf, running, arg, seen, undisturbed, answer>>

\* _pipeisclosed: n, the two counts, nn.
isclosed_n(e) ==
    /\ At(e, "io") /\ Must_wait(e)
    /\ undisturbed' = [undisturbed EXCEPT ![e] = TRUE]
    /\ Goto_(e, "check1")
    /\ UNCHANGED <<maps, pipe_, running, arg, seen, answer>>

isclosed_fd(e) ==
    /\ At(e, "check1")
    /\ seen' = [seen EXCEPT ![e] = pageref_fd(End(e))]
    /\ Goto_(e, "check2")
    /\ UNCHANGED <<maps, pipe_, running, arg, undisturbed, answer>>

isclosed_pipe(e) ==
    /\ At(e, "check2")
    /\ seen' = [seen EXCEPT ![e] = IF @ = pageref_pipe THEN 1 ELSE 0]
    /\ Goto_(e, "check3")
    /\ UNCHANGED <<maps, pipe_, running, arg, undisturbed, answer>>

\* n = nn: nobody has run in between.
SameRun_ignored(e) == TRUE
SameRun(e) == undisturbed[e]

isclosed_nn(e) ==
    /\ At(e, "check3")
    /\ \/ ~SameRun(e) /\ undisturbed' = [undisturbed EXCEPT ![e] = TRUE]
          /\ seen' = [seen EXCEPT ![e] = 0]
          /\ Goto_(e, "check1") /\ UNCHANGED answer
       \/ SameRun(e) /\ seen[e] = 1 /\ answer' = answer \cup {e}
          /\ seen' = [seen EXCEPT ![e] = 0]
          /\ Goto_(e, "idle") /\ UNCHANGED undisturbed
       \/ SameRun(e) /\ seen[e] = 0 /\ Goto_(e, "yield")
          /\ UNCHANGED <<seen, undisturbed, answer>>
    /\ UNCHANGED <<maps, pipe_, running, arg>>

JosPipeNext ==
    \/ \E e, f \in PEnv : Switch(e, f)
    \/ \E e \in PEnv, s \in Slot : devpipe_close(e, s) \/ \E n \in Slot : dup(e, s, n)
    \/ \E e \in PEnv : devpipe_close2(e) \/ dup2(e) \/ fork_page(e) \/ fork_done(e)
    \/ \E e \in {Rd, Wr} : \/ Start_(e) \/ move_byte(e) \/ advance(e)
                           \/ isclosed_n(e) \/ isclosed_fd(e) \/ isclosed_pipe(e) \/ isclosed_nn(e)

JosPipeSpec == JosPipeInit /\ [][JosPipeNext]_josPipeVars

-----------------------------------------------------------------------------
Held(x) == \E y \in PEnv \X Slot : fdmap[y[1]][y[2]] = x

\* _pipeisclosed answers "closed" only if nobody has the other end open: a read
\* never reports the end of the data while a writer is left, whatever the
\* others were in the middle of (dup and close order their system calls so).
ClosedIsTrue == (Rd \in answer => ~Held("w")) /\ (Wr \in answer => ~Held("r"))

\* The bytes between the positions are the ones written and not yet read, in
\* order: a byte is stored before p_wpos makes it visible and taken before
\* p_rpos lets it be overwritten.
PipeHoldsBytes ==
    /\ p_rpos <= p_wpos /\ p_wpos <= p_rpos + PIPEBUFSIZ
    /\ \A k \in p_rpos..p_wpos-1 : p_buf[k % PIPEBUFSIZ] = k + 1
=============================================================================

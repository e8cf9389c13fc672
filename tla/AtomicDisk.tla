----------------------------- MODULE AtomicDisk -----------------------------
(***************************************************************************)
(* What the xv6 log promises to the file system (header comment of         *)
(* src/xv6/log.c): a disk whose contents survive a crash, on which the     *)
(* updates of a file system call are made all together or not at all.      *)
(*                                                                         *)
(*   cur     what a reader of the buffer cache sees now                    *)
(*   stable  what a reader would see after a crash and a reboot            *)
(*   active  the file system calls in progress                             *)
(***************************************************************************)
CONSTANTS Proc, Block, Val

VARIABLES cur, stable, active

vars == <<cur, stable, active>>

Init ==
    /\ cur \in [Block -> Val]
    /\ stable = cur
    /\ active = {}

Begin(p) ==
    /\ p \notin active
    /\ active' = active \cup {p}
    /\ UNCHANGED <<cur, stable>>

Write(p, b, v) ==
    /\ p \in active
    /\ cur' = [cur EXCEPT ![b] = v]
    /\ UNCHANGED <<stable, active>>

End(p) ==
    /\ p \in active
    /\ active' = active \ {p}
    /\ UNCHANGED <<cur, stable>>

\* Only finished calls become durable, and all of them together.
Commit ==
    /\ active = {}
    /\ stable' = cur
    /\ UNCHANGED <<cur, active>>

Crash ==
    /\ cur' = stable
    /\ active' = {}
    /\ UNCHANGED stable

Next ==
    \/ \E p \in Proc : Begin(p) \/ End(p)
    \/ \E p \in Proc, b \in Block, v \in Val : Write(p, b, v)
    \/ Commit
    \/ Crash

Spec == Init /\ [][Next]_vars
=============================================================================

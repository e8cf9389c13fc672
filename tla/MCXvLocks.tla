------------------------------ MODULE MCXvLocks ------------------------------
(* Model-checking instance of the locks and the buffer cache of xv6.  A        *)
(* behaviour follows one of two modules, the other stays as initialised:       *)
(*   spin    XvSpinlock (spinlock.c),                                          *)
(*   bio     XvBio (bio.c, sleeplock.c, ide.c), with the fairness of           *)
(*           BioFairSpec.                                                      *)
EXTENDS XvSpinlock, XvBio

VARIABLE part

LocksInit ==
    /\ Init /\ BioInit /\ part \in {"spin", "bio"}
    /\ part = "spin" => driver = "ide"

LocksNext ==
    \/ part = "spin" /\ Next /\ UNCHANGED <<part, bioVars>>
    \/ part = "bio" /\ BioNext /\ UNCHANGED <<part, vars>>

LocksSpec ==
    /\ LocksInit /\ [][LocksNext]_<<part, vars, bioVars>>
    /\ \A p \in Proc :
          /\ WF_bioVars(part = "bio" /\ Finish(p))
          /\ WF_bioVars(part = "bio" /\ \E b \in Buf : releasesleep(p, b))
    /\ WF_bioVars(part = "bio" /\ ideintr)
=============================================================================

----------------------------- MODULE BoundedFifo -----------------------------
(***************************************************************************)
(* What a pipe promises: a first-in first-out queue of bytes of bounded    *)
(* length.  A step appends some bytes or takes some from the front.        *)
(***************************************************************************)
EXTENDS Naturals, Sequences

CONSTANTS Byte, Size

VARIABLE q

FifoInit == q = <<>>

Put == \E n \in 1..Size - Len(q) : \E s \in [1..n -> Byte] : q' = q \o s
Get == \E n \in 1..Len(q) : q' = SubSeq(q, n + 1, Len(q))

FifoSpec == FifoInit /\ [][Put \/ Get]_q
=============================================================================

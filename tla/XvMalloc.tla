------------------------------ MODULE XvMalloc ------------------------------
(***************************************************************************)
(* malloc and free of xv6's user library (umalloc.c): a circular list of   *)
(* free blocks in address order, from which malloc takes the first that is *)
(* large enough and into which free puts a block back.                     *)
(*                                                                         *)
(* Addresses count units of a header.  The list's fixed member, base, is   *)
(* below the heap: address 0.                                              *)
(***************************************************************************)
EXTENDS Integers, FiniteSets

CONSTANTS HEAP,       \* units the machine has for the heap
          CHUNK,      \* the least morecore asks for, 4096 in the code
          Units       \* the requests, in units with the header

ASSUME MallocConstants == {HEAP, CHUNK} \subseteq Nat \ {0} /\ Units \subseteq Nat \ {0, 1}

VARIABLES hdr,        \* headers: ptr and size, by address; NoHeader inside a block
          freep,      \* the list, where the last search ended; -1 before the first
          brk,        \* the end of the heap
          live,       \* blocks the program holds
          gaps,       \* units the program took with an sbrk of its own
          gotptr         \* what the last call returned: an address, 0, or -1 for free

mallocVars == <<hdr, freep, brk, live, gaps, gotptr>>

NoHeader == [ptr |-> 0, size |-> 0]

MallocInit == /\ hdr = [a \in 0..HEAP |-> NoHeader]
              /\ freep = -1 /\ brk = 1
              /\ live = {} /\ gaps = {} /\ gotptr = -1

----------------------------------------------------------------------------
(* Where bp goes: after the first p from freep on that is below it with    *)
(* its successor above, or that is the last in memory with bp beyond it or *)
(* before the first.                                                       *)
Between(h, p, bp) == bp > p /\ bp < h[p].ptr
AtEnds(h, p, bp) == p >= h[p].ptr /\ (bp > p \/ bp < h[p].ptr)
RECURSIVE Place(_, _, _)
Place(h, p, bp) == IF Between(h, p, bp) \/ AtEnds(h, p, bp) THEN p ELSE Place(h, h[p].ptr, bp)

(* bp joined to the free block above it, if they touch.                    *)
JoinUp(h, p, bp) ==
    LET q == h[p].ptr
    IN  IF bp + h[bp].size = q
        THEN [h EXCEPT ![bp].size = @ + h[q].size, ![bp].ptr = h[q].ptr, ![q] = NoHeader]
        ELSE [h EXCEPT ![bp].ptr = q]
JoinDown(h, p, bp) ==
    IF p + h[p].size = bp
    THEN [h EXCEPT ![p].size = @ + h[bp].size, ![p].ptr = h[bp].ptr, ![bp] = NoHeader]
    ELSE [h EXCEPT ![p].ptr = bp]

(* free of bp with the headers h and the list at f: headers and list.      *)
Freed(h, f, bp) == LET p == Place(h, f, bp)
                   IN  [h |-> JoinDown(JoinUp(h, p, bp), p, bp), f |-> p]

free(bp) ==
    /\ bp \in live
    /\ LET r == Freed(hdr, freep, bp) IN hdr' = r.h /\ freep' = r.f
    /\ live' = live \ {bp} /\ gotptr' = -1
    /\ UNCHANGED <<brk, gaps>>

----------------------------------------------------------------------------
(* Back at the member the search began at.                                 *)
Round(h, start, p) == p = start
(* The search from prevp: the member before the first block that fits, or  *)
(* -1 when it is back at the list's start.                                 *)
RECURSIVE Search(_, _, _, _)
Search(h, start, prevp, n) ==
    LET p == h[prevp].ptr
    IN  IF h[p].size >= n THEN prevp
        ELSE IF Round(h, start, p) THEN -1
        ELSE Search(h, start, p, n)

(* What a split leaves of the block.                                       *)
Rest(h, p, n) == h[p].size - n
(* The block after prevp, or its last n units.                             *)
Take(h, prevp, n) ==
    LET p == h[prevp].ptr
        q == p + h[p].size - n
    IN  IF h[p].size = n THEN [h |-> [h EXCEPT ![prevp].ptr = h[p].ptr, ![p].ptr = 0], at |-> p]
        ELSE [h |-> [h EXCEPT ![p].size = Rest(h, p, n), ![q].size = n], at |-> q]

More(n) == IF n < CHUNK THEN CHUNK ELSE n

(* A block of the list, or of memory morecore has sbrk add and free enter  *)
(* in the list, where the search then goes on; 0 when the machine refuses. *)
RECURSIVE Allocated(_, _, _, _)
Allocated(h, f, b, n) ==
    LET prevp == Search(h, f, f, n)
        t == Take(h, prevp, n)
        more == Freed([h EXCEPT ![b].size = More(n)], f, b)
    IN  IF prevp # -1 THEN [h |-> t.h, f |-> prevp, b |-> b, at |-> t.at]
        ELSE IF b + More(n) - 1 > HEAP THEN [h |-> h, f |-> f, b |-> b, at |-> 0]
        ELSE Allocated(more.h, more.f, b + More(n), n)

malloc(n) ==
    LET r == Allocated(hdr, IF freep = -1 THEN 0 ELSE freep, brk, n)
    IN  /\ hdr' = r.h /\ freep' = r.f /\ brk' = r.b /\ gotptr' = r.at
        /\ live' = live \cup ({r.at} \ {0})
        /\ UNCHANGED gaps

(* The program moves the end of its memory itself.                         *)
sbrk == /\ brk <= HEAP /\ brk' = brk + 1 /\ gaps' = gaps \cup {brk}
        /\ UNCHANGED <<hdr, freep, live, gotptr>>

MallocNext == \/ \E n \in Units : malloc(n)
              \/ \E a \in 1..HEAP : free(a)
              \/ sbrk
MallocSpec == MallocInit /\ [][MallocNext]_mallocVars
MallocTypeOK == freep \in -1..HEAP /\ brk \in 1..(HEAP + 1) /\ live \subseteq 1..HEAP

----------------------------------------------------------------------------
RECURSIVE Listed(_, _)
Listed(p, seen) == IF p \in seen THEN seen ELSE Listed(hdr[p].ptr, seen \cup {p})
FreeList == IF freep = -1 THEN {} ELSE Listed(freep, {}) \ {0}
Extent(a) == a..(a + hdr[a].size - 1)

(* The blocks the program holds and the free ones divide the heap: no unit *)
(* is in two of them and none is lost, after any sequence of malloc and    *)
(* free, with memory the program took itself in between.                   *)
HeapDivided ==
    /\ \A a, b \in live \cup FreeList : a # b => Extent(a) \cap Extent(b) = {}
    /\ live \cap FreeList = {}
    /\ UNION {Extent(a) : a \in live \cup FreeList} = (1..(brk - 1)) \ gaps

(* The list is one circle through base that rises through memory once, and *)
(* two free blocks that touch have become one (free joins both sides).     *)
ListSorted ==
    freep # -1 => /\ 0 \in Listed(freep, {})
                  /\ \A a \in FreeList : hdr[a].ptr > a \/ hdr[a].ptr = 0
                  /\ \A a \in FreeList : a + hdr[a].size \notin FreeList
=============================================================================

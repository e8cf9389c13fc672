------------------------------ MODULE XvConsole -------------------------------
(***************************************************************************)
(* Console input of xv6 (src/xv6/console.c): the line editor that runs in  *)
(* the keyboard and serial interrupts, and the processes that read lines.  *)
(*                                                                         *)
(* input.buf is a ring with three indices: r <= w <= e.  Text before w is  *)
(* committed and can be read, text from w to e can still be edited.        *)
(* cons.lock is held from the start of a call to its return or sleep.      *)
(***************************************************************************)
EXTENDS Integers, Sequences, FiniteSets, FiniteSetsExt

CONSTANTS
    ConsReaders,
    INPUT_BUF,
    UINT,         \* r, w, e are uints: 2^32 in the code
    MaxRead       \* bound: bytes asked for by one read

ASSUME ConsoleConstants ==
    /\ INPUT_BUF \in Nat \ {0} /\ UINT \in Nat /\ MaxRead \in Nat
    /\ UINT % INPUT_BUF = 0 /\ UINT > INPUT_BUF

VARIABLES
    input,     \* struct input: buf, r, w, e
    rpc,       \* what each reader is doing in consoleread
    want,      \* bytes it still wants
    got,       \* bytes it has stored
    kills,     \* readers with killed set
    lastread   \* history: result of the read that returned last, and its reader

consVars == <<input, rpc, want, got, kills, lastread>>

Char == {"x", "nl", "eof"}                        \* eof: C('D')
Key  == Char \cup {"cr", "kill", "bs", "ps", "nul"}  \* C('U'), C('H'), C('P'), 0

ConsTypeOK ==
    /\ input \in [buf : [0..INPUT_BUF-1 -> Char], r : 0..UINT-1, w : 0..UINT-1, e : 0..UINT-1]
    /\ rpc \in [ConsReaders -> {"idle", "call", "tosleep", "sleep"}]
    /\ want \in [ConsReaders -> 0..MaxRead] /\ got \in [ConsReaders -> 0..MaxRead]
    /\ kills \subseteq ConsReaders
    /\ lastread \in -1..MaxRead

ConsInit ==
    /\ input = [buf |-> [i \in 0..INPUT_BUF-1 |-> "x"], r |-> 0, w |-> 0, e |-> 0]
    /\ rpc = [u \in ConsReaders |-> "idle"]
    /\ want = [u \in ConsReaders |-> 0] /\ got = [u \in ConsReaders |-> 0]
    /\ kills = {} /\ lastread = -1

Size(a, b) == (b - a) % UINT
Text(inp, a, b) == [k \in 1..Size(a, b) |-> inp.buf[(a + k - 1) % INPUT_BUF]]
Committed == Text(input, input.r, input.w)
Editable  == Text(input, input.w, input.e)

\* cons.lock: held between the test of killed and sleep.
ConsLocked == \E u \in ConsReaders : rpc[u] = "tosleep"

-----------------------------------------------------------------------------
\* wakeup(&input.r)
ConsWakeup == [u \in ConsReaders |-> IF rpc[u] = "sleep" THEN "call" ELSE rpc[u]]

InputRoom == Size(input.r, input.e) < INPUT_BUF

\* What Kill line removes: back to w or to just after a newline.
LineStart == Max({0} \cup {k \in 1..Len(Editable) : Editable[k] = "nl"})

CanErase_any == input.e # input.r
CanErase == input.e # input.w

CommitNow(inp, c) == c \in {"nl", "eof"} \/ inp.e = (inp.r + INPUT_BUF) % UINT

\* The default case: store the character, commit at the end of a line.
Typed(c) ==
    LET ch  == IF c = "cr" THEN "nl" ELSE c
        inp == [input EXCEPT !.buf[input.e % INPUT_BUF] = ch, !.e = (@ + 1) % UINT]
    IN  IF CommitNow(inp, ch)
        THEN input' = [inp EXCEPT !.w = inp.e] /\ rpc' = ConsWakeup
        ELSE input' = inp /\ UNCHANGED rpc

\* consoleintr, one character.
consoleintr(c) ==
    /\ ~ConsLocked
    /\ \/ /\ c \in {"ps", "nul"} /\ UNCHANGED <<input, rpc>>
       \/ /\ c = "kill"
          /\ input' = [input EXCEPT !.e = (input.w + LineStart) % UINT]
          /\ UNCHANGED rpc
       \/ /\ c = "bs"
          /\ input' = IF CanErase THEN [input EXCEPT !.e = (@ - 1) % UINT] ELSE input
          /\ UNCHANGED rpc
       \/ /\ c \in Char \cup {"cr"}
          /\ IF InputRoom THEN Typed(c) ELSE UNCHANGED <<input, rpc>>
    /\ UNCHANGED <<want, got, kills, lastread>>

-----------------------------------------------------------------------------
consoleread(u, n) ==
    /\ rpc[u] = "idle"
    /\ rpc' = [rpc EXCEPT ![u] = "call"]
    /\ want' = [want EXCEPT ![u] = n] /\ got' = [got EXCEPT ![u] = 0]
    /\ UNCHANGED <<input, kills, lastread>>

\* How many bytes the loop stores: it stops before a C('D') and after a newline.
Stored(n) == Max({k \in 0..n : /\ k <= Len(Committed)
                               /\ \A i \in 1..k : Committed[i] # "eof"
                               /\ \A i \in 1..k-1 : Committed[i] # "nl"})

\* At a C('D'): it is consumed by a read that has stored nothing, else kept.
SaveEof(stored) == stored > 0

Finish(u, k) ==
    /\ lastread' = k
    /\ rpc' = [rpc EXCEPT ![u] = "idle"]
    /\ want' = [want EXCEPT ![u] = 0] /\ got' = [got EXCEPT ![u] = 0]

\* The loop until it returns or finds the buffer empty.
consoleread_loop(u) ==
    LET k == Stored(want[u])
        total == got[u] + k
        rest == Len(Committed) - k
        done == k = want[u] \/ (k > 0 /\ Committed[k] = "nl")
        ateof == ~done /\ rest > 0
        used == IF ateof /\ ~SaveEof(total) THEN k + 1 ELSE k IN
    /\ rpc[u] = "call" /\ ~ConsLocked
    /\ input' = [input EXCEPT !.r = (@ + used) % UINT]
    /\ IF done \/ ateof THEN Finish(u, total)
       ELSE IF u \in kills THEN Finish(u, -1)
       ELSE /\ rpc' = [rpc EXCEPT ![u] = "tosleep"]
            /\ got' = [got EXCEPT ![u] = total] /\ want' = [want EXCEPT ![u] = @ - k]
            /\ UNCHANGED lastread
    /\ UNCHANGED kills

consoleread_sleep(u) ==
    /\ rpc[u] = "tosleep"
    /\ rpc' = [rpc EXCEPT ![u] = "sleep"]
    /\ UNCHANGED <<input, want, got, kills, lastread>>

\* kill sets killed and wakes the process (src/xv6/proc.c).
cons_kill(u) ==
    /\ u \notin kills
    /\ kills' = kills \cup {u}
    /\ rpc' = [rpc EXCEPT ![u] = IF @ = "sleep" THEN "call" ELSE @]
    /\ UNCHANGED <<input, want, got, lastread>>

ConsNext ==
    \/ \E c \in Key : consoleintr(c)
    \/ \E u \in ConsReaders : \/ \E n \in 0..MaxRead : consoleread(u, n)
                              \/ consoleread_loop(u) \/ consoleread_sleep(u)
                              \/ cons_kill(u)

ConsSpec == ConsInit /\ [][ConsNext]_consVars

-----------------------------------------------------------------------------
\* The indices stay in order across the wrap of the uints, and a full buffer
\* is committed: otherwise the characters typed next would be dropped and no
\* reader could ever make room.
InputWindow ==
    /\ Size(input.r, input.w) <= Size(input.r, input.e)
    /\ Size(input.r, input.e) <= INPUT_BUF
    /\ Size(input.r, input.e) = INPUT_BUF => input.w = input.e

\* A reader sleeps only while there is nothing to read: consoleintr wakes the
\* readers whenever it moves input.w.
NoSleeperWithInput ==
    (\E u \in ConsReaders : rpc[u] = "sleep") => input.r = input.w

\* Editing never touches committed text: a step appends to what can be read
\* or removes a prefix of it (Kill line and Backspace stop at input.w).
CommittedKept ==
    \/ \E k \in 0..Len(Committed) : Committed' = SubSeq(Committed, k + 1, Len(Committed))
    \/ /\ Len(Committed') > Len(Committed)
       /\ SubSeq(Committed', 1, Len(Committed)) = Committed

\* A C('D') leaves the buffer only in a read that returns 0: "Save ^D for next
\* time, to make sure caller gets a 0-byte result".
EofGivesZero ==
    (\E k \in 1..Len(Committed) : Committed[k] = "eof"
         /\ Size(input.r, input'.r) >= k /\ Size(input.r, input'.r) <= Len(Committed))
      => lastread' = 0
=============================================================================

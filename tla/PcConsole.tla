------------------------------ MODULE PcConsole ------------------------------
(***************************************************************************)
(* The console of a PC: its two devices, and the buffer JOS puts the input *)
(* in (struct cons in src/oslab6/kern/console.c).                          *)
(*                                                                         *)
(* The keyboard decoder: kbdgetc of xv6 (src/xv6/kbd.c) and its twin       *)
(* kbd_proc_data in JOS (src/oslab6/kern/console.c), which also reboots on *)
(* Ctrl-Alt-Del.  A key sends one byte when it goes down and one when it   *)
(* comes up, each after a byte E0 if the key is one of the extended ones.  *)
(* The interrupt handler takes the bytes one at a time.                    *)
(*                                                                         *)
(* Text output on the CGA screen: cgaputc of xv6 (src/xv6/console.c) and   *)
(* cga_putc of JOS (src/oslab6/kern/console.c).  xv6 keeps the last of its *)
(* ROWS rows unused, JOS fills it.                                         *)
(***************************************************************************)
EXTENDS Integers, Sequences

----------------------------------------------------------------------------
(* The keyboard.                                                           *)

VARIABLES
    down,     \* keys held down
    port,     \* bytes the controller has still to deliver
    shift,    \* the static variable shift: a set of flags
    key,      \* result of the last call: a character, or 0
    reboot    \* JOS has written to the reset port

kbdVars == <<down, port, shift, key, reboot>>

\* Keys as (code, extended): shiftcode, togglecode and the maps are indexed
\* by the code, with bit 7 set for an extended key.
Plain    == {"1D", "2A", "36", "38", "3A", "53", "1E"}
Extended == {"1D", "38", "53"}
Keys     == (Plain \X {FALSE}) \cup (Extended \X {TRUE})
Flags    == {"SHIFT", "CTL", "ALT", "CAPSLOCK", "E0ESC"}

shiftcode(k) == CASE k[1] = "1D" -> {"CTL"}
                  [] k[1] \in {"2A", "36"} /\ ~k[2] -> {"SHIFT"}
                  [] k[1] = "38" -> {"ALT"}
                  [] OTHER -> {}
togglecode(k) == IF k = <<"3A", FALSE>> THEN {"CAPSLOCK"} ELSE {}

\* normalmap, shiftmap and ctlmap for a letter, the keypad's point and Del.
charcode(s, k) == CASE k = <<"1E", FALSE>> -> IF "CTL" \in s THEN "C-a"
                                              ELSE IF "SHIFT" \in s THEN "A" ELSE "a"
                    [] k = <<"53", FALSE>> -> IF "CTL" \in s THEN "0" ELSE "."
                    [] k = <<"53", TRUE>>  -> "DEL"
                    [] OTHER -> "0"

Capital(c) == CASE c = "a" -> "A" [] c = "A" -> "a" [] OTHER -> c

KbdTypeOK ==
    /\ down \subseteq Keys /\ shift \subseteq Flags /\ reboot \in BOOLEAN
    /\ key \in {"0", "a", "A", "C-a", ".", "DEL"}
    /\ port \in Seq([code : Plain \cup {"E0"}, up : BOOLEAN])

KbdInit == down = {} /\ port = <<>> /\ shift = {} /\ key = "0" /\ reboot = FALSE

\* The keyboard: a key goes down (or repeats), or comes up.
Bytes(k, up) == LET b == [code |-> k[1], up |-> up]
                IN  IF k[2] THEN <<[code |-> "E0", up |-> FALSE], b>> ELSE <<b>>
KeyEvent(k, up) ==
    /\ port = <<>> /\ (up => k \in down)
    /\ down' = IF up THEN down \ {k} ELSE down \cup {k}
    /\ port' = Bytes(k, up)
    /\ UNCHANGED <<shift, key, reboot>>

\* The flags after a key has come up.
Released(k) == shift \ (shiftcode(k) \cup {"E0ESC"})

\* The flags after a key has gone down.
Toggle(s, t) == (s \ t) \cup (t \ s)
Pressed(k) == Toggle((shift \ {"E0ESC"}) \cup shiftcode(k), togglecode(k))

\* One byte from the data port.
kbdgetc ==
    LET b == Head(port)
        k == <<b.code, "E0ESC" \in shift>>
        c == charcode(Pressed(k), k) IN
    /\ port # <<>> /\ port' = Tail(port)
    /\ \/ /\ b.code = "E0"
          /\ shift' = shift \cup {"E0ESC"} /\ key' = "0"
       \/ /\ b.code # "E0" /\ b.up
          /\ shift' = Released(k) /\ key' = "0"
       \/ /\ b.code # "E0" /\ ~b.up
          /\ shift' = Pressed(k)
          /\ key' = IF "CAPSLOCK" \in Pressed(k) THEN Capital(c) ELSE c
    /\ UNCHANGED down

\* kbd_proc_data: the same decoding, and the reset on Ctrl-Alt-Del.
Reset(s) == {"CTL", "ALT"} \subseteq s

kbd_proc_data ==
    /\ kbdgetc
    /\ reboot' = (reboot \/ (Reset(shift') /\ key' = "DEL"))

KbdNext == (\E k \in Keys, up \in BOOLEAN : KeyEvent(k, up)) \/ kbd_proc_data

KbdSpec == KbdInit /\ [][KbdNext]_kbdVars

KeysOf(m) == {k \in Keys : m \in shiftcode(k)}

\* Once the bytes have been taken, a flag for Shift, Ctrl or Alt is set only
\* if such a key is down, and no E0 is left over: no order of presses,
\* repeats and releases of left and right keys makes a modifier stick.
NoStuckModifier ==
    port = <<>> => /\ "E0ESC" \notin shift
                   /\ \A m \in {"SHIFT", "CTL", "ALT"} : m \in shift => KeysOf(m) \cap down # {}

\* The machine is reset only while a Ctrl key, an Alt key and Del are held.
ResetMeant == reboot' # reboot =>
    /\ KeysOf("CTL") \cap down # {} /\ KeysOf("ALT") \cap down # {}
    /\ <<"53", TRUE>> \in down

----------------------------------------------------------------------------
(* The screen.                                                             *)

CONSTANTS ROWS, COLS,   \* 25 and 80
          Glyph         \* what a cell may show; "blank" is a space

ASSUME ScreenConstants == ROWS \in Nat /\ ROWS > 2 /\ COLS \in Nat \ {0} /\ "blank" \in Glyph

VARIABLES
    cga,   \* "xv6" or "jos"
    crt,      \* the display memory
    pos,      \* the cursor
    line      \* history: what the last character was

screenVars == <<cga, crt, pos, line>>

CRT_SIZE == ROWS * COLS
Cells    == 0..CRT_SIZE-1
Out      == {"char", "newline", "backspace", "return"}

ScreenTypeOK == /\ cga \in {"xv6", "jos"} /\ pos \in Int /\ line \in Out \cup {"none"}
                /\ crt \in [Cells -> Glyph]

\* The firmware leaves the cursor anywhere, with any text before it.
ScreenInit ==
    /\ cga \in {"xv6", "jos"} /\ pos \in Cells /\ line = "none"
    /\ crt \in [Cells -> Glyph] /\ \A i \in Cells : i >= pos => crt[i] = "blank"

\* memmove(crt, crt+COLS, n), then blanks from cell a up to cell b.
Scrolled(c, n, a, b) == [i \in Cells |-> IF i >= a /\ i < b THEN "blank"
                                         ELSE IF i < n THEN c[i + COLS] ELSE c[i]]

\* What cgaputc moves up: the rows between the first and the last.
Moved == (ROWS - 2) * COLS

\* Store a cell; display memory outside the screen is not modelled.
StoreCell(c, i, v) == IF i \in Cells THEN [c EXCEPT ![i] = v] ELSE c

\* v is the character shown, for "char"; xv6 shows '\r' and '\t' as characters.
cgaputc(o, v) ==
    LET p == CASE o = "newline" -> pos + COLS - (pos % COLS)
               [] o = "backspace" -> IF pos > 0 THEN pos - 1 ELSE 0
               [] OTHER -> pos + 1
        c == IF o \in {"newline", "backspace"} THEN crt ELSE StoreCell(crt, pos, v)
        scroll == p \div COLS >= ROWS - 1
        q == IF scroll THEN p - COLS ELSE p
        d == IF scroll THEN Scrolled(c, Moved, q, (ROWS - 1) * COLS) ELSE c
    IN  pos' = q /\ crt' = StoreCell(d, q, "blank")

\* When JOS scrolls, and what it does to the screen and the cursor.
ScrollAt == CRT_SIZE

JosScroll(c, p) ==
    IF p >= ScrollAt
    THEN pos' = p - COLS /\ crt' = Scrolled(c, CRT_SIZE - COLS, CRT_SIZE - COLS, CRT_SIZE)
    ELSE pos' = p /\ crt' = c

\* A tab is five spaces, each sent through cons_putc: modelled as "char"s.
cga_putc(o, v) ==
    CASE o = "backspace" -> IF pos > 0 THEN JosScroll(StoreCell(crt, pos - 1, "blank"), pos - 1)
                                       ELSE JosScroll(crt, pos)
      [] o = "newline" -> JosScroll(crt, pos + COLS - ((pos + COLS) % COLS))
      [] o = "return" -> JosScroll(crt, pos - (pos % COLS))
      [] OTHER -> JosScroll(StoreCell(crt, pos, v), pos + 1)

ScreenNext == \E o \in Out, v \in Glyph :
    /\ line' = o /\ UNCHANGED cga
    /\ \/ cga = "xv6" /\ cgaputc(o, v)
       \/ cga = "jos" /\ cga_putc(o, v)

ScreenSpec == ScreenInit /\ [][ScreenNext]_screenVars

\* Both drivers leave the cursor on the screen, whatever is printed: the next
\* character is stored inside the display memory.
CursorOnScreen == pos \in Cells

Before(o) == IF o = "backspace" THEN pos - 1
             ELSE IF o = "return" THEN pos - (pos % COLS) ELSE pos

\* Text before the cursor stays where it is, or moves up by one row: scrolling
\* loses the first row and nothing else (a backspace erases one cell).  The
\* exception is a cursor the firmware has left in the row that xv6 does not use:
\* cgaputc then scrolls without moving that row, whose text is lost.
TextKept ==
    (cga = "xv6" => pos < CRT_SIZE - COLS) =>
        \E up \in {0, COLS} : \A i \in Cells :
            i < Before(line') /\ i >= up => crt'[i - up] = crt[i]
----------------------------------------------------------------------------
(* The input buffer of JOS.  Unlike that of xv6 (XvConsole) it has no line *)
(* editor and no test for a full buffer.  Characters are numbered in the   *)
(* order in which they are typed.                                          *)

CONSTANTS CONSBUFSIZE, MaxTyped   \* MaxTyped: bound on the characters typed

ASSUME JosConsoleConstants == CONSBUFSIZE \in Nat \ {0} /\ MaxTyped \in Nat

VARIABLES
    ring,     \* struct cons: buf, rpos, wpos
    uartq,    \* characters waiting in the serial port and the keyboard
    typedno,  \* number of the next character typed
    gotc      \* result of the last cons_getc, 0 for none

josConsVars == <<ring, uartq, typedno, gotc>>

Wire == 0..1        \* the controller holds at most one character

JosConsTypeOK ==
    /\ ring \in [buf : [0..CONSBUFSIZE-1 -> 0..MaxTyped], rpos : 0..CONSBUFSIZE-1,
                 wpos : 0..CONSBUFSIZE-1]
    /\ uartq \in Wire /\ typedno \in 1..MaxTyped+1 /\ gotc \in 0..MaxTyped

JosConsInit ==
    /\ ring = [buf |-> [i \in 0..CONSBUFSIZE-1 |-> 0], rpos |-> 0, wpos |-> 0]
    /\ uartq = 0 /\ typedno = 1 /\ gotc = 0

Advance(i) == IF i + 1 = CONSBUFSIZE THEN 0 ELSE i + 1

\* A key is pressed; the controller keeps it until the interrupt handler reads it.
TypeKey == /\ uartq = 0 /\ typedno <= MaxTyped
           /\ uartq' = 1 /\ typedno' = typedno + 1
           /\ UNCHANGED <<ring, gotc>>

\* cons_intr: move what the device has into the buffer, overwriting the oldest.
Taken(r) == IF uartq = 1 THEN [r EXCEPT !.buf[r.wpos] = typedno - 1, !.wpos = Advance(@)]
                         ELSE r
cons_intr == /\ uartq = 1
             /\ ring' = Taken(ring) /\ uartq' = 0
             /\ UNCHANGED <<typedno, gotc>>

\* cons_getc polls the devices, then takes the next character, if any.
cons_getc ==
    LET r == Taken(ring) IN
    /\ uartq' = 0
    /\ IF r.rpos # r.wpos
       THEN gotc' = r.buf[r.rpos] /\ ring' = [r EXCEPT !.rpos = Advance(@)]
       ELSE gotc' = 0 /\ ring' = r
    /\ UNCHANGED typedno

JosConsNext == TypeKey \/ cons_intr \/ cons_getc
JosConsSpec == JosConsInit /\ [][JosConsNext]_josConsVars

Unread(r) == {r.buf[(r.rpos + k) % CONSBUFSIZE] : k \in 0..((r.wpos - r.rpos) % CONSBUFSIZE) - 1}

\* Whatever overruns happened, the characters waiting are the last ones typed:
\* an overrun forgets old input, never reorders or repeats it.
UnreadIsNewest ==
    LET n == (ring.wpos - ring.rpos) % CONSBUFSIZE
        last == typedno - 1 - uartq
    IN  /\ Unread(ring) = last - n + 1 .. last
        /\ \A k \in 0..n-1 : ring.buf[(ring.rpos + k) % CONSBUFSIZE] = last - n + 1 + k
        /\ gotc <= last - n
=============================================================================

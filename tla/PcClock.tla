------------------------------ MODULE PcClock -------------------------------
(***************************************************************************)
(* cmostime (xv6 lapic.c): the date is read from the clock chip a register *)
(* at a time while the clock runs.  Three of the six registers stand for   *)
(* all: the seconds, the minutes they carry into and the year, into which  *)
(* the minutes carry here as hours, days and months do.                    *)
(***************************************************************************)
EXTENDS Integers, Sequences

CONSTANTS Starts,     \* times (second, minute, year) the clock may show first
          MaxTick     \* updates of the clock while the date is read

ASSUME ClockConstants == MaxTick \in 0..59 /\ \A t \in Starts : t \in (0..59) \X (0..59) \X (0..98)

VARIABLES bcd,        \* the chip counts in packed decimal digits (status B)
          chip,       \* the registers as cmos_read gets them
          time,       \* the time the chip shows once its update is over
          update,     \* registers it has still to change; the update flag is up while it is not 0
          ticks,
          shown,      \* times shown since cmostime was called
          t1, t2,     \* the two readings
          turn,       \* what cmostime reads next: <<reading, register>>
          date        \* what it returned, <<>> before

clockVars == <<bcd, chip, time, update, ticks, shown, t1, t2, turn, date>>

Coded(b, n) == IF b THEN 16 * (n \div 10) + (n % 10) ELSE n
Registers(b, t) == [i \in 1..3 |-> Coded(b, t[i])]

ClockInit == /\ bcd \in BOOLEAN /\ time \in Starts
             /\ chip = Registers(bcd, time) /\ shown = {time}
             /\ update = 0 /\ ticks = 0
             /\ t1 = <<>> /\ t2 = <<>> /\ turn = "t1" /\ date = <<>>

(* The chip raises its flag, changes its registers one after the other and *)
(* lowers the flag with the last one.                                      *)
Later(t) == IF t[1] < 59 THEN <<t[1] + 1, t[2], t[3]>>
            ELSE IF t[2] < 59 THEN <<0, t[2] + 1, t[3]>>
            ELSE <<0, 0, t[3] + 1>>
tick == /\ update = 0 /\ ticks < MaxTick /\ date = <<>>
        /\ update' = 3 /\ ticks' = ticks + 1 /\ time' = Later(time)
        /\ UNCHANGED <<bcd, chip, shown, t1, t2, turn, date>>
carry == /\ update > 0
         /\ chip' = [chip EXCEPT ![4 - update] = Registers(bcd, time)[4 - update]]
         /\ update' = update - 1
         /\ shown' = IF update = 1 THEN shown \cup {time} ELSE shown
         /\ UNCHANGED <<bcd, time, ticks, t1, t2, turn, date>>

(* fill_rtcdate: one register into the reading that is being filled.       *)
fill_rtcdate(to) ==
    /\ turn = to /\ date = <<>>
    /\ IF to = "t1" THEN /\ t1' = Append(t1, chip[Len(t1) + 1])
                         /\ t2' = t2
                         /\ turn' = IF Len(t1) = 2 THEN "flag" ELSE "t1"
       ELSE /\ t2' = Append(t2, chip[Len(t2) + 1])
            /\ t1' = t1
            /\ turn' = IF Len(t2) = 2 THEN "compare" ELSE "t2"
    /\ UNCHANGED <<bcd, chip, time, update, ticks, shown, date>>

(* An update seen in progress starts the reading again.                    *)
flag == /\ turn = "flag"
        /\ IF update > 0 THEN t1' = <<>> /\ turn' = "t1"
                         ELSE t1' = t1 /\ turn' = "t2"
        /\ UNCHANGED <<bcd, chip, time, update, ticks, shown, t2, date>>

(* CONV undoes the packing; the year is counted from 2000.                 *)
CONV(b, x) == IF b THEN (x \div 16) * 10 + (x % 16) ELSE x

Agree_any(a, b) == TRUE
Agree(a, b) == a = b
compare == /\ turn = "compare"
           /\ IF Agree(t1, t2)
              THEN /\ date' = <<CONV(bcd, t1[1]), CONV(bcd, t1[2]), CONV(bcd, t1[3]) + 2000>>
                   /\ turn' = "done"
                   /\ UNCHANGED <<t1, t2>>
              ELSE t1' = <<>> /\ t2' = <<>> /\ turn' = "t1" /\ date' = date
           /\ UNCHANGED <<bcd, chip, time, update, ticks, shown>>

ClockNext == tick \/ carry \/ (\E to \in {"t1", "t2"} : fill_rtcdate(to)) \/ flag \/ compare
ClockSpec == ClockInit /\ [][ClockNext]_clockVars

ClockTypeOK == /\ bcd \in BOOLEAN /\ time \in (0..59) \X (0..59) \X (0..99)
               /\ update \in 0..3 /\ ticks \in 0..MaxTick
               /\ turn \in {"t1", "flag", "t2", "compare", "done"}

(* The date cmostime returns is one the clock showed while cmostime ran,   *)
(* never a mixture of two, though the clock may carry from any register    *)
(* to the next between any two reads.                                      *)
DateWasShown == date # <<>> => \E t \in shown : date = <<t[1], t[2], t[3] + 2000>>
=============================================================================

----------------------------- MODULE MCMachine ------------------------------
(***************************************************************************)
(* The PC's start, its devices and the byte streams of xv6 and JOS,        *)
(* explored one at a time: `part` is chosen at the start.  The variables   *)
(* of the others stay as initialised for the parts of Streams, and 0 for   *)
(* the rest.                                                               *)
(***************************************************************************)
EXTENDS Streams, PcClock, PcLoad, XvBoot, JosBoot, JosPmap

VARIABLE part       \* the component whose behaviour this is

\* MP tables: more processors than NCPU, ids with gaps and out of order, one; an
\* entry of a kind mpinit does not know, and a table it refuses.
P(n) == [type |-> "proc", id |-> n]
O(s) == [type |-> s]
XvTables == {<<P(0), P(1), P(2), O("bus"), O("ioapic")>>, <<O("bus"), P(2), P(0), P(5)>>,
             <<P(0)>>, <<P(0), P(1), P(2), P(3)>>,
             <<P(0), P(1), O("other"), P(2)>>, <<O("corrupt"), P(0), P(1)>>}
M(s, b, o) == [ids |-> s, bsp |-> b, odd |-> o]
JosMachines == {M(<<0, 1, 2>>, 0, FALSE), M(<<0, 1, 2>>, 0, TRUE), M(<<0, 1, 2, 3>>, 0, FALSE),
                M(<<0>>, 0, FALSE), M(<<1, 0, 2>>, 1, FALSE), M(<<0, 2, 4>>, 0, FALSE)}

\* Labs 5 and 6, memories that do and do not reach above the first 4MB's end.
MemPages == 0..63
MemLayouts == [lab : {5, 6}, npages : {26, 28}, end : {6, 7}, pages : {1, 2}, envs : {1, 2}]

\* Times before a carry of one register, of two and of none.
Times == {<<58, 59, 9>>, <<59, 9, 8>>, <<57, 59, 98>>, <<9, 8, 20>>}

\* A component that does not take part.
PipeOff == PipeInit /\ data[0] = CHOOSE b \in Byte : TRUE
JosPipeOff == JosPipeInit /\ running = {Rd}
ScreenOff == ScreenInit /\ cga = "xv6" /\ pos = 0
ClockOff == bcd = 0 /\ chip = 0 /\ time = 0 /\ update = 0 /\ ticks = 0 /\ shown = 0 /\
            t1 = 0 /\ t2 = 0 /\ turn = 0 /\ date = 0
LoadOff == loader = 0 /\ image = 0 /\ mem = 0 /\ ph = 0
XvbootOff == table = 0 /\ bsp = 0 /\ step = 0 /\ i = 0 /\ at = 0 /\ cpus = 0 /\ idt = 0 /\
             route = 0 /\ box = 0 /\ cpu = 0 /\ freelist = 0 /\ next = 0 /\ use_lock = 0 /\
             hand = 0 /\ taken = 0 /\ runnable = 0
JosbootOff == mach = 0 /\ left = 0 /\ ap = 0 /\ phase = 0 /\ jcpus = 0 /\ ncpu = 0 /\
              lapic = 0 /\ lapicaddr = 0 /\ mpentry_kstack = 0 /\ core = 0 /\ lock = 0 /\
              envs = 0
JosmemOff == layout = 0 /\ m = 0 /\ nextfree = 0 /\ mmiobase = 0 /\ pp = 0 /\ fl = 0 /\
             nfree = 0 /\ placed = 0 /\ low = 0 /\ ip = 0 /\ failed = 0

MachineInit ==
    /\ part \in {"pipe", "console", "jospipe", "josconsole", "screen", "keyboard", "clock",
                 "load", "xvboot", "josboot", "josmem"}
    /\ IF part = "pipe" THEN PipeInit ELSE PipeOff
    /\ IF part = "jospipe" THEN JosPipeInit ELSE JosPipeOff
    /\ IF part = "screen" THEN ScreenInit ELSE ScreenOff
    /\ ConsInit /\ JosConsInit /\ KbdInit
    /\ IF part = "clock" THEN ClockInit ELSE ClockOff
    /\ IF part = "load" THEN LoadInit ELSE LoadOff
    /\ IF part = "xvboot" THEN BootInit ELSE XvbootOff
    /\ IF part = "josboot" THEN JosBootInit ELSE JosbootOff
    /\ IF part = "josmem" THEN PmapInit ELSE JosmemOff

MachineNext ==
    \/ /\ part = "pipe" /\ PipeNext
       /\ UNCHANGED <<part, consVars, josPipeVars, josConsVars, screenVars, kbdVars,
                      clockVars, loadVars, bootVars, josBootVars, pmapVars>>
    \/ /\ part = "console" /\ ConsNext
       /\ UNCHANGED <<part, pipeVars, josPipeVars, josConsVars, screenVars, kbdVars,
                      clockVars, loadVars, bootVars, josBootVars, pmapVars>>
    \/ /\ part = "jospipe" /\ JosPipeNext
       /\ UNCHANGED <<part, pipeVars, consVars, josConsVars, screenVars, kbdVars, clockVars,
                      loadVars, bootVars, josBootVars, pmapVars>>
    \/ /\ part = "josconsole" /\ JosConsNext
       /\ UNCHANGED <<part, pipeVars, consVars, josPipeVars, screenVars, kbdVars, clockVars,
                      loadVars, bootVars, josBootVars, pmapVars>>
    \/ /\ part = "screen" /\ ScreenNext
       /\ UNCHANGED <<part, pipeVars, consVars, josPipeVars, josConsVars, kbdVars,
                      clockVars, loadVars, bootVars, josBootVars, pmapVars>>
    \/ /\ part = "keyboard" /\ KbdNext
       /\ UNCHANGED <<part, pipeVars, consVars, josPipeVars, josConsVars, screenVars,
                      clockVars, loadVars, bootVars, josBootVars, pmapVars>>
    \/ /\ part = "clock" /\ ClockNext
       /\ UNCHANGED <<part, pipeVars, consVars, josPipeVars, josConsVars, screenVars,
                      kbdVars, loadVars, bootVars, josBootVars, pmapVars>>
    \/ /\ part = "load" /\ LoadNext
       /\ UNCHANGED <<part, pipeVars, consVars, josPipeVars, josConsVars, screenVars,
                      kbdVars, clockVars, bootVars, josBootVars, pmapVars>>
    \/ /\ part = "xvboot" /\ BootNext
       /\ UNCHANGED <<part, pipeVars, consVars, josPipeVars, josConsVars, screenVars,
                      kbdVars, clockVars, loadVars, josBootVars, pmapVars>>
    \/ /\ part = "josboot" /\ JosBootNext
       /\ UNCHANGED <<part, pipeVars, consVars, josPipeVars, josConsVars, screenVars,
                      kbdVars, clockVars, loadVars, bootVars, pmapVars>>
    \/ /\ part = "josmem" /\ PmapNext
       /\ UNCHANGED <<part, pipeVars, consVars, josPipeVars, josConsVars, screenVars,
                      kbdVars, clockVars, loadVars, bootVars, josBootVars>>

machineVars == <<part, pipeVars, consVars, josPipeVars, josConsVars, screenVars, kbdVars,
                 clockVars, loadVars, bootVars, josBootVars, pmapVars>>
MachineSpec == MachineInit /\ [][MachineNext]_machineVars
-----------------------------------------------------------------------------

\* The cursor stays on the screen (cgaputc, cga_putc); no modifier of the
\* keyboard is stuck when its key is up (kbdgetc, kbd_proc_data); cmostime
\* returns a date the clock showed, never a mixture of two; and the boot
\* loaders leave every byte of every segment in place and zero bss.
DevicesSound ==
    /\ part = "screen" => ScreenTypeOK /\ CursorOnScreen
    /\ part = "keyboard" => KbdTypeOK /\ NoStuckModifier
    /\ part = "clock" => ClockTypeOK /\ DateWasShown
    /\ part = "load" => LoadTypeOK /\ LoadedRight

\* The start of all processors.  xv6: no two start on one stack, nor on a page
\* that is free or that entrypgdir does not map, no page is given out twice
\* while the allocator has no lock, interrupts go to a started processor, and
\* the boot comes to rest only with every processor in its scheduler.  JOS: each
\* has a kernel stack and a task state of its own, none schedules before the
\* first environments exist or while another is in the kernel, and all run in
\* the end; mem_init of labs 5 and 6 passes all its self checks, and the free
\* pages are in no other use.
StartSound ==
    /\ part = "xvboot" => /\ BootTypeOK /\ OwnStack /\ PagesOnce /\ StackMapped
                          /\ RoutedToCpu /\ AllStart
    /\ part = "josboot" => JosBootTypeOK /\ OwnTaskState /\ SchedulesAlone /\ AllRun
    /\ part = "josmem" => PmapTypeOK /\ ChecksPass /\ FreeIsFree
=============================================================================

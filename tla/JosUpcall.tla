----------------------------- MODULE JosUpcall ------------------------------
(***************************************************************************)
(* Page faults handled by the JOS environment itself: the kernel's         *)
(* page_fault_handler (kern/trap.c) puts a frame on the environment's      *)
(* exception stack and enters _pgfault_upcall (lib/pfentry.S), which calls *)
(* the handler in C and goes back to where the fault was.  The handler may *)
(* fault itself, and so may the store with which the upcall prepares its   *)
(* return, when the page under the stack pointer is not there.             *)
(*                                                                         *)
(* Memory is words.  The registers are one word, and so are the address    *)
(* and the code of the fault, so that a UTrapframe is five.                *)
(***************************************************************************)
EXTENDS Integers, Sequences

CONSTANTS USTACK,     \* words of the ordinary stack, at 1..USTACK
          UPAGE,      \* words of a page of it
          XSTACK,     \* words of the exception stack
          HWORDS,     \* words the handler in C uses
          Word        \* values of registers and flags

ASSUME UpcallConstants == /\ {USTACK, UPAGE, XSTACK} \subseteq Nat \ {0}
                          /\ HWORDS \in Nat /\ Word \subseteq Nat /\ USTACK % UPAGE = 0

(* The exception stack is above the other, with a gap.                     *)
XBASE == USTACK + 10
UXSTACKTOP == XBASE + XSTACK

(* Where the program is: its own code, the handler, the upcall's store,    *)
(* the upcall's first instruction.                                         *)
main == 1
handler == 2
storing == 3
entry == 4

VARIABLES cpu,        \* eip, esp, regs, flags
          stackmem,        \* words, by address
          low,        \* the lowest word of the ordinary stack that is mapped
          xmapped,    \* 1 once the exception stack is there
          upcallset,     \* 1 once env_pgfault_upcall is set
          alive,      \* 0 when the environment was destroyed
          saved       \* the contexts that faulted and were not resumed, with memory

upcallVars == <<cpu, stackmem, low, xmapped, upcallset, alive, saved>>

Addresses == (1..USTACK) \cup (XBASE..(UXSTACKTOP - 1))
Mapped(a) == (a \in low..USTACK) \/ (xmapped = 1 /\ a \in XBASE..(UXSTACKTOP - 1))

UpcallInit == /\ cpu \in [eip : {main}, esp : {USTACK + 1}, regs : Word, flags : Word]
              /\ stackmem = [a \in Addresses |-> 0]
              /\ low = USTACK - UPAGE + 1
              /\ xmapped = 0 /\ upcallset = 0 /\ alive = 1 /\ saved = <<>>

----------------------------------------------------------------------------
(* The program computes: other registers, flags and depth of stack.        *)
compute(c) == /\ alive = 1 /\ cpu.eip = main /\ c.eip = main
              /\ c.esp \in low..(USTACK + 1)
              /\ cpu' = c
              /\ UNCHANGED <<stackmem, low, xmapped, upcallset, alive, saved>>

(* sys_page_alloc may fail, and the program then panics.                   *)
set_pgfault_handler(ok) ==
    /\ alive = 1 /\ cpu.eip = main /\ upcallset = 0
    /\ IF ok THEN xmapped' = 1 /\ upcallset' = 1 /\ UNCHANGED alive
       ELSE alive' = 0 /\ UNCHANGED <<xmapped, upcallset>>
    /\ UNCHANGED <<cpu, stackmem, low, saved>>

(* page_fault_handler, entered with the processor's state c and memory m.  *)
UTF == 5
(* Mutant: no word is left between a frame and the stack it interrupts.    *)
Size_tight == UTF
Size == UTF + 1
OnException(esp) == UXSTACKTOP - XSTACK < esp /\ esp < UXSTACKTOP
Top(esp) == IF OnException(esp) THEN esp ELSE UXSTACKTOP
Room(at) == \A a \in at..(at + Size - 1) : a \in Addresses /\ Mapped(a)

(* The words of a frame.                                                   *)
Frame(c, a) == <<a, c.regs, c.eip, c.flags, c.esp>>

page_fault_handler(c, m, va) ==
    LET utr == Top(c.esp) - Size
    IN  IF upcallset = 1 /\ Room(utr)
        THEN /\ stackmem' = [a \in Addresses |->
                     IF a \in utr..(utr + UTF - 1) THEN Frame(c, va)[a - utr + 1] ELSE m[a]]
             /\ cpu' = [c EXCEPT !.eip = entry, !.esp = utr]
             /\ saved' = Append(saved, [c |-> c, mem |-> m])
             /\ UNCHANGED alive
        ELSE alive' = 0 /\ UNCHANGED <<cpu, stackmem, saved>>

(* Only the frame is checked to fit.  A fault of a context that is on the  *)
(* exception stack with nothing left of it is taken for one from outside:  *)
(* its frame is put over those of the outermost faults.  The state in      *)
(* which that has happened is the last one looked at: pgfault of           *)
(* lib/fork.c panics over such an address, and what another handler would  *)
(* go back to is not followed.                                             *)
Overrun == \E i \in DOMAIN saved : saved[i].c.esp = XBASE
Going == alive = 1 /\ ~Overrun

(* The upcall pushes its argument and the return address, and the handler  *)
(* its own words; the push that finds the exception stack full faults.     *)
Pushed(to) == [a \in Addresses |-> IF a >= to /\ a < cpu.esp /\ a >= XBASE THEN -1 ELSE stackmem[a]]

pgfault_upcall ==
    /\ Going /\ cpu.eip = entry
    /\ LET deep == cpu.esp - 2 - HWORDS
       IN  IF deep >= XBASE
           THEN /\ stackmem' = Pushed(deep)
                /\ cpu' = [eip |-> handler, esp |-> deep, regs |-> 0, flags |-> 0]
                /\ UNCHANGED <<alive, saved>>
           ELSE page_fault_handler([cpu EXCEPT !.esp = XBASE], Pushed(XBASE), XBASE - 1)
    /\ UNCHANGED <<low, xmapped, upcallset>>

(* A fault at an address the handler will deal with, from the program or   *)
(* from the handler.                                                       *)
fault == /\ Going /\ cpu.eip \in {main, handler}
         /\ page_fault_handler(cpu, stackmem, 0)
         /\ UNCHANGED <<low, xmapped, upcallset>>

(* The handler in C returns, having mapped what was missing, and the       *)
(* upcall drops the argument and the first words of the frame.             *)
returned == /\ Going /\ cpu.eip = handler
            /\ LET utr == cpu.esp + HWORDS + 2
               IN  /\ low' = IF stackmem[utr] # 0 /\ stackmem[utr] < low THEN low - UPAGE ELSE low
                   /\ cpu' = [cpu EXCEPT !.eip = storing, !.esp = utr + 1]
            /\ UNCHANGED <<stackmem, xmapped, upcallset, alive, saved>>

(* movl %ecx, -4(%eax): the old eip under the old stack, when there is a   *)
(* page; then popal, popfl, popl %esp, lea, ret, which leave the exception *)
(* stack with everything as it was.                                        *)
resume == /\ Going /\ cpu.eip = storing /\ Mapped(stackmem[cpu.esp + 3] - 1)
          /\ stackmem' = [stackmem EXCEPT ![stackmem[cpu.esp + 3] - 1] = stackmem[cpu.esp + 1]]
          /\ LET esp == stackmem'[cpu.esp + 3]
             IN  cpu' = [eip |-> stackmem'[esp - 1], esp |-> esp, regs |-> stackmem'[cpu.esp],
                         flags |-> stackmem'[cpu.esp + 2]]
          /\ saved' = SubSeq(saved, 1, Len(saved) - 1)
          /\ UNCHANGED <<low, xmapped, upcallset, alive>>

(* The store faults; with no more stack to map the program is stuck.       *)
store_fault == /\ Going /\ cpu.eip = storing /\ ~Mapped(stackmem[cpu.esp + 3] - 1)
               /\ IF low > 1 THEN page_fault_handler(cpu, stackmem, stackmem[cpu.esp + 3] - 1)
                  ELSE alive' = 0 /\ UNCHANGED <<cpu, stackmem, saved>>
               /\ UNCHANGED <<low, xmapped, upcallset>>

Contexts == [eip : {main}, esp : 1..(USTACK + 1), regs : Word, flags : Word]
UpcallNext == \/ \E c \in Contexts : compute(c)
              \/ \E ok \in BOOLEAN : set_pgfault_handler(ok)
              \/ fault \/ pgfault_upcall \/ returned \/ resume \/ store_fault
UpcallSpec == UpcallInit /\ [][UpcallNext]_upcallVars
UpcallTypeOK == cpu.eip \in {main, handler, storing, entry} /\ low \in 1..(USTACK + 1)

----------------------------------------------------------------------------
(* The stack a context uses, from its stack pointer up.                    *)
InUse(c) == {a \in Addresses : a >= c.esp /\ (c.esp <= USTACK + 1 => a <= USTACK)}

(* However faults nest, each context is resumed as it was: the same place, *)
(* stack pointer, registers and flags (pfentry.S "all registers must have  *)
(* their trap-time values after the return").                              *)
ContextRestored == saved # <<>> /\ Len(saved') < Len(saved) => cpu' = saved[Len(saved)].c

(* While a context waits to be resumed nothing above its stack pointer     *)
(* changes: neither the frames of later faults nor the word each upcall    *)
(* stores under the old stack pointer touch it, unless the faults nest so  *)
(* deep that the exception stack is overrun (see Overrun; the comment at   *)
(* trap.c:390 has the environment destroyed then, and the code does not).  *)
StacksKept == ~Overrun => \A i \in DOMAIN saved :
                  \A a \in InUse(saved[i].c) : stackmem[a] = saved[i].mem[a]
=============================================================================

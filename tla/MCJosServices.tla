--------------------------- MODULE MCJosServices ----------------------------
(***************************************************************************)
(* Memory, messages and files of JOS: parts that meet only through         *)
(* messages and pages, explored one at a time.  `part` is chosen at the    *)
(* start; the environments and the descriptors stay as initialised and the *)
(* variables of the others stay 0, if they do not take part.               *)
(***************************************************************************)
EXTENDS JosEnv, JosMem, JosUpcall, JosFile, JosServe, JosFormat, TLC

VARIABLE part       \* the component whose behaviour this is

\* The image fsformat made: the file the self tests want, and a larger one.
FirstImage == <<<<"newmotd", <<9>>>>, <<"big", <<1, 2, 1>>>>>>
OpenModes == {{"CREAT"}, {"CREAT", "EXCL"}, {"TRUNC"}}
Spans == {<<1, 4>>}                           \* offset and length of a write
Pages == 0..13

\* The processors, and the environments but the first, are alike.
Sym == Permutations(CPU) \cup Permutations(MEnv \ {mfirst})

\* A component that does not take part.
MemOff == mm = 0 /\ mpgdir = 0 /\ mstatus = 0 /\ upcall = 0 /\ upc = 0 /\ faults = 0 /\
          view = 0 /\ forks = 0
UpcallOff == cpu = 0 /\ stackmem = 0 /\ low = 0 /\ xmapped = 0 /\ upcallset = 0 /\
             alive = 0 /\ saved = 0
FileOff == s = 0 /\ disk = 0 /\ up = 0 /\ truth = 0 /\ flushed = 0 /\ soon = 0 /\
           reqs = 0 /\ boots = 0
FormatOff == given = 0 /\ dir = 0 /\ rootfile = 0 /\ diskmap = 0 /\ diskpos = 0 /\
             freemap = 0 /\ formatted = 0

ServicesInit ==
    /\ part \in {"env", "mem", "upcall", "file", "serve", "format"}
    /\ Init /\ ServeInit
    /\ IF part = "mem" THEN MemInit ELSE MemOff
    /\ IF part = "upcall" THEN UpcallInit ELSE UpcallOff
    /\ IF part = "file" THEN FileInit ELSE FileOff
    /\ IF part = "format" THEN FormatInit ELSE FormatOff

ServicesNext ==
    \/ /\ part = "env" /\ Next
       /\ UNCHANGED <<part, memVars, upcallVars, fileVars, serveVars, formatVars>>
    \/ /\ part = "mem" /\ MemNext
       /\ UNCHANGED <<part, vars, upcallVars, fileVars, serveVars, formatVars>>
    \/ /\ part = "upcall" /\ UpcallNext
       /\ UNCHANGED <<part, vars, memVars, fileVars, serveVars, formatVars>>
    \/ /\ part = "file" /\ FileNext
       /\ UNCHANGED <<part, vars, memVars, upcallVars, serveVars, formatVars>>
    \/ /\ part = "serve" /\ ServeNext
       /\ UNCHANGED <<part, vars, memVars, upcallVars, fileVars, formatVars>>
    \/ /\ part = "format" /\ FormatNext
       /\ UNCHANGED <<part, vars, memVars, upcallVars, fileVars, serveVars>>

servicesVars == <<part, vars, memVars, upcallVars, fileVars, serveVars, formatVars>>
ServicesSpec == ServicesInit /\ [][ServicesNext]_servicesVars
-----------------------------------------------------------------------------

\* Memory: pp_ref counts the mappings of each page, also when fork runs out of
\* memory; after fork neither side sees the other's stores, and a page held
\* copy-on-write is writable for nobody; and while a faulting context waits to
\* be resumed, nothing above its stack pointer changes, unless the faults nest so
\* deep that the exception stack is overrun.
MemSound ==
    /\ part = "mem" => MemTypeOK /\ RefsExact /\ PrivateMemory /\ CowFrozen
    /\ part = "upcall" => UpcallTypeOK /\ StacksKept

\* Files: the file server's cache never uses a block twice, nor does the disk
\* but through a slot file_set_size left stale there; files have the contents
\* written to them, what was flushed is there after a power failure between any
\* two block writes, and the server that starts again panics only over what its
\* own self tests had left half done (fs.c, bc.c); the image of fsformat holds
\* its files and marks their blocks (fsformat.c).
FileSound ==
    /\ part = "file" => /\ FileTypeOK /\ CacheSound /\ DiskSound /\ ContentsTrue
                        /\ Durable /\ RestartSound
    /\ part = "format" => FormatTypeOK /\ FormatSound

\* The return from a page fault handler restores the context that faulted, and
\* no request of the file server loses a block, whichever step of it fails.
StepsRight ==
    [][/\ part = "upcall" => ContextRestored
       /\ part = "file" => NoLeak]_servicesVars
=============================================================================

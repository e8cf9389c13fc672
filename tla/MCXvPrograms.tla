---------------------------- MODULE MCXvPrograms ----------------------------
(* Model-checking instance of the user programs of xv6.  A behaviour is one   *)
(* of:                                                                        *)
(*   tests   usertests.c (XvUserTests) on a small kernel,                     *)
(*   shell   init.c and sh.c (XvShell) with any two of the lines Typed,       *)
(*   parse   every line of up to MaxTokens tokens (XvParse).                  *)
EXTENDS XvShell

VARIABLE part

\* A path element longer than DIRSIZ loses its last character.
Cut(s) == IF s = d15 THEN d14 ELSE s

Typed == <<<<"echo", "a", "|", "cat", ">", "f">>, <<"cat", "<", "f", "|", "cat">>,
           <<"(", "echo", "a", ";", "echo", "b", ")", "|", "cat", ">", "g">>,
           <<"echo", "a", "&", ";", "echo", "b">>, <<"mkdir", "d">>, <<"cd", "d">>,
           <<"zombie">>, <<"rm", "f", ";", "cat", "g">>, <<"echo", "(">>>>

\* The tables are smaller than in the shell's runs: the tests fill them.
Tests == INSTANCE XvUserTests WITH NFILE <- 6, NOFILE <- 5, MAXFILE <- 4, NFRAME <- 20

lineVars == <<typed, meant, alone, text>>

\* What does not take part.
LinesOff == typed = 0 /\ meant = 0 /\ alone = 0 /\ text = <<>>
KernelOff == /\ code = 0 /\ node = 0 /\ file = 0 /\ pipe = 0 /\ proc = 0 /\ nextpid = 0
             /\ spinning = 0 /\ failed = 0

ProgramsInit ==
    /\ part \in {"tests", "shell", "parse"}
    /\ part = "shell" => ShellInit
    /\ part = "tests" => Tests!TestsInit /\ LinesOff
    /\ part = "parse" => ParseInit /\ KernelOff /\ LinesOff

TestsStep == part = "tests" /\ Tests!UserNext /\ UNCHANGED <<part, lineVars>>
ProgramStep == part = "shell" /\ UserNext /\ UNCHANGED <<part, lineVars>>

ProgramsNext ==
    \/ TestsStep
    \/ ProgramStep
    \/ part = "shell" /\ (\E p \in Slot : getcmd(p)) /\ UNCHANGED part
    \/ part = "parse" /\ ParseNext /\ UNCHANGED <<part, userVars, typed, meant, alone>>

programsVars == <<part, userVars, lineVars>>
ProgramsSpec ==
    /\ ProgramsInit /\ [][ProgramsNext]_programsVars
    /\ WF_programsVars(ProgramStep)
-----------------------------------------------------------------------------

\* Every call of every test of usertests returns what the test accepts, and a
\* file is open exactly as long as a descriptor names it (filedup, fileclose).
AllTestsPass == part = "tests" => Tests!UserTypeOK /\ TestsPass /\ Tests!FilesCounted

\* A line typed at the shell does what its text means, in whatever order its
\* processes run; with nothing in the background it is over when the shell
\* prompts again; and parsecmd accepts the lines of the grammar and builds
\* their one tree.
ShellRight ==
    /\ part = "shell" => UserTypeOK /\ LinesMean /\ ForegroundDone /\ FilesCounted
    /\ part = "parse" => ParseRight

\* The commands of a line come to their end, none waits for ever for a pipe whose
\* ends the shell has left open, and the shell comes back to its prompt with
\* everything it started reaped (runcmd and main of sh.c).
CommandsEnd == <>[](part = "shell" => Prompting)
=============================================================================

------------------------------ MODULE XvShell -------------------------------
(***************************************************************************)
(* init.c, the shell sh.c and small programs (echo.c, cat.c, rm.c, ...) on *)
(* the machine of XvUser.                                                  *)
(*                                                                         *)
(* runcmd on the tree XvParse gives a command line is compiled to the code *)
(* of the process that runs it and of those it forks.                      *)
(***************************************************************************)
EXTENDS XvUserTests, XvParse

CONSTANTS Lines,      \* the command lines typed: a sequence of sequences of tokens
          MaxLines    \* command lines in a behaviour

VARIABLES typed,      \* how many lines were typed
          meant,      \* what the lines so far are meant to have done
          alone       \* 1 while no line has started anything in the background

shellVars == <<userVars, typed, meant, alone>>

----------------------------------------------------------------------------
(* Programs.                                                               *)

Std(v, data) == [op |-> "write", v |-> v, data |-> data]
Quit(i) == ("quit" :> TRUE) @@ i
Jump(label, to) == [op |-> "jump", label |-> label, to |-> to]

(* cat's loop at place at of label l: read and write until the end.        *)
Copy(v, l, at) == <<[op |-> "readto", v |-> v, n |-> 2, eof |-> at + 3],
                    Quit([op |-> "write", v |-> "stdout", want |-> 1..MAXFILE]), Jump(l, at)>>

cat(args, l) ==
    LET One(i) == <<Quit(Open(<<args[i]>>))>> \o Copy("fd", l, 5 * i - 3) \o <<Close("fd")>>
    IN  IF args = <<>> THEN Copy("stdin", l, 1) ELSE Loop(Len(args), One)

rm(args) == LET One(i) == <<Quit(Unlink(<<args[i]>>))>> IN Loop(Len(args), One)
mkdir_(args) == LET One(i) == <<Quit(Mkdir(<<args[i]>>))>> IN Loop(Len(args), One)
(* zombie's child exits first or last; its parent does not wait.           *)
zombie == <<Try(Fork("p1", "exit"))>>

Program(argv, l) ==
    (CASE argv[1] = "echo" -> IF Tail(argv) = <<>> THEN <<>> ELSE <<Std("stdout", Tail(argv))>>
       [] argv[1] = "cat" -> cat(Tail(argv), l)
       [] argv[1] = "rm" -> rm(Tail(argv))
       [] argv[1] = "mkdir" -> mkdir_(Tail(argv))
       [] argv[1] = "zombie" -> zombie
       [] OTHER -> <<>>) \o <<Exit>>
Programs == {"echo", "cat", "rm", "mkdir", "zombie"}

----------------------------------------------------------------------------
(* runcmd: the code of the process at label l that runs c, and the labels  *)
(* of what it forks.                                                       *)

ExecOf(c, l) == IF c.argv = <<>> THEN <<>>
                ELSE <<[op |-> "exec", path |-> <<c.argv[1]>>, prog |-> l \o "!", fits |-> TRUE]>>
(* The descriptor that a redirection takes the place of.                   *)
Std0(c) == IF c.rw = "r" THEN "stdin" ELSE "stdout"
RedirOf(c) == <<Close(Std0(c)), Quit(OpenAs("fd", <<c.file>>, c.rw, c.rw = "w"))>>

(* Mutant: the parent keeps its ends of the pipe.                          *)
CloseEnds_not == <<Close("r")>>
CloseEnds == <<Close("r"), Close("w")>>
(* Mutant: only one side is waited for.                                    *)
Waits_one == <<Wait>>
Waits == <<Wait, Wait>>
PipeOf(l) == <<Quit(Pipe), Quit(Fork("p1", l \o "l")), Quit(Fork("p2", l \o "r"))>>
             \o CloseEnds \o Waits
End(v, std) == <<Close(std), [op |-> "dup", v |-> v], Close("r"), Close("w")>>

RECURSIVE Main(_, _)
Main(c, l) ==
    CASE c.type = "EXEC" -> ExecOf(c, l)
      [] c.type = "REDIR" -> RedirOf(c) \o Main(c.cmd, l)
      [] c.type = "LIST" -> <<Quit(Fork("p1", l \o "l")), Wait>> \o Main(c.right, l \o "r")
      [] c.type = "PIPE" -> PipeOf(l)
      [] c.type = "BACK" -> <<Quit(Fork("p1", l \o "b"))>>

RECURSIVE Forked(_, _)
Forked(c, l) ==
    CASE c.type = "EXEC" -> IF c.argv = <<>> THEN <<>> ELSE (l \o "!") :> Program(c.argv, l \o "!")
      [] c.type = "REDIR" -> Forked(c.cmd, l)
      [] c.type = "LIST" -> (l \o "l") :> (Main(c.left, l \o "l") \o <<Exit>>)
                            @@ Forked(c.left, l \o "l") @@ Forked(c.right, l \o "r")
      [] c.type = "PIPE" -> (l \o "l") :> (End("w", "stdout") \o Main(c.left, l \o "l") \o <<Exit>>)
                            @@ (l \o "r") :> (End("r", "stdin") \o Main(c.right, l \o "r") \o <<Exit>>)
                            @@ Forked(c.left, l \o "l") @@ Forked(c.right, l \o "r")
      [] c.type = "BACK" -> (l \o "b") :> (Main(c.cmd, l \o "b") \o <<Exit>>)
                            @@ Forked(c.cmd, l \o "b")

----------------------------------------------------------------------------
(* init and the shell's loop.                                              *)

OnlyIf(v, i) == ("onlyif" :> v) @@ i
Console == <<"console">>
init_ ==
    <<Try(OpenRW(Console)), OnlyIf("fd", Try(Named1("mknod", Console))),
      OnlyIf("fd", Try(OpenRW(Console))), [op |-> "dup", v |-> "stdin"],
      [op |-> "dup", v |-> "stdin"],
      Quit(Fork("p1", "startsh")), [op |-> "wait", v |-> "p1", all |-> FALSE, until |-> TRUE],
      Jump("init", 6)>>
startsh == <<[op |-> "exec", path |-> <<"sh">>, prog |-> "sh", fits |-> TRUE], Exit>>

(* With 0, 1 and 2 open already the first open gives 3, which is closed.   *)
sh == <<Try(OpenRW(Console)), Close("fd"), [op |-> "getcmd"]>>
PROMPT == 3

(* A line k: cd is the shell's own; anything else is parsed and run by a   *)
(* child, which a syntax error ends.                                       *)
IsCd(k) == Lines[k] # <<>> /\ Lines[k][1] = "cd"
Command(k) == IF IsCd(k) THEN <<Try(Chdir(<<Lines[k][2]>>)), Jump("sh", PROMPT)>>
              ELSE <<Quit(Fork("p1", N("line", k))), Wait, Jump("sh", PROMPT)>>
Child_(k) == IF parsecmd(Lines[k]).ok THEN Main(parsecmd(Lines[k]).cmd, N("line", k)) \o <<Exit>>
             ELSE <<Exit>>
RECURSIVE Rest(_)
Rest(k) == IF k = 0 THEN <<>>
           ELSE Rest(k - 1) @@ (IF parsecmd(Lines[k]).ok
                                THEN Forked(parsecmd(Lines[k]).cmd, N("line", k)) ELSE <<>>)

ShellCode == ("init" :> init_) @@ ("startsh" :> startsh) @@ ("sh" :> sh) @@ ("exit" :> <<Exit>>)
             @@ Numbered("cmd", Len(Lines), Command) @@ Numbered("line", Len(Lines), Child_)
             @@ Rest(Len(Lines))

----------------------------------------------------------------------------
(* What a command means, with no processes: from the files m and its input *)
(* to the files, the rest of the input and the output.                     *)

At_(m, name) == <<m.cwd, name>>
Runs(m, name) == m.cwd = "/" /\ name \in Programs
Overlay(new, old) == new \o Drop(old, Len(new))
Result(m, in, out) == [m |-> m, in |-> in, out |-> out]

RECURSIVE CatFiles(_, _)
CatFiles(m, args) == IF args = <<>> \/ At_(m, args[1]) \notin DOMAIN m.files THEN <<>>
                     ELSE m.files[At_(m, args[1])] \o CatFiles(m, Tail(args))
RECURSIVE Without(_, _)
Without(m, args) ==
    IF args = <<>> \/ At_(m, args[1]) \notin DOMAIN m.files THEN m
    ELSE Without([m EXCEPT !.files = [f \in DOMAIN @ \ {At_(m, args[1])} |-> @[f]]], Tail(args))

Effect(argv, m, in) ==
    LET args == Tail(argv)
    IN  CASE argv[1] = "echo" -> Result(m, in, args)
          [] argv[1] = "cat" -> IF args = <<>> THEN Result(m, <<>>, in)
                                ELSE Result(m, in, CatFiles(m, args))
          [] argv[1] = "rm" -> Result(Without(m, args), in, <<>>)
          [] argv[1] = "mkdir" -> Result([m EXCEPT !.dirs = @ \cup {args[1]}], in, <<>>)
          [] OTHER -> Result(m, in, <<>>)

RECURSIVE Meaning(_, _, _)
Meaning(c, m, in) ==
    CASE c.type = "EXEC" ->
             IF c.argv # <<>> /\ Runs(m, c.argv[1]) THEN Effect(c.argv, m, in)
             ELSE Result(m, in, <<>>)
      [] c.type = "REDIR" /\ c.rw = "r" ->
             IF At_(m, c.file) \notin DOMAIN m.files THEN Result(m, in, <<>>)
             ELSE LET r == Meaning(c.cmd, m, m.files[At_(m, c.file)]) IN [r EXCEPT !.in = in]
      [] c.type = "REDIR" /\ c.rw = "w" ->
             LET f == At_(m, c.file)
                 r == Meaning(c.cmd, [m EXCEPT !.files = @ @@ (f :> <<>>)], in)
             IN  Result([r.m EXCEPT !.files[f] = Overlay(r.out, @)], r.in, <<>>)
      [] c.type = "LIST" ->
             LET l == Meaning(c.left, m, in)
                 r == Meaning(c.right, l.m, l.in)
             IN  Result(r.m, r.in, l.out \o r.out)
      [] c.type = "PIPE" ->
             LET l == Meaning(c.left, m, in)
                 r == Meaning(c.right, l.m, l.out)
             IN  Result(r.m, l.in, r.out)
      [] c.type = "BACK" -> Result(m, in, <<>>)

MeaningOf(k, m) ==
    IF IsCd(k) THEN [m EXCEPT !.cwd = IF Lines[k][2] = "/" THEN "/"
                                      ELSE IF @ = "/" /\ Lines[k][2] \in m.dirs THEN Lines[k][2] ELSE @]
    ELSE LET p == parsecmd(Lines[k])
             r == Meaning(p.cmd, m, <<>>)
         IN  IF p.ok THEN [r.m EXCEPT !.console = @ \o r.out] ELSE m

Background(k) == {"&", "zombie"} \cap {Lines[k][i] : i \in DOMAIN Lines[k]} # {}

----------------------------------------------------------------------------
ShellInit == /\ UserInit(ShellCode, "init", "", Programs \cup {"sh"})
             /\ typed = 0 /\ alone = 1
             /\ meant = [cwd |-> "/", dirs |-> {}, files |-> <<>>, console |-> <<>>]
             /\ text = <<>>

(* A line is typed, or the end of file.                                    *)
getcmd(p) ==
    /\ At(p, "getcmd") /\ typed < MaxLines
    /\ typed' = typed + 1
    /\ \E k \in 0..Len(Lines) :
          /\ proc' = [proc EXCEPT ![p].label = IF k = 0 THEN "exit" ELSE N("cmd", k), ![p].pc = 1]
          /\ meant' = IF k = 0 THEN [meant EXCEPT !.cwd = "/"] ELSE MeaningOf(k, meant)
          /\ alone' = IF k > 0 /\ Background(k) THEN 0 ELSE alone
    /\ UNCHANGED <<code, node, file, pipe, nextpid, spinning, failed, text>>

ShellNext == \/ \E p \in Slot : getcmd(p)
             \/ UserNext /\ UNCHANGED <<typed, meant, alone, text>>
ShellSpec == ShellInit /\ [][ShellNext]_<<shellVars, text>>
             /\ WF_shellVars(UserNext /\ UNCHANGED <<typed, meant, alone, text>>)

----------------------------------------------------------------------------
Prompt(p) == proc[p].st = "run" /\ proc[p].label = "sh" /\ proc[p].pc = PROMPT
Others == {p \in Slot : proc[p].st # "unused" /\ p # init /\ ~Prompt(p)}

FileNames(d) == {n \in DOMAIN node[d].ents : node[node[d].ents[n]].type = "file"}
                \ (Programs \cup {"sh"})
Contents(d) == [n \in FileNames(d) |-> node[node[d].ents[n]].data]
MeantIn(d) == [n \in {f[2] : f \in {g \in DOMAIN meant.files : g[1] = d}} |-> meant.files[<<d, n>>]]

(* With nothing put in the background, a line is over when the shell       *)
(* prompts for the next: no process it started is left, running or zombie  *)
(* (runcmd and main wait for each fork they make).                         *)
ForegroundDone == alone = 1 /\ (\E p \in Slot : Prompt(p)) => Others = {}

(* A line does what its text means whatever the order its processes run    *)
(* in: at the prompt the console, the files and the directories are those  *)
(* of a reading of the command that knows no processes, pipes or           *)
(* descriptors.                                                            *)
LinesMean ==
    \A p \in Slot : alone = 1 /\ Prompt(p) =>
        /\ node[node[Root].ents["console"]].data = meant.console
        /\ Contents(Root) = MeantIn("/")
        /\ \A d \in meant.dirs : Contents(node[Root].ents[d]) = MeantIn(d)
        /\ proc[p].cwd = IF meant.cwd = "/" THEN Root ELSE node[Root].ents[meant.cwd]

(* The shell comes back to its prompt after every line, or init starts a   *)
(* new one, and what was left in the background is reaped.                 *)
Prompting == (\E p \in Slot : Prompt(p)) /\ Others = {}
=============================================================================

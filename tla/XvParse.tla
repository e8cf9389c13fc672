------------------------------ MODULE XvParse -------------------------------
(***************************************************************************)
(* The parser of sh.c.  A command line is a sequence of tokens: gettoken's *)
(* white space and the characters of a word are left out.                  *)
(***************************************************************************)
EXTENDS Integers, Sequences, FiniteSets

CONSTANTS Token,      \* the tokens of the lines examined
          MAXARGS,
          MaxTokens   \* their length

ASSUME ParseConstants == MAXARGS \in Nat \ {0} /\ MaxTokens \in Nat

VARIABLE text         \* the line

----------------------------------------------------------------------------
(* Parsing.  A parse is the tree and the tokens left, or a syntax error.   *)

Symbols == {"<", ">", ">>", "|", "&", ";", "(", ")"}
Peek1(s, toks) == s # <<>> /\ s[1] \in toks
Word(s) == s # <<>> /\ s[1] \notin Symbols

execcmd(argv) == [type |-> "EXEC", argv |-> argv]
redircmd(cmd, file_, rw) == [type |-> "REDIR", cmd |-> cmd, file |-> file_, rw |-> rw]
pipecmd(l, r) == [type |-> "PIPE", left |-> l, right |-> r]
listcmd(l, r) == [type |-> "LIST", left |-> l, right |-> r]
backcmd(c) == [type |-> "BACK", cmd |-> c]

(* The redirections wrap the command they follow, the first innermost; of  *)
(* an EXEC, argv grows under them.                                         *)
Parsed(cmd, rest) == [ok |-> TRUE, cmd |-> cmd, rest |-> rest]
Syntax == [ok |-> FALSE, cmd |-> execcmd(<<>>), rest |-> <<>>]

RECURSIVE AddArg(_, _)
AddArg(c, w) == IF c.type = "EXEC" THEN [c EXCEPT !.argv = Append(@, w)]
                ELSE [c EXCEPT !.cmd = AddArg(@, w)]

RECURSIVE parseredirs(_, _)
parseredirs(c, s) ==
    IF ~Peek1(s, {"<", ">", ">>"}) THEN Parsed(c, s)
    ELSE IF ~Word(Tail(s)) THEN Syntax
    ELSE parseredirs(redircmd(c, s[2], IF s[1] = "<" THEN "r" ELSE "w"), SubSeq(s, 3, Len(s)))

(* parseexec's loop, n arguments so far.                                   *)
RECURSIVE Arguments(_, _)
Arguments(p, n) ==
    IF ~p.ok THEN Syntax
    ELSE IF p.rest = <<>> \/ Peek1(p.rest, {"|", ")", "&", ";"}) THEN p
    ELSE IF ~Word(p.rest) \/ n + 1 >= MAXARGS THEN Syntax
    ELSE Arguments(parseredirs(AddArg(p.cmd, p.rest[1]), Tail(p.rest)), n + 1)

JoinPipe(c, r) == pipecmd(c, r)

RECURSIVE parseline(_), parsepipe(_), parseexec(_), parseblock(_), Backs(_)
parseblock(s) ==
    LET p == parseline(Tail(s))
    IN  IF ~p.ok \/ ~Peek1(p.rest, {")"}) THEN Syntax ELSE parseredirs(p.cmd, Tail(p.rest))
parseexec(s) == IF Peek1(s, {"("}) THEN parseblock(s)
                ELSE Arguments(parseredirs(execcmd(<<>>), s), 0)
parsepipe(s) ==
    LET p == parseexec(s)
        q == parsepipe(Tail(p.rest))
    IN  IF ~p.ok \/ ~Peek1(p.rest, {"|"}) THEN p
        ELSE IF ~q.ok THEN Syntax ELSE Parsed(JoinPipe(p.cmd, q.cmd), q.rest)
Backs(p) == IF p.ok /\ Peek1(p.rest, {"&"}) THEN Backs(Parsed(backcmd(p.cmd), Tail(p.rest))) ELSE p
parseline(s) ==
    LET p == Backs(parsepipe(s))
        q == parseline(Tail(p.rest))
    IN  IF ~p.ok \/ ~Peek1(p.rest, {";"}) THEN p
        ELSE IF ~q.ok THEN Syntax ELSE Parsed(listcmd(p.cmd, q.cmd), q.rest)

parsecmd(s) == LET p == parseline(s) IN IF p.ok /\ p.rest = <<>> THEN p ELSE Syntax

----------------------------------------------------------------------------
(* The grammar, as the set of trees a line has:                            *)
(*     line ::= pipe "&"* [";" line]        pipe ::= unit ["|" pipe]       *)
(*     unit ::= "(" line ")" redir*  |  {word | redir}*                    *)
(*     redir ::= ("<" | ">" | ">>") word                                   *)

Operators == {"<", ">", ">>"}
Ops(s) == {i \in DOMAIN s : s[i] \in Operators}
Targets(s) == {i + 1 : i \in Ops(s)}
Args(s) == {i \in DOMAIN s : i \notin Ops(s) \cup Targets(s)}
Sane(s) == /\ \A i \in Targets(s) : i \in DOMAIN s /\ s[i] \notin Symbols
           /\ \A i \in Args(s) : s[i] \notin Symbols
Wrapped(c, s) ==
    LET at[i \in 0..Len(s)] ==
            IF i = 0 THEN c
            ELSE IF i \in Ops(s) THEN redircmd(at[i - 1], s[i + 1], IF s[i] = "<" THEN "r" ELSE "w")
            ELSE at[i - 1]
    IN  at[Len(s)]
Upto(s, i) == SubSeq(s, 1, i)
From(s, i) == SubSeq(s, i, Len(s))

Commands(s) ==
    IF Sane(s) /\ Cardinality(Args(s)) < MAXARGS
    THEN {Wrapped(execcmd([i \in 1..Cardinality(Args(s)) |->
                              s[CHOOSE j \in Args(s) : Cardinality({k \in Args(s) : k < j}) = i - 1]]), s)}
    ELSE {}

RECURSIVE Units(_), Pipes(_), Line(_)
Units(s) ==
    Commands(s) \cup
    (IF ~Peek1(s, {"("}) THEN {}
     ELSE UNION {{Wrapped(c, From(s, i + 1)) : c \in Line(SubSeq(s, 2, i - 1))} :
                 i \in {j \in DOMAIN s : /\ j > 1 /\ s[j] = ")"
                                         /\ Sane(From(s, j + 1)) /\ Args(From(s, j + 1)) = {}}})
Pipes(s) ==
    Units(s) \cup UNION {{pipecmd(l, r) : l \in Units(Upto(s, i - 1)), r \in Pipes(From(s, i + 1))} :
                         i \in {j \in DOMAIN s : s[j] = "|"}}
RECURSIVE Ended(_)
Ended(s) == Pipes(s) \cup (IF s # <<>> /\ s[Len(s)] = "&"
                           THEN {backcmd(c) : c \in Ended(Upto(s, Len(s) - 1))} ELSE {})
Line(s) ==
    Ended(s) \cup UNION {{listcmd(l, r) : l \in Ended(Upto(s, i - 1)), r \in Line(From(s, i + 1))} :
                         i \in {j \in DOMAIN s : s[j] = ";"}}

----------------------------------------------------------------------------
ParseInit == text = <<>>
ParseNext == \E t \in Token : Len(text) < MaxTokens /\ text' = Append(text, t)
ParseSpec == ParseInit /\ [][ParseNext]_text

(* The recursive descent of sh.c accepts the lines of the grammar and no   *)
(* other, and builds their one tree: a pipeline groups to the right, "&"   *)
(* takes the whole pipeline, ";" the rest of the line.                     *)
ParseRight == Line(text) = IF parsecmd(text).ok THEN {parsecmd(text).cmd} ELSE {}
=============================================================================

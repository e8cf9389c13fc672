------------------------------- MODULE Streams -------------------------------
(***************************************************************************)
(* The byte streams of the two systems side by side: the pipes and the     *)
(* console of xv6 and of JOS, with what they promise their users.          *)
(***************************************************************************)
EXTENDS XvPipe, XvConsole, JosPipe, PcConsole

\* Bytes go through: read returns 0 from a pipe of xv6 only when every writer
\* has closed and nothing is left, and its page is freed with nobody inside; no
\* reader sleeps in consoleread over committed input, and the indices of the
\* console's ring keep their order; _pipeisclosed of JOS says "closed" only when
\* nobody has the other end open, whatever close, dup and fork of others are in
\* the middle of, and a pipe holds the bytes written and not yet read; what
\* cons_getc has still to return are the last characters typed.
StreamsSound ==
    /\ PipeTypeOK /\ EofIsFinal /\ FreedUnused
    /\ ConsTypeOK /\ InputWindow /\ NoSleeperWithInput
    /\ JosPipeTypeOK /\ ClosedIsTrue /\ PipeHoldsBytes
    /\ JosConsTypeOK /\ UnreadIsNewest

\* Line editing of consoleintr never changes committed text, and a control-D
\* makes exactly one read return 0; scrolling keeps the text it does not push
\* off, as long as the cursor of xv6 is not in the last row; and JOS resets the
\* machine only on Ctrl-Alt-Del.
InputKept ==
    [][CommittedKept /\ EofGivesZero /\ TextKept /\ ResetMeant]_<<consVars, screenVars, kbdVars>>
=============================================================================

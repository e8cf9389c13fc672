---------------------------- MODULE StreamProofs ----------------------------
(***************************************************************************)
(* What Streams states of the pipes and the consoles of the two systems,   *)
(* from the theorems of RingProofs and of JosStreamProofs.                 *)
(***************************************************************************)
EXTENDS Streams, RingProofs, JosStreamProofs, TLAPS

\* What Streams promises of the pipes and the consoles holds for any number of
\* processes, environments and bytes, and any sizes of the buffers, where the
\* programs use a pipe of JOS as the shell does (Apart).
THEOREM StreamsAreSound ==
    ASSUME Apart
    PROVE  PipeSpec /\ ConsSpec /\ JosPipeSpec /\ JosConsSpec => []StreamsSound
<1>1. PipeSpec => [](PipeTypeOK /\ EofIsFinal /\ FreedUnused)
  <2>1. PipeInv => PipeTypeOK
    BY Zenon DEF PipeInv
  <2> QED  BY <2>1, PipeInvariant, EndOfFileIsFinal, FreedWhenUnused, PTL
<1>2. JosPipeSpec => [](JosPipeTypeOK /\ ClosedIsTrue /\ PipeHoldsBytes)
  <2>1. JosPipeInv => JosPipeTypeOK
    BY Zenon DEF JosPipeInv
  <2> QED  BY <2>1, JosPipeInvariant, PipeClosedIsTrue, PipeKeepsBytes, PTL
<1> QED  BY <1>1, <1>2, ConsoleSound, JosConsoleSound, PTL DEF StreamsSound

\* No step of the consoles loses committed input or printed text, and no step of
\* the keyboard driver resets the machine unasked, whichever of them moves.
THEOREM InputIsKept == ConsSpec /\ ScreenSpec /\ KbdSpec => InputKept
<1>1. ConsInv /\ ConsInv' /\ [ConsNext]_consVars => CommittedKept /\ EofGivesZero
  <2>1. (ConsInv => TextIs)'
    BY CommittedIs, PTL
  <2> QED  BY <2>1, KeepsText, Zenon
<1>2. ScreenInv /\ [ScreenNext]_screenVars => TextKept
  BY ScreenStep, Zenon
<1>3. KbdInv /\ [KbdNext]_kbdVars => ResetMeant
  BY KbdStep, Zenon
<1> QED  BY <1>1, <1>2, <1>3, ConsInvariant, ScreenInvariant, KbdInvariant, PTL
            DEF ConsSpec, ScreenSpec, KbdSpec, InputKept
=============================================================================

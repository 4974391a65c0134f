---------------------------------- MODULE Io --------------------------------
(***************************************************************************)
(* The class Io (src/kernel/arch/x86/io.h): what a process reads from the  *)
(* keyboard (Console) and writes on the screen (Screen) is of the same     *)
(* object, but in members of their own: keys are not echoed.  A behaviour  *)
(* is one of either half, the other one rests.                             *)
(***************************************************************************)
EXTENDS Console, Screen

VARIABLE half

ioVars == <<vars, screen, half>>

IoInit == half \in {"keyboard", "screen"} /\ Init /\ ScreenInit

Keyboard(A) == half = "keyboard" /\ A /\ UNCHANGED <<screen, half>>

IoNext == Keyboard(Next) \/ (half = "screen" /\ ScreenNext /\ UNCHANGED <<vars, half>>)

(* The fairness of module Console.                                         *)
IoFairness ==
    /\ WF_ioVars(Keyboard(Key(NEWLINE)))
    /\ \A q \in Readers : WF_ioVars(Keyboard(Lock(q) \/ Leave(q) \/ Copy(q)))

IoSpec == IoInit /\ [][IoNext]_ioVars /\ IoFairness

-----------------------------------------------------------------------------
(* Texts for Written: each kind of character alone, a line that wraps, and *)
(* a backspace behind a NUL.                                               *)
ShortTexts ==
    {<<c>> : c \in {"a", LF, BS, HT, CR}} \cup {<<"a", "a", LF, "a">>, <<CR, "NUL", "a", BS>>}
=============================================================================

-------------------------------- MODULE Screen ------------------------------
(***************************************************************************)
(* The screen of the kernel (src/kernel/arch/x86/io.cc): the video memory, *)
(* one place of two bytes after the other, and the cursor of the only Io   *)
(* object there is.  Processes write on it through Console::write          *)
(* (modules/stdtty.cc), the kernel with print, both with interrupts        *)
(* disabled or before there are processes.                                 *)
(***************************************************************************)
EXTENDS Integers, SequencesExt, FiniteSetsExt

CONSTANTS
    COLUMNS, ROWS, TAB, Written,
    MaxTabs     \* bound on x_: tabs are written in the first MaxTabs columns

ASSUME ScreenAssumption ==
    /\ COLUMNS \in Nat \ {0} /\ ROWS \in Nat \ {0} /\ TAB \in Nat \ {0}
    /\ \A text \in Written : text \in Seq(Range(text))

LF == "line feed"
BS == "backspace"
HT == "tab"
CR == "carriage return"

VARIABLE screen     \* [video, x, y], video from 0 to SCREENLIM

Places == 0 .. COLUMNS * ROWS - 1

Zero  == [c |-> "NUL", lit |-> FALSE]
Empty == [c |-> "NUL", lit |-> TRUE]

scrollup_LastStays(s, n) ==
    [s EXCEPT !.video = [v \in Places |-> IF v + n * COLUMNS \in Places
                                          THEN s.video[v + n * COLUMNS] ELSE s.video[v]],
              !.y = @ - n]

scrollup(s, n) ==
    [s EXCEPT !.video = [v \in Places |-> IF v + n * COLUMNS \in Places
                                          THEN s.video[v + n * COLUMNS] ELSE Empty],
              !.y = @ - n]

(* Beyond the end of the screen there is video memory that is never shown. *)
Set(s, cell) ==
    [s EXCEPT !.video = [v \in Places |-> IF v = s.x + COLUMNS * s.y THEN cell ELSE s.video[v]]]

(* A backspace takes its attribute from the place of the cursor.           *)
Dimmed(s) ==
    LET v == s.x + COLUMNS * s.y
    IN  IF v \in Places THEN [s EXCEPT !.video[v].lit = FALSE] ELSE s

Advanced(s) ==
    IF s.x + 1 > COLUMNS - 1 THEN [s EXCEPT !.x = 0, !.y = @ + 1] ELSE [s EXCEPT !.x = @ + 1]

Scrolled(s) == IF s.y > ROWS - 1 THEN scrollup(s, s.y - (ROWS - 1)) ELSE s

putc(s, c) ==
    Scrolled(CASE c = LF -> [s EXCEPT !.x = 0, !.y = @ + 1]
               [] c = BS -> IF s.x > 0 THEN [Dimmed(s) EXCEPT !.x = @ - 1] ELSE s
               [] c = HT -> [s EXCEPT !.x = @ + TAB - (@ % TAB)]
               [] c = CR -> [s EXCEPT !.x = 0]
               [] OTHER  -> Advanced(Set(s, [c |-> c, lit |-> TRUE])))

-----------------------------------------------------------------------------

(* kernal_main clears the screen before anything else.                     *)
Cleared == [video |-> [v \in Places |-> Zero], x |-> 0, y |-> 0]

ScreenInit == screen = Cleared

(* print and Console::write: one character after the other.                *)
Printed(s, text) ==
    LET at[i \in 0 .. Len(text)] == IF i = 0 THEN s ELSE putc(at[i - 1], text[i])
    IN  at[Len(text)]

write(text) ==
    /\ HT \in Range(text) => screen.x < MaxTabs
    /\ screen' = Printed(screen, text)

clear == screen' = Cleared

ScreenNext == clear \/ \E text \in Written : write(text)

ScreenSpec == ScreenInit /\ [][ScreenNext]_screen

-----------------------------------------------------------------------------
(* What can be seen of the video memory, line by line.                     *)
Shown(cell) == IF cell.lit /\ cell.c # "NUL" THEN cell.c ELSE " "

(* The same of a text, and of the lines of the video memory.               *)
Visible(c) == IF c = "NUL" THEN " " ELSE c
Seen(text) == [i \in DOMAIN text |-> Visible(text[i])]

PaperOf(s) ==
    [rows |-> [row \in 1 .. ROWS |->
                 [col \in 0 .. COLUMNS - 1 |-> Shown(s.video[col + COLUMNS * (row - 1)])]],
     row |-> s.y + 1, col |-> s.x]

Sheet == INSTANCE Paper WITH paper <- PaperOf(screen),
                             Written <- {Seen(text) : text \in Written}

(* What is seen on the screen is what is on a sheet of paper that was      *)
(* written on: whatever was scrolled, wrapped, rubbed out or put beyond    *)
(* the margin, lines stay what they were and go up, and the cursor never   *)
(* leaves the last line.                                                   *)
IsPaper == Sheet!PaperSpec
=============================================================================

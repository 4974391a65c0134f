-------------------------------- MODULE Paper -------------------------------
(***************************************************************************)
(* What the screen of the kernel promises to who writes on it              *)
(* (src/kernel/arch/x86/io.cc): a sheet of ROWS lines, fed when the last   *)
(* one is full, and a place on it where the next character goes.           *)
(***************************************************************************)
EXTENDS Integers, SequencesExt

CONSTANTS
    COLUMNS, ROWS,  \* 80 and 25 in the code
    TAB,            \* 8 in the code
    Written         \* the texts that are written at once

LF == "line feed"
BS == "backspace"
HT == "tab"
CR == "carriage return"
BLANK == " "

VARIABLE paper      \* [rows, row, col]

BlankRow == [col \in 0 .. COLUMNS - 1 |-> BLANK]
Clean == [rows |-> [row \in 1 .. ROWS |-> BlankRow], row |-> 1, col |-> 0]

Fed(p) ==
    IF p.row < ROWS THEN [p EXCEPT !.row = @ + 1, !.col = 0]
    ELSE [p EXCEPT !.rows = Append(Tail(@), BlankRow), !.col = 0]

(* What is put beyond the right margin is on a line below, if there is one.*)
Put(p, c) ==
    LET row == p.row + p.col \div COLUMNS
    IN  IF row > ROWS THEN p ELSE [p EXCEPT !.rows[row][p.col % COLUMNS] = c]

(* Tabs do not stop at the right margin, and do not feed: the character    *)
(* after them is put below, and the line is fed once.  A backspace rubs    *)
(* out what is at the place, not before it.                                *)
Typed(p, c) ==
    CASE c = LF -> Fed(p)
      [] c = CR -> [p EXCEPT !.col = 0]
      [] c = HT -> [p EXCEPT !.col = TAB * (@ \div TAB + 1)]
      [] c = BS -> IF p.col = 0 THEN p ELSE [Put(p, BLANK) EXCEPT !.col = @ - 1]
      [] OTHER  -> IF p.col < COLUMNS - 1 THEN [Put(p, c) EXCEPT !.col = @ + 1]
                   ELSE Fed(Put(p, c))

PaperInit == paper = Clean

TypedAll(p, text) ==
    LET at[i \in 0 .. Len(text)] == IF i = 0 THEN p ELSE Typed(at[i - 1], text[i])
    IN  at[Len(text)]

Write(text) == paper' = TypedAll(paper, text)
Clear == paper' = Clean

PaperNext == Clear \/ \E text \in Written : Write(text)

PaperSpec == PaperInit /\ [][PaperNext]_paper
=============================================================================

--------------------------- MODULE Drivers_proofs ---------------------------
(***************************************************************************)
(* Proofs about the modules of src/kernel/modules and the console.         *)
(*                                                                         *)
(* About Console, for every number of readers, every set of characters and *)
(* every size of the buffer: a read ends only by a key that came while it  *)
(* waited, inlock_ is set only while somebody waits, and the buffer holds  *)
(* the line as it was edited.  About Screen, for every size of it: it      *)
(* implements the sheet of module Paper.                                   *)
(*                                                                         *)
(* About Ext2, for every disk that holds volumes in the format of module   *)
(* Volumes, every size of sectors, blocks and files and every amount read: *)
(* a program reads what is stored, and directories show what they hold.    *)
(***************************************************************************)
EXTENDS Io, Ext2, Induction, SequenceTheorems, FiniteSetTheorems, TLAPS

-----------------------------------------------------------------------------
(* The readers of the console *)

(* inlock_ stays set for a reader no key has come for yet: what makes the  *)
(* test of the spin tell that a key came.                                  *)
UnservedLocked ==
    \A q \in Readers : pc[q] = "spin" /\ q \notin since => inlock_

WaitInv ==
    /\ pc \in [Readers -> Label]
    /\ since \subseteq Readers
    /\ inlock_ \in BOOLEAN
    /\ UnservedLocked
    /\ WokenByKey
    /\ LockedByWaiter

LEMMA InitWait == Init => WaitInv
BY DEF Init, WaitInv, Label, UnservedLocked, WokenByKey, LockedByWaiter

(* A key either leaves the readers alone or clears inlock_ for all that    *)
(* wait.                                                                   *)
LEMMA KeyWait ==
    ASSUME WaitInv, NEW c \in Keys, Key(c)
    PROVE  WaitInv'
<1>1. UNCHANGED pc
  BY DEF Key
<1>2. CASE UNCHANGED <<inlock_, since>>
  BY <1>1, <1>2 DEF WaitInv, UnservedLocked, WokenByKey, LockedByWaiter
<1>3. CASE /\ inlock_' = FALSE
           /\ since' = since \cup {q \in Readers : pc[q] = "spin"}
  BY <1>1, <1>3 DEF WaitInv, UnservedLocked, WokenByKey, LockedByWaiter
<1> QED
  BY <1>2, <1>3 DEF Key, KeyBackspace, KeyNewline, KeyChar, KeyAlone, Wake

(* The steps of a reader: of the others it changes nothing but inlock_,    *)
(* which it may set.                                                       *)
LEMMA ReaderWait ==
    ASSUME WaitInv, NEW q \in Readers,
           Read(q) \/ Lock(q) \/ Leave(q) \/ Copy(q)
    PROVE  WaitInv'
<1> USE DEF WaitInv, Label, At, Goto
<1>1. CASE Read(q)
  BY <1>1 DEF Read, UnservedLocked, WokenByKey, LockedByWaiter
<1>2. CASE Lock(q)
  BY <1>2 DEF Lock, UnservedLocked, WokenByKey, LockedByWaiter
<1>3. CASE Leave(q)
  BY <1>3 DEF Leave, UnservedLocked, WokenByKey, LockedByWaiter
<1>4. CASE Copy(q)
  BY <1>4 DEF Copy, UnservedLocked, WokenByKey, LockedByWaiter
<1> QED
  BY <1>1, <1>2, <1>3, <1>4

(* WaitInv, the inductive invariant: inlock_ is set for as long as some    *)
(* reader waits for its key, and for no longer (Io::read, Io::putctty).    *)
THEOREM WaitInvariant == Spec => []WaitInv
<1>1. WaitInv /\ [Next]_vars => WaitInv'
  <2> SUFFICES ASSUME WaitInv, [Next]_vars PROVE WaitInv'
    OBVIOUS
  <2>1. ASSUME NEW c \in Keys, Key(c) PROVE WaitInv'
    BY <2>1, KeyWait
  <2>2. ASSUME NEW q \in Readers, Read(q) \/ Lock(q) \/ Leave(q) \/ Copy(q)
        PROVE  WaitInv'
    BY <2>2, ReaderWait
  <2>3. CASE UNCHANGED vars
    BY <2>3 DEF vars, WaitInv, UnservedLocked, WokenByKey, LockedByWaiter
  <2> QED
    BY <2>1, <2>2, <2>3 DEF Next
<1> QED
  BY InitWait, <1>1, PTL DEF Spec

(* However many processes read the console, none is let go by a key that   *)
(* came before it waited.                                                  *)
THEOREM WokenByKeyAlways == Spec => []WokenByKey
<1>1. WaitInv => WokenByKey
  BY DEF WaitInv
<1> QED
  BY WaitInvariant, <1>1, PTL

(* inlock_ never stays set when nobody waits for a key.                    *)
THEOREM LockedByWaiterAlways == Spec => []LockedByWaiter
<1>1. WaitInv => LockedByWaiter
  BY DEF WaitInv
<1> QED
  BY WaitInvariant, <1>1, PTL

-----------------------------------------------------------------------------
(* The editing side *)

(* LineAsEdited with the types it needs: up to keypos_, which may be just  *)
(* behind the buffer, inbuf_ holds the line.                               *)
LineInv ==
    /\ beyond \in BOOLEAN
    /\ ~beyond =>
         /\ inbuf_ \in [Index -> Bytes]
         /\ line \in Seq(Chars)
         /\ keypos_ = Len(line)
         /\ keypos_ <= Size
         /\ \A i \in 1 .. keypos_ : inbuf_[i - 1] = line[i]

LEMMA InitLine == Init => LineInv
BY ConsoleAssumption DEF Init, LineInv, Index, Bytes

(* Each key does to the buffer what it does to the line, or writes behind  *)
(* the buffer.                                                             *)
LEMMA KeyLine ==
    ASSUME LineInv, NEW c \in Keys, Key(c)
    PROVE  LineInv'
<1> USE ConsoleAssumption DEF LineInv, Index
<1>0. ~beyond /\ keypos_ \in Nat
  BY DEF Key
<1>1. CASE c = BACKSPACE /\ KeyBackspace
  <2>1. CASE keypos_ = 0
    BY <1>0, <1>1, <2>1 DEF KeyBackspace
  <2>2. CASE keypos_ > 0 /\ keypos_ \in Index
    <3>1. line' = SubSeq(line, 1, Len(line) - 1)
      BY <1>0, <1>1, <2>2 DEF KeyBackspace, Front
    <3>2. line' \in Seq(Chars) /\ Len(line') = Len(line) - 1
      BY <1>0, <2>2, <3>1
    <3>3. \A i \in 1 .. Len(line) - 1 : line'[i] = line[i]
      BY <1>0, <2>2, <3>1
    <3>4. /\ inbuf_' = [inbuf_ EXCEPT ![keypos_] = NUL]
          /\ keypos_' = keypos_ - 1
      BY <1>1, <2>2 DEF KeyBackspace
    <3>5. NUL \in Bytes
      BY DEF Bytes
    <3>6. inbuf_' \in [Index -> Bytes]
      BY <1>0, <2>2, <3>4, <3>5
    <3>7. ASSUME NEW i \in 1 .. keypos_ - 1 PROVE inbuf_'[i - 1] = line'[i]
      <4>1. i - 1 \in Index /\ i - 1 # keypos_ /\ i \in 1 .. keypos_ /\ keypos_ = Len(line)
        BY <1>0, <2>2
      <4>2. inbuf_'[i - 1] = inbuf_[i - 1]
        BY <1>0, <2>2, <3>4, <4>1
      <4> QED
        BY <1>0, <3>3, <4>1, <4>2
    <3>8. beyond' = (keypos_ \notin Index)
      BY <1>1, <2>2 DEF KeyBackspace
    <3>9. beyond' \in BOOLEAN
      BY <3>8
    <3> QED
      BY <1>0, <2>2, <3>2, <3>4, <3>6, <3>7, <3>9
  <2>3. CASE keypos_ \notin Index /\ keypos_ > 0
    BY <1>1, <2>3 DEF KeyBackspace
  <2> QED
    BY <1>0, <2>1, <2>2, <2>3
<1>2. CASE c = NEWLINE /\ KeyNewline
  BY <1>0, <1>2 DEF KeyNewline, Wake, Bytes, Keys
<1>3. CASE c \in Chars /\ KeyChar(c)
  <2>1. CASE keypos_ \in Index
    <3>1. line' \in Seq(Chars) /\ Len(line') = Len(line) + 1
      BY <1>0, <1>3 DEF KeyChar
    <3>2. /\ \A i \in 1 .. Len(line) : line'[i] = line[i]
          /\ line'[Len(line) + 1] = c
      BY <1>0, <1>3 DEF KeyChar
    <3> QED
      BY <1>0, <1>3, <2>1, <3>1, <3>2 DEF KeyChar, Bytes, Keys
  <2>2. CASE keypos_ \notin Index
    BY <1>3, <2>2 DEF KeyChar
  <2> QED
    BY <2>1, <2>2
<1>4. CASE KeyAlone(c)
  BY <1>0, <1>4 DEF KeyAlone, Wake, Bytes
<1> QED
  BY <1>1, <1>2, <1>3, <1>4 DEF Key

(* However the keys come and however often the mode is changed, the buffer *)
(* holds the line that an editor would show, until a key is written behind *)
(* its end (Io::putctty).                                                  *)
THEOREM LineAsEditedAlways == Spec => []LineAsEdited
<1>1. LineInv /\ [Next]_vars => LineInv'
  <2> SUFFICES ASSUME LineInv, [Next]_vars PROVE LineInv'
    OBVIOUS
  <2>1. ASSUME NEW c \in Keys, Key(c) PROVE LineInv'
    BY <2>1, KeyLine
  <2>2. CASE UNCHANGED <<inbuf_, keypos_, beyond, line>>
    BY <2>2 DEF LineInv
  <2> QED
    BY <2>1, <2>2 DEF Next, Read, Lock, Leave, Copy, vars
<1>2. LineInv => LineAsEdited
  BY DEF LineInv, LineAsEdited
<1> QED
  BY InitLine, <1>1, <1>2, PTL DEF Spec

-----------------------------------------------------------------------------
(* The screen *)

(* The video memory holds cells of some characters, and the cursor is on   *)
(* the screen or to the right of it.                                       *)
Cells(V) == [c : V, lit : BOOLEAN]
Screens(V) == [video : [Places -> Cells(V)], x : Nat, y : 0 .. ROWS - 1]

LEMMA SizesAre ==
    /\ COLUMNS \in Nat /\ COLUMNS > 0 /\ ROWS \in Nat /\ ROWS > 0
    /\ TAB \in Nat /\ TAB > 0
    /\ COLUMNS * ROWS \in Nat
BY ScreenAssumption

LEMMA Monotone ==
    ASSUME NEW a \in Nat, NEW b \in Nat, a < b, NEW n \in Nat
    PROVE  n * a \in Nat /\ n * b \in Nat /\ n * a + n <= n * b
<1>1. PICK k \in Nat : b = a + 1 + k
  <2>1. b - a - 1 \in Nat /\ b = a + 1 + (b - a - 1)
    OBVIOUS
  <2> QED BY <2>1
<1>2. n * (a + 1 + k) = n * a + n + n * k /\ n * a \in Nat /\ n * k \in Nat
  OBVIOUS
<1> QED BY <1>1, <1>2

(* A place is in one line and one column.                                  *)
LEMMA PlaceIsOne ==
    ASSUME NEW c \in 0 .. COLUMNS - 1, NEW d \in 0 .. COLUMNS - 1, NEW a \in Nat, NEW b \in Nat,
           c + COLUMNS * a = d + COLUMNS * b
    PROVE  c = d /\ a = b
<1>1. CASE a < b
  <2>1. COLUMNS * a + COLUMNS <= COLUMNS * b /\ COLUMNS * a \in Nat /\ COLUMNS * b \in Nat
    BY <1>1, SizesAre, Monotone
  <2> QED BY <2>1, SizesAre
<1>2. CASE b < a
  <2>1. COLUMNS * b + COLUMNS <= COLUMNS * a /\ COLUMNS * a \in Nat /\ COLUMNS * b \in Nat
    BY <1>2, SizesAre, Monotone
  <2> QED BY <2>1, SizesAre
<1>3. CASE a = b
  <2>1. COLUMNS * a \in Nat
    BY SizesAre
  <2> QED BY <1>3, <2>1, SizesAre
<1> QED BY <1>1, <1>2, <1>3

(* The places of the lines are those of the video memory.                  *)
LEMMA PlacesAre ==
    ASSUME NEW c \in 0 .. COLUMNS - 1, NEW a \in Nat
    PROVE  /\ COLUMNS * a \in Nat
           /\ c + COLUMNS * a \in Places <=> a < ROWS
<1>1. COLUMNS * a \in Nat
  BY SizesAre
<1>2. CASE a < ROWS
  <2>1. COLUMNS * a + COLUMNS <= COLUMNS * ROWS
    BY <1>2, SizesAre, Monotone
  <2> QED BY <1>1, <1>2, <2>1, SizesAre DEF Places
<1>3. CASE ~(a < ROWS)
  <2>1. COLUMNS * ROWS <= COLUMNS * a
    <3>1. CASE a = ROWS
      BY <3>1, <1>1, SizesAre
    <3>2. CASE ROWS < a
      BY <3>2, SizesAre, Monotone
    <3> QED BY <1>3, <3>1, <3>2, SizesAre
  <2> QED BY <1>1, <1>3, <2>1, SizesAre DEF Places
<1> QED BY <1>1, <1>2, <1>3

(* Where a character is put that is beyond the right margin.               *)
LEMMA Wrapped ==
    ASSUME NEW x \in Nat, NEW y \in Nat
    PROVE  \E q \in Nat, c \in 0 .. COLUMNS - 1 :
             /\ q = x \div COLUMNS /\ c = x % COLUMNS
             /\ x + COLUMNS * y = c + COLUMNS * (y + q)
<1>1. PICK q \in Nat, c \in 0 .. COLUMNS - 1 : q = x \div COLUMNS /\ c = x % COLUMNS
  BY SizesAre
<1>2. x = COLUMNS * q + c
  BY <1>1, SizesAre
<1>3. COLUMNS * (y + q) = COLUMNS * y + COLUMNS * q /\ COLUMNS * y \in Nat /\ COLUMNS * q \in Nat
  BY SizesAre
<1>4. x + COLUMNS * y = c + COLUMNS * (y + q)
  BY <1>2, <1>3, SizesAre
<1> QED BY <1>1, <1>4

-----------------------------------------------------------------------------
(* rows are the lines of s, as they are seen.                              *)
LinesOf(rows, s) ==
    /\ DOMAIN rows = 1 .. ROWS /\ rows = [i \in 1 .. ROWS |-> rows[i]]
    /\ \A i \in 1 .. ROWS : rows[i] = [j \in 0 .. COLUMNS - 1 |-> rows[i][j]]
    /\ \A i \in 1 .. ROWS : \A j \in 0 .. COLUMNS - 1 :
         rows[i][j] = Shown(s.video[j + COLUMNS * (i - 1)])

(* The sheet of s has its lines, and its cursor.                           *)
LEMMA SheetHas ==
    ASSUME NEW s
    PROVE  \E rows : /\ LinesOf(rows, s)
                     /\ PaperOf(s) = [rows |-> rows, row |-> s.y + 1, col |-> s.x]
<1>1. PICK rows : rows = [i \in 1 .. ROWS |->
                            [j \in 0 .. COLUMNS - 1 |-> Shown(s.video[j + COLUMNS * (i - 1)])]]
  OBVIOUS
<1>2. LinesOf(rows, s)
  BY <1>1 DEF LinesOf
<1> QED BY <1>1, <1>2 DEF PaperOf

LEMMA SheetIs ==
    ASSUME NEW s, NEW rows, LinesOf(rows, s)
    PROVE  PaperOf(s) = [rows |-> rows, row |-> s.y + 1, col |-> s.x]
<1>1. \A i \in 1 .. ROWS :
        rows[i] = [j \in 0 .. COLUMNS - 1 |-> Shown(s.video[j + COLUMNS * (i - 1)])]
  BY DEF LinesOf
<1>2. rows = [i \in 1 .. ROWS |->
                [j \in 0 .. COLUMNS - 1 |-> Shown(s.video[j + COLUMNS * (i - 1)])]]
  BY <1>1 DEF LinesOf
<1> QED BY <1>2 DEF PaperOf

(* A cell written at the place of the cursor, or beyond it.                *)
LEMMA PutIs ==
    ASSUME NEW V, NEW s \in Screens(V), NEW cell \in Cells(V), NEW t,
           t.x = s.x, t.y = s.y,
           \A v \in Places : t.video[v] = IF v = s.x + COLUMNS * s.y THEN cell ELSE s.video[v]
    PROVE  PaperOf(t) = Sheet!Put(PaperOf(s), Shown(cell))
<1>1. /\ s.x \in Nat /\ s.y \in Nat /\ s.y \in 0 .. ROWS - 1 /\ COLUMNS \in Nat /\ COLUMNS > 0
      /\ ROWS \in Nat
  BY SizesAre DEF Screens
<1>2. PICK q \in Nat, c \in 0 .. COLUMNS - 1 :
        /\ q = s.x \div COLUMNS /\ c = s.x % COLUMNS
        /\ s.x + COLUMNS * s.y = c + COLUMNS * (s.y + q)
  BY <1>1, Wrapped, Zenon
<1>3. PICK R : LinesOf(R, s) /\ PaperOf(s) = [rows |-> R, row |-> s.y + 1, col |-> s.x]
  BY SheetHas
<1>4. PICK z : z = Shown(cell)
  OBVIOUS
<1>5. ASSUME NEW i \in 1 .. ROWS, NEW j \in 0 .. COLUMNS - 1
      PROVE  Shown(t.video[j + COLUMNS * (i - 1)]) =
               IF j = c /\ i - 1 = s.y + q THEN z ELSE R[i][j]
  <2>1. PICK a \in Nat : a = i - 1 /\ a < ROWS
    BY <1>1
  <2>2. j + COLUMNS * a \in Places
    BY <2>1, PlacesAre
  <2>3. j + COLUMNS * a = c + COLUMNS * (s.y + q) <=> j = c /\ a = s.y + q
    <3>1. PICK b \in Nat : b = s.y + q
      BY <1>1
    <3>2. j + COLUMNS * a = c + COLUMNS * b => j = c /\ a = b
      BY PlaceIsOne
    <3> QED BY <3>1, <3>2
  <2>4. t.video[j + COLUMNS * a] =
          IF j + COLUMNS * a = s.x + COLUMNS * s.y THEN cell ELSE s.video[j + COLUMNS * a]
    BY <2>2
  <2>5. R[i][j] = Shown(s.video[j + COLUMNS * a])
    BY <1>3, <2>1 DEF LinesOf
  <2> QED BY <1>2, <1>4, <2>1, <2>3, <2>4, <2>5
<1>6. CASE s.y + q < ROWS
  <2>1. PICK r \in 1 .. ROWS : r = s.y + 1 + q
    BY <1>1, <1>6
  <2>2. Sheet!Put(PaperOf(s), z) =
          [rows |-> [R EXCEPT ![r][c] = z], row |-> s.y + 1, col |-> s.x]
    <3>1. PICK p : p = [rows |-> R, row |-> s.y + 1, col |-> s.x]
      OBVIOUS
    <3>2. p.row + p.col \div COLUMNS = r /\ ~(r > ROWS) /\ p.col % COLUMNS = c
      BY <1>1, <1>2, <2>1, <3>1
    <3>3. Sheet!Put(p, z) = [p EXCEPT !.rows[r][c] = z]
      BY <3>2 DEF Sheet!Put
    <3>4. [p EXCEPT !.rows[r][c] = z] =
            [rows |-> [R EXCEPT ![r][c] = z], row |-> s.y + 1, col |-> s.x]
      BY <3>1
    <3> QED BY <1>3, <3>1, <3>3, <3>4
  <2>3. PICK rows : rows = [R EXCEPT ![r][c] = z]
    OBVIOUS
  <2>4. LinesOf(rows, t)
    <3>1. \A i \in 1 .. ROWS : i = r <=> i - 1 = s.y + q
      BY <1>1, <2>1
    <3>2. /\ DOMAIN rows = 1 .. ROWS /\ rows = [i \in 1 .. ROWS |-> rows[i]]
          /\ \A i \in 1 .. ROWS : rows[i] = [j \in 0 .. COLUMNS - 1 |-> rows[i][j]]
          /\ \A i \in 1 .. ROWS : \A j \in 0 .. COLUMNS - 1 :
               rows[i][j] = IF j = c /\ i = r THEN z ELSE R[i][j]
      BY <1>3, <2>3 DEF LinesOf
    <3> QED BY <1>5, <3>1, <3>2 DEF LinesOf
  <2>5. PaperOf(t) = [rows |-> rows, row |-> s.y + 1, col |-> s.x]
    BY <2>4, SheetIs
  <2> QED BY <1>4, <2>2, <2>3, <2>5
<1>7. CASE ~(s.y + q < ROWS)
  <2>1. Sheet!Put(PaperOf(s), z) = PaperOf(s)
    <3>1. PICK p : p = [rows |-> R, row |-> s.y + 1, col |-> s.x]
      OBVIOUS
    <3>2. p.row + p.col \div COLUMNS > ROWS
      BY <1>1, <1>2, <1>7, <3>1
    <3>3. Sheet!Put(p, z) = p
      BY <3>2 DEF Sheet!Put
    <3> QED BY <1>3, <3>1, <3>3
  <2>2. LinesOf(R, t)
    <3>1. \A i \in 1 .. ROWS : i - 1 # s.y + q
      BY <1>1, <1>7
    <3> QED BY <1>3, <1>5, <3>1 DEF LinesOf
  <2>3. PaperOf(t) = [rows |-> R, row |-> s.y + 1, col |-> s.x]
    BY <2>2, SheetIs
  <2> QED BY <1>3, <1>4, <2>1, <2>3
<1> QED BY <1>6, <1>7, <1>1

(* The cursor at the beginning of the next line.                           *)
NewLine(s) == [s EXCEPT !.x = 0, !.y = @ + 1]

(* The next line: the one below, or an empty one when all go up.           *)
LEMMA FedIs ==
    ASSUME NEW V, NEW s \in Screens(V), "NUL" \in V,
           NEW t, t = Scrolled(NewLine(s))
    PROVE  t \in Screens(V) /\ PaperOf(t) = Sheet!Fed(PaperOf(s))
<1>1. /\ s.x \in Nat /\ s.y \in 0 .. ROWS - 1 /\ s.y \in Nat /\ s.video \in [Places -> Cells(V)]
      /\ COLUMNS \in Nat /\ COLUMNS > 0 /\ ROWS \in Nat /\ ROWS > 0
      /\ s = [video |-> s.video, x |-> s.x, y |-> s.y]
  BY SizesAre DEF Screens
<1>2. PICK f : f = [video |-> s.video, x |-> 0, y |-> s.y + 1]
  OBVIOUS
<1>3. t = Scrolled(f)
  <2>1. PICK v \in [Places -> Cells(V)], x \in Nat, y \in Nat :
          s = [video |-> v, x |-> x, y |-> y] /\ s.video = v /\ s.y = y
    BY <1>1
  <2>2. PICK n : n = [s EXCEPT !.x = 0, !.y = @ + 1]
    OBVIOUS
  <2>3. n = [video |-> v, x |-> 0, y |-> y + 1]
    BY <2>1, <2>2
  <2> QED BY <1>2, <2>1, <2>2, <2>3 DEF NewLine
<1>4. PICK R : LinesOf(R, s) /\ PaperOf(s) = [rows |-> R, row |-> s.y + 1, col |-> s.x]
  BY SheetHas
<1>5. CASE s.y + 1 < ROWS
  <2>1. t = f
    BY <1>1, <1>2, <1>3, <1>5 DEF Scrolled
  <2>2. t \in Screens(V)
    BY <1>1, <1>2, <1>5, <2>1 DEF Screens
  <2>3. LinesOf(R, t)
    BY <1>2, <1>4, <2>1 DEF LinesOf
  <2>4. PaperOf(t) = [rows |-> R, row |-> s.y + 1 + 1, col |-> 0]
    <3>1. t.y = s.y + 1 /\ t.x = 0
      BY <1>2, <2>1
    <3>2. PaperOf(t) = [rows |-> R, row |-> t.y + 1, col |-> t.x]
      BY <2>3, SheetIs
    <3> QED BY <3>1, <3>2
  <2>5. Sheet!Fed(PaperOf(s)) = [rows |-> R, row |-> s.y + 1 + 1, col |-> 0]
    <3>0. PICK a \in Nat, x \in Nat : a = s.y + 1 /\ x = s.x
      BY <1>1
    <3>1. PICK p : p = [rows |-> R, row |-> a, col |-> x]
      OBVIOUS
    <3>2. p.row < ROWS
      BY <1>5, <3>0, <3>1
    <3>3. PICK n : n = [p EXCEPT !.row = @ + 1, !.col = 0]
      OBVIOUS
    <3>4. n = [rows |-> R, row |-> a + 1, col |-> 0]
      BY <3>1, <3>3
    <3>5. Sheet!Fed(p) = n
      BY <3>2, <3>3 DEF Sheet!Fed
    <3> QED BY <1>4, <3>0, <3>1, <3>4, <3>5
  <2> QED BY <2>2, <2>4, <2>5
<1>6. CASE ~(s.y + 1 < ROWS)
  <2>1. s.y = ROWS - 1 /\ s.y + 1 = ROWS
    BY <1>1, <1>6
  <2>2. t = [video |-> [v \in Places |-> IF v + COLUMNS \in Places THEN s.video[v + COLUMNS]
                                         ELSE Empty],
             x |-> 0, y |-> s.y]
    <3>1. t = scrollup(f, 1)
      BY <1>1, <1>2, <1>3, <2>1 DEF Scrolled
    <3>2. 1 * COLUMNS = COLUMNS /\ s.y + 1 - 1 = s.y
      BY <1>1
    <3>3. PICK w : w = [v \in Places |-> IF v + 1 * COLUMNS \in Places
                                        THEN f.video[v + 1 * COLUMNS] ELSE Empty]
      OBVIOUS
    <3>4. PICK n : n = [f EXCEPT !.video = w, !.y = @ - 1]
      OBVIOUS
    <3>5. PICK a \in Nat : a = s.y + 1
      BY <1>1
    <3>6. n = [video |-> w, x |-> 0, y |-> a - 1]
      <4>1. PICK v : f = [video |-> v, x |-> 0, y |-> a]
        BY <1>2, <3>5
      <4> QED BY <3>4, <4>1
    <3>7. scrollup(f, 1) = n
      BY <3>3, <3>4 DEF scrollup
    <3>8. w = [at \in Places |-> IF at + COLUMNS \in Places THEN s.video[at + COLUMNS]
                              ELSE Empty]
      BY <1>2, <3>2, <3>3
    <3>9. a - 1 = s.y
      BY <1>1, <3>5
    <3> QED BY <3>1, <3>6, <3>7, <3>8, <3>9
  <2>3. t \in Screens(V)
    <3>1. Empty \in Cells(V)
      BY DEF Empty, Cells
    <3> QED BY <1>1, <2>2, <3>1 DEF Screens
  <2>4. PICK rows : rows = Append(Tail(R), Sheet!BlankRow)
    OBVIOUS
  <2>5. rows = [i \in 1 .. ROWS |-> IF i < ROWS THEN R[i + 1] ELSE Sheet!BlankRow]
    <3> DEFINE T == {R[i] : i \in 1 .. ROWS} \cup {Sheet!BlankRow}
    <3>1. R \in Seq(T) /\ Len(R) = ROWS
      <4>1. R \in [1 .. ROWS -> T]
        BY <1>4 DEF LinesOf
      <4> QED BY <1>1, <4>1
    <3>2. R # <<>>
      BY <1>1, <3>1
    <3>3. /\ Tail(R) \in Seq(T) /\ Len(Tail(R)) = ROWS - 1
          /\ \A i \in 1 .. ROWS - 1 : Tail(R)[i] = R[i + 1]
      <4> HIDE DEF T
      <4> QED BY <1>1, <3>1, <3>2, HeadTailProperties
    <3>4. PICK w \in Seq(T), b \in T : w = Tail(R) /\ b = Sheet!BlankRow
      BY <3>3
    <3>5. /\ Append(w, b) \in Seq(T) /\ Len(Append(w, b)) = ROWS
          /\ \A i \in 1 .. ROWS - 1 : Append(w, b)[i] = w[i]
          /\ Append(w, b)[ROWS] = b
      <4> HIDE DEF T
      <4> QED BY <1>1, <3>3, <3>4, AppendProperties
    <3>6. Append(w, b) = [i \in 1 .. ROWS |-> Append(w, b)[i]]
      <4> HIDE DEF T
      <4>1. PICK e \in Seq(T) : e = Append(w, b) /\ Len(e) = ROWS
        BY <3>5
      <4>2. e = [i \in 1 .. ROWS |-> e[i]]
        BY <4>1, LenProperties
      <4> QED BY <4>1, <4>2
    <3>7. \A i \in 1 .. ROWS : Append(w, b)[i] = IF i < ROWS THEN R[i + 1] ELSE Sheet!BlankRow
      <4> HIDE DEF T
      <4> QED BY <1>1, <3>3, <3>4, <3>5
    <3> HIDE DEF T
    <3> QED BY <2>4, <3>4, <3>6, <3>7
  <2>6. ASSUME NEW i \in 1 .. ROWS, NEW j \in 0 .. COLUMNS - 1
        PROVE  rows[i][j] = Shown(t.video[j + COLUMNS * (i - 1)])
    <3>1. PICK a \in Nat : a = i - 1 /\ a < ROWS
      BY <1>1
    <3>2. /\ j + COLUMNS * a \in Places
          /\ j + COLUMNS * a + COLUMNS = j + COLUMNS * (a + 1)
          /\ j + COLUMNS * (a + 1) \in Places <=> a + 1 < ROWS
      <4>1. COLUMNS * (a + 1) = COLUMNS * a + COLUMNS /\ COLUMNS * a \in Nat
        BY <1>1
      <4> QED BY <1>1, <3>1, <4>1, PlacesAre
    <3>3. t.video[j + COLUMNS * a] =
            IF a + 1 < ROWS THEN s.video[j + COLUMNS * (a + 1)] ELSE Empty
      BY <2>2, <3>2
    <3>4. CASE a + 1 < ROWS
      <4>1. i < ROWS /\ i + 1 \in 1 .. ROWS /\ i + 1 - 1 = a + 1
        BY <1>1, <3>1, <3>4
      <4>2. rows[i][j] = R[i + 1][j]
        BY <2>5, <4>1
      <4>3. R[i + 1][j] = Shown(s.video[j + COLUMNS * (a + 1)])
        BY <1>4, <4>1 DEF LinesOf
      <4> QED BY <3>1, <3>3, <3>4, <4>2, <4>3
    <3>5. CASE ~(a + 1 < ROWS)
      <4>1. rows[i] = Sheet!BlankRow
        BY <1>1, <2>5, <3>1, <3>5
      <4>2. rows[i][j] = " "
        BY <4>1 DEF Sheet!BlankRow, Sheet!BLANK
      <4>3. Shown(Empty) = " "
        BY DEF Shown, Empty
      <4> QED BY <3>1, <3>3, <3>5, <4>2, <4>3
    <3> QED BY <3>4, <3>5
  <2>7. LinesOf(rows, t)
    <3>1. DOMAIN rows = 1 .. ROWS /\ rows = [i \in 1 .. ROWS |-> rows[i]]
      BY <2>5
    <3>2. ASSUME NEW i \in 1 .. ROWS PROVE rows[i] = [j \in 0 .. COLUMNS - 1 |-> rows[i][j]]
      <4>1. CASE i < ROWS
        <5>1. i + 1 \in 1 .. ROWS /\ rows[i] = R[i + 1]
          BY <1>1, <2>5, <4>1
        <5> QED BY <1>4, <5>1 DEF LinesOf
      <4>2. CASE ~(i < ROWS)
        BY <2>5, <4>2 DEF Sheet!BlankRow
      <4> QED BY <4>1, <4>2
    <3> QED BY <2>6, <3>1, <3>2 DEF LinesOf
  <2>8. PaperOf(t) = [rows |-> rows, row |-> s.y + 1, col |-> 0]
    <3>1. t.y = s.y /\ t.x = 0
      BY <2>2
    <3>2. PaperOf(t) = [rows |-> rows, row |-> t.y + 1, col |-> t.x]
      BY <2>7, SheetIs
    <3> QED BY <3>1, <3>2
  <2>9. Sheet!Fed(PaperOf(s)) = [rows |-> rows, row |-> s.y + 1, col |-> 0]
    <3>0. PICK a \in Nat, x \in Nat : a = s.y + 1 /\ x = s.x
      BY <1>1
    <3>1. PICK p : p = [rows |-> R, row |-> a, col |-> x]
      OBVIOUS
    <3>2. ~(p.row < ROWS) /\ p.rows = R
      BY <1>6, <3>0, <3>1
    <3>3. PICK n : n = [p EXCEPT !.rows = rows, !.col = 0]
      OBVIOUS
    <3>4. n = [rows |-> rows, row |-> a, col |-> 0]
      BY <3>1, <3>3
    <3>5. Sheet!Fed(p) = n
      BY <2>4, <3>2, <3>3 DEF Sheet!Fed
    <3> QED BY <1>4, <3>0, <3>1, <3>4, <3>5
  <2> QED BY <2>3, <2>8, <2>9
<1> QED BY <1>5, <1>6

-----------------------------------------------------------------------------
(* The cursor at another column of its line.                               *)
Moved(s, x) == [s EXCEPT !.x = x]
AtColumn(p, x) == [p EXCEPT !.col = x]

LEMMA MovedIs ==
    ASSUME NEW V, NEW s \in Screens(V), NEW x \in Nat, NEW p, p = PaperOf(s)
    PROVE  /\ Moved(s, x) \in Screens(V) /\ Scrolled(Moved(s, x)) = Moved(s, x)
           /\ p.col = s.x /\ PaperOf(Moved(s, x)) = AtColumn(p, x)
<1>1. PICK v \in [Places -> Cells(V)], z \in Nat, y \in 0 .. ROWS - 1 :
        s = [video |-> v, x |-> z, y |-> y]
  BY DEF Screens
<1>2. PICK t : t = [video |-> v, x |-> x, y |-> y]
  OBVIOUS
<1>3. Moved(s, x) = t
  BY <1>1, <1>2 DEF Moved
<1>4. t \in Screens(V)
  BY <1>2 DEF Screens
<1>5. Scrolled(t) = t
  BY <1>2, SizesAre DEF Scrolled
<1>6. PICK R : LinesOf(R, s) /\ PaperOf(s) = [rows |-> R, row |-> s.y + 1, col |-> s.x]
  BY SheetHas
<1>7. LinesOf(R, t)
  BY <1>1, <1>2, <1>6 DEF LinesOf
<1>8. PaperOf(t) = [rows |-> R, row |-> y + 1, col |-> x]
  <2>1. PaperOf(t) = [rows |-> R, row |-> t.y + 1, col |-> t.x]
    BY <1>7, SheetIs
  <2> QED BY <1>2, <2>1
<1>9. p = [rows |-> R, row |-> y + 1, col |-> z]
  BY <1>1, <1>6
<1>10. AtColumn(p, x) = [rows |-> R, row |-> y + 1, col |-> x]
  BY <1>9 DEF AtColumn
<1> QED BY <1>1, <1>3, <1>4, <1>5, <1>8, <1>9, <1>10

(* What a backspace rubs out.                                              *)
LEMMA DimmedIs ==
    ASSUME NEW V, NEW s \in Screens(V), "NUL" \in V
    PROVE  /\ Dimmed(s) \in Screens(V) /\ Dimmed(s).x = s.x
           /\ PaperOf(Dimmed(s)) = Sheet!Put(PaperOf(s), " ")
<1>1. PICK w \in [Places -> Cells(V)], x \in Nat, y \in 0 .. ROWS - 1 :
        s = [video |-> w, x |-> x, y |-> y]
  BY DEF Screens
<1>2. PICK v : v = x + COLUMNS * y
  OBVIOUS
<1>3. CASE v \in Places
  <2>1. PICK cell \in Cells(V) : cell = [c |-> w[v].c, lit |-> FALSE]
    <3>1. w[v] \in Cells(V)
      BY <1>3
    <3> QED BY <3>1 DEF Cells
  <2>2. PICK u : u = [w EXCEPT ![v] = cell]
    OBVIOUS
  <2>3. Dimmed(s) = [video |-> u, x |-> x, y |-> y]
    <3>1. Dimmed(s) = [s EXCEPT !.video[v].lit = FALSE]
      BY <1>1, <1>2, <1>3 DEF Dimmed
    <3>2. [w[v] EXCEPT !.lit = FALSE] = cell
      <4>1. w[v] \in Cells(V)
        BY <1>3
      <4>2. PICK c \in V, lit \in BOOLEAN : w[v] = [c |-> c, lit |-> lit]
        BY <4>1 DEF Cells
      <4>3. PICK k : k = [c |-> c, lit |-> lit]
        OBVIOUS
      <4>4. PICK n : n = [k EXCEPT !.lit = FALSE]
        OBVIOUS
      <4>5. n = [c |-> c, lit |-> FALSE] /\ k.c = c
        BY <4>3, <4>4
      <4> QED BY <2>1, <4>2, <4>3, <4>4, <4>5
    <3>3. [s EXCEPT !.video[v].lit = FALSE] =
            [s EXCEPT !.video = [w EXCEPT ![v] = [w[v] EXCEPT !.lit = FALSE]]]
      BY <1>1
    <3>4. [s EXCEPT !.video = u] = [video |-> u, x |-> x, y |-> y]
      BY <1>1
    <3> QED BY <2>2, <3>1, <3>2, <3>3, <3>4
  <2>4. u \in [Places -> Cells(V)] /\ \A a \in Places : u[a] = IF a = v THEN cell ELSE w[a]
    BY <1>3, <2>2
  <2>5. PICK t : t = [video |-> u, x |-> x, y |-> y]
    OBVIOUS
  <2>6. t \in Screens(V)
    BY <2>4, <2>5 DEF Screens
  <2>7. PaperOf(t) = Sheet!Put(PaperOf(s), Shown(cell))
    <3>1. t.x = s.x /\ t.y = s.y
      BY <1>1, <2>5
    <3>2. \A a \in Places : t.video[a] = IF a = s.x + COLUMNS * s.y THEN cell ELSE s.video[a]
      BY <1>1, <1>2, <2>4, <2>5
    <3> QED BY <3>1, <3>2, PutIs, Zenon
  <2>8. Shown(cell) = " "
    BY <2>1 DEF Shown
  <2>9. t.x = s.x
    BY <1>1, <2>5
  <2> QED BY <2>3, <2>5, <2>6, <2>7, <2>8, <2>9
<1>4. CASE v \notin Places
  <2>1. Dimmed(s) = s
    BY <1>1, <1>2, <1>4 DEF Dimmed
  <2>2. [c |-> "NUL", lit |-> FALSE] \in Cells(V) /\ Shown([c |-> "NUL", lit |-> FALSE]) = " "
    BY DEF Cells, Shown
  <2>3. PICK cell \in Cells(V) : Shown(cell) = " "
    BY <2>2
  <2>4. \A a \in Places : s.video[a] = IF a = s.x + COLUMNS * s.y THEN cell ELSE s.video[a]
    BY <1>1, <1>2, <1>4
  <2>5. PaperOf(s) = Sheet!Put(PaperOf(s), Shown(cell))
    BY <2>4, PutIs, Zenon
  <2> QED BY <2>1, <2>3, <2>5
<1> QED BY <1>3, <1>4

(* A character written at the place of the cursor.                         *)
LEMMA SetIs ==
    ASSUME NEW V, NEW s \in Screens(V), NEW c \in V
    PROVE  /\ Set(s, [c |-> c, lit |-> TRUE]) \in Screens(V)
           /\ Set(s, [c |-> c, lit |-> TRUE]).x = s.x
           /\ PaperOf(Set(s, [c |-> c, lit |-> TRUE])) = Sheet!Put(PaperOf(s), Visible(c))
<1>1. PICK w \in [Places -> Cells(V)], x \in Nat, y \in 0 .. ROWS - 1 :
        s = [video |-> w, x |-> x, y |-> y]
  BY DEF Screens
<1>2. PICK cell \in Cells(V) : cell = [c |-> c, lit |-> TRUE]
  BY DEF Cells
<1>3. PICK u : u = [v \in Places |-> IF v = x + COLUMNS * y THEN cell ELSE w[v]]
  OBVIOUS
<1>4. PICK t : t = [video |-> u, x |-> x, y |-> y]
  OBVIOUS
<1>5. Set(s, cell) = t
  <2>1. u = [v \in Places |-> IF v = s.x + COLUMNS * s.y THEN cell ELSE s.video[v]]
    BY <1>1, <1>3
  <2>2. Set(s, cell) = [s EXCEPT !.video = u]
    BY <2>1 DEF Set
  <2>3. [s EXCEPT !.video = u] = t
    BY <1>1, <1>4
  <2> QED BY <2>2, <2>3
<1>6. t \in Screens(V)
  BY <1>3, <1>4 DEF Screens
<1>7. PaperOf(t) = Sheet!Put(PaperOf(s), Shown(cell))
  <2>1. t.x = s.x /\ t.y = s.y
    BY <1>1, <1>4
  <2>2. \A a \in Places : t.video[a] = IF a = s.x + COLUMNS * s.y THEN cell ELSE s.video[a]
    BY <1>1, <1>3, <1>4
  <2> QED BY <2>1, <2>2, PutIs, Zenon
<1>8. Shown(cell) = Visible(c)
  BY <1>2 DEF Shown, Visible
<1>9. t.x = s.x
  BY <1>1, <1>4
<1> QED BY <1>2, <1>5, <1>6, <1>7, <1>8, <1>9

(* A tab: the next multiple of TAB.                                        *)
LEMMA TabIs ==
    ASSUME NEW x \in Nat
    PROVE  x + TAB - (x % TAB) \in Nat /\ x + TAB - (x % TAB) = TAB * (x \div TAB + 1)
<1>1. PICK q \in Nat, r \in 0 .. TAB - 1 : q = x \div TAB /\ r = x % TAB
  BY SizesAre
<1>2. x = TAB * q + r
  BY <1>1, SizesAre
<1>3. TAB * (q + 1) = TAB * q + TAB /\ TAB * q \in Nat
  BY SizesAre
<1>4. x + TAB - r \in Nat /\ x + TAB - r = TAB * (q + 1)
  BY <1>2, <1>3, SizesAre
<1> QED BY <1>1, <1>4

(* One character: it does to the screen what it does to the sheet.         *)
LEMMA CharacterIs ==
    ASSUME NEW V, "NUL" \in V, NEW s \in Screens(V), NEW c \in V
    PROVE  /\ putc(s, c) \in Screens(V)
           /\ PaperOf(putc(s, c)) = Sheet!Typed(PaperOf(s), Visible(c))
<1> USE DEF LF, BS, HT, CR, Sheet!LF, Sheet!BS, Sheet!HT, Sheet!CR
<1>0. s.x \in Nat /\ COLUMNS \in Nat /\ COLUMNS > 0
  BY SizesAre DEF Screens
<1>1. PICK p : p = PaperOf(s)
  OBVIOUS
<1>2. p.col = s.x
  BY <1>0, <1>1, MovedIs
<1>3. CASE c = LF
  <2>1. Visible(c) = LF
    BY <1>3 DEF Visible
  <2>2. putc(s, c) = Scrolled(NewLine(s))
    BY <1>3 DEF putc, NewLine
  <2>3. Sheet!Typed(p, LF) = Sheet!Fed(p)
    BY DEF Sheet!Typed
  <2> QED BY <1>1, <2>1, <2>2, <2>3, FedIs, Zenon
<1>4. CASE c = CR
  <2>1. Visible(c) = CR
    BY <1>4 DEF Visible
  <2>2. putc(s, c) = Scrolled(Moved(s, 0))
    BY <1>4 DEF putc, Moved
  <2>3. Sheet!Typed(p, CR) = AtColumn(p, 0)
    BY DEF Sheet!Typed, AtColumn
  <2>4. 0 \in Nat
    OBVIOUS
  <2> QED BY <1>1, <2>1, <2>2, <2>3, <2>4, MovedIs, Zenon
<1>5. CASE c = HT
  <2>1. Visible(c) = HT
    BY <1>5 DEF Visible
  <2>2. PICK x \in Nat : x = s.x + TAB - (s.x % TAB) /\ x = TAB * (s.x \div TAB + 1)
    BY <1>0, TabIs, Zenon
  <2>3. putc(s, c) = Scrolled(Moved(s, x))
    BY <1>5, <2>2 DEF putc, Moved
  <2>4. Sheet!Typed(p, HT) = AtColumn(p, x)
    BY <1>2, <2>2 DEF Sheet!Typed, AtColumn
  <2> QED BY <1>1, <2>1, <2>3, <2>4, MovedIs, Zenon
<1>6. CASE c = BS
  <2>1. Visible(c) = BS
    BY <1>6 DEF Visible
  <2>2. CASE s.x > 0
    <3>1. PICK t \in Screens(V) : /\ t = Dimmed(s) /\ t.x = s.x
                                  /\ PaperOf(t) = Sheet!Put(p, " ")
      BY <1>1, DimmedIs
    <3>2. PICK x \in Nat : x = s.x - 1
      BY <1>0, <2>2
    <3>3. putc(s, c) = Scrolled(Moved(t, x))
      BY <1>6, <2>2, <3>1, <3>2 DEF putc, Moved
    <3>4. PICK z : z = Sheet!Put(p, " ")
      OBVIOUS
    <3>5. z.col = t.x /\ PaperOf(Moved(t, x)) = AtColumn(z, x)
          /\ Moved(t, x) \in Screens(V) /\ Scrolled(Moved(t, x)) = Moved(t, x)
      BY <3>1, <3>4, MovedIs, Zenon
    <3>6. Sheet!Typed(p, BS) = AtColumn(z, x)
      <4>a. p.col # 0
        BY <1>0, <1>2, <2>2
      <4>b. Sheet!BLANK = " "
        BY DEF Sheet!BLANK
      <4>c. z = Sheet!Put(p, Sheet!BLANK)
        BY <3>4, <4>b
      <4>1. Sheet!Typed(p, BS) = [z EXCEPT !.col = @ - 1]
        BY <4>a, <4>c DEF Sheet!Typed
      <4>2. z.col - 1 = x
        BY <3>1, <3>2, <3>5
      <4> QED BY <4>1, <4>2 DEF AtColumn
    <3> QED BY <1>1, <2>1, <3>3, <3>5, <3>6
  <2>3. CASE ~(s.x > 0)
    <3>1. s.x = 0
      BY <1>0, <2>3
    <3>2. putc(s, c) = Scrolled(s)
      BY <1>6, <2>3 DEF putc
    <3>3. Scrolled(s) = s
      BY SizesAre DEF Scrolled, Screens
    <3>4. Sheet!Typed(p, BS) = p
      BY <1>2, <3>1 DEF Sheet!Typed
    <3> QED BY <1>1, <2>1, <3>2, <3>3, <3>4
  <2> QED BY <2>2, <2>3
<1>7. CASE c \notin {LF, CR, HT, BS}
  <2>1. Visible(c) \notin {LF, CR, HT, BS}
    BY <1>7 DEF Visible
  <2>2. PICK t \in Screens(V) : /\ t = Set(s, [c |-> c, lit |-> TRUE]) /\ t.x = s.x
                                /\ PaperOf(t) = Sheet!Put(p, Visible(c))
    BY <1>1, SetIs
  <2>3. putc(s, c) = Scrolled(Advanced(t))
    BY <1>7, <2>2 DEF putc
  <2>4. PICK z : z = Sheet!Put(p, Visible(c))
    OBVIOUS
  <2>5. CASE s.x < COLUMNS - 1
    <3>1. PICK x \in Nat : x = s.x + 1
      BY <1>0
    <3>2. Advanced(t) = Moved(t, x)
      <4>1. ~(t.x + 1 > COLUMNS - 1) /\ t.x + 1 = x
        BY <1>0, <2>2, <2>5, <3>1
      <4> QED BY <4>1 DEF Advanced, Moved
    <3>3. z.col = t.x /\ PaperOf(Moved(t, x)) = AtColumn(z, x)
          /\ Moved(t, x) \in Screens(V) /\ Scrolled(Moved(t, x)) = Moved(t, x)
      BY <2>2, <2>4, <3>1, MovedIs, Zenon
    <3>4. Sheet!Typed(p, Visible(c)) = AtColumn(z, x)
      <4>1. Sheet!Typed(p, Visible(c)) = [z EXCEPT !.col = @ + 1]
        BY <1>2, <2>1, <2>4, <2>5 DEF Sheet!Typed
      <4>2. z.col + 1 = x
        BY <2>2, <3>1, <3>3
      <4> QED BY <4>1, <4>2 DEF AtColumn
    <3> QED BY <1>1, <2>3, <3>2, <3>3, <3>4
  <2>6. CASE ~(s.x < COLUMNS - 1)
    <3>1. Advanced(t) = NewLine(t)
      BY <1>0, <2>2, <2>6 DEF Advanced, NewLine
    <3>2. Sheet!Typed(p, Visible(c)) = Sheet!Fed(z)
      BY <1>2, <2>1, <2>4, <2>6 DEF Sheet!Typed
    <3>3. putc(s, c) = Scrolled(NewLine(t))
      BY <2>3, <3>1
    <3>4. putc(s, c) \in Screens(V) /\ PaperOf(putc(s, c)) = Sheet!Fed(PaperOf(t))
      BY <3>3, FedIs, Zenon
    <3> QED BY <1>1, <2>2, <2>4, <3>2, <3>4
  <2> QED BY <2>5, <2>6
<1> QED BY <1>3, <1>4, <1>5, <1>6, <1>7

-----------------------------------------------------------------------------
(* Texts, one character after the other.                                   *)
LEMMA TextIs ==
    ASSUME NEW V, "NUL" \in V, NEW s \in Screens(V), NEW text \in Seq(V)
    PROVE  /\ Printed(s, text) \in Screens(V)
           /\ PaperOf(Printed(s, text)) = Sheet!TypedAll(PaperOf(s), Seen(text))
<1> DEFINE N == Len(text)
           X == Screens(V)
           step == [i \in 0 + 1 .. N |-> [a \in X |-> putc(a, text[i])]]
           H(h) == [i \in 0 .. Len(text) |-> IF i = 0 THEN s ELSE putc(h[i - 1], text[i])]
           at == CHOOSE h : h = H(h)
           G(h) == [i \in 0 .. Len(Seen(text)) |->
                      IF i = 0 THEN PaperOf(s) ELSE Sheet!Typed(h[i - 1], Seen(text)[i])]
           on == CHOOSE h : h = G(h)
<1>1. N \in Nat /\ \A i \in 1 .. N : text[i] \in V
  OBVIOUS
<1>2. Len(Seen(text)) = N /\ \A i \in 1 .. N : Seen(text)[i] = Visible(text[i])
  <2>1. DOMAIN text = 1 .. N
    OBVIOUS
  <2>2. Seen(text) = [i \in 1 .. N |-> Visible(text[i])]
    BY <2>1 DEF Seen
  <2>3. Seen(text) \in [1 .. N -> {Visible(text[i]) : i \in 1 .. N}]
    BY <2>2
  <2>4. Len(Seen(text)) = N
    BY <1>1, <2>3
  <2> QED BY <2>2, <2>4
<1>3. step \in [0 + 1 .. N -> [X -> X]]
  <2>1. ASSUME NEW i \in 0 + 1 .. N, NEW a \in X PROVE putc(a, text[i]) \in X
    BY <1>1, CharacterIs
  <2> HIDE DEF X, N
  <2> QED BY <2>1
<1>4. PICK f \in [0 .. N -> X] : Stepwise(f, 0, N, s, step)
  <2>1. 0 \in Nat /\ 0 <= N /\ s \in X
    BY <1>1
  <2> HIDE DEF step, X, N
  <2> QED BY <1>1, <1>3, <2>1, StepwiseExists
<1>5. ASSUME NEW i \in 1 .. N
      PROVE  /\ i - 1 \in 0 .. N /\ i \in 0 .. N /\ f[i] = putc(f[i - 1], text[i])
             /\ f[i - 1] \in X /\ text[i] \in V
  <2>1. i \in 0 + 1 .. N /\ i - 1 \in 0 .. N /\ i \in 0 .. N
    BY <1>1
  <2>2. f[i - 1] \in X /\ text[i] \in V
    BY <1>1, <1>4, <2>1
  <2>3. f[i] = step[i][f[i - 1]]
    BY <1>4, <2>1 DEF Stepwise
  <2>4. step[i][f[i - 1]] = putc(f[i - 1], text[i])
    <3> HIDE DEF X, N
    <3> QED BY <2>1, <2>2
  <2> QED BY <2>1, <2>2, <2>3, <2>4
<1>6. f[0] = s
  BY <1>4 DEF Stepwise
<1>7. at = H(at)
  <2>1. \A i \in 0 .. N : i = 0 \/ i \in 1 .. N
    BY <1>1
  <2>2. f = H(f)
    BY <1>4, <1>5, <1>6, <2>1
  <2> QED BY <2>2
<1>8. ASSUME NEW i \in 0 .. N PROVE at[i] = f[i]
  <2> DEFINE S == {j \in 0 .. N : at[j] = f[j]}
  <2> HIDE DEF at
  <2>1. 0 \in S
    <3>1. at[0] = H(at)[0] /\ 0 \in 0 .. N
      BY <1>1, <1>7
    <3> QED BY <1>6, <3>1
  <2>2. ASSUME NEW j \in 1 .. N, j - 1 \in S PROVE j \in S
    <3>1. at[j] = H(at)[j]
      BY <1>7
    <3>2. at[j] = putc(at[j - 1], text[j])
      BY <1>5, <3>1
    <3> QED BY <1>5, <2>2, <3>2
  <2>3. 0 .. N \subseteq S
    <3> HIDE DEF S, N
    <3> QED BY <1>1, <2>1, <2>2, RangeInduction
  <2> QED BY <2>3
<1>9. Printed(s, text) = f[N]
  <2>1. Printed(s, text) = at[N]
    BY DEF Printed
  <2>2. N \in 0 .. N
    BY <1>1
  <2> HIDE DEF at, N
  <2> QED BY <1>8, <2>1, <2>2
<1>10. on = G(on)
  <2> DEFINE g == [i \in 0 .. N |-> PaperOf(f[i])]
  <2>1. ASSUME NEW i \in 1 .. N PROVE PaperOf(f[i]) = Sheet!Typed(PaperOf(f[i - 1]), Seen(text)[i])
    BY <1>2, <1>5, CharacterIs
  <2>2. ASSUME NEW i \in 0 .. N
        PROVE  g[i] = IF i = 0 THEN PaperOf(s) ELSE Sheet!Typed(g[i - 1], Seen(text)[i])
    <3>1. CASE i = 0
      BY <1>6, <3>1
    <3>2. CASE i # 0
      <4>1. i \in 1 .. N /\ i - 1 \in 0 .. N
        BY <1>1, <3>2
      <4> QED BY <2>1, <3>2, <4>1
    <3> QED BY <3>1, <3>2
  <2>3. g = G(g)
    <3>1. g = [i \in 0 .. N |-> g[i]]
      OBVIOUS
    <3> HIDE DEF g
    <3> QED BY <1>2, <2>2, <3>1
  <2> HIDE DEF g
  <2> QED BY <2>3
<1>11. ASSUME NEW i \in 0 .. N PROVE on[i] = PaperOf(f[i])
  <2> DEFINE S == {j \in 0 .. N : on[j] = PaperOf(f[j])}
  <2> HIDE DEF on
  <2>1. 0 \in S
    <3>1. on[0] = G(on)[0] /\ 0 \in 0 .. N
      BY <1>1, <1>10
    <3> QED BY <1>2, <1>6, <3>1
  <2>2. ASSUME NEW j \in 1 .. N, j - 1 \in S PROVE j \in S
    <3>1. on[j] = G(on)[j]
      BY <1>10
    <3>2. on[j] = Sheet!Typed(on[j - 1], Seen(text)[j])
      BY <1>2, <1>5, <3>1
    <3>3. on[j] = Sheet!Typed(PaperOf(f[j - 1]), Visible(text[j]))
      BY <1>2, <2>2, <3>2
    <3> QED BY <1>5, <3>3, CharacterIs
  <2>3. 0 .. N \subseteq S
    <3> HIDE DEF S, N
    <3> QED BY <1>1, <2>1, <2>2, RangeInduction
  <2> QED BY <2>3
<1>12. Sheet!TypedAll(PaperOf(s), Seen(text)) = PaperOf(f[N])
  <2>1. Sheet!TypedAll(PaperOf(s), Seen(text)) = on[Len(Seen(text))]
    BY DEF Sheet!TypedAll
  <2>2. N \in 0 .. N
    BY <1>1
  <2> HIDE DEF on, N
  <2> QED BY <1>2, <1>11, <2>1, <2>2
<1>13. f[N] \in X
  BY <1>1, <1>4
<1> QED BY <1>9, <1>12, <1>13

(* A screen that was cleared is a clean sheet.                             *)
LEMMA ClearedIs ==
    ASSUME NEW V, "NUL" \in V
    PROVE  Cleared \in Screens(V) /\ PaperOf(Cleared) = Sheet!Clean
<1>1. PICK t : t = [video |-> [v \in Places |-> Zero], x |-> 0, y |-> 0]
  OBVIOUS
<1>2. t \in Screens(V)
  BY <1>1, SizesAre DEF Screens, Cells, Zero
<1>3. \A i \in 1 .. ROWS, j \in 0 .. COLUMNS - 1 : Shown(t.video[j + COLUMNS * (i - 1)]) = " "
  <2>1. ASSUME NEW i \in 1 .. ROWS, NEW j \in 0 .. COLUMNS - 1
        PROVE  Shown(t.video[j + COLUMNS * (i - 1)]) = " "
    <3>1. PICK a \in Nat : a = i - 1 /\ a < ROWS
      BY SizesAre
    <3>2. j + COLUMNS * a \in Places
      BY <3>1, PlacesAre
    <3>3. t.video[j + COLUMNS * a] = Zero
      BY <1>1, <3>2
    <3> QED BY <3>1, <3>3 DEF Shown, Zero
  <2> QED BY <2>1
<1>4. PICK R : R = [i \in 1 .. ROWS |-> [j \in 0 .. COLUMNS - 1 |-> " "]]
  OBVIOUS
<1>5. LinesOf(R, t)
  BY <1>3, <1>4 DEF LinesOf
<1>6. PaperOf(t) = [rows |-> R, row |-> 1, col |-> 0]
  <2>1. PaperOf(t) = [rows |-> R, row |-> t.y + 1, col |-> t.x]
    BY <1>5, SheetIs
  <2> QED BY <1>1, <2>1
<1>7. Sheet!Clean = [rows |-> R, row |-> 1, col |-> 0]
  BY <1>4 DEF Sheet!Clean, Sheet!BlankRow, Sheet!BLANK
<1> QED BY <1>1, <1>2, <1>6, <1>7 DEF Cleared

(* The characters that are written, and the one of a cell not written to.  *)
Letters == {"NUL"} \cup UNION {Range(text) : text \in Written}

ScreenInv == screen \in Screens(Letters)

(* A step of the screen keeps it a screen, and is a step of the sheet.     *)
LEMMA ScreenStep ==
    ASSUME ScreenInv, ScreenNext
    PROVE  ScreenInv' /\ Sheet!PaperNext
<1>1. CASE clear
  BY <1>1, ClearedIs DEF clear, ScreenInv, Letters, Sheet!PaperNext, Sheet!Clear
<1>2. ASSUME NEW text \in Written, write(text) PROVE ScreenInv' /\ Sheet!PaperNext
  <2>1. text \in Seq(Letters) /\ "NUL" \in Letters
    <3>1. text \in Seq(Range(text)) /\ Range(text) \subseteq Letters
      BY ScreenAssumption DEF Letters
    <3> QED BY <3>1 DEF Letters
  <2>2. screen' = Printed(screen, text)
    BY <1>2 DEF write
  <2>3. /\ screen' \in Screens(Letters)
        /\ PaperOf(screen') = Sheet!TypedAll(PaperOf(screen), Seen(text))
    BY <2>1, <2>2, TextIs, Zenon DEF ScreenInv
  <2>4. Sheet!Write(Seen(text))
    BY <2>3 DEF Sheet!Write
  <2> QED BY <2>3, <2>4 DEF ScreenInv, Sheet!PaperNext
<1> QED BY <1>1, <1>2 DEF ScreenNext

(* IsPaper: whatever processes and the kernel write, what is seen on the   *)
(* screen is what a sheet of paper would show that was written on, for     *)
(* every size of the screen and of a tab and all texts (Io::putc,          *)
(* Io::scrollup, Io::clear).                                               *)
THEOREM ScreenIsPaper == IoSpec => IsPaper
<1>1. IoInit => ScreenInv /\ Sheet!PaperInit
  BY ClearedIs DEF IoInit, ScreenInit, ScreenInv, Letters, Sheet!PaperInit
<1>2. ScreenInv /\ [IoNext]_ioVars => ScreenInv' /\ [Sheet!PaperNext]_(PaperOf(screen))
  <2>1. CASE UNCHANGED screen
    BY <2>1 DEF ScreenInv
  <2>2. ScreenInv /\ ScreenNext => ScreenInv' /\ Sheet!PaperNext
    BY ScreenStep
  <2> QED BY <2>1, <2>2 DEF IoNext, Keyboard, ioVars
<1> QED BY <1>1, <1>2, PTL DEF IoSpec, IsPaper, Sheet!PaperSpec

-----------------------------------------------------------------------------
(* The disk *)

(* What IDE::read copies of the sectors it reads is what was asked for,    *)
(* wherever in a sector it begins and ends.                                *)
THEOREM IdeReadsTheWindow ==
    ASSUME NEW offset \in Nat, NEW count \in Nat, NEW i \in 1 .. count
    PROVE  IdeRead(offset, count)[i] = disk[offset + i - 1]
<1>1. SECTOR \in Nat /\ SECTOR > 0
  BY DiskAssumption
<1>2. PICK q \in Nat, r \in Nat : Cut(offset, SECTOR, q, r) /\ offset = q * SECTOR + r /\ r < SECTOR
  BY <1>1, DivMod
<1>3. PICK x \in Nat, y \in Nat :
        Cut(offset + count, SECTOR, x, y) /\ offset + count = x * SECTOR + y /\ y < SECTOR
  <2>1. offset + count \in Nat
    OBVIOUS
  <2> QED BY <1>1, <2>1, DivMod
<1>4. PICK n \in Nat : n = x - q + 1 /\ r + count <= n * SECTOR
  <2>1. CASE x < q
    <3>1. PICK k \in Nat : q = x + 1 + k
      <4>1. q - x - 1 \in Nat /\ q = x + 1 + (q - x - 1)
        BY <2>1
      <4> QED BY <4>1
    <3>2. (x + 1 + k) * SECTOR = x * SECTOR + SECTOR + k * SECTOR /\ k * SECTOR \in Nat
          /\ x * SECTOR \in Nat
      BY <1>1
    <3>3. FALSE
      BY <1>1, <1>2, <1>3, <3>1, <3>2
    <3> QED BY <3>3
  <2>2. CASE q <= x
    <3>1. PICK k \in Nat : x = q + k
      <4>1. x - q \in Nat /\ x = q + (x - q)
        BY <2>2
      <4> QED BY <4>1
    <3>2. (q + k) * SECTOR = q * SECTOR + k * SECTOR /\ (k + 1) * SECTOR = k * SECTOR + SECTOR
          /\ k * SECTOR \in Nat /\ q * SECTOR \in Nat
      BY <1>1
    <3>3. r + count <= (k + 1) * SECTOR
      BY <1>1, <1>2, <1>3, <3>1, <3>2
    <3>4. k + 1 = x - q + 1 /\ k + 1 \in Nat
      BY <3>1
    <3> QED BY <3>3, <3>4
  <2> QED BY <2>1, <2>2
<1>5. offset \div SECTOR = q /\ offset % SECTOR = r /\ Blocks(offset, count) = n
  BY <1>2, <1>3, <1>4, Zenon DEF Cut, Blocks
<1>6. r + i \in 1 .. n * SECTOR /\ r + i <= n * SECTOR
  <2>1. n * SECTOR \in Nat
    BY <1>1
  <2> QED BY <1>4, <2>1
<1>7. bl_read(q, n)[r + i] = disk[q * SECTOR + (r + i) - 1]
  BY <1>6 DEF bl_read
<1>8. q * SECTOR + (r + i) - 1 = offset + i - 1
  <2>1. q * SECTOR \in Nat
    BY <1>1
  <2> QED BY <1>2, <2>1
<1>9. IdeRead(offset, count)[i] = bl_read(q, n)[r + i]
  BY <1>5, <1>6 DEF IdeRead
<1> QED BY <1>7, <1>8, <1>9

(* d is the disk, and the driver of the partition n knows where it is.     *)
Reads(d, n) ==
    /\ disk = d
    /\ partition_info[n].s_lba = d[PARTS + n].s_lba
    /\ d[PARTS + n].s_lba \in Nat

(* What is read of a partition is what the disk holds from its start on.   *)
THEOREM PartitionReadsItsCells ==
    ASSUME NEW d, NEW n, Reads(d, n), NEW pos \in Nat, NEW count \in Nat, NEW i \in 1 .. count
    PROVE  PartitionRead(n, pos, count)[i] = d[Start(d, n) + pos + (i - 1)]
<1>1. Start(d, n) \in Nat /\ SECTOR \in Nat
  BY DiskAssumption DEF Reads, Start
<1>2. PartitionRead(n, pos, count) = IdeRead(Start(d, n) + pos, count)
  BY DEF PartitionRead, Reads, Start
<1>3. Start(d, n) + pos \in Nat
  BY <1>1
<1>4. IdeRead(Start(d, n) + pos, count)[i] = disk[Start(d, n) + pos + i - 1]
  BY <1>3, IdeReadsTheWindow
<1>5. Start(d, n) + pos + i - 1 = Start(d, n) + pos + (i - 1)
  BY <1>1
<1> QED BY <1>2, <1>4, <1>5 DEF Reads

-----------------------------------------------------------------------------
(* p lists the numbers f[0], f[1], ... at least up to the first that is    *)
(* zero, of n numbers.                                                     *)
Follows(p, f, n) ==
    /\ p \in Seq(Nat) /\ Len(p) <= n
    /\ \A w \in 0 .. n : (\A k \in 0 .. w - 1 : f[k] # 0) =>
         w <= Len(p) /\ \A k \in 0 .. w - 1 : p[k + 1] = f[k]

(* p lists them up to there and ends.                                      *)
Stops(p, f, n) ==
    /\ p \in Seq(Nat) /\ Len(p) <= n
    /\ \A i \in 1 .. Len(p) : p[i] = f[i - 1] /\ p[i] # 0
    /\ Len(p) < n => f[Len(p)] = 0

(* A walk that stops at the first zero lists what comes before it.         *)
LEMMA StopsFollows ==
    ASSUME NEW p, NEW f, NEW n \in Nat, Stops(p, f, n)
    PROVE  Follows(p, f, n)
<1>1. PICK L \in Nat : L = Len(p)
  BY DEF Stops
<1> SUFFICES ASSUME NEW w \in 0 .. n, \A k \in 0 .. w - 1 : f[k] # 0
             PROVE  w <= L /\ \A k \in 0 .. w - 1 : p[k + 1] = f[k]
  BY <1>1 DEF Stops, Follows
<1>2. w <= L
  <2> SUFFICES ASSUME L < w PROVE FALSE
    OBVIOUS
  <2>1. L \in 0 .. w - 1 /\ L < n
    OBVIOUS
  <2> QED BY <1>1, <2>1 DEF Stops
<1>3. ASSUME NEW k \in 0 .. w - 1 PROVE p[k + 1] = f[k]
  <2>1. k + 1 \in 1 .. L /\ (k + 1) - 1 = k
    BY <1>2
  <2> QED BY <1>1, <2>1 DEF Stops
<1> QED BY <1>2, <1>3

(* A walk through block numbers ends at the first that is zero.            *)
LEMMA WalkStops ==
    ASSUME NEW p \in Seq(Nat), NEW f, \A k \in 0 .. Len(p) - 1 : f[k] = p[k + 1]
    PROVE  Stops(UpToZero(p), f, Len(p))
<1> DEFINE holes == {i \in DOMAIN p : p[i] = 0}
<1>1. PICK L \in Nat : L = Len(p) /\ DOMAIN p = 1 .. L
  OBVIOUS
<1>2. CASE holes = {}
  <2>1. UpToZero(p) = p
    BY <1>2 DEF UpToZero
  <2>2. ASSUME NEW i \in 1 .. L PROVE p[i] = f[i - 1] /\ p[i] # 0
    <3>1. i - 1 \in 0 .. L - 1 /\ (i - 1) + 1 = i
      OBVIOUS
    <3> QED BY <1>1, <1>2, <3>1
  <2> QED BY <1>1, <2>1, <2>2 DEF Stops
<1>3. CASE holes # {}
  <2>1. PICK m \in holes : \A x \in holes : m <= x
    <3>1. holes \in SUBSET Nat
      BY <1>1
    <3> HIDE DEF holes
    <3> QED BY <1>3, <3>1, LeastElement
  <2>2. Min(holes) = m
    <3>1. Min(holes) \in holes /\ \A x \in holes : Min(holes) <= x
      <4> HIDE DEF holes
      <4> QED BY <2>1 DEF Min
    <3>2. PICK x : x = Min(holes)
      OBVIOUS
    <3>3. x \in Nat /\ m \in Nat /\ x <= m /\ m <= x
      BY <1>1, <2>1, <3>1, <3>2
    <3> QED BY <3>2, <3>3
  <2>3. UpToZero(p) = SubSeq(p, 1, m - 1)
    BY <1>3, <2>2 DEF UpToZero
  <2>4. m \in 1 .. L /\ p[m] = 0 /\ \A i \in 1 .. m - 1 : p[i] # 0
    <3>1. m \in 1 .. L /\ p[m] = 0
      BY <1>1, <2>1
    <3>2. ASSUME NEW i \in 1 .. m - 1 PROVE p[i] # 0
      <4>1. i \in 1 .. L /\ ~(m <= i)
        BY <3>1
      <4>2. i \notin holes
        BY <2>1, <4>1
      <4> QED BY <1>1, <4>1, <4>2
    <3> QED BY <3>1, <3>2
  <2>5. PICK s : s = SubSeq(p, 1, m - 1)
    OBVIOUS
  <2>6. s \in Seq(Nat) /\ Len(s) = m - 1 /\ \A i \in 1 .. m - 1 : s[i] = p[i]
    BY <1>1, <2>4, <2>5
  <2>7. ASSUME NEW i \in 1 .. m - 1 PROVE p[i] = f[i - 1]
    <3>1. i - 1 \in 0 .. L - 1 /\ (i - 1) + 1 = i
      BY <2>4
    <3> QED BY <1>1, <3>1
  <2>8. f[m - 1] = 0
    <3>1. m - 1 \in 0 .. L - 1 /\ (m - 1) + 1 = m
      BY <2>4
    <3> QED BY <1>1, <2>4, <3>1
  <2> QED BY <1>1, <2>3, <2>4, <2>5, <2>6, <2>7, <2>8 DEF Stops
<1> QED BY <1>2, <1>3

(* One list after another.                                                 *)
LEMMA FollowsConcat ==
    ASSUME NEW p, NEW q, NEW f, NEW g, NEW h, NEW n \in Nat, NEW m \in Nat,
           Follows(p, f, n), Follows(q, g, m),
           \A k \in 0 .. n - 1 : h[k] = f[k], \A k \in 0 .. m - 1 : h[n + k] = g[k]
    PROVE  Follows(p \o q, h, n + m)
<1>1. p \in Seq(Nat) /\ q \in Seq(Nat) /\ Len(p) <= n /\ Len(q) <= m
  BY DEF Follows
<1>2. PICK P \in Nat, Q \in Nat : P = Len(p) /\ Q = Len(q) /\ P <= n /\ Q <= m
  BY <1>1
<1>3. PICK s : s = p \o q
  OBVIOUS
<1>4. /\ s \in Seq(Nat) /\ Len(s) = P + Q
      /\ \A i \in 1 .. P : s[i] = p[i]
      /\ \A i \in 1 .. Q : s[P + i] = q[i]
  <2>1. \A i \in 1 .. P + Q : s[i] = IF i <= P THEN p[i] ELSE q[i - P]
    BY <1>1, <1>2, <1>3
  <2> QED BY <1>1, <1>2, <1>3, <2>1
<1> SUFFICES ASSUME NEW w \in 0 .. n + m, \A k \in 0 .. w - 1 : h[k] # 0
             PROVE  w <= P + Q /\ \A k \in 0 .. w - 1 : s[k + 1] = h[k]
  BY <1>2, <1>3, <1>4 DEF Follows
<1>5. CASE w <= n
  <2>1. \A k \in 0 .. w - 1 : f[k] # 0 /\ h[k] = f[k]
    BY <1>5
  <2>2. w <= P /\ \A k \in 0 .. w - 1 : p[k + 1] = f[k]
    <3>1. w \in 0 .. n
      BY <1>5
    <3> QED BY <1>2, <2>1, <3>1 DEF Follows
  <2>3. ASSUME NEW k \in 0 .. w - 1 PROVE s[k + 1] = h[k]
    <3>1. k + 1 \in 1 .. P
      BY <2>2
    <3> QED BY <1>4, <2>1, <2>2, <3>1
  <2> QED BY <2>2, <2>3
<1>6. CASE n < w
  <2>1. \A k \in 0 .. n - 1 : f[k] # 0
    BY <1>6
  <2>2. P = n /\ \A k \in 0 .. n - 1 : p[k + 1] = f[k]
    <3>1. n \in 0 .. n
      OBVIOUS
    <3>2. n <= P /\ \A k \in 0 .. n - 1 : p[k + 1] = f[k]
      BY <1>2, <2>1, <3>1 DEF Follows
    <3> QED BY <1>2, <3>2
  <2>3. w - n \in 0 .. m
    BY <1>6
  <2>4. ASSUME NEW k \in 0 .. (w - n) - 1 PROVE g[k] # 0
    <3>1. n + k \in 0 .. w - 1 /\ k \in 0 .. m - 1
      BY <2>3
    <3> QED BY <3>1
  <2>5. w - n <= Q /\ \A k \in 0 .. (w - n) - 1 : q[k + 1] = g[k]
    BY <1>2, <2>3, <2>4 DEF Follows
  <2>6. ASSUME NEW k \in 0 .. w - 1 PROVE s[k + 1] = h[k]
    <3>1. CASE k < n
      <4>1. k + 1 \in 1 .. P /\ k \in 0 .. n - 1
        BY <2>2, <3>1
      <4> QED BY <1>4, <2>2, <4>1
    <3>2. CASE n <= k
      <4>1. k - n \in 0 .. (w - n) - 1 /\ k - n \in 0 .. m - 1 /\ n + (k - n) = k
            /\ (k - n) + 1 \in 1 .. Q /\ P + ((k - n) + 1) = k + 1
        BY <2>2, <2>3, <2>5, <3>2
      <4>2. /\ s[P + ((k - n) + 1)] = q[(k - n) + 1] /\ q[(k - n) + 1] = g[k - n]
            /\ h[n + (k - n)] = g[k - n]
        BY <1>4, <2>5, <4>1
      <4> QED BY <4>1, <4>2
    <3> QED BY <3>1, <3>2
  <2>7. w <= P + Q
    BY <2>2, <2>5
  <2> QED BY <2>6, <2>7
<1> QED BY <1>5, <1>6

-----------------------------------------------------------------------------
(* Flattened(F, seqs): F[i] has the first i sequences of seqs one after    *)
(* the other, and the last one is FlattenSeq(seqs).                        *)
Flattened(F, seqs, S) ==
    /\ F \in [1 .. Len(seqs) -> Seq(S)]
    /\ F[1] = seqs[1]
    /\ \A i \in 2 .. Len(seqs) : F[i] = F[i - 1] \o seqs[i]
    /\ FlattenSeq(seqs) = F[Len(seqs)]

(* FlattenSeq puts the sequences together one by one.                      *)
LEMMA FlattenSteps ==
    ASSUME NEW S, NEW seqs \in Seq(Seq(S)), Len(seqs) > 0
    PROVE  \E F : Flattened(F, seqs, S)
<1>1. PICK L \in Nat : L = Len(seqs) /\ L > 0 /\ 1 <= L
  OBVIOUS
<1>2. \A i \in 1 .. L : seqs[i] \in Seq(S)
  BY <1>1
<1> DEFINE step == [i \in 1 + 1 .. L |-> [x \in Seq(S) |-> x \o seqs[i]]]
           E(f) == [i \in 1 .. L |-> IF i = 1 THEN seqs[i] ELSE f[i - 1] \o seqs[i]]
           flatten == CHOOSE f : f = E(f)
<1>3. PICK f \in [1 .. L -> Seq(S)] : Stepwise(f, 1, L, seqs[1], step)
  <2>1. step \in [1 + 1 .. L -> [Seq(S) -> Seq(S)]]
    BY <1>2
  <2>2. seqs[1] \in Seq(S) /\ 1 \in Nat
    BY <1>1, <1>2
  <2> HIDE DEF step
  <2> QED BY <1>1, <2>1, <2>2, StepwiseExists
<1>4. ASSUME NEW i \in 2 .. L PROVE f[i] = f[i - 1] \o seqs[i]
  <2>1. i \in 1 + 1 .. L /\ i - 1 \in 1 .. L
    OBVIOUS
  <2>2. f[i] = step[i][f[i - 1]]
    <3> HIDE DEF step
    <3> QED BY <1>3, <2>1 DEF Stepwise
  <2> QED BY <2>1, <2>2
<1>5. f = E(f)
  <2>1. f[1] = seqs[1]
    BY <1>3 DEF Stepwise
  <2>2. ASSUME NEW i \in 1 .. L PROVE f[i] = IF i = 1 THEN seqs[i] ELSE f[i - 1] \o seqs[i]
    <3>1. i = 1 \/ i \in 2 .. L
      OBVIOUS
    <3> QED BY <1>4, <2>1, <3>1
  <2> QED BY <2>2
<1>6. flatten = E(flatten)
  <2> HIDE DEF E
  <2> QED BY <1>5
<1>7. flatten[1] = seqs[1] /\ \A i \in 2 .. L : flatten[i] = flatten[i - 1] \o seqs[i]
  <2>1. \A i \in 1 .. L : E(flatten)[i] = IF i = 1 THEN seqs[i] ELSE flatten[i - 1] \o seqs[i]
    <3> HIDE DEF flatten
    <3> QED OBVIOUS
  <2>2. \A i \in 1 .. L : flatten[i] = IF i = 1 THEN seqs[i] ELSE flatten[i - 1] \o seqs[i]
    <3> HIDE DEF flatten, E
    <3> QED BY <1>6, <2>1
  <2>3. 1 \in 1 .. L /\ \A i \in 2 .. L : i \in 1 .. L /\ i # 1
    BY <1>1
  <2> HIDE DEF flatten
  <2> QED BY <2>2, <2>3
<1>8. FlattenSeq(seqs) = flatten[L]
  BY <1>1 DEF FlattenSeq
<1>9. flatten \in [1 .. L -> Seq(S)]
  <2>1. flatten = [i \in 1 .. L |-> flatten[i]]
    <3>1. DOMAIN E(flatten) = 1 .. L /\ E(flatten) = [i \in 1 .. L |-> E(flatten)[i]]
      <4> HIDE DEF flatten
      <4> QED OBVIOUS
    <3> HIDE DEF flatten, E
    <3> QED BY <1>6, <3>1
  <2> DEFINE T == {j \in 0 .. L - 1 : flatten[j + 1] \in Seq(S)}
  <2>2. 0 \in T
    <3>1. flatten[1] \in Seq(S) /\ 0 \in 0 .. L - 1 /\ 0 + 1 = 1
      <4> HIDE DEF flatten
      <4> QED BY <1>1, <1>2, <1>7
    <3> HIDE DEF flatten
    <3> QED BY <3>1
  <2>3. ASSUME NEW j \in 1 .. L - 1, j - 1 \in T PROVE j \in T
    <3>1. /\ j + 1 \in 2 .. L /\ j + 1 \in 1 .. L /\ j \in 0 .. L - 1
          /\ (j + 1) - 1 = j /\ (j - 1) + 1 = j
      BY <1>1
    <3>2. flatten[j] \in Seq(S)
      BY <2>3, <3>1
    <3>3. flatten[j + 1] = flatten[j] \o seqs[j + 1]
      <4> HIDE DEF flatten
      <4> QED BY <1>7, <3>1
    <3>4. flatten[j] \o seqs[j + 1] \in Seq(S)
      <4> HIDE DEF flatten
      <4> QED BY <1>2, <3>1, <3>2
    <3> QED BY <3>1, <3>3, <3>4
  <2>4. 0 .. L - 1 \subseteq T
    <3>1. L - 1 \in Nat
      BY <1>1
    <3> HIDE DEF T
    <3> QED BY <2>2, <2>3, <3>1, RangeInduction
  <2>5. ASSUME NEW i \in 1 .. L PROVE flatten[i] \in Seq(S)
    <3>1. i - 1 \in 0 .. L - 1 /\ (i - 1) + 1 = i
      OBVIOUS
    <3> HIDE DEF flatten
    <3> QED BY <2>4, <3>1
  <2> HIDE DEF flatten
  <2> QED BY <2>1, <2>5
<1> HIDE DEF flatten
<1> QED BY <1>1, <1>7, <1>8, <1>9 DEF Flattened

Parts(s, a, b, n, m) ==
    /\ Len(s) = n + m
    /\ \A x \in 1 .. n : s[x] = a[x]
    /\ \A x \in 1 .. m : s[n + x] = b[x]

(* What the members of a concatenation are.                                *)
LEMMA ConcatParts ==
    ASSUME NEW S, NEW a \in Seq(S), NEW b \in Seq(S), NEW n \in Nat, NEW m \in Nat,
           Len(a) = n, Len(b) = m
    PROVE  a \o b \in Seq(S) /\ Parts(a \o b, a, b, n, m)
<1>1. a \o b \in Seq(S) /\ Len(a \o b) = n + m
  OBVIOUS
<1>2. ASSUME NEW x \in 1 .. n PROVE (a \o b)[x] = a[x]
  OBVIOUS
<1>3. ASSUME NEW x \in 1 .. m PROVE (a \o b)[n + x] = b[x]
  <2>1. n + x \in 1 .. n + m /\ ~(n + x <= n) /\ (n + x) - n = x
    OBVIOUS
  <2> QED BY <2>1
<1> QED BY <1>1, <1>2, <1>3 DEF Parts

(* Only the numbers in the range of f matter.                              *)
LEMMA FollowsSame ==
    ASSUME NEW p, NEW f, NEW g, NEW n \in Nat, Follows(p, g, n), \A k \in 0 .. n - 1 : g[k] = f[k]
    PROVE  Follows(p, f, n)
<1> SUFFICES ASSUME NEW w \in 0 .. n, \A k \in 0 .. w - 1 : f[k] # 0
             PROVE  w <= Len(p) /\ \A k \in 0 .. w - 1 : p[k + 1] = f[k]
  BY DEF Follows
<1>1. \A k \in 0 .. w - 1 : k \in 0 .. n - 1
  OBVIOUS
<1>2. \A k \in 0 .. w - 1 : g[k] = f[k] /\ g[k] # 0
  BY <1>1
<1>3. w <= Len(p) /\ \A k \in 0 .. w - 1 : p[k + 1] = g[k]
  BY <1>2 DEF Follows
<1> QED BY <1>2, <1>3

(* After a zero there may be anything.                                     *)
LEMMA FollowsFurther ==
    ASSUME NEW p, NEW f, NEW n \in Nat, NEW m \in Nat, Follows(p, f, n), n <= m,
           n < m => f[n] = 0
    PROVE  Follows(p, f, m)
<1>1. p \in Seq(Nat) /\ Len(p) <= m
  BY DEF Follows
<1> SUFFICES ASSUME NEW w \in 0 .. m, \A k \in 0 .. w - 1 : f[k] # 0
             PROVE  w <= Len(p) /\ \A k \in 0 .. w - 1 : p[k + 1] = f[k]
  BY <1>1 DEF Follows
<1>2. w \in 0 .. n
  <2> SUFFICES ASSUME n < w PROVE FALSE
    OBVIOUS
  <2>1. n \in 0 .. w - 1 /\ n < m
    OBVIOUS
  <2> QED BY <2>1
<1> QED BY <1>2 DEF Follows

(* Lists of M numbers one after the other.                                 *)
LEMMA FlattenFollows ==
    ASSUME NEW seqs \in Seq(Seq(Nat)), NEW f, NEW N \in Nat, NEW M \in Nat, M > 0,
           Len(seqs) <= N,
           \A i \in 1 .. Len(seqs) : Follows(seqs[i], [k \in 0 .. M - 1 |-> f[(i - 1) * M + k]], M),
           Len(seqs) < N => f[Len(seqs) * M] = 0
    PROVE  Follows(FlattenSeq(seqs), f, N * M)
<1>1. PICK L \in Nat : L = Len(seqs)
  OBVIOUS
<1>2. L * M \in Nat /\ N * M \in Nat /\ L * M <= N * M
  <2>1. L <= N
    BY <1>1
  <2> QED BY <2>1, TimesLess
<1>3. Follows(FlattenSeq(seqs), f, L * M)
  <2>1. CASE L = 0
    <3>1. FlattenSeq(seqs) = seqs /\ seqs = <<>> /\ L * M = 0
      <4>1. 0 * M = 0
        OBVIOUS
      <4>2. seqs = <<>> /\ Len(seqs) = 0
        BY <1>1, <2>1, EmptySeq, Zenon
      <4> QED BY <2>1, <4>1, <4>2 DEF FlattenSeq
    <3>2. Follows(<<>>, f, 0)
      BY DEF Follows
    <3> QED BY <3>1, <3>2
  <2>2. CASE L > 0
    <3>1. PICK F : Flattened(F, seqs, Nat)
      BY <1>1, <2>2, FlattenSteps
    <3> DEFINE g(i) == [k \in 0 .. M - 1 |-> f[(i - 1) * M + k]]
               T == {j \in 0 .. L - 1 : Follows(F[j + 1], f, (j + 1) * M)}
    <3>2. \A i \in 1 .. L : Follows(seqs[i], g(i), M)
      BY <1>1
    <3>3. 0 \in T
      <4>1. F[1] = seqs[1] /\ 1 \in 1 .. L
        BY <2>2, <3>1 DEF Flattened
      <4>2. \A k \in 0 .. M - 1 : g(1)[k] = f[k]
        <5>1. \A k \in 0 .. M - 1 : (1 - 1) * M + k = k
          OBVIOUS
        <5> QED BY <5>1
      <4>3. Follows(seqs[1], f, M)
        <5> HIDE DEF g
        <5> QED BY <3>2, <4>1, <4>2, FollowsSame
      <4>4. 0 + 1 = 1 /\ (0 + 1) * M = M /\ 0 \in 0 .. L - 1
        BY <2>2
      <4> QED BY <4>1, <4>3, <4>4
    <3>4. ASSUME NEW j \in 1 .. L - 1, j - 1 \in T PROVE j \in T
      <4>1. j \in Nat /\ j + 1 \in 1 .. L /\ j + 1 \in 2 .. L /\ (j + 1) - 1 = j /\ (j - 1) + 1 = j
            /\ j \in 0 .. L - 1
        OBVIOUS
      <4>2. j * M \in Nat /\ j * M + M = (j + 1) * M
        BY <4>1
      <4>3. Follows(F[j], f, j * M)
        BY <3>4, <4>1
      <4>4. F[j + 1] = F[j] \o seqs[j + 1]
        BY <1>1, <3>1, <4>1 DEF Flattened
      <4>5. \A k \in 0 .. M - 1 : f[j * M + k] = g(j + 1)[k]
        BY <4>1
      <4>6. Follows(F[j] \o seqs[j + 1], f, j * M + M)
        <5> HIDE DEF g, T
        <5>1. Follows(seqs[j + 1], g(j + 1), M)
          BY <3>2, <4>1
        <5> QED BY <4>2, <4>3, <4>5, <5>1, FollowsConcat
      <4> QED BY <4>1, <4>2, <4>4, <4>6
    <3>5. 0 .. L - 1 \subseteq T
      <4>1. L - 1 \in Nat
        BY <2>2
      <4> HIDE DEF T
      <4> QED BY <3>3, <3>4, <4>1, RangeInduction
    <3>6. L - 1 \in T /\ (L - 1) + 1 = L
      <4>1. L - 1 \in 0 .. L - 1 /\ (L - 1) + 1 = L
        BY <2>2
      <4> HIDE DEF T
      <4> QED BY <3>5, <4>1
    <3> QED BY <1>1, <3>1, <3>6 DEF Flattened
  <2> QED BY <2>1, <2>2
<1>4. L * M < N * M => f[L * M] = 0
  <2>1. CASE L = N
    BY <1>2, <2>1
  <2>2. CASE L # N
    BY <1>1, <2>2
  <2> QED BY <2>1, <2>2
<1> QED BY <1>2, <1>3, <1>4, FollowsFurther

(* s is the lists of seqs, of M members each, one after the other.         *)
OneAfterTheOther(s, seqs, M) ==
    /\ Len(s) = Len(seqs) * M
    /\ \A q \in 0 .. Len(seqs) - 1 : \A c \in 0 .. M - 1 :
         s[q * M + c + 1] = seqs[q + 1][c + 1]

(* Sequences of one length, put together, keep their members in order.     *)
LEMMA FlattenEqual ==
    ASSUME NEW S, NEW seqs \in Seq(Seq(S)), NEW M \in Nat,
           \A i \in 1 .. Len(seqs) : Len(seqs[i]) = M
    PROVE  OneAfterTheOther(FlattenSeq(seqs), seqs, M)
<1>1. PICK L \in Nat : L = Len(seqs)
  OBVIOUS
<1>2. CASE L = 0
  <2>1. FlattenSeq(seqs) = seqs
    BY <1>1, <1>2 DEF FlattenSeq
  <2>2. L * M = 0
    BY <1>2
  <2>3. 0 .. L - 1 = {}
    BY <1>2
  <2> QED BY <1>1, <1>2, <2>1, <2>2, <2>3 DEF OneAfterTheOther
<1>3. CASE L > 0
  <2>1. PICK F : Flattened(F, seqs, S)
    BY <1>1, <1>3, FlattenSteps
  <2> DEFINE Right(s, n) == /\ Len(s) = n * M
                            /\ \A q \in 0 .. n - 1 : \A c \in 0 .. M - 1 :
                                 s[q * M + c + 1] = seqs[q + 1][c + 1]
             T == {j \in 0 .. L - 1 : Right(F[j + 1], j + 1)}
  <2>2. 0 \in T
    <3>1. F[1] = seqs[1] /\ Len(seqs[1]) = M /\ 0 \in 0 .. L - 1
      BY <1>1, <1>3, <2>1 DEF Flattened
    <3>2. \A c \in 0 .. M - 1 : 0 * M + c + 1 = c + 1
      OBVIOUS
    <3>3. 1 * M = M /\ 0 + 1 = 1
      OBVIOUS
    <3>4. \A q \in 0 .. 1 - 1 : q = 0
      OBVIOUS
    <3> QED BY <3>1, <3>2, <3>3, <3>4
  <2>3. ASSUME NEW j \in 1 .. L - 1, j - 1 \in T PROVE j \in T
    <3>1. j \in Nat /\ j + 1 \in 1 .. L /\ j + 1 \in 2 .. L /\ (j + 1) - 1 = j /\ (j - 1) + 1 = j
          /\ j \in 0 .. L - 1 /\ j \in 1 .. L
      OBVIOUS
    <3>2. PICK n \in Nat : n = j * M /\ n + M = (j + 1) * M
      <4>1. j * M \in Nat /\ j * M + M = (j + 1) * M
        BY <3>1
      <4> QED BY <4>1
    <3>3. F[j + 1] = F[j] \o seqs[j + 1] /\ F[j] \in Seq(S) /\ seqs[j + 1] \in Seq(S)
          /\ Len(seqs[j + 1]) = M
      <4>1. F \in [1 .. L -> Seq(S)] /\ F[j + 1] = F[(j + 1) - 1] \o seqs[j + 1]
        BY <1>1, <2>1, <3>1 DEF Flattened
      <4>2. F[j] \in Seq(S) /\ seqs[j + 1] \in Seq(S) /\ Len(seqs[j + 1]) = M
        <5>1. F[j] \in Seq(S)
          BY <3>1, <4>1
        <5>2. seqs[j + 1] \in Seq(S)
          BY <1>1, <3>1
        <5>3. Len(seqs[j + 1]) = M
          BY <1>1, <3>1
        <5> QED BY <5>1, <5>2, <5>3
      <4> QED BY <3>1, <4>1, <4>2
    <3>4. Right(F[j], j)
      BY <2>3, <3>1
    <3>5. PICK a : a = F[j] /\ a \in Seq(S) /\ Len(a) = n
      BY <3>2, <3>3, <3>4
    <3>6. PICK b : b = seqs[j + 1] /\ b \in Seq(S) /\ Len(b) = M
      BY <3>3
    <3>7. PICK s : s = a \o b
      OBVIOUS
    <3>8. Len(s) = n + M /\ (\A x \in 1 .. n : s[x] = a[x]) /\ (\A x \in 1 .. M : s[n + x] = b[x])
      <4> HIDE DEF T, Right
      <4>1. Parts(a \o b, a, b, n, M)
        BY <3>5, <3>6, ConcatParts
      <4> QED BY <3>7, <4>1, Zenon DEF Parts
    <3>9. ASSUME NEW q \in 0 .. (j + 1) - 1, NEW c \in 0 .. M - 1
          PROVE  s[q * M + c + 1] = seqs[q + 1][c + 1]
      <4>1. CASE q = j
        <5>1. q * M + c + 1 = n + (c + 1) /\ c + 1 \in 1 .. M
          BY <3>2, <4>1
        <5> QED BY <3>6, <3>8, <4>1, <5>1
      <4>2. CASE q # j
        <5>1. q \in 0 .. j - 1 /\ q + 1 \in Nat /\ q + 1 <= j
          BY <4>2
        <5>2. (q + 1) * M <= j * M /\ (q + 1) * M = q * M + M /\ q * M \in Nat
          BY <3>1, <5>1, TimesLess
        <5>3. q * M + c + 1 \in 1 .. n
          BY <3>2, <5>2
        <5> QED BY <3>4, <3>5, <3>8, <5>1, <5>3
      <4> QED BY <4>1, <4>2
    <3>10. s = F[j + 1]
      BY <3>3, <3>5, <3>6, <3>7
    <3> QED BY <3>1, <3>2, <3>8, <3>9, <3>10
  <2>4. 0 .. L - 1 \subseteq T
    <3>1. L - 1 \in Nat
      BY <1>3
    <3> HIDE DEF T
    <3> QED BY <2>2, <2>3, <3>1, RangeInduction
  <2>5. L - 1 \in T /\ (L - 1) + 1 = L
    <3>1. L - 1 \in 0 .. L - 1 /\ (L - 1) + 1 = L
      BY <1>3
    <3> HIDE DEF T
    <3> QED BY <2>4, <3>1
  <2>6. FlattenSeq(seqs) = F[L] /\ F[L] \in Seq(S)
    BY <1>1, <1>3, <2>1 DEF Flattened
  <2> QED BY <1>1, <2>5, <2>6 DEF OneAfterTheOther
<1> QED BY <1>2, <1>3

(* A block has one, two or four kilobytes.                                 *)
LEMMA BlockSizeIsPositive ==
    ASSUME NEW d, NEW n, HasGroups(Super(d, n))
    PROVE  BlockSize(d, n) \in Nat /\ BlockSize(d, n) > 0 /\ BlockSize(d, n) >= KILO
           /\ (BlockSize(d, n) = KILO <=> Super(d, n).s_log_block_size = 0)
<1>1. KILO \in Nat /\ KILO > 0
  BY DiskAssumption, VolumesAssumption
<1>2. PICK l \in 0 .. 2 : l = Super(d, n).s_log_block_size
  BY DEF HasGroups
<1>3. 2 ^ 0 = 1 /\ 2 ^ 1 = 2 /\ 2 ^ 2 = 4
  OBVIOUS
<1>4. l = 0 \/ l = 1 \/ l = 2
  BY <1>2
<1>5. CASE l = 0
  BY <1>1, <1>2, <1>3, <1>5 DEF BlockSize
<1>6. CASE l = 1
  BY <1>1, <1>2, <1>3, <1>6 DEF BlockSize
<1>7. CASE l = 2
  BY <1>1, <1>2, <1>3, <1>7 DEF BlockSize
<1> QED BY <1>4, <1>5, <1>6, <1>7

(* hd is what the mounting of the partition n of the disk d found out.     *)
Knows(hd, d, n) ==
    /\ hd.dev = n /\ hd.blocksize = BlockSize(d, n) /\ hd.sb = Super(d, n)
    /\ hd.groups \in Nat /\ hd.groups * hd.sb.s_inodes_per_group < Width
    /\ \A i \in 1 .. hd.sb.s_inodes_count : (i - 1) \div hd.sb.s_inodes_per_group < hd.groups
    /\ \A g \in 0 .. hd.groups - 1 : hd.gd[g + 1] = GroupOf(d, n, g)

(* Rounded up, a number of things by b holds them all.                     *)
LEMMA RoundedHolds ==
    ASSUME NEW a \in Nat, NEW b \in Nat, b > 0
    PROVE  /\ Rounded(a, b) \in Nat /\ Rounded(a, b) <= a \div b + 1
           /\ a \div b + 1 \in Nat
           /\ \A i \in 1 .. a : (i - 1) \div b < Rounded(a, b) /\ (i - 1) \div b \in Nat
<1>1. PICK q \in Nat, r \in Nat : Cut(a, b, q, r) /\ a = q * b + r /\ r < b
  BY DivMod
<1>2. PICK m \in {0, 1} : Rounded(a, b) = q + m /\ (r # 0 => m = 1)
  BY <1>1 DEF Cut, Rounded
<1>3. ASSUME NEW i \in 1 .. a PROVE (i - 1) \div b < q + m /\ (i - 1) \div b \in Nat
  <2>1. PICK x \in Nat, y \in Nat : Cut(i - 1, b, x, y) /\ i - 1 = x * b + y /\ y < b
    <3>1. i - 1 \in Nat
      OBVIOUS
    <3> QED BY <3>1, DivMod
  <2>2. x < q + m
    <3> SUFFICES ASSUME q + m <= x PROVE FALSE
      BY <1>1
    <3>1. (q + m) * b <= x * b /\ (q + m) * b = q * b + m * b /\ q * b \in Nat /\ x * b \in Nat
      BY TimesLess
    <3>2. CASE m = 0
      <4>1. m * b = 0 /\ r = 0
        BY <1>2, <3>2
      <4> QED BY <1>1, <2>1, <3>1, <4>1
    <3>3. CASE m = 1
      <4>1. m * b = b
        BY <3>3
      <4> QED BY <1>1, <2>1, <3>1, <4>1
    <3> QED BY <3>2, <3>3
  <2> QED BY <2>1, <2>2 DEF Cut
<1> QED BY <1>1, <1>2, <1>3 DEF Cut

(* The larger of two numbers.                                              *)
LEMMA MaxOfTwo ==
    ASSUME NEW a \in Nat, NEW b \in Nat
    PROVE  Max({a, b}) \in {a, b} /\ a <= Max({a, b}) /\ b <= Max({a, b})
<1>1. \E x \in {a, b} : \A y \in {a, b} : x >= y
  <2>1. CASE a <= b
    BY <2>1
  <2>2. CASE b <= a
    BY <2>2
  <2> QED BY <2>1, <2>2
<1>2. Max({a, b}) \in {a, b} /\ \A y \in {a, b} : Max({a, b}) >= y
  BY <1>1 DEF Max
<1> QED BY <1>2

(* Mounting finds out what there is to know.                               *)
LEMMA SuperIsRead ==
    ASSUME NEW d, NEW n, Reads(d, n)
    PROVE  SuperBlock(n) = Super(d, n)
<1>1. KILO \in Nat /\ 1 \in 1 .. KILO /\ Start(d, n) \in Nat
  BY DiskAssumption, VolumesAssumption DEF Reads, Start
<1>2. PartitionRead(n, KILO, KILO)[1] = d[Start(d, n) + KILO + (1 - 1)]
  BY <1>1, PartitionReadsItsCells
<1>3. Start(d, n) + KILO + (1 - 1) = Start(d, n) + KILO
  BY <1>1
<1> QED BY <1>2, <1>3 DEF SuperBlock, Super

(* Mounting, ext2_get_disk_info, finds out what there is to know: the size *)
(* of a block, how many groups there are and where the inodes of each      *)
(* begin.                                                                  *)
THEOREM MountKnowsTheDisk ==
    ASSUME NEW d, NEW n, Reads(d, n), HasGroups(Super(d, n))
    PROVE  Knows(DiskInfo(n), d, n)
<1> DEFINE sb == Super(d, n)
           ba == Rounded(sb.s_blocks_count, sb.s_blocks_per_group)
           bi == Rounded(sb.s_inodes_count, sb.s_inodes_per_group)
           offset == IF BlockSize(d, n) = KILO THEN 2 * KILO ELSE BlockSize(d, n)
<1>1. SuperBlock(n) = sb
  BY SuperIsRead
<1>2. PICK per \in Nat, groups \in Nat :
        /\ per = sb.s_inodes_per_group /\ per > 0 /\ groups = Max({ba, bi})
        /\ groups * per < Width
        /\ \A i \in 1 .. sb.s_inodes_count : (i - 1) \div per < groups
  <2>1. PICK x \in Nat, xp \in Nat, y \in Nat, per \in Nat :
          /\ x = sb.s_blocks_count /\ xp = sb.s_blocks_per_group /\ y = sb.s_inodes_count
          /\ per = sb.s_inodes_per_group /\ xp > 0 /\ per > 0
          /\ (x \div xp + 1) * per < Width /\ (y \div per + 1) * per < Width
    <3>1. PICK x, xp, y, per :
            /\ x = sb.s_blocks_count /\ xp = sb.s_blocks_per_group /\ y = sb.s_inodes_count
            /\ per = sb.s_inodes_per_group
      OBVIOUS
    <3>2. /\ x \in Nat /\ xp \in Nat /\ y \in Nat /\ per \in Nat /\ xp > 0 /\ per > 0
          /\ (x \div xp + 1) * per < Width /\ (y \div per + 1) * per < Width
      BY <3>1 DEF HasGroups
    <3> QED BY <3>1, <3>2, Zenon
  <2>2. PICK g \in Nat : g = Max({ba, bi})
    BY <2>1, RoundedHolds, MaxOfTwo
  <2>3. ba \in Nat /\ bi \in Nat /\ bi <= g /\ (g = ba \/ g = bi)
    BY <2>1, <2>2, RoundedHolds, MaxOfTwo
  <2>4. g * per < Width
    <3>1. Width \in Nat
      BY VolumesAssumption
    <3>2. CASE g = ba
      <4>1. PICK z \in Nat : z = x \div xp + 1 /\ g <= z
        BY <2>1, <3>2, RoundedHolds
      <4>2. g * per <= z * per /\ g * per \in Nat /\ z * per \in Nat
        BY <4>1, TimesLess
      <4> QED BY <2>1, <3>1, <4>1, <4>2
    <3>3. CASE g = bi
      <4>1. PICK z \in Nat : z = y \div per + 1 /\ g <= z
        BY <2>1, <3>3, RoundedHolds
      <4>2. g * per <= z * per /\ g * per \in Nat /\ z * per \in Nat
        BY <4>1, TimesLess
      <4> QED BY <2>1, <3>1, <4>1, <4>2
    <3> QED BY <2>3, <3>2, <3>3
  <2>5. ASSUME NEW i \in 1 .. y PROVE (i - 1) \div per < g
    <3>1. PICK z \in Nat : z = (i - 1) \div per /\ z < bi
      BY <2>1, RoundedHolds
    <3> QED BY <2>3, <3>1
  <2> QED BY <2>1, <2>2, <2>4, <2>5
<1>3. /\ DiskInfo(n).sb = sb /\ DiskInfo(n).blocksize = BlockSize(d, n)
      /\ DiskInfo(n).groups = groups /\ DiskInfo(n).dev = n
      /\ DiskInfo(n).gd = PartitionRead(n, offset, groups)
  BY <1>1, <1>2 DEF DiskInfo, BlockSize
<1>4. ASSUME NEW g \in 0 .. groups - 1
      PROVE  DiskInfo(n).gd[g + 1] = GroupOf(d, n, g)
  <2>1. KILO \in Nat /\ BlockSize(d, n) \in Nat /\ Start(d, n) \in Nat
    BY DiskAssumption, VolumesAssumption, BlockSizeIsPositive DEF Reads, Start
  <2>2. g + 1 \in 1 .. groups /\ offset \in Nat
    BY <2>1
  <2>3. DiskInfo(n).gd[g + 1] = d[Start(d, n) + offset + ((g + 1) - 1)]
    <3> HIDE DEF offset
    <3> QED BY <1>3, <2>2, PartitionReadsItsCells
  <2>4. CASE BlockSize(d, n) = KILO
    <3>1. sb.s_log_block_size = 0
      BY <2>4, BlockSizeIsPositive
    <3>2. GroupOf(d, n, g) = d[Start(d, n) + 2 * BlockSize(d, n) + g]
      BY <3>1 DEF GroupOf, CellOf
    <3> QED BY <2>1, <2>3, <2>4, <3>2
  <2>5. CASE BlockSize(d, n) # KILO
    <3>1. sb.s_log_block_size # 0
      BY <2>5, BlockSizeIsPositive
    <3>2. GroupOf(d, n, g) = d[Start(d, n) + 1 * BlockSize(d, n) + g]
      BY <3>1 DEF GroupOf, CellOf
    <3>3. 1 * BlockSize(d, n) = BlockSize(d, n)
      BY <2>1
    <3> QED BY <2>1, <2>3, <2>5, <3>2, <3>3
  <2> QED BY <2>4, <2>5
<1> HIDE DEF sb
<1> QED BY <1>2, <1>3, <1>4 DEF Knows, sb

(* The inode of a file is read where its group says; the number 0, of an   *)
(* entry that is not in use, has no group.                                 *)
LEMMA InodeIsRead ==
    ASSUME NEW d, NEW n, Reads(d, n), NEW hd, Knows(hd, d, n), HasGroups(Super(d, n)), NEW junk,
           NEW i \in 1 .. Super(d, n).s_inodes_count,
           GroupOf(d, n, (i - 1) \div Super(d, n).s_inodes_per_group) \in Nat
    PROVE  ext2_read_inode(hd, i, junk) = InodeOf(d, n, i)
<1> DEFINE sb == Super(d, n)
<1>1. PICK per \in Nat, count \in Nat, size \in Nat, groups \in Nat :
        /\ per = sb.s_inodes_per_group /\ count = sb.s_inodes_count /\ size = sb.s_inode_size
        /\ groups = hd.groups /\ per > 0 /\ size > 0 /\ groups * per < Width
        /\ hd.sb = sb /\ hd.blocksize = BlockSize(d, n) /\ hd.dev = n
        /\ \A x \in 1 .. count : (x - 1) \div per < groups
        /\ \A g \in 0 .. groups - 1 : hd.gd[g + 1] = GroupOf(d, n, g)
  <2>1. PICK per, count, size, groups :
          /\ per = sb.s_inodes_per_group /\ count = sb.s_inodes_count /\ size = sb.s_inode_size
          /\ groups = hd.groups
    OBVIOUS
  <2>2. /\ per \in Nat /\ count \in Nat /\ size \in Nat /\ per > 0 /\ size > 0
    BY <2>1 DEF HasGroups
  <2>3. /\ groups \in Nat /\ groups * per < Width
        /\ hd.sb = sb /\ hd.blocksize = BlockSize(d, n) /\ hd.dev = n
        /\ \A x \in 1 .. count : (x - 1) \div per < groups
        /\ \A g \in 0 .. groups - 1 : hd.gd[g + 1] = GroupOf(d, n, g)
    BY <2>1, Zenon DEF Knows
  <2> QED BY <2>1, <2>2, <2>3, Zenon
<1>2. PICK q \in Nat, r \in Nat : Cut(i - 1, per, q, r) /\ i - 1 = q * per + r /\ r < per
  <2>1. i - 1 \in Nat
    BY <1>1
  <2> QED BY <1>1, <2>1, DivMod
<1>3. q < groups
  BY <1>1, <1>2 DEF Cut
<1>4. (i - 1) % Width = i - 1
  <2>1. i - 1 < groups * per
    <3>1. (q + 1) * per <= groups * per /\ (q + 1) * per = q * per + per
          /\ q * per \in Nat /\ groups * per \in Nat
      BY <1>3, TimesLess
    <3> QED BY <1>2, <3>1
  <2>2. i - 1 \in 0 .. Width - 1 /\ Width \in Nat
    BY <1>1, <2>1, VolumesAssumption
  <2> QED BY <2>2
<1>5. ext2_read_inode(hd, i, junk) = InodeAt(hd, q, r)
  <2>1. (i - 1) \div per = q /\ (i - 1) % per = r
    BY <1>2 DEF Cut
  <2>2. ~(q >= groups)
    BY <1>3
  <2> QED BY <1>1, <1>4, <2>1, <2>2, Zenon DEF ext2_read_inode
<1>6. hd.gd[q + 1] = GroupOf(d, n, q) /\ GroupOf(d, n, q) \in Nat
  <2>1. q \in 0 .. groups - 1
    BY <1>3
  <2> QED BY <1>1, <1>2, <2>1 DEF Cut
<1>7. PICK g \in Nat, bs \in Nat : g = GroupOf(d, n, q) /\ bs = BlockSize(d, n)
  BY <1>6, BlockSizeIsPositive
<1>8. g * bs \in Nat /\ r * size \in Nat /\ Start(d, n) \in Nat
  BY DiskAssumption DEF Reads, Start
<1>9. InodeAt(hd, q, r) = PartitionRead(n, g * bs + r * size, size)[1]
  BY <1>1, <1>6, <1>7 DEF InodeAt
<1>10. PartitionRead(n, g * bs + r * size, size)[1] = d[Start(d, n) + (g * bs + r * size) + (1 - 1)]
  <2>1. 1 \in 1 .. size /\ g * bs + r * size \in Nat
    BY <1>1, <1>8
  <2> QED BY <2>1, PartitionReadsItsCells
<1>11. Start(d, n) + (g * bs + r * size) + (1 - 1) = Start(d, n) + g * bs + r * size
  BY <1>8
<1>12. InodeOf(d, n, i) = d[Start(d, n) + g * bs + r * size]
  <2>1. (i - 1) \div per = q /\ (i - 1) % per = r
    BY <1>2 DEF Cut
  <2> QED BY <1>1, <1>7, <2>1, Zenon DEF InodeOf, CellOf
<1> QED BY <1>5, <1>9, <1>10, <1>11, <1>12

(* The number 0 of an unused entry wraps around to a group beyond the      *)
(* last: what is taken for its inode is whatever memory held.              *)
LEMMA NoInodeIsJunk ==
    ASSUME NEW d, NEW n, NEW hd, Knows(hd, d, n), HasGroups(Super(d, n)), NEW junk
    PROVE  ext2_read_inode(hd, 0, junk) = junk
<1>1. PICK per \in Nat, groups \in Nat :
        /\ per = hd.sb.s_inodes_per_group /\ groups = hd.groups /\ per > 0 /\ groups * per < Width
  BY DEF Knows, HasGroups
<1>2. Width \in Nat /\ Width > 0
  BY VolumesAssumption
<1>3. (0 - 1) % Width = Width - 1
  <2>1. Width - 1 \in Nat /\ Width - 1 < Width
    BY <1>2
  <2>2. Cut((-1) * Width + (Width - 1), Width, -1, Width - 1)
    BY <1>2, <2>1, CutUnique
  <2>3. (-1) * Width + (Width - 1) = 0 - 1
    BY <1>2
  <2> QED BY <2>2, <2>3 DEF Cut
<1>4. PICK q \in Nat, r \in Nat : Cut(Width - 1, per, q, r) /\ Width - 1 = q * per + r /\ r < per
  <2>1. Width - 1 \in Nat
    BY <1>2
  <2> QED BY <1>1, <2>1, DivMod
<1>5. q >= groups
  <2> SUFFICES ASSUME q + 1 <= groups PROVE FALSE
    OBVIOUS
  <2>1. (q + 1) * per <= groups * per /\ (q + 1) * per = q * per + per /\ q * per \in Nat
        /\ groups * per \in Nat
    BY TimesLess
  <2> QED BY <1>1, <1>2, <1>4, <2>1
<1>6. (Width - 1) \div per = q
  BY <1>4 DEF Cut
<1> QED BY <1>1, <1>3, <1>5, <1>6, Zenon DEF ext2_read_inode

(* What the lemmas below say of one mounted partition.                     *)
Mounts(hd, d, n) == Reads(d, n) /\ Knows(hd, d, n) /\ HasGroups(Super(d, n))

(* A block is read from the partition as it is on the disk.                *)
LEMMA BlockIsRead ==
    ASSUME NEW d, NEW n, NEW hd, Mounts(hd, d, n), NEW b \in Nat
    PROVE  Block(hd, b) = [c \in 1 .. BlockSize(d, n) |-> CellOf(d, n, b, c - 1)]
<1>1. PICK bs \in Nat : bs = BlockSize(d, n) /\ hd.blocksize = bs /\ hd.dev = n
  BY BlockSizeIsPositive DEF Mounts, Knows
<1>2. b * bs \in Nat /\ Start(d, n) \in Nat
  BY DiskAssumption DEF Mounts, Reads, Start
<1>3. Block(hd, b) = [i \in 1 .. bs |-> d[Start(d, n) + b * bs + (i - 1)]]
  <2>1. Block(hd, b) = PartitionRead(n, b * bs, bs)
    BY <1>1 DEF Block
  <2>2. Reads(d, n)
    BY DEF Mounts
  <2>3. PICK pos \in Nat : pos = b * bs
    BY <1>2
  <2>4. \A i \in 1 .. bs : PartitionRead(n, pos, bs)[i] = d[Start(d, n) + pos + (i - 1)]
    BY <2>2, PartitionReadsItsCells
  <2>5. PartitionRead(n, pos, bs) = [i \in 1 .. bs |-> PartitionRead(n, pos, bs)[i]]
    BY DEF PartitionRead, IdeRead
  <2> QED BY <2>1, <2>3, <2>4, <2>5
<1> QED BY <1>1, <1>3 DEF CellOf

(* The numbers read one level, two and three levels below the block b.     *)
Numbers1(d, n, b) == [k \in 0 .. BlockSize(d, n) - 1 |-> Number1(d, n, b, k)]
Numbers2(d, n, b) ==
    [k \in 0 .. BlockSize(d, n) * BlockSize(d, n) - 1 |-> Number2(d, n, b, k)]
Numbers3(d, n, b) ==
    [k \in 0 .. BlockSize(d, n) * BlockSize(d, n) * BlockSize(d, n) - 1 |-> Number3(d, n, b, k)]

Sound1(d, n, b) ==
    b \in Nat /\ \A k \in 0 .. BlockSize(d, n) - 1 : Number1(d, n, b, k) \in Nat
Sound2(d, n, b) ==
    /\ Sound1(d, n, b)
    /\ \A k \in 0 .. BlockSize(d, n) * BlockSize(d, n) - 1 : Number2(d, n, b, k) \in Nat
Sound3(d, n, b) ==
    /\ Sound2(d, n, b)
    /\ \A k \in 0 .. BlockSize(d, n) * BlockSize(d, n) * BlockSize(d, n) - 1 :
         Number3(d, n, b, k) \in Nat

(* The numbers in a block of numbers are listed up to the first hole.      *)
LEMMA SingleStops ==
    ASSUME NEW d, NEW n, NEW hd, Mounts(hd, d, n), NEW b, Sound1(d, n, b)
    PROVE  Stops(Single(hd, b), Numbers1(d, n, b), BlockSize(d, n))
<1>1. PICK bs \in Nat : bs = BlockSize(d, n) /\ bs > 0
  BY BlockSizeIsPositive DEF Mounts
<1>2. b \in Nat /\ \A k \in 0 .. bs - 1 : Number1(d, n, b, k) \in Nat
  BY <1>1 DEF Sound1
<1>3. PICK f : f = Numbers1(d, n, b)
  OBVIOUS
<1>4. \A k \in 0 .. bs - 1 : f[k] = Number1(d, n, b, k)
  BY <1>1, <1>3 DEF Numbers1
<1>5. CASE b = 0
  <2>1. Single(hd, b) = <<>>
    BY <1>5 DEF Single
  <2>2. f[0] = 0
    <3>1. 0 \in 0 .. bs - 1
      BY <1>1
    <3> QED BY <1>4, <1>5, <3>1 DEF Number1
  <2>3. Stops(<<>>, f, bs)
    BY <2>2 DEF Stops
  <2> QED BY <1>1, <1>3, <2>1, <2>3
<1>6. CASE b # 0
  <2>1. PICK p : p = [c \in 1 .. bs |-> CellOf(d, n, b, c - 1)]
    OBVIOUS
  <2>2. Single(hd, b) = UpToZero(p)
    <3>1. Block(hd, b) = p
      BY <1>1, <1>2, <2>1, BlockIsRead
    <3> QED BY <1>6, <3>1 DEF Single
  <2>3. ASSUME NEW k \in 0 .. bs - 1 PROVE p[k + 1] = f[k] /\ f[k] \in Nat
    <3>1. k + 1 \in 1 .. bs /\ (k + 1) - 1 = k
      OBVIOUS
    <3>2. f[k] = CellOf(d, n, b, k) /\ f[k] \in Nat
      BY <1>2, <1>4, <1>6, Zenon DEF Number1
    <3> QED BY <2>1, <3>1, <3>2
  <2>4. p \in Seq(Nat) /\ Len(p) = bs
    <3>1. ASSUME NEW c \in 1 .. bs PROVE p[c] \in Nat
      <4>1. c - 1 \in 0 .. bs - 1 /\ (c - 1) + 1 = c
        OBVIOUS
      <4> QED BY <2>3, <4>1
    <3> QED BY <2>1, <3>1
  <2>5. Stops(UpToZero(p), f, bs)
    <3>1. \A k \in 0 .. Len(p) - 1 : f[k] = p[k + 1]
      BY <2>3, <2>4
    <3> QED BY <2>4, <3>1, WalkStops
  <2> QED BY <1>1, <1>3, <2>2, <2>5
<1> QED BY <1>5, <1>6

(* The same, as the first of three levels.                                 *)
LEMMA SingleFollows ==
    ASSUME NEW d, NEW n, NEW hd, Mounts(hd, d, n), NEW b, Sound1(d, n, b)
    PROVE  Follows(Single(hd, b), Numbers1(d, n, b), BlockSize(d, n))
<1>1. BlockSize(d, n) \in Nat
  BY BlockSizeIsPositive DEF Mounts
<1> QED BY <1>1, SingleStops, StopsFollows

(* Place c of the q-th of a number of lists of m members.                  *)
LEMMA PlaceOf ==
    ASSUME NEW q \in Nat, NEW m \in Nat, NEW c \in Nat, NEW N \in Nat, c < m, q < N
    PROVE  /\ q * m + c \in 0 .. N * m - 1
           /\ (q * m + c) \div m = q /\ (q * m + c) % m = c
<1>1. (q + 1) * m <= N * m /\ (q + 1) * m = q * m + m /\ q * m \in Nat /\ N * m \in Nat
  BY TimesLess
<1>2. Cut(q * m + c, m, q, c)
  BY CutUnique
<1> QED BY <1>1, <1>2 DEF Cut

(* Through two levels of blocks of numbers: the blocks of numbers up to    *)
(* the first hole, and the numbers of each.                                *)
LEMMA DoubleFollows ==
    ASSUME NEW d, NEW n, NEW hd, Mounts(hd, d, n), NEW b, Sound2(d, n, b)
    PROVE  Follows(Double(hd, b), Numbers2(d, n, b), BlockSize(d, n) * BlockSize(d, n))
<1>1. PICK bs \in Nat : bs = BlockSize(d, n) /\ bs > 0
  BY BlockSizeIsPositive DEF Mounts
<1>2. PICK p, f, g : p = Single(hd, b) /\ f = Numbers1(d, n, b) /\ g = Numbers2(d, n, b)
  OBVIOUS
<1>3. Stops(p, f, bs)
  BY <1>1, <1>2, SingleStops DEF Sound2
<1>4. PICK L \in Nat : L = Len(p) /\ L <= bs /\ DOMAIN p = 1 .. L
  BY <1>3 DEF Stops
<1>5. ASSUME NEW q \in 0 .. bs - 1, NEW c \in 0 .. bs - 1
      PROVE  g[q * bs + c] = Number1(d, n, f[q], c) /\ g[q * bs + c] \in Nat
  <2>1. /\ q * bs + c \in 0 .. bs * bs - 1
        /\ (q * bs + c) \div bs = q /\ (q * bs + c) % bs = c
    BY PlaceOf
  <2>2. g[q * bs + c] = Number2(d, n, b, q * bs + c) /\ Number2(d, n, b, q * bs + c) \in Nat
    BY <1>1, <1>2, <2>1 DEF Numbers2, Sound2
  <2>3. f[q] = Number1(d, n, b, q)
    BY <1>1, <1>2 DEF Numbers1
  <2>4. Number2(d, n, b, q * bs + c) = Number1(d, n, Number1(d, n, b, q), c)
    BY <1>1, <2>1, Zenon DEF Number2
  <2> QED BY <2>2, <2>3, <2>4
<1> DEFINE seqs == [i \in DOMAIN p |-> Single(hd, p[i])]
<1>6. ASSUME NEW i \in 1 .. L
      PROVE  Follows(seqs[i], [k \in 0 .. bs - 1 |-> g[(i - 1) * bs + k]], bs)
  <2>1. i - 1 \in 0 .. bs - 1 /\ p[i] = f[i - 1] /\ p[i] \in Nat
    BY <1>3, <1>4 DEF Stops
  <2>2. \A k \in 0 .. bs - 1 : g[(i - 1) * bs + k] = Number1(d, n, p[i], k)
                               /\ Number1(d, n, p[i], k) \in Nat
    BY <1>5, <2>1
  <2>3. Follows(Single(hd, p[i]), Numbers1(d, n, p[i]), bs)
    BY <1>1, <2>1, <2>2, SingleFollows DEF Sound1
  <2>4. Numbers1(d, n, p[i]) = [k \in 0 .. bs - 1 |-> g[(i - 1) * bs + k]]
    BY <1>1, <2>2 DEF Numbers1
  <2> QED BY <1>4, <2>3, <2>4
<1>7. L < bs => g[L * bs] = 0
  <2> SUFFICES ASSUME L < bs PROVE g[L * bs] = 0
    OBVIOUS
  <2>1. f[L] = 0 /\ L \in 0 .. bs - 1 /\ 0 \in 0 .. bs - 1 /\ L * bs + 0 = L * bs
    BY <1>1, <1>3, <1>4 DEF Stops
  <2>2. g[L * bs + 0] = Number1(d, n, f[L], 0)
    BY <1>5, <2>1
  <2> QED BY <2>1, <2>2 DEF Number1
<1>8. seqs \in Seq(Seq(Nat)) /\ Len(seqs) = L
  <2>1. \A i \in 1 .. L : seqs[i] \in Seq(Nat)
    BY <1>6 DEF Follows
  <2>2. seqs = [i \in 1 .. L |-> seqs[i]]
    BY <1>4
  <2> HIDE DEF seqs
  <2> QED BY <2>1, <2>2
<1>9. Follows(FlattenSeq(seqs), g, bs * bs)
  <2> HIDE DEF seqs
  <2> QED BY <1>1, <1>4, <1>6, <1>7, <1>8, FlattenFollows
<1> QED BY <1>1, <1>2, <1>9 DEF Double

(* Through three levels.                                                   *)
LEMMA TripleFollows ==
    ASSUME NEW d, NEW n, NEW hd, Mounts(hd, d, n), NEW b, Sound3(d, n, b)
    PROVE  Follows(Triple(hd, b), Numbers3(d, n, b),
                   BlockSize(d, n) * BlockSize(d, n) * BlockSize(d, n))
<1>1. PICK bs \in Nat, m \in Nat : bs = BlockSize(d, n) /\ bs > 0 /\ m = bs * bs /\ m > 0
                                   /\ bs * bs * bs = bs * m /\ bs * m \in Nat
  <2>1. PICK bs \in Nat : bs = BlockSize(d, n) /\ bs > 0
    BY BlockSizeIsPositive DEF Mounts
  <2>2. 1 * bs <= bs * bs /\ bs * bs \in Nat /\ 1 * bs = bs
    BY <2>1, TimesLess
  <2>3. bs * bs > 0
    BY <2>1, <2>2
  <2>4. bs * bs * bs = bs * (bs * bs)
    BY <2>1
  <2>5. bs * (bs * bs) \in Nat
    BY <2>2
  <2> QED BY <2>1, <2>2, <2>3, <2>4, <2>5
<1>2. PICK p, f, g : p = Single(hd, b) /\ f = Numbers1(d, n, b) /\ g = Numbers3(d, n, b)
  OBVIOUS
<1>3. Stops(p, f, bs)
  BY <1>1, <1>2, SingleStops DEF Sound2, Sound3
<1>4. PICK L \in Nat : L = Len(p) /\ L <= bs /\ DOMAIN p = 1 .. L
  BY <1>3 DEF Stops
<1>5. ASSUME NEW q \in 0 .. bs - 1, NEW c \in 0 .. m - 1
      PROVE  g[q * m + c] = Number2(d, n, f[q], c) /\ g[q * m + c] \in Nat
  <2>1. /\ q * m + c \in 0 .. bs * m - 1
        /\ (q * m + c) \div m = q /\ (q * m + c) % m = c
    BY PlaceOf
  <2>2. g[q * m + c] = Number3(d, n, b, q * m + c) /\ Number3(d, n, b, q * m + c) \in Nat
    BY <1>1, <1>2, <2>1 DEF Numbers3, Sound3
  <2>3. f[q] = Number1(d, n, b, q)
    BY <1>1, <1>2 DEF Numbers1
  <2>4. Number3(d, n, b, q * m + c) = Number2(d, n, Number1(d, n, b, q), c)
    BY <1>1, <2>1, Zenon DEF Number3
  <2> QED BY <2>2, <2>3, <2>4
<1>6. ASSUME NEW q \in 0 .. bs - 1, NEW c \in 0 .. bs - 1
      PROVE  Number1(d, n, f[q], c) \in Nat
  <2>1. /\ q * bs + c \in 0 .. bs * bs - 1
        /\ (q * bs + c) \div bs = q /\ (q * bs + c) % bs = c
    BY PlaceOf
  <2>2. Number2(d, n, b, q * bs + c) \in Nat
    BY <1>1, <2>1 DEF Sound2, Sound3
  <2>3. f[q] = Number1(d, n, b, q)
    BY <1>1, <1>2 DEF Numbers1
  <2>4. Number2(d, n, b, q * bs + c) = Number1(d, n, Number1(d, n, b, q), c)
    BY <1>1, <2>1, Zenon DEF Number2
  <2> QED BY <2>2, <2>3, <2>4
<1> DEFINE seqs == [i \in DOMAIN p |-> Double(hd, p[i])]
<1>7. ASSUME NEW i \in 1 .. L
      PROVE  Follows(seqs[i], [k \in 0 .. m - 1 |-> g[(i - 1) * m + k]], m)
  <2>1. i - 1 \in 0 .. bs - 1 /\ p[i] = f[i - 1] /\ p[i] \in Nat
    BY <1>3, <1>4 DEF Stops
  <2>2. \A k \in 0 .. m - 1 : g[(i - 1) * m + k] = Number2(d, n, p[i], k)
                              /\ Number2(d, n, p[i], k) \in Nat
    BY <1>5, <2>1
  <2>3. \A k \in 0 .. bs - 1 : Number1(d, n, p[i], k) \in Nat
    BY <1>6, <2>1
  <2>4. Sound2(d, n, p[i])
    BY <1>1, <2>1, <2>2, <2>3 DEF Sound1, Sound2
  <2>5. Follows(Double(hd, p[i]), Numbers2(d, n, p[i]), m)
    BY <1>1, <2>4, DoubleFollows
  <2>6. Numbers2(d, n, p[i]) = [k \in 0 .. m - 1 |-> g[(i - 1) * m + k]]
    BY <1>1, <2>2 DEF Numbers2
  <2> QED BY <1>4, <2>5, <2>6
<1>8. L < bs => g[L * m] = 0
  <2> SUFFICES ASSUME L < bs PROVE g[L * m] = 0
    OBVIOUS
  <2>1. f[L] = 0 /\ L \in 0 .. bs - 1 /\ 0 \in 0 .. m - 1 /\ L * m + 0 = L * m
    <3>1. L * m \in Nat
      OBVIOUS
    <3>2. f[L] = 0
      BY <1>3, <1>4 DEF Stops
    <3> QED BY <1>1, <3>1, <3>2
  <2>2. g[L * m + 0] = Number2(d, n, f[L], 0)
    BY <1>5, <2>1
  <2>3. Number2(d, n, 0, 0) = 0
    <3>1. Number1(d, n, 0, 0 \div bs) = 0
      BY DEF Number1
    <3>2. Number1(d, n, 0, 0 % bs) = 0
      BY DEF Number1
    <3> QED BY <1>1, <3>1, <3>2, Zenon DEF Number2
  <2> QED BY <2>1, <2>2, <2>3
<1>9. seqs \in Seq(Seq(Nat)) /\ Len(seqs) = L
  <2>1. \A i \in 1 .. L : seqs[i] \in Seq(Nat)
    BY <1>7 DEF Follows
  <2>2. seqs = [i \in 1 .. L |-> seqs[i]]
    BY <1>4
  <2> HIDE DEF seqs
  <2> QED BY <2>1, <2>2
<1>10. Follows(FlattenSeq(seqs), g, bs * m)
  <2> HIDE DEF seqs
  <2> QED BY <1>1, <1>4, <1>7, <1>8, <1>9, FlattenFollows
<1> QED BY <1>1, <1>2, <1>10 DEF Triple

(* The four ways to the number of a block, by where it is in the file.     *)
Placed(d, n, inode, b1, b2, b3, bs, m, t) ==
    /\ \A k \in 0 .. NDIRECT - 1 : BlockOf(d, n, inode, k) = inode.i_block[k + 1]
    /\ \A k \in 0 .. bs - 1 : BlockOf(d, n, inode, NDIRECT + k) = Number1(d, n, b1, k)
    /\ \A k \in 0 .. m - 1 : BlockOf(d, n, inode, NDIRECT + bs + k) = Number2(d, n, b2, k)
    /\ \A k \in 0 .. t - 1 : BlockOf(d, n, inode, NDIRECT + bs + m + k) = Number3(d, n, b3, k)
    /\ \A k \in Nat : k >= NDIRECT + bs + m + t => BlockOf(d, n, inode, k) = 0

(* BlockOf is one of the four, with the places counted from its first.     *)
LEMMA BlockPlaces ==
    ASSUME NEW d, NEW n, NEW inode, NEW bs \in Nat, NEW m \in Nat, NEW t \in Nat,
           bs = BlockSize(d, n), m = bs * bs, t = bs * bs * bs,
           NEW b1, NEW b2, NEW b3, b1 = inode.i_block[NDIRECT + 1],
           b2 = inode.i_block[NDIRECT + 2], b3 = inode.i_block[NDIRECT + 3]
    PROVE  Placed(d, n, inode, b1, b2, b3, bs, m, t)
<1> DEFINE F1(k) == Number1(d, n, b1, k)
           F2(k) == Number2(d, n, b2, k)
           F3(k) == Number3(d, n, b3, k)
           double == NDIRECT + bs
           triple == double + m
           end == triple + t
<1>1. NDIRECT \in Nat /\ double \in Nat /\ triple \in Nat /\ end \in Nat
      /\ NDIRECT <= double /\ double <= triple /\ triple <= end
  BY VolumesAssumption
<1>2. ASSUME NEW k \in Nat
      PROVE  BlockOf(d, n, inode, k) =
               CASE k < NDIRECT -> inode.i_block[k + 1]
                 [] NDIRECT <= k /\ k < double -> F1(k - NDIRECT)
                 [] double <= k /\ k < triple -> F2(k - double)
                 [] triple <= k /\ k < end -> F3(k - triple)
                 [] OTHER -> 0
  BY DEF BlockOf
<1> HIDE DEF F1, F2, F3, double, triple, end
<1>3. ASSUME NEW k \in 0 .. NDIRECT - 1 PROVE BlockOf(d, n, inode, k) = inode.i_block[k + 1]
  <2>1. k \in Nat /\ k < NDIRECT /\ ~(NDIRECT <= k) /\ ~(double <= k) /\ ~(triple <= k)
    BY <1>1
  <2> QED BY <1>2, <2>1
<1>4. ASSUME NEW k \in 0 .. bs - 1 PROVE BlockOf(d, n, inode, NDIRECT + k) = F1(k)
  <2>1. PICK x \in Nat : x = NDIRECT + k /\ x - NDIRECT = k
    BY <1>1
  <2>2. ~(x < NDIRECT) /\ NDIRECT <= x /\ x < double /\ ~(double <= x) /\ ~(triple <= x)
    BY <1>1, <2>1 DEF double
  <2> QED BY <1>2, <2>1, <2>2
<1>5. ASSUME NEW k \in 0 .. m - 1 PROVE BlockOf(d, n, inode, double + k) = F2(k)
  <2>1. PICK x \in Nat : x = double + k /\ x - double = k
    BY <1>1
  <2>2. ~(x < NDIRECT) /\ ~(x < double) /\ double <= x /\ x < triple /\ ~(triple <= x)
    BY <1>1, <2>1 DEF triple
  <2> QED BY <1>2, <2>1, <2>2
<1>6. ASSUME NEW k \in 0 .. t - 1 PROVE BlockOf(d, n, inode, triple + k) = F3(k)
  <2>1. PICK x \in Nat : x = triple + k /\ x - triple = k
    BY <1>1
  <2>2. ~(x < NDIRECT) /\ ~(x < double) /\ ~(x < triple) /\ triple <= x /\ x < end
    BY <1>1, <2>1 DEF end
  <2> QED BY <1>2, <2>1, <2>2
<1>7. ASSUME NEW k \in Nat, k >= end PROVE BlockOf(d, n, inode, k) = 0
  <2>1. ~(k < NDIRECT) /\ ~(k < double) /\ ~(k < triple) /\ ~(k < end)
    BY <1>1, <1>7
  <2> QED BY <1>2, <2>1
<1> QED BY <1>3, <1>4, <1>5, <1>6, <1>7 DEF F1, F2, F3, double, triple, end, Placed

(* How many blocks a file can have.                                        *)
MostBlocks(d, n) ==
    NDIRECT + BlockSize(d, n) + BlockSize(d, n) * BlockSize(d, n)
        + BlockSize(d, n) * BlockSize(d, n) * BlockSize(d, n)

(* The blocks the code reads one after the other are those of the file, up *)
(* to its first hole.                                                      *)
THEOREM FileBlocksFollow ==
    ASSUME NEW d, NEW n, NEW hd, Mounts(hd, d, n), NEW inode, HasNumbers(d, n, inode)
    PROVE  Follows(FileBlocks(hd, inode),
                   [k \in 0 .. MostBlocks(d, n) - 1 |-> BlockOf(d, n, inode, k)],
                   MostBlocks(d, n))
<1>1. PICK bs \in Nat : bs = BlockSize(d, n) /\ bs > 0
  BY BlockSizeIsPositive DEF Mounts
<1>2. PICK m \in Nat : m = bs * bs
  BY <1>1
<1>3. PICK t \in Nat : t = bs * bs * bs
  BY <1>1, <1>2
<1>4. PICK b1, b2, b3 : b1 = inode.i_block[NDIRECT + 1] /\ b2 = inode.i_block[NDIRECT + 2]
                        /\ b3 = inode.i_block[NDIRECT + 3]
  OBVIOUS
<1>5. NDIRECT \in Nat /\ inode.i_block \in [1 .. NDIRECT + 3 -> Nat]
  BY VolumesAssumption DEF HasNumbers
<1>6. Sound1(d, n, b1) /\ Sound2(d, n, b2) /\ Sound3(d, n, b3)
  <2>1. b1 \in Nat /\ b2 \in Nat /\ b3 \in Nat
    <3>1. NDIRECT + 1 \in 1 .. NDIRECT + 3 /\ NDIRECT + 2 \in 1 .. NDIRECT + 3
          /\ NDIRECT + 3 \in 1 .. NDIRECT + 3
      BY <1>5
    <3> QED BY <1>4, <1>5, <3>1
  <2>2. \A k \in 0 .. BlockSize(d, n) - 1 : Number1(d, n, b1, k) \in Nat
          /\ Number1(d, n, b2, k) \in Nat /\ Number1(d, n, b3, k) \in Nat
    <3>1. 1 \in 1 .. 3 /\ 2 \in 1 .. 3 /\ 3 \in 1 .. 3
      OBVIOUS
    <3> QED BY <1>4, <3>1, Zenon DEF HasNumbers
  <2>3. \A k \in 0 .. BlockSize(d, n) * BlockSize(d, n) - 1 : Number2(d, n, b2, k) \in Nat
          /\ Number2(d, n, b3, k) \in Nat
    <3>1. 2 \in 2 .. 3 /\ 3 \in 2 .. 3
      OBVIOUS
    <3> QED BY <1>4, <3>1, Zenon DEF HasNumbers
  <2>4. \A k \in 0 .. BlockSize(d, n) * BlockSize(d, n) * BlockSize(d, n) - 1 :
          Number3(d, n, b3, k) \in Nat
    BY <1>4, Zenon DEF HasNumbers
  <2> QED BY <2>1, <2>2, <2>3, <2>4, Zenon DEF Sound1, Sound2, Sound3
<1> DEFINE f == [k \in 0 .. MostBlocks(d, n) - 1 |-> BlockOf(d, n, inode, k)]
           f0 == [k \in 0 .. NDIRECT - 1 |-> inode.i_block[k + 1]]
           direct == UpToZero(SubSeq(inode.i_block, 1, NDIRECT))
<1>7. MostBlocks(d, n) = NDIRECT + bs + m + t
  BY <1>1, <1>2, <1>3 DEF MostBlocks
<1>8. /\ \A k \in 0 .. NDIRECT - 1 : f[k] = f0[k]
      /\ \A k \in 0 .. bs - 1 : f[NDIRECT + k] = Numbers1(d, n, b1)[k]
      /\ \A k \in 0 .. m - 1 : f[(NDIRECT + bs) + k] = Numbers2(d, n, b2)[k]
      /\ \A k \in 0 .. t - 1 : f[(NDIRECT + bs + m) + k] = Numbers3(d, n, b3)[k]
  <2>1. \A k \in 0 .. NDIRECT + bs + m + t - 1 : f[k] = BlockOf(d, n, inode, k)
    <3>1. \A k \in 0 .. MostBlocks(d, n) - 1 : f[k] = BlockOf(d, n, inode, k)
      OBVIOUS
    <3> HIDE DEF f
    <3> QED BY <1>5, <1>7, <3>1
  <2>2. /\ \A k \in 0 .. NDIRECT - 1 : BlockOf(d, n, inode, k) = inode.i_block[k + 1]
        /\ \A k \in 0 .. bs - 1 : BlockOf(d, n, inode, NDIRECT + k) = Number1(d, n, b1, k)
        /\ \A k \in 0 .. m - 1 : BlockOf(d, n, inode, NDIRECT + bs + k) = Number2(d, n, b2, k)
        /\ \A k \in 0 .. t - 1 :
             BlockOf(d, n, inode, NDIRECT + bs + m + k) = Number3(d, n, b3, k)
    <3>1. Placed(d, n, inode, b1, b2, b3, bs, m, t)
      BY <1>1, <1>2, <1>3, <1>4, BlockPlaces
    <3> QED BY <3>1, Zenon DEF Placed
  <2>3. /\ \A k \in 0 .. bs - 1 : Numbers1(d, n, b1)[k] = Number1(d, n, b1, k)
        /\ \A k \in 0 .. m - 1 : Numbers2(d, n, b2)[k] = Number2(d, n, b2, k)
        /\ \A k \in 0 .. t - 1 : Numbers3(d, n, b3)[k] = Number3(d, n, b3, k)
    BY <1>1, <1>2, <1>3, Zenon DEF Numbers1, Numbers2, Numbers3
  <2> HIDE DEF f
  <2>4. \A k \in 0 .. NDIRECT - 1 : f[k] = f0[k]
    <3>1. \A k \in 0 .. NDIRECT - 1 : k \in 0 .. NDIRECT + bs + m + t - 1
      BY <1>5
    <3> QED BY <2>1, <2>2, <3>1
  <2>5. \A k \in 0 .. bs - 1 : f[NDIRECT + k] = Numbers1(d, n, b1)[k]
    <3>1. \A k \in 0 .. bs - 1 : NDIRECT + k \in 0 .. NDIRECT + bs + m + t - 1
      BY <1>5
    <3> QED BY <2>1, <2>2, <2>3, <3>1
  <2>6. \A k \in 0 .. m - 1 : f[(NDIRECT + bs) + k] = Numbers2(d, n, b2)[k]
    <3>1. \A k \in 0 .. m - 1 : NDIRECT + bs + k \in 0 .. NDIRECT + bs + m + t - 1
      BY <1>5
    <3> QED BY <2>1, <2>2, <2>3, <3>1
  <2>7. \A k \in 0 .. t - 1 : f[(NDIRECT + bs + m) + k] = Numbers3(d, n, b3)[k]
    <3>1. \A k \in 0 .. t - 1 : NDIRECT + bs + m + k \in 0 .. NDIRECT + bs + m + t - 1
      BY <1>5
    <3> QED BY <2>1, <2>2, <2>3, <3>1
  <2> QED BY <2>4, <2>5, <2>6, <2>7
<1>9. Follows(direct, f0, NDIRECT)
  <2>1. PICK p : p = SubSeq(inode.i_block, 1, NDIRECT)
    OBVIOUS
  <2>2. p \in Seq(Nat) /\ Len(p) = NDIRECT /\ \A k \in 1 .. NDIRECT : p[k] = inode.i_block[k]
    <3>1. inode.i_block \in Seq(Nat) /\ Len(inode.i_block) = NDIRECT + 3
      BY <1>5
    <3> QED BY <1>5, <2>1, <3>1
  <2>3. \A k \in 0 .. Len(p) - 1 : f0[k] = p[k + 1]
    BY <1>5, <2>2
  <2>4. Stops(UpToZero(p), f0, NDIRECT)
    <3> HIDE DEF f0
    <3> QED BY <2>2, <2>3, WalkStops
  <2> HIDE DEF f0
  <2> QED BY <1>5, <2>1, <2>4, StopsFollows
<1> HIDE DEF f, f0, direct
<1>10. Follows(direct \o Single(hd, b1), f, NDIRECT + bs)
  <2>1. Follows(Single(hd, b1), Numbers1(d, n, b1), bs)
    BY <1>1, <1>6, SingleFollows
  <2>2. \A k \in 0 .. bs - 1 : f[NDIRECT + k] = Numbers1(d, n, b1)[k]
    BY <1>8
  <2>3. \A k \in 0 .. NDIRECT - 1 : f[k] = f0[k]
    BY <1>8
  <2> QED BY <1>5, <1>9, <2>1, <2>2, <2>3, FollowsConcat
<1>11. Follows((direct \o Single(hd, b1)) \o Double(hd, b2), f, NDIRECT + bs + m)
  <2>1. Follows(Double(hd, b2), Numbers2(d, n, b2), m)
    BY <1>1, <1>2, <1>6, DoubleFollows
  <2>2. \A k \in 0 .. m - 1 : f[(NDIRECT + bs) + k] = Numbers2(d, n, b2)[k]
    BY <1>8
  <2>3. NDIRECT + bs \in Nat
    BY <1>5
  <2> QED BY <1>10, <2>1, <2>2, <2>3, FollowsConcat
<1>12. Follows(((direct \o Single(hd, b1)) \o Double(hd, b2)) \o Triple(hd, b3), f,
               NDIRECT + bs + m + t)
  <2>1. Follows(Triple(hd, b3), Numbers3(d, n, b3), t)
    BY <1>1, <1>3, <1>6, TripleFollows
  <2>2. \A k \in 0 .. t - 1 : f[(NDIRECT + bs + m) + k] = Numbers3(d, n, b3)[k]
    BY <1>8
  <2>3. NDIRECT + bs + m \in Nat
    BY <1>5
  <2> QED BY <1>11, <2>1, <2>2, <2>3, FollowsConcat
<1> QED BY <1>4, <1>7, <1>12 DEF FileBlocks, f, direct

(* A copy of a file in memory.                                             *)
Copied(map, file) ==
    /\ DOMAIN map = 1 .. Len(file.content)
    /\ \A i \in 1 .. file.whole : map[i] = file.content[i]

(* A function on 1 .. n is a sequence of length n.                         *)
LEMMA FunctionIsSeq ==
    ASSUME NEW n \in Nat, NEW T, NEW g \in [1 .. n -> T]
    PROVE  g \in Seq(T) /\ Len(g) = n
<1>1. g = [y \in 1 .. n |-> g[y]] /\ \A y \in 1 .. n : g[y] \in T
  OBVIOUS
<1> QED BY <1>1

(* The copy that ext2_read_file makes, up to the first hole.               *)
THEOREM FileIsCopied ==
    ASSUME NEW d, NEW n, NEW hd, Mounts(hd, d, n), NEW inode, NEW file,
           HoldsFile(d, n, inode, file), Len(file.content) \in Nat,
           file.whole \in 0 .. Len(file.content)
    PROVE  Copied(ext2_read_file(hd, inode), file)
<1>1. PICK bs \in Nat : bs = BlockSize(d, n) /\ bs > 0
  BY BlockSizeIsPositive DEF Mounts
<1>2. PICK size \in Nat, whole \in Nat :
        size = Len(file.content) /\ whole = file.whole /\ inode.i_size = size /\ whole <= size
  BY DEF HoldsFile
<1> DEFINE blocks == FileBlocks(hd, inode)
           seqs == [i \in DOMAIN blocks |-> Block(hd, blocks[i])]
           base == FlattenSeq(seqs)
<1>3. ext2_read_file(hd, inode) = [i \in 1 .. size |-> IF i <= Len(base) THEN base[i] ELSE JUNK]
  BY <1>2 DEF ext2_read_file
<1>4. ASSUME NEW i \in 1 .. whole PROVE i <= Len(base) /\ base[i] = file.content[i]
  <2>1. PICK k \in 0 .. whole - 1 : i = k + 1
    <3>1. i - 1 \in 0 .. whole - 1 /\ i = (i - 1) + 1
      BY <1>2
    <3> QED BY <3>1
  <2>2. PICK q \in Nat, c \in Nat : Cut(k, bs, q, c) /\ k = q * bs + c /\ c < bs
    <3>1. k \in Nat
      BY <2>1
    <3> QED BY <1>1, <3>1, DivMod
  <2>3. HasNumbers(d, n, inode)
    <3>1. file.whole > 0
      BY <1>2
    <3> QED BY <3>1 DEF HoldsFile
  <2>4. ASSUME NEW j \in 0 .. q PROVE BlockOf(d, n, inode, j) # 0
    <3>1. j * bs \in Nat /\ j * bs <= q * bs /\ q * bs \in Nat
      BY TimesLess
    <3>2. PICK x \in 0 .. file.whole - 1 : x = j * bs + 0
      BY <1>2, <2>1, <2>2, <3>1
    <3>3. x \div bs = j
      <4>1. Cut(j * bs + 0, bs, j, 0)
        BY <1>1, CutUnique
      <4> QED BY <3>2, <4>1 DEF Cut
    <3>4. BlockOf(d, n, inode, x \div bs) # 0
      BY <1>1, <3>2, Zenon DEF HoldsFile
    <3> QED BY <3>3, <3>4
  <2>5. PICK end \in Nat : end = MostBlocks(d, n)
    <3>1. PICK m \in Nat : m = bs * bs
      BY <1>1
    <3>2. PICK t \in Nat : t = bs * bs * bs
      BY <1>1, <3>1
    <3>3. NDIRECT + bs + m + t \in Nat
      BY VolumesAssumption
    <3> QED BY <1>1, <3>1, <3>2, <3>3 DEF MostBlocks
  <2>6. q < end
    <3> SUFFICES ASSUME end <= q PROVE FALSE
      BY <2>5
    <3>1. PICK m \in Nat : m = bs * bs
      BY <1>1
    <3>2. PICK t \in Nat : t = bs * bs * bs
      BY <1>1, <3>1
    <3>3. q >= NDIRECT + bs + m + t
      BY <1>1, <2>5, <3>1, <3>2 DEF MostBlocks
    <3>4. BlockOf(d, n, inode, q) = 0
      <4>1. PICK b1, b2, b3 : b1 = inode.i_block[NDIRECT + 1] /\ b2 = inode.i_block[NDIRECT + 2]
                              /\ b3 = inode.i_block[NDIRECT + 3]
        OBVIOUS
      <4>2. Placed(d, n, inode, b1, b2, b3, bs, m, t)
        BY <1>1, <3>1, <3>2, <4>1, BlockPlaces
      <4> QED BY <3>3, <4>2 DEF Placed
    <3>5. q \in 0 .. q
      OBVIOUS
    <3> QED BY <2>4, <3>4, <3>5
  <2>7. PICK f : f = [x \in 0 .. end - 1 |-> BlockOf(d, n, inode, x)]
    OBVIOUS
  <2>8. Follows(blocks, f, end)
    <3> HIDE DEF blocks
    <3> QED BY <2>3, <2>5, <2>7, FileBlocksFollow DEF blocks
  <2> HIDE DEF blocks
  <2>9. \A x \in 0 .. q : x \in 0 .. end - 1 /\ f[x] = BlockOf(d, n, inode, x) /\ f[x] # 0
    BY <2>4, <2>6, <2>7
  <2>10. PICK L \in Nat : L = Len(blocks) /\ q + 1 <= L /\ blocks[q + 1] = f[q]
                          /\ blocks \in Seq(Nat) /\ DOMAIN blocks = 1 .. L
    <3>1. q + 1 \in 0 .. end /\ (q + 1) - 1 = q /\ q \in 0 .. (q + 1) - 1
      BY <2>6
    <3>2. \A x \in 0 .. (q + 1) - 1 : f[x] # 0
      BY <2>9, <3>1
    <3>3. q + 1 <= Len(blocks) /\ \A x \in 0 .. (q + 1) - 1 : blocks[x + 1] = f[x]
      BY <2>8, <3>1, <3>2 DEF Follows
    <3>4. blocks \in Seq(Nat)
      BY <2>8 DEF Follows
    <3> QED BY <3>1, <3>3, <3>4
  <2> DEFINE S == {CellOf(d, n, blocks[x], y) : x \in 1 .. L, y \in 0 .. bs - 1}
  <2>11. \A x \in 1 .. L : seqs[x] = [y \in 1 .. bs |-> CellOf(d, n, blocks[x], y - 1)]
    <3> SUFFICES ASSUME NEW x \in 1 .. L
                 PROVE  seqs[x] = [y \in 1 .. bs |-> CellOf(d, n, blocks[x], y - 1)]
      OBVIOUS
    <3>1. seqs[x] = Block(hd, blocks[x]) /\ blocks[x] \in Nat
      BY <2>10
    <3> QED BY <1>1, <3>1, BlockIsRead
  <2>12. ASSUME NEW x \in 1 .. L PROVE seqs[x] \in Seq(S) /\ Len(seqs[x]) = bs
    <3>1. \A y \in 1 .. bs : y - 1 \in 0 .. bs - 1
      OBVIOUS
    <3>2. \A y \in 1 .. bs : CellOf(d, n, blocks[x], y - 1) \in S
      BY <3>1
    <3>3. PICK F : F = [y \in 1 .. bs |-> CellOf(d, n, blocks[x], y - 1)] /\ seqs[x] = F
      BY <2>11
    <3>4. F \in [1 .. bs -> S]
      <4> HIDE DEF S, seqs
      <4> QED BY <3>2, <3>3
    <3>5. F \in Seq(S) /\ Len(F) = bs
      <4> HIDE DEF S, seqs
      <4> QED BY <3>4, FunctionIsSeq, Zenon
    <3> HIDE DEF S, seqs
    <3> QED BY <3>3, <3>5
  <2>13. seqs \in Seq(Seq(S)) /\ Len(seqs) = L
    <3>1. seqs = [x \in 1 .. L |-> seqs[x]]
      <4> HIDE DEF S
      <4> QED BY <2>10
    <3>2. \A x \in 1 .. L : seqs[x] \in Seq(S)
      BY <2>12
    <3> HIDE DEF S, seqs
    <3> QED BY <3>1, <3>2
  <2>14. /\ Len(base) = L * bs
         /\ base[q * bs + c + 1] = seqs[q + 1][c + 1]
    <3>1. q \in 0 .. L - 1 /\ c \in 0 .. bs - 1
      BY <2>2, <2>10
    <3>2. \A x \in 1 .. Len(seqs) : Len(seqs[x]) = bs
      <4> HIDE DEF S, seqs
      <4> QED BY <2>12, <2>13
    <3> HIDE DEF S, seqs
    <3>3. OneAfterTheOther(FlattenSeq(seqs), seqs, bs)
      BY <1>1, <2>13, <3>2, FlattenEqual
    <3> QED BY <2>13, <3>1, <3>3 DEF base, OneAfterTheOther
  <2>15. seqs[q + 1][c + 1] = CellOf(d, n, f[q], c)
    <3>1. q + 1 \in 1 .. L /\ c + 1 \in 1 .. bs /\ (c + 1) - 1 = c
      BY <2>2, <2>10
    <3>2. seqs[q + 1] = [y \in 1 .. bs |-> CellOf(d, n, blocks[q + 1], y - 1)]
      BY <2>11, <3>1
    <3> HIDE DEF seqs
    <3> QED BY <2>10, <3>1, <3>2
  <2>16. CellOf(d, n, f[q], c) = file.content[i]
    <3>1. k \in 0 .. file.whole - 1 /\ k \div bs = q /\ k % bs = c
      BY <1>2, <2>2 DEF Cut
    <3>2. CellOf(d, n, BlockOf(d, n, inode, q), c) = file.content[k + 1]
      BY <1>1, <3>1, Zenon DEF HoldsFile
    <3>3. f[q] = BlockOf(d, n, inode, q)
      BY <2>9
    <3> QED BY <2>1, <3>2, <3>3
  <2>17. i <= L * bs
    <3>1. (q + 1) * bs = q * bs + bs /\ q * bs \in Nat /\ L * bs \in Nat /\ q + 1 \in Nat
      BY <2>10, TimesNext, Zenon
    <3>2. (q + 1) * bs <= L * bs
      BY <2>10, <3>1, TimesLess
    <3> QED BY <2>1, <2>2, <3>1, <3>2
  <2> HIDE DEF base, seqs
  <2> QED BY <2>1, <2>2, <2>14, <2>15, <2>16, <2>17
<1> HIDE DEF base
<1> QED BY <1>2, <1>3, <1>4 DEF Copied

-----------------------------------------------------------------------------
(* Sequences of whatever they hold.                                        *)
IsSeq(s) == s \in Seq(Range(s))

(* What Append makes of any sequence.                                      *)
LEMMA OneMore ==
    ASSUME NEW s, IsSeq(s), NEW e
    PROVE  /\ IsSeq(Append(s, e)) /\ Len(s) \in Nat /\ DOMAIN s = 1 .. Len(s)
           /\ Len(Append(s, e)) = Len(s) + 1
           /\ DOMAIN Append(s, e) = 1 .. Len(s) + 1
           /\ Append(s, e)[Len(s) + 1] = e
           /\ \A i \in 1 .. Len(s) : Append(s, e)[i] = s[i]
<1>1. PICK S : S = Range(s) \cup {e}
  OBVIOUS
<1>2. s \in Seq(S) /\ e \in S
  BY <1>1 DEF IsSeq
<1>3. PICK L \in Nat : L = Len(s) /\ DOMAIN s = 1 .. L
  BY <1>2
<1>4. PICK t : t = Append(s, e)
  OBVIOUS
<1>5. /\ t \in Seq(S) /\ Len(t) = L + 1 /\ DOMAIN t = 1 .. L + 1
      /\ t[L + 1] = e /\ \A i \in 1 .. L : t[i] = s[i]
  BY <1>2, <1>3, <1>4
<1>6. IsSeq(t)
  <2>1. t = [i \in 1 .. L + 1 |-> t[i]] /\ \A i \in 1 .. L + 1 : t[i] \in Range(t)
    BY <1>5 DEF Range
  <2>2. L + 1 \in Nat
    OBVIOUS
  <2> QED BY <2>1, <2>2 DEF IsSeq
<1> QED BY <1>3, <1>4, <1>5, <1>6

IsList(e, m) == e = [i \in 1 .. m |-> e[i]]

(* What a concatenation makes of any sequence and a list of m things.      *)
LEMMA OneAfterAnother ==
    ASSUME NEW s, IsSeq(s), NEW m \in Nat, NEW e, IsList(e, m)
    PROVE  /\ IsSeq(s \o e) /\ Len(s) \in Nat /\ Len(s \o e) = Len(s) + m
           /\ \A i \in 1 .. Len(s) : (s \o e)[i] = s[i]
           /\ \A i \in 1 .. m : (s \o e)[Len(s) + i] = e[i]
<1>1. PICK S : S = Range(s) \cup {e[i] : i \in 1 .. m}
  OBVIOUS
<1>2. s \in Seq(S)
  BY <1>1 DEF IsSeq
<1>3. e \in Seq(S) /\ Len(e) = m
  <2>1. \A i \in 1 .. m : e[i] \in S
    BY <1>1
  <2> QED BY <2>1 DEF IsList
<1>4. PICK L \in Nat : L = Len(s)
  BY <1>2
<1>5. PICK t : t = s \o e
  OBVIOUS
<1>6. t \in Seq(S) /\ Parts(t, s, e, L, m)
  BY <1>2, <1>3, <1>4, <1>5, ConcatParts
<1>7. Len(t) = L + m /\ (\A i \in 1 .. L : t[i] = s[i]) /\ \A i \in 1 .. m : t[L + i] = e[i]
  BY <1>6, Zenon DEF Parts
<1>8. IsSeq(t)
  <2>1. t = [i \in 1 .. L + m |-> t[i]] /\ \A i \in 1 .. L + m : t[i] \in Range(t)
    BY <1>6, <1>7 DEF Range
  <2>2. L + m \in Nat
    OBVIOUS
  <2> QED BY <2>1, <2>2 DEF IsSeq
<1> QED BY <1>4, <1>5, <1>7, <1>8

(* Min takes the least number of a set.                                    *)
LEMMA MinIsLeast ==
    ASSUME NEW K \in SUBSET Nat, K # {}
    PROVE  Min(K) \in K /\ \A x \in K : Min(K) <= x
<1>1. PICK m \in K : \A x \in K : m <= x
  BY LeastElement
<1> QED BY <1>1 DEF Min

-----------------------------------------------------------------------------
(* es are the entries of the directory file.                               *)
Lists(es, file) ==
    /\ Len(es) \in Nat /\ DOMAIN es = 1 .. Len(es)
    /\ \A k \in 1 .. Len(es) : \E o \in file.starts : es[k] = file.content[o + 1]
    /\ \A o \in file.starts : \E k \in 1 .. Len(es) : es[k] = file.content[o + 1]

(* The walk from an entry to the next one finds each entry of a directory. *)
THEOREM EntriesAreFound ==
    ASSUME NEW file, NEW inodes, IsListing(file, inodes), NEW map, Copied(map, file),
           NEW size \in Nat, size = Len(file.content)
    PROVE  Lists(Entries(map, size), file)
<1> DEFINE T == file.starts \cup {size}
           step == [o \in T |-> Following(map, size, o)]
           H(f) == [k \in 0 .. size |-> IF k = 0 THEN 0 ELSE Following(map, size, f[k - 1])]
           at == CHOOSE f : f = H(f)
           K == {k \in 0 .. size : at[k] = size}
<1>1. file.starts \subseteq 0 .. size - 1 /\ (size > 0 => 0 \in file.starts) /\ file.whole = size
  BY DEF IsListing
<1>2. T \subseteq 0 .. size /\ 0 \in T
  BY <1>1
<1>3. ASSUME NEW o \in file.starts
      PROVE  /\ Following(map, size, o) \in T /\ Following(map, size, o) > o
             /\ o # size /\ map[o + 1] = file.content[o + 1]
             /\ Following(map, size, o) = o + file.content[o + 1].rec_len
  <2>1. o \in 0 .. size - 1 /\ o # size /\ o + 1 \in 1 .. size
    BY <1>1
  <2>2. map[o + 1] = file.content[o + 1]
    BY <1>1, <2>1 DEF Copied
  <2>3. PICK r \in Nat : r = file.content[o + 1].rec_len /\ r > 0 /\ o + r \in T
    BY DEF IsListing
  <2>4. Following(map, size, o) = o + r
    BY <2>1, <2>2, <2>3 DEF Following
  <2> QED BY <2>1, <2>2, <2>3, <2>4
<1>4. Following(map, size, size) = size
  BY DEF Following
<1>5. PICK f \in [0 .. size -> T] : Iterates(f, size, 0, step)
  <2>1. step \in [T -> T]
    <3>1. \A o \in T : Following(map, size, o) \in T
      BY <1>3, <1>4
    <3> HIDE DEF T
    <3> QED BY <3>1
  <2> HIDE DEF T, step
  <2> QED BY <1>2, <2>1, IteratesExist
<1>6. f[0] = 0 /\ \A i \in 1 .. size : f[i] = Following(map, size, f[i - 1])
  <2>1. f[0] = 0
    BY <1>5 DEF Iterates
  <2>2. ASSUME NEW i \in 1 .. size PROVE f[i] = Following(map, size, f[i - 1])
    <3>1. i - 1 \in 0 .. size
      OBVIOUS
    <3>2. f[i - 1] \in T /\ f[i] = step[f[i - 1]]
      <4> HIDE DEF T, step
      <4> QED BY <1>5, <3>1 DEF Iterates
    <3> HIDE DEF T
    <3> QED BY <3>2
  <2> QED BY <2>1, <2>2
<1>7. at = H(at)
  <2>1. f = H(f)
    <3>1. f = [i \in 0 .. size |-> f[i]]
      BY <1>5
    <3>2. ASSUME NEW i \in 0 .. size PROVE f[i] = H(f)[i]
      <4>1. CASE i = 0
        BY <1>6, <4>1
      <4>2. CASE i # 0
        <5>1. i \in 1 .. size
          BY <4>2
        <5> QED BY <1>6, <4>2, <5>1
      <4> QED BY <4>1, <4>2
    <3>3. H(f) = [i \in 0 .. size |-> H(f)[i]]
      OBVIOUS
    <3> HIDE DEF H
    <3> QED BY <3>1, <3>2, <3>3
  <2> HIDE DEF H
  <2> QED BY <2>1
<1>8. \A i \in 0 .. size : at[i] = f[i]
  <2> DEFINE S == {i \in 0 .. size : at[i] = f[i]}
  <2>1. \A i \in 0 .. size : at[i] = IF i = 0 THEN 0 ELSE Following(map, size, at[i - 1])
    <3>1. \A i \in 0 .. size : H(at)[i] = IF i = 0 THEN 0 ELSE Following(map, size, at[i - 1])
      <4> HIDE DEF at
      <4> QED OBVIOUS
    <3> HIDE DEF at, H
    <3> QED BY <1>7, <3>1
  <2> HIDE DEF at
  <2>2. 0 \in S
    BY <1>6, <2>1
  <2>3. ASSUME NEW i \in 1 .. size, i - 1 \in S PROVE i \in S
    <3>1. i \in 0 .. size /\ i # 0 /\ at[i - 1] = f[i - 1]
      BY <2>3
    <3> QED BY <1>6, <2>1, <3>1
  <2>4. 0 .. size \subseteq S
    <3> HIDE DEF S
    <3> QED BY <2>2, <2>3, RangeInduction
  <2> QED BY <2>4
<1>9. PICK m \in K : m = Min(K) /\ \A k \in K : m <= k
  <2> DEFINE S == {i \in 0 .. size : f[i] >= i \/ f[i] = size}
  <2>1. 0 \in S
    BY <1>6
  <2>2. ASSUME NEW i \in 1 .. size, i - 1 \in S PROVE i \in S
    <3>1. i \in 0 .. size /\ i - 1 \in 0 .. size /\ f[i] = Following(map, size, f[i - 1])
      BY <1>6
    <3>2. f[i - 1] \in T
      <4> HIDE DEF T
      <4> QED BY <1>5, <3>1
    <3>3. CASE f[i - 1] = size
      BY <1>4, <3>1, <3>3
    <3>4. CASE f[i - 1] \in file.starts
      <4>1. PICK o \in Nat, w \in Nat : o = f[i - 1] /\ w = f[i] /\ w > o
        <5>1. f[i] > f[i - 1] /\ f[i - 1] \in Nat /\ f[i] \in Nat
          BY <1>1, <1>2, <1>3, <3>1, <3>4
        <5> QED BY <5>1
      <4>2. o # size
        BY <1>3, <3>4, <4>1
      <4>3. o >= i - 1
        BY <2>2, <4>1, <4>2
      <4> QED BY <3>1, <4>1, <4>3
    <3> QED BY <3>2, <3>3, <3>4
  <2>3. 0 .. size \subseteq S
    <3> HIDE DEF S
    <3> QED BY <2>1, <2>2, RangeInduction
  <2>4. size \in S /\ f[size] \in T
    <3> HIDE DEF S, T
    <3> QED BY <1>5, <2>3
  <2>5. f[size] = size
    BY <1>2, <2>4
  <2>6. size \in K /\ K \in SUBSET Nat
    <3> HIDE DEF at
    <3> QED BY <1>8, <2>5
  <2> HIDE DEF K
  <2> QED BY <2>6, MinIsLeast
<1>10. Entries(map, size) = [k \in 1 .. m |-> map[at[k - 1] + 1]]
  <2>1. Entries(map, size) = [k \in 1 .. Min(K) |-> map[at[k - 1] + 1]]
    BY DEF Entries
  <2> HIDE DEF at, K
  <2> QED BY <1>9, <2>1
<1>11. m \in 0 .. size /\ f[m] = size
  <2> HIDE DEF at
  <2> QED BY <1>8, <1>9
<1>12. ASSUME NEW k \in 0 .. size, k < m PROVE f[k] \in file.starts
  <2>1. k \notin K
    <3> HIDE DEF K
    <3> QED BY <1>9, <1>11, <1>12
  <2>2. f[k] # size
    <3> HIDE DEF at
    <3> QED BY <1>8, <2>1
  <2>3. f[k] \in T
    <3> HIDE DEF T
    <3> QED BY <1>5
  <2> QED BY <2>2, <2>3
<1>13. PICK es : es = Entries(map, size)
  OBVIOUS
<1>14. ASSUME NEW k \in 1 .. m
       PROVE  k - 1 \in 0 .. size /\ f[k - 1] \in file.starts /\ es[k] = file.content[f[k - 1] + 1]
  <2>1. k - 1 \in 0 .. size /\ k - 1 < m
    BY <1>11
  <2>2. f[k - 1] \in file.starts
    BY <1>12, <2>1
  <2>3. es[k] = map[f[k - 1] + 1]
    <3> HIDE DEF at, K
    <3> QED BY <1>8, <1>10, <1>13, <2>1
  <2> QED BY <1>3, <2>1, <2>2, <2>3
<1>15. Len(es) = m /\ DOMAIN es = 1 .. m
  <2>1. PICK g : g = [k \in 1 .. m |-> map[at[k - 1] + 1]]
    OBVIOUS
  <2>2. DOMAIN g = 1 .. m /\ Len(g) = m
    <3> HIDE DEF at, K
    <3> QED BY <1>11, <2>1
  <2> HIDE DEF at, K
  <2> QED BY <1>10, <1>13, <2>1, <2>2
<1>16. ASSUME NEW o \in file.starts PROVE \E k \in 1 .. m : f[k - 1] = o
  <2> DEFINE Missing == {x \in file.starts : \A k \in 1 .. m : f[k - 1] # x}
  <2> SUFFICES ASSUME Missing # {} PROVE FALSE
    OBVIOUS
  <2>1. PICK x \in Missing : \A y \in Missing : x <= y
    <3>1. Missing \in SUBSET Nat
      BY <1>1
    <3> HIDE DEF Missing
    <3> QED BY <3>1, LeastElement
  <2>2. x \in file.starts /\ x \in 0 .. size - 1 /\ x # size
    BY <1>1, <2>1
  <2>3. x # 0
    <3> SUFFICES ASSUME x = 0 PROVE FALSE
      OBVIOUS
    <3>1. m # 0
      BY <1>6, <1>11, <2>2
    <3>2. 1 \in 1 .. m /\ 1 - 1 = 0
      BY <1>11, <3>1
    <3> QED BY <1>6, <2>1, <3>2
  <2>4. PICK p \in file.starts : p + file.content[p + 1].rec_len = x
    BY <2>2, <2>3 DEF IsListing
  <2>5. Following(map, size, p) = x /\ p < x
    BY <1>1, <1>3, <2>2, <2>4
  <2>6. p \notin Missing
    <3> HIDE DEF Missing
    <3> QED BY <1>1, <2>1, <2>2, <2>5
  <2>7. PICK k \in 1 .. m : f[k - 1] = p
    BY <2>6
  <2>8. k \in 1 .. size /\ f[k] = x
    BY <1>6, <1>11, <2>5, <2>7
  <2>9. k # m
    BY <1>11, <2>2, <2>8
  <2>10. k + 1 \in 1 .. m /\ (k + 1) - 1 = k
    BY <1>11, <2>9
  <2> QED BY <2>1, <2>8, <2>10
<1> HIDE DEF at, K, H, T, step
<1>17. m \in Nat /\ \A k \in 1 .. m : \E o \in file.starts : es[k] = file.content[o + 1]
  <2>1. m \in Nat
    BY <1>11
  <2>2. \A k \in 1 .. m : \E o \in file.starts : es[k] = file.content[o + 1]
    BY <1>14, Zenon
  <2> QED BY <2>1, <2>2
<1>18. ASSUME NEW o \in file.starts PROVE \E k \in 1 .. m : es[k] = file.content[o + 1]
  <2>1. PICK k \in 1 .. m : f[k - 1] = o
    BY <1>16
  <2> QED BY <1>14, <2>1
<1> QED BY <1>13, <1>15, <1>17, <1>18, Zenon DEF Lists

(* A directory of size 0 has no entries, whatever memory its copy points   *)
(* to.                                                                     *)
LEMMA NothingToFind ==
    ASSUME NEW map
    PROVE  Len(Entries(map, 0)) = 0 /\ DOMAIN Entries(map, 0) = {}
<1> DEFINE H(f) == [k \in 0 .. 0 |-> IF k = 0 THEN 0 ELSE Following(map, 0, f[k - 1])]
           at == CHOOSE f : f = H(f)
           K == {k \in 0 .. 0 : at[k] = 0}
<1>1. at = H(at)
  <2>1. [k \in 0 .. 0 |-> 0] = H([k \in 0 .. 0 |-> 0])
    OBVIOUS
  <2> HIDE DEF H
  <2> QED BY <2>1
<1>2. at[0] = 0
  <2>1. H(at)[0] = 0
    <3> HIDE DEF at
    <3> QED OBVIOUS
  <2> HIDE DEF at, H
  <2> QED BY <1>1, <2>1
<1>3. Min(K) = 0
  <2>1. K \in SUBSET Nat /\ 0 \in K /\ K \subseteq {0}
    <3> HIDE DEF at
    <3> QED BY <1>2
  <2> HIDE DEF K
  <2> QED BY <2>1, MinIsLeast
<1>4. Entries(map, 0) = [k \in 1 .. Min(K) |-> map[at[k - 1] + 1]]
  BY DEF Entries
<1> HIDE DEF at, K
<1>5. Entries(map, 0) = [k \in 1 .. 0 |-> map[at[k - 1] + 1]]
  BY <1>3, <1>4
<1>6. Len([k \in 1 .. 0 |-> map[at[k - 1] + 1]]) = 0
  OBVIOUS
<1>7. DOMAIN [k \in 1 .. 0 |-> map[at[k - 1] + 1]] = {}
  OBVIOUS
<1> QED BY <1>5, <1>6, <1>7

(* f has what ns is after each of the entries of the directory dir.        *)
Scanning(f, hd, ns, dir, es, junk) ==
    /\ f[0] = ns
    /\ \A k \in 1 .. Len(es) : f[k] = Enter(hd, f[k - 1], dir, es[k], junk)

(* ext2_scan enters the entries one by one.                                *)
LEMMA ScanSteps ==
    ASSUME NEW hd, NEW ns, IsSeq(ns), NEW dir, NEW junk, NEW inode, NEW map, NEW es,
           inode = ext2_read_inode(hd, ns[dir].ext2inode, junk),
           map = IF ns[dir].map = NULL THEN ext2_read_file(hd, inode) ELSE ns[dir].map,
           es = Entries(map, inode.i_size), Len(es) \in Nat
    PROVE  \E f : /\ Scanning(f, hd, ns, dir, es, junk)
                  /\ ext2_scan(hd, ns, dir, junk)
                       = [f[Len(es)] EXCEPT ![dir].scanned = TRUE]
<1>1. PICK n \in Nat : n = Len(es)
  OBVIOUS
<1> DEFINE S == Range(ns) \cup {Leaf(hd, dir, es[k], junk) : k \in 1 .. n}
           enter(k, x) == Enter(hd, x, dir, es[k], junk)
           step == [k \in 0 + 1 .. n |-> [x \in Seq(S) |-> enter(k, x)]]
           H(f) == [k \in 0 .. n |-> IF k = 0 THEN ns ELSE enter(k, f[k - 1])]
           scan == CHOOSE f : f = H(f)
<1>2. ASSUME NEW k \in 1 .. n, NEW x \in Seq(S) PROVE enter(k, x) \in Seq(S)
  <2>1. PICK leaf \in S : leaf = Leaf(hd, dir, es[k], junk)
    OBVIOUS
  <2>2. enter(k, x) = x \/ enter(k, x) = Append(x, leaf)
    BY <2>1 DEF Enter
  <2> HIDE DEF S, enter
  <2> QED BY <2>2
<1>3. PICK f \in [0 .. n -> Seq(S)] : Stepwise(f, 0, n, ns, step)
  <2>1. ns \in Seq(S)
    BY DEF IsSeq
  <2>2. step \in [0 + 1 .. n -> [Seq(S) -> Seq(S)]]
    <3>1. \A k \in 1 .. n : [x \in Seq(S) |-> enter(k, x)] \in [Seq(S) -> Seq(S)]
      <4> HIDE DEF S, enter
      <4> QED BY <1>2
    <3> HIDE DEF S, enter
    <3> QED BY <3>1
  <2>3. 0 \in Nat /\ 0 <= n
    OBVIOUS
  <2> HIDE DEF S, step
  <2> QED BY <2>1, <2>2, <2>3, StepwiseExists
<1>4. f[0] = ns /\ \A k \in 1 .. n : f[k] = enter(k, f[k - 1])
  <2>1. f[0] = ns
    BY <1>3 DEF Stepwise
  <2>2. ASSUME NEW k \in 1 .. n PROVE f[k] = enter(k, f[k - 1])
    <3>1. k \in 0 + 1 .. n /\ k - 1 \in 0 .. n
      OBVIOUS
    <3>2. f[k] = step[k][f[k - 1]] /\ f[k - 1] \in Seq(S)
      <4> HIDE DEF S, step
      <4> QED BY <1>3, <3>1 DEF Stepwise
    <3> HIDE DEF S, enter
    <3> QED BY <3>1, <3>2
  <2> HIDE DEF enter
  <2> QED BY <2>1, <2>2
<1>5. scan = H(scan)
  <2>1. f = H(f)
    <3>1. f = [i \in 0 .. n |-> f[i]]
      BY <1>3
    <3>2. ASSUME NEW i \in 0 .. n PROVE f[i] = H(f)[i]
      <4> HIDE DEF enter
      <4>1. CASE i = 0
        BY <1>4, <4>1
      <4>2. CASE i # 0
        <5>1. i \in 1 .. n
          BY <4>2
        <5> QED BY <1>4, <4>2, <5>1
      <4> QED BY <4>1, <4>2
    <3>3. H(f) = [i \in 0 .. n |-> H(f)[i]]
      <4> HIDE DEF enter
      <4> QED OBVIOUS
    <3> HIDE DEF H
    <3> QED BY <3>1, <3>2, <3>3
  <2> HIDE DEF H
  <2> QED BY <2>1
<1>6. \A i \in 0 .. n : scan[i] = IF i = 0 THEN ns ELSE enter(i, scan[i - 1])
  <2>1. \A i \in 0 .. n : H(scan)[i] = IF i = 0 THEN ns ELSE enter(i, scan[i - 1])
    <3> HIDE DEF scan, enter
    <3> QED OBVIOUS
  <2> HIDE DEF scan, H, enter
  <2> QED BY <1>5, <2>1
<1>7. scan[0] = ns /\ \A k \in 1 .. n : scan[k] = enter(k, scan[k - 1])
  <2>1. 0 \in 0 .. n /\ \A k \in 1 .. n : k \in 0 .. n /\ k # 0
    OBVIOUS
  <2> HIDE DEF scan, enter
  <2> QED BY <1>6, <2>1
<1>8. ext2_scan(hd, ns, dir, junk) = [scan[n] EXCEPT ![dir].scanned = TRUE]
  BY <1>1 DEF ext2_scan
<1>9. Scanning(scan, hd, ns, dir, es, junk)
  <2> HIDE DEF scan
  <2> QED BY <1>1, <1>7 DEF Scanning
<1> HIDE DEF scan
<1> QED BY <1>1, <1>8, <1>9

(* What mode says a directory, a block device and a socket are.            *)
DirectoryModes == {EXT2_S_IFDIR, EXT2_S_IFBLK, EXT2_S_IFSOCK}

(* The bit that ext2_is_directory tests is also set for block devices and  *)
(* sockets.                                                                *)
LEMMA ModesOfDirectories ==
    ASSUME NEW inode, inode.i_mode \in Modes
    PROVE  IsDirectory(inode) <=> inode.i_mode \in DirectoryModes
<1>1. PICK m \in Modes : m = inode.i_mode
  OBVIOUS
<1>2. m \in Nat /\ (m \div 4) % 2 = 1 <=> m \in {4, 6, 12}
  BY DEF Modes, EXT2_S_IFDIR, EXT2_S_IFREG, EXT2_S_IFBLK, EXT2_S_IFSOCK
<1> QED BY <1>1, <1>2
        DEF IsDirectory, DirectoryModes, Modes, EXT2_S_IFDIR, EXT2_S_IFREG, EXT2_S_IFBLK,
            EXT2_S_IFSOCK

(* What the code reads of the volume vol is what it holds.                 *)
ReadsRight(hd, vol, junk) ==
    /\ \A i \in DOMAIN vol :
         LET inode == ext2_read_inode(hd, i, junk) IN
         /\ i # 0
         /\ IsFileOf(vol[i], DOMAIN vol)
         /\ inode.i_size = Len(vol[i].content)
         /\ inode.i_mode = vol[i].mode
         /\ Copied(ext2_read_file(hd, inode), vol[i])
    /\ ext2_read_inode(hd, 0, junk).i_size = 0

IsNode(x) ==
    x = [parent |-> x.parent, name |-> x.name, ext2inode |-> x.ext2inode, type |-> x.type,
         size |-> x.size, map |-> x.map, scanned |-> x.scanned]

(* A node shows the inode it was made from.                                *)
NodeRight(x, vol) ==
    /\ IsNode(x)
    /\ x.ext2inode \in {0} \cup DOMAIN vol
    /\ x.type \in {"directory", "file"}
    /\ x.parent = 0 \/ x.scanned => x.type = "directory"
    /\ x.ext2inode # 0 =>
         /\ x.type = "directory" <=> vol[x.ext2inode].mode \in DirectoryModes
         /\ x.parent # 0 => x.size = Len(vol[x.ext2inode].content)
         /\ x.map # NULL => Copied(x.map, vol[x.ext2inode])

(* A node has a name in use of its parent if it has an inode, and then it  *)
(* is the inode of that name.                                              *)
ChildRight(x, ns, vol) ==
    x.parent # 0 =>
      /\ x.parent \in DOMAIN ns
      /\ ns[x.parent].ext2inode # 0 =>
           LET held == vol[ns[x.parent].ext2inode].entries IN
           /\ x.ext2inode # 0 => x.name \in DOMAIN held
           /\ x.name \in DOMAIN held => x.ext2inode = held[x.name]

NamesOnce(ns) ==
    \A i, j \in DOMAIN ns : ns[i].parent = ns[j].parent /\ ns[i].name = ns[j].name => i = j

Entered(ns, d, name) == \E i \in DOMAIN ns : ns[i].parent = d /\ ns[i].name = name

ScannedShows(ns, vol) ==
    \A d \in DOMAIN ns : ns[d].scanned /\ ns[d].ext2inode # 0 =>
        \A name \in DOMAIN vol[ns[d].ext2inode].entries : Entered(ns, d, name)

NodesRight(ns, vol) ==
    /\ IsSeq(ns)
    /\ \A i \in DOMAIN ns : NodeRight(ns[i], vol)
    /\ \A i \in DOMAIN ns : ChildRight(ns[i], ns, vol)
    /\ NamesOnce(ns)
    /\ ScannedShows(ns, vol)

(* t is ns and maybe more nodes.                                           *)
Grown(ns, t) ==
    /\ Len(ns) \in Nat /\ Len(t) \in Nat /\ Len(ns) <= Len(t)
    /\ DOMAIN ns = 1 .. Len(ns) /\ DOMAIN t = 1 .. Len(t)
    /\ \A i \in DOMAIN ns : t[i] = ns[i]

(* What the loop of ext2_scan does for one entry: a name that dir has no   *)
(* child of gets one.                                                      *)
LEMMA EnterKeeps ==
    ASSUME NEW hd, NEW vol, NEW junk, ReadsRight(hd, vol, junk), NEW ns, NodesRight(ns, vol),
           NEW dir \in DOMAIN ns, ns[dir].ext2inode # 0,
           NEW file, file = vol[ns[dir].ext2inode], IsListing(file, DOMAIN vol),
           NEW o \in file.starts, NEW e, e = file.content[o + 1]
    PROVE  /\ NodesRight(Enter(hd, ns, dir, e, junk), vol)
           /\ Grown(ns, Enter(hd, ns, dir, e, junk))
           /\ e.name \notin Dots => Entered(Enter(hd, ns, dir, e, junk), dir, e.name)
<1>1. IsSeq(ns) /\ Len(ns) \in Nat /\ DOMAIN ns = 1 .. Len(ns)
  BY OneMore DEF NodesRight
<1>2. CASE e.name \in Dots \/ Entered(ns, dir, e.name)
  <2>1. Enter(hd, ns, dir, e, junk) = ns
    BY <1>2 DEF Enter, Entered
  <2>2. Grown(ns, ns)
    BY <1>1 DEF Grown
  <2> QED BY <1>2, <2>1, <2>2
<1>3. CASE ~(e.name \in Dots \/ Entered(ns, dir, e.name))
  <2>1. PICK L \in Nat : L = Len(ns)
    BY <1>1
  <2>0. PICK leaf : leaf = Leaf(hd, dir, e, junk)
    OBVIOUS
  <2>2. PICK t : t = Enter(hd, ns, dir, e, junk)
    OBVIOUS
  <2>3. t = Append(ns, leaf)
    BY <1>3, <2>0, <2>2 DEF Enter, Entered
  <2>4. /\ IsSeq(t) /\ Len(t) = L + 1 /\ DOMAIN t = 1 .. L + 1 /\ t[L + 1] = leaf
        /\ \A i \in 1 .. L : t[i] = ns[i]
    BY <1>1, <2>1, <2>3, OneMore
  <2>5. PICK inode : inode = ext2_read_inode(hd, e.inode, junk)
    OBVIOUS
  <2>6. /\ IsNode(leaf) /\ leaf.parent = dir /\ leaf.name = e.name /\ leaf.ext2inode = e.inode
        /\ leaf.type = (IF IsDirectory(inode) THEN "directory" ELSE "file")
        /\ leaf.size = inode.i_size /\ leaf.map = NULL /\ leaf.scanned = FALSE
    BY <2>0, <2>5 DEF Leaf, Node, IsNode
  <2>7. dir # 0 /\ dir \in 1 .. L
    BY <1>1, <2>1
  <2>8. e.inode # 0 => e.name \in DOMAIN file.entries /\ file.entries[e.name] = e.inode
                       /\ e.inode \in DOMAIN vol
    BY <1>3 DEF IsListing
  <2>9. NodeRight(leaf, vol)
    <3>1. CASE e.inode = 0
      BY <2>6, <2>7, <3>1 DEF NodeRight
    <3>2. CASE e.inode # 0
      <4>1. inode.i_size = Len(vol[e.inode].content) /\ inode.i_mode = vol[e.inode].mode
            /\ vol[e.inode].mode \in Modes
        BY <2>5, <2>8, <3>2 DEF ReadsRight, IsFileOf
      <4>2. IsDirectory(inode) <=> vol[e.inode].mode \in DirectoryModes
        BY <4>1, ModesOfDirectories
      <4> QED BY <2>6, <2>7, <2>8, <3>2, <4>1, <4>2 DEF NodeRight
    <3> QED BY <3>1, <3>2
  <2>10. ChildRight(leaf, t, vol)
    <3>1. t[dir] = ns[dir] /\ dir \in DOMAIN t
      BY <2>4, <2>7
    <3>2. CASE e.inode # 0
      BY <2>6, <2>8, <3>1, <3>2 DEF ChildRight
    <3>3. CASE e.inode = 0
      <4>1. e.name \notin DOMAIN file.entries
        <5> SUFFICES ASSUME e.name \in DOMAIN file.entries PROVE FALSE
          OBVIOUS
        <5>1. PICK p \in file.starts : /\ file.content[p + 1].inode # 0
                                       /\ file.content[p + 1].name \notin Dots
                                       /\ file.content[p + 1].name = e.name
          BY DEF IsListing
        <5>2. p = o
          BY <5>1 DEF IsListing
        <5> QED BY <3>3, <5>1, <5>2
      <4> QED BY <2>6, <3>1, <3>3, <4>1 DEF ChildRight
    <3> QED BY <3>2, <3>3
  <2>11. \A i \in DOMAIN t : NodeRight(t[i], vol)
    <3> SUFFICES ASSUME NEW i \in DOMAIN t PROVE NodeRight(t[i], vol)
      OBVIOUS
    <3>1. i = L + 1 \/ i \in 1 .. L
      BY <2>4
    <3> QED BY <1>1, <2>1, <2>4, <2>9, <3>1 DEF NodesRight
  <2>12. \A i \in DOMAIN t : ChildRight(t[i], t, vol)
    <3> SUFFICES ASSUME NEW i \in DOMAIN t PROVE ChildRight(t[i], t, vol)
      OBVIOUS
    <3>1. i = L + 1 \/ i \in 1 .. L
      BY <2>4
    <3>2. CASE i \in 1 .. L
      <4>1. ChildRight(ns[i], ns, vol) /\ t[i] = ns[i]
        BY <1>1, <2>1, <2>4, <3>2 DEF NodesRight
      <4>2. ns[i].parent \in DOMAIN ns => /\ t[ns[i].parent] = ns[ns[i].parent]
                                          /\ ns[i].parent \in DOMAIN t
        BY <1>1, <2>1, <2>4
      <4> QED BY <4>1, <4>2, Zenon DEF ChildRight
    <3> QED BY <2>4, <2>10, <3>1, <3>2
  <2>13. NamesOnce(t)
    <3> SUFFICES ASSUME NEW i \in DOMAIN t, NEW j \in DOMAIN t, t[i].parent = t[j].parent,
                        t[i].name = t[j].name
                 PROVE  i = j
      BY DEF NamesOnce
    <3>1. (i = L + 1 \/ i \in 1 .. L) /\ (j = L + 1 \/ j \in 1 .. L)
      BY <2>4
    <3>2. \A x \in 1 .. L : ~(t[x].parent = dir /\ t[x].name = e.name)
      BY <1>1, <1>3, <2>1, <2>4 DEF Entered
    <3>3. CASE i \in 1 .. L /\ j \in 1 .. L
      BY <1>1, <2>1, <2>4, <3>3 DEF NodesRight, NamesOnce
    <3> QED BY <2>4, <2>6, <3>1, <3>2, <3>3
  <2>14. ASSUME NEW d, NEW name, Entered(ns, d, name) PROVE Entered(t, d, name)
    <3>1. PICK i \in DOMAIN ns : ns[i].parent = d /\ ns[i].name = name
      BY <2>14 DEF Entered
    <3>2. i \in DOMAIN t /\ t[i] = ns[i]
      BY <1>1, <2>1, <2>4
    <3> QED BY <3>1, <3>2 DEF Entered
  <2>15. ScannedShows(t, vol)
    <3> SUFFICES ASSUME NEW d \in DOMAIN t, t[d].scanned, t[d].ext2inode # 0,
                        NEW name \in DOMAIN vol[t[d].ext2inode].entries
                 PROVE  Entered(t, d, name)
      BY DEF ScannedShows
    <3>1. d = L + 1 \/ d \in 1 .. L
      BY <2>4
    <3>2. d # L + 1
      BY <2>4, <2>6
    <3>3. d \in DOMAIN ns /\ t[d] = ns[d]
      BY <1>1, <2>1, <2>4, <3>1, <3>2
    <3>4. Entered(ns, d, name)
      BY <3>3 DEF NodesRight, ScannedShows
    <3> QED BY <2>14, <3>4
  <2>16. Entered(t, dir, e.name)
    <3>1. L + 1 \in DOMAIN t
      BY <2>4
    <3> QED BY <2>4, <2>6, <3>1 DEF Entered
  <2>17. Grown(ns, t)
    BY <1>1, <2>1, <2>4 DEF Grown
  <2> QED BY <2>2, <2>4, <2>11, <2>12, <2>13, <2>15, <2>16, <2>17 DEF NodesRight
<1> QED BY <1>2, <1>3

(* The same node, but for what the calls change of it.                     *)
Alike(x, y) ==
    /\ x.parent = y.parent /\ x.name = y.name /\ x.ext2inode = y.ext2inode
    /\ x.type = y.type /\ x.size = y.size

(* The nodes stay right when nothing changes but the copies and what has   *)
(* been scanned.                                                           *)
LEMMA AlikeRight ==
    ASSUME NEW ns, NEW vol, NodesRight(ns, vol), NEW t, IsSeq(t), DOMAIN t = DOMAIN ns,
           \A i \in DOMAIN ns : IsNode(t[i]) /\ Alike(t[i], ns[i]),
           \A i \in DOMAIN ns : t[i].map # NULL /\ t[i].ext2inode # 0 =>
             Copied(t[i].map, vol[t[i].ext2inode]),
           \A i \in DOMAIN ns : t[i].scanned => ns[i].type = "directory",
           \A d \in DOMAIN ns : t[d].scanned /\ ns[d].ext2inode # 0 =>
             \A name \in DOMAIN vol[ns[d].ext2inode].entries : Entered(ns, d, name)
    PROVE  NodesRight(t, vol)
<1>1. ASSUME NEW i \in DOMAIN ns PROVE NodeRight(t[i], vol)
  <2>1. NodeRight(ns[i], vol) /\ IsNode(t[i]) /\ Alike(t[i], ns[i])
    BY DEF NodesRight
  <2>2. t[i].map # NULL /\ t[i].ext2inode # 0 => Copied(t[i].map, vol[t[i].ext2inode])
    OBVIOUS
  <2> QED BY <2>1, <2>2 DEF NodeRight, Alike
<1>2. ASSUME NEW i \in DOMAIN ns PROVE ChildRight(t[i], t, vol)
  <2>1. ChildRight(ns[i], ns, vol) /\ Alike(t[i], ns[i])
    BY DEF NodesRight
  <2>2. \A p \in DOMAIN ns : t[p].ext2inode = ns[p].ext2inode
    BY DEF Alike
  <2> QED BY <2>1, <2>2 DEF ChildRight, Alike
<1>3. NamesOnce(t)
  <2>1. \A i \in DOMAIN ns : t[i].parent = ns[i].parent /\ t[i].name = ns[i].name
    BY DEF Alike
  <2> QED BY <2>1 DEF NodesRight, NamesOnce
<1>4. ScannedShows(t, vol)
  <2> SUFFICES ASSUME NEW d \in DOMAIN ns, t[d].scanned, t[d].ext2inode # 0,
                      NEW name \in DOMAIN vol[t[d].ext2inode].entries
               PROVE  Entered(t, d, name)
    BY DEF ScannedShows
  <2>1. t[d].ext2inode = ns[d].ext2inode
    BY DEF Alike
  <2>2. PICK i \in DOMAIN ns : ns[i].parent = d /\ ns[i].name = name
    BY <2>1 DEF Entered
  <2>3. t[i].parent = d /\ t[i].name = name
    BY <2>2 DEF Alike
  <2> QED BY <2>3 DEF Entered
<1> QED BY <1>1, <1>2, <1>3, <1>4 DEF NodesRight

(* More nodes, and then more of them.                                      *)
LEMMA GrownTwice ==
    ASSUME NEW r, NEW s, NEW t, Grown(r, s), Grown(s, t)
    PROVE  Grown(r, t)
BY DEF Grown

(* A directory that grows shows what it showed.                            *)
LEMMA ShownGrown ==
    ASSUME NEW s, NEW t, Grown(s, t), NEW d, NEW name, Entered(s, d, name)
    PROVE  Entered(t, d, name)
<1>1. PICK i \in DOMAIN s : s[i].parent = d /\ s[i].name = name
  BY DEF Entered
<1>2. i \in DOMAIN t /\ t[i] = s[i]
  BY DEF Grown
<1> QED BY <1>1, <1>2 DEF Entered

(* What a scan does to the nodes.                                          *)
Scanned(ns, t) ==
    /\ Len(ns) \in Nat /\ Len(t) \in Nat /\ Len(ns) <= Len(t)
    /\ DOMAIN ns = 1 .. Len(ns) /\ DOMAIN t = 1 .. Len(t)
    /\ \A i \in DOMAIN ns : Alike(t[i], ns[i]) /\ t[i].map = ns[i].map

(* A scan, also another one, and also of an open directory, shows what the *)
(* directory holds and leaves the other nodes alone.                       *)
THEOREM ScanShowsTheDirectory ==
    ASSUME NEW hd, NEW vol, NEW junk, ReadsRight(hd, vol, junk), NEW ns, NodesRight(ns, vol),
           NEW dir \in DOMAIN ns, ns[dir].type = "directory"
    PROVE  /\ NodesRight(ext2_scan(hd, ns, dir, junk), vol)
           /\ Scanned(ns, ext2_scan(hd, ns, dir, junk))
<1>1. IsSeq(ns) /\ Len(ns) \in Nat /\ DOMAIN ns = 1 .. Len(ns)
  BY OneMore DEF NodesRight
<1>2. PICK x : x = ns[dir] /\ NodeRight(x, vol) /\ x.type = "directory"
  BY DEF NodesRight
<1>3. PICK inode : inode = ext2_read_inode(hd, x.ext2inode, junk)
  OBVIOUS
<1>4. PICK map : map = IF x.map = NULL THEN ext2_read_file(hd, inode) ELSE x.map
  OBVIOUS
<1>5. PICK es : es = Entries(map, inode.i_size)
  OBVIOUS
<1> DEFINE file == vol[x.ext2inode]
<1>6. \/ Len(es) = 0 /\ DOMAIN es = {} /\ (x.ext2inode # 0 => DOMAIN file.entries = {})
      \/ x.ext2inode # 0 /\ IsListing(file, DOMAIN vol) /\ Lists(es, file)
  <2>1. CASE x.ext2inode = 0
    <3>1. inode.i_size = 0
      BY <1>3, <2>1 DEF ReadsRight
    <3> QED BY <1>5, <2>1, <3>1, NothingToFind
  <2>2. CASE x.ext2inode # 0
    <3>1. /\ x.ext2inode \in DOMAIN vol /\ file.mode \in DirectoryModes
          /\ x.map # NULL => Copied(x.map, file)
      BY <1>2, <2>2 DEF NodeRight
    <3>2. /\ IsFileOf(file, DOMAIN vol) /\ inode.i_size = Len(file.content)
          /\ Copied(ext2_read_file(hd, inode), file)
      BY <1>3, <3>1 DEF ReadsRight
    <3>3. Copied(map, file)
      BY <1>4, <3>1, <3>2
    <3>4. CASE file.mode = EXT2_S_IFDIR
      <4>1. IsListing(file, DOMAIN vol) /\ Len(file.content) \in Nat
        BY <3>2, <3>4 DEF IsFileOf
      <4> QED BY <1>5, <2>2, <3>2, <3>3, <4>1, EntriesAreFound
    <3>5. CASE file.mode # EXT2_S_IFDIR
      <4>1. file.content = <<>> /\ file.entries = <<>>
        BY <3>1, <3>2, <3>5 DEF IsFileOf, DirectoryModes
      <4>2. inode.i_size = 0 /\ DOMAIN file.entries = {}
        BY <3>2, <4>1
      <4> QED BY <1>5, <4>2, NothingToFind
    <3> QED BY <3>4, <3>5
  <2> QED BY <2>1, <2>2
<1>7. PICK n \in Nat : n = Len(es)
  BY <1>6 DEF Lists
<1>8. PICK f, t : /\ Scanning(f, hd, ns, dir, es, junk)
                  /\ t = ext2_scan(hd, ns, dir, junk)
                  /\ t = [f[n] EXCEPT ![dir].scanned = TRUE]
  BY <1>1, <1>2, <1>3, <1>4, <1>5, <1>7, ScanSteps
<1> HIDE DEF file
<1> DEFINE Kept(k) ==
             /\ NodesRight(f[k], vol) /\ Grown(ns, f[k])
             /\ \A j \in 1 .. k : es[j].name \notin Dots => Entered(f[k], dir, es[j].name)
           T == {k \in 0 .. n : Kept(k)}
<1>9. 0 \in T
  <2>1. f[0] = ns
    BY <1>8 DEF Scanning
  <2>2. Grown(ns, ns)
    BY <1>1 DEF Grown
  <2> QED BY <2>1, <2>2
<1>10. ASSUME NEW k \in 1 .. n, k - 1 \in T PROVE k \in T
  <2>1. k \in 0 .. n /\ k - 1 \in 0 .. n /\ Kept(k - 1)
    BY <1>10
  <2>2. f[k] = Enter(hd, f[k - 1], dir, es[k], junk)
    BY <1>7, <1>8 DEF Scanning
  <2>3. x.ext2inode # 0 /\ IsListing(file, DOMAIN vol) /\ Lists(es, file)
    BY <1>6, <1>7
  <2>4. PICK o \in file.starts : es[k] = file.content[o + 1]
    BY <1>7, <2>3 DEF Lists
  <2>5. PICK g, h : g = f[k - 1] /\ h = f[k]
    OBVIOUS
  <2>6. NodesRight(g, vol) /\ Grown(ns, g) /\ dir \in DOMAIN g /\ g[dir] = x
    <3>1. NodesRight(g, vol) /\ Grown(ns, g)
      BY <2>1, <2>5
    <3> QED BY <1>2, <3>1 DEF Grown
  <2>7. /\ NodesRight(h, vol) /\ Grown(g, h)
        /\ es[k].name \notin Dots => Entered(h, dir, es[k].name)
    <3>1. file = vol[g[dir].ext2inode] /\ g[dir].ext2inode # 0
      BY <2>3, <2>6 DEF file
    <3> QED BY <2>2, <2>3, <2>4, <2>5, <2>6, <3>1, EnterKeeps
  <2>8. Grown(ns, h)
    BY <2>6, <2>7, GrownTwice
  <2>9. ASSUME NEW j \in 1 .. k, es[j].name \notin Dots PROVE Entered(h, dir, es[j].name)
    <3>1. CASE j = k
      BY <2>7, <2>9, <3>1
    <3>2. CASE j # k
      <4>1. j \in 1 .. k - 1
        BY <3>2
      <4>2. Entered(g, dir, es[j].name)
        BY <2>1, <2>5, <2>9, <4>1
      <4> QED BY <2>7, <4>2, ShownGrown
    <3> QED BY <3>1, <3>2
  <2> QED BY <2>1, <2>5, <2>7, <2>8, <2>9
<1>11. Kept(n)
  <2>1. 0 .. n \subseteq T
    <3> HIDE DEF T
    <3> QED BY <1>9, <1>10, RangeInduction
  <2>2. n \in 0 .. n
    OBVIOUS
  <2> QED BY <2>1, <2>2
<1>12. PICK g : g = f[n] /\ NodesRight(g, vol) /\ Grown(ns, g)
  BY <1>11
<1>13. ASSUME x.ext2inode # 0, NEW name \in DOMAIN file.entries PROVE Entered(g, dir, name)
  <2>1. IsListing(file, DOMAIN vol) /\ Lists(es, file)
    BY <1>6, <1>13
  <2>2. PICK o \in file.starts : /\ file.content[o + 1].name \notin Dots
                                 /\ file.content[o + 1].name = name
    BY <2>1 DEF IsListing
  <2>3. PICK k \in 1 .. n : es[k] = file.content[o + 1]
    BY <1>7, <2>1 DEF Lists
  <2> QED BY <1>11, <1>12, <2>2, <2>3
<1> HIDE DEF Kept, T
<1>14. dir \in DOMAIN g /\ g[dir] = x /\ t = [g EXCEPT ![dir].scanned = TRUE]
  BY <1>2, <1>8, <1>12 DEF Grown
<1>15. IsSeq(g) /\ Len(g) \in Nat /\ DOMAIN g = 1 .. Len(g)
  BY <1>12, OneMore DEF NodesRight
<1>16. /\ DOMAIN t = DOMAIN g
       /\ \A i \in DOMAIN g : i # dir => t[i] = g[i]
       /\ t[dir] = [x EXCEPT !.scanned = TRUE]
  BY <1>14
<1>17. IsSeq(t) /\ Len(t) = Len(g)
  <2>1. PICK L \in Nat : L = Len(g) /\ DOMAIN t = 1 .. L
    BY <1>15, <1>16
  <2>2. t = [i \in 1 .. L |-> t[i]]
    BY <1>14, <2>1, <1>15
  <2>3. \A i \in 1 .. L : t[i] \in Range(t)
    BY <2>1 DEF Range
  <2>4. t \in Seq(Range(t)) /\ Len(t) = L
    BY <2>2, <2>3
  <2> QED BY <2>1, <2>4 DEF IsSeq
<1>18. IsNode(t[dir]) /\ Alike(t[dir], x) /\ t[dir].map = x.map
  <2>1. PICK y : y = t[dir]
    OBVIOUS
  <2>2. y = [x EXCEPT !.scanned = TRUE] /\ IsNode(x)
    BY <1>2, <1>16, <2>1 DEF NodeRight
  <2>3. /\ y.parent = x.parent /\ y.name = x.name /\ y.ext2inode = x.ext2inode
        /\ y.type = x.type /\ y.size = x.size /\ y.map = x.map /\ y.scanned = TRUE
    BY <2>2 DEF IsNode
  <2>4. IsNode(y)
    BY <2>2, <2>3 DEF IsNode
  <2> QED BY <2>1, <2>3, <2>4 DEF Alike
<1>19. ASSUME NEW i \in DOMAIN g
       PROVE  IsNode(t[i]) /\ Alike(t[i], g[i]) /\ t[i].map = g[i].map
  <2>1. CASE i = dir
    BY <1>14, <1>18, <2>1
  <2>2. CASE i # dir
    BY <1>12, <1>16, <2>2 DEF NodesRight, NodeRight, Alike
  <2> QED BY <2>1, <2>2
<1>20. NodesRight(t, vol)
  <2>1. \A i \in DOMAIN g : t[i].map # NULL /\ t[i].ext2inode # 0
                            => Copied(t[i].map, vol[t[i].ext2inode])
    BY <1>12, <1>19 DEF NodesRight, NodeRight, Alike
  <2>2. ASSUME NEW d \in DOMAIN g, t[d].scanned, g[d].ext2inode # 0,
               NEW name \in DOMAIN vol[g[d].ext2inode].entries
        PROVE  Entered(g, d, name)
    <3>1. CASE d = dir
      BY <1>13, <1>14, <2>2, <3>1 DEF file
    <3>2. CASE d # dir
      BY <1>12, <1>16, <2>2, <3>2 DEF NodesRight, ScannedShows
    <3> QED BY <3>1, <3>2
  <2>3. \A i \in DOMAIN g : t[i].scanned => g[i].type = "directory"
    BY <1>2, <1>12, <1>14, <1>16 DEF NodesRight, NodeRight
  <2> QED BY <1>12, <1>16, <1>17, <1>19, <2>1, <2>2, <2>3, AlikeRight
<1>21. Scanned(ns, t)
  <2>1. \A i \in DOMAIN ns : i \in DOMAIN g /\ g[i] = ns[i]
    BY <1>12 DEF Grown
  <2>2. /\ Len(ns) \in Nat /\ Len(t) \in Nat /\ Len(ns) <= Len(t)
        /\ DOMAIN ns = 1 .. Len(ns) /\ DOMAIN t = 1 .. Len(t)
    BY <1>12, <1>16, <1>17 DEF Grown
  <2> QED BY <1>19, <2>1, <2>2 DEF Scanned
<1> QED BY <1>8, <1>20, <1>21

(* A descriptor has read what its file holds, in order.                    *)
GotRight(x, file) ==
    /\ IsSeq(x.got) /\ Len(x.got) = x.ptr
    /\ x.ptr \in 0 .. Len(file.content)
    /\ \A i \in 1 .. x.ptr : i <= file.whole => x.got[i] = file.content[i]
    /\ x.ended => x.ptr = Len(file.content)

IsFd(x) == x = [node |-> x.node, ptr |-> x.ptr, got |-> x.got, ended |-> x.ended]

FdRight(x, ns, vol) ==
    /\ IsFd(x)
    /\ x.node \in 0 .. Len(ns)
    /\ x.node = 0 => x = Shut
    /\ x.node # 0 /\ ns[x.node].type = "file" /\ ns[x.node].ext2inode # 0 =>
         /\ Copied(ns[x.node].map, vol[ns[x.node].ext2inode])
         /\ GotRight(x, vol[ns[x.node].ext2inode])

DisksRight == \E d \in Disks : volume = d.volume /\ disk = d.disk

PartitionsRight ==
    /\ DOMAIN partition_info = Partitions
    /\ \A n \in Partitions : partition_info[n] \in {NULL, disk[PARTS + n]}

KnownAs(hd, n) ==
    /\ partition_info[n] = disk[PARTS + n]
    /\ Super(disk, n).s_magic
    /\ Knows(hd, disk, n)

MountRight == nodes # <<>> => \E n \in Partitions : KnownAs(mounted, n)

FdsRight ==
    /\ DOMAIN fd = Fds
    /\ \A f \in Fds : FdRight(fd[f], nodes, volume)

(* The inductive invariant: what is mounted is known, every node shows the *)
(* inode it was made from, and every descriptor has a copy of its file.    *)
Ext2Inv ==
    /\ DisksRight
    /\ PartitionsRight
    /\ MountRight
    /\ NodesRight(nodes, volume)
    /\ FdsRight

-----------------------------------------------------------------------------
(* The code reads the files of a volume from the disk it is on.            *)
THEOREM DiskReadsRight ==
    ASSUME NEW n \in Partitions, NEW hd, Mounts(hd, disk, n), Super(disk, n).s_magic,
           DisksRight, NEW junk \in Junks
    PROVE  ReadsRight(hd, volume, junk)
<1>1. Holds(disk, n, volume)
  <2>1. PICK d \in Disks : volume = d.volume /\ disk = d.disk
    BY DEF DisksRight
  <2> QED BY <2>1, VolumesAssumption
<1>2. Reads(disk, n) /\ Knows(hd, disk, n) /\ HasGroups(Super(disk, n))
  BY DEF Mounts
<1>3. ext2_read_inode(hd, 0, junk).i_size = 0
  <2>1. ext2_read_inode(hd, 0, junk) = junk
    BY <1>2, NoInodeIsJunk
  <2> QED BY <2>1, VolumesAssumption
<1>4. ASSUME NEW i \in DOMAIN volume
      PROVE  /\ i # 0 /\ IsFileOf(volume[i], DOMAIN volume)
             /\ ext2_read_inode(hd, i, junk).i_size = Len(volume[i].content)
             /\ ext2_read_inode(hd, i, junk).i_mode = volume[i].mode
             /\ Copied(ext2_read_file(hd, ext2_read_inode(hd, i, junk)), volume[i])
  <2>1. /\ i \in 1 .. Super(disk, n).s_inodes_count
        /\ GroupOf(disk, n, (i - 1) \div Super(disk, n).s_inodes_per_group) \in Nat
        /\ IsFileOf(volume[i], DOMAIN volume)
        /\ HoldsFile(disk, n, InodeOf(disk, n, i), volume[i])
    BY <1>1 DEF Holds
  <2>2. PICK inode : inode = InodeOf(disk, n, i)
    OBVIOUS
  <2>3. ext2_read_inode(hd, i, junk) = inode
    BY <1>2, <2>1, <2>2, InodeIsRead
  <2>4. inode.i_size = Len(volume[i].content) /\ inode.i_mode = volume[i].mode
    BY <2>1, <2>2 DEF HoldsFile
  <2>5. Copied(ext2_read_file(hd, inode), volume[i])
    <3>1. Len(volume[i].content) \in Nat /\ volume[i].whole \in 0 .. Len(volume[i].content)
      <4>1. Width \in Nat
        BY VolumesAssumption
      <4> QED BY <2>1, <4>1 DEF IsFileOf
    <3> QED BY <2>1, <2>2, <3>1, FileIsCopied
  <2>6. i # 0
    <3>1. Super(disk, n).s_inodes_count \in Nat
      BY <1>2 DEF HasGroups
    <3> QED BY <2>1, <3>1
  <2> QED BY <2>1, <2>3, <2>4, <2>5, <2>6
<1> QED BY <1>3, <1>4 DEF ReadsRight

(* What was found out by mounting holds on.                                *)
LEMMA MountedIsKnown ==
    ASSUME Ext2Inv, nodes # <<>>
    PROVE  \A junk \in Junks : ReadsRight(mounted, volume, junk)
<1>1. PICK n \in Partitions : KnownAs(mounted, n)
  BY DEF Ext2Inv, MountRight
<1>2. PICK d \in Disks : volume = d.volume /\ disk = d.disk
  BY DEF Ext2Inv, DisksRight
<1>3. Mounts(mounted, disk, n)
  <2>1. disk[PARTS + n].s_lba \in Nat /\ HasGroups(Super(disk, n))
    BY <1>1, <1>2, VolumesAssumption DEF KnownAs, Holds
  <2> QED BY <1>1, <2>1 DEF KnownAs, Mounts, Reads
<1> QED BY <1>1, <1>3, DiskReadsRight DEF KnownAs, Ext2Inv

(* A descriptor stays right when its node is replaced by one like it, with *)
(* the same copy of the file or a new one.                                 *)
LEMMA FdKeeps ==
    ASSUME NEW x, NEW ns, NEW vol, FdRight(x, ns, vol), NEW t,
           Len(ns) \in Nat, DOMAIN ns = 1 .. Len(ns), Len(t) \in Nat, Len(ns) <= Len(t),
           \A i \in DOMAIN ns : Alike(t[i], ns[i]),
           \A i \in DOMAIN ns : t[i].map = ns[i].map
             \/ (ns[i].ext2inode # 0 => Copied(t[i].map, vol[ns[i].ext2inode]))
    PROVE  FdRight(x, t, vol)
<1>1. x.node \in 0 .. Len(t)
  BY DEF FdRight
<1>2. ASSUME x.node # 0, t[x.node].type = "file", t[x.node].ext2inode # 0
      PROVE  /\ Copied(t[x.node].map, vol[t[x.node].ext2inode])
             /\ GotRight(x, vol[t[x.node].ext2inode])
  <2>1. x.node \in DOMAIN ns
    BY <1>2 DEF FdRight
  <2>2. t[x.node].type = ns[x.node].type /\ t[x.node].ext2inode = ns[x.node].ext2inode
    BY <2>1 DEF Alike
  <2>3. /\ Copied(ns[x.node].map, vol[ns[x.node].ext2inode])
        /\ GotRight(x, vol[ns[x.node].ext2inode])
    BY <1>2, <2>2 DEF FdRight
  <2>4. t[x.node].map = ns[x.node].map \/ Copied(t[x.node].map, vol[ns[x.node].ext2inode])
    BY <1>2, <2>1, <2>2
  <2> QED BY <2>2, <2>3, <2>4
<1> QED BY <1>1, <1>2 DEF FdRight

-----------------------------------------------------------------------------
(* The invariant holds at the start: nothing is installed, mounted or      *)
(* open.                                                                   *)
LEMMA Ext2InvInit == Ext2Init => Ext2Inv
<1> SUFFICES ASSUME Ext2Init PROVE Ext2Inv
  OBVIOUS
<1>1. DisksRight /\ PartitionsRight /\ MountRight
  BY DEF Ext2Init, DisksRight, PartitionsRight, MountRight
<1>2. nodes = <<>> /\ DOMAIN nodes = {} /\ Len(nodes) = 0
  BY DEF Ext2Init
<1>3. NodesRight(nodes, volume)
  <2>1. IsSeq(nodes)
    BY <1>2 DEF IsSeq
  <2> QED BY <1>2, <2>1 DEF NodesRight, NamesOnce, ScannedShows
<1>4. FdsRight
  <2>1. DOMAIN fd = Fds /\ \A f \in Fds : fd[f] = Shut
    BY DEF Ext2Init
  <2>2. FdRight(Shut, nodes, volume)
    BY <1>2 DEF FdRight, IsFd, Shut
  <2> QED BY <2>1, <2>2 DEF FdsRight
<1> QED BY <1>1, <1>3, <1>4 DEF Ext2Inv

(* Installing a partition, also one that is mounted, keeps the invariant.  *)
LEMMA InstallKeeps ==
    ASSUME Ext2Inv, NEW n \in Partitions, Install(n)
    PROVE  Ext2Inv'
<1>1. PICK p : p = partition_info /\ DOMAIN p = Partitions
               /\ \A x \in Partitions : p[x] \in {NULL, disk[PARTS + x]}
  BY DEF Ext2Inv, PartitionsRight
<1>2. Partition(n) = disk[PARTS + n]
  <2>1. PARTS + n \in Nat /\ 1 \in 1 .. 1
    BY DiskAssumption
  <2>2. IdeRead(PARTS + n, 1)[1] = disk[PARTS + n + 1 - 1]
    BY <2>1, IdeReadsTheWindow
  <2>3. PARTS + n + 1 - 1 = PARTS + n
    BY DiskAssumption
  <2> QED BY <2>2, <2>3 DEF Partition
<1>3. /\ DOMAIN partition_info' = Partitions
      /\ partition_info'[n] = disk[PARTS + n]
      /\ \A x \in Partitions : x # n => partition_info'[x] = p[x]
  BY <1>1, <1>2 DEF Install
<1>4. UNCHANGED <<disk, volume, mounted, nodes, fd>>
  BY DEF Install
<1>5. PartitionsRight'
  BY <1>1, <1>3, <1>4 DEF PartitionsRight
<1>6. MountRight'
  <2> SUFFICES ASSUME nodes # <<>> PROVE \E x \in Partitions : KnownAs(mounted, x)'
    BY <1>4 DEF MountRight
  <2>1. PICK x \in Partitions : KnownAs(mounted, x)
    BY DEF Ext2Inv, MountRight
  <2>2. partition_info'[x] = disk[PARTS + x]
    BY <1>1, <1>3, <2>1 DEF KnownAs
  <2> QED BY <1>4, <2>1, <2>2 DEF KnownAs
<1>7. DisksRight' /\ NodesRight(nodes, volume)' /\ FdsRight'
  BY <1>4 DEF Ext2Inv, DisksRight, FdsRight
<1> QED BY <1>5, <1>6, <1>7 DEF Ext2Inv

(* The nodes after a scan, for the descriptors.                            *)
LEMMA ScanKeepsFds ==
    ASSUME NEW ns, NEW vol, NodesRight(ns, vol), NEW t, Scanned(ns, t),
           NEW fds, \A f \in Fds : FdRight(fds[f], ns, vol)
    PROVE  \A f \in Fds : FdRight(fds[f], t, vol)
<1> SUFFICES ASSUME NEW f \in Fds PROVE FdRight(fds[f], t, vol)
  OBVIOUS
<1>1. PICK x : x = fds[f] /\ FdRight(x, ns, vol)
  OBVIOUS
<1>2. /\ Len(ns) \in Nat /\ DOMAIN ns = 1 .. Len(ns) /\ Len(t) \in Nat /\ Len(ns) <= Len(t)
      /\ \A i \in DOMAIN ns : Alike(t[i], ns[i])
      /\ \A i \in DOMAIN ns : t[i].map = ns[i].map
           \/ (ns[i].ext2inode # 0 => Copied(t[i].map, vol[ns[i].ext2inode]))
  BY DEF Scanned
<1> QED BY <1>1, <1>2, FdKeeps

(* Mounting keeps the invariant: there are no nodes and no open            *)
(* descriptors when it begins.                                             *)
LEMMA MountKeeps ==
    ASSUME Ext2Inv, NEW n \in Partitions, Mount(n)
    PROVE  Ext2Inv'
<1>1. PICK d \in Disks : volume = d.volume /\ disk = d.disk
  BY DEF Ext2Inv, DisksRight
<1>2. partition_info[n] = disk[PARTS + n] /\ disk[PARTS + n].s_lba \in Nat
  BY <1>1, VolumesAssumption DEF Mount, Ext2Inv, PartitionsRight
<1>3. Reads(disk, n)
  BY <1>2 DEF Reads
<1>4. Super(disk, n).s_magic
  BY <1>3, SuperIsRead DEF Mount
<1>5. Holds(disk, n, volume)
  BY <1>1, <1>4, VolumesAssumption
<1>6. Mounts(DiskInfo(n), disk, n)
  BY <1>3, <1>5, MountKnowsTheDisk DEF Mounts, Holds
<1>7. PICK hd : hd = DiskInfo(n)
  OBVIOUS
<1>8. PICK root, ns : root = Node(0, "boot", EXT2_INUM_ROOT, "directory", 0) /\ ns = <<root>>
  OBVIOUS
<1>9. PICK junk \in Junks : nodes' = ext2_scan(hd, ns, 1, junk)
  BY <1>7, <1>8 DEF Mount
<1>10. /\ IsNode(root) /\ root.parent = 0 /\ root.ext2inode = EXT2_INUM_ROOT
       /\ root.type = "directory" /\ root.map = NULL /\ root.scanned = FALSE
  BY <1>8 DEF Node, IsNode
<1>11. Len(ns) = 1 /\ DOMAIN ns = {1} /\ ns[1] = root /\ IsSeq(ns)
  <2>1. Len(ns) = 1 /\ DOMAIN ns = {1} /\ ns[1] = root
    BY <1>8
  <2>2. ns \in Seq({root}) /\ root \in Range(ns)
    BY <1>8, <2>1 DEF Range
  <2>3. ns = [i \in 1 .. 1 |-> ns[i]] /\ \A i \in 1 .. 1 : ns[i] \in Range(ns)
    BY <1>8, <2>1, <2>2
  <2>4. ns \in Seq(Range(ns))
    BY <2>3
  <2> QED BY <2>1, <2>4 DEF IsSeq
<1>12. NodesRight(ns, volume)
  <2>1. EXT2_INUM_ROOT \in DOMAIN volume /\ volume[EXT2_INUM_ROOT].mode = EXT2_S_IFDIR
        /\ EXT2_INUM_ROOT # 0
    BY <1>5 DEF Holds, EXT2_INUM_ROOT
  <2>2. NodeRight(root, volume)
    BY <1>10, <2>1 DEF NodeRight, DirectoryModes
  <2>3. ChildRight(root, ns, volume)
    BY <1>10 DEF ChildRight
  <2>4. NamesOnce(ns)
    BY <1>11 DEF NamesOnce
  <2>5. ScannedShows(ns, volume)
    BY <1>10, <1>11 DEF ScannedShows
  <2> QED BY <1>11, <2>2, <2>3, <2>4, <2>5 DEF NodesRight
<1>13. ReadsRight(hd, volume, junk)
  BY <1>4, <1>6, <1>7, DiskReadsRight DEF Ext2Inv
<1>14. NodesRight(nodes', volume) /\ Scanned(ns, nodes')
  BY <1>9, <1>10, <1>11, <1>12, <1>13, ScanShowsTheDirectory
<1>15. UNCHANGED <<disk, partition_info, volume, fd>> /\ mounted' = hd
  BY <1>7 DEF Mount
<1>16. DisksRight' /\ PartitionsRight'
  BY <1>15 DEF Ext2Inv, DisksRight, PartitionsRight
<1>17. MountRight'
  <2>1. Knows(hd, disk, n)
    BY <1>6, <1>7 DEF Mounts
  <2> QED BY <1>2, <1>4, <1>15, <2>1 DEF MountRight, KnownAs
<1>18. FdsRight'
  <2>1. nodes = <<>> /\ Len(nodes) = 0
    BY DEF Mount
  <2>2. Len(nodes') \in Nat
    BY <1>14 DEF Scanned
  <2>3. ASSUME NEW f \in Fds PROVE FdRight(fd[f], nodes', volume)
    <3>1. FdRight(fd[f], nodes, volume)
      BY DEF Ext2Inv, FdsRight
    <3> QED BY <2>1, <2>2, <3>1 DEF FdRight
  <2>4. DOMAIN fd = Fds
    BY DEF Ext2Inv, FdsRight
  <2> QED BY <1>15, <2>3, <2>4 DEF FdsRight
<1> QED BY <1>14, <1>15, <1>16, <1>17, <1>18 DEF Ext2Inv

(* Scanning a directory keeps the invariant.                               *)
LEMMA ScanKeeps ==
    ASSUME Ext2Inv, NEW d \in DOMAIN nodes, Scan(d)
    PROVE  Ext2Inv'
<1>1. nodes # <<>>
  OBVIOUS
<1>2. PICK junk \in Junks : nodes' = ext2_scan(mounted, nodes, d, junk)
  BY DEF Scan
<1>3. ReadsRight(mounted, volume, junk)
  BY <1>1, MountedIsKnown
<1>4. NodesRight(nodes', volume) /\ Scanned(nodes, nodes')
  BY <1>2, <1>3, ScanShowsTheDirectory DEF Ext2Inv, Scan
<1>5. UNCHANGED <<disk, partition_info, volume, mounted, fd>>
  BY DEF Scan
<1>6. DisksRight' /\ PartitionsRight' /\ MountRight'
  BY <1>1, <1>5 DEF Ext2Inv, DisksRight, PartitionsRight, MountRight, KnownAs
<1>7. FdsRight'
  <2>1. \A f \in Fds : FdRight(fd[f], nodes, volume)
    BY DEF Ext2Inv, FdsRight
  <2>2. \A f \in Fds : FdRight(fd[f], nodes', volume)
    BY <1>4, <2>1, ScanKeepsFds DEF Ext2Inv
  <2>3. DOMAIN fd = Fds
    BY DEF Ext2Inv, FdsRight
  <2> QED BY <1>5, <2>2, <2>3 DEF FdsRight
<1> QED BY <1>4, <1>5, <1>6, <1>7 DEF Ext2Inv

(* Opening a file keeps the invariant, also for the descriptors that the   *)
(* file is open on by then.                                                *)
LEMMA OpenKeeps ==
    ASSUME Ext2Inv, NEW f \in Fds, NEW n \in DOMAIN nodes, Open(f, n)
    PROVE  Ext2Inv'
<1>1. nodes # <<>> /\ NodesRight(nodes, volume)
  BY DEF Ext2Inv
<1>2. PICK junk \in Junks :
        nodes' = [nodes EXCEPT ![n].map =
                     ext2_read_file(mounted, ext2_read_inode(mounted, nodes[n].ext2inode, junk))]
  BY DEF Open
<1>3. PICK map : map = ext2_read_file(mounted, ext2_read_inode(mounted, nodes[n].ext2inode, junk))
  OBVIOUS
<1>4. nodes[n].ext2inode # 0 => Copied(map, volume[nodes[n].ext2inode])
  <2>1. ReadsRight(mounted, volume, junk)
    BY <1>1, MountedIsKnown
  <2>2. nodes[n].ext2inode \in {0} \cup DOMAIN volume
    BY <1>1 DEF NodesRight, NodeRight
  <2> QED BY <1>3, <2>1, <2>2 DEF ReadsRight
<1>5. PICK ns, t : ns = nodes /\ t = nodes'
  OBVIOUS
<1>6. IsSeq(ns) /\ Len(ns) \in Nat /\ DOMAIN ns = 1 .. Len(ns)
  BY <1>1, <1>5, OneMore DEF NodesRight
<1>7. /\ t = [ns EXCEPT ![n] = [ns[n] EXCEPT !.map = map]]
      /\ DOMAIN t = DOMAIN ns
      /\ \A i \in DOMAIN ns : i # n => t[i] = ns[i]
      /\ t[n] = [ns[n] EXCEPT !.map = map]
  BY <1>2, <1>3, <1>5
<1>8. IsNode(t[n]) /\ Alike(t[n], ns[n]) /\ t[n].map = map /\ t[n].scanned = ns[n].scanned
  <2>1. PICK x, y : x = ns[n] /\ y = t[n]
    OBVIOUS
  <2>2. y = [x EXCEPT !.map = map] /\ IsNode(x)
    BY <1>1, <1>5, <1>7, <2>1 DEF NodesRight, NodeRight
  <2>3. /\ y.parent = x.parent /\ y.name = x.name /\ y.ext2inode = x.ext2inode
        /\ y.type = x.type /\ y.size = x.size /\ y.map = map /\ y.scanned = x.scanned
    BY <2>2 DEF IsNode
  <2>4. IsNode(y)
    BY <2>2, <2>3 DEF IsNode
  <2> QED BY <2>1, <2>3, <2>4 DEF Alike
<1>9. ASSUME NEW i \in DOMAIN ns
      PROVE  /\ IsNode(t[i]) /\ Alike(t[i], ns[i]) /\ t[i].scanned = ns[i].scanned
             /\ t[i].map = ns[i].map
                  \/ (ns[i].ext2inode # 0 => Copied(t[i].map, volume[ns[i].ext2inode]))
  <2>1. CASE i = n
    BY <1>4, <1>5, <1>8, <2>1
  <2>2. CASE i # n
    BY <1>1, <1>5, <1>7, <2>2 DEF NodesRight, NodeRight, Alike
  <2> QED BY <2>1, <2>2
<1>10. IsSeq(t) /\ Len(t) = Len(ns)
  <2>1. PICK L \in Nat : L = Len(ns) /\ DOMAIN t = 1 .. L
    BY <1>6, <1>7
  <2>2. t = [i \in 1 .. L |-> t[i]]
    BY <1>6, <1>7, <2>1
  <2>3. \A i \in 1 .. L : t[i] \in Range(t)
    BY <2>1 DEF Range
  <2>4. t \in Seq(Range(t)) /\ Len(t) = L
    BY <2>2, <2>3
  <2> QED BY <2>1, <2>4 DEF IsSeq
<1>11. NodesRight(t, volume)
  <2>1. \A i \in DOMAIN ns : t[i].map # NULL /\ t[i].ext2inode # 0 =>
          Copied(t[i].map, volume[t[i].ext2inode])
    BY <1>1, <1>5, <1>9 DEF NodesRight, NodeRight, Alike
  <2>2. \A d \in DOMAIN ns : t[d].scanned /\ ns[d].ext2inode # 0 =>
          \A name \in DOMAIN volume[ns[d].ext2inode].entries : Entered(ns, d, name)
    BY <1>1, <1>5, <1>9 DEF NodesRight, ScannedShows
  <2>3. \A i \in DOMAIN ns : t[i].scanned => ns[i].type = "directory"
    BY <1>1, <1>5, <1>9 DEF NodesRight, NodeRight
  <2> QED BY <1>1, <1>5, <1>7, <1>9, <1>10, <2>1, <2>2, <2>3, AlikeRight
<1>12. UNCHANGED <<disk, partition_info, volume, mounted>>
       /\ fd' = [fd EXCEPT ![f].node = n] /\ fd[f] = Shut
  BY DEF Open
<1>13. DisksRight' /\ PartitionsRight' /\ MountRight'
  BY <1>1, <1>12 DEF Ext2Inv, DisksRight, PartitionsRight, MountRight, KnownAs
<1>14. ASSUME NEW g \in Fds PROVE FdRight(fd[g], t, volume)
  <2>1. FdRight(fd[g], ns, volume)
    BY <1>5 DEF Ext2Inv, FdsRight
  <2> QED BY <1>6, <1>9, <1>10, <2>1, FdKeeps
<1>15. PICK x : x = [Shut EXCEPT !.node = n]
  OBVIOUS
<1>16. DOMAIN fd' = Fds /\ fd'[f] = x /\ \A g \in Fds : g # f => fd'[g] = fd[g]
  <2>1. DOMAIN fd = Fds
    BY DEF Ext2Inv, FdsRight
  <2> QED BY <1>12, <1>15, <2>1
<1>17. FdRight(x, t, volume)
  <2>1. IsFd(x) /\ x.node = n /\ x.ptr = 0 /\ x.got = <<>> /\ x.ended = FALSE
    BY <1>15 DEF IsFd, Shut
  <2>2. n \in 1 .. Len(t)
    BY <1>5, <1>6, <1>10
  <2>3. ASSUME t[n].ext2inode # 0, t[n].type = "file"
        PROVE  Copied(t[n].map, volume[t[n].ext2inode]) /\ GotRight(x, volume[t[n].ext2inode])
    <3>1. t[n].ext2inode = ns[n].ext2inode /\ t[n].parent = ns[n].parent
      BY <1>8 DEF Alike
    <3>2. Copied(t[n].map, volume[t[n].ext2inode])
      BY <1>4, <1>5, <1>8, <2>3, <3>1
    <3>3. Len(volume[t[n].ext2inode].content) \in Nat
      <4>1. ReadsRight(mounted, volume, junk)
        BY <1>1, MountedIsKnown
      <4>2. t[n].ext2inode \in DOMAIN volume
        BY <1>1, <1>5, <2>3, <3>1 DEF NodesRight, NodeRight
      <4>3. Width \in Nat
        BY VolumesAssumption
      <4> QED BY <4>1, <4>2, <4>3 DEF ReadsRight, IsFileOf
    <3>4. IsSeq(x.got) /\ Len(x.got) = 0
      BY <2>1 DEF IsSeq
    <3>5. GotRight(x, volume[t[n].ext2inode])
      BY <2>1, <3>3, <3>4 DEF GotRight
    <3> QED BY <3>2, <3>5
  <2> QED BY <2>1, <2>2, <2>3 DEF FdRight
<1>18. FdsRight'
  <2>1. ASSUME NEW g \in Fds PROVE FdRight(fd'[g], t, volume)
    BY <1>14, <1>16, <1>17
  <2> QED BY <1>5, <1>12, <1>16, <2>1 DEF FdsRight
<1> QED BY <1>5, <1>11, <1>12, <1>13, <1>18 DEF Ext2Inv

(* Closing a descriptor keeps the invariant.                               *)
LEMMA CloseKeeps ==
    ASSUME Ext2Inv, NEW f \in Fds, Close(f)
    PROVE  Ext2Inv'
<1>1. UNCHANGED <<disk, partition_info, volume, mounted, nodes>>
      /\ fd' = [fd EXCEPT ![f] = Shut]
  BY DEF Close
<1>2. DisksRight' /\ PartitionsRight' /\ MountRight' /\ NodesRight(nodes, volume)'
  BY <1>1 DEF Ext2Inv, DisksRight, PartitionsRight, MountRight, KnownAs
<1>3. DOMAIN fd' = Fds /\ fd'[f] = Shut /\ \A g \in Fds : g # f => fd'[g] = fd[g]
  BY <1>1 DEF Ext2Inv, FdsRight
<1>4. FdRight(Shut, nodes, volume)
  <2>1. Len(nodes) \in Nat
    BY OneMore DEF Ext2Inv, NodesRight
  <2> QED BY <2>1 DEF FdRight, IsFd, Shut
<1>5. \A g \in Fds : FdRight(fd'[g], nodes, volume)
  BY <1>3, <1>4 DEF Ext2Inv, FdsRight
<1> QED BY <1>1, <1>2, <1>3, <1>5 DEF Ext2Inv, FdsRight

(* A mounted volume has the files that the format allows.                  *)
LEMMA VolumeIsRight ==
    ASSUME Ext2Inv, nodes # <<>>
    PROVE  \A i \in DOMAIN volume : i # 0 /\ IsFileOf(volume[i], DOMAIN volume)
<1>1. PICK n \in Partitions : KnownAs(mounted, n)
  BY DEF Ext2Inv, MountRight
<1>2. PICK d \in Disks : volume = d.volume /\ disk = d.disk
  BY DEF Ext2Inv, DisksRight
<1>3. Holds(disk, n, volume)
  BY <1>1, <1>2, VolumesAssumption DEF KnownAs
<1>4. Super(disk, n).s_inodes_count \in Nat
  BY <1>3 DEF Holds, HasGroups
<1> QED BY <1>3, <1>4 DEF Holds

(* The amount that the read call moves on by is never below zero, and what *)
(* is read is what the copy of the file has from the position on.          *)
LEMMA ReadKeeps ==
    ASSUME Ext2Inv, NEW f \in Fds, NEW sizee \in Amounts, Ext2Read(f, sizee)
    PROVE  Ext2Inv'
<1>1. PICK x, y : x = fd[f] /\ y = fd'[f]
  OBVIOUS
<1>2. PICK n, pos, bufsize : n = x.node /\ pos = x.ptr /\ bufsize = Amount(n, pos, sizee)
  OBVIOUS
<1> DEFINE cell(i) == IF i \in DOMAIN nodes[n].map THEN nodes[n].map[i] ELSE JUNK
           e == [i \in 1 .. bufsize |-> cell(pos + i)]
<1>3. /\ n # 0 /\ nodes[n].type = "file"
      /\ fd' = [fd EXCEPT ![f].ptr = (pos + bufsize) % Width,
                          ![f].got = @ \o e,
                          ![f].ended = bufsize < sizee]
      /\ UNCHANGED <<disk, partition_info, volume, mounted, nodes>>
  BY <1>1, <1>2 DEF Ext2Read
<1>4. DOMAIN fd = Fds /\ FdRight(x, nodes, volume)
  BY <1>1 DEF Ext2Inv, FdsRight
<1>5. DOMAIN fd' = Fds /\ \A g \in Fds : g # f => fd'[g] = fd[g]
  <2> HIDE DEF e
  <2> QED BY <1>3, <1>4
<1>6. /\ IsFd(y) /\ y.node = n /\ y.ptr = (pos + bufsize) % Width
      /\ y.got = x.got \o e /\ y.ended = (bufsize < sizee)
  <2>1. y = [[[x EXCEPT !.ptr = (pos + bufsize) % Width] EXCEPT !.got = x.got \o e]
               EXCEPT !.ended = bufsize < sizee]
    <3> HIDE DEF e
    <3>1. x = [node |-> x.node, ptr |-> x.ptr, got |-> x.got, ended |-> x.ended]
      BY <1>4 DEF FdRight, IsFd
    <3> QED BY <1>1, <1>3, <1>4, <3>1
  <2>2. x = [node |-> x.node, ptr |-> x.ptr, got |-> x.got, ended |-> x.ended]
    BY <1>4 DEF FdRight, IsFd
  <2>3. y = [node |-> x.node, ptr |-> (pos + bufsize) % Width, got |-> x.got \o e,
             ended |-> bufsize < sizee]
    <3> HIDE DEF e
    <3> QED BY <2>1, <2>2
  <2> HIDE DEF e
  <2> QED BY <1>2, <2>3 DEF IsFd
<1>7. DisksRight' /\ PartitionsRight' /\ MountRight' /\ NodesRight(nodes, volume)'
  BY <1>3 DEF Ext2Inv, DisksRight, PartitionsRight, MountRight, KnownAs
<1>8. IsSeq(nodes) /\ Len(nodes) \in Nat /\ DOMAIN nodes = 1 .. Len(nodes)
      /\ n \in DOMAIN nodes /\ nodes # <<>>
  <2>1. IsSeq(nodes) /\ Len(nodes) \in Nat /\ DOMAIN nodes = 1 .. Len(nodes)
    BY OneMore DEF Ext2Inv, NodesRight
  <2>2. n \in 0 .. Len(nodes)
    BY <1>2, <1>4 DEF FdRight
  <2>3. n \in DOMAIN nodes
    <3>1. n # 0
      BY <1>3
    <3> QED BY <2>1, <2>2, <3>1
  <2> QED BY <2>1, <2>3
<1>9. ASSUME nodes[n].ext2inode # 0
      PROVE  GotRight(y, volume[nodes[n].ext2inode])
  <2>1. PICK file : file = volume[nodes[n].ext2inode]
    OBVIOUS
  <2>2. Copied(nodes[n].map, file) /\ GotRight(x, file)
    BY <1>2, <1>3, <1>4, <1>9, <2>1 DEF FdRight
  <2>3. NodeRight(nodes[n], volume)
    BY <1>8 DEF Ext2Inv, NodesRight
  <2>4. PICK size \in Nat : size = Len(file.content) /\ size < Width /\ Width \in Nat
                           /\ size = nodes[n].size
    <3>1. nodes[n].ext2inode \in DOMAIN volume /\ nodes[n].size = Len(file.content)
      BY <1>3, <1>9, <2>1, <2>3 DEF NodeRight
    <3>2. IsFileOf(file, DOMAIN volume)
      BY <1>8, <2>1, <3>1, VolumeIsRight
    <3>3. Width \in Nat
      BY VolumesAssumption
    <3> QED BY <3>1, <3>2, <3>3 DEF IsFileOf
  <2>5. pos \in 0 .. size /\ sizee \in Nat /\ sizee > 0
    BY <1>2, <2>2, <2>4, Ext2Assumption DEF GotRight
  <2>6. bufsize \in Nat /\ pos + bufsize <= size /\ (bufsize < sizee => pos + bufsize = size)
    <3>1. CASE pos + sizee > size
      <4>1. size - pos \in 0 .. Width - 1
        BY <2>4, <2>5
      <4>2. (size - pos) % Width = size - pos
        BY <2>4, <4>1
      <4>3. bufsize = size - pos
        BY <1>2, <2>4, <3>1, <4>2 DEF Amount
      <4> QED BY <2>4, <2>5, <4>3
    <3>2. CASE ~(pos + sizee > size)
      <4>1. bufsize = sizee
        BY <1>2, <2>4, <3>2 DEF Amount
      <4> QED BY <2>4, <2>5, <3>2, <4>1
    <3> QED BY <3>1, <3>2
  <2>7. (pos + bufsize) % Width = pos + bufsize
    <3>1. pos + bufsize \in 0 .. Width - 1
      BY <2>4, <2>5, <2>6
    <3> QED BY <2>4, <3>1
  <2>8. PICK g : g = e
    OBVIOUS
  <2>9. g = [i \in 1 .. bufsize |-> g[i]] /\ \A i \in 1 .. bufsize : g[i] = cell(pos + i)
    <3> HIDE DEF cell
    <3> QED BY <2>8
  <2> HIDE DEF e, cell
  <2>10. /\ IsSeq(y.got) /\ Len(y.got) = pos + bufsize
         /\ \A i \in 1 .. pos : y.got[i] = x.got[i]
         /\ \A i \in 1 .. bufsize : y.got[pos + i] = g[i]
    <3>1. IsSeq(x.got) /\ Len(x.got) = pos
      BY <1>2, <2>2 DEF GotRight
    <3>2. y.got = x.got \o g
      BY <1>6, <2>8
    <3>3. /\ IsSeq(x.got \o g) /\ Len(x.got \o g) = Len(x.got) + bufsize
          /\ \A i \in 1 .. Len(x.got) : (x.got \o g)[i] = x.got[i]
          /\ \A i \in 1 .. bufsize : (x.got \o g)[Len(x.got) + i] = g[i]
      <4>1. IsList(g, bufsize) /\ bufsize \in Nat
        BY <2>6, <2>9 DEF IsList
      <4>2. PICK s : s = x.got
        OBVIOUS
      <4>3. IsSeq(s)
        BY <3>1, <4>2
      <4>4. /\ IsSeq(s \o g) /\ Len(s \o g) = Len(s) + bufsize
            /\ \A i \in 1 .. Len(s) : (s \o g)[i] = s[i]
            /\ \A i \in 1 .. bufsize : (s \o g)[Len(s) + i] = g[i]
        BY <4>1, <4>3, OneAfterAnother
      <4> QED BY <4>2, <4>4
    <3> QED BY <3>1, <3>2, <3>3
  <2>11. ASSUME NEW i \in 1 .. pos + bufsize, i <= file.whole
         PROVE  y.got[i] = file.content[i]
    <3>1. CASE i <= pos
      <4>1. i \in 1 .. pos
        BY <2>5, <3>1
      <4> QED BY <1>2, <2>2, <2>10, <2>11, <4>1 DEF GotRight
    <3>2. CASE pos < i
      <4>1. PICK k \in 1 .. bufsize : pos + k = i
        <5>1. i - pos \in 1 .. bufsize /\ pos + (i - pos) = i
          BY <2>5, <2>6, <3>2
        <5> QED BY <5>1
      <4>2. i \in 1 .. size /\ i \in DOMAIN nodes[n].map
        BY <2>2, <2>4, <2>5, <2>6 DEF Copied
      <4>3. cell(i) = nodes[n].map[i]
        BY <4>2 DEF cell
      <4>4. nodes[n].map[i] = file.content[i]
        BY <2>2, <2>4, <2>11, <4>2 DEF Copied
      <4> QED BY <2>9, <2>10, <4>1, <4>3, <4>4
    <3> QED BY <2>5, <2>6, <3>1, <3>2
  <2>12. y.ended => y.ptr = size
    BY <1>6, <2>6, <2>7
  <2> QED BY <1>6, <2>1, <2>4, <2>5, <2>6, <2>7, <2>10, <2>11, <2>12 DEF GotRight
<1> HIDE DEF e, cell
<1>10. FdRight(y, nodes, volume)
  BY <1>2, <1>3, <1>4, <1>6, <1>9 DEF FdRight
<1>11. FdsRight'
  <2>1. \A g \in Fds : FdRight(fd'[g], nodes, volume)
    BY <1>1, <1>5, <1>10 DEF Ext2Inv, FdsRight
  <2> QED BY <1>3, <1>5, <2>1 DEF FdsRight
<1> QED BY <1>7, <1>11 DEF Ext2Inv

(* Every step keeps the invariant.                                         *)
LEMMA Ext2InvNext == Ext2Inv /\ [Ext2Next]_ext2Vars => Ext2Inv'
<1> SUFFICES ASSUME Ext2Inv, [Ext2Next]_ext2Vars PROVE Ext2Inv'
  OBVIOUS
<1> DEFINE Boot == \E n \in Partitions : Install(n) \/ Mount(n)
           Lookup == \E d \in DOMAIN nodes : Scan(d)
           Call == \E f \in Fds : \/ \E n \in DOMAIN nodes : Open(f, n)
                                  \/ \E sizee \in Amounts : Ext2Read(f, sizee)
                                  \/ Close(f)
<1>1. CASE Boot
  BY <1>1, InstallKeeps, MountKeeps
<1>2. CASE Lookup
  BY <1>2, ScanKeeps
<1>3. CASE Call
  BY <1>3, OpenKeeps, ReadKeeps, CloseKeeps
<1>4. CASE UNCHANGED ext2Vars
  BY <1>4 DEF ext2Vars, Ext2Inv, DisksRight, PartitionsRight, MountRight, KnownAs, FdsRight
<1>5. Ext2Next => Boot \/ Lookup \/ Call
  BY DEF Ext2Next
<1> HIDE DEF Boot, Lookup, Call
<1> QED BY <1>1, <1>2, <1>3, <1>4, <1>5

(* Ext2Inv is an invariant of the file system, on every disk that holds    *)
(* volumes in the format of module Volumes.                                *)
THEOREM Ext2InvHolds == Ext2Spec => []Ext2Inv
<1> QED BY Ext2InvInit, Ext2InvNext, PTL DEF Ext2Spec

(* What the descriptors have read is what the files hold.                  *)
LEMMA InvReads == Ext2Inv => ReadsWhatIsStored
<1> SUFFICES ASSUME Ext2Inv, NEW f \in Fds, fd[f].node # 0, IsFile(fd[f].node)
             PROVE  /\ Len(fd[f].got) = fd[f].ptr
                    /\ fd[f].ptr <= Len(Stored(f).content)
                    /\ \A i \in 1 .. fd[f].ptr :
                         i <= Stored(f).whole => fd[f].got[i] = Stored(f).content[i]
                    /\ fd[f].ended => fd[f].ptr = Len(Stored(f).content)
  BY DEF ReadsWhatIsStored
<1>1. PICK file : file = Stored(f)
  OBVIOUS
<1>2. GotRight(fd[f], file)
  BY <1>1 DEF Ext2Inv, FdsRight, FdRight, IsFile, Stored
<1>3. fd[f].ptr <= Len(file.content)
  BY <1>2 DEF GotRight
<1> QED BY <1>1, <1>2, <1>3 DEF GotRight

(* A program that reads an open file gets what is stored of it, in order   *)
(* and up to its end, whatever the sizes of the calls, of the blocks, of   *)
(* the sectors and of the file.                                            *)
THEOREM FilesAreRead == Ext2Spec => []ReadsWhatIsStored
<1> QED BY Ext2InvHolds, InvReads, PTL

(* What a scanned directory shows are the entries it has in use, each      *)
(* once.                                                                   *)
LEMMA InvLists == Ext2Inv => ListsTheDirectory
<1> SUFFICES ASSUME Ext2Inv, NEW d \in DOMAIN nodes, nodes[d].scanned, nodes[d].ext2inode # 0,
                    NEW held, held = volume[nodes[d].ext2inode].entries
             PROVE  /\ {nodes[i].name : i \in Listed(d)} = DOMAIN held
                    /\ Cardinality(Listed(d)) = Cardinality(DOMAIN held)
                    /\ \A i \in Listed(d) :
                         LET file == volume[held[nodes[i].name]] IN
                         /\ nodes[i].ext2inode = held[nodes[i].name]
                         /\ nodes[i].size = Len(file.content)
                         /\ file.mode \in {EXT2_S_IFDIR, EXT2_S_IFREG} =>
                              (nodes[i].type = "directory" <=> file.mode = EXT2_S_IFDIR)
  BY DEF ListsTheDirectory
<1>1. nodes # <<>> /\ NodesRight(nodes, volume)
  BY DEF Ext2Inv
<1>2. IsSeq(nodes) /\ Len(nodes) \in Nat /\ DOMAIN nodes = 1 .. Len(nodes) /\ d # 0
  BY <1>1, OneMore DEF NodesRight
<1>3. ASSUME NEW i \in Listed(d)
      PROVE  /\ nodes[i].name \in DOMAIN held
             /\ nodes[i].ext2inode = held[nodes[i].name]
             /\ nodes[i].size = Len(volume[held[nodes[i].name]].content)
             /\ nodes[i].type = "directory"
                  <=> volume[held[nodes[i].name]].mode \in DirectoryModes
  <2>1. i \in DOMAIN nodes /\ nodes[i].parent = d /\ nodes[i].ext2inode # 0
    BY DEF Listed
  <2>2. NodeRight(nodes[i], volume) /\ ChildRight(nodes[i], nodes, volume)
    BY <1>1, <2>1 DEF NodesRight
  <2>3. nodes[i].name \in DOMAIN held /\ nodes[i].ext2inode = held[nodes[i].name]
    BY <1>2, <2>1, <2>2 DEF ChildRight
  <2> QED BY <1>2, <2>1, <2>2, <2>3 DEF NodeRight
<1>4. ASSUME NEW name \in DOMAIN held PROVE \E i \in Listed(d) : nodes[i].name = name
  <2>1. PICK i \in DOMAIN nodes : nodes[i].parent = d /\ nodes[i].name = name
    BY <1>1 DEF NodesRight, ScannedShows, Entered
  <2>2. nodes[i].ext2inode = held[name]
    BY <1>1, <1>2, <2>1 DEF NodesRight, ChildRight
  <2>3. held[name] # 0
    <3>1. PICK file : file = volume[nodes[d].ext2inode]
      OBVIOUS
    <3>2. nodes[d].ext2inode \in DOMAIN volume /\ IsFileOf(file, DOMAIN volume)
      BY <1>1, <3>1, VolumeIsRight DEF NodesRight, NodeRight
    <3>3. file.mode \in DirectoryModes
      BY <1>1, <3>1 DEF NodesRight, NodeRight
    <3>4. file.mode = EXT2_S_IFDIR
      <4> SUFFICES ASSUME file.mode # EXT2_S_IFDIR PROVE FALSE
        OBVIOUS
      <4>1. held = <<>> /\ DOMAIN held = {}
        BY <3>1, <3>2, <3>3 DEF IsFileOf, DirectoryModes
      <4> QED BY <4>1
    <3>5. IsListing(file, DOMAIN volume)
      BY <3>2, <3>4 DEF IsFileOf
    <3>6. PICK o \in file.starts : /\ file.content[o + 1].inode # 0
                                   /\ file.content[o + 1].name \notin Dots
                                   /\ file.content[o + 1].name = name
      BY <3>1, <3>5 DEF IsListing
    <3>7. file.entries[name] = file.content[o + 1].inode
      BY <3>5, <3>6 DEF IsListing
    <3> QED BY <3>1, <3>6, <3>7
  <2> QED BY <2>1, <2>2, <2>3 DEF Listed
<1>5. {nodes[i].name : i \in Listed(d)} = DOMAIN held
  BY <1>3, <1>4
<1>6. Cardinality(Listed(d)) = Cardinality(DOMAIN held)
  <2> DEFINE name == [i \in Listed(d) |-> nodes[i].name]
  <2>1. IsFiniteSet(Listed(d))
    <3>1. IsFiniteSet(1 .. Len(nodes)) /\ Listed(d) \subseteq 1 .. Len(nodes)
      BY <1>2, FS_Interval DEF Listed
    <3> QED BY <3>1, FS_Subset
  <2>2. name \in Bijection(Listed(d), DOMAIN held)
    <3>1. name \in [Listed(d) -> DOMAIN held]
      BY <1>3
    <3>2. \A i, j \in Listed(d) : name[i] = name[j] => i = j
      BY <1>1 DEF NodesRight, NamesOnce, Listed
    <3>3. \A x \in DOMAIN held : \E i \in Listed(d) : name[i] = x
      BY <1>4
    <3> HIDE DEF name
    <3>4. name \in Injection(Listed(d), DOMAIN held)
      BY <3>1, <3>2 DEF Injection, IsInjective
    <3>5. name \in Surjection(Listed(d), DOMAIN held)
      BY <3>1, <3>3 DEF Surjection
    <3> QED BY <3>4, <3>5 DEF Bijection
  <2> HIDE DEF name
  <2> QED BY <2>1, <2>2, FS_Bijection DEF ExistsBijection
<1>7. ASSUME NEW m, m \in {EXT2_S_IFDIR, EXT2_S_IFREG}
      PROVE  m \in DirectoryModes <=> m = EXT2_S_IFDIR
  BY <1>7 DEF DirectoryModes, EXT2_S_IFDIR, EXT2_S_IFREG, EXT2_S_IFBLK, EXT2_S_IFSOCK
<1> QED BY <1>3, <1>5, <1>6, <1>7

(* A scanned directory shows the used entries it has on the disk, each     *)
(* once and with its inode, size and type.                                 *)
THEOREM DirectoriesAreListed == Ext2Spec => []ListsTheDirectory
<1> QED BY Ext2InvHolds, InvLists, PTL
=============================================================================

------------------------------- MODULE Console --------------------------------
(***************************************************************************)
(* The keyboard and the readers of the console: putctty, called by the     *)
(* keyboard interrupt, fills inbuf_; read, called by the processes that    *)
(* read /dev/tty, waits for it (src/kernel/arch/x86/io.cc, x86.cc,         *)
(* runtime/string.cc).  All the processes share one Io object.             *)
(*                                                                         *)
(* read enables interrupts before it says that it waits (inlock_ = 1), and *)
(* disables them only after it has seen inlock_ cleared: keys are handled, *)
(* and other processes run, in between.                                    *)
(***************************************************************************)
EXTENDS Integers, FiniteSets, Sequences, SequencesExt

CONSTANTS
    Readers,    \* the processes that read the console
    Chars,      \* the characters that can be typed
    Size        \* sizeof(inbuf_)

BACKSPACE == "backspace"
NEWLINE   == "newline"
NUL       == "nul"

ASSUME ConsoleAssumption ==
    /\ Size \in Nat /\ Size > 1
    /\ Chars \cap {BACKSPACE, NEWLINE, NUL} = {}

Keys  == Chars \cup {BACKSPACE, NEWLINE}
Bytes == Keys \cup {NUL}
Index == 0 .. Size - 1

VARIABLES
    inbuf_,     \* the console buffer
    keypos_,    \* where the next key goes
    inlock_,    \* a reader waits
    keystate_,  \* "buffered" (whole lines) or "getchar"
    pc,         \* where each reader is in read
    result,     \* result[q]: what read returned to q last
    beyond,     \* a key was written behind the end of inbuf_: over keypos_
    line,       \* history: the line being typed, as an editor would have it
    since       \* history: the readers for which a key has cleared inlock_
                \* since they set it

vars == <<inbuf_, keypos_, inlock_, keystate_, pc, result, beyond, line, since>>

Mode  == {"buffered", "getchar"}
Label == {"user", "sti", "spin", "cli"}

Init ==
    /\ inbuf_ = [i \in Index |-> NUL]
    /\ keypos_ = 0
    /\ inlock_ = FALSE
    /\ keystate_ = "buffered"
    /\ pc = [q \in Readers |-> "user"]
    /\ result = [q \in Readers |-> 0]
    /\ beyond = FALSE
    /\ line = <<>>
    /\ since = {}

-----------------------------------------------------------------------------

KeyBackspace_Stays ==
    /\ keystate_ = "buffered"
    /\ inbuf_' = [inbuf_ EXCEPT ![keypos_] = NUL]
    /\ line' = IF line = <<>> THEN <<>> ELSE Front(line)
    /\ UNCHANGED <<keypos_, inlock_, beyond, since>>

(* "inbuf_[keypos_--] = 0": the byte cleared is the one behind the last.   *)
KeyBackspace ==
    /\ keystate_ = "buffered"
    /\ IF keypos_ > 0
         THEN /\ inbuf_' = IF keypos_ \in Index
                             THEN [inbuf_ EXCEPT ![keypos_] = NUL] ELSE inbuf_
              /\ beyond' = (keypos_ \notin Index)
              /\ keypos_' = keypos_ - 1
         ELSE UNCHANGED <<inbuf_, beyond, keypos_>>
    /\ line' = IF line = <<>> THEN <<>> ELSE Front(line)
    /\ UNCHANGED <<inlock_, since>>

Wake_StillLocked ==
    /\ since' = since \cup {q \in Readers : pc[q] = "spin"}
    /\ keypos_' = 0
    /\ line' = <<>>
    /\ UNCHANGED inlock_

(* inlock_ = 0, keypos_ = 0.                                               *)
Wake ==
    /\ inlock_' = FALSE
    /\ since' = since \cup {q \in Readers : pc[q] = "spin"}
    /\ keypos_' = 0
    /\ line' = <<>>

KeyNewline ==
    /\ keystate_ = "buffered"
    /\ beyond' = (keypos_ + 1 \notin Index)
    /\ inbuf_' = [i \in Index |-> IF i = keypos_ THEN NEWLINE
                                  ELSE IF i = keypos_ + 1 THEN NUL ELSE inbuf_[i]]
    /\ Wake

KeyChar(c) ==
    /\ keystate_ = "buffered"
    /\ beyond' = (keypos_ \notin Index)
    /\ inbuf_' = [i \in Index |-> IF i = keypos_ THEN c ELSE inbuf_[i]]
    /\ keypos_' = keypos_ + 1
    /\ line' = Append(line, c)
    /\ UNCHANGED <<inlock_, since>>

KeyAlone(c) ==
    /\ keystate_ = "getchar"
    /\ inbuf_' = [inbuf_ EXCEPT ![0] = c, ![1] = NUL]
    /\ Wake
    /\ UNCHANGED beyond

(* The keyboard interrupt.  What lies behind inbuf_ is keypos_ itself: the *)
(* model ends once a key has been written there.                           *)
Key(c) ==
    /\ ~beyond
    /\ \/ c = BACKSPACE /\ KeyBackspace
       \/ c = NEWLINE /\ KeyNewline
       \/ c \in Chars /\ KeyChar(c)
       \/ KeyAlone(c)
    /\ UNCHANGED <<keystate_, pc, result>>

At(q, label) == ~beyond /\ pc[q] = label

Goto(q, label) == pc' = [pc EXCEPT ![q] = label]

(* read of one character, or of more.                                      *)
Read(q) ==
    /\ At(q, "user")
    /\ keystate_' \in Mode
    /\ Goto(q, "sti")
    /\ UNCHANGED <<inbuf_, keypos_, inlock_, result, beyond, line, since>>

Lock_Skipped(q) ==
    /\ At(q, "sti")
    /\ since' = since \ {q}
    /\ Goto(q, "spin")
    /\ UNCHANGED <<inbuf_, keypos_, inlock_, keystate_, result, beyond, line>>

(* "inlock_ = 1", with interrupts already enabled.                         *)
Lock(q) ==
    /\ At(q, "sti")
    /\ inlock_' = TRUE
    /\ since' = since \ {q}
    /\ Goto(q, "spin")
    /\ UNCHANGED <<inbuf_, keypos_, keystate_, result, beyond, line>>

Leave(q) ==
    /\ At(q, "spin")
    /\ ~inlock_
    /\ Goto(q, "cli")
    /\ UNCHANGED <<inbuf_, keypos_, inlock_, keystate_, result, beyond, line, since>>

(* The strncpy of the kernel copies up to the end of the string and then   *)
(* fills all of dest with zeroes, from its beginning.                      *)
strncpy(src, n) == [i \in 0 .. n - 1 |-> NUL]

strlen(s) == Cardinality({i \in DOMAIN s : \A j \in 0 .. i : s[j] # NUL})

Copy(q) ==
    /\ At(q, "cli")
    /\ \E count \in 1 .. Size :
         result' = [result EXCEPT ![q] = strlen(strncpy(inbuf_, count))]
    /\ Goto(q, "user")
    /\ UNCHANGED <<inbuf_, keypos_, inlock_, keystate_, beyond, line, since>>

Next ==
    \/ \E c \in Keys : Key(c)
    \/ \E q \in Readers : Read(q) \/ Lock(q) \/ Leave(q) \/ Copy(q)

(* Somebody presses Enter again and again; a process in read gets the      *)
(* processor again and again.                                              *)
Fairness ==
    /\ WF_vars(Key(NEWLINE))
    /\ \A q \in Readers : WF_vars(Lock(q) \/ Leave(q) \/ Copy(q))

Spec == Init /\ [][Next]_vars
FairSpec == Spec /\ Fairness

-----------------------------------------------------------------------------

(* What inbuf_ holds in front of keypos_ is the line as it was edited,     *)
(* whatever mix of characters, backspaces, line ends and changes of mode   *)
(* led there.                                                              *)
LineAsEdited ==
    ~beyond => /\ keypos_ = Len(line)
               /\ \A i \in 1 .. keypos_ : inbuf_[i - 1] = line[i]

(* A reader does not return on its own, nor on a key that came before it   *)
(* said it waits: another process's read or an old line never lets it pass. *)
WokenByKey == \A q \in Readers : pc[q] = "cli" => q \in since

(* inlock_ is only set while a reader waits for a key that has not come    *)
(* yet: a key that ended a wait is not forgotten, unless by another reader *)
(* that begins to wait.                                                    *)
LockedByWaiter ==
    inlock_ => \E q \in Readers : pc[q] = "spin" /\ q \notin since

(* A read returns, provided that lines go on being typed and that no other *)
(* process keeps reading: a line that ends between sti and inlock_ = 1 is  *)
(* missed, and so is one that another reader's inlock_ = 1 hides, but a    *)
(* later one is not.                                                       *)
ReadReturns ==
    \A q \in Readers :
        (\A r \in Readers \ {q} : <>[](pc[r] = "user"))
            => (pc[q] = "sti" ~> pc[q] = "user" \/ beyond)

(* "read a string in the console" (io.cc, line 267): a read that was woken *)
(* returns the string, which has at least the key that woke it.            *)
ReadsAString ==
    [][\A q \in Readers :
         pc[q] = "cli" /\ pc'[q] = "user" => result'[q] > 0]_vars
=============================================================================

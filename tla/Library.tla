------------------------------- MODULE Library ------------------------------
(***************************************************************************)
(* The parts of the C library side by side: a behaviour is one of a stream *)
(* (Streams), of the heap of a program (UserHeap), of getopt (Options), of *)
(* a dynamic string (TrioStrings) or a call of a function without state    *)
(* (those of LibraryCalls, Numbers, Scanning, Texts, Calendar, TrioStrings *)
(* and TrioPrinting), whose arguments are input.                           *)
(***************************************************************************)
EXTENDS Streams, UserHeap, Options, LibraryCalls, Scanning, TrioStrings

Layout == INSTANCE Calendar
Trio == INSTANCE TrioPrinting

CONSTANTS
    Numerals,   \* texts to read numbers from
    Bases,      \* the bases they are read in
    Directives, \* formats to write a word by
    Memories,   \* memories with strings in them
    Layouts,    \* formats of strftime
    Patterns,   \* <<text, pattern>> to match
    Floats,     \* numbers with a point and an exponent (FloatsRight)
    Printings   \* calls of the printing of trio: what is asked, then the arguments

VARIABLE part   \* which part of the library the behaviour is of

libraryVars == <<stream, device, program, heap, held, optionVars, stringVars, part, input>>

Delimiters == <<"/">>

AnyCall == CHOOSE c \in Calls : TRUE

LibraryInit ==
    /\ part \in {"stream", "heap", "options", "string", "function"}
    /\ CallsInit
    /\ Init
    /\ part # "stream" => stream = init_file(CHOOSE mode \in Modes : TRUE)
    /\ HeapInit
    /\ IF part = "options" THEN TRUE ELSE call = AnyCall
    /\ OptionsInit
    /\ IF part = "string" THEN StringInit
       ELSE string = internal_string_alloc /\ meant = Nothing

ReadNumber(s, b) == input' = [call |-> "read", text |-> s, base |-> b]
WriteNumber(f, v) == input' = [call |-> "write", format |-> f, arg |-> v]
Handle(m, d, s) == input' = [call |-> "text", memory |-> m, dest |-> d, src |-> s]
Lay(max, f, y) == input' = [call |-> "layout", max |-> max, format |-> f, year |-> y]
MatchText(p) == input' = [call |-> "match", text |-> p[1], pattern |-> p[2]]
ReadFloat(f) == input' = [call |-> "float", float |-> f]
PrintText(p) == input' = [call |-> "print", asked |-> p]

CallFunction ==
    \/ CallsNext
    \/ input = NoCall /\
       \/ \E s \in Numerals, b \in Bases : ReadNumber(s, b)
       \/ \E f \in Directives, v \in 0 .. WORD - 1 : WriteNumber(f, v)
       \/ \E m \in Memories : \E d, s \in DOMAIN m : Handle(m, d, s)
       \/ \E max \in 1 .. 24, f \in Layouts, y \in Years : Lay(max, f, y)
       \/ \E p \in Patterns : MatchText(p)
       \/ \E f \in Floats : ReadFloat(f)
       \/ \E p \in Printings : PrintText(p)

LibraryNext ==
    \/ part = "stream" /\ Next
         /\ UNCHANGED <<heap, held, optionVars, stringVars, part, input>>
    \/ part = "heap" /\ HeapNext
         /\ UNCHANGED <<stream, device, program, optionVars, stringVars, part, input>>
    \/ part = "options" /\ OptionsNext
         /\ UNCHANGED <<stream, device, program, heap, held, stringVars, part, input>>
    \/ part = "string" /\ StringNext
         /\ UNCHANGED <<stream, device, program, heap, held, optionVars, part, input>>
    \/ part = "function" /\ CallFunction
         /\ UNCHANGED <<stream, device, program, heap, held, optionVars, stringVars, part>>

LibrarySpec == LibraryInit /\ [][LibraryNext]_libraryVars

(* strtoul, strtoull, strtol, strtoll, atoi and sscanf read every text as  *)
(* the C standard has it: signs, prefixes, where the number ends, and what *)
(* happens to one that is too large.  trio reads numbers with a point and  *)
(* an exponent, in both bases, to their end.                               *)
NumbersAreRead ==
    /\ input.call = "read" =>
          ReadsRight(input.text, input.base) /\ ScansRight(input.text, input.base)
    /\ input.call = "float" => FloatsRight(input.float)

(* Whether trio prints what is asked.                                      *)
PrintsRight(p) ==
    CASE p[1] = "number" -> Trio!NumberRight(p[2]) /\ Trio!UserRight(p[2]) /\ Trio!StickyRight(p[2])
      [] p[1] = "groups" -> Trio!GroupsRight(p[2], p[3])
      [] p[1] = "text" -> Trio!TextRight(p[2], p[3], p[4], p[5], p[6])
      [] p[1] = "positions" -> Trio!PositionsRight(p[2])
      [] p[1] = "destinations" -> Trio!DestinationsRight(p[2], p[3], <<"x", "y">>)
      [] p[1] = "namespaces" -> Trio!NamespacesRight(p[2])

(* A day in July, the 20th or 19th, two minutes after one o'clock.         *)
DateIn(year) ==
    _gmtime((sumofdays[1 + year - EPOCH] + 200) * SECONDS_PER_DAY + 13 * 3600 + 125)

(* What printf, sprintf and the kernel's print write for a number is read  *)
(* back as that number, for any conversion, width and precision            *)
(* (WritesRight has the exceptions).  trio prints what the conversion asks *)
(* for, given in the format, by arguments, by a sticky conversion before   *)
(* or by the callback of the user; takes its arguments by their positions  *)
(* or reports the first that is wrong; and sends the same text, as far as  *)
(* it fits, to every destination, with its length as the status.  strftime *)
(* writes all that fits into its room and says how much, and in a smaller  *)
(* one stays within it unless it runs beyond its own tmp (FormatsRight).   *)
PrintedAsAsked ==
    /\ input.call = "write" => WritesRight(input.format, input.arg)
    /\ input.call = "print" => PrintsRight(input.asked)
    /\ input.call = "layout" =>
          Layout!FormatsRight(input.max, input.format, DateIn(input.year))

(* What strftime writes, with the byte it reserves for the end, is within  *)
(* the room it was given (strftime.c:44).  It is not: snprintf ignores its *)
(* size, and the numbers of a short room are written beyond tmp.           *)
LayoutStaysInRoom ==
    input.call = "layout" =>
        Layout!StaysInRoom(input.max, input.format, DateIn(input.year))

(* The string functions, on memories in which their operands overlap or    *)
(* touch: what is moved arrives as it was, what is copied ends and leaves  *)
(* its neighbours alone, strtok_r takes out every token, and searches and  *)
(* comparisons agree with the texts.  So do those of trio, which matches a *)
(* pattern exactly when the text can be dealt out to it, and whose dynamic *)
(* strings hold what was put into them, in any order of operations and     *)
(* wherever memory runs out.                                               *)
TextsAreRight ==
    /\ input.call = "text" =>
          /\ FindsRight(input.memory, input.dest, input.src, Delimiters)
          /\ \A n \in 0 .. Len(input.memory) :
                CopiesRight(input.memory, input.dest, input.src, n)
          /\ \A n \in 0 .. 3 :
                /\ StoresRight(input.memory, input.dest, input.src, n)
                /\ ComparesRight(input.memory, input.dest, input.src, n)
    /\ input.call = "match" => MatchesRight(input.text, input.pattern)
    /\ part = "string" => StringHolds
=============================================================================

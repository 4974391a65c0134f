------------------------------- MODULE Calendar ------------------------------
(***************************************************************************)
(* strftime (libc/src/time/strftime.c): how a format is filled with the    *)
(* parts of a date.  A text is a sequence of characters.                   *)
(***************************************************************************)
EXTENDS Dates, SequencesExt

(* What snprintf writes for a number: it is support_vsprintf, which takes  *)
(* a 0 before the width for a digit of it, and fills up with blanks.       *)
Decimal(n, width) ==
    LET k == 1 + Cardinality({j \in 1 .. 9 : n >= 10 ^ j})
        digits == [i \in 1 .. k |-> <<"0", "1", "2", "3", "4", "5", "6", "7", "8", "9">>
                                       [1 + ((n \div 10 ^ (k - i)) % 10)]]
    IN  [i \in 1 .. width - k |-> " "] \o digits

(* A name is one character here: which names there are is not a question.  *)
NameIn(kind, n) == <<kind \o ToString(n)>>

(* What the directives that are not made of others stand for.             *)
NumberOf(c, tm) ==
    CASE c = "C" -> Decimal(tm.tm_year \div 100, 1)
      [] c = "d" -> Decimal(tm.tm_mday, 2)
      [] c = "e" -> Decimal(tm.tm_mday, 2)
      [] c = "H" -> Decimal(tm.tm_hour, 2)
      [] c = "I" -> Decimal(tm.tm_hour % 12, 2)
      [] c = "j" -> Decimal(tm.tm_yday + 1, 3)
      [] c = "k" -> Decimal(tm.tm_hour, 2)
      [] c = "l" -> Decimal(tm.tm_hour % 12, 2)
      [] c = "m" -> Decimal(tm.tm_mon + 1, 2)
      [] c = "M" -> Decimal(tm.tm_min, 2)
      [] c = "s" -> Decimal(mktime(tm), 1)
      [] c = "S" -> Decimal(tm.tm_sec, 2)
      [] c = "u" -> Decimal(1 + ((tm.tm_wday + 6) % 7), 1)
      [] c = "w" -> Decimal(tm.tm_wday, 1)
      [] c = "y" -> Decimal(tm.tm_year % 100, 2)
      [] c = "Y" -> Decimal(tm.tm_year, 1)
NumberDirectives == {"C", "d", "e", "H", "I", "j", "k", "l", "m", "M", "s", "S", "u", "w", "y", "Y"}

NameOf(c, tm) ==
    CASE c = "a" -> NameIn("Sun", tm.tm_wday)
      [] c = "A" -> NameIn("Sunday", tm.tm_wday)
      [] c \in {"h", "b"} -> NameIn("Jan", tm.tm_mon)
      [] c = "B" -> NameIn("January", tm.tm_mon)
      [] c = "p" -> NameIn("M", tm.tm_hour \div 12)
      [] c = "P" -> NameIn("m", tm.tm_hour \div 12)
      [] c = "n" -> <<"LF">>
      [] c = "t" -> <<"HT">>
NameDirectives == {"a", "A", "h", "b", "B", "p", "P", "n", "t"}

(* Directives made of others.                                              *)
Made(c) ==
    CASE c = "c" -> <<"%", "a", " ", "%", "b", " ", "%", "e", " ", "%", "H", ":", "%", "M", ":",
                      "%", "S", " ", "%", "Z", " ", "%", "Y">>
      [] c = "D" -> <<"%", "m", "/", "%", "d", "/", "%", "y">>
      [] c = "F" -> <<"%", "Y", "-", "%", "m", "-", "%", "d">>
      [] c = "r" -> <<"%", "I", ":", "%", "M", ":", "%", "S", " ", "%", "p">>
      [] c = "R" -> <<"%", "H", ":", "%", "M">>
      [] c \in {"T", "X"} -> <<"%", "H", ":", "%", "M", ":", "%", "S">>
      [] c = "x" -> <<"%", "a", " ", "%", "b", " ", "%", "e", " ", "%", "Z", " ", "%", "Y">>
MadeDirectives == {"c", "D", "F", "r", "R", "T", "X", "x"}

HugeRoom == 99  \* of SIZE_MAX characters: more than any text has

(* What strftime writes for the format f with max bytes of room, tmp being *)
(* as large.  s is the text so far; a directive that does not fit after it *)
(* ends the call with 0.  snprintf has no limit: the text of a number that *)
(* tmp cannot hold with its end is written beyond tmp, and what is on the  *)
(* stack then is not modelled (overrun).  A directive made of others has a *)
(* call of its own with the room that is left, less the byte for its end,  *)
(* and what that call has written is appended; with no room left, the byte *)
(* that it reserves makes the room the greatest number.                    *)
RECURSIVE Formatted(_, _, _, _)
Formatted(f, s, max, tm) ==
    LET room == IF max = 0 THEN HugeRoom ELSE max - 1
        end(ret) == [ret |-> ret, s |-> s, overrun |-> FALSE]
        rest(n, t) == Formatted(SubSeq(f, n + 1, Len(f)), s \o t, max, tm)
        append(n, t) == IF Len(s) + Len(t) > room THEN end(0) ELSE rest(n, t)
        beyond(t) == Len(t) >= max
        overrun == [ret |-> 0, s |-> s, overrun |-> TRUE]
    IN  CASE f = <<>> -> end(Len(s))
          [] f # <<>> /\ f[1] # "%" -> append(1, <<f[1]>>)
          [] f # <<>> /\ f[1] = "%" ->
                CASE f[2] = "%" -> append(2, <<"%">>)
                  [] f[2] \in NumberDirectives ->
                        LET tmp == NumberOf(f[2], tm)
                        IN  IF beyond(tmp) THEN overrun ELSE append(2, tmp)
                  [] f[2] \in NameDirectives -> append(2, NameOf(f[2], tm))
                  [] f[2] \in MadeDirectives ->
                        LET made == Formatted(Made(f[2]), <<>>, room - Len(s), tm)
                        IN  IF made.overrun \/ beyond(made.s) THEN overrun ELSE append(2, made.s)
                  [] OTHER -> rest(2, <<>>)

strftime(max, format, tm) == Formatted(format, <<>>, max, tm)

asctime_r(tm) ==
    strftime(26, <<"%", "a", " ", "%", "b", " ", "%", "d", " ", "%", "H", ":", "%", "M", ":",
                   "%", "S", " ", "%", "Y", "LF">>, tm)

-----------------------------------------------------------------------------
AllOf(format, tm) == strftime(HugeRoom, format, tm).s

HasMade(format) == \E i \in 2 .. Len(format) : format[i - 1] = "%" /\ format[i] \in MadeDirectives

(* strftime writes all of a text that fits into its room with its end, and *)
(* answers its length; a byte more is needed when a directive is made of   *)
(* others.  In a smaller room it answers 0, if it does not run beyond tmp, *)
(* or has cut what is made of others; it stays within the room either way. *)
FormatsRight(max, format, tm) ==
    LET r == strftime(max, format, tm)
        all == AllOf(format, tm)
    IN  IF Len(all) + (IF HasMade(format) THEN 1 ELSE 0) < max
        THEN r = [ret |-> Len(all), s |-> all, overrun |-> FALSE]
        ELSE r.overrun \/ /\ Len(r.s) < max
                          /\ IF HasMade(format) THEN r.ret \in {0, Len(r.s)} ELSE r.ret = 0

(* strftime never writes beyond its room, nor beyond tmp.                  *)
StaysInRoom(max, format, tm) ==
    LET r == strftime(max, format, tm) IN ~r.overrun /\ Len(r.s) < max
=============================================================================

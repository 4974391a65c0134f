------------------------------- MODULE Scanning -----------------------------
(***************************************************************************)
(* sscanf of the C library (src/sdk/src/libc/src/sscanf.c), which reads    *)
(* numbers with functions of its own.  int, long and size_t have one size  *)
(* on this machine: of the qualifiers, "l" and "z" are modelled.           *)
(***************************************************************************)
EXTENDS Numbers

(* simple_strtoul and simple_strtol from i on: no white space, no limits.  *)
simple_strtoul(s, i, base) ==
    LET zero == base = 0 /\ At(s, i) = "0"
        hex == zero /\ At(s, i + 1) = "x" /\ At(s, i + 2) \in XDigits
        b == IF base # 0 THEN base ELSE IF hex THEN 16 ELSE IF zero THEN 8 ELSE 10
        first == IF hex THEN i + 2 ELSE IF zero THEN i + 1 ELSE i
        next == Past(s, first, {c \in XDigits : Value(c) < b})
    IN  [v |-> FoldLeft(LAMBDA v, c : (v * b + Value(c)) % WORD, 0, SubSeq(s, first, next - 1)),
         next |-> next]

simple_strtol(s, i, base) ==
    IF At(s, i) = "-"
    THEN LET u == simple_strtoul(s, i + 1, base) IN [u EXCEPT !.v = Signed((-@) % WORD)]
    ELSE LET u == simple_strtoul(s, i, base) IN [u EXCEPT !.v = Signed(@)]

-----------------------------------------------------------------------------
(* A scan is at buf[st.str] and fmt[st.fmt], has stored st.stored and      *)
(* counts num; over when the loop is left.                                 *)
Begun == [str |-> 1, fmt |-> 1, stored |-> <<>>, num |-> 0, over |-> FALSE]

Store(st, v, next) == [st EXCEPT !.stored = Append(@, v), !.num = @ + 1, !.str = next]
Stop(st) == [st EXCEPT !.over = TRUE]

(* The first place from i on that is white space, or the end.              *)
WordEnd(s, i) == Min({j \in i .. Len(s) + 1 : At(s, j) \in Spaces \cup {NUL}})

Base(letter) == CASE letter = "o" -> 8 [] letter \in {"x", "X"} -> 16 [] letter = "i" -> 0
                  [] OTHER -> 10

(* A number: what is not a digit of the base ends the scan.                *)
ScanNumber(buf, letter, qualifier, st) ==
    LET str == Past(buf, st.str, Spaces)
        is_sign == letter \in {"d", "i"}
        digit == At(buf, IF is_sign /\ At(buf, str) = "-" THEN str + 1 ELSE str)
        b == Base(letter)
        r == IF is_sign /\ qualifier # "z" THEN simple_strtol(buf, str, b)
             ELSE simple_strtoul(buf, str, b)
    IN  IF digit \notin XDigits \/ (b # 16 /\ digit \notin Decimal) \/ (b = 8 /\ Value(digit) > 7)
        THEN Stop(st) ELSE Store(st, r.v, r.next)

(* "%s" of no width takes sizeof(int) characters.                          *)
ScanWord(buf, width, st) ==
    LET str == Past(buf, st.str, Spaces)
        end == Min({WordEnd(buf, str), str + (IF width = -1 THEN 4 ELSE width)})
    IN  Store(st, SubSeq(buf, str, end - 1), end)

ScanChars(buf, width, st) ==
    LET end == Min({Len(buf) + 1, st.str + Max({1, width})})
    IN  Store(st, SubSeq(buf, st.str, end - 1), end)

Conversion(buf, letter, qualifier, width, st) ==
    CASE letter = "c" -> ScanChars(buf, width, st)
      [] letter = "s" -> ScanWord(buf, width, st)
      [] letter = "n" -> [st EXCEPT !.stored = Append(@, st.str - 1)]
      [] letter = "%" -> IF At(buf, st.str) = "%" THEN [st EXCEPT !.str = @ + 1] ELSE Stop(st)
      [] letter \in {"o", "x", "X", "i", "d", "u"} -> ScanNumber(buf, letter, qualifier, st)
      [] OTHER -> Stop(st)

(* st.fmt is behind the "%".  The width counts for "c" and "s" only.       *)
Directive(buf, fmt, st) ==
    LET past == Past(fmt, st.fmt, Decimal)
        digits == SubSeq(fmt, st.fmt, past - 1)
        width == IF digits = <<>> THEN -1
                 ELSE FoldLeft(LAMBDA n, c : 10 * n + Value(c), 0, digits)
        qualified == At(fmt, past) \in {"l", "z"}
        at == IF qualified THEN past + 1 ELSE past
    IN  IF At(fmt, st.fmt) = "*"
        THEN [st EXCEPT !.fmt = WordEnd(fmt, @), !.str = WordEnd(buf, @)]
        ELSE IF At(fmt, at) = NUL \/ At(buf, st.str) = NUL THEN Stop(st)
        ELSE Conversion(buf, fmt[at], IF qualified THEN fmt[past] ELSE NUL, width,
                        [st EXCEPT !.fmt = at + 1])

Unspaced(buf, fmt, st) ==
    IF At(fmt, st.fmt) \in Spaces
    THEN [st EXCEPT !.fmt = Past(fmt, @, Spaces), !.str = Past(buf, @, Spaces)] ELSE st

Literal(buf, fmt, st) ==
    IF At(fmt, st.fmt) = NUL THEN Stop(st)
    ELSE IF At(fmt, st.fmt) = "%" THEN Directive(buf, fmt, [st EXCEPT !.fmt = @ + 1])
    ELSE IF At(fmt, st.fmt) # At(buf, st.str) THEN Stop(st)
    ELSE [st EXCEPT !.fmt = @ + 1, !.str = @ + 1]

RECURSIVE Scanned(_, _, _)
Scanned(buf, fmt, st) ==
    IF st.over \/ At(fmt, st.fmt) = NUL \/ At(buf, st.str) = NUL THEN st
    ELSE Scanned(buf, fmt, Literal(buf, fmt, Unspaced(buf, fmt, st)))

vsscanf(buf, fmt) == LET st == Scanned(buf, fmt, Begun) IN [num |-> st.num, stored |-> st.stored]

-----------------------------------------------------------------------------
(* A scan for a number and a character finds the longest number the text   *)
(* begins with, modulo WORD, and what comes after it, or nothing at all.   *)
(* Other than strtol, it takes no "+", and "0x" only for "%i".             *)
Scannable(s, r, letter) ==
    /\ "+" \notin Range(SubSeq(s, 1, r.from - 1))
    /\ r.neg => letter \in {"d", "i"}
    /\ letter # "i" => {"x", "X"} \cap Range(SubSeq(s, 1, r.from - 1)) = {}
    /\ "X" \notin Range(SubSeq(s, 1, r.from - 1))

Longest(readings) == CHOOSE r \in readings : \A t \in readings : t.to <= r.to

ScansAs(s, letter, readings) ==
    LET r == Longest(readings)
        m == MagnitudeOf(s, r)
        v == (IF r.neg THEN -m ELSE m) % WORD
        number == IF letter \in {"d", "i"} THEN Signed(v) ELSE v
        rest == SubSeq(s, r.to + 1, Min({r.to + 1, Len(s)}))
        stored == IF readings = {} THEN <<>>
                  ELSE IF rest = <<>> THEN <<number>> ELSE <<number, rest>>
    IN  vsscanf(s, <<"%", letter, "%", "c">>) = [num |-> Len(stored), stored |-> stored]

ScansRight(s, base) ==
    \A letter \in {c \in {"d", "u", "o", "x", "i"} : Base(c) = base} :
        ScansAs(s, letter, {r \in Readings(s, base) : Scannable(s, r, letter)})
=============================================================================

------------------------------- MODULE Numbers ------------------------------
(***************************************************************************)
(* Numbers as text in the C library (src/sdk/src/libc/src): strtoul,       *)
(* strtoull, strtol, strtoll and atoi read them; printf and sprintf write  *)
(* them (stdio/support_*.c), and so does print of the kernel (src/kernel/  *)
(* arch/x86/io.cc).  Texts are sequences of characters, indexed from 1;    *)
(* what is after the last is the zero that ends a string.  Words are       *)
(* modulo WORD, with LOW for the 2^8 at which the code cuts them.          *)
(***************************************************************************)
EXTENDS Texts

CONSTANTS WORD, LOW

ASSUME NumbersAssumption ==
    /\ LOW \in Nat \ {0}
    /\ WORD % (2 * LOW) = 0
    /\ LOW * 16 <= WORD

HALF == WORD \div 2

LowerDigits == <<"0", "1", "2", "3", "4", "5", "6", "7", "8", "9",
                 "a", "b", "c", "d", "e", "f", "x", "z">>
UpperDigits == <<"A", "B", "C", "D", "E", "F">>
Spaces == {" "}
Decimal == {LowerDigits[i] : i \in 1 .. 10}
XDigits == {LowerDigits[i] : i \in 1 .. 16} \cup Range(UpperDigits)
Alnum == Range(LowerDigits) \cup Range(UpperDigits)

(* What the code makes of a character: x and z are above the digits of 16, *)
(* signs and spaces wrap round to more than any base.                      *)
Value(c) ==
    IF c \in Range(UpperDigits) THEN 9 + (CHOOSE i \in DOMAIN UpperDigits : UpperDigits[i] = c)
    ELSE IF c = "x" THEN 33 ELSE IF c = "z" THEN 35
    ELSE IF c \in XDigits THEN (CHOOSE i \in 1 .. 16 : LowerDigits[i] = c) - 1
    ELSE 255

(* The first place from i on that has no character of S.                   *)
Past(s, i, S) == Min({j \in i .. Len(s) + 1 : At(s, j) \notin S})

Signed(v) == IF v >= HALF THEN v - WORD ELSE v

-----------------------------------------------------------------------------
(* Reading *)

(* strtoul and strtoull from ptr on: they differ in how they cut the word, *)
(* in strtoull a signed one.  A digit is taken in, with the upper part of  *)
(* the word so far, and a test of the new one for overflow.                *)
Cut(signed, v) == (IF signed THEN Signed(v) ELSE v) \div LOW

Taken_Unchecked(upper, base, acc, c) ==
    LET x == ((acc.v % LOW) * base) + Value(c)
        w == (upper * base + x \div LOW) % WORD
    IN  [v |-> (w * LOW + (x % LOW)) % WORD, overflow |-> acc.overflow]

Taken(upper, base, acc, c) ==
    LET x == ((acc.v % LOW) * base) + Value(c)
        w == (upper * base + x \div LOW) % WORD
    IN  [v |-> (w * LOW + (x % LOW)) % WORD,
         overflow |-> acc.overflow \/ w > (WORD - 1) \div LOW]

(* The number r of the digits, with its sign, and where it ends.           *)
Concluded(r, negative, end) ==
    [v |-> IF r.overflow THEN WORD - 1 ELSE IF negative THEN (-r.v) % WORD ELSE r.v, end |-> end]

Accumulated(signed, s, first, nptr, base) ==
    FoldLeft(LAMBDA acc, c : Taken(Cut(signed, acc.v), base, acc, c),
             [v |-> 0, overflow |-> FALSE], SubSeq(s, first, nptr - 1))

InBase(signed, s, ptr, negative, orig, first, base) ==
    LET nptr == Past(s, first, {c \in Alnum : Value(c) < base})
    IN  Concluded(Accumulated(signed, s, first, nptr, base), negative, IF nptr = orig THEN ptr ELSE nptr)

Converted(signed, s, ptr, base) ==
    LET a == Past(s, ptr, Spaces)
        orig == IF At(s, a) \in {"-", "+"} THEN a + 1 ELSE a
        hex == /\ base \in {0, 16} /\ At(s, orig) = "0"
               /\ At(s, orig + 1) \in {"x", "X"} /\ At(s, orig + 2) \in XDigits
    IN  InBase(signed, s, ptr, At(s, a) = "-", orig, IF hex THEN orig + 2 ELSE orig,
               IF hex THEN 16 ELSE IF base # 0 THEN base ELSE IF At(s, orig) = "0" THEN 8 ELSE 10)

strtoul(s, ptr, base) == Converted(FALSE, s, ptr, base)
strtoull(s, ptr, base) == Converted(TRUE, s, ptr, base)

(* strtol and strtoll: the sign is taken here, if something follows it,    *)
(* and what strtoul or strtoull makes of the rest is limited.              *)
SignTaken(s) ==
    LET a == Past(s, 1, Spaces)
        neg == At(s, a) = "-" /\ At(s, a + 1) \in Alnum
    IN  [neg |-> neg, nptr |-> IF neg THEN a + 1 ELSE a]

Limited(sign, u) ==
    [v |-> IF u.v >= HALF THEN (IF sign.neg THEN -HALF ELSE HALF - 1)
           ELSE IF sign.neg THEN -u.v ELSE u.v,
     end |-> IF u.end = sign.nptr THEN 1 ELSE u.end]

strtol(s, base) == Limited(SignTaken(s), strtoul(s, SignTaken(s).nptr, base))
strtoll(s, base) == Limited(SignTaken(s), strtoull(s, SignTaken(s).nptr, base))

(* atoi, atol and atoll, for numbers that fit.                             *)
atoi(s) ==
    LET a == Past(s, 1, Spaces)
        first == IF At(s, a) \in {"-", "+"} THEN a + 1 ELSE a
        digits == SubSeq(s, first, Past(s, first, Decimal) - 1)
        v == FoldLeft(LAMBDA acc, c : acc * 10 + Value(c), 0, digits)
    IN  IF At(s, a) = "-" THEN -v ELSE v

-----------------------------------------------------------------------------
(* Writing *)

Repeated(c, n) == [i \in 1 .. Max({n, 0}) |-> c]
DigitFrom(v, upper) == IF upper /\ v >= 10 THEN UpperDigits[v - 9] ELSE LowerDigits[v + 1]

(* The digits of the greatest word.                                        *)
Places(base) == CHOOSE k \in 1 .. WORD : base ^ k >= WORD /\ base ^ (k - 1) < WORD

(* supcon_lenui, supcon_lenp and supcon_leni: comparisons with each power; *)
(* the last of leni forgets the sign, and the least number looks small.    *)
supcon_len(v, base) == Min({k \in 1 .. Places(base) : k = Places(base) \/ v < base ^ k})
supcon_leni(v) ==
    LET p == IF v < 0 /\ v # -HALF THEN -v ELSE v
        k == supcon_len(p, 10)
    IN  IF k = Places(10) THEN k ELSE (IF v < 0 THEN 1 ELSE 0) + k

(* supcon_putui and supcon_putp divide from the last digit on.             *)
supcon_put(v, base, upper) ==
    LET digits[k \in 0 .. Places(base)] ==
            IF k = 0 THEN <<>>
            ELSE LET temp == v \div base ^ (k - 1)
                 IN  IF temp = 0 THEN digits[k - 1]
                     ELSE <<DigitFrom(temp % base, upper)>> \o digits[k - 1]
    IN  IF v = 0 THEN <<"0">> ELSE digits[Places(base)]

(* supcon_puti: the least number has no digits, for temp is negative.      *)
supcon_puti(v) ==
    IF v = -HALF THEN <<"-">>
    ELSE IF v < 0 THEN <<"-">> \o supcon_put(-v, 10, FALSE)
    ELSE supcon_put(v, 10, FALSE)

(* bufcon_putui, bufcon_putp: from the first place on, zeros left out.     *)
bufcon_put_NoFound(v, base, upper) ==
    LET n == Places(base)
        place(i) == (v \div base ^ (n - i)) % base
    IN  FoldLeft(LAMBDA s, i : IF i < n /\ place(i) = 0 THEN s
                               ELSE Append(s, DigitFrom(place(i), upper)),
                 <<>>, [i \in 1 .. n |-> i])

bufcon_put(v, base, upper) ==
    LET n == Places(base)
        place(i) == (v \div base ^ (n - i)) % base
        found == Min({i \in 1 .. n : i = n \/ place(i) # 0})
    IN  [i \in 1 .. n - found + 1 |-> DigitFrom(place(found + i - 1), upper)]

bufcon_puti(v) ==
    IF v < 0 THEN <<"-">> \o bufcon_put(-v, 10, FALSE) ELSE bufcon_put(v, 10, FALSE)

(* A conversion of support_vfprintf (into FALSE) or support_vsprintf: what *)
(* its letter writes for the word arg, with off_length and pad_length.     *)
Padded(spaces, zeros, text) == Repeated(" ", spaces) \o Repeated("0", zeros) \o text

ConversionOf(into, letter, arg, off, pad) ==
    LET put(base, upper) ==
            IF into THEN bufcon_put(arg, base, upper) ELSE supcon_put(arg, base, upper)
        v == Signed(arg)
        len == CASE letter \in {"d", "i"} -> supcon_leni(v)
                 [] letter = "u" -> supcon_len(arg, 10)
                 [] OTHER -> supcon_len(arg, 16)
    IN  CASE letter \in {"d", "i"} ->
               Padded(off - len - pad, pad - len, IF into THEN bufcon_puti(v) ELSE supcon_puti(v))
          [] letter = "u" -> Padded(off - len - pad, pad - len, put(10, FALSE))
          [] letter = "p" -> Padded(off - len - pad, pad - len, put(16, ~into))
          [] letter \in {"x", "X"} ->
               Repeated(" ", off - len - 2) \o <<"0", "x">>
                 \o (IF into THEN <<>> ELSE Repeated("0", pad - len - 2)) \o put(16, letter = "X")

(* The loop over the format.  Only a "%" begins a conversion, and "%%" is  *)
(* another beginning.  An "l" outside of one goes to the screen, whether   *)
(* the rest does or not.                                                   *)
Plain == [modifier |-> FALSE, pad |-> FALSE, off_length |-> 0, pad_length |-> 0]
Formats == {"d", "i", "u", "p", "x", "X"}

FormatStep(into, arg, st, c) ==
    LET putc == [st EXCEPT !.out = Append(@, c)]
        reset(s) == Plain @@ s
        more(n) == n * 10 + Value(c)
    IN  IF c = "%" THEN [reset(st) EXCEPT !.modifier = TRUE]
        ELSE IF c = "l" THEN (IF st.modifier \/ into THEN st ELSE putc)
        ELSE IF c \in Formats \cup {"."} /\ ~st.modifier THEN putc
        ELSE IF c \in Formats
             THEN reset([st EXCEPT !.out =
                           @ \o ConversionOf(into, c, arg, st.off_length, st.pad_length)])
        ELSE IF c = "." THEN (IF st.pad THEN reset(st) ELSE [st EXCEPT !.pad = TRUE])
        ELSE IF c \in Decimal
             THEN IF ~st.modifier THEN reset(putc)
                  ELSE IF st.pad THEN [st EXCEPT !.pad_length = more(@)]
                  ELSE [st EXCEPT !.off_length = more(@)]
        ELSE reset([st EXCEPT !.out = @ \o Repeated(" ", st.off_length - 1) \o <<c>>])

Printed(into, format, arg) ==
    LET step(st, c) == FormatStep(into, arg, st, c)
    IN  FoldLeft(step, Plain @@ [out |-> <<>>], format).out

support_vfprintf(format, arg) == Printed(FALSE, format, arg)
support_vsprintf(format, arg) == Printed(TRUE, format, arg)

-----------------------------------------------------------------------------
(* Writing in the kernel: itoa takes the digits from the last one on and   *)
(* turns them round; print moves them to the end of size places, if there  *)
(* are fewer, after a sign or "0x".                                        *)
itoa(n, base) ==
    Reverse([i \in 1 .. supcon_len(n, base) |-> DigitFrom((n \div base ^ (i - 1)) % base, FALSE)])

MovedRight(size, buf) == Repeated("0", size - Len(buf)) \o buf

(* One conversion of print, with a size of one digit or none.              *)
print(format, arg) ==
    LET sized == format[2] \in Decimal
        size == IF sized THEN Value(format[2]) ELSE 0
        v == Signed(arg)
    IN  CASE Last(format) = "d" ->
               (IF v < 0 THEN <<"-">> ELSE <<>>)
                 \o MovedRight(size, itoa((IF v < 0 THEN -v ELSE v), 10))
          [] Last(format) = "u" -> MovedRight(size, itoa(arg, 10))
          [] Last(format) \in {"x", "X"} -> <<"0", "x">> \o MovedRight(size, itoa(arg, 16))
          [] Last(format) = "p" -> <<"0", "x">> \o MovedRight(8, itoa(arg, 16))

-----------------------------------------------------------------------------
(* The number that text begins with, as the C standard has it: white       *)
(* space, a sign, 0x for 16, and as many digits as follow.  With base 0, a *)
(* leading zero means 8.                                                   *)
Markers(base) == IF base = 16 THEN {<<>>, <<"0", "x">>, <<"0", "X">>} ELSE {<<>>}
Signs == {<<>>, <<"-">>, <<"+">>}

BaseFits(base, b, first) ==
    \/ base = b
    \/ base = 0 /\ (b = 16 \/ (b = 8 /\ first = "0") \/ (b = 10 /\ first # "0"))

Readings(s, base) ==
    {r \in [from : DOMAIN s, to : DOMAIN s, b : {8, 10, 16}, neg : BOOLEAN] :
       /\ r.from <= r.to
       /\ \A i \in r.from .. r.to : Value(s[i]) < r.b
       /\ BaseFits(base, r.b, s[r.from])
       /\ \E n \in 0 .. r.from - 1, sign \in Signs, prefix \in Markers(r.b) :
            /\ SubSeq(s, 1, r.from - 1) = Repeated(" ", n) \o sign \o prefix
            /\ r.neg = (sign = <<"-">>)
            /\ base = 0 /\ r.b = 16 => prefix # <<>>}

MagnitudeOf(s, r) ==
    FoldLeft(LAMBDA m, c : m * r.b + Value(c), 0, SubSeq(s, r.from, r.to))

Clamped(low, high, v) == IF v < low THEN low ELSE IF v > high THEN high ELSE v

(* Every text is read as the longest number it begins with, cut to the     *)
(* range of the result, with the place after it; or as 0 with the place of *)
(* the beginning.  The overflow test on the upper part of a word, in       *)
(* strtoull a signed one, misses nothing and finds nothing that is not.    *)
ReadsRight(s, base) ==
    LET all == Readings(s, base)
        best == CHOOSE r \in all : \A t \in all : t.to <= r.to
        m == IF all = {} THEN 0 ELSE MagnitudeOf(s, best)
        value == IF all # {} /\ best.neg THEN -m ELSE m
        end == IF all = {} THEN 1 ELSE best.to + 1
        u == IF m >= WORD THEN WORD - 1 ELSE value % WORD
        l == Clamped(-HALF, HALF - 1, value)
    IN  /\ strtoul(s, 1, base) = [v |-> u, end |-> end]
        /\ strtoull(s, 1, base) = [v |-> u, end |-> end]
        /\ strtol(s, base) = [v |-> l, end |-> end]
        /\ strtoll(s, base) = [v |-> l, end |-> end]
        /\ base = 10 => atoi(s) = value

(* What printf, sprintf and print write for a word, strtol and strtoul     *)
(* read back, for any width and precision, and to its end; the screen and  *)
(* the buffer get numbers of the same digits.  Left out: the least number  *)
(* with printf, of which only the sign is written, and negative numbers    *)
(* with a precision, whose zeros come before the sign; print knows no      *)
(* precision and no "l".                                                   *)
WritesRight(format, arg) ==
    LET letter == format[Len(format)]
        base == IF letter \in {"d", "i", "u"} THEN 10 ELSE 16
        signed == letter \in {"d", "i"}
        zeros == Contains(format, ".")
        back(s) == IF signed THEN strtol(s, base) ELSE strtoul(s, 1, base)
        right(s) == back(s) = [v |-> IF signed THEN Signed(arg) ELSE arg, end |-> Len(s) + 1]
    IN  /\ ~(signed /\ zeros /\ arg >= HALF) =>
             /\ right(support_vsprintf(format, arg))
             /\ ~(signed /\ arg = HALF) => right(support_vfprintf(format, arg))
        /\ ~zeros /\ ~Contains(format, "l") => right(print(format, arg))
=============================================================================

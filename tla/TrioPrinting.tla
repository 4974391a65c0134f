---------------------------- MODULE TrioPrinting -----------------------------
(***************************************************************************)
(* Formats of the trio library (libc/src/trio/trio.c): the qualifiers and  *)
(* the letter of a conversion, and the list of parameters that a format    *)
(* and the arguments are made into, for printing ("print") or reading      *)
(* ("scan").  Arguments have numbers from 0 on, parameters from 1 on.      *)
(***************************************************************************)
EXTENDS Numbers

MAX_PARAMETERS == 64
MAX_BASE == 36
NO_POSITION == -1
NO_WIDTH == 0
NO_PRECISION == -1
NO_BASE == -1

AllVarsizes == {"LONG", "QUAD", "INTMAX_T", "PTRDIFF_T", "SIZE_T"}
AllSizes == AllVarsizes \cup {"SHORTSHORT", "SHORT"}

(* The flags of FLAGS_, of which three have two names.                     *)
USER_DEFINED == "IGNORE"
USER_DEFINED_PARAMETER == "IGNORE_PARAMETER"
ROUNDING == "INTMAX_T"

TrioIsQualifier(character) ==
    character \in Decimal \cup
        {"+", "-", " ", ".", "*", "#", "h", "l", "^", "L", "z", "t", "j", "q", "Z", "w", "'", "!",
         "&", "@", "I", "R"}

(* A number that ends there in the rest of the format.                     *)
Long(r, offset) == [v |-> r.v, offset |-> offset + r.end - 1]
LongAt(format, offset) == Long(strtol(SubSeq(format, offset, Len(format)), 10), offset)

(* A number and "$" are a position, from 1 on in the format.               *)
Position(format, offset, number) ==
    IF number.v # 0 /\ At(format, number.offset) = "$"
    THEN [v |-> number.v - 1, offset |-> number.offset + 1]
    ELSE [v |-> NO_POSITION, offset |-> offset]

TrioGetPosition(format, offset) == Position(format, offset, LongAt(format, offset))

NewParameter ==
    [type |-> "UNKNOWN", flags |-> {}, position |-> NO_POSITION, width |-> NO_WIDTH,
     precision |-> NO_PRECISION, base |-> NO_BASE, baseSpecifier |-> NO_BASE, varsize |-> 0,
     handler |-> 0, namespace |-> <<>>, user_data |-> <<>>, beginOffset |-> 0, endOffset |-> 0,
     data |-> "none"]

-----------------------------------------------------------------------------
(* Qualifiers: a state has the parameter p so far, the offset of the next  *)
(* character, the dots there were, and whether there was an error.         *)

Adding(st, flags) == [st EXCEPT !.p.flags = @ \cup flags]
Invalid(st) == [st EXCEPT !.failed = TRUE]

(* Qualifiers that are no more than a flag, on a machine whose words are   *)
(* as long as its int, long and pointers.                                  *)
FlagsOf ==
    [c \in {" ", "+", "#", "L", "z", "t", "j", "q", "w", "Z", "'", "!", "&", "R"} |->
        CASE c = " " -> {"SPACE"} [] c = "+" -> {"SHOWSIGN"} [] c = "#" -> {"ALTERNATIVE"}
          [] c = "L" -> {"LONGDOUBLE"} [] c = "z" -> {"SIZE_T", "LONG"}
          [] c = "t" -> {"PTRDIFF_T", "LONG"} [] c = "j" -> {"INTMAX_T", "QUAD"}
          [] c = "q" -> {"QUAD"} [] c = "w" -> {"WIDECHAR"} [] c = "Z" -> {} [] c = "'" -> {"QUOTE"}
          [] c = "!" -> {"STICKY"} [] c = "&" -> {"VARSIZE_PARAMETER"} [] c = "R" -> {ROUNDING}]

(* A field of the parameter has been read, up to r's offset.               *)
Read(st, field, r, flags) == Adding([st EXCEPT !.p[field] = r.v, !.offset = r.offset], flags)

(* After a dot: a number, or "*" for a parameter, that may have a position.*)
Given(format, st, flag, parameter, field) ==
    IF At(format, st.offset) \in {"*", "@"}
    THEN Read(st, field, TrioGetPosition(format, st.offset + 1), {flag, parameter})
    ELSE Read(st, field, LongAt(format, st.offset), {flag})

Based(st, based) ==
    IF "BASE_PARAMETER" \notin based.p.flags /\ based.p.base > MAX_BASE THEN Invalid(st) ELSE based

DotQualifier(format, st) ==
    LET next == [st EXCEPT !.dots = @ + 1]
    IN  IF st.dots = 0
        THEN IF At(format, st.offset) = "." THEN next
             ELSE Given(format, next, "PRECISION", "PRECISION_PARAMETER", "precision")
        ELSE IF st.dots = 1 THEN Based(next, Given(format, next, "BASE", "BASE_PARAMETER", "base"))
        ELSE Invalid(st)

Starred(st, width) ==
    Adding([st EXCEPT !.p.width = IF width.v # NO_POSITION THEN width.v ELSE @,
                      !.offset = width.offset],
           {"WIDTH", "WIDTH_PARAMETER"})

StarQualifier(type, format, st) ==
    IF type # "print" THEN Adding(st, {"IGNORE"})
    ELSE Starred(st, TrioGetPosition(format, st.offset))

(* The digit c has been passed.                                            *)
WidthQualifier(format, st, c) ==
    Read(st, "width", LongAt(format, st.offset - 1),
         {"WIDTH"} \cup (IF c = "0" /\ "LEFTADJUST" \notin st.p.flags THEN {"NILPADDING"} ELSE {}))

(* "h" and "l" may be doubled.                                             *)
SizeQualifier(st, once, twice) ==
    IF twice \in st.p.flags THEN Invalid(st)
    ELSE Adding(st, {IF once \in st.p.flags THEN twice ELSE once})

FixedQualifier(format, st) ==
    LET bits(t) == SubSeq(format, st.offset, st.offset + Len(t) - 1) = t
        sized(size, n) == Adding([st EXCEPT !.p.varsize = size, !.offset = @ + n], {"FIXED_SIZE"})
        others == AllSizes \cup {"FIXED_SIZE", "LONGDOUBLE", "WIDECHAR", "VARSIZE_PARAMETER"}
    IN  IF st.p.flags \cap others # {} THEN Invalid(st)
        ELSE IF bits(<<"6", "4">>) THEN sized(8, 2)
        ELSE IF bits(<<"3", "2">>) THEN sized(4, 2)
        ELSE IF bits(<<"1", "6">>) THEN sized(2, 2)
        ELSE IF bits(<<"8">>) THEN sized(1, 1)
        ELSE Invalid(st)

Qualifier(type, format, st, ch) ==
    IF ch \in DOMAIN FlagsOf THEN Adding(st, FlagsOf[ch])
    ELSE CASE ch = "-" -> Adding([st EXCEPT !.p.flags = @ \ {"NILPADDING"}], {"LEFTADJUST"})
           [] ch = "." -> DotQualifier(format, st)
           [] ch \in {"*", "@"} -> StarQualifier(type, format, st)
           [] ch \in Decimal -> WidthQualifier(format, st, ch)
           [] ch = "h" -> SizeQualifier(st, "SHORT", "SHORTSHORT")
           [] ch = "l" -> SizeQualifier(st, "LONG", "QUAD")
           [] ch = "I" -> FixedQualifier(format, st)
           [] ch = "^" -> Invalid(st)

RECURSIVE Qualified(_, _, _)
Qualified(type, format, st) ==
    LET ch == At(format, st.offset)
    IN  IF st.failed \/ ~TrioIsQualifier(ch) THEN [st EXCEPT !.p.endOffset = st.offset]
        ELSE Qualified(type, format, Qualifier(type, format, [st EXCEPT !.offset = @ + 1], ch))

AfterPosition(offset, position) ==
    [p |-> [NewParameter EXCEPT !.beginOffset = offset - 1, !.position = position.v],
     offset |-> position.offset, dots |-> 0, failed |-> FALSE]

TrioParseQualifiers(type, format, offset) ==
    Qualified(type, format, AfterPosition(offset, TrioGetPosition(format, offset)))

-----------------------------------------------------------------------------
(* The letter of a conversion: its type, flags and base.                   *)

Letters ==
    [c \in {"i", "u", "d", "o", "b", "B", "x", "X", "e", "E", "g", "G", "f", "F", "a", "A", "n", "m"} |->
        CASE c = "i" -> <<"INT", {}, NO_BASE>> [] c = "u" -> <<"INT", {"UNSIGNED"}, NO_BASE>>
          [] c = "d" -> <<"INT", {}, 10>> [] c = "o" -> <<"INT", {"UNSIGNED"}, 8>>
          [] c = "b" -> <<"INT", {"NILPADDING"}, 2>> [] c = "B" -> <<"INT", {"NILPADDING", "UPPER"}, 2>>
          [] c = "x" -> <<"INT", {"UNSIGNED"}, 16>> [] c = "X" -> <<"INT", {"UNSIGNED", "UPPER"}, 16>>
          [] c = "e" -> <<"DOUBLE", {"FLOAT_E"}, NO_BASE>>
          [] c = "E" -> <<"DOUBLE", {"FLOAT_E", "UPPER"}, NO_BASE>>
          [] c = "g" -> <<"DOUBLE", {"FLOAT_G"}, NO_BASE>>
          [] c = "G" -> <<"DOUBLE", {"FLOAT_G", "UPPER"}, NO_BASE>>
          [] c = "f" -> <<"DOUBLE", {}, NO_BASE>> [] c = "F" -> <<"DOUBLE", {"UPPER"}, NO_BASE>>
          [] c = "a" -> <<"DOUBLE", {}, 16>> [] c = "A" -> <<"DOUBLE", {"UPPER"}, 16>>
          [] c = "n" -> <<"COUNT", {}, NO_BASE>> [] c = "m" -> <<"ERRNO", {}, NO_BASE>>]

(* Characters and strings are wide with "l" or a capital letter.           *)
Worded(p, type, capital) ==
    LET wide == IF capital THEN p.flags \cup {"WIDECHAR"} ELSE p.flags
    IN  [p EXCEPT !.type = type,
                  !.flags = IF "LONG" \in p.flags THEN wide \cup {"WIDECHAR"}
                            ELSE IF "SHORT" \in p.flags THEN wide \ {"WIDECHAR"} ELSE wide]

(* Where the brackets that were open before offset have been closed.       *)
Ungrouped(format, offset) ==
    LET skip(i, c) == IF At(format, i) = c THEN i + 1 ELSE i
        first == skip(skip(skip(offset, "^"), "]"), "-")
        depth(i) == 1 + Cardinality({j \in first .. i : format[j] = "["})
                      - Cardinality({j \in first .. i : format[j] = "]"})
    IN  Min({Len(format) + 1} \cup {i + 1 : i \in {j \in first .. Len(format) : depth(j) <= 0}})

(* "<namespace:data|extra>": what is before the last ":" is the namespace; *)
(* without one the handler is a parameter.                                 *)
UserDefined(p, format, offset) ==
    LET after(from, S) == Min({Len(format) + 1} \cup {i \in from .. Len(format) : format[i] \in S})
        stop == after(offset, {">", "|"})
        end == after(offset, {">"})
        colons == {i \in offset .. stop - 1 : format[i] = ":"}
        data == IF colons = {} THEN offset ELSE Max(colons) + 1
        name == IF colons = {} THEN offset
                ELSE Max({offset} \cup {i + 1 : i \in colons \ {Max(colons)}})
    IN  [p |-> [p EXCEPT !.type = "USER_DEFINED",
                         !.flags = IF colons = {} THEN @ \cup {USER_DEFINED_PARAMETER} ELSE @,
                         !.namespace = IF colons = {} THEN <<>> ELSE SubSeq(format, name, data - 2),
                         !.user_data = SubSeq(format, data, stop - 1),
                         !.endOffset = end + 1],
         failed |-> end > Len(format)]

TrioParseSpecifier(type, format, offset, p) ==
    LET ch == At(format, offset)
        ends(q, end) == [p |-> [q EXCEPT !.endOffset = end], failed |-> FALSE]
    IN  CASE ch \in DOMAIN Letters ->
               ends([p EXCEPT !.type = Letters[ch][1], !.flags = @ \cup Letters[ch][2],
                              !.baseSpecifier = Letters[ch][3]], offset + 1)
          [] ch = "p" -> ends([p EXCEPT !.type = "POINTER", !.flags = @ \cup {"LONG"}], offset + 1)
          [] ch \in {"c", "C"} -> ends(Worded(p, "CHAR", ch = "C"), offset + 1)
          [] ch \in {"s", "S"} -> ends(Worded(p, "STRING", ch = "S"), offset + 1)
          [] ch = "[" -> IF type = "scan"
                         THEN ends([p EXCEPT !.type = "GROUP"], Ungrouped(format, offset + 1))
                         ELSE ends(p, offset + 1)
          [] ch = "<" -> UserDefined(p, format, offset + 1)
          [] OTHER -> [p |-> p, failed |-> TRUE]

-----------------------------------------------------------------------------
(* The whole format.  The state ps has the parameters so far, how often    *)
(* each argument is used, which parameter is the last to use it, and       *)
(* parameterPosition, the number of the next one without a position.       *)
(* Numbers of arguments are below MAX_PARAMETERS: only a conversion's own  *)
(* position is tested, and only after the others have been used as indices.*)

Arguments == 0 .. MAX_PARAMETERS - 1

Using(ps, argument, parameter) ==
    [ps EXCEPT !.usedEntries[argument] = @ + 1, !.indices[argument] = Len(ps.parameters) + 1,
               !.maxParam = Max({@, argument}), !.parameters = Append(@, parameter)]

Asked == [NewParameter EXCEPT !.type = "PARAMETER"]

(* A width, precision or base that is an argument gets a parameter of its  *)
(* own, to which the field then points; with a position, the conversion    *)
(* comes after it unless it has its own.                                   *)
FromArgument(st, flag, field, none, positional) ==
    LET implicit == st.p[field] = none
        argument == IF implicit THEN st.ps.parameterPosition ELSE st.p[field]
    IN  IF flag \notin st.p.flags THEN st
        ELSE [ps |-> Using([st.ps EXCEPT !.parameterPosition = IF implicit THEN @ + 1 ELSE @],
                           argument, Asked),
              p |-> [st.p EXCEPT !.position = IF implicit \/ positional THEN @ ELSE argument + 1,
                                 ![field] = Len(st.ps.parameters) + 1]]

(* So does a size with "&", and a handler, always the next one.            *)
NextArgument(st, flag, field, flags) ==
    IF flag \notin st.p.flags THEN st
    ELSE [ps |-> Using([st.ps EXCEPT !.parameterPosition = @ + 1], st.ps.parameterPosition,
                       [Asked EXCEPT !.flags = flags]),
          p |-> [st.p EXCEPT ![field] = Len(st.ps.parameters) + 1]]

(* What the last sticky conversion of the same type has, those after it    *)
(* have too, unless they say otherwise.                                    *)
Inheriting(parameters, p) ==
    LET models == {i \in DOMAIN parameters : "STICKY" \in parameters[i].flags
                                              /\ parameters[i].type = p.type}
        model == parameters[Max(models)]
        unless(none, field) == IF p[field] = none THEN model[field] ELSE p[field]
    IN  IF models = {} \/ "STICKY" \in p.flags THEN p
        ELSE [p EXCEPT !.flags = @ \cup (model.flags \ {"STICKY"}),
                       !.width = unless(NO_WIDTH, "width"),
                       !.precision = unless(NO_PRECISION, "precision"),
                       !.base = unless(NO_BASE, "base")]

WithFields(st, positional) ==
    FromArgument(
        FromArgument(
            FromArgument(st, "WIDTH_PARAMETER", "width", NO_WIDTH, positional),
            "PRECISION_PARAMETER", "precision", NO_PRECISION, positional),
        "BASE_PARAMETER", "base", NO_BASE, positional)

WithArguments(st) ==
    NextArgument(NextArgument(st, "VARSIZE_PARAMETER", "varsize", {}),
                 USER_DEFINED_PARAMETER, "handler", {USER_DEFINED})

(* The conversion itself comes after the arguments it has asked for.       *)
Listed(st) ==
    LET implicit == st.p.position = NO_POSITION
        position == IF implicit THEN st.ps.parameterPosition ELSE st.p.position
        next == [st.ps EXCEPT !.parameterPosition = IF implicit THEN @ + 1 ELSE @]
        p == Inheriting(st.ps.parameters, [st.p EXCEPT !.position = position])
    IN  IF position >= MAX_PARAMETERS THEN [next EXCEPT !.error = "ETOOMANY"]
        ELSE [Using(next, position, [p EXCEPT !.base = IF @ = NO_BASE THEN 10 ELSE @])
                EXCEPT !.offset = st.p.endOffset]

Entered(ps, parameter) ==
    Listed(WithArguments(WithFields([ps |-> ps, p |-> parameter],
                                    parameter.position # NO_POSITION)))

(* Only "%" begins a conversion, and "$" one of the user's.                *)
Entering(ps, ch, s) ==
    IF s.failed THEN IF ch = "%" THEN [ps EXCEPT !.error = "EINVAL"] ELSE [ps EXCEPT !.offset = @ + 1]
    ELSE IF ch = "%" \/ s.p.type = "USER_DEFINED" THEN Entered(ps, s.p)
    ELSE [ps EXCEPT !.offset = @ + 1]

Specified(type, format, q) ==
    IF q.failed THEN q ELSE TrioParseSpecifier(type, format, q.p.endOffset, q.p)

Conversion(type, format, ps) ==
    LET ch == At(format, ps.offset)
        here == ps.offset + 1
    IN  IF ch = "%" /\ At(format, here) = "%" THEN [ps EXCEPT !.offset = here + 1]
        ELSE IF ch \in {"%", "$"}
        THEN Entering(ps, ch, Specified(type, format, TrioParseQualifiers(type, format, here)))
        ELSE [ps EXCEPT !.offset = here]

RECURSIVE Conversions(_, _, _)
Conversions(type, format, ps) ==
    IF ps.offset > Len(format) \/ ps.error # "none" THEN ps
    ELSE Conversions(type, format, Conversion(type, format, ps))

(* What the caller gave: a number is an int unless the flags say more; a   *)
(* size that is an argument, or fixed, decides which flags those are.      *)
LONGLONG == WORD * WORD

SizedFlags(parameters, p) ==
    LET varsize == IF "VARSIZE_PARAMETER" \in p.flags THEN parameters[p.varsize].data ELSE p.varsize
    IN  IF p.flags \cap {"VARSIZE_PARAMETER", "FIXED_SIZE"} = {} THEN p.flags
        ELSE (p.flags \ AllVarsizes) \cup (IF varsize <= 4 THEN {} ELSE IF varsize <= 8 THEN {"QUAD"}
                                           ELSE {"INTMAX_T"})

Integral(flags, v) ==
    IF "SIZE_T" \in flags THEN v % WORD
    ELSE IF "PTRDIFF_T" \notin flags /\ flags \cap {"INTMAX_T", "QUAD"} # {} THEN v % LONGLONG
    ELSE Signed(v % WORD) % LONGLONG

Fetched(type, parameters, p, v) ==
    LET flags == SizedFlags(parameters, p)
    IN  IF type = "print" /\ p.type \in {"CHAR", "INT"}
        THEN [p EXCEPT !.flags = flags, !.data = IF p.type = "INT" THEN Integral(flags, v) ELSE v]
        ELSE IF p.type = "PARAMETER" /\ USER_DEFINED \notin p.flags
        THEN [p EXCEPT !.data = Signed(v % WORD)]
        ELSE [p EXCEPT !.data = v]

(* From a list (array FALSE) the arguments are taken one by one, by those  *)
(* parameters that take any; in an array each has its place.               *)
Bound(type, ps, args, array, errno) ==
    LET takes(num) == LET p == ps.parameters[ps.indices[num]]
                      IN  (p.type = "PARAMETER" \/ "IGNORE" \notin p.flags) /\ p.type # "ERRNO"
        place(num) == IF array THEN num + 1
                      ELSE 1 + Cardinality({n \in 0 .. num - 1 : takes(n)})
        fetch(parameters, num) ==
            LET i == ps.indices[num]
                p == parameters[i]
            IN  IF takes(num)
                THEN [parameters EXCEPT ![i] = Fetched(type, parameters, p, args[place(num)])]
                ELSE IF p.type = "ERRNO" THEN [parameters EXCEPT ![i].data = errno]
                ELSE parameters
    IN  FoldLeft(fetch, ps.parameters, Upwards(ps.maxParam + 1))

(* The first argument that is not used once is the error.                  *)
Resolved(type, format, ps, args, array, errno) ==
    LET wrong == {num \in 0 .. ps.maxParam : ps.usedEntries[num] # 1}
        sentinel == [NewParameter EXCEPT !.type = "SENTINEL", !.beginOffset = Len(format) + 1]
    IN  IF ps.error # "none" THEN [error |-> ps.error, parameters |-> <<>>]
        ELSE IF wrong # {}
        THEN [error |-> IF ps.usedEntries[Min(wrong)] = 0 THEN "EGAP" ELSE "EDBLREF",
              parameters |-> <<>>]
        ELSE [error |-> "none",
              parameters |-> Append(Bound(type, ps, args, array, errno), sentinel)]

TrioParse(type, format, args, array, errno) ==
    Resolved(type, format,
             Conversions(type, format,
                 [parameters |-> <<>>, usedEntries |-> [a \in Arguments |-> 0],
                  indices |-> [a \in Arguments |-> 0], maxParam |-> -1, parameterPosition |-> 0,
                  offset |-> 1, error |-> "none"]),
             args, array, errno)

-----------------------------------------------------------------------------
(***************************************************************************)
(* Printing in the trio library (libc/src/trio/trio.c): what a conversion  *)
(* writes, where it goes, and the conversions of the user.  Numbers of     *)
(* trio_uintmax_t are modulo LONGLONG; floating point is not modelled.     *)
(***************************************************************************)

NullString == <<"NULL">>
NullPointer == 0
internalNullString == <<"(", "n", "i", "l", ")">>
internalDigitsLower ==
    <<"0", "1", "2", "3", "4", "5", "6", "7", "8", "9", "a", "b", "c", "d", "e", "f", "g", "h", "i",
      "j", "k", "l", "m", "n", "o", "p", "q", "r", "s", "t", "u", "v", "w", "x", "y", "z">>
internalDigitsUpper ==
    SubSeq(internalDigitsLower, 1, 10) \o
    <<"A", "B", "C", "D", "E", "F", "G", "H", "I", "J", "K", "L", "M", "N", "O", "P", "Q", "R", "S",
      "T", "U", "V", "W", "X", "Y", "Z">>

(* The separator of thousands, and the sizes of groups from the last one   *)
(* on: what is after them is 0, and CHAR_MAX (or no group) ends grouping.  *)
CHAR_MAX == 127
InitialLocale == [separator |-> <<",">>, grouping |-> <<CHAR_MAX>>]
MAX_LOCALE_SEPARATOR_LENGTH == 4

trio_locale_set_thousand_separator(locale, separator) ==
    [locale EXCEPT !.separator = SubSeq(separator, 1, Min({Len(separator), MAX_LOCALE_SEPARATOR_LENGTH}))]
trio_locale_set_grouping(locale, grouping) == [locale EXCEPT !.grouping = grouping]

(* Whether there is a separator to the left of so many digits: some groups *)
(* make up exactly that many.                                              *)
TrioFollowedBySeparator(locale, digits) ==
    LET g == locale.grouping
        size(k) == IF k <= Len(g) THEN g[k] ELSE IF g = <<>> THEN 0 ELSE Last(g)
        sum[k \in 0 .. digits] == IF k = 0 THEN 0 ELSE sum[k - 1] + size(k)
    IN  \E k \in 1 .. digits :
            sum[k] = digits /\ \A j \in 1 .. k : size(j) \notin {0, CHAR_MAX}

-----------------------------------------------------------------------------
(* What is written for a number: spaces, sign, prefix, zeros, digits and   *)
(* trailing spaces.  Bases are from 2 to 36.                               *)

RECURSIVE DigitsOf(_, _, _)
DigitsOf(n, base, digits) ==
    (IF n < base THEN <<>> ELSE DigitsOf(n \div base, base, digits)) \o <<digits[1 + (n % base)]>>

Grouped(locale, digits) ==
    LET n == Len(digits)
    IN  FoldLeft(LAMBDA text, i : text \o (IF i > 1 /\ TrioFollowedBySeparator(locale, n - i + 1)
                                           THEN locale.separator ELSE <<>>) \o <<digits[i]>>,
                 <<>>, [i \in 1 .. n |-> i])

SignOf(negative, flags) ==
    IF negative THEN <<"-">>
    ELSE IF "SHOWSIGN" \in flags /\ "UNSIGNED" \notin flags THEN <<"+">>
    ELSE IF "SPACE" \in flags THEN <<" ">> ELSE <<>>

PrefixOf(flags, base, zeros) ==
    LET upper == "UPPER" \in flags
    IN  CASE base = 2 -> <<"0", IF upper THEN "B" ELSE "b">>
          [] base = 16 -> <<"0", IF upper THEN "X" ELSE "x">>
          [] base = 8 -> IF "NILPADDING" \in flags /\ zeros # 0 THEN <<>> ELSE <<"0">>
          [] OTHER -> <<>>

IsNegative(number, flags) == "UNSIGNED" \notin flags /\ number >= LONGLONG \div 2

Magnitude(number, flags) ==
    (IF IsNegative(number, flags) THEN LONGLONG - number ELSE number)
      % (IF "QUAD" \in flags THEN LONGLONG ELSE WORD)

FiguresOf(locale, plain, flags) == IF "QUOTE" \in flags THEN Grouped(locale, plain) ELSE plain

(* Zeros up to the precision or, without one, the width; those of the      *)
(* precision come in front also where there is padding behind.             *)
Layout(number, sign, digits, flags, width, precision, base) ==
    LET ignore == number = 0 /\ precision = 0 /\ ~("ALTERNATIVE" \in flags /\ base = 8)
        least == IF precision = NO_PRECISION THEN NO_PRECISION
                 ELSE Max({precision - Len(digits), 0})
        nil == precision # NO_PRECISION \/ "NILPADDING" \in flags
        left == "LEFTADJUST" \in flags
        count == IF left \/ least = NO_PRECISION THEN 0 ELSE least
        prefix == IF "ALTERNATIVE" \notin flags \/ number = 0 THEN <<>>
                  ELSE PrefixOf(IF nil THEN flags \cup {"NILPADDING"} ELSE flags, base, count)
        room == width - (IF ignore THEN 0 ELSE Len(digits)) - Len(sign) - Len(prefix)
        zeros == IF ~nil THEN 0 ELSE IF least = NO_PRECISION THEN Max({room, 0}) ELSE least
    IN  Repeated(" ", IF left \/ (nil /\ least = NO_PRECISION) THEN 0 ELSE room - count)
          \o sign \o prefix \o Repeated("0", zeros) \o (IF ignore THEN <<>> ELSE digits)
          \o Repeated(" ", IF left THEN room - zeros ELSE 0)

TrioWriteNumber(locale, number, flags, width, precision, base) ==
    LET b == IF base = NO_BASE THEN 10 ELSE base
    IN  Layout(number, SignOf(IsNegative(number, flags), flags),
               FiguresOf(locale,
                         DigitsOf(Magnitude(number, flags), b,
                                  IF "UPPER" \in flags THEN internalDigitsUpper
                                  ELSE internalDigitsLower),
                         flags),
               flags, width, precision, b)

-----------------------------------------------------------------------------
(* Characters and strings *)

(* Characters that cannot be printed: those with an escape, and one whose  *)
(* code is 1.                                                              *)
Escapes == [c \in {"BEL", "BS", "FF", "LF", "CR", "HT", "VT"} |->
    CASE c = "BEL" -> "a" [] c = "BS" -> "b" [] c = "FF" -> "f" [] c = "LF" -> "n"
      [] c = "CR" -> "r" [] c = "HT" -> "t" [] c = "VT" -> "v"]
SOH == "SOH"

TrioWriteStringCharacter(ch, flags) ==
    IF "ALTERNATIVE" \notin flags THEN <<ch>>
    ELSE CASE ch \in DOMAIN Escapes -> <<"\\", Escapes[ch]>>
           [] ch = SOH -> <<"\\", "x">> \o TrioWriteNumber(InitialLocale, 1, {"UNSIGNED", "NILPADDING"},
                                                           2, 2, 16)
           [] ch = "\\" -> <<"\\", "\\">>
           [] OTHER -> <<ch>>

Escaped(text, flags) == FlattenSeq([i \in DOMAIN text |-> TrioWriteStringCharacter(text[i], flags)])

(* Spaces before or after, and quotes around them.                         *)
Placed(text, flags, spaces) ==
    LET quote == IF "QUOTE" \in flags THEN <<"\"">> ELSE <<>>
        left == "LEFTADJUST" \in flags
    IN  quote \o Repeated(" ", IF left THEN 0 ELSE spaces) \o text
          \o Repeated(" ", IF left THEN spaces ELSE 0) \o quote

TrioWriteString(string, flags, width, precision) ==
    LET null == string = NullString
        all == IF null THEN internalNullString ELSE string
        text == IF precision = NO_PRECISION THEN all
                ELSE SubSeq(all, 1, Min({Len(all), precision}))
    IN  Placed(Escaped(text, flags), IF null THEN flags \ {"QUOTE"} ELSE flags,
               (IF null THEN 0 ELSE width) - Len(text))

(* Wide characters, in a locale where each is one character: the width is  *)
(* reduced by the precision, whatever the length.                          *)
TrioWriteWideStringCharacter(wch, flags) ==
    IF wch = NUL THEN <<>> ELSE TrioWriteStringCharacter(wch, flags)

TrioWriteWideString(wstring, flags, width, precision) ==
    IF wstring = NullString THEN TrioWriteString(wstring, flags, width, precision)
    ELSE LET text == IF precision = NO_PRECISION THEN wstring
                     ELSE SubSeq(wstring, 1, Min({Len(wstring), precision}))
         IN  Placed(FlattenSeq([i \in DOMAIN text |-> TrioWriteWideStringCharacter(text[i], flags)]),
                    flags, IF precision = NO_PRECISION THEN width ELSE width - precision)

WriteCharacter(ch, flags, width) ==
    Placed(IF "WIDECHAR" \in flags THEN TrioWriteWideStringCharacter(ch, flags)
           ELSE TrioWriteStringCharacter(ch, flags), flags, width - 1)

POINTER_WIDTH == 2 + Places(16)
trio_print_pointer(locale, pointer, flags) ==
    IF pointer = NullPointer THEN internalNullString
    ELSE TrioWriteNumber(locale, pointer, flags \cup {"UNSIGNED", "ALTERNATIVE", "NILPADDING"},
                         POINTER_WIDTH, NO_PRECISION, 16)

trio_error(errno) == <<"E">>

-----------------------------------------------------------------------------
(* Where it goes.  `room' is how many characters the destination takes, as *)
(* a file on a full disk; `processed' counts what was to be written,       *)
(* `committed' what was.                                                   *)

NewClass(kind, room, max) ==
    [kind |-> kind, room |-> room, max |-> max, out |-> <<>>, processed |-> 0, committed |-> 0,
     error |-> "none", counts |-> <<>>]

Committed(self, output) == [self EXCEPT !.out = Append(@, output), !.committed = @ + 1]
Processed(self) == [self EXCEPT !.processed = @ + 1]
Full(self) == Len(self.out) >= self.room

TrioOutStreamFile(self, output) ==
    Processed(IF Full(self) THEN [self EXCEPT !.error = "EOF"] ELSE Committed(self, output))

TrioOutStreamFileDescriptor(self, output) ==
    Processed(IF Full(self) THEN [self EXCEPT !.error = "ERRNO"] ELSE Committed(self, output))

TrioOutStreamCustom(self, output) ==
    Processed(IF ~Full(self) THEN Committed(self, output)
              ELSE [self EXCEPT !.error = IF @ = "none" THEN "ECUSTOM" ELSE @])

TrioOutStreamString(self, output) == Processed(Committed(self, output))

TrioOutStreamStringMax(self, output) ==
    Processed(IF self.processed < self.max THEN Committed(self, output) ELSE self)

(* A character for which there is no memory is committed, too.             *)
TrioOutStreamStringDynamic(self, output) ==
    Processed(IF self.error # "none" THEN self
              ELSE IF Full(self) THEN [self EXCEPT !.committed = @ + 1]
              ELSE Committed(self, output))

OutStream(self, output) ==
    CASE self.kind = "file" -> TrioOutStreamFile(self, output)
      [] self.kind = "descriptor" -> TrioOutStreamFileDescriptor(self, output)
      [] self.kind = "custom" -> TrioOutStreamCustom(self, output)
      [] self.kind = "string" -> TrioOutStreamString(self, output)
      [] self.kind = "max" -> TrioOutStreamStringMax(self, output)
      [] self.kind = "dynamic" -> TrioOutStreamStringDynamic(self, output)

Put(self, text) == FoldLeft(OutStream, self, text)

-----------------------------------------------------------------------------
(* Conversions of the user are registered under a name.  A callback is     *)
(* what it does with the reference it gets (RefStep).                      *)

NoCallback == <<>>
TrioFindNamespace(users, name) ==
    LET found == {i \in DOMAIN users : users[i].name = name}
    IN  IF found = {} THEN NoCallback ELSE users[Min(found)].callback

trio_register(users, callback, name, got) ==
    IF callback = NoCallback \/ name[1] = ":" \/ TrioFindNamespace(users, name) # NoCallback \/ ~got
    THEN users
    ELSE Append(users, [name |-> name, callback |-> callback])

trio_unregister(users, name) ==
    LET found == {i \in DOMAIN users : users[i].name = name}
    IN  IF found = {} THEN users ELSE RemoveAt(users, Min(found))

(* What the functions trio_get_ and trio_set_ of these names are about.    *)
FieldAccessors == [format |-> "user_data", argument |-> "data", width |-> "width",
                   precision |-> "precision", base |-> "base"]
SizeAccessors == [long |-> "LONG", longlong |-> "QUAD", longdouble |-> "LONGDOUBLE",
                  short |-> "SHORT", shortshort |-> "SHORTSHORT"]
FormAccessors == [alternative |-> "ALTERNATIVE", alignment |-> "LEFTADJUST", spacing |-> "SPACE",
                  sign |-> "SHOWSIGN", padding |-> "NILPADDING"]
MoreAccessors == [quote |-> "QUOTE", upper |-> "UPPER", largest |-> "INTMAX_T",
                  ptrdiff |-> "PTRDIFF_T", size |-> "SIZE_T"]
FlagAccessors == SizeAccessors @@ FormAccessors @@ MoreAccessors

trio_get(p, name) ==
    IF name \in DOMAIN FieldAccessors THEN p[FieldAccessors[name]] ELSE FlagAccessors[name] \in p.flags

trio_set(p, name, v) ==
    IF name \in DOMAIN FieldAccessors THEN [p EXCEPT ![FieldAccessors[name]] = v]
    ELSE [p EXCEPT !.flags = IF v THEN @ \cup {FlagAccessors[name]} ELSE @ \ {FlagAccessors[name]}]

-----------------------------------------------------------------------------
(* The whole format.  A context has the locale, the conversions of the     *)
(* user, and errno.                                                        *)

(* What is between conversions; "%%" is one character.                     *)
Between(format, from, to) ==
    FoldLeft(LAMBDA acc, i : IF acc.skip THEN [acc EXCEPT !.skip = FALSE]
                             ELSE [text |-> Append(acc.text, format[i]),
                                   skip |-> format[i] = "%" /\ At(format, i + 1) = "%"],
             [text |-> <<>>, skip |-> FALSE], [i \in 1 .. to - from |-> from + i - 1]).text

(* Width, precision and base, some of them arguments; a negative width is  *)
(* a flag, a negative precision none.                                      *)
WidthOf(parameters, p) ==
    IF "WIDTH_PARAMETER" \in p.flags THEN parameters[p.width].data ELSE p.width

PrecisionOf(parameters, p) ==
    IF "PRECISION" \notin p.flags THEN NO_PRECISION
    ELSE IF "PRECISION_PARAMETER" \notin p.flags THEN p.precision
    ELSE Max({parameters[p.precision].data, NO_PRECISION})

BaseOf(parameters, p) ==
    IF p.baseSpecifier # NO_BASE THEN p.baseSpecifier
    ELSE IF "BASE_PARAMETER" \in p.flags THEN parameters[p.base].data ELSE p.base

Written(ctx, p, flags, width, precision, base) ==
    CASE p.type = "CHAR" -> WriteCharacter(p.data, flags, width)
      [] p.type = "INT" -> TrioWriteNumber(ctx.locale, p.data, flags, width, precision, base)
      [] p.type = "STRING" -> IF "WIDECHAR" \in flags
                              THEN TrioWriteWideString(p.data, flags, width, precision)
                              ELSE TrioWriteString(p.data, flags, width, precision)
      [] p.type = "POINTER" -> trio_print_pointer(ctx.locale, p.data, p.flags)
      [] p.type = "ERRNO" -> TrioWriteString(trio_error(p.data), flags, width, precision)
      [] OTHER -> <<>>

TextOf(ctx, parameters, p) ==
    LET width == WidthOf(parameters, p)
        negative == "WIDTH_PARAMETER" \in p.flags /\ width < 0
    IN  Written(ctx, p,
                IF negative THEN (p.flags \ {"NILPADDING"}) \cup {"LEFTADJUST"} ELSE p.flags,
                IF negative THEN -width ELSE width,
                PrecisionOf(parameters, p), BaseOf(parameters, p))

(* What a callback may do with its reference: set something, or print.     *)
RefText(ctx, p, step) ==
    CASE step.do = "print_int" ->
           TrioWriteNumber(ctx.locale, step.v % LONGLONG, p.flags, p.width, p.precision, p.base)
      [] step.do = "print_uint" ->
           TrioWriteNumber(ctx.locale, step.v % WORD, p.flags \cup {"UNSIGNED"}, p.width,
                           p.precision, p.base)
      [] step.do = "print_string" ->
           TrioWriteString(trio_get(p, step.name), p.flags, p.width, p.precision)
      [] step.do = "print_pointer" -> trio_print_pointer(ctx.locale, step.v, p.flags)

RefStep(ctx, ref, step) ==
    CASE step.do = "set" -> [ref EXCEPT !.p = trio_set(@, step.name, step.v)]
      [] OTHER -> [ref EXCEPT !.self = Put(@, RefText(ctx, ref.p, step))]

Called(ctx, self, p, callback) ==
    FoldLeft(LAMBDA ref, step : RefStep(ctx, ref, step), [self |-> self, p |-> p], callback).self

(* A handler that is an argument is the one just before its conversion.    *)
UsersText(ctx, self, parameters, i) ==
    LET p == parameters[i]
        callback == IF USER_DEFINED_PARAMETER \in p.flags THEN parameters[i - 1].data
                    ELSE TrioFindNamespace(ctx.users, p.namespace)
    IN  IF callback = NoCallback THEN self ELSE Called(ctx, self, p, callback)

Counted(self, pointer) ==
    IF pointer = NullPointer THEN self
    ELSE [self EXCEPT !.counts = Append(@, [at |-> pointer, n |-> self.committed])]

(* What is written for parameter i, after what came before it.             *)
Conversed(ctx, self, parameters, i) ==
    LET p == parameters[i]
    IN  CASE p.type = "COUNT" -> Counted(self, p.data)
          [] p.type = "USER_DEFINED" -> UsersText(ctx, self, parameters, i)
          [] OTHER -> Put(self, TextOf(ctx, parameters, p))

(* Parameters from i on; the format has been read up to offset.            *)
RECURSIVE FormatFrom(_, _, _, _, _, _)
FormatFrom(ctx, self, format, parameters, i, offset) ==
    IF i > Len(parameters) THEN self
    ELSE LET p == parameters[i]
         IN  IF p.type = "PARAMETER" THEN FormatFrom(ctx, self, format, parameters, i + 1, offset)
             ELSE FormatFrom(ctx,
                             Conversed(ctx, Put(self, Between(format, offset, p.beginOffset)),
                                       parameters, i),
                             format, parameters, i + 1, p.endOffset)

TrioFormatProcess(ctx, self, format, parameters) ==
    FormatFrom(ctx, self, format, parameters, 1, 1)

(* With an error of the destination the status is negative.                *)
Finished(self) ==
    [self |-> self, error |-> self.error,
     status |-> IF self.error # "none" THEN -1 ELSE self.processed]

Formatted(ctx, self, format, r) ==
    IF r.error # "none" THEN [self |-> self, error |-> r.error, status |-> -1]
    ELSE Finished(TrioFormatProcess(ctx, self, format, r.parameters))

TrioFormat(ctx, self, format, args, array) ==
    Formatted(ctx, self, format, TrioParse("print", format, args, array, ctx.errno))

-----------------------------------------------------------------------------
(* The functions of the library; in each group one takes its arguments     *)
(* from an array.  Each prints to a destination of its own (n characters   *)
(* is what the file, the buffer or the memory takes), and makes a result   *)
(* of what it has become, r.                                               *)
NoLimit == 99

printf(n) == NewClass("file", n, 0)
trio_dprintf(n) == NewClass("descriptor", n, 0)
trio_cprintf(n) == NewClass("custom", n, 0)
sprintf == NewClass("string", NoLimit, 0)
snprintf(n) == NewClass("max", NoLimit, Max({n - 1, 0}))

(* The string that is in the buffer is shorter than n.                     *)
trio_snprintfcat(text, n) == NewClass("max", NoLimit, n - 1 - Len(text))
asprintf(n) == NewClass("dynamic", n, 0)

Terminated(r) == Append(r.self.out, NUL)
TerminatedIn(n, r) == IF n > 0 THEN Terminated(r) ELSE r.self.out
Appended(text, r) == text \o Terminated(r)

(* Without memory for anything at all there is no result; if it ends on    *)
(* the way, the result is what there was memory for.                       *)
Allocated(n, r) == IF n = 0 THEN NullString ELSE r.self.out
AllocatedOr(n, r) ==
    IF n = 0 THEN [result |-> NullString, status |-> -1, error |-> "ENOMEM"]
    ELSE [result |-> IF r.status >= 0 THEN r.self.out ELSE NullString,
          status |-> r.status, error |-> r.error]
-----------------------------------------------------------------------------
(***************************************************************************)
(* What the printing should write: conversions of the C standard, and      *)
(* trio's own.                                                             *)
(***************************************************************************)
Context == [locale |-> InitialLocale, users |-> <<>>, errno |-> 1]

(* A conversion of a number: its flags, a width and a precision (0 and -1  *)
(* for none), which are arguments if the width is negative, a size, and a  *)
(* value.  A size with "&" is an argument.                                 *)
NumberText(n) ==
    (IF n < 10 THEN <<>> ELSE <<internalDigitsLower[(n \div 10) + 1]>>)
      \o <<internalDigitsLower[(n % 10) + 1]>>

QualifiersOf(c) ==
    LET star == c.width < 0
    IN  SetToSeq(c.flags)
          \o (IF star THEN <<"*">> ELSE IF c.width = 0 THEN <<>> ELSE NumberText(c.width))
          \o (IF c.precision = NO_PRECISION THEN <<>>
              ELSE <<".">> \o (IF star THEN <<"*">> ELSE NumberText(c.precision)))
          \o c.size

FormatOf(c) == <<"%">> \o QualifiersOf(c) \o <<c.letter>>

ArgumentsOf(c) ==
    (IF c.width >= 0 THEN <<>>
     ELSE IF c.precision = NO_PRECISION THEN <<c.width>> ELSE <<c.width, c.precision>>)
      \o (IF c.size = <<"&">> THEN <<8>> ELSE <<>>) \o <<c.v>>

IsLong(c) == c.size \in {<<"l", "l">>, <<"q">>, <<"j">>, <<"I", "6", "4">>, <<"&">>}

BaseFor(letter) ==
    CASE letter \in {"d", "i", "u"} -> 10 [] letter = "o" -> 8 [] letter \in {"x", "X"} -> 16
      [] letter \in {"b", "B"} -> 2

Standard(c) ==
    LET range == IF IsLong(c) THEN LONGLONG ELSE WORD
        u == c.v % range
        signed == c.letter \in {"d", "i", "b", "B"}
        negative == signed /\ u >= range \div 2
        n == IF negative THEN range - u ELSE u
        base == BaseFor(c.letter)
        digits == IF n = 0 /\ c.precision = 0 THEN <<>>
                  ELSE DigitsOf(n, base, IF c.letter = "X" THEN internalDigitsUpper
                                         ELSE internalDigitsLower)
        least == Repeated("0", c.precision - Len(digits)) \o digits
        number == IF c.letter = "o" /\ "#" \in c.flags /\ At(least, 1) # "0" THEN <<"0">> \o least
                  ELSE least
        sign == IF negative THEN <<"-">> ELSE IF ~signed THEN <<>>
                ELSE IF "+" \in c.flags THEN <<"+">> ELSE IF " " \in c.flags THEN <<" ">> ELSE <<>>
        prefix == IF base \in {2, 16} /\ "#" \in c.flags /\ n # 0 THEN <<"0", c.letter>> ELSE <<>>
        body == sign \o prefix \o number
        room == (IF c.width < 0 THEN -c.width ELSE c.width) - Len(body)
    IN  IF "-" \in c.flags \/ c.width < 0 THEN body \o Repeated(" ", room)
        ELSE IF ("0" \in c.flags \/ base = 2) /\ c.precision = NO_PRECISION
        THEN sign \o prefix \o Repeated("0", room) \o number
        ELSE Repeated(" ", room) \o body

(* Printed through a buffer that is large enough.                          *)
TextFrom(ctx, format, args, array) ==
    Front(Terminated(TrioFormat(ctx, sprintf, format, args, array)))
Text(ctx, format, args) == TextFrom(ctx, format, args, FALSE)

(* What is left out: a space is written for unsigned numbers, too; on the  *)
(* left, an octal number with a precision gets one zero more, and a binary *)
(* number its padding in front; a negative number with "z" is taken for a  *)
(* large one.                                                              *)
Exact(c) ==
    LET left == "-" \in c.flags \/ c.width < 0
    IN  /\ " " \in c.flags => c.letter \notin {"u", "o", "x", "X"}
        /\ left /\ c.letter = "o" /\ "#" \in c.flags => c.precision <= 0
        /\ left => c.letter \notin {"b", "B"}
        /\ c.size = <<"z">> /\ c.v % WORD >= HALF => c.letter \in {"u", "o", "x", "X"}

NumberRight(c) ==
    Exact(c) => \A array \in BOOLEAN :
        TextFrom(Context, FormatOf(c), ArgumentsOf(c), array) = Standard(c)

(* The same number printed by a conversion of the user: its callback sets  *)
(* what the format does not say, or all of it.                             *)
Namespace == <<"n">>
UserFormat == <<"<">> \o Namespace \o <<":", "x", ">">>

Setting(name, v) == [do |-> "set", name |-> name, v |-> v]
Printing(c) ==
    [do |-> IF c.letter \in {"u", "o", "x", "X"} THEN "print_uint" ELSE "print_int",
     v |-> IF c.letter \in {"u", "o", "x", "X"} THEN c.v ELSE Signed(c.v)]
NamesOf == ("-" :> "alignment") @@ ("+" :> "sign") @@ (" " :> "spacing") @@ ("0" :> "padding")
             @@ ("#" :> "alternative")

Callback(c, all) ==
    <<Setting("base", BaseFor(c.letter)), Setting("upper", c.letter = "X")>>
      \o (IF ~all THEN <<>>
          ELSE <<Setting("width", c.width), Setting("precision", c.precision)>>
                 \o [i \in 1 .. Cardinality(c.flags) |->
                        Setting(NamesOf[SetToSeq(c.flags)[i]], TRUE)])
      \o <<Printing(c)>>

UsersCalls(c) ==
    LET with(all) == [Context EXCEPT !.users =
                         trio_register(<<>>, Callback(c, all), Namespace, TRUE)]
    IN  {<<with(FALSE), <<"%">> \o QualifiersOf(c) \o UserFormat, <<NullPointer>>>>} \cup
        IF {"-", "0"} \subseteq c.flags THEN {}
        ELSE {<<with(TRUE), <<"%">> \o UserFormat, <<NullPointer>>>>,
              <<Context, <<"$", "<", "x", ">">>, <<Callback(c, TRUE), NullPointer>>>>}

UserRight(c) ==
    c.width >= 0 /\ c.size = <<>> =>
        Cardinality({Text(call[1], call[2], call[3]) :
            call \in UsersCalls(c) \cup {<<Context, FormatOf(c), <<c.v>>>>}}) = 1

(* A sticky conversion is as good as repeating its qualifiers.             *)
StickyRight(c) ==
    LET f == FormatOf(c)
        sticky == <<"%", "!">> \o Tail(f) \o <<"/", "%", c.letter>>
    IN  c.width >= 0 /\ c.size = <<>> =>
          Cardinality({Text(Context, format, <<c.v, 7>>) :
              format \in {sticky, f \o <<"/">> \o f}}) = 1

(* Separators are where the groups end, counted from the last digit.       *)
SeparatedRight(grouping, text, plain) ==
    LET commas == {i \in DOMAIN text : text[i] = ","}
        after(i) == Cardinality({j \in i + 1 .. Len(text) : text[j] \notin {",", " "}})
        sizes == [k \in 1 .. 9 |-> IF k <= Len(grouping) THEN grouping[k]
                                   ELSE IF grouping = <<>> THEN CHAR_MAX ELSE Last(grouping)]
        sum[k \in 0 .. 9] == IF k = 0 THEN 0 ELSE sum[k - 1] + sizes[k]
    IN  /\ SelectSeq(text, LAMBDA c : c \notin {",", " "}) = plain
        /\ {after(i) : i \in commas} = {sum[k] : k \in 1 .. 9} \cap 1 .. Len(plain) - 1

GroupsRight(grouping, v) ==
    LET locale == trio_locale_set_thousand_separator(
                      trio_locale_set_grouping(InitialLocale, grouping), <<",", " ">>)
    IN  SeparatedRight(grouping, Text([Context EXCEPT !.locale = locale], <<"%", "'", "q", "u">>, <<v>>),
                       Text(Context, <<"%", "q", "u">>, <<v>>))

(* Texts: cut to the precision, escaped, placed in the width; the width of *)
(* escapes is not counted, and wide texts count only their precision.      *)
TextRight(string, flags, width, precision, letter) ==
    LET format == <<"%">> \o SetToSeq(flags) \o (IF width = 0 THEN <<>> ELSE NumberText(width))
                    \o (IF precision = NO_PRECISION THEN <<>> ELSE <<".">> \o NumberText(precision))
                    \o <<letter>>
        text == Text(Context, format, <<string>>)
        null == string = NullString
        whole == IF null THEN internalNullString ELSE string
        cut == IF precision = NO_PRECISION THEN whole
               ELSE SubSeq(whole, 1, Min({precision, Len(whole)}))
        shown == IF "#" \in flags THEN Escaped(cut, {"ALTERNATIVE"}) ELSE cut
        counted == IF letter = "s" THEN Len(cut) ELSE IF precision = NO_PRECISION THEN 0 ELSE precision
        spaces == IF null THEN <<>> ELSE Repeated(" ", width - counted)
        quote == IF "'" \in flags /\ ~null THEN <<"\"">> ELSE <<>>
    IN  text = quote \o (IF "-" \in flags THEN shown \o spaces ELSE spaces \o shown) \o quote

(* Three texts with positions or (0) without: they come out in the places  *)
(* of their conversions; a number that is missing, used twice or too large *)
(* is an error.                                                            *)
PlacedRight(given, args, r) ==
    LET place(i) == IF given[i] # 0 THEN given[i]
                    ELSE Cardinality({j \in 1 .. i : given[j] = 0})
        uses(n) == Cardinality({i \in 1 .. 3 : place(i) = n})
        wrong == {n \in 1 .. Max({place(i) : i \in 1 .. 3}) : uses(n) # 1}
    IN  IF \E i \in 1 .. 3 : place(i) > MAX_PARAMETERS THEN r.error = "ETOOMANY"
        ELSE IF wrong # {} THEN r.error = IF uses(Min(wrong)) = 0 THEN "EGAP" ELSE "EDBLREF"
        ELSE r.self.out = FlattenSeq([i \in 1 .. 3 |-> args[place(i)]])

PositionsRight(given) ==
    LET conversion(i) == <<"%">> \o (IF given[i] = 0 THEN <<>> ELSE NumberText(given[i]) \o <<"$">>)
                           \o <<"s">>
        args == <<<<"a">>, <<"b">>, <<"c">>>>
    IN  PlacedRight(given, args,
                    TrioFormat(Context, sprintf, FlattenSeq([i \in 1 .. 3 |-> conversion(i)]),
                               args, FALSE))

(* Every destination gets the same text, as far as it goes, and the status *)
(* is the length of the whole, or an error where there is one; only        *)
(* asprintf does not notice that memory ran out on the way.  "%n" counts   *)
(* what went out.                                                          *)
UpTo(text, k) == SubSeq(text, 1, Min({k, Len(text)}))

SentRight(all, r, k, error) ==
    /\ r.self.out = UpTo(all, k) /\ r.self.processed = Len(all)
    /\ r.self.committed = Len(UpTo(all, k))
    /\ r.self.counts = <<[at |-> 1, n |-> Len(UpTo(all, k))]>>
    /\ IF k < Len(all) THEN r.error = error ELSE r.error = "none" /\ r.status = Len(all)

ResultRight(all, old, class, k, r) ==
    CASE class = printf(k) -> SentRight(all, r, k, "EOF")
      [] class = trio_dprintf(k) -> SentRight(all, r, k, "ERRNO")
      [] class = trio_cprintf(k) -> SentRight(all, r, k, "ECUSTOM")
      [] class = asprintf(k) ->
           /\ k > 0 => AllocatedOr(k, r) = [result |-> UpTo(all, k), status |-> Len(all),
                                            error |-> "none"]
           /\ Allocated(k, r) = IF k = 0 THEN NullString ELSE UpTo(all, k)
      [] OTHER ->
           /\ r.status = Len(all) /\ r.error = "none"
           /\ class = snprintf(k) =>
                 TerminatedIn(k, r) = IF k = 0 THEN <<>> ELSE Append(UpTo(all, k - 1), NUL)
           /\ class = trio_snprintfcat(old, k + Len(old) + 1) =>
                 Appended(old, r) = old \o Append(UpTo(all, k), NUL)

AllSentRight(format, args, old, all) ==
    \A k \in 0 .. Len(all) + 1 :
        \A class \in {printf(k), trio_dprintf(k), trio_cprintf(k), asprintf(k), snprintf(k),
                      trio_snprintfcat(old, k + Len(old) + 1)} :
            ResultRight(all, old, class, k, TrioFormat(Context, class, format \o <<"%", "n">>,
                                                       Append(args, 1), FALSE))

DestinationsRight(format, args, old) ==
    AllSentRight(format, args, old, Text(Context, format, args))

(* After some calls, (name, TRUE) to register and (name, FALSE) to         *)
(* unregister what is there, a name stands for the callback of the first   *)
(* call that registered it since it was unregistered, if any.              *)
NamespacesRight(calls) ==
    LET callback(i) == <<Setting("base", i)>>
        users == FoldLeft(LAMBDA u, i : IF calls[i][2] THEN trio_register(u, callback(i), calls[i][1], TRUE)
                                        ELSE trio_unregister(u, calls[i][1]),
                          <<>>, [i \in DOMAIN calls |-> i])
        since(name) == Max({0} \cup {i \in DOMAIN calls : calls[i] = <<name, FALSE>>})
        registered(name) == {i \in DOMAIN calls : i > since(name) /\ calls[i][1] = name}
    IN  \A i \in DOMAIN calls :
            LET name == calls[i][1]
            IN  TrioFindNamespace(users, name) =
                    IF registered(name) = {} \/ name[1] = ":" THEN NoCallback
                    ELSE callback(Min(registered(name)))
=============================================================================

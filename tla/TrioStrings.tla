---------------------------- MODULE TrioStrings ----------------------------
(***************************************************************************)
(* The static strings of the trio library (libc/src/trio/triostr.c), over  *)
(* the memory of Texts: most are the functions of the C library under      *)
(* another name, some have loops of their own.  A block that is created    *)
(* comes after the memory there is; its cells hold anything.               *)
(***************************************************************************)
EXTENDS Texts

UpperOf(c) == CASE c = "a" -> "A" [] c = "b" -> "B" [] OTHER -> c
internal_to_upper == [c \in {"*", "?"} \cup Range(Order) |-> UpperOf(c)]
trio_to_lower == [c \in {"*", "?"} \cup Range(Order) |-> LowerOf(c)]
Exact == [c \in {"*", "?"} \cup Range(Order) |-> c]

NoString == 0

-----------------------------------------------------------------------------
(* Copying *)

trio_copy_max(m, target, max, source) ==
    [strncpy(m, target, source, max - 1) EXCEPT ![target + max - 1] = NUL]

trio_append_max(m, target, max, source) ==
    IF max > strlen(m, target)
    THEN strncat(m, target, source, max - strlen(m, target) - 1)
    ELSE m

(* There may be no block to be had.                                        *)
trio_create(m, size, got) ==
    IF got THEN [m |-> m \o [i \in 1 .. size |-> "any"], string |-> Len(m) + 1]
    ELSE [m |-> m, string |-> NoString]

internal_duplicate_max(m, source, size, got) ==
    LET target == trio_create(m, size + 1, got)
    IN  IF target.string = NoString THEN target
        ELSE [target EXCEPT !.m = trio_copy_max(@, target.string, size + 1, source)]

trio_duplicate(m, source, got) == internal_duplicate_max(m, source, strlen(m, source), got)

trio_duplicate_max(m, source, max, got) ==
    internal_duplicate_max(m, source, Min({strlen(m, source), max}), got)

(* Every character up to the zero becomes what the function makes of it.   *)
trio_span_function(m, target, source, Function) ==
    LET count == strlen(m, source)
    IN  FoldLeft(LAMBDA mem, i : [mem EXCEPT ![target + i] = Function[mem[source + i]]],
                 m, Upwards(count))

trio_lower(m, target) == trio_span_function(m, target, target, trio_to_lower)
trio_upper(m, target) == trio_span_function(m, target, target, internal_to_upper)

-----------------------------------------------------------------------------
(* Comparing and finding *)

trio_contains(m, string, substring) == strstr(m, string, substring) # 0

(* The first place where the loops stop: an end, or a difference.          *)
Apart(m, first, second, fold) ==
    Min({i \in 0 .. Len(m) : \/ NUL \in {At(m, first + i), At(m, second + i)}
                             \/ fold[At(m, first + i)] # fold[At(m, second + i)]})

trio_equal(m, first, second) ==
    LET i == Apart(m, first, second, internal_to_upper)
    IN  At(m, first + i) = NUL /\ At(m, second + i) = NUL

(* The loop goes on while cnt <= max, one comparison too many.             *)
trio_equal_max(m, first, max, second) ==
    LET cnt == Min({Apart(m, first, second, internal_to_upper), max + 1})
    IN  cnt = max \/ (At(m, first + cnt) = NUL /\ At(m, second + cnt) = NUL)

trio_equal_case(m, first, second) == strcmp(m, first, second) = 0
trio_equal_case_max(m, first, max, second) == strncmp(m, first, second, max) = 0

trio_index(m, string, character) == strchr(m, string, character)
trio_index_last(m, string, character) == strchr(m, string, character)

trio_substring_max(m, string, max, substring) ==
    LET size == strlen(m, substring)
        found == {count \in 0 .. max - size :
                    trio_equal_max(m, substring, size, string + count)}
    IN  IF found = {} THEN NoString ELSE string + Min(found)

(* trio_match and trio_match_case: up to the first "*" character by        *)
(* character, then the rest of the pattern at every place that is left.    *)
RECURSIVE Matches(_, _, _, _)
Matches(m, string, pattern, fold) ==
    LET stop == Min({i \in 0 .. Len(m) :
                       \/ At(m, pattern + i) = "*"
                       \/ At(m, string + i) = NUL
                       \/ /\ fold[At(m, string + i)] # fold[At(m, pattern + i)]
                          /\ At(m, pattern + i) # "?"})
        rest == Min({i \in stop + 1 .. Len(m) + 1 : At(m, pattern + i) # "*"})
    IN  IF At(m, pattern + stop) # "*"
        THEN At(m, string + stop) = NUL /\ At(m, pattern + stop) = NUL
        ELSE \E k \in 0 .. strlen(m, string + stop) :
                Matches(m, string + stop + k, pattern + rest, fold)

trio_match(m, string, pattern) == Matches(m, string, pattern, internal_to_upper)
trio_match_case(m, string, pattern) == Matches(m, string, pattern, Exact)

-----------------------------------------------------------------------------
(* trio_to_long_double, with exact numbers: the digits before and after    *)
(* the point as one number in the base they are in, how many are after it, *)
(* and the exponent of `radix'.  A number in base 16 has no sign, and an   *)
(* exponent only after a point.                                            *)
Decimals == <<"0", "1", "2", "3", "4", "5", "6", "7", "8", "9">>
Sixteen == Decimals \o <<"a", "b", "c", "d", "e", "f">>

(* The places of the digits from `from' on, and what they amount to.       *)
Run(s, from, digits) ==
    Min({i \in from .. Len(s) + 1 : At(s, i) \notin Range(digits)})
Amount(s, from, to, digits, base) ==
    FoldLeft(LAMBDA sum, i : sum * base + IndexFirstSubSeq(<<s[from + i]>>, digits) - 1,
             0, Upwards(to - from))

trio_to_long_double(source) ==
    LET hex == At(source, 1) = "0" /\ At(source, 2) \in {"x", "X"}
        digits == IF hex THEN Sixteen ELSE Decimals
        base == IF hex THEN 16 ELSE 10
        first == IF hex THEN 3 ELSE IF At(source, 1) \in {"+", "-"} THEN 2 ELSE 1
        point == Run(source, first, digits)
        pointed == At(source, point) = "."
        last == IF pointed THEN Run(source, point + 1, digits) ELSE point
        marked == IF hex THEN pointed /\ At(source, last) \in {"p", "P"}
                  ELSE At(source, last) \in {"e", "E"}
        signed == marked /\ At(source, last + 1) \in {"+", "-"}
        from == last + 1 + (IF signed THEN 1 ELSE 0)
        end == IF marked THEN Run(source, from, Decimals) ELSE last
        exponent == IF marked THEN Amount(source, from, end, Decimals, 10) ELSE 0
        places == IF pointed THEN last - point - 1 ELSE 0
    IN  [negative |-> ~hex /\ At(source, 1) = "-",
         number |-> Amount(source, first, point, digits, base) * base ^ places
                      + (IF pointed THEN Amount(source, point + 1, last, digits, base) ELSE 0),
         places |-> places, base |-> base, radix |-> IF hex THEN 2 ELSE 10,
         exponent |-> IF signed /\ source[last + 1] = "-" THEN -exponent ELSE exponent,
         end |-> end]

-----------------------------------------------------------------------------
(* A text fits a pattern if its characters can be dealt out to those of    *)
(* the pattern: one to each, any number to a "*".                          *)
DealtOut(t, p, fold) ==
    \E cut \in [0 .. Len(p) -> 0 .. Len(t)] :
        /\ cut[0] = 0 /\ cut[Len(p)] = Len(t)
        /\ \A i \in DOMAIN p :
              \/ p[i] = "*" /\ cut[i] >= cut[i - 1]
              \/ /\ cut[i] = cut[i - 1] + 1
                 /\ p[i] = "?" \/ fold[p[i]] = fold[t[cut[i]]]

MatchesRight(t, p) ==
    LET m == t \o <<NUL>> \o p \o <<NUL>>
        pattern == Len(t) + 2
    IN  /\ trio_match(m, 1, pattern) = DealtOut(t, p, internal_to_upper)
        /\ trio_match_case(m, 1, pattern) = DealtOut(t, p, Exact)

Folded(t) == [i \in DOMAIN t |-> UpperOf(t[i])]
CutTo(t, n) == SubSeq(t, 1, Min({n, Len(t)}))

(* What is copied into a room of n characters is cut to it and ends in it; *)
(* nothing outside has changed; a duplicate is a block that can be had.    *)
StoresRight(m, d, s, n) ==
    LET from == StringAt(m, s)
        to == StringAt(m, d)
        apart == s + Len(from) < d \/ d + n - 1 < s
        room == n > 0 /\ d + n - 1 <= Len(m)
        copied == trio_copy_max(m, d, n, s)
        joined == trio_append_max(m, d, n, s)
        twin == trio_duplicate_max(m, s, n, TRUE)
        others(mem) == \A i \in DOMAIN m \ (d .. d + n - 1) : mem[i] = m[i]
    IN  /\ apart /\ room => StringAt(copied, d) = CutTo(from, n - 1) /\ others(copied)
        /\ apart /\ room =>
              /\ StringAt(joined, d) = IF Len(to) < n THEN CutTo(to \o from, n - 1) ELSE to
              /\ others(joined)
        /\ StringAt(twin.m, twin.string) = CutTo(from, n)
        /\ SubSeq(twin.m, 1, Len(m)) = m
        /\ trio_duplicate(m, s, FALSE) = [m |-> m, string |-> NoString]

(* Comparisons without case are those of the texts in capitals; that of n  *)
(* characters answers no for texts that go on being the same after them;   *)
(* the last place of a character is given as the first.                    *)
ComparesRight(m, d, s, n) ==
    LET a == StringAt(m, d)
        b == StringAt(m, s)
        A == Folded(a)
        B == Folded(b)
        further == /\ Len(a) > n /\ Len(b) > n
                   /\ CutTo(A, n + 1) = CutTo(B, n + 1)
                   /\ A = B => Len(a) > n + 1
        found == {i \in 0 .. Min({n, Len(a)}) - Len(b) : SubSeq(A, i + 1, i + Len(b)) = B}
    IN  /\ trio_equal(m, d, s) <=> A = B
        /\ trio_equal_case(m, d, s) <=> a = b
        /\ trio_equal_max(m, d, n, s) <=> CutTo(A, n) = CutTo(B, n) /\ ~further
        /\ n > 0 => (trio_equal_case_max(m, d, n, s) <=> CutTo(a, n) = CutTo(b, n))
        /\ StringAt(trio_upper(m, d), d) = A
        /\ trio_contains(m, d, s) = (strstr(m, d, s) # 0)
        /\ found # {} => trio_substring_max(m, d, n, s) = d + Min(found)
        /\ \A c \in {"a", "/"} : trio_index_last(m, d, c) = trio_index(m, d, c)

(* A number written as a sign, digits, a point and an exponent is read as  *)
(* that number, to its end.                                                *)
FloatsRight(f) ==
    LET mark == IF f.hex THEN "p" ELSE "e"
        s == (IF f.hex THEN <<"0", "x">> ELSE f.sign) \o f.whole
               \o (IF f.pointed THEN <<".">> \o f.part ELSE <<>>)
               \o (IF f.power = <<>> THEN <<>> ELSE <<mark>> \o f.turn \o f.power)
        r == trio_to_long_double(s \o f.after)
        digits == IF f.hex THEN Sixteen ELSE Decimals
        base == IF f.hex THEN 16 ELSE 10
        part == IF f.pointed THEN f.part ELSE <<>>
        value(t, among, b) == Amount(t, 1, Len(t) + 1, among, b)
    IN  (f.hex /\ f.power # <<>> => f.pointed) =>
        /\ r.end = Len(s) + 1
        /\ r.negative <=> ~f.hex /\ f.sign = <<"-">>
        /\ r.number = value(f.whole \o part, digits, base) /\ r.places = Len(part)
        /\ r.exponent = value(f.power, Decimals, 10) * (IF f.turn = <<"-">> THEN -1 ELSE 1)

-----------------------------------------------------------------------------
(***************************************************************************)
(* The dynamic strings of the trio library (libc/src/trio/triostr.c): a    *)
(* block of characters, the length of the text in it and the size it is    *)
(* believed to have.  `content' has the characters of the real block.      *)
(***************************************************************************)

CONSTANTS
    Additions,    \* texts to append
    InitialSizes,
    MaxText       \* bound: characters in a string

VARIABLES
    string,   \* the string
    meant     \* what the program has made of it (Means, below)

stringVars == <<string, meant>>

NoContent == <<>>

internal_string_alloc == [content |-> NoContent, length |-> 0, allocated |-> 0, overrun |-> FALSE]

Resized(block, size) == [i \in 1 .. size |-> IF i \in DOMAIN block THEN block[i] ELSE "any"]

(* What realloc answers is input; without memory nothing has changed.      *)
internal_string_grow(self, delta, got) ==
    LET new_size == IF delta # 0 THEN self.allocated + delta
                    ELSE IF self.allocated = 0 THEN 1 ELSE 2 * self.allocated
    IN  IF got THEN [self EXCEPT !.content = Resized(@, new_size), !.allocated = new_size]
        ELSE self

internal_string_grow_to(self, length, got) ==
    IF self.allocated < length + 1
    THEN internal_string_grow(self, length + 1 - self.allocated, got)
    ELSE self

(* Characters stored at an index that begins with 0; beyond the block they *)
(* are what `overrun' is about.                                            *)
PutAt(self, at, text) ==
    [self EXCEPT !.content = [i \in DOMAIN @ |-> IF i \in at + 1 .. at + Len(text)
                                                 THEN text[i - at] ELSE @[i]],
                 !.overrun = @ \/ at + Len(text) > Len(self.content)]

(* The characters before the first zero of the block.                      *)
TextIn(self) == SubSeq(self.content, 1, strlen(self.content, 1))

trio_string_create(initial_size) ==
    [PutAt(internal_string_grow(internal_string_alloc, IF initial_size > 0 THEN initial_size ELSE 1,
                                TRUE), 0, <<NUL>>)
        EXCEPT !.allocated = initial_size]

trio_xstring_append(self, other, got) ==
    LET length == self.length + Len(other)
        grown == internal_string_grow_to(self, length, got)
    IN  IF self.allocated < length + 1 /\ ~got THEN self
        ELSE [PutAt(grown, self.length, other \o <<NUL>>) EXCEPT !.length = length]

(* As long as the other's length says, but copied up to its first zero.    *)
trio_string_append(self, other, got) ==
    LET length == self.length + other.length
        grown == internal_string_grow_to(self, length, got)
    IN  IF self.allocated < length + 1 /\ ~got THEN self
        ELSE [PutAt(grown, self.length, TextIn(other) \o <<NUL>>) EXCEPT !.length = length]

trio_xstring_append_char(self, character, got) ==
    LET grown == internal_string_grow(self, 0, got)
        full == self.length >= self.allocated
    IN  IF full /\ ~got THEN self
        ELSE [PutAt(IF full THEN grown ELSE self, self.length, <<character>>)
                EXCEPT !.length = @ + 1]

trio_string_terminate(self, got) == trio_xstring_append_char(self, NUL, got)

trio_xstring_copy(self, other, got) == trio_xstring_append([self EXCEPT !.length = 0], other, got)
trio_string_copy(self, other, got) == trio_string_append([self EXCEPT !.length = 0], other, got)

(* The length and the size stay those of the text there was.               *)
trio_xstring_set(self, buffer) == [self EXCEPT !.content = buffer \o <<NUL>>]

trio_string_extract(self) == internal_string_alloc

trio_string_duplicate(other, got) ==
    LET text == CutTo(TextIn(other), other.length)
    IN  IF ~got THEN internal_string_alloc
        ELSE [content |-> [i \in 1 .. other.length + 1 |-> At(text, i)],
              length |-> other.length, allocated |-> other.length + 1, overrun |-> FALSE]

trio_xstring_duplicate(other, got) ==
    IF ~got THEN internal_string_alloc
    ELSE [content |-> other \o <<NUL>>, length |-> Len(other), allocated |-> Len(other) + 1,
          overrun |-> FALSE]

trio_string_length(self) ==
    [self EXCEPT !.length = IF @ = 0 THEN Len(TextIn(self)) ELSE @]

-----------------------------------------------------------------------------
(* What a string is when its operations have done what they are for: its   *)
(* text, whether a zero comes after it, and how many zeros are counted in  *)
(* its length.  `Spoiled' is one on which was done what does not go        *)
(* together.                                                               *)
Means(text, zero, ends) == [text |-> text, zero |-> zero, ends |-> ends]
Spoiled == [text |-> "spoiled", zero |-> FALSE, ends |-> 0]
Nothing == Means(<<>>, FALSE, 0)

(* Other strings are made of a text, and may have been terminated.         *)
Other(text, ends) ==
    LET other == trio_xstring_duplicate(text, TRUE)
    IN  IF ends = 0 THEN other ELSE trio_string_terminate(other, TRUE)

StringInit ==
    /\ \E n \in InitialSizes : string = trio_string_create(n)
    /\ meant = Means(<<>>, TRUE, 0)

Becomes(self, meaning) ==
    /\ self.length <= MaxText
    /\ string' = self
    /\ meant' = IF meant = Spoiled THEN Spoiled ELSE meaning

(* More text goes after a text, not after the zeros of a terminated one.   *)
Joined(text, zero, ends) ==
    IF meant = Spoiled \/ (meant.ends > 0 /\ text # <<>>) THEN Spoiled
    ELSE Means(meant.text \o text, zero, meant.ends + ends)

(* Whether there is room for so many characters, or memory to be had.      *)
Room(size, got) == got \/ string.allocated >= size

AppendText(text, got) ==
    Becomes(trio_xstring_append(string, text, got),
            IF Room(string.length + Len(text) + 1, got) THEN Joined(text, TRUE, 0) ELSE meant)

AppendOther(text, ends, got) ==
    Becomes(trio_string_append(string, Other(text, ends), got),
            IF Room(string.length + Len(text) + ends + 1, got)
            THEN Joined(text, TRUE, ends) ELSE meant)

AppendChar(got) ==
    Becomes(trio_xstring_append_char(string, "a", got),
            IF Room(string.length + 1, got) THEN Joined(<<"a">>, FALSE, 0) ELSE meant)

Terminate(got) ==
    Becomes(trio_string_terminate(string, got),
            IF Room(string.length + 1, got) THEN Joined(<<>>, TRUE, 1) ELSE meant)

(* A copy that fails leaves no text, but no zero at the beginning either.  *)
CopyText(text, got) ==
    Becomes(trio_xstring_copy(string, text, got),
            IF Room(Len(text) + 1, got) THEN Means(text, TRUE, 0) ELSE Nothing)

CopyOther(text, ends, got) ==
    Becomes(trio_string_copy(string, Other(text, ends), got),
            IF Room(Len(text) + ends + 1, got) THEN Means(text, TRUE, ends) ELSE Nothing)

SetText(buffer) == Becomes(trio_xstring_set(string, buffer), Spoiled)

Measure == meant # Spoiled /\ meant.zero /\ Becomes(trio_string_length(string), meant)

(* What comes anew has nothing of what was there.                          *)
Extract ==
    /\ string' = trio_string_extract(string)
    /\ meant' = Nothing

DuplicateText(text, got) ==
    /\ string' = trio_xstring_duplicate(text, got)
    /\ meant' = IF got THEN Means(text, TRUE, 0) ELSE Nothing

(* The program goes on with the duplicate of its string.                   *)
Duplicate(got) ==
    /\ meant # Spoiled /\ string.content # NoContent
    /\ string' = trio_string_duplicate(string, got)
    /\ meant' = IF got THEN [meant EXCEPT !.zero = TRUE] ELSE Nothing

StringNext ==
    \E got \in BOOLEAN :
        \/ \E text \in Additions :
              \/ AppendText(text, got) \/ CopyText(text, got)
              \/ SetText(text) \/ DuplicateText(text, got)
              \/ \E ends \in {0, 1} : AppendOther(text, ends, got) \/ CopyOther(text, ends, got)
        \/ AppendChar(got)
        \/ Terminate(got)
        \/ Duplicate(got)
        \/ Extract
        \/ Measure

(* A string holds the text that was put into it, whatever the order of its *)
(* operations and wherever memory ran out, and stores nothing beyond its   *)
(* block, unless its block was set from outside or text came after a zero. *)
StringHolds ==
    meant # Spoiled =>
        /\ ~string.overrun /\ string.allocated <= Len(string.content)
        /\ string.length = Len(meant.text) + meant.ends
        /\ SubSeq(string.content, 1, Len(meant.text)) = meant.text
        /\ meant.zero => string.content[Len(meant.text) + 1] = NUL
=============================================================================

-------------------------------- MODULE Texts -------------------------------
(***************************************************************************)
(* The string functions of the C library (src/sdk/src/libc/src/string).    *)
(* Memory is a sequence of characters and a pointer an index of it; "NUL"  *)
(* is the zero that ends a string.  What a function stores it stores one   *)
(* character after the other, for its operands may overlap.                *)
(***************************************************************************)
EXTENDS Integers, SequencesExt, FiniteSetsExt

NUL == "NUL"

(* A text that is not in memory: what follows its last character is NUL.   *)
At(s, i) == IF i \in DOMAIN s THEN s[i] ELSE NUL

strnlen(m, s, count) == Min({count} \cup {n \in 0 .. count : At(m, s + n) = NUL})
strlen(m, s) == strnlen(m, s, Len(m) + 1 - s)

StringAt(m, s) == SubSeq(m, s, s + strlen(m, s) - 1)

-----------------------------------------------------------------------------
(* Copying *)

CellByCell(m, d, s, places) ==
    FoldLeft(LAMBDA mem, i : [mem EXCEPT ![d + i] = mem[s + i]], m, places)

Upwards(n) == [i \in 1 .. n |-> i - 1]

memcpy(m, d, s, n) == CellByCell(m, d, s, Upwards(n))

memmove_Upwards(m, d, s, n) == CellByCell(m, d, s, Upwards(n))
memmove(m, d, s, n) == CellByCell(m, d, s, IF d < s THEN Upwards(n) ELSE Reverse(Upwards(n)))

memset(m, s, c, n) == [i \in DOMAIN m |-> IF i \in s .. s + n - 1 THEN c ELSE m[i]]

strcpy(m, d, s) == memcpy(m, d, s, strlen(m, s) + 1)

(* Up to c characters; what the string leaves of them is filled with zeros.*)
strncpy(m, d, s, c) ==
    LET n == Min({strlen(m, s) + 1, c})
    IN  memset(memcpy(m, d, s, n), d + n, NUL, c - n)

(* The string ends after c characters if not before.                       *)
strncat(m, d, s, c) ==
    LET end == d + strlen(m, d)
        n == strlen(m, s)
    IN  IF c = 0 THEN m
        ELSE IF n < c THEN memcpy(m, end, s, n + 1)
        ELSE memset(memcpy(m, end, s, c), end + c, NUL, 1)

strcat(m, d, s) == memcpy(m, d + strlen(m, d), s, strlen(m, s) + 1)

-----------------------------------------------------------------------------
(* Comparing and finding: results are 0 or the index of a character.       *)

Order == <<NUL, "-", "/", "A", "B", "a", "b">>
Code(c) == IndexFirstSubSeq(<<c>>, Order)
LowerOf(c) == CASE c = "A" -> "a" [] c = "B" -> "b" [] OTHER -> c

(* The difference at the first place where two texts differ, or after the  *)
(* end, of n characters at most.                                           *)
Compared(m, s1, s2, n, fold(_)) ==
    LET differ(i) == fold(At(m, s1 + i)) # fold(At(m, s2 + i))
        stop == {i \in 0 .. n - 1 : differ(i) \/ At(m, s1 + i) = NUL}
        i == Min(stop)
    IN  IF stop = {} THEN 0 ELSE Code(fold(At(m, s1 + i))) - Code(fold(At(m, s2 + i)))

Same(c) == c
strcmp(m, s1, s2) == Compared(m, s1, s2, Len(m) + 1, Same)
strncmp(m, s1, s2, c) == Compared(m, s1, s2, c, Same)
strcasecmp(m, s1, s2) == Compared(m, s1, s2, Len(m) + 1, LowerOf)
strncasecmp(m, s1, s2, c) == Compared(m, s1, s2, c, LowerOf)

memcmp(m, s1, s2, c) ==
    LET differ == {i \in 0 .. c - 1 : m[s1 + i] # m[s2 + i]}
    IN  IF differ = {} THEN 0 ELSE Code(m[s1 + Min(differ)]) - Code(m[s2 + Min(differ)])

FirstOf(places) == IF places = {} THEN 0 ELSE Min(places)

memchr(m, s, c, n) == FirstOf({i \in s .. s + n - 1 : m[i] = c})
strchr(m, s, c) == FirstOf({i \in s .. s + strlen(m, s) : m[i] = c})
strrchr(m, s, c) ==
    LET places == {i \in s .. s + strlen(m, s) : m[i] = c}
    IN  IF places = {} THEN 0 ELSE Max(places)

strpbrk(m, s, accept) == FirstOf({i \in s .. s + strlen(m, s) - 1 : m[i] \in Range(accept)})

strspn(m, s, accept) ==
    Min({n \in 0 .. strlen(m, s) : At(m, s + n) \notin Range(accept)})
strcspn(m, s, reject) ==
    Min({n \in 0 .. strlen(m, s) : At(m, s + n) \in Range(reject) \cup {NUL}})

(* The places from s1 on at which there is room for the other text.        *)
strstr(m, s1, s2) ==
    LET l1 == strlen(m, s1)
        l2 == strlen(m, s2)
    IN  IF l2 = 0 THEN s1
        ELSE FirstOf({i \in s1 .. s1 + l1 - l2 : memcmp(m, i, s2, l2) = 0})

(* strtok_r: s is 0 to go on at ptr.  The text is cut where the token ends.*)
strtok_r(m, s, delim, ptr) ==
    LET from == IF s = 0 THEN ptr ELSE s
        tok == from + strspn(m, from, delim)
        end == tok + strcspn(m, tok, delim)
    IN  IF At(m, tok) = NUL THEN [m |-> m, tok |-> 0, ptr |-> tok]
        ELSE IF At(m, end) = NUL THEN [m |-> m, tok |-> tok, ptr |-> end]
        ELSE [m |-> [m EXCEPT ![end] = NUL], tok |-> tok, ptr |-> end + 1]

-----------------------------------------------------------------------------
(* All the tokens of a text, as a program takes them out of it.            *)
RECURSIVE Tokens(_, _, _, _)
Tokens(m, s, delim, ptr) ==
    LET r == strtok_r(m, s, delim, ptr)
    IN  IF r.tok = 0 THEN <<>>
        ELSE <<StringAt(r.m, r.tok)>> \o Tokens(r.m, 0, delim, r.ptr)

(* The longest runs of characters that are not delimiters, in their order. *)
Runs(t, delim) ==
    LET in(i) == i \in DOMAIN t /\ t[i] \notin Range(delim)
        runs == {<<i, j>> \in (DOMAIN t) \X (DOMAIN t) :
                    i <= j /\ ~in(i - 1) /\ ~in(j + 1) /\ \A k \in i .. j : in(k)}
    IN  [k \in 1 .. Cardinality(runs) |->
            LET r == CHOOSE x \in runs : Cardinality({y \in runs : y[1] < x[1]}) = k - 1
            IN  SubSeq(t, r[1], r[2])]

(* Only the n characters at d have changed, to those of t.                 *)
OnlyStored(m, mem, d, t) ==
    mem = [i \in DOMAIN m |-> IF i \in d .. d + Len(t) - 1 THEN t[i - d + 1] ELSE m[i]]

(* On a memory m with strings at d and s: what is moved arrives as it was, *)
(* however the two overlap; what is copied ends, and what is next to it    *)
(* stays; strstr, strtok_r and the comparisons agree with the texts.       *)
CopiesRight(m, d, s, n) ==
    LET from == StringAt(m, s)
        to == StringAt(m, d)
        cut == SubSeq(from, 1, Min({n, Len(from)}))
        apart == s + Len(from) < d \/ d + n < s
        fits(k) == d + k <= Len(m)
    IN  /\ fits(n - 1) /\ s + n - 1 <= Len(m) =>
             OnlyStored(m, memmove(m, d, s, n), d, SubSeq(m, s, s + n - 1))
        /\ apart /\ fits(n - 1) =>
             OnlyStored(m, strncpy(m, d, s, n), d,
                        cut \o [i \in 1 .. n - Len(cut) |-> NUL])
        /\ (s + Len(from) < d \/ d + Len(to) + n < s) /\ fits(Len(to) + n) /\ n > 0 =>
             OnlyStored(m, strncat(m, d, s, n), d, to \o cut \o <<NUL>>)

FindsRight(m, d, s, delim) ==
    LET a == StringAt(m, d)
        b == StringAt(m, s)
        found == {i \in 0 .. Len(a) - Len(b) : SubSeq(a, i + 1, i + Len(b)) = b}
    IN  /\ Tokens(m, d, delim, 0) = Runs(a, delim)
        /\ strstr(m, d, s) = IF found = {} THEN 0 ELSE d + Min(found)
        /\ (strcmp(m, d, s) = 0 <=> a = b)
        /\ (strcmp(m, d, s) < 0 <=> strcmp(m, s, d) > 0)
        /\ (strncmp(m, d, s, Len(a)) = 0 <=> IsPrefix(a, b))
=============================================================================

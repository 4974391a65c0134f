------------------------------- MODULE Sorting ------------------------------
(***************************************************************************)
(* qsort and bsearch (src/sdk/src/libc/src/stdlib): quicksort that gathers *)
(* the elements equal to the pivot at both ends and moves them between the *)
(* smaller and the larger ones, and the search in what it sorted.  Arrays  *)
(* are functions from 0 on to elements; compar(x, y) is negative, zero or  *)
(* positive as x.key is less than, equal to or greater than y.key.         *)
(***************************************************************************)
EXTENDS Integers, FiniteSetsExt

compar(x, y) == x.key - y.key

exch(a, i, j) == [a EXCEPT ![i] = a[j], ![j] = a[i]]

(* Elements equal to the pivot are gathered at l .. p and q .. r.          *)
EqualLeft(s, v) ==
    IF compar(s.a[s.i], v) # 0 THEN s
    ELSE [s EXCEPT !.p = @ + 1, !.a = exch(@, s.p + 1, s.i)]
EqualRight(s, v) ==
    IF compar(v, s.a[s.j]) # 0 THEN s
    ELSE [s EXCEPT !.q = @ - 1, !.a = exch(@, s.j, s.q - 1)]

(* One round of the loop: i and j come nearer, until they meet.            *)
Round(s, l, r) ==
    LET v == s.a[r]
        i == Min({k \in s.i + 1 .. r : k = r \/ compar(s.a[k], v) >= 0})
        j == Max({k \in l .. s.j - 1 : k = l \/ compar(v, s.a[k]) >= 0})
        swapped == [s EXCEPT !.a = exch(@, i, j), !.i = i, !.j = j]
    IN  IF s.i >= s.j THEN s
        ELSE IF i >= j THEN [s EXCEPT !.i = i, !.j = j]
        ELSE EqualRight(EqualLeft(swapped, v), v)

(* The loop stops when i and j have met, after r - l + 1 rounds at most.   *)
Partition(a, l, r) ==
    LET round[k \in 0 .. r - l + 1] ==
            IF k = 0 THEN [a |-> a, i |-> l - 1, j |-> r, p |-> l - 1, q |-> r]
            ELSE Round(round[k - 1], l, r)
    IN  round[r - l + 1]

(* exch of from + k and to - k, for the first n k: a loop that moves the   *)
(* equal elements inwards.                                                 *)
Swapped(a, from, to, n) ==
    LET swap[k \in 0 .. Max({0, n})] ==
            IF k = 0 THEN a ELSE exch(swap[k - 1], from + (k - 1), to - (k - 1))
    IN  swap[Max({0, n})]

(* The pivot comes to i, the equal elements to both sides of it.           *)
MovedIn(s, l, r) ==
    Swapped(Swapped(exch(s.a, s.i, r), l, s.i - 1, s.p - l), s.i + 1, r - 1, r - 1 - s.q)

(* What is left to sort: the smaller elements, which end here, and the     *)
(* larger ones, which begin here.                                          *)
SmallerEnd(s, l) == s.i - 1 - Max({0, s.p - l})
LargerStart(s, r) == s.i + 1 + Max({0, r - 1 - s.q})

(* sort[k] is what a call does that has at most k calls within calls.      *)
quicksort(a, left, right) ==
    LET Orders == [DOMAIN a -> {a[i] : i \in DOMAIN a}]
        Tasks == [a : Orders, l : left .. right + 1, r : left - 1 .. right]
        sort[k \in 0 .. right - left] ==
            [c \in Tasks |->
               LET s == Partition(c.a, c.l, c.r)
                   below == sort[k - 1][[a |-> MovedIn(s, c.l, c.r),
                                         l |-> c.l, r |-> SmallerEnd(s, c.l)]]
               IN  IF k = 0 \/ c.r <= c.l THEN c.a
                   ELSE sort[k - 1][[a |-> below, l |-> LargerStart(s, c.r), r |-> c.r]]]
    IN  sort[right - left][[a |-> a, l |-> left, r |-> right]]

qsort_OneShort(a) ==
    LET nmemb == Cardinality(DOMAIN a) IN IF nmemb > 1 THEN quicksort(a, 0, nmemb - 2) ELSE a

qsort(a) ==
    LET nmemb == Cardinality(DOMAIN a) IN IF nmemb > 1 THEN quicksort(a, 0, nmemb - 1) ELSE a

(* bsearch among the nmemb elements from base on: an index, or -1.         *)
Narrow(key, a, s) ==
    LET m == s.nmemb \div 2
        tmp == compar(key, a[s.base + m])
    IN  IF s.nmemb = 0 \/ tmp = 0 THEN s
        ELSE IF tmp < 0 THEN [s EXCEPT !.nmemb = m]
        ELSE [base |-> s.base + (m + 1), nmemb |-> s.nmemb - (m + 1)]

bsearch(key, a, base, nmemb) ==
    LET narrow[k \in 0 .. nmemb] ==
            IF k = 0 THEN [base |-> base, nmemb |-> nmemb] ELSE Narrow(key, a, narrow[k - 1])
        last == narrow[nmemb]
    IN  IF last.nmemb = 0 THEN -1 ELSE last.base + last.nmemb \div 2

-----------------------------------------------------------------------------
(* What qsort leaves has the same elements, each once, in order, however   *)
(* many are equal; and bsearch then finds each key that is there, and no   *)
(* other.                                                                  *)
InOrder(a, s) ==
    /\ {s[i] : i \in DOMAIN a} = {a[i] : i \in DOMAIN a}
    /\ \A i, j \in DOMAIN a : j = i + 1 => compar(s[i], s[j]) <= 0

Searched(s, key) ==
    LET at == bsearch([key |-> key], s, 0, Cardinality(DOMAIN s))
    IN  IF \E i \in DOMAIN s : s[i].key = key THEN at \in DOMAIN s /\ s[at].key = key
        ELSE at = -1

SortedAs(a, s) ==
    InOrder(a, s) /\ \A k \in {a[i].key : i \in DOMAIN a} \cup {0} :
                        Searched(s, k) /\ Searched(s, k + 1)

SortsAndFinds(a) == SortedAs(a, qsort(a))
=============================================================================

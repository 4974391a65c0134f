------------------------------ MODULE Division ------------------------------
(***************************************************************************)
(* Division of integers of two words with an instruction that divides two  *)
(* words by one (src/sdk/src/libc/src/udivmoddi4.c): what the compiler     *)
(* calls for / and % on 64 bits.  Integers of two words are 0 .. B2 - 1;   *)
(* a signed one of B2 \div 2 or more stands for itself minus B2.           *)
(***************************************************************************)
EXTENDS Integers, FiniteSets

CONSTANT W_TYPE_SIZE    \* bits of a word, 32 in the code

ASSUME WordAssumption == W_TYPE_SIZE \in Nat \ {0}

(* 1 << k: as many as there are numbers of k bits.                         *)
Pow2(k) == Cardinality(SUBSET (1 .. k))

B == Pow2(W_TYPE_SIZE)
B2 == B * B

(* The instruction div raises an exception when the quotient needs more    *)
(* than a word.                                                            *)
udiv_qrnnd(n1, n0, dv) ==
    IF n1 >= dv THEN [q |-> 0, r |-> 0, fault |-> TRUE]
    ELSE [q |-> (n1 * B + n0) \div dv, r |-> (n1 * B + n0) % dv, fault |-> FALSE]

Result(q, r, fault) == [q |-> q, r |-> r, fault |-> fault]

(* The divisor is one word: one instruction, or two when the quotient has  *)
(* two words.                                                              *)
ByOneWord(n1, n0, d0) ==
    LET high == udiv_qrnnd(0, n1, d0)
        one == udiv_qrnnd(n1, n0, d0)
        low == udiv_qrnnd(high.r, n0, d0)
    IN  IF d0 > n1 THEN Result(one.q, one.r, one.fault)
        ELSE Result(high.q * B + low.q, low.r, high.fault \/ low.fault)

(* __builtin_clz                                                           *)
count_leading_zeros(x) ==
    CHOOSE z \in 0 .. W_TYPE_SIZE - 1 : Pow2(W_TYPE_SIZE - 1 - z) <= x /\ x < Pow2(W_TYPE_SIZE - z)

(* The divisor has two words, the first without its leading bit: both are  *)
(* moved left until it has it, the quotient is estimated from the leading  *)
(* words and put right by one if the product is too large.                 *)
ByTwoWords_Estimate(n1, n0, d1, d0) ==
    LET bm == count_leading_zeros(d1)
        norm(x) == x * Pow2(bm)
        d == norm(d1 * B + d0)
        n == norm(n1 * B + n0)
        e == udiv_qrnnd(n \div B2, (n \div B) % B, d \div B)
        m == e.q * (d % B)
        left == (e.r * B + (n % B) - m) % B2
    IN  Result(e.q, left \div Pow2(bm), e.fault)

ByTwoWords(n1, n0, d1, d0) ==
    LET bm == count_leading_zeros(d1)
        norm(x) == x * Pow2(bm)
        d == norm(d1 * B + d0)
        n == norm(n1 * B + n0)
        e == udiv_qrnnd(n \div B2, (n \div B) % B, d \div B)
        m == e.q * (d % B)
        over == m > e.r * B + (n % B)
        q0 == IF over THEN (e.q - 1) % B ELSE e.q
        m1m0 == IF over THEN (m - d) % B2 ELSE m
        left == ((e.r * B + (n % B)) - m1m0) % B2
    IN  Result(q0, left \div Pow2(bm), e.fault)

(* __udivmoddi4: quotient and remainder of numbers without sign.           *)
udivmoddi4(n, d) ==
    LET n1 == n \div B   n0 == n % B
        d1 == d \div B   d0 == d % B
        fits == n1 > d1 \/ n0 >= d0
    IN  IF d1 = 0 THEN ByOneWord(n1, n0, d0)
        ELSE IF d1 > n1 THEN Result(0, n, FALSE)
        ELSE IF count_leading_zeros(d1) # 0 THEN ByTwoWords(n1, n0, d1, d0)
        ELSE IF fits THEN Result(1, (n - d) % B2, FALSE)
        ELSE Result(0, n, FALSE)

Negative(u) == u \div B >= B \div 2
Negated(u) == (-u) % B2
Magnitude(u) == IF Negative(u) THEN Negated(u) ELSE u

(* __divdi3 and __moddi3: the quotient is negative when the signs differ,  *)
(* the remainder when the dividend is.                                     *)
divdi3(u, v) ==
    LET w == udivmoddi4(Magnitude(u), Magnitude(v)).q
    IN  IF Negative(u) # Negative(v) THEN Negated(w) ELSE w

moddi3(u, v) ==
    LET w == udivmoddi4(Magnitude(u), Magnitude(v)).r
    IN  IF Negative(u) THEN Negated(w) ELSE w

-----------------------------------------------------------------------------
SignedValue(u) == IF u >= B2 \div 2 THEN u - B2 ELSE u
Absolute(x) == IF x < 0 THEN -x ELSE x

(* Quotient and remainder are those of the numbers: through the estimate   *)
(* that may be one too large, the cases that do not need it, and, with     *)
(* signs, the least number, whose negation is itself.  The processor never *)
(* finds a quotient too large for it, unless the divisor is zero, and then *)
(* it always does.                                                         *)
DividesRight(n, d) ==
    LET u == udivmoddi4(n, d)
        q == SignedValue(divdi3(n, d))
        r == SignedValue(moddi3(n, d))
        N == SignedValue(n)
        D == SignedValue(d)
    IN  /\ u.fault <=> d = 0
        /\ d # 0 =>
             /\ n = u.q * d + u.r /\ u.r < d
             /\ (q * D + r - N) % B2 = 0
             /\ Absolute(r) < Absolute(D)
             /\ r # 0 => (r < 0 <=> N < 0)
             /\ ~(N = -(B2 \div 2) /\ D = -1) => q * D + r = N
=============================================================================

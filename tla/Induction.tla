----------------------------- MODULE Induction ------------------------------
(***************************************************************************)
(* Induction over natural numbers, stated with sets, the functions it      *)
(* builds (a walk along links is some function's iteration), and what is   *)
(* needed of products and quotients.                                       *)
(***************************************************************************)
EXTENDS Integers, WellFoundedInduction, TLAPS

(* A set of natural numbers that is not empty has a least element.         *)
LEMMA LeastElement ==
    ASSUME NEW T \in SUBSET Nat, T # {}
    PROVE  \E n \in T : \A m \in T : n <= m
<1> DEFINE R == OpToRel(<, Nat)
<1>1. IsWellFoundedOn(R, Nat)
  BY NatLessThanWellFounded
<1>2. \E x \in T : \A y \in T : ~ (<<y, x>> \in R)
  <2> HIDE DEF R
  <2> QED BY <1>1, WFMin
<1>3. PICK x \in T : \A y \in T : ~ (<<y, x>> \in R)
  BY <1>2
<1>4. ASSUME NEW y \in T PROVE x <= y
  <2>1. <<y, x>> \in Nat \X Nat
    OBVIOUS
  <2>2. ~(<<y, x>>[1] < <<y, x>>[2])
    BY <1>3, <2>1 DEF OpToRel
  <2> QED BY <2>2
<1> QED BY <1>4

(* A set that 0 and the successors of its members belong to has every      *)
(* natural number.                                                         *)
LEMMA SetInduction ==
    ASSUME NEW S \in SUBSET Nat, 0 \in S, \A n \in S : n + 1 \in S
    PROVE  \A n \in Nat : n \in S
<1> SUFFICES ASSUME \E n \in Nat : n \notin S PROVE FALSE
  OBVIOUS
<1> DEFINE T == Nat \ S
<1>1. T \in SUBSET Nat /\ T # {}
  OBVIOUS
<1>2. PICK n \in T : \A m \in T : n <= m
  <2> HIDE DEF T
  <2> QED BY <1>1, LeastElement
<1>3. n - 1 \in Nat /\ n - 1 \notin T
  BY <1>2
<1> QED BY <1>3

(* The same up to a bound.                                                 *)
LEMMA RangeInduction ==
    ASSUME NEW N \in Nat, NEW S, 0 \in S, \A i \in 1 .. N : i - 1 \in S => i \in S
    PROVE  0 .. N \subseteq S
<1> DEFINE T == {n \in Nat : n <= N => n \in S}
<1>1. 0 \in T
  OBVIOUS
<1>2. ASSUME NEW n \in T PROVE n + 1 \in T
  <2> SUFFICES ASSUME n + 1 <= N PROVE n + 1 \in S
    OBVIOUS
  <2>1. n + 1 \in 1 .. N /\ (n + 1) - 1 = n /\ n \in S
    OBVIOUS
  <2> QED BY <2>1
<1>3. \A n \in Nat : n \in T
  <2>1. T \in SUBSET Nat
    OBVIOUS
  <2> HIDE DEF T
  <2> QED BY <1>1, <1>2, <2>1, SetInduction
<1> QED BY <1>3

(* f lists the first N + 1 of first, step[first], step[step[first]], ...   *)
Iterates(f, N, first, step) ==
    /\ f[0] = first
    /\ \A i \in 1 .. N : f[i] = step[f[i - 1]]

(* f begins with first at m, and f[i] is what step i makes of f[i - 1].     *)
Stepwise(f, m, n, first, step) ==
    /\ f[m] = first
    /\ \A i \in m + 1 .. n : f[i] = step[i][f[i - 1]]

(* Functions from a set into itself can be applied one after the other.    *)
LEMMA StepwiseExists ==
    ASSUME NEW X, NEW first \in X, NEW m \in Nat, NEW n \in Nat, m <= n,
           NEW step \in [m + 1 .. n -> [X -> X]]
    PROVE  \E f \in [m .. n -> X] : Stepwise(f, m, n, first, step)
<1> DEFINE S == {j \in 0 .. n - m : \E f \in [m .. m + j -> X] : Stepwise(f, m, m + j, first, step)}
<1>1. 0 \in S
  <2>1. [i \in m .. m + 0 |-> first] \in [m .. m + 0 -> X]
    OBVIOUS
  <2>2. Stepwise([i \in m .. m + 0 |-> first], m, m + 0, first, step)
    BY DEF Stepwise
  <2>3. 0 \in 0 .. n - m
    OBVIOUS
  <2> QED BY <2>1, <2>2, <2>3
<1>2. ASSUME NEW j \in 1 .. n - m, j - 1 \in S PROVE j \in S
  <2>1. PICK f \in [m .. m + (j - 1) -> X] : Stepwise(f, m, m + (j - 1), first, step)
    BY <1>2
  <2> DEFINE g == [i \in m .. m + j |->
                     IF i = m + j THEN step[m + j][f[m + (j - 1)]] ELSE f[i]]
  <2>2. m + j \in m + 1 .. n /\ m + (j - 1) \in m .. m + (j - 1) /\ m \in m .. m + (j - 1)
    OBVIOUS
  <2>3. step[m + j][f[m + (j - 1)]] \in X
    <3>1. step[m + j] \in [X -> X] /\ f[m + (j - 1)] \in X
      BY <2>1, <2>2
    <3> QED BY <3>1
  <2>4. g \in [m .. m + j -> X]
    BY <2>1, <2>3
  <2>5. g[m] = first
    BY <2>1, <2>2 DEF Stepwise
  <2>6. ASSUME NEW i \in m + 1 .. m + j PROVE g[i] = step[i][g[i - 1]]
    <3>1. CASE i = m + j
      BY <3>1
    <3>2. CASE i # m + j
      BY <3>2, <2>1 DEF Stepwise
    <3> QED BY <3>1, <3>2
  <2>7. Stepwise(g, m, m + j, first, step)
    <3> HIDE DEF g
    <3> QED BY <2>5, <2>6 DEF Stepwise
  <2> QED BY <2>4, <2>7
<1>3. n - m \in Nat /\ m + (n - m) = n
  OBVIOUS
<1>4. 0 .. n - m \subseteq S
  <2> HIDE DEF S
  <2> QED BY <1>1, <1>2, <1>3, RangeInduction
<1>5. n - m \in S
  BY <1>3, <1>4
<1> QED BY <1>3, <1>5

(* A function from a set into itself can be iterated any number of times.  *)
LEMMA IteratesExist ==
    ASSUME NEW X, NEW first \in X, NEW step \in [X -> X], NEW N \in Nat
    PROVE  \E f \in [0 .. N -> X] : Iterates(f, N, first, step)
<1> DEFINE steps == [i \in 0 + 1 .. N |-> step]
<1>1. PICK f \in [0 .. N -> X] : Stepwise(f, 0, N, first, steps)
  <2>1. steps \in [0 + 1 .. N -> [X -> X]] /\ 0 \in Nat /\ 0 <= N
    OBVIOUS
  <2> HIDE DEF steps
  <2> QED BY <2>1, StepwiseExists
<1>2. Iterates(f, N, first, step)
  BY <1>1 DEF Stepwise, Iterates
<1> QED BY <1>2

-----------------------------------------------------------------------------
(* Division of natural numbers: q and r are what a is cut into by b.       *)
Cut(a, b, q, r) == a \div b = q /\ a % b = r

(* A number is cut into its quotient and its remainder.                    *)
LEMMA DivMod ==
    ASSUME NEW a \in Nat, NEW b \in Nat, b > 0
    PROVE  \E q \in Nat, r \in Nat : Cut(a, b, q, r) /\ a = q * b + r /\ r < b
<1>1. PICK q \in Int, r \in Int : q = a \div b /\ r = a % b
  OBVIOUS
<1>2. a = b * q + r /\ 0 <= r /\ r < b
  BY <1>1
<1>3. q \in Nat
  BY <1>1
<1>4. b * q = q * b
  OBVIOUS
<1> QED BY <1>1, <1>2, <1>3, <1>4 DEF Cut

(* The product of smaller factors is smaller.                              *)
LEMMA TimesLess ==
    ASSUME NEW a \in Nat, NEW b \in Nat, NEW c \in Nat, a <= b
    PROVE  a * c <= b * c /\ c * a <= c * b
<1>1. PICK k \in Nat : b = a + k
  <2>1. b - a \in Nat /\ b = a + (b - a)
    OBVIOUS
  <2> QED BY <2>1
<1>2. (a + k) * c = a * c + k * c /\ c * (a + k) = c * a + c * k
  OBVIOUS
<1>3. k * c \in Nat /\ c * k \in Nat /\ a * c \in Nat /\ c * a \in Nat
  OBVIOUS
<1> QED BY <1>1, <1>2, <1>3

(* A product, and the one with one factor larger by one.                   *)
LEMMA TimesNext ==
    ASSUME NEW a \in Nat, NEW b \in Nat
    PROVE  a * b \in Nat /\ a + 1 \in Nat /\ (a + 1) * b = a * b + b
<1>1. a * b \in Nat
  OBVIOUS
<1>2. (a + 1) * b = a * b + b
  OBVIOUS
<1> QED BY <1>1, <1>2

(* A quotient and a remainder below the divisor are those of the division. *)
LEMMA CutUnique ==
    ASSUME NEW b \in Nat, NEW q \in Int, NEW r \in Nat, r < b
    PROVE  Cut(q * b + r, b, q, r)
<1>1. PICK a \in Int : a = q * b + r
  OBVIOUS
<1>2. PICK p \in Int, s \in Int : p = a \div b /\ s = a % b
  BY <1>1
<1>3. a = b * p + s /\ 0 <= s /\ s < b
  BY <1>1, <1>2
<1>4. b * p = p * b /\ q * b \in Int /\ p * b \in Int
  OBVIOUS
<1>5. CASE p < q
  <2>1. PICK k \in Nat : q = p + 1 + k
    <3>1. q - p - 1 \in Nat /\ q = p + 1 + (q - p - 1)
      BY <1>5
    <3> QED BY <3>1
  <2>2. (p + 1 + k) * b = p * b + b + k * b /\ k * b \in Nat
    OBVIOUS
  <2> QED BY <1>1, <1>3, <1>4, <2>1, <2>2
<1>6. CASE q < p
  <2>1. PICK k \in Nat : p = q + 1 + k
    <3>1. p - q - 1 \in Nat /\ p = q + 1 + (p - q - 1)
      BY <1>6
    <3> QED BY <3>1
  <2>2. (q + 1 + k) * b = q * b + b + k * b /\ k * b \in Nat
    OBVIOUS
  <2> QED BY <1>1, <1>3, <1>4, <2>1, <2>2
<1>7. CASE p = q
  BY <1>1, <1>2, <1>3, <1>4, <1>7 DEF Cut
<1> QED BY <1>5, <1>6, <1>7
=============================================================================

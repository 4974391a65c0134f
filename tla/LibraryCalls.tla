---------------------------- MODULE LibraryCalls ----------------------------
(***************************************************************************)
(* Calls of functions of the C library that keep no state: the division of *)
(* integers of two words (Division), qsort with bsearch (Sorting), and     *)
(* gmtime and mktime (Dates).                                              *)
(* input is the call that is made, with its arguments.                     *)
(***************************************************************************)
EXTENDS Division, Sorting, Dates

CONSTANTS
    Dividends,  \* numbers of two words
    Arrays,     \* arrays to sort
    Years,      \* years to take apart
    DayTimes    \* seconds since midnight

(* What the types of the arguments say: numbers have two words, and arrays *)
(* have their elements from 0 on, each with a key.  The years are those    *)
(* that the table of 60 years has the beginning and the end of.            *)
ASSUME ArgumentsAssumption ==
    /\ Dividends \subseteq 0 .. B2 - 1
    /\ \A a \in Arrays :
          /\ IsFiniteSet(DOMAIN a) /\ DOMAIN a = 0 .. Cardinality(DOMAIN a) - 1
          /\ a = [i \in DOMAIN a |-> a[i]] /\ \A i \in DOMAIN a : a[i].key \in Int
    /\ Years \subseteq EPOCH .. EPOCH + 58 /\ DayTimes \subseteq 0 .. SECONDS_PER_DAY - 1

VARIABLE input

NoCall == [call |-> "none"]

Divide(n, d) == input' = [call |-> "divide", n |-> n, d |-> d]
Sort(a) == input' = [call |-> "sort", array |-> a]
TakeApart(y, s) == input' = [call |-> "date", year |-> y, seconds |-> s]

CallsInit == input = NoCall

CallsNext ==
    /\ input = NoCall
    /\ \/ \E n, d \in Dividends : Divide(n, d)
       \/ \E a \in Arrays : Sort(a)
       \/ \E y \in Years, s \in DayTimes : TakeApart(y, s)

CallsSpec == CallsInit /\ [][CallsNext]_input

(* 64-bit division and remainder are exact: through an estimated quotient  *)
(* that may be one too large, all normalizations, and every sign.          *)
DivisionIsRight == input.call = "divide" => DividesRight(input.n, input.d)

(* qsort leaves the same elements in order, and bsearch finds what is in   *)
(* the array and nothing else.                                             *)
SortedAndFound == input.call = "sort" => SortsAndFinds(input.array)

(* What _gmtime takes apart mktime puts together again, the day of the     *)
(* week agrees with both, and the clock's registers are read as what they  *)
(* show (DatesAgree has the exceptions).                                   *)
DatesAreRight == input.call = "date" => DatesAgree(input.year, input.seconds)
=============================================================================

------------------------------- MODULE Options ------------------------------
(***************************************************************************)
(* getopt, getopt_long and getopt_long_only (src/sdk/src/libc/src/getopt): *)
(* a program calls them until they return -1 and may then begin again.     *)
(* Each call goes on where the last one stopped, in the middle of an       *)
(* argument or after one, and moves the arguments that are no options      *)
(* behind those that are.  Results that are numbers or characters in C are *)
(* texts here, and the messages are left out.                              *)
(***************************************************************************)
EXTENDS Texts

CONSTANT Calls  \* what programs call it with: [argv, shorts, posix, long, only, names]

VARIABLES
    call,           \* the arguments of getopt, but for argv as it is now
    getopt_data,    \* optind, optarg, optopt, the static data and argv
    returned        \* what the calls of this scan returned

optionVars == <<call, getopt_data, returned>>

None == "none"
Null == <<NUL>>

Dash(w) == At(w, 1) = "-"
IsOption(w) == Dash(w) /\ Len(w) > 1

(* argv[0] is the name of the program: argv has the others.                *)
argc(d) == Len(d.argv) + 1

-----------------------------------------------------------------------------
(* exchange: the shorter of two neighbouring segments is swapped with the  *)
(* far end of the longer one, until none is left.                          *)
SwapSegments(argv, p, q, len) ==
    [i \in DOMAIN argv |-> IF i \in p .. p + len - 1 THEN argv[i + q - p]
                           ELSE IF i \in q .. q + len - 1 THEN argv[i + p - q]
                           ELSE argv[i]]

RECURSIVE Exchanged(_, _, _, _)
Exchanged(argv, bottom, middle, top) ==
    IF ~(top > middle /\ middle > bottom) THEN argv
    ELSE IF top - middle > middle - bottom
         THEN LET len == middle - bottom
              IN  Exchanged(SwapSegments(argv, bottom, top - len, len), bottom, middle, top - len)
         ELSE LET len == top - middle
              IN  Exchanged(SwapSegments(argv, bottom, middle, len), bottom + len, middle, top)

exchange_NotMoved(d) ==
    [d EXCEPT !.argv = Exchanged(@, d.first_nonopt, d.last_nonopt, d.optind),
              !.last_nonopt = d.optind]

exchange(d) ==
    [d EXCEPT !.argv = Exchanged(@, d.first_nonopt, d.last_nonopt, d.optind),
              !.first_nonopt = @ + d.optind - d.last_nonopt,
              !.last_nonopt = d.optind]

(* _getopt_initialize.  The sign that orders the scan is skipped in the    *)
(* call that initializes, not in later ones.                               *)
Ordering(c) ==
    CASE At(c.shorts, 1) = "-" -> "RETURN_IN_ORDER"
      [] At(c.shorts, 1) = "+" -> "REQUIRE_ORDER"
      [] OTHER -> IF c.posix THEN "REQUIRE_ORDER" ELSE "PERMUTE"

Signed1(c) == At(c.shorts, 1) \in {"-", "+"}

_getopt_initialize(c, d) ==
    [d EXCEPT !.first_nonopt = d.optind, !.last_nonopt = d.optind, !.nextchar = <<>>,
              !.ordering = Ordering(c), !.initialized = TRUE]

-----------------------------------------------------------------------------
(* The next element of argv, when the one before is used up: d.ret is what *)
(* the call returns, or None when there is an option to decode.  Beyond    *)
(* the end of argv, where an ambiguous -W may have led, it is "wild".      *)
Returning(d, r) == [d EXCEPT !.ret = r]

Skipped(d) ==
    LET next == Min({i \in d.optind .. argc(d) : i = argc(d) \/ IsOption(d.argv[i])})
    IN  [d EXCEPT !.optind = next, !.last_nonopt = next]

Permuted(d) ==
    Skipped(IF d.last_nonopt = d.optind THEN d
            ELSE IF d.first_nonopt # d.last_nonopt THEN exchange(d)
            ELSE [d EXCEPT !.first_nonopt = d.optind])

(* "--" is skipped like an option, and then everything else.               *)
Gathered(d) ==
    IF d.first_nonopt = d.last_nonopt THEN [d EXCEPT !.first_nonopt = d.optind]
    ELSE IF d.last_nonopt # d.optind THEN exchange(d) ELSE d

Ended(d) ==
    IF d.optind = argc(d) \/ d.argv[d.optind] # <<"-", "-">> THEN d
    ELSE [Gathered([d EXCEPT !.optind = @ + 1])
            EXCEPT !.last_nonopt = argc(d), !.optind = argc(d)]

AtElement(c, d) ==
    IF d.optind = argc(d)
    THEN Returning(IF d.first_nonopt = d.last_nonopt THEN d
                   ELSE [d EXCEPT !.optind = d.first_nonopt], "-1")
    ELSE LET w == d.argv[d.optind] IN
         IF ~IsOption(w)
         THEN IF d.ordering = "REQUIRE_ORDER" THEN Returning(d, "-1")
              ELSE Returning([d EXCEPT !.optarg = w, !.optind = @ + 1], "1")
         ELSE [d EXCEPT !.nextchar =
                   SubSeq(w, IF c.long /\ At(w, 2) = "-" THEN 3 ELSE 2, Len(w))]

(* The program may have moved optind back.                                 *)
MovedBack(d) ==
    [d EXCEPT !.last_nonopt = Min({@, d.optind}), !.first_nonopt = Min({@, d.optind})]

PermutedIf(d) == IF d.ordering = "PERMUTE" THEN Permuted(d) ELSE d

Advanced(c, d) ==
    IF d.nextchar # <<>> THEN d
    ELSE IF d.optind > argc(d) THEN Returning(d, "wild")
    ELSE AtElement(c, Ended(PermutedIf(MovedBack(d))))

-----------------------------------------------------------------------------
(* Long options: the name goes to the end or to a "=".  An exact match     *)
(* wins; of several abbreviated ones the first, if the others mean the     *)
(* same and lenient is set.                                                *)
NameLength(text) == Min({i \in 0 .. Len(text) : At(text, i + 1) \in {"=", NUL}})

Match(c, text, lenient) ==
    LET name == SubSeq(text, 1, NameLength(text))
        starts == {i \in DOMAIN c.names : IsPrefix(name, c.names[i].name)}
        exact == {i \in starts : c.names[i].name = name}
        alike(i) == [c.names[i] EXCEPT !.name = name]
    IN  [found |-> IF starts = {} THEN 0 ELSE IF exact # {} THEN Min(exact) ELSE Min(starts),
         ambiguous |-> exact = {} /\ \E i \in starts :
                           i # Min(starts) /\ ~(lenient /\ alike(i) = alike(Min(starts)))]

Missing(shorts) == IF At(shorts, 1) = ":" THEN ":" ELSE "?"

(* What an option does with its argument: behind "=", or the next element. *)
Found(c, shorts, index, text, data) ==
    LET d == [data EXCEPT !.nextchar = <<>>]
        p == c.names[index]
        n == NameLength(text)
        done(e) == Returning([e EXCEPT !.longind = index], IF p.flag THEN "0" ELSE p.val)
    IN  IF n < Len(text)
        THEN IF p.has_arg > 0
             THEN done([d EXCEPT !.optarg = SubSeq(text, n + 2, Len(text))])
             ELSE Returning([d EXCEPT !.optopt = p.val], "?")
        ELSE IF p.has_arg = 1
        THEN IF d.optind < argc(d)
             THEN done([d EXCEPT !.optarg = d.argv[d.optind], !.optind = @ + 1])
             ELSE Returning([d EXCEPT !.optopt = p.val], Missing(shorts))
        ELSE done(d)

IsLong(c, shorts, w) ==
    c.long /\ (At(w, 2) = "-" \/ (c.only /\ (Len(w) > 2 \/ ~Contains(shorts, At(w, 2)))))

Chosen(c, shorts, m, d) ==
    IF m.ambiguous \/ m.found = 0
    THEN Returning([d EXCEPT !.nextchar = <<>>, !.optind = @ + 1, !.optopt = None], "?")
    ELSE Found(c, shorts, m.found, d.nextchar, [d EXCEPT !.optind = @ + 1])

LongOption(c, shorts, d) == Chosen(c, shorts, Match(c, d.nextchar, ~c.only), d)

(* -W foo and -Wfoo are --foo: d has -W behind it and foo in optarg, optopt*)
(* stays as it was.  An ambiguous foo costs another element of argv, which *)
(* may be one too many.                                                    *)
WChosen(c, shorts, m, d) ==
    IF m.ambiguous THEN Returning([d EXCEPT !.nextchar = <<>>, !.optind = @ + 1], "?")
    ELSE IF m.found = 0 THEN Returning([d EXCEPT !.nextchar = <<>>], "W")
    ELSE [Found(c, shorts, m.found, d.optarg, d) EXCEPT !.optopt = d.optopt]

WOption(c, shorts, rest, d) ==
    IF rest = <<>> /\ d.optind = argc(d)
    THEN Returning([d EXCEPT !.optopt = "W"], Missing(shorts))
    ELSE LET text == IF rest # <<>> THEN rest ELSE d.argv[d.optind]
         IN  WChosen(c, shorts, Match(c, text, FALSE),
                     [d EXCEPT !.optarg = text, !.optind = @ + 1])

ShortOption(c, shorts, ch, rest, d) ==
    LET at == IF Contains(shorts, ch) THEN IndexFirstSubSeq(<<ch>>, shorts) ELSE 0
        colon(n) == At(shorts, at + n) = ":"
        end == [d EXCEPT !.nextchar = <<>>]
    IN  IF at = 0 \/ ch = ":" THEN Returning([d EXCEPT !.optopt = ch], "?")
        ELSE IF ch = "W" /\ At(shorts, at + 1) = ";" THEN WOption(c, shorts, rest, d)
        ELSE IF ~colon(1) THEN Returning(d, ch)
        ELSE IF rest # <<>> THEN Returning([end EXCEPT !.optarg = rest, !.optind = @ + 1], ch)
        ELSE IF colon(2) THEN Returning(end, ch)
        ELSE IF d.optind = argc(d) THEN Returning([end EXCEPT !.optopt = ch], Missing(shorts))
        ELSE Returning([end EXCEPT !.optarg = d.argv[d.optind], !.optind = @ + 1], ch)

NextLetter(c, shorts, d) ==
    ShortOption(c, shorts, Head(d.nextchar), Tail(d.nextchar),
                [d EXCEPT !.nextchar = Tail(@),
                          !.optind = IF Len(d.nextchar) = 1 THEN @ + 1 ELSE @])

(* _getopt_internal_r.                                                     *)
Decoded(c, shorts, d) ==
    IF d.ret # None THEN d
    ELSE IF IsLong(c, shorts, d.argv[d.optind])
            /\ ~(c.only /\ At(d.argv[d.optind], 2) # "-"
                 /\ Match(c, d.nextchar, ~c.only).found = 0
                 /\ Contains(shorts, Head(d.nextchar)))
         THEN LongOption(c, shorts, d)
    ELSE NextLetter(c, shorts, d)

_getopt_internal_r(c, data) ==
    LET fresh == data.optind = 0 \/ ~data.initialized
        begun == [data EXCEPT !.optarg = Null, !.ret = None, !.optind = Max({@, 1})]
    IN  Decoded(c, IF fresh /\ Signed1(c) THEN Tail(c.shorts) ELSE c.shorts,
                Advanced(c, IF fresh THEN _getopt_initialize(c, begun) ELSE begun))

-----------------------------------------------------------------------------

OptionsInit ==
    /\ call \in Calls
    /\ getopt_data = [argv |-> call.argv, optind |-> 1, optarg |-> Null, optopt |-> "?",
                      longind |-> 0, initialized |-> FALSE, nextchar |-> <<>>,
                      ordering |-> "PERMUTE", first_nonopt |-> 0, last_nonopt |-> 0,
                      ret |-> None]
    /\ returned = <<>>

Over == returned # <<>> /\ Last(returned).ret \in {"-1", "wild"}

getopt ==
    /\ ~Over
    /\ getopt_data' = _getopt_internal_r(call, getopt_data)
    /\ returned' = Append(returned, [ret |-> getopt_data'.ret, arg |-> getopt_data'.optarg])
    /\ UNCHANGED call

(* The program begins again, with the arguments as they are now: it sets   *)
(* optind to 1, or to 0 to have the rest initialized too.                  *)
Rewind ==
    /\ Over /\ Last(returned).ret = "-1"
    /\ \E n \in {0, 1} : getopt_data' = [getopt_data EXCEPT !.optind = n]
    /\ call' = [call EXCEPT !.argv = getopt_data.argv]
    /\ returned' = <<>>

OptionsNext == getopt \/ Rewind

-----------------------------------------------------------------------------
(* What a command line means, read from the left to the right: the calls   *)
(* and the arguments that are left over.  lacks: the argument of the last  *)
(* option is missing; stop: nothing is said about what follows (-W with an *)
(* ambiguous name).                                                        *)
Returns(r, arg) == <<[ret |-> r, arg |-> arg]>>
Taking(calls, taken) == [calls |-> calls, taken |-> taken, lacks |-> FALSE, stop |-> FALSE]
Lacking(c) == [Taking(Returns(Missing(c.shorts), Null), 0) EXCEPT !.lacks = TRUE]

(* An option that needs an argument has the rest of its element or the     *)
(* next one.                                                               *)
LongMeaning(c, p, text, before, more) ==
    LET n == NameLength(text)
        value == IF p.flag THEN "0" ELSE p.val
    IN  IF n < Len(text)
        THEN IF p.has_arg = 0 THEN Taking(Returns("?", before), 0)
             ELSE Taking(Returns(value, SubSeq(text, n + 2, Len(text))), 0)
        ELSE IF p.has_arg # 1 THEN Taking(Returns(value, before), 0)
        ELSE IF more # <<>> THEN Taking(Returns(value, Head(more)), 1)
        ELSE [Lacking(c) EXCEPT !.calls[1].arg = before]

NameMeaning(c, text, more) ==
    LET m == Match(c, text, ~c.only)
    IN  IF m.ambiguous \/ m.found = 0 THEN Taking(Returns("?", Null), 0)
        ELSE LongMeaning(c, c.names[m.found], text, Null, more)

WMeaning(c, text, more) ==
    LET m == Match(c, text, FALSE)
    IN  IF m.ambiguous THEN [Taking(Returns("?", text), 0) EXCEPT !.stop = TRUE]
        ELSE IF m.found = 0 THEN Taking(Returns("W", text), 0)
        ELSE LongMeaning(c, c.names[m.found], text, text, more)

RECURSIVE LettersMeaning(_, _, _, _)
LettersMeaning(c, w, letters, more) ==
    LET ch == Head(letters)
        rest == Tail(letters)
        known == Contains(c.shorts, ch) /\ ch \notin {":", "+"}
        colons(n) == \E i \in 1 .. Len(c.shorts) :
                        c.shorts[i] = ch /\ \A k \in 1 .. n : At(c.shorts, i + k) = ":"
        next == LettersMeaning(c, w, rest, more)
        then(k) == IF rest = <<>> THEN Taking(k, 0) ELSE [next EXCEPT !.calls = k \o @]
    IN  IF /\ c.only /\ (Len(w) > 2 \/ ~known)
           /\ ~(known /\ Match(c, letters, FALSE).found = 0)
        THEN NameMeaning(c, letters, more)
        ELSE IF ~known THEN then(Returns("?", Null))
        ELSE IF ch = "W" /\ Contains(c.shorts, ";")
        THEN IF rest # <<>> THEN WMeaning(c, rest, more)
             ELSE IF more = <<>> THEN Lacking(c)
             ELSE LET k == WMeaning(c, Head(more), Tail(more)) IN [k EXCEPT !.taken = @ + 1]
        ELSE IF ~colons(1) THEN then(Returns(ch, Null))
        ELSE IF rest # <<>> THEN Taking(Returns(ch, rest), 0)
        ELSE IF colons(2) THEN Taking(Returns(ch, Null), 0)
        ELSE IF more # <<>> THEN Taking(Returns(ch, Head(more)), 1)
        ELSE Lacking(c)

RECURSIVE Meaning(_, _, _)
Meaning(c, words, left) ==
    LET w == Head(words)
        more == Tail(words)
        element == IF c.long /\ At(w, 2) = "-" THEN NameMeaning(c, SubSeq(w, 3, Len(w)), more)
                   ELSE LettersMeaning(c, w, Tail(w), more)
        after(k, m) == [m EXCEPT !.calls = k.calls \o @, !.lacks = @ \/ k.lacks]
    IN  IF words = <<>> THEN [Taking(<<>>, 0) EXCEPT !.taken = left]
        ELSE IF w = <<"-", "-">> THEN [Taking(<<>>, 0) EXCEPT !.taken = left \o more]
        ELSE IF IsOption(w)
        THEN IF element.stop THEN element
             ELSE after(element, Meaning(c, SubSeq(more, element.taken + 1, Len(more)), left))
        ELSE CASE Ordering(c) = "PERMUTE" -> Meaning(c, more, Append(left, w))
               [] Ordering(c) = "REQUIRE_ORDER" -> [Taking(<<>>, 0) EXCEPT !.taken = left \o words]
               [] OTHER -> after(Taking(Returns("1", w), 0), Meaning(c, more, left))

(* The sign that orders the scan is an option from the second call on.     *)
SignIsOption(c) ==
    Signed1(c) /\ \E w \in Range(c.argv) : IsOption(w) /\ Contains(Tail(w), Head(c.shorts))

(* The calls return the options in the order of the command line, as far   *)
(* as they have come; at the end optind is where the arguments begin that  *)
(* are no options, in their order; and argv, however it was permuted, has  *)
(* the same elements and means the same as before.                         *)
OptionsInOrder ==
    LET m == Meaning(call, call.argv, <<>>)
        got == SelectSeq(returned, LAMBDA r : r.ret # "-1")
        argv == getopt_data.argv
        count(a, w) == Cardinality({i \in DOMAIN a : a[i] = w})
        again == Meaning(call, argv, <<>>)
    IN  ~SignIsOption(call) =>
        IF m.stop THEN IsPrefix(m.calls, returned) \/ IsPrefix(returned, m.calls)
        ELSE /\ IsPrefix(got, m.calls)
             /\ \A w \in Range(call.argv) : count(argv, w) = count(call.argv, w)
             /\ Over => /\ got = m.calls
                        /\ SubSeq(argv, getopt_data.optind, Len(argv)) = m.taken
                        /\ m.lacks \/ again = m
=============================================================================

----------------------------- MODULE MC_Library -----------------------------
(***************************************************************************)
(* Words of 4 bits for Division (b and bm from 1 to 3), of 8 bits cut in   *)
(* the middle for Numbers; texts of a beginning and up to three characters *)
(* after it; arrays of up to six elements with up to three keys; command   *)
(* lines of up to three words; memories of five characters.                *)
(* For trio: texts of up to three characters and patterns of up to four,   *)
(* dynamic strings of up to three characters, numbers of two words; every  *)
(* year of the calendar's tables.                                          *)
(***************************************************************************)
EXTENDS Library

MCModes == {<<"r">>, <<"r", "w">>, <<"a", "+">>}

MCDividends == 0 .. B2 - 1

Characters == {"0", "7", "8", "f", "-"}
Beginnings == {<<>>, <<" ">>, <<"-">>, <<"+">>, <<" ", "-">>, <<"-", " ">>, <<"+", "-">>,
               <<"0", "x">>, <<"-", "0", "x">>, <<"+", "0", "X">>}
MCNumerals == {b \o r : b \in Beginnings, r \in UNION {[1 .. n -> Characters] : n \in 0 .. 3}}

MCDirectives ==
    {<<"%">> \o width \o precision \o size \o <<letter>> :
        width \in {<<>>, <<"5">>}, precision \in {<<>>, <<".", "1">>, <<".", "4">>},
        size \in {<<>>, <<"l">>}, letter \in {"d", "u", "x", "X", "p"}}

MCYears == 1970 .. 2028
MCLayouts ==
    {<<"a">>, <<"%", "Y">>, <<"%", "%">>, <<"%", "d", "-", "%", "B">>, <<"%", "F">>,
     <<"%", "F", " ", "%", "T">>, <<"%", "O", "d">>, <<"%", "c">>, <<"%", "H", ":", "%", "M">>}

MCArrays == UNION {{[i \in 0 .. n - 1 |-> [key |-> k[i], id |-> i]] : k \in [0 .. n - 1 -> 1 .. 3]} :
                      n \in 0 .. 6}

(* Strings of characters and delimiters, one after the other.              *)
MCMemories == {m \in [1 .. 5 -> {NUL, "a", "b", "/"}] : m[5] = NUL}

Words == {<<"a">>, <<"-">>, <<"-", "-">>, <<"-", "a">>, <<"-", "a", "b">>, <<"-", "b">>,
          <<"-", "b", "x">>, <<"-", "x">>}
LongWords == {<<"a">>, <<"-", "-">>, <<"-", "-", "a", "l">>, <<"-", "-", "b", "e">>,
              <<"-", "-", "b", "e", "=", "x">>, <<"-", "b", "e">>, <<"-", "W">>,
              <<"-", "W", "a", "l">>, <<"-", "-", "a", "=">>, <<"-", "a", "b">>}
Lines(words) == UNION {[1 .. k -> words] : k \in 0 .. 3}

Named(n, has_arg, flag, val) == [name |-> n, has_arg |-> has_arg, flag |-> flag, val |-> val]
Names == <<Named(<<"a", "l">>, 2, FALSE, "l"), Named(<<"b", "e">>, 1, TRUE, "e"),
           Named(<<"a", "l", "l">>, 2, FALSE, "l"), Named(<<"a", "k">>, 2, FALSE, "l")>>

Calling(argv, shorts, only, names) ==
    [argv |-> argv, shorts |-> shorts, posix |-> FALSE, long |-> names # <<>>, only |-> only,
     names |-> names]
MCCalls ==
    {Calling(argv, shorts, FALSE, <<>>) : argv \in Lines(Words),
        shorts \in {<<":", "b", ":", "a">>, <<"-", "a", "b", ":", ":">>, <<"+", "a", "b", ":">>}}
    \cup
    {Calling(argv, <<"W", ";", "b", ":">>, only, Names) :
        argv \in Lines(LongWords), only \in BOOLEAN}

TextsOf(characters, n) == UNION {[1 .. k -> characters] : k \in 0 .. n}
MCAdditions == {<<>>, <<"a">>, <<"b", "a">>}
MCPatterns == TextsOf({"a", "A", "b"}, 3) \X TextsOf({"a", "b", "*", "?"}, 4)
MCFloats ==
    [hex : BOOLEAN, sign : {<<>>, <<"-">>, <<"+">>}, whole : {<<"1">>, <<"2", "0">>},
     pointed : BOOLEAN, part : {<<>>, <<"0", "7">>}, turn : {<<>>, <<"-">>, <<"+">>},
     power : {<<>>, <<"1", "2">>}, after : {<<>>, <<" ">>, <<"-">>}]

MCConversions ==
    [flags : SUBSET {"-", "+", " ", "0", "#"}, width : {-6, 0, 6}, precision : {-1, 0, 3},
     size : {<<>>}, letter : {"d", "u", "o", "x"}, v : {0, 250}]
    \cup
    [flags : {{}, {"#"}}, width : {0, 9}, precision : {-1},
     size : {<<"l", "l">>, <<"q">>, <<"j">>, <<"I", "6", "4">>, <<"&">>, <<"z">>, <<"t">>, <<"h">>,
             <<"I", "3", "2">>},
     letter : {"d", "u", "X", "b"}, v : {0, 99, 65500}]
MCGroupings == {<<>>, <<3>>, <<2, 1>>, <<1, 127>>, <<127>>}
MCTexts == {<<"NULL">>, <<>>, <<"a">>, <<"a", "LF", "b">>, <<"\\", "b">>, <<"SOH", "a">>}
MCSent ==
    {<<<<"a", "%", "d", "b">>, <<9>>>>, <<<<"%", "5", "d">>, <<250>>>>,
     <<<<"%", "p", "%", "%">>, <<5>>>>, <<<<"%", "m", "%", "2", "c">>, <<"a">>>>,
     <<<<"$", "%", "p">>, <<0>>>>}
MCPrintings ==
    ({"number"} \X MCConversions)
      \cup ({"groups"} \X MCGroupings \X {0, 7, 12, 123, 1234, 65535})
      \cup ({"text"} \X MCTexts \X (SUBSET {"-", "#", "'"}) \X {0, 4} \X {-1, 0, 2} \X {"s", "S"})
      \cup ({"positions"} \X [1 .. 3 -> {0, 1, 2, 3, 64, 65}])
      \cup {<<"destinations", s[1], s[2]>> : s \in MCSent}
      \cup ({"namespaces"} \X UNION {[1 .. k -> {<<"a">>, <<"b">>, <<":">>} \X BOOLEAN] : k \in 0 .. 3})
=============================================================================

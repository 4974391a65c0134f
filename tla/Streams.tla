------------------------------ MODULE Streams -------------------------------
(***************************************************************************)
(* One stdio stream of a program (src/sdk/src/libc/src/stdio): the buffer  *)
(* between the characters it reads and writes one by one and the read and  *)
(* write calls on its descriptor.                                          *)
(*                                                                         *)
(* The characters a program writes are numbered in the order it tries to,  *)
(* those that come in, in the order they come.  The device works or fails  *)
(* for whole calls; it has what has come in so far to read.  There is no   *)
(* seeking: the kernel has no handler for the number of lseek, which is    *)
(* that of readlink (core/api/kernel/syscall_table.h, lines 25 and 28), so *)
(* lseek leaves the descriptor alone.                                      *)
(* The messages that fgetc prints on stdout are left out.                  *)
(***************************************************************************)
EXTENDS Integers, Sequences, FiniteSets

CONSTANTS
    BUFSIZE,    \* _IO_BUFSIZE
    Sizes,      \* the sizes asked of setvbuf
    Modes,      \* the modes asked of fopen, as sequences of letters
    MaxChars,   \* bound on the characters written and coming in, together
    MaxIn,      \* bound on the characters that come in
    Lengths     \* the lengths given to fwrite and fread

ASSUME StreamsAssumption ==
    /\ BUFSIZE \in Nat \ {0}
    /\ Sizes \subseteq Nat
    /\ MaxChars \in Nat /\ MaxIn \in Nat
    /\ Lengths \subseteq Nat

EOF == -1

VARIABLES
    stream,     \* the FILE
    device,     \* [works, in (what came in and was not read), out (what was
                \* written)]
    program     \* history: what the program tried to write, was told is
                \* written, was told is flushed, and read; whether input was
                \* thrown away or output; whether memory was overwritten

vars == <<stream, device, program>>

(* __parse_mode: "+" adds what the letters before it left out, and a       *)
(* letter forgets those before it.                                         *)
parse_mode(mode) ==
    LET flags[i \in 0 .. Len(mode)] ==
            IF i = 0 THEN {}
            ELSE CASE mode[i] = "r" -> {"read"}
                   [] mode[i] \in {"w", "a"} -> {"write"}
                   [] mode[i] = "+" -> {"read", "write"}
                   [] OTHER -> flags[i - 1]
    IN  flags[Len(mode)]

(* __init_file                                                             *)
init_file(mode) ==
    [can |-> parse_mode(mode), error |-> FALSE, eof |-> FALSE,
     linewise |-> FALSE, nobuf |-> FALSE, bufinput |-> FALSE,
     buffer |-> <<>>, pos |-> 0, size |-> BUFSIZE, data |-> 0,
     ungotten |-> FALSE, unget |-> 0, open |-> TRUE]

(* A call works on a state [st, dv, ret, smash] of stream and device, its  *)
(* result and whether it wrote beyond the buffer.                          *)
Now == [st |-> stream, dv |-> device, ret |-> 0, smash |-> FALSE]
Told(s, ret) == [s EXCEPT !.ret = ret]
Failed(s) == [s EXCEPT !.ret = EOF, !.st.error = TRUE]

(* write: all or nothing.                                                  *)
Written(s, cs) == [s EXCEPT !.dv.out = @ \o cs, !.ret = 0]

(* What the buffer of an output stream holds.                              *)
Pending(st) == IF st.bufinput THEN <<>> ELSE SubSeq(st.buffer, 1, st.pos)
(* What that of an input stream still has to give.                         *)
Unread(st) == IF st.bufinput THEN SubSeq(st.buffer, st.pos + 1, st.data) ELSE <<>>

(* fflush: input is forgotten, for the lseek that should give it back does *)
(* nothing; output is written, and BUFSIZE bytes of the buffer are cleared *)
(* whatever its size is.                                                   *)
fflush(s) ==
    IF s.st.bufinput THEN [s EXCEPT !.st.pos = 0, !.st.data = 0, !.ret = 0]
    ELSE IF s.st.pos = 0 THEN Told(s, 0)
    ELSE IF ~s.dv.works THEN Failed(s)
    ELSE [Written(s, Pending(s.st)) EXCEPT !.st.pos = 0, !.smash = s.st.size < BUFSIZE]

(* __set_stream_flags: the direction is changed even if the flush failed.  *)
set_stream_flags(s, bufinput) ==
    IF s.st.bufinput = bufinput THEN Told(s, 0)
    ELSE [fflush(s) EXCEPT !.st.bufinput = bufinput]

-----------------------------------------------------------------------------
(* Writing *)

Stored(s, c) ==
    [s EXCEPT !.st.buffer = SubSeq(@, 1, s.st.pos) \o <<c>>, !.st.pos = @ + 1, !.ret = 0]

(* fputc: a new line ends a line of a linewise stream.                     *)
fputc(s, c, newline) ==
    LET turned == set_stream_flags(s, FALSE)
        room == IF turned.st.pos >= turned.st.size - 1 THEN fflush(turned) ELSE Told(turned, 0)
        kept == Stored(room, c)
    IN  IF "write" \notin s.st.can THEN Failed(s)
        ELSE IF turned.ret # 0 THEN Failed(turned)
        ELSE IF room.ret # 0 THEN Failed(room)
        ELSE IF s.st.nobuf
             THEN IF s.dv.works THEN Written(room, <<c>>) ELSE Failed(room)
        ELSE IF s.st.linewise /\ newline /\ fflush(kept).ret # 0 THEN Failed(fflush(kept))
        ELSE IF s.st.linewise /\ newline THEN fflush(kept)
        ELSE kept

(* fwrite of cs: more than the buffer holds goes straight to the device,   *)
(* less goes through fputc until one fails.  The result is how many        *)
(* characters were taken.                                                  *)
fwrite_Unflushed(s, cs) ==
    IF "write" \notin s.st.can THEN [Failed(s) EXCEPT !.ret = 0]
    ELSE IF s.dv.works THEN Told(Written(s, cs), Len(cs))
    ELSE [Failed(s) EXCEPT !.ret = 0]

fwrite(s, cs) ==
    LET flushed == fflush(s)
        put[i \in 0 .. Len(cs)] ==
            IF i = 0 THEN [s |-> s, taken |-> 0, failed |-> FALSE]
            ELSE LET b == put[i - 1]
                     t == fputc(b.s, cs[i], FALSE)
                 IN  IF b.failed THEN b
                     ELSE IF t.ret # 0 THEN [b EXCEPT !.s = t, !.failed = TRUE]
                     ELSE [b EXCEPT !.s = t, !.taken = @ + 1]
        all == put[Len(cs)]
    IN  IF "write" \notin s.st.can THEN [Failed(s) EXCEPT !.ret = 0]
        ELSE IF cs = <<>> THEN Told(s, 0)
        ELSE IF Len(cs) > s.st.size \/ s.st.nobuf
             THEN IF flushed.ret # 0 THEN Told(flushed, 0)
                  ELSE IF s.dv.works THEN Told(Written(flushed, cs), Len(cs))
                  ELSE [Failed(flushed) EXCEPT !.ret = 0]
        ELSE Told(all.s, all.taken)

-----------------------------------------------------------------------------
(* Reading *)

Least(a, b) == IF a < b THEN a ELSE b

(* fgetc, whose result is a character or EOF.                              *)
fgetc(s) ==
    LET turned == set_stream_flags(s, TRUE)
        n == Least(turned.st.size, Len(turned.dv.in))
        filled == IF turned.st.pos < turned.st.data THEN turned
                  ELSE [turned EXCEPT !.st.buffer = SubSeq(turned.dv.in, 1, n),
                                      !.st.pos = 0, !.st.data = n,
                                      !.dv.in = SubSeq(@, n + 1, Len(@))]
        empty == turned.st.pos >= turned.st.data
    IN  IF "read" \notin s.st.can THEN Failed(s)
        ELSE IF turned.ret # 0 THEN Failed(turned)
        ELSE IF turned.st.ungotten
             THEN [turned EXCEPT !.st.ungotten = FALSE, !.ret = turned.st.unget]
        ELSE IF turned.st.eof THEN Told(turned, EOF)
        ELSE IF empty /\ ~turned.dv.works THEN Failed(turned)
        ELSE IF empty /\ n = 0 THEN [turned EXCEPT !.st.eof = TRUE, !.ret = EOF]
        ELSE [filled EXCEPT !.st.pos = @ + 1, !.ret = filled.st.buffer[filled.st.pos + 1]]

(* fread of n characters: the first may be the one given back; the others  *)
(* come from fgetc, until it has no more.                                  *)
fread(s, n) ==
    LET first == IF s.st.ungotten
                 THEN [s |-> [s EXCEPT !.st.ungotten = FALSE], got |-> <<s.st.unget>>]
                 ELSE [s |-> s, got |-> <<>>]
        get[i \in Len(first.got) .. n] ==
            IF i = Len(first.got) THEN [s |-> first.s, got |-> first.got, ended |-> FALSE]
            ELSE LET b == get[i - 1]
                     t == fgetc(b.s)
                 IN  IF b.ended THEN b
                     ELSE IF t.ret = EOF THEN [b EXCEPT !.s = t, !.ended = TRUE]
                     ELSE [b EXCEPT !.s = t, !.got = Append(@, t.ret)]
    IN  IF "read" \notin s.st.can THEN [s |-> Failed(s), got |-> <<>>]
        ELSE IF n = 0 THEN [s |-> s, got |-> <<>>]
        ELSE [s |-> get[n].s, got |-> get[n].got]

(* ungetc of the character read last.                                      *)
ungetc_Early(s, c) ==
    IF s.st.ungotten THEN Told(s, EOF)
    ELSE [s EXCEPT !.st.unget = c, !.st.eof = FALSE, !.st.error = FALSE, !.ret = c]

ungetc(s, c) ==
    IF s.st.ungotten THEN Told(s, EOF)
    ELSE [s EXCEPT !.st.ungotten = TRUE, !.st.unget = c,
                   !.st.eof = FALSE, !.st.error = FALSE, !.ret = c]

-----------------------------------------------------------------------------
(* The calls of the program *)

NewProgram == [tried |-> 0, taken |-> {}, flushed |-> {}, got |-> <<>>, came |-> 0,
               inputLost |-> FALSE, outputLost |-> FALSE, smashed |-> FALSE]

Init ==
    /\ \E mode \in Modes : stream = init_file(mode)
    /\ device = [works |-> TRUE, in |-> <<>>, out |-> <<>>]
    /\ program = NewProgram

Usable == stream.open /\ ~program.smashed

(* The end of a call that left the state s.                                *)
After(s, p) ==
    /\ stream' = s.st
    /\ device' = s.dv
    /\ program' = [p EXCEPT !.smashed = @ \/ s.smash]

(* Flushing, writing to or seeking a stream with unread input loses it.    *)
LoseInput(p) == [p EXCEPT !.inputLost = @ \/ Unread(stream) # <<>>]
(* Reading from or seeking a stream whose output cannot be written loses   *)
(* that output.                                                            *)
LoseOutput(p) ==
    [p EXCEPT !.outputLost = @ \/ (Pending(stream) # <<>> /\ ~device.works)]

Fputc(newline) ==
    /\ Usable /\ program.tried + program.came < MaxChars
    /\ LET c == program.tried + 1
           s == fputc(Now, c, newline)
       IN  After(s, LoseInput([program EXCEPT
                        !.tried = c, !.taken = IF s.ret = 0 THEN @ \cup {c} ELSE @]))

Fwrite(n) ==
    /\ Usable /\ program.tried + program.came + n <= MaxChars
    /\ LET cs == [i \in 1 .. n |-> program.tried + i]
           s == fwrite(Now, cs)
       IN  After(s, LoseInput([program EXCEPT
                        !.tried = @ + n, !.taken = @ \cup {cs[i] : i \in 1 .. s.ret}]))

Fflush ==
    /\ Usable
    /\ LET s == fflush(Now)
       IN  After(s, LoseInput([program EXCEPT
                        !.flushed = IF s.ret = 0 THEN program.taken ELSE @]))

Fgetc ==
    /\ Usable
    /\ LET s == fgetc(Now)
       IN  After(s, LoseOutput([program EXCEPT
                        !.got = IF s.ret = EOF THEN @ ELSE Append(@, s.ret)]))

Fread(n) ==
    /\ Usable
    /\ LET r == fread(Now, n)
       IN  After(r.s, LoseOutput([program EXCEPT !.got = @ \o r.got]))

Ungetc ==
    /\ Usable /\ program.got # <<>>
    /\ LET c == program.got[Len(program.got)]
           s == ungetc(Now, c)
       IN  /\ s.ret # EOF
           /\ After(s, [program EXCEPT !.got = SubSeq(@, 1, Len(@) - 1)])

(* setvbuf, before anything else is done with the stream, as the C         *)
(* standard asks; a size of 0 without a buffer changes the flags only.     *)
Setvbuf(size, flags) ==
    /\ Usable /\ program = [NewProgram EXCEPT !.came = program.came]
    /\ stream.size = BUFSIZE /\ ~stream.nobuf /\ ~stream.linewise /\ ~stream.bufinput
    /\ stream' = [stream EXCEPT !.size = IF size = 0 THEN @ ELSE size,
                                !.pos = 0, !.data = 0,
                                !.nobuf = flags = "_IONBF", !.linewise = flags = "_IOLBF"]
    /\ UNCHANGED <<device, program>>

(* fpurge: what is buffered is thrown away, on purpose.                    *)
Fpurge ==
    /\ Usable
    /\ ~stream.nobuf
    /\ stream' = [stream EXCEPT !.ungotten = FALSE,
                                !.pos = IF stream.bufinput THEN stream.data ELSE 0]
    /\ program' = [program EXCEPT
         !.inputLost = @ \/ Unread(stream) # <<>> \/ stream.ungotten,
         !.outputLost = @ \/ Pending(stream) # <<>>]
    /\ UNCHANGED device

(* fseek: the position of the descriptor does not move, and what is        *)
(* buffered is gone, even output that could not be written.                *)
Fseek ==
    /\ Usable
    /\ LET s == fflush(Now)
       IN  After([s EXCEPT !.st.pos = 0, !.st.data = 0, !.st.eof = FALSE,
                           !.st.error = FALSE, !.st.ungotten = FALSE],
                 LoseOutput(LoseInput([program EXCEPT
                     !.inputLost = @ \/ stream.ungotten])))

Clearerr ==
    /\ Usable
    /\ stream.eof \/ stream.error
    /\ stream' = [stream EXCEPT !.eof = FALSE, !.error = FALSE]
    /\ UNCHANGED <<device, program>>

(* fclose: the FILE is freed whether or not its output could be written.   *)
Fclose ==
    /\ Usable
    /\ LET s == fflush(Now)
       IN  After([s EXCEPT !.st.open = FALSE],
                 LoseInput([program EXCEPT
                     !.flushed = IF s.ret = 0 THEN program.taken ELSE @]))

(* Something comes in, or the device begins or ceases to work.             *)
Device ==
    \/ /\ program.came < MaxIn
       /\ program.tried + program.came < MaxChars
       /\ device' = [device EXCEPT !.in = Append(@, program.came + 1)]
       /\ program' = [program EXCEPT !.came = @ + 1]
       /\ UNCHANGED stream
    \/ /\ device' = [device EXCEPT !.works = ~@]
       /\ UNCHANGED <<stream, program>>

Next ==
    \/ \E newline \in BOOLEAN : Fputc(newline)
    \/ \E n \in Lengths : Fwrite(n) \/ Fread(n)
    \/ Fflush \/ Fgetc \/ Ungetc \/ Fpurge \/ Fseek \/ Clearerr \/ Fclose
    \/ \E size \in Sizes, flags \in {"_IOFBF", "_IOLBF", "_IONBF"} : Setvbuf(size, flags)
    \/ Device

Spec == Init /\ [][Next]_vars
-----------------------------------------------------------------------------
(* Properties *)

Sent == device.out \o (IF stream.open THEN Pending(stream) ELSE <<>>)
In(c, cs) == \E i \in DOMAIN cs : cs[i] = c

(* What was written and what waits in the buffer follow each other in the  *)
(* order of the calls, nothing twice, and every character the program was  *)
(* told is taken is among them while the stream is open: when a flush      *)
(* fails and is tried again, when fwrite goes past the buffer, and when    *)
(* the stream changes its direction.  After a flush or a close that        *)
(* reports success the device has it all.                                  *)
OutputInOrder ==
    ~program.outputLost /\ ~program.smashed =>
        /\ \A i, j \in DOMAIN Sent : i < j => Sent[i] < Sent[j]
        /\ stream.open => \A c \in program.taken : In(c, Sent)
        /\ \A c \in program.flushed : In(c, device.out)

(* What the program has read, what it has given back, what is left in the  *)
(* buffer and what the device still holds is what came in, in its order:   *)
(* through the end of the file and input that comes after it, failures of  *)
(* the device and characters given back.                                   *)
InputInOrder ==
    stream.open /\ ~program.inputLost /\ ~program.smashed =>
        program.got \o (IF stream.ungotten THEN <<stream.unget>> ELSE <<>>)
            \o Unread(stream) \o device.in = [i \in 1 .. program.came |-> i]
=============================================================================

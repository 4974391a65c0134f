------------------------------ MODULE Syscalls -------------------------------
(***************************************************************************)
(* How a system call gets its arguments and gives back its result          *)
(* (do_syscalls and schedule in src/kernel/arch/x86/x86.cc, setParam,      *)
(* getArg and setRet in architecture.cc, the handlers of api_posix.cc).    *)
(*                                                                         *)
(* The gate of int 0x80 is a trap gate: interrupts stay enabled until the  *)
(* cli in do_syscalls, after the arguments have been put into ret_reg.     *)
(* Both ret_reg and stack_ptr are single global variables; the scheduler   *)
(* uses stack_ptr too.  A call that waits (read of the console or of a     *)
(* process, wait) enables interrupts while it does.  close, exit and wait  *)
(* have no result.                                                         *)
(***************************************************************************)
EXTENDS Integers

CONSTANT
    Programs    \* the processes making system calls

ASSUME SyscallsAssumption == Programs # {}

VARIABLES
    pcurrent,
    pc,         \* where each process is in its call
    ret_reg,    \* the two halves of the arguments, by the process they are of
    args,       \* args[q]: what the handler of q read from ret_reg
    stack_ptr,  \* whose saved registers it points to, and who saved them:
                \* the system call or the timer interrupt
    eax,        \* eax[q]: the saved eax of q's call: the call's number, or
                \* the result of a process
    last        \* history: last[q]: what q's last call was, one with a result
                \* and "quick" or that "waits", or a "void" one

callVars == <<pcurrent, pc, ret_reg, args, stack_ptr, eax, last>>

Frame == [of : Programs, by : {"call", "timer"}]
Number == "number"

Label == {"user", "int", "half", "set", "waits"}

CallInit ==
    /\ pcurrent \in Programs
    /\ pc = [q \in Programs |-> "user"]
    /\ ret_reg = [i \in {1, 2} |-> pcurrent]
    /\ args = [q \in Programs |-> [i \in {1, 2} |-> q]]
    /\ stack_ptr = [of |-> pcurrent, by |-> "timer"]
    /\ eax = [q \in Programs |-> q]
    /\ last = [q \in Programs |-> "quick"]

At(q, label) == pcurrent = q /\ pc[q] = label

Goto(q, label) == pc' = [pc EXCEPT ![q] = label]

(* int 0x80: the registers are saved, the call's number among them.        *)
Enter(q) ==
    /\ At(q, "user")
    /\ Goto(q, "int")
    /\ eax' = [eax EXCEPT ![q] = Number]
    /\ UNCHANGED <<pcurrent, ret_reg, args, stack_ptr, last>>

(* setParam: the arguments are stored one after the other.                 *)
SetFirst(q) ==
    /\ At(q, "int")
    /\ Goto(q, "half")
    /\ ret_reg' = [ret_reg EXCEPT ![1] = q]
    /\ UNCHANGED <<pcurrent, args, stack_ptr, eax, last>>

SetSecond(q) ==
    /\ At(q, "half")
    /\ Goto(q, "set")
    /\ ret_reg' = [ret_reg EXCEPT ![2] = q]
    /\ UNCHANGED <<pcurrent, args, stack_ptr, eax, last>>

(* setRet(ret) writes the eax of a frame that do_syscalls saved; in the    *)
(* frame of an interrupt the same place is not eax, and nobody's result.   *)
setRet(frame, q) ==
    eax' = IF frame.by = "call" THEN [eax EXCEPT ![frame.of] = q] ELSE eax

(* cli; the handler reads its arguments; stack_ptr points to the registers *)
(* that the call has saved.                                                *)
Starts(q) ==
    /\ At(q, "set")
    /\ args' = [args EXCEPT ![q] = ret_reg]
    /\ stack_ptr' = [of |-> q, by |-> "call"]
    /\ UNCHANGED <<pcurrent, ret_reg>>

LastWas(q, kind) == last' = [last EXCEPT ![q] = kind]

(* The handler to its end; sti and the return.                             *)
Handle(q) ==
    /\ Starts(q)
    /\ setRet(stack_ptr', q)
    /\ Goto(q, "user")
    /\ LastWas(q, "quick")

(* The same of close and exit, which do not call setRet: eax keeps the     *)
(* number of the call.                                                     *)
HandleVoid(q) ==
    /\ Starts(q)
    /\ Goto(q, "user")
    /\ LastWas(q, "void")
    /\ UNCHANGED eax

(* The handler up to the sti in front of its loop: read, or wait, which is *)
(* void as its setRet is commented out ...                                 *)
HandleWaits(q) ==
    /\ Starts(q)
    /\ Goto(q, "waits")
    /\ LastWas(q, "waits") \/ LastWas(q, "void")
    /\ UNCHANGED eax

(* ... and from the cli behind it to the return.                           *)
WaitEnds(q) ==
    /\ At(q, "waits")
    /\ IF last[q] = "void" THEN UNCHANGED eax ELSE setRet(stack_ptr, q)
    /\ Goto(q, "user")
    /\ UNCHANGED <<pcurrent, ret_reg, args, stack_ptr, last>>

Tick_OwnPointer ==
    /\ pcurrent' \in Programs
    /\ UNCHANGED <<pc, ret_reg, args, stack_ptr, eax, last>>

(* The timer: schedule() points stack_ptr at the registers the interrupt   *)
(* has just saved and goes on with some process, maybe the same.           *)
Tick ==
    /\ stack_ptr' = [of |-> pcurrent, by |-> "timer"]
    /\ pcurrent' \in Programs
    /\ UNCHANGED <<pc, ret_reg, args, eax, last>>

CallNext ==
    \/ Tick
    \/ \E q \in Programs :
         \/ Enter(q) \/ SetFirst(q) \/ SetSecond(q)
         \/ Handle(q) \/ HandleVoid(q) \/ HandleWaits(q) \/ WaitEnds(q)

CallSpec == CallInit /\ [][CallNext]_callVars

-----------------------------------------------------------------------------

TypeOK ==
    /\ pcurrent \in Programs
    /\ pc \in [Programs -> Label]
    /\ ret_reg \in [{1, 2} -> Programs]
    /\ args \in [Programs -> [{1, 2} -> Programs]]
    /\ stack_ptr \in Frame
    /\ eax \in [Programs -> Programs \cup {Number}]
    /\ last \in [Programs -> {"quick", "waits", "void"}]

(* "Get a syscall argument" (architecture.cc, line 325): a handler works   *)
(* on the arguments of the process that made the call.  It does not hold:  *)
(* the timer may come between setParam and the cli.                        *)
ArgsAreOwn ==
    \A q \in Programs : pc[q] \in {"user", "waits"} => \A i \in {1, 2} : args[q][i] = q

(* "Set the return value of syscall" (architecture.cc, line 333): a call   *)
(* that has a result has left it in eax when it returns.                   *)
ResultReturned ==
    \A q \in Programs : pc[q] = "user" /\ last[q] # "void" => eax[q] = q

(* The same of a call that does not wait, although the scheduler and the   *)
(* waiting calls move stack_ptr under it up to its cli.                    *)
QuickResultReturned ==
    \A q \in Programs : pc[q] = "user" /\ last[q] = "quick" => eax[q] = q

(* No call returns the result of another process's call, however the calls *)
(* overlap.                                                                *)
NoStrayResult == \A q \in Programs : eax[q] \in {q, Number}

(* What the processes see of both: a result is that of the process's own   *)
(* call, and it is there unless the call has waited or has none.           *)
ResultsAreOwn == QuickResultReturned /\ NoStrayResult

(* Where results come from and go to: no step there looks at ret_reg or    *)
(* args, so that states which differ in these alone need not be told apart.*)
ResultView == <<pcurrent, pc, stack_ptr, eax, last>>
=============================================================================

----------------------------- MODULE SystemCalls ----------------------------
(***************************************************************************)
(* System calls: how their arguments and results go through the registers  *)
(* (Syscalls), and what those on files do once they have their arguments   *)
(* (Files).  A handler runs with interrupts disabled and sees neither      *)
(* ret_reg again nor stack_ptr, so that a behaviour is one of either half; *)
(* the other one rests.                                                    *)
(***************************************************************************)
EXTENDS Files, Syscalls

VARIABLE side

systemVars == <<vars, callVars, side>>

SystemInit ==
    /\ side \in {"files", "registers"}
    /\ Init /\ CallInit
    /\ side = "files" => pcurrent = FirstProc

SystemNext ==
    \/ side = "files" /\ Next /\ UNCHANGED <<callVars, side>>
    \/ side = "registers" /\ CallNext /\ UNCHANGED <<vars, side>>

SystemSpec == SystemInit /\ [][SystemNext]_systemVars

(* All of the state but what results do not depend on.                     *)
SystemView == <<vars, side, ResultView>>
=============================================================================

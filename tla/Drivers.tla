------------------------------- MODULE Drivers ------------------------------
(***************************************************************************)
(* What programs reach through the drivers: the terminal (Io, for          *)
(* modules/stdtty.cc) and the files of a disk (Ext2).  They share no       *)
(* state: a behaviour is one of either, the other one rests.               *)
(***************************************************************************)
EXTENDS Io, Ext2

VARIABLE device

driverVars == <<ioVars, ext2Vars, device>>

DriversInit ==
    /\ device \in {"terminal", "disk"}
    /\ IoInit /\ Ext2Init
    /\ IF device = "disk" THEN half = "screen" ELSE disk = (CHOOSE d \in Disks : TRUE).disk

Terminal(A) == device = "terminal" /\ A /\ UNCHANGED <<ext2Vars, device>>

DriversNext ==
    \/ Terminal(IoNext)
    \/ device = "disk" /\ Ext2Next /\ UNCHANGED <<ioVars, device>>

(* The fairness of module Io.                                              *)
DriversFairness ==
    /\ WF_ioVars(Terminal(Keyboard(Key(NEWLINE))))
    /\ \A q \in Readers : WF_ioVars(Terminal(Keyboard(Lock(q) \/ Leave(q) \/ Copy(q))))

DriversSpec == DriversInit /\ [][DriversNext]_driverVars /\ DriversFairness
=============================================================================

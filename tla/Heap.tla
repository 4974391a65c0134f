-------------------------------- MODULE Heap --------------------------------
(***************************************************************************)
(* The kernel's heap (src/kernel/arch/x86/alloc.cc) at its two grains: a   *)
(* behaviour is one of whole calls (KernelHeap), with everything that can  *)
(* become of the heap's end, or one of the steps that the timer can come   *)
(* between (HeapRace), on a heap that does not grow.                       *)
(***************************************************************************)
EXTENDS KernelHeap, HeapRace

VARIABLE grain

heapVars == <<vars, raceVars, grain>>

HeapInit == grain \in {"calls", "steps"} /\ Init /\ RaceInit

HeapNext ==
    \/ grain = "calls" /\ Next /\ UNCHANGED <<raceVars, grain>>
    \/ grain = "steps" /\ RaceNext /\ UNCHANGED <<vars, grain>>

HeapSpec == HeapInit /\ [][HeapNext]_heapVars
=============================================================================

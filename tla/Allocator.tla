----------------------------- MODULE Allocator -----------------------------
(***************************************************************************)
(* What kmalloc and kfree promise (src/kernel/arch/x86/alloc.cc), whatever *)
(* the chunks look like: a block that is handed out overlaps no block that *)
(* somebody holds, and a block is given up by its holder only.             *)
(***************************************************************************)
EXTENDS Integers

CONSTANTS
    Addresses,  \* where a block may begin
    Sizes       \* the sizes that callers ask for

VARIABLE held   \* the blocks in the callers' hands

Block == [ptr : Addresses, size : Sizes]

Apart(a, b) == a.ptr + a.size <= b.ptr \/ b.ptr + b.size <= a.ptr

Init == held = {}

Allocate(b) ==
    /\ b \notin held
    /\ \A a \in held : Apart(a, b)
    /\ held' = held \cup {b}

Free(b) ==
    /\ b \in held
    /\ held' = held \ {b}

Next == \E b \in Block : Allocate(b) \/ Free(b)

Spec == Init /\ [][Next]_held
=============================================================================

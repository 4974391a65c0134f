---------------------------- MODULE AddressSpaces ----------------------------
(***************************************************************************)
(* Who owns which page frame: the page directory, the page tables, the     *)
(* kernel stack and the user pages of every process, from create_process   *)
(* through the page faults to destroy_process (src/kernel/arch/x86/        *)
(* architecture.cc, x86.cc, vmm.cc, core/elf_loader.cc).                   *)
(*                                                                         *)
(* A process has two records of its memory: what its page directory maps   *)
(* (pde, pte) and the lists destroy_process walks (pglist, pt).  The page  *)
(* fault handler files a page under arch.pcurrent, whereas the mapping     *)
(* goes into the page directory in cr3; create_process loads cr3 with the  *)
(* new directory and leaves pcurrent at the parent.                        *)
(***************************************************************************)
EXTENDS Integers, FiniteSets, Functions

CONSTANTS
    Procs,          \* the pids of the user programs, in order of creation
    Init1,          \* init, the first
    NFrames,        \* frames beyond the kernel's
    OrphansAllowed, \* may a process end before its children?
    MaxStray        \* bound on the frames a second destruction gives back

ASSUME SpacesAssumption ==
    /\ Procs \subseteq Nat
    /\ Init1 \in Procs /\ \A q \in Procs : Init1 <= q
    /\ NFrames \in Nat /\ NFrames >= 6
    /\ OrphansAllowed \in BOOLEAN
    /\ MaxStray \in Nat

Frames == 1 .. NFrames
None == 0

(* The pages of a program: two under one page table, the stack under       *)
(* another.                                                                *)
Pages == {"code", "data", "stack"}
Tables == {"low", "high"}
TableOf(v) == IF v = "stack" THEN "high" ELSE "low"

VARIABLES
    used,       \* the frames marked in mem_bitmap
    status,     \* "unborn", "runs", "zombie", "gone"; not loaded: "failed",
                \* then "twice" destroyed
    parent,     \* the process that created it
    base,       \* frame of the page directory
    kstack,     \* frame of the kernel stack
    pde,        \* pde[p][t] = frame of page table t
    pte,        \* pte[p][v] = frame of page v
    pglist,     \* the user pages destroy_process will free
    pt          \* the page tables page_directory_destroy will free

vars == <<used, status, parent, base, kstack, pde, pte, pglist, pt>>

(* The frames that n calls of page_frame_aquire return, in that order.     *)
Available(n) == Cardinality(Frames \ used) >= n
Take(n) == [i \in 1 .. n |-> CHOOSE f \in Frames \ used :
                Cardinality({g \in Frames \ used : g < f}) = i - 1]

FramesOf(q) ==
    ({base[q], kstack[q]} \cup {pde[q][t] : t \in Tables}
                          \cup {pte[q][v] : v \in Pages}) \ {None}

Listed(q) == pglist[q] \cup pt[q]

HasSpace(q) == status[q] \in {"runs", "zombie"}

-----------------------------------------------------------------------------

(* init has been loaded, with its name as the only argument, by the        *)
(* kernel's own process, which has no lists: its code page, the page of    *)
(* the arguments and their tables are on nobody's.                         *)
Unlisted == {2, 3, 4, 5}

Init ==
    /\ used = 1 .. 6
    /\ status = [q \in Procs |-> IF q = Init1 THEN "runs" ELSE "unborn"]
    /\ parent = [q \in Procs |-> q]
    /\ base = [q \in Procs |-> IF q = Init1 THEN 1 ELSE None]
    /\ pte = [q \in Procs |-> [v \in Pages |->
                CASE q = Init1 /\ v = "code" -> 2
                  [] q = Init1 /\ v = "stack" -> 4
                  [] OTHER -> None]]
    /\ pde = [q \in Procs |-> [t \in Tables |->
                IF q = Init1 THEN IF t = "low" THEN 3 ELSE 5 ELSE None]]
    /\ kstack = [q \in Procs |-> IF q = Init1 THEN 6 ELSE None]
    /\ pglist = [q \in Procs |-> {}]
    /\ pt = [q \in Procs |-> {}]

Born(c, q, as) ==
    /\ status[q] = "runs"
    /\ status[c] = "unborn"
    /\ \A d \in Procs : status[d] = "unborn" => c <= d
    /\ status' = [status EXCEPT ![c] = as]
    /\ parent' = [parent EXCEPT ![c] = q]

(* execv without arguments.  The frames go, in this order, to the page     *)
(* directory, the code page and its table (a fault while load_elf copies   *)
(* the program) and the kernel stack.                                      *)
Execv(c, q) ==
    /\ Born(c, q, "runs")
    /\ Available(4)
    /\ LET f == Take(4) IN
         /\ used' = used \cup Range(f)
         /\ base' = [base EXCEPT ![c] = f[1]]
         /\ pte' = [pte EXCEPT ![c]["code"] = f[2]]
         /\ pde' = [pde EXCEPT ![c]["low"] = f[3]]
         /\ kstack' = [kstack EXCEPT ![c] = f[4]]
         /\ pglist' = [pglist EXCEPT ![q] = @ \cup {f[2]}]
         /\ pt' = [pt EXCEPT ![q] = @ \cup {f[3]}]

(* With arguments, they are copied to the new stack: one more fault.       *)
ExecvArgs(c, q) ==
    /\ Born(c, q, "runs")
    /\ Available(6)
    /\ LET f == Take(6) IN
         /\ used' = used \cup Range(f)
         /\ base' = [base EXCEPT ![c] = f[1]]
         /\ pte' = [pte EXCEPT ![c]["code"] = f[2], ![c]["stack"] = f[4]]
         /\ pde' = [pde EXCEPT ![c]["low"] = f[3], ![c]["high"] = f[5]]
         /\ kstack' = [kstack EXCEPT ![c] = f[6]]
         /\ pglist' = [pglist EXCEPT ![q] = @ \cup {f[2], f[4]}]
         /\ pt' = [pt EXCEPT ![q] = @ \cup {f[3], f[5]}]

(* What page_directory_destroy gives back of a directory with no tables.   *)
ReleasedOnFail_All(f) == Range(f)
ReleasedOnFail(f) == {f[1]}

(* A later segment is refused: the page directory is given back at once,   *)
(* the pages of the first segment stay on the parent's lists.              *)
ExecvFails(c, q) ==
    /\ Born(c, q, "failed")
    /\ Available(3)
    /\ LET f == Take(3) IN
         /\ used' = (used \cup Range(f)) \ ReleasedOnFail(f)
         /\ pglist' = [pglist EXCEPT ![q] = @ \cup {f[2]}]
         /\ pt' = [pt EXCEPT ![q] = @ \cup {f[3]}]
    /\ UNCHANGED <<base, pte, pde, kstack>>

(* isr_PF_exc: a frame for the page, and one for its table when the page   *)
(* directory has none.                                                     *)
Fault(q, v) ==
    LET t == TableOf(v)
        n == IF pde[q][t] = None THEN 2 ELSE 1
    IN  /\ status[q] = "runs"
        /\ pte[q][v] = None
        /\ Available(n)
        /\ used' = used \cup Range(Take(n))
        /\ pte' = [pte EXCEPT ![q][v] = Take(n)[1]]
        /\ pglist' = [pglist EXCEPT ![q] = @ \cup {Take(n)[1]}]
        /\ IF n = 2
             THEN /\ pde' = [pde EXCEPT ![q][t] = Take(n)[2]]
                  /\ pt' = [pt EXCEPT ![q] = @ \cup {Take(n)[2]}]
             ELSE UNCHANGED <<pde, pt>>
        /\ UNCHANGED <<status, parent, base, kstack>>

Exit(q) ==
    /\ q # Init1
    /\ status[q] = "runs"
    /\ OrphansAllowed \/ \A c \in Procs \ {q} : parent[c] = q => ~HasSpace(c)
    /\ status' = [status EXCEPT ![q] = "zombie"]
    /\ UNCHANGED <<used, parent, base, kstack, pde, pte, pglist, pt>>

(* What destroy_process frees: the lists of z, its kernel stack and its    *)
(* page directory.                                                         *)
Released_Parents(z) == Listed(parent[z]) \cup {kstack[z], base[z]}
Released_NoStack(z) == Listed(z) \cup {base[z]}
Released(z) == Listed(z) \cup {kstack[z], base[z]}

(* destroy_process, called by a wait of another process                    *)
(* (destroy_all_zombie).                                                   *)
Destroy(z) ==
    /\ status[z] = "zombie"
    /\ \E r \in Procs : status[r] = "runs"
    /\ used' = used \ Released(z)
    /\ status' = [status EXCEPT ![z] = "gone"]
    /\ UNCHANGED <<parent, base, kstack, pde, pte, pglist, pt>>

(* A program that could not be loaded is a zombie too (Process::create).   *)
(* Its page directory is destroyed a second time, through memory that      *)
(* kfree has had back, and its kernel stack is a number that nobody wrote: *)
(* the frames behind whatever addresses are found there are given back,    *)
(* any of those in use or none.                                            *)
DestroyFailed(z) ==
    /\ status[z] = "failed"
    /\ \E r \in Procs : status[r] = "runs"
    /\ \E stray \in [1 .. MaxStray -> used \cup {None}] : used' = used \ Range(stray)
    /\ status' = [status EXCEPT ![z] = "twice"]
    /\ UNCHANGED <<parent, base, kstack, pde, pte, pglist, pt>>

Next ==
    \/ \E c, q \in Procs : Execv(c, q) \/ ExecvArgs(c, q) \/ ExecvFails(c, q)
    \/ \E q \in Procs, v \in Pages : Fault(q, v)
    \/ \E q \in Procs : Exit(q) \/ Destroy(q) \/ DestroyFailed(q)

Spec == Init /\ [][Next]_vars

-----------------------------------------------------------------------------

(* "In a paged system, each process may execute in its own 4gb area of     *)
(* memory, without any chance of effecting any other process's memory, or  *)
(* the kernel's." (Chapter-8/README.md): no frame serves two processes.    *)
Isolation ==
    \A q, r \in Procs :
        q # r /\ HasSpace(q) /\ HasSpace(r) => FramesOf(q) \cap FramesOf(r) = {}

(* A program that failed to load has been reaped.                          *)
Strayed == \E q \in Procs : status[q] = "twice"

(* Until then no frame serves two processes, however often programs fail   *)
(* to load and whatever frames of theirs stay behind on other lists        *)
(* (create_process, isr_PF_exc, destroy_process).                          *)
IsolationHolds == Strayed \/ Isolation

(* Until then a frame is on the lists of one process only: no two calls of *)
(* destroy_process free the same frame.                                    *)
ListedOnce ==
    \/ Strayed
    \/ \A q, r \in Procs :
         q # r /\ HasSpace(q) /\ HasSpace(r) => Listed(q) \cap Listed(r) = {}

(* Until then the bitmap and the processes agree: the frames behind a      *)
(* process that runs are marked, so neither a page fault nor page_new      *)
(* takes one from under it; and none is lost for good: a marked frame is   *)
(* the page directory or the kernel stack of a process, or on the lists of *)
(* one, or one of the four that init leaves at its birth.                  *)
MarkedIsOwned ==
    LET live == {q \in Procs : HasSpace(q)}
    IN  \/ Strayed
        \/ /\ \A q \in live : FramesOf(q) \subseteq used
           /\ used \subseteq Unlisted \cup
                UNION {Listed(q) \cup {base[q], kstack[q]} : q \in live}

(* A bound: what comes after a failed program has been reaped.             *)
NotStrayed == ~Strayed
=============================================================================

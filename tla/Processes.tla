----------------------------- MODULE Processes ------------------------------
(***************************************************************************)
(* The life of processes: creation by execv, the round-robin scheduler     *)
(* driven by the timer, exit, SIGCHLD, wait and the reaping of zombies     *)
(* (src/kernel/core/process.cc, arch/x86/architecture.cc, arch/x86/x86.cc, *)
(* core/elf_loader.cc).                                                    *)
(*                                                                         *)
(* One processor: a process takes a step only while it is pcurrent.  A     *)
(* step is what runs with interrupts disabled; between two steps the timer *)
(* may switch to another process.  System calls run with interrupts        *)
(* disabled except wait, which enables them to spin and, through           *)
(* destroy_process, also while it walks the list of processes.             *)
(*                                                                         *)
(* A Process object is named by its pid and a pid is never used again; an  *)
(* object that has been deleted keeps its last values, as freed memory     *)
(* does until it is handed out again.                                      *)
(***************************************************************************)
EXTENDS Integers, FiniteSets

CONSTANTS
    MaxPid,     \* bound on the processes ever created
    Waiters,    \* the processes whose program calls wait
    Loads       \* whether load_elf may succeed and may fail

KERNEL == 1     \* "kernel", pid 1: a zombie from the start, never reaped
INIT   == 2     \* the first program, loaded by load_modules
NULL   == 0

ASSUME ProcessesAssumption ==
    /\ MaxPid \in Nat /\ MaxPid > INIT
    /\ Waiters \subseteq INIT .. MaxPid
    /\ Loads \subseteq BOOLEAN

Pids == KERNEL .. MaxPid
Ptr  == NULL .. MaxPid

VARIABLES
    plist,      \* first process of the list
    pnext,      \* pnext[p] = next process in the list
    pparent,    \* pparent[p] = parent of p
    state_,     \* "unborn", CHILD or ZOMBIE
    sigchld,    \* the processes with SIGCHLD pending
    pcurrent,   \* the process that runs
    pc,         \* where each process is in its program or in wait
    p, pn,      \* the locals of destroy_all_zombie, for each caller
    space,      \* the memory of each process, see Space
    deleted,    \* the Process objects that have been deleted
    adopted,    \* history: the processes given to their parent's parent
    hung        \* schedule() loops for ever: no process can run

vars == <<plist, pnext, pparent, state_, sigchld, pcurrent, pc, p, pn,
          space, deleted, adopted, hung>>

ZOMBIE == "zombie"
CHILD  == "child"

(* "live": its page directory and pages are its own; "unloaded": given     *)
(* back by create_process, which could not load the program; "freed":      *)
(* given back by destroy_process; "again" and "twice": destroyed although  *)
(* it was unloaded, or freed, when its frames may be another's.            *)
Space == {"none", "live", "unloaded", "freed", "again", "twice"}

Label == {"user", "spin", "wait", "clear", "test", "destroy", "delete"}

Born == {q \in Pids : state_[q] # "unborn"}

-----------------------------------------------------------------------------

(* init_process makes the kernel's own process the current one.            *)
FirstCurrent == KERNEL

(* After load_modules: init is on the list in front of the kernel's own    *)
(* process, which is still the current one and spins.                      *)
Init ==
    /\ plist = INIT
    /\ pnext = [q \in Pids |-> IF q = INIT THEN KERNEL ELSE NULL]
    /\ pparent = [q \in Pids |-> IF q = INIT THEN KERNEL ELSE NULL]
    /\ state_ = [q \in Pids |-> CASE q = KERNEL -> ZOMBIE
                                  [] q = INIT   -> CHILD
                                  [] OTHER      -> "unborn"]
    /\ sigchld = {}
    /\ pcurrent = FirstCurrent
    /\ pc = [q \in Pids |-> IF q = KERNEL THEN "spin" ELSE "user"]
    /\ p = [q \in Pids |-> NULL]
    /\ pn = [q \in Pids |-> NULL]
    /\ space = [q \in Pids |-> IF q = INIT THEN "live" ELSE "none"]
    /\ deleted = {}
    /\ adopted = {}
    /\ hung = FALSE

(* Process::schedule looks at the processes after pcurrent, from the head  *)
(* again past the end, for one that is not a zombie.  The i-th it looks at *)
(* is hop[i]; a list of MaxPid processes is all seen in twice that many.   *)
Hops == 2 * MaxPid

HopOf_FromHead ==
    LET hop[i \in 0 .. Hops] ==
            IF i = 0 THEN pcurrent
            ELSE IF i = 1 \/ pnext[hop[i - 1]] = NULL THEN plist
                                                     ELSE pnext[hop[i - 1]]
    IN  hop

HopOf ==
    LET hop[i \in 0 .. Hops] ==
            IF i = 0 THEN pcurrent
            ELSE IF pnext[hop[i - 1]] = NULL THEN plist ELSE pnext[hop[i - 1]]
    IN  hop

schedule ==
    IF pnext[pcurrent] = NULL /\ plist = pcurrent
      THEN UNCHANGED <<pcurrent, hung>>
      ELSE LET hop == HopOf
               CanRun(i) == i \in 1 .. Hops /\ state_'[hop[i]] # ZOMBIE
           IN  \/ \E i \in 1 .. Hops :
                    /\ CanRun(i)
                    /\ \A j \in 1 .. i - 1 : ~CanRun(j)
                    /\ pcurrent' = hop[i]
                    /\ UNCHANGED hung
               \/ /\ \A i \in 1 .. Hops : ~CanRun(i)
                  /\ hung' = TRUE
                  /\ UNCHANGED pcurrent

(* Memory freed a second time may be anyone's: the model ends there.       *)
Doomed == \E q \in Pids : space[q] \in {"again", "twice"}

Runs == ~hung /\ ~Doomed

Tick ==
    /\ Runs
    /\ UNCHANGED state_
    /\ schedule
    /\ UNCHANGED <<plist, pnext, pparent, sigchld, pc, p, pn, space, deleted, adopted>>

At(q, label) == Runs /\ pcurrent = q /\ pc[q] = label

Goto(q, label) == pc' = [pc EXCEPT ![q] = label]

Raise(q) == sigchld' = IF q = NULL THEN sigchld ELSE sigchld \cup {q}

(* new Process, then create: the process is put on the list at once, and   *)
(* is a zombie without memory when its file is not an executable.          *)
Execv(q) ==
    /\ At(q, "user")
    /\ Cardinality(Born) < MaxPid
    /\ LET c == Cardinality(Born) + 1 IN
         /\ plist' = c
         /\ pnext' = [pnext EXCEPT ![c] = plist]
         /\ pparent' = [pparent EXCEPT ![c] = q]
         /\ \/ /\ TRUE \in Loads
               /\ state_' = [state_ EXCEPT ![c] = CHILD]
               /\ space' = [space EXCEPT ![c] = "live"]
            \/ /\ FALSE \in Loads
               /\ state_' = [state_ EXCEPT ![c] = ZOMBIE]
               /\ space' = [space EXCEPT ![c] = "unloaded"]
    /\ UNCHANGED <<sigchld, pcurrent, pc, p, pn, deleted, adopted, hung>>

(* The fork system call makes no process: it only signals the parent.      *)
Fork(q) ==
    /\ At(q, "user")
    /\ Raise(pparent[q])
    /\ UNCHANGED <<plist, pnext, pparent, state_, pcurrent, pc, p, pn, space,
                   deleted, adopted, hung>>

exit_Silent(q) ==
    /\ state_' = [state_ EXCEPT ![q] = ZOMBIE]
    /\ UNCHANGED sigchld

exit(q) ==
    /\ state_' = [state_ EXCEPT ![q] = ZOMBIE]
    /\ Raise(pparent[q])

(* exit returns to the program, which spins until the timer takes it away. *)
Exit(q) ==
    /\ At(q, "user")
    /\ exit(q)
    /\ Goto(q, "spin")
    /\ UNCHANGED <<plist, pnext, pparent, pcurrent, p, pn, space, deleted,
                   adopted, hung>>

(* A protection fault, or a page fault outside user space, ends the        *)
(* process and calls the scheduler at once.                                *)
Crash(q) ==
    /\ At(q, "user")
    /\ exit(q)
    /\ Goto(q, "spin")
    /\ schedule
    /\ UNCHANGED <<plist, pnext, pparent, p, pn, space, deleted, adopted>>

Wait(q) ==
    /\ q \in Waiters
    /\ At(q, "user")
    /\ Goto(q, "wait")
    /\ UNCHANGED <<plist, pnext, pparent, state_, sigchld, pcurrent, p, pn,
                   space, deleted, adopted, hung>>

WaitSignalled(q) ==
    /\ At(q, "wait")
    /\ q \in sigchld
    /\ Goto(q, "clear")
    /\ UNCHANGED <<plist, pnext, pparent, state_, sigchld, pcurrent, p, pn,
                   space, deleted, adopted, hung>>

WaitClear(q) ==
    /\ At(q, "clear")
    /\ sigchld' = sigchld \ {q}
    /\ p' = [p EXCEPT ![q] = plist]
    /\ Goto(q, "test")
    /\ UNCHANGED <<plist, pnext, pparent, state_, pcurrent, pn, space, deleted,
                   adopted, hung>>

Reapable_Any(z) == z # KERNEL
Reapable(z) == state_[z] = ZOMBIE /\ z # KERNEL

ReapTest_Stays(q) ==
    /\ At(q, "test")
    /\ p[q] # NULL
    /\ pn' = [pn EXCEPT ![q] = pnext[p[q]]]
    /\ IF Reapable(p[q]) THEN Goto(q, "destroy") ELSE UNCHANGED pc
    /\ UNCHANGED <<plist, pnext, pparent, state_, sigchld, pcurrent, p, space,
                   deleted, adopted, hung>>

(* One turn of destroy_all_zombie's loop, up to destroy_process.           *)
ReapTest(q) ==
    /\ At(q, "test")
    /\ p[q] # NULL
    /\ pn' = [pn EXCEPT ![q] = pnext[p[q]]]
    /\ IF Reapable(p[q])
         THEN Goto(q, "destroy") /\ UNCHANGED p
         ELSE p' = [p EXCEPT ![q] = pnext[p[q]]] /\ UNCHANGED pc
    /\ UNCHANGED <<plist, pnext, pparent, state_, sigchld, pcurrent, space,
                   deleted, adopted, hung>>

ReapDone(q) ==
    /\ At(q, "test")
    /\ p[q] = NULL
    /\ Goto(q, "user")
    /\ UNCHANGED <<plist, pnext, pparent, state_, sigchld, pcurrent, p, pn,
                   space, deleted, adopted, hung>>

(* The processes met along the links from q; from plist, the whole list.   *)
From(q) ==
    LET hop[i \in 0 .. MaxPid] ==
            IF i = 0 THEN q
            ELSE IF hop[i - 1] = NULL THEN NULL ELSE pnext[hop[i - 1]]
    IN  {hop[i] : i \in 0 .. MaxPid} \ {NULL}

OnList == From(plist)

Unlink_HeadOnly(z) ==
    /\ plist' = IF plist = z THEN pnext[z] ELSE plist
    /\ UNCHANGED pnext

(* z leaves the list: the head, or a link that led to it, is moved on.     *)
Unlink(z) ==
    IF plist = z
      THEN plist' = pnext[z] /\ UNCHANGED pnext
      ELSE /\ LET links == {l \in OnList : pnext[l] = z}
              IN  pnext' = [l \in Pids |-> pnext[IF l \in links THEN z ELSE l]]
           /\ UNCHANGED plist

Freed(s) == CASE s = "live" -> "freed" [] s = "unloaded" -> "again" [] OTHER -> "twice"

(* destroy_process: interrupts disabled, the memory freed, the process     *)
(* taken off the list if it is there, interrupts enabled.                  *)
Destroy(q) ==
    /\ At(q, "destroy")
    /\ LET z == p[q] IN
         /\ space' = [space EXCEPT ![z] = Freed(@)]
         /\ Unlink(z)
    /\ Goto(q, "delete")
    /\ UNCHANGED <<pparent, state_, sigchld, pcurrent, p, pn, deleted,
                   adopted, hung>>

(* change_process_father.                                                  *)
NewParents_Same(z) == pparent
NewParents(z) ==
    LET children == {c \in OnList : pparent[c] = z}
    IN  [c \in Pids |-> pparent[IF c \in children THEN z ELSE c]]

(* delete p: the children on the list go to the parent of p.               *)
Delete(q) ==
    /\ At(q, "delete")
    /\ LET z == p[q] IN
         /\ pparent' = NewParents(z)
         /\ adopted' = adopted \cup {c \in OnList : pparent[c] = z}
         /\ deleted' = deleted \cup {z}
    /\ p' = [p EXCEPT ![q] = pn[q]]
    /\ Goto(q, "test")
    /\ UNCHANGED <<plist, pnext, state_, sigchld, pcurrent, pn, space, hung>>

WaitStep(q) ==
    \/ WaitSignalled(q)
    \/ WaitClear(q)
    \/ ReapTest(q)
    \/ ReapDone(q)
    \/ Destroy(q)
    \/ Delete(q)

Next ==
    \/ Tick
    \/ \E q \in Pids :
         \/ Execv(q)
         \/ Fork(q)
         \/ Exit(q)
         \/ Crash(q)
         \/ Wait(q)
         \/ WaitStep(q)

(* The timer never stops, and a time slice is long enough for some step of *)
(* the kernel code the process is in.                                      *)
Fairness ==
    /\ WF_vars(Tick)
    /\ \A q \in Waiters : SF_vars(WaitStep(q))

Spec == Init /\ [][Next]_vars
FairSpec == Spec /\ Fairness

-----------------------------------------------------------------------------

Destroying == {p[q] : q \in {r \in Pids : pc[r] = "delete"}}

(* The list holds exactly the processes that were created and not yet      *)
(* destroyed, whatever was put in front or taken out while another process *)
(* was half way along it; so the scheduler meets every one of them.        *)
ListIsComplete == OnList = Born \ (deleted \cup Destroying)

(* The process that runs, a child's parent pointer, which exit follows,    *)
(* and the pointers of a reaper on its way along the list are objects that *)
(* nobody else has destroyed.                                              *)
NoDanglingPointer ==
    /\ pcurrent \in OnList
    /\ \A c \in OnList : pparent[c] \notin deleted
    /\ \A q \in Pids : pc[q] \in {"test", "destroy", "delete"} =>
         /\ p[q] \notin deleted
         /\ pc[q] # "test" => pn[q] \notin deleted

(* A process that runs keeps its memory.                                   *)
RunningHasMemory ==
    \A q \in Pids : state_[q] = CHILD => space[q] = "live"

(* No exit goes unnoticed: a child that became a zombie has left a pending *)
(* SIGCHLD, or the wait that took the signal has the zombie ahead of it on *)
(* its walk.  (Not so for a child adopted after its parent was reaped: its *)
(* signal went to the dead parent.)                                        *)
ExitIsNoticed ==
    \A z \in OnList \ (adopted \cup {KERNEL}) :
        LET w == pparent[z]
        IN  state_[z] = ZOMBIE /\ space[z] = "live" /\ w \in Waiters =>
              \/ w \in sigchld
              \/ pc[w] = "clear"
              \/ pc[w] \in {"test", "destroy"} /\ z \in From(p[w])
              \/ pc[w] = "delete" /\ z \in From(pn[w])

(* What destroy_process frees of a program that was loaded, it frees once. *)
LoadedFreedOnce == \A q \in Pids : space[q] # "twice"

(* "Free process memory: pages used by the executable code, user stack,    *)
(* kernel stack, pages directory" (architecture.cc, line 233): what        *)
(* destroy_process frees is the process's, not given back before.          *)
FreedOnce == ~Doomed

(* The timer brings every process that can run to the processor, unless    *)
(* memory has been freed that is not there to free.                        *)
RunnableRuns == \A q \in Pids : state_[q] = CHILD ~> pcurrent = q \/ Doomed

(* A wait that has its signal returns: the spin sees the signal, and the   *)
(* walk along the list ends although others change it.                     *)
WaitReturns ==
    \A q \in Waiters : pc[q] = "wait" /\ q \in sigchld ~> pc[q] = "user" \/ Doomed
=============================================================================

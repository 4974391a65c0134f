------------------------------ MODULE HeapRace -------------------------------
(***************************************************************************)
(* kmalloc and kfree (src/kernel/arch/x86/alloc.cc) taken apart into the   *)
(* steps between which the timer can switch processes.  Neither takes a    *)
(* lock: they rely on interrupts being disabled.  Process::read and        *)
(* Process::wait enable interrupts and call them all the same (Buffer::get *)
(* and the deletion of a process): while such a call is interrupted, other *)
(* processes run, and their calls find the heap as it was left.            *)
(*                                                                         *)
(* The heap is memory: size[a] and used[a] are the header at a, valid or   *)
(* left over; sizes count units that a header is part of.  Growth of the   *)
(* heap is left to KernelHeap.                                             *)
(***************************************************************************)
EXTENDS Integers, FiniteSets

CONSTANTS
    Procs,          \* the processes inside the allocator
    HeapSize,       \* units of the heap
    Requests,       \* sizes asked for
    MaxHeld,        \* bound on the blocks a process holds
    Enabled         \* the processes whose calls run with interrupts enabled

ASSUME RaceAssumption ==
    /\ HeapSize \in Nat \ {0} /\ MaxHeld \in Nat
    /\ Requests \subseteq 1 .. HeapSize
    /\ Enabled \subseteq Procs

Addr == 0 .. HeapSize - 1

VARIABLES
    size, used,     \* the headers
    pc,             \* where a process is in kmalloc or kfree
    chunk,          \* its local of that name
    realsize,       \* its local of that name
    blocks,         \* blocks[q]: the blocks q holds, <<address, size>>
    overtaken       \* history: has kmalloc run beside another call?

raceVars == <<size, used, pc, chunk, realsize, blocks, overtaken>>

RaceInit ==
    /\ size = [a \in Addr |-> IF a = 0 THEN HeapSize ELSE 0]
    /\ used = [a \in Addr |-> FALSE]
    /\ pc = [q \in Procs |-> "out"]
    /\ chunk = [q \in Procs |-> 0]
    /\ realsize = [q \in Procs |-> 0]
    /\ blocks = [q \in Procs |-> {}]
    /\ overtaken = FALSE

(* Whoever is in a call has to be interrupted for another to run.          *)
Runs(q) == \A r \in Procs \ {q} : pc[r] = "out" \/ r \in Enabled

At(q, label) == pc[q] = label /\ Runs(q)

Goto(q, label) == pc' = [pc EXCEPT ![q] = label]

KmallocCall(q) ==
    /\ At(q, "out")
    /\ Cardinality(blocks[q]) < MaxHeld
    /\ \E n \in Requests : realsize' = [realsize EXCEPT ![q] = n]
    /\ chunk' = [chunk EXCEPT ![q] = 0]
    /\ Goto(q, "walk")
    /\ UNCHANGED <<size, used, blocks>>

(* One turn of the loop: this chunk, the next one, or none is left.        *)
KmallocWalk(q) ==
    /\ At(q, "walk")
    /\ IF ~used[chunk[q]] /\ size[chunk[q]] >= realsize[q]
         THEN Goto(q, "take") /\ UNCHANGED chunk
         ELSE IF size[chunk[q]] > 0 /\ chunk[q] + size[chunk[q]] \in Addr
           THEN /\ chunk' = [chunk EXCEPT ![q] = @ + size[@]]
                /\ UNCHANGED pc
           ELSE Goto(q, "out") /\ UNCHANGED chunk
    /\ UNCHANGED <<size, used, realsize, blocks>>

KmallocCut_RestTooBig(q) ==
    LET c == chunk[q]
        n == realsize[q]
    IN  /\ At(q, "take")
        /\ IF size[c] > n
             THEN /\ size' = [size EXCEPT ![c + n] = size[c], ![c] = n]
                  /\ used' = [used EXCEPT ![c + n] = FALSE]
             ELSE UNCHANGED <<size, used>>
        /\ Goto(q, "mark")
        /\ UNCHANGED <<chunk, realsize, blocks>>

(* The rest becomes a free chunk of its own.                               *)
KmallocCut(q) ==
    LET c == chunk[q]
        n == realsize[q]
    IN  /\ At(q, "take")
        /\ IF size[c] > n
             THEN /\ size' = [size EXCEPT ![c + n] = size[c] - n, ![c] = n]
                  /\ used' = [used EXCEPT ![c + n] = FALSE]
             ELSE UNCHANGED <<size, used>>
        /\ Goto(q, "mark")
        /\ UNCHANGED <<chunk, realsize, blocks>>

KmallocMark(q) ==
    /\ At(q, "mark")
    /\ used' = [used EXCEPT ![chunk[q]] = TRUE]
    /\ blocks' = [blocks EXCEPT ![q] = @ \cup {<<chunk[q], realsize[q]>>}]
    /\ Goto(q, "out")
    /\ UNCHANGED <<size, chunk, realsize>>

KfreeCall(q) ==
    /\ At(q, "out")
    /\ \E b \in blocks[q] :
         /\ used' = [used EXCEPT ![b[1]] = FALSE]
         /\ chunk' = [chunk EXCEPT ![q] = b[1]]
         /\ blocks' = [blocks EXCEPT ![q] = @ \ {b}]
    /\ Goto(q, "merge")
    /\ UNCHANGED <<size, realsize>>

(* "while (other < kern_heap && other->used == 0)"                         *)
KfreeTest(q) ==
    LET other == chunk[q] + size[chunk[q]]
    IN  /\ At(q, "merge")
        /\ Goto(q, IF other \in Addr /\ ~used[other] THEN "add" ELSE "out")
        /\ UNCHANGED <<size, used, chunk, realsize, blocks>>

(* "chunk->size += other->size".  The chunk may have changed since the     *)
(* test: what it ends at may lie beyond the heap, where nothing is stored. *)
KfreeAdd(q) ==
    LET c == chunk[q]
        other == c + size[c]
    IN  /\ At(q, "add")
        /\ size' = [size EXCEPT ![c] = @ + IF other \in Addr THEN size[other] ELSE 0]
        /\ Goto(q, "merge")
        /\ UNCHANGED <<used, chunk, realsize, blocks>>

InKmalloc == {"walk", "take", "mark"}

(* A process is in kmalloc while another is in a call.                     *)
Crossed == \E q, r \in Procs : q # r /\ pc[q] \in InKmalloc /\ pc[r] # "out"

RaceNext ==
    /\ \E q \in Procs :
        \/ KmallocCall(q) \/ KmallocWalk(q) \/ KmallocCut(q) \/ KmallocMark(q)
        \/ KfreeCall(q) \/ KfreeTest(q) \/ KfreeAdd(q)
    /\ overtaken' = (overtaken \/ Crossed')

RaceSpec == RaceInit /\ [][RaceNext]_raceVars

(* A bound: what comes after kmalloc has run beside another call.          *)
NotOvertaken == ~overtaken

-----------------------------------------------------------------------------

(* "On recherche un bloc libre de 'size' octets" (alloc.cc, line 52): a    *)
(* block that kmalloc returns overlaps no block that anybody holds.  With  *)
(* one process that frees with interrupts enabled it does not hold.        *)
BlocksDisjoint ==
    \A q, r \in Procs : \A b \in blocks[q], d \in blocks[r] :
        <<q, b>> # <<r, d>> => b[1] + b[2] <= d[1] \/ d[1] + d[2] <= b[1]

(* The headers a walk meets, from chunk to chunk.                          *)
Met ==
    LET at[i \in 0 .. HeapSize] ==
            IF i = 0 THEN 0
            ELSE LET a == at[i - 1]
                 IN  IF a \in Addr THEN a + size[a] ELSE a
    IN  {at[i] : i \in 0 .. HeapSize}

(* As long as kmalloc has had the heap to itself, calls of kfree may       *)
(* interrupt each other wherever they like, between the test of the chunk  *)
(* behind and the merge too: the chunks cover the heap to its very end,    *)
(* and those in use are the blocks handed out, one for one.  A walk always *)
(* finds the next header, whatever is left in memory of the headers that   *)
(* were merged away, and of those that another call still adds to.         *)
WalkIsSound ==
    ~overtaken =>
        /\ HeapSize \in Met
        /\ \A q \in Procs : \A b \in blocks[q] : b[1] \in Met /\ used[b[1]]
        /\ Cardinality({a \in Met \cap Addr : used[a]}) =
             Cardinality(UNION {blocks[q] : q \in Procs})
=============================================================================

----------------------------- MODULE KernelHeap -----------------------------
(***************************************************************************)
(* kmalloc, kfree and ksbrk (src/kernel/arch/x86/alloc.cc): a first-fit    *)
(* allocator over chunks that tile the address range from KERN_HEAP to     *)
(* kern_heap, each starting with a header of its size and a used bit.      *)
(*                                                                         *)
(* chunks is the set of headers a walk by size from KERN_HEAP meets.       *)
(* Calls are atomic here: this module is the allocator as its callers see  *)
(* it with interrupts disabled; HeapRace takes them apart.                 *)
(* kmalloc_used is left out: no code reads it.                             *)
(***************************************************************************)
EXTENDS Integers, FiniteSets

CONSTANTS
    HEADER,             \* sizeof(struct kmalloc_header)
    KMALLOC_MINSIZE,    \* smallest chunk
    PAGESIZE,
    KERN_HEAP,
    KERN_HEAP_LIM,
    Sizes               \* the sizes that callers ask for

ASSUME HeapAssumption ==
    /\ HEADER \in Nat \ {0} /\ KMALLOC_MINSIZE \in Nat /\ PAGESIZE \in Nat
    /\ HEADER < KMALLOC_MINSIZE /\ KMALLOC_MINSIZE < PAGESIZE
    /\ KERN_HEAP \in Nat \ {0} /\ KERN_HEAP_LIM \in Nat
    /\ KERN_HEAP + PAGESIZE <= KERN_HEAP_LIM
    /\ Sizes \subseteq Nat \ {0}

Chunk == [start : Nat, size : Nat, used : BOOLEAN]
Block == [ptr : Nat, size : Nat]

VARIABLES
    chunks,     \* the chunks of the heap
    kern_heap,  \* first address beyond the heap
    top,        \* end of the last chunk: kern_heap, unless a ksbrk failed
                \* after it had moved kern_heap and left pages with no header
    held,       \* the blocks that callers hold: what kmalloc returned and
                \* kfree has not taken back
    fate        \* "running", "halted" (hlt with interrupts disabled), "loop"
                \* (kfree merges a chunk of size 0 for ever) or "garbage" (a
                \* header that nobody wrote was believed)

vars == <<chunks, kern_heap, top, held, fate>>

RealSize(size) ==
    IF HEADER + size < KMALLOC_MINSIZE THEN KMALLOC_MINSIZE ELSE HEADER + size

EndOf(c) == c.start + c.size

(* What "while (chunk->used || chunk->size < realsize)" skips.             *)
Fits_Used(c, real) == c.size >= real
Fits(c, real) == ~c.used /\ c.size >= real

FirstFit(c, real) ==
    /\ c \in chunks
    /\ Fits(c, real)
    /\ \A d \in chunks : Fits(d, real) => c.start <= d.start

NoFit(real) == \A c \in chunks : ~Fits(c, real)

(* The free chunk c of cs handed out: whole, or cut when the rest can hold *)
(* a chunk of its own.                                                     *)
Place_RestUsed(cs, c, real) ==
    (cs \ {c}) \cup
    {[start |-> c.start, size |-> real, used |-> TRUE],
     [start |-> c.start + real, size |-> c.size - real, used |-> TRUE]}

Place_RestUncut(cs, c, real) ==
    (cs \ {c}) \cup
    {[start |-> c.start, size |-> real, used |-> TRUE],
     [start |-> c.start + real, size |-> c.size, used |-> FALSE]}

Place(cs, c, real) ==
    LET rest == c.size - real
    IN  (cs \ {c}) \cup
        (IF rest < KMALLOC_MINSIZE
           THEN {[start |-> c.start, size |-> c.size, used |-> TRUE]}
           ELSE {[start |-> c.start, size |-> real, used |-> TRUE],
                 [start |-> c.start + real, size |-> rest, used |-> FALSE]})

Hand(c, size) == held \cup {[ptr |-> c.start + HEADER, size |-> size]}

-----------------------------------------------------------------------------

(* memory_init: ksbrk(1).                                                  *)
Init ==
    /\ chunks = {[start |-> KERN_HEAP, size |-> PAGESIZE, used |-> FALSE]}
    /\ kern_heap = KERN_HEAP + PAGESIZE
    /\ top = kern_heap
    /\ held = {}
    /\ fate = "running"

KmallocFit(size) ==
    /\ \E c \in chunks :
         /\ FirstFit(c, RealSize(size))
         /\ chunks' = Place(chunks, c, RealSize(size))
         /\ held' = Hand(c, size)
    /\ UNCHANGED <<kern_heap, top, fate>>

(* ksbrk(n): one chunk of n pages at the old end of the heap.              *)
NewChunk(n) == [start |-> kern_heap, size |-> n * PAGESIZE, used |-> FALSE]
Pages(real) == (real \div PAGESIZE) + 1

(* The first test of ksbrk.                                                *)
HeapRoom(n) == kern_heap + n * PAGESIZE <= KERN_HEAP_LIM

KmallocGrow(size) ==
    LET n == Pages(RealSize(size))
    IN  /\ NoFit(RealSize(size))
        /\ top = kern_heap
        /\ HeapRoom(n)
        /\ kern_heap' = kern_heap + n * PAGESIZE
        /\ top' = kern_heap'
        /\ chunks' = Place(chunks \cup {NewChunk(n)}, NewChunk(n), RealSize(size))
        /\ held' = Hand(NewChunk(n), size)
        /\ UNCHANGED fate

(* "PANIC: kmalloc(): no memory left for kernel !", hlt, return 0: the end *)
(* when interrupts are disabled, else (Buffer::get in Process::read) the   *)
(* caller goes on with a null pointer.                                     *)
HaltOrReturn == fate' \in {"halted", "running"}

(* No page frame for page i + 1 of n: the pages already mapped stay, with  *)
(* no header in front.                                                     *)
KmallocNoFrame(size) ==
    /\ NoFit(RealSize(size))
    /\ top = kern_heap
    /\ HeapRoom(Pages(RealSize(size)))
    /\ \E i \in 0 .. Pages(RealSize(size)) - 1 :
         kern_heap' = kern_heap + i * PAGESIZE
    /\ HaltOrReturn
    /\ UNCHANGED <<chunks, top, held>>

KmallocNoAddress(size) ==
    /\ NoFit(RealSize(size))
    /\ top = kern_heap
    /\ ~HeapRoom(Pages(RealSize(size)))
    /\ HaltOrReturn
    /\ UNCHANGED <<chunks, kern_heap, top, held>>

(* The walk comes to pages without a header: a size of 0 there is reported *)
(* as a corrupted chunk, anything else is believed.                        *)
KmallocNoHeader(size) ==
    /\ NoFit(RealSize(size))
    /\ top < kern_heap
    /\ fate' \in {"halted", "running", "garbage"}
    /\ UNCHANGED <<chunks, kern_heap, top, held>>

(* Where the merge with the free chunks that follow c stops.               *)
IsNextUsed(e, c) ==
    \/ /\ \E d \in chunks : d.used /\ d.start = e
       /\ e > c.start
       /\ \A d \in chunks : d.used /\ d.start > c.start => e <= d.start
    \/ /\ e = top
       /\ \A d \in chunks : d.used => d.start <= c.start

Kfree(b) ==
    /\ b \in held
    /\ held' = held \ {b}
    /\ \E c \in chunks, e \in KERN_HEAP .. top :
         /\ c.start = b.ptr - HEADER
         /\ IsNextUsed(e, c)
         /\ chunks' = {d \in chunks : d.start < c.start \/ d.start >= e}
                 \cup {[start |-> c.start, size |-> e - c.start, used |-> FALSE]}
         /\ IF e = top /\ top < kern_heap
              THEN fate' \in {"running", "loop", "garbage"}
              ELSE UNCHANGED fate
    /\ UNCHANGED <<kern_heap, top>>

Next ==
    /\ fate = "running"
    /\ \/ \E size \in Sizes :
            \/ KmallocFit(size)
            \/ KmallocGrow(size)
            \/ KmallocNoFrame(size)
            \/ KmallocNoAddress(size)
            \/ KmallocNoHeader(size)
       \/ \E b \in held : Kfree(b)

Spec == Init /\ [][Next]_vars

-----------------------------------------------------------------------------

TypeOK ==
    /\ chunks \subseteq Chunk
    /\ kern_heap \in KERN_HEAP .. KERN_HEAP_LIM
    /\ top \in KERN_HEAP .. kern_heap
    /\ held \subseteq Block
    /\ fate \in {"running", "halted", "loop", "garbage"}

(* The chunks tile the heap: the walk by size from KERN_HEAP goes from     *)
(* header to header and ends on kern_heap, so kmalloc never meets its      *)
(* "null size" or "heap limit" panics while every ksbrk succeeds.          *)
Tiling ==
    /\ \E c \in chunks : c.start = KERN_HEAP
    /\ \A c \in chunks :
         /\ c.size > 0
         /\ EndOf(c) = top \/ \E d \in chunks : d.start = EndOf(c)
    /\ \A c, d \in chunks : c # d => EndOf(c) <= d.start \/ EndOf(d) <= c.start

(* Every block in a caller's hands lies within the payload of a used chunk *)
(* of its own: split, merge and growth never cut into one.                 *)
HeldInChunk ==
    \A b \in held : \E c \in chunks :
        c.used /\ c.start + HEADER = b.ptr /\ b.ptr + b.size <= EndOf(c)

(* No two callers hold the same byte.                                      *)
HeldDisjoint ==
    \A a, b \in held : a # b => a.ptr + a.size <= b.ptr \/ b.ptr + b.size <= a.ptr

(* No chunk stays used once nobody holds it: kfree gives back what kmalloc *)
(* took, whether or not the chunk had been cut.                            *)
UsedIsHeld ==
    \A c \in chunks : c.used => \E b \in held : b.ptr = c.start + HEADER

(* The free list arithmetic of kmalloc, kfree and ksbrk implements the     *)
(* allocator: every block kmalloc returns is apart from all the blocks     *)
(* that are out, and nothing but kfree takes one back.                     *)
Promise == INSTANCE Allocator
    WITH Addresses <- KERN_HEAP .. KERN_HEAP_LIM

IsAllocator == Promise!Spec
=============================================================================

------------------------------ MODULE UserHeap ------------------------------
(***************************************************************************)
(* malloc, free and realloc of a program                                   *)
(* (src/sdk/src/libc/src/stdlib/malloc.c) over the kernel's sbrk, which    *)
(* never fails (src/kernel/core/api_posix.cc).  As the kernel's allocator  *)
(* it is first-fit over chunks, but it grows by one chunk at a time and    *)
(* only free merges.                                                       *)
(***************************************************************************)
EXTENDS Integers, FiniteSets

CONSTANTS
    HEADER,     \* sizeof(struct malloc_header)
    MINSIZE,    \* MALLOC_MINSIZE
    USER_HEAP,  \* where the heap of a process begins
    MaxBreak,   \* bound on the end of the heap
    Requests    \* the sizes that the program asks for

ASSUME UserHeapAssumption ==
    /\ HEADER \in Nat \ {0} /\ MINSIZE \in Nat /\ HEADER < MINSIZE
    /\ USER_HEAP \in Nat \ {0} /\ MaxBreak \in Nat
    /\ Requests \subseteq Nat \ {0}

VARIABLES
    heap,   \* chunks, by the headers that malloc wrote and free left; end,
            \* where malloc takes the end of the heap to be, 0 before the
            \* first call; brk, where the next sbrk begins; lost, whether a
            \* walk has come to memory that is not a header
    held    \* the blocks in the hands of the program

heapVars == <<heap, held>>

RealSize(size) == ((HEADER + size + MINSIZE - 1) \div MINSIZE) * MINSIZE
EndOf(c) == c.start + c.size
LeastOf(S) == CHOOSE a \in S : \A b \in S : a <= b

(* No gap between the chunks from an address to another.                   *)
Unbroken(cs, from, to) ==
    \A a \in from .. to - 1 : \E d \in cs : d.start <= a /\ a < EndOf(d)

(* The first chunk that fits, of those the walk by size meets before a     *)
(* gap.                                                                    *)
Fits(cs, real) ==
    {c \in cs : ~c.used /\ c.size >= real /\ Unbroken(cs, USER_HEAP, c.start)}
FirstFit(cs, real) ==
    CHOOSE c \in Fits(cs, real) : \A d \in Fits(cs, real) : c.start <= d.start

(* A chunk handed out: whole, or cut when the rest can be a chunk.         *)
Place_RestUncut(cs, c, real) ==
    IF c.size - real < MINSIZE THEN (cs \ {c}) \cup {[c EXCEPT !.used = TRUE]}
    ELSE (cs \ {c}) \cup {[c EXCEPT !.size = real, !.used = TRUE],
                          [start |-> c.start + real, size |-> c.size, used |-> FALSE]}

Place(cs, c, real) ==
    IF c.size - real < MINSIZE THEN (cs \ {c}) \cup {[c EXCEPT !.used = TRUE]}
    ELSE (cs \ {c}) \cup {[c EXCEPT !.size = real, !.used = TRUE],
                          [start |-> c.start + real, size |-> c.size - real, used |-> FALSE]}

(* malloc: the heap after it, and where the block begins.                  *)
malloc(h, size) ==
    LET real == RealSize(size)
        c == FirstFit(h.chunks, real)
    IN  IF Fits(h.chunks, real) # {}
        THEN [heap |-> [h EXCEPT !.chunks = Place(@, c, real)], ptr |-> c.start + HEADER]
        ELSE IF h.end = 0 \/ Unbroken(h.chunks, USER_HEAP, h.end)
        THEN [heap |-> [h EXCEPT !.chunks = @ \cup {[start |-> h.brk, size |-> real,
                                                     used |-> TRUE]},
                                 !.brk = @ + real, !.end = h.brk + real],
              ptr |-> h.brk + HEADER]
        ELSE [heap |-> [h EXCEPT !.lost = TRUE], ptr |-> 0]

ChunkAt(h, ptr) == CHOOSE c \in h.chunks : c.start = ptr - HEADER

(* free: the chunk grows over those that follow it, up to one that is used *)
(* or the end of the heap.                                                 *)
free(h, ptr) ==
    LET c == ChunkAt(h, ptr)
        e == LeastOf({d.start : d \in {d \in h.chunks : d.used /\ d.start > c.start}}
                         \cup {h.end})
    IN  IF Unbroken(h.chunks, EndOf(c), e)
        THEN [h EXCEPT !.chunks = {d \in @ : d.start < c.start \/ d.start >= e} \cup
                                  {[start |-> c.start, size |-> e - c.start, used |-> FALSE]}]
        ELSE [h EXCEPT !.lost = TRUE]

HeapInit ==
    /\ heap = [chunks |-> {}, end |-> 0, brk |-> USER_HEAP, lost |-> FALSE]
    /\ held = {}

Malloc(size) ==
    LET m == malloc(heap, size)
    IN  /\ m.heap.brk <= MaxBreak
        /\ heap' = m.heap
        /\ held' = IF m.heap.lost THEN held ELSE held \cup {[ptr |-> m.ptr, size |-> size]}

Free(b) ==
    /\ b \in held
    /\ heap' = free(heap, b.ptr)
    /\ held' = held \ {b}

(* realloc asks for nsize more than the whole chunk has, copies that, and  *)
(* frees the chunk.                                                        *)
Realloc(b, nsize) ==
    LET size == ChunkAt(heap, b.ptr).size + nsize
        m == malloc(heap, size)
    IN  /\ b \in held
        /\ m.heap.brk <= MaxBreak
        /\ heap' = IF m.heap.lost THEN m.heap ELSE free(m.heap, b.ptr)
        /\ held' = (held \ {b}) \cup
                   (IF m.heap.lost THEN {} ELSE {[ptr |-> m.ptr, size |-> size]})

(* The program calls sbrk itself.                                          *)
Sbrk ==
    /\ heap.end # 0 /\ heap.brk = heap.end
    /\ heap.brk + MINSIZE <= MaxBreak
    /\ heap' = [heap EXCEPT !.brk = @ + MINSIZE]
    /\ UNCHANGED held

HeapNext ==
    /\ ~heap.lost
    /\ \/ \E size \in Requests : Malloc(size) \/ \E b \in held : Realloc(b, size)
       \/ \E b \in held : Free(b)
       \/ Sbrk

HeapSpec == HeapInit /\ [][HeapNext]_heapVars

(* No two blocks of the program overlap, and none overlaps a header: after *)
(* cuts, merges, moves by realloc, growth of the heap and gaps that the    *)
(* program's own sbrk leaves in it, as long as no walk has left the chunks.*)
BlocksApart ==
    ~heap.lost => \A b \in held :
        /\ \E c \in heap.chunks :
             c.used /\ c.start = b.ptr - HEADER /\ b.ptr + b.size <= EndOf(c)
        /\ \A c \in heap.chunks :
             c.start + HEADER <= b.ptr \/ b.ptr + b.size <= c.start
        /\ \A a \in held \ {b} : a.ptr + a.size <= b.ptr \/ b.ptr + b.size <= a.ptr
=============================================================================

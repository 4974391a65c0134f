---------------------------- MODULE KernelPages ----------------------------
(***************************************************************************)
(* The physical page frames (mem_bitmap), the kernel's page heap           *)
(* (kern_free_vm: the virtual pages page_new hands out) and the page table *)
(* entries that tie the two together: src/kernel/arch/x86/vmm.cc, vmm.h    *)
(* and the ksbrk of alloc.cc.                                              *)
(*                                                                         *)
(* Addresses are page numbers: every address these functions store is a    *)
(* multiple of PAGESIZE.  One function pte stands for the page table       *)
(* entries of all the pages that can own a frame: the page heap, the       *)
(* kmalloc heap and (one address space's) user pages.  An absent entry is  *)
(* 0, which is also what get_p_addr returns for it; frame 0 is reserved at *)
(* boot and is never mapped by these functions.                            *)
(***************************************************************************)
EXTENDS Integers, Sequences, SequencesExt

CONSTANTS
    RAM_MAXPAGE,    \* number of bits of mem_bitmap
    PG_LIMIT,       \* pages of RAM reported by the boot loader
    PAGESIZE,       \* bytes of a page
    KERN_PAGES,     \* frames reserved for the kernel image
    KERN_PG_HEAP,   \* first page of the page heap
    KERN_HEAP,      \* first page of the kmalloc heap, limit of the page heap
    USER_OFFSET,    \* first user page, limit of the kmalloc heap
    USER_LIM,       \* limit of the user pages
    HeadWords       \* what the word two words before kern_free_vm may hold

RamPages == (PG_LIMIT \div 8) * 8

ASSUME FramesAssumption ==
    /\ RAM_MAXPAGE \in Nat /\ PG_LIMIT \in Nat /\ KERN_PAGES \in Nat
    /\ 0 < KERN_PAGES /\ KERN_PAGES < RamPages
    /\ 2 * KERN_PAGES < RAM_MAXPAGE
    /\ RamPages < RAM_MAXPAGE

(* pd0_add_page marks the bit numbered by the address of the frame instead *)
(* of its page number (vmm.cc, line 302); with the machine's constants the *)
(* bit is beyond the bitmap for every frame that is ever mapped, so the    *)
(* mark leaves mem_bitmap alone.                                           *)
ASSUME MarksAssumption ==
    PAGESIZE \in Nat /\ KERN_PAGES * PAGESIZE >= RAM_MAXPAGE

ASSUME PagesAssumption ==
    /\ KERN_PG_HEAP \in Nat /\ KERN_HEAP \in Nat
    /\ USER_OFFSET \in Nat /\ USER_LIM \in Nat
    /\ 0 < KERN_PG_HEAP /\ KERN_PG_HEAP < KERN_HEAP
    /\ KERN_HEAP < USER_OFFSET /\ USER_OFFSET < USER_LIM

(* The word is some other variable of the kernel image or padding, not an  *)
(* address of the page heap.                                               *)
ASSUME HeadWordsAssumption ==
    HeadWords \subseteq Nat \ (KERN_PG_HEAP .. KERN_HEAP)

Frames    == 0 .. RAM_MAXPAGE - 1
TopFrame  == RAM_MAXPAGE - 1
PageHeap  == KERN_PG_HEAP .. KERN_HEAP - 1
UserPages == USER_OFFSET .. USER_LIM - 1
VPages    == KERN_PG_HEAP .. USER_LIM - 1
Area      == [vm_start : Nat, vm_end : Nat]

VARIABLES
    mem_bitmap,     \* the frames marked used
    pte,            \* pte[v] = frame of page v, 0 when not present
    kern_free_vm,   \* the list of free areas of the page heap
    kern_heap,      \* first page beyond the kmalloc heap
    panics          \* the "PANIC ... System halted" messages printed so far

vars == <<mem_bitmap, pte, kern_free_vm, kern_heap, panics>>

Panic == {"no_frame", "no_area", "no_kmalloc", "corrupted"}

(* Every caller runs with interrupts disabled, so the hlt that follows the *)
(* messages of kmalloc and page_free is the end.  With no area left        *)
(* page_new writes through a pointer to nowhere known: the model ends      *)
(* there too.  Only "no_frame" is printed by a system that goes on.        *)
Running == panics \subseteq {"no_frame"}

(* (int) p_addr < 0: how the callers test for failure.  It also holds of   *)
(* the frames in the upper half of the 4 GB.                               *)
Negative(f) == 2 * f >= RAM_MAXPAGE

(* The first clear bit; or (char * ) -1, whose page number is the top one. *)
page_frame_aquire(bitmap, f) ==
    \/ f \in Frames \ bitmap /\ \A g \in Frames \ bitmap : f <= g
    \/ Frames \subseteq bitmap /\ f = TopFrame

-----------------------------------------------------------------------------

Init ==
    /\ mem_bitmap = (0 .. KERN_PAGES) \cup (RamPages .. RAM_MAXPAGE - 1)
    /\ pte = [v \in VPages |-> IF v = KERN_HEAP THEN KERN_PAGES ELSE 0]
    /\ kern_free_vm = <<[vm_start |-> KERN_PG_HEAP, vm_end |-> KERN_HEAP]>>
    /\ kern_heap = KERN_HEAP + 1
    /\ panics = {}

(* The test of ksbrk that refuses to grow the heap into user space.        *)
HeapRoom == kern_heap < USER_OFFSET

(* ksbrk for one page.  A larger request repeats this step; it is refused  *)
(* as a whole beyond the limit, and stopped half way by a missing frame.   *)
ksbrk(bitmap, map, said) ==
    \/ /\ HeapRoom
       /\ \E f \in Frames :
            /\ page_frame_aquire(bitmap, f)
            /\ mem_bitmap' = bitmap \cup {f}
            /\ IF Negative(f)
                 THEN /\ panics' = panics \cup said \cup {"no_kmalloc"}
                      /\ pte' = map
                      /\ UNCHANGED kern_heap
                 ELSE /\ panics' = panics \cup said
                      /\ pte' = [map EXCEPT ![kern_heap] = f]
                      /\ kern_heap' = kern_heap + 1
    \/ /\ ~HeapRoom
       /\ mem_bitmap' = bitmap
       /\ pte' = map
       /\ panics' = panics \cup said \cup {"no_kmalloc"}
       /\ UNCHANGED kern_heap

(* kmalloc of a small structure: a free chunk is found, or the heap grows. *)
kmalloc(bitmap, map, said) ==
    \/ /\ mem_bitmap' = bitmap
       /\ pte' = map
       /\ panics' = panics \cup said
       /\ UNCHANGED kern_heap
    \/ ksbrk(bitmap, map, said)

(* The first page of the first area, and what is left of the list.         *)
TakeFirst_NoAdvance(areas) == areas
TakeFirst(areas) ==
    LET area == [Head(areas) EXCEPT !.vm_start = @ + 1]
    IN  IF area.vm_start = area.vm_end THEN Tail(areas)
                                       ELSE <<area>> \o Tail(areas)

PageNew ==
    /\ Running
    /\ kern_free_vm # <<>>
    /\ kern_free_vm' = TakeFirst(kern_free_vm)
    /\ \E f \in Frames :
         /\ page_frame_aquire(mem_bitmap, f)
         /\ kmalloc(mem_bitmap \cup {f},
                    [pte EXCEPT ![Head(kern_free_vm).vm_start] = f],
                    IF Negative(f) THEN {"no_frame"} ELSE {})

(* With the list empty the code takes the list head itself for an area.    *)
PageNewNoArea ==
    /\ Running
    /\ kern_free_vm = <<>>
    /\ \E f \in Frames :
         /\ page_frame_aquire(mem_bitmap, f)
         /\ mem_bitmap' = mem_bitmap \cup {f}
         /\ panics' = panics \cup {"no_area"}
                             \cup (IF Negative(f) THEN {"no_frame"} ELSE {})
    /\ UNCHANGED <<pte, kern_free_vm, kern_heap>>

(* n is the place of next_area, the first area that starts above v; past   *)
(* the end of the list next_area is the list head, whose vm_start is a     *)
(* word the program never wrote as one.                                    *)
IsNext(n, v) ==
    /\ n \in 1 .. Len(kern_free_vm) + 1
    /\ \A i \in 1 .. n - 1 : kern_free_vm[i].vm_start <= v
    /\ n <= Len(kern_free_vm) => kern_free_vm[n].vm_start > v

NextStarts(n) ==
    IF n <= Len(kern_free_vm) THEN {kern_free_vm[n].vm_start} ELSE HeadWords

EndsAt(n, v) == n >= 1 /\ kern_free_vm[n].vm_end = v

Released(v) == mem_bitmap \ {pte[v]}
Unmapped_Stays(v) == pte
Unmapped(v) == [pte EXCEPT ![v] = 0]

NoKmalloc(v) ==
    /\ mem_bitmap' = Released(v)
    /\ pte' = Unmapped(v)
    /\ UNCHANGED kern_heap

(* prev_area ends where the page begins: it grows, and may meet the next.  *)
FreeGrowPrev_NoMerge(v, n, start) ==
    /\ EndsAt(n - 1, v)
    /\ kern_free_vm' = [kern_free_vm EXCEPT ![n - 1].vm_end = v + 1]
    /\ NoKmalloc(v)
    /\ UNCHANGED panics

FreeGrowPrev(v, n, start) ==
    /\ EndsAt(n - 1, v)
    /\ LET grown(e) == [kern_free_vm EXCEPT ![n - 1].vm_end = e]
       IN  kern_free_vm' = IF start = v + 1
                             THEN RemoveAt(grown(kern_free_vm[n].vm_end), n)
                             ELSE grown(v + 1)
    /\ NoKmalloc(v)
    /\ UNCHANGED panics

FreeGrowNext(v, n, start) ==
    /\ ~EndsAt(n - 1, v)
    /\ start = v + 1
    /\ kern_free_vm' = [kern_free_vm EXCEPT ![n].vm_start = v]
    /\ NoKmalloc(v)
    /\ UNCHANGED panics

FreeInsert(v, n, start) ==
    /\ ~EndsAt(n - 1, v)
    /\ start > v + 1
    /\ kern_free_vm' =
         InsertAt(kern_free_vm, n, [vm_start |-> v, vm_end |-> v + 1])
    /\ kmalloc(Released(v), Unmapped(v), {})

FreeCorrupted(v, n, start) ==
    /\ ~EndsAt(n - 1, v)
    /\ start < v + 1
    /\ panics' = panics \cup {"corrupted"}
    /\ NoKmalloc(v)
    /\ UNCHANGED kern_free_vm

PageFree(v) ==
    /\ Running
    /\ pte[v] # 0
    /\ \E n \in 1 .. Len(kern_free_vm) + 1 :
         /\ IsNext(n, v)
         /\ \E start \in NextStarts(n) :
              \/ FreeGrowPrev(v, n, start)
              \/ FreeGrowNext(v, n, start)
              \/ FreeInsert(v, n, start)
              \/ FreeCorrupted(v, n, start)

(* A page fault takes a frame for a user page and does not look whether    *)
(* it got one; the end of the process gives it back.                       *)
UserMap(u) ==
    /\ Running
    /\ pte[u] = 0
    /\ \E f \in Frames :
         /\ page_frame_aquire(mem_bitmap, f)
         /\ mem_bitmap' = mem_bitmap \cup {f}
         /\ pte' = [pte EXCEPT ![u] = f]
    /\ UNCHANGED <<kern_free_vm, kern_heap, panics>>

UserRelease(u) ==
    /\ Running
    /\ pte[u] # 0
    /\ mem_bitmap' = mem_bitmap \ {pte[u]}
    /\ pte' = [pte EXCEPT ![u] = 0]
    /\ UNCHANGED <<kern_free_vm, kern_heap, panics>>

(* kmalloc called by the rest of the kernel.                               *)
Kmalloc ==
    /\ Running
    /\ kmalloc(mem_bitmap, pte, {})
    /\ UNCHANGED kern_free_vm

Next ==
    \/ PageNew
    \/ PageNewNoArea
    \/ \E v \in PageHeap : PageFree(v)
    \/ \E u \in UserPages : UserMap(u) \/ UserRelease(u)
    \/ Kmalloc

Spec == Init /\ [][Next]_vars

-----------------------------------------------------------------------------

TypeOK ==
    /\ mem_bitmap \subseteq Frames
    /\ pte \in [VPages -> Frames]
    /\ kern_free_vm \in Seq(Area)
    /\ kern_heap \in KERN_HEAP .. USER_OFFSET
    /\ panics \subseteq Panic

(* No frame of RAM backs two pages at once: page_new, ksbrk and the page   *)
(* fault never share one, even once frames have run out and page_new goes  *)
(* on with the address -1 (the top frame, which is not RAM).               *)
FrameExclusive ==
    \A v, w \in VPages :
        pte[v] = pte[w] /\ pte[v] \notin {0, TopFrame} => v = w

(* A frame in use is marked in mem_bitmap: page_free never gives back the  *)
(* frame of another page.                                                  *)
MappedFrameUsed ==
    \A v \in VPages : pte[v] \notin {0, TopFrame} => pte[v] \in mem_bitmap

(* The free areas are what page_free's search relies on: in ascending      *)
(* order, not empty, inside the page heap, with a page in use between any  *)
(* two (adjacent ones have been merged).                                   *)
FreeListOrdered ==
    /\ \A i \in 1 .. Len(kern_free_vm) :
         /\ KERN_PG_HEAP <= kern_free_vm[i].vm_start
         /\ kern_free_vm[i].vm_start < kern_free_vm[i].vm_end
         /\ kern_free_vm[i].vm_end <= KERN_HEAP
    /\ \A i \in 1 .. Len(kern_free_vm) - 1 :
         kern_free_vm[i].vm_end < kern_free_vm[i + 1].vm_start

Listed(v) ==
    \E i \in 1 .. Len(kern_free_vm) :
        kern_free_vm[i].vm_start <= v /\ v < kern_free_vm[i].vm_end

(* The free list and the page tables agree: a page on the list has no      *)
(* entry, so page_new cannot hand out a page that is in use; and none is   *)
(* lost: a page without an entry is on the list, as long as page_free has  *)
(* not given up with its "corrupted linked list" message.                  *)
ListedIffUnmapped ==
    \A v \in PageHeap :
        /\ Listed(v) => pte[v] = 0
        /\ pte[v] = 0 /\ "corrupted" \notin panics => Listed(v)
=============================================================================

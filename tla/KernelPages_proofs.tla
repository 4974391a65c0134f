------------------------- MODULE KernelPages_proofs ------------------------
(***************************************************************************)
(* Machine-checked proofs about KernelPages, for every amount of memory    *)
(* and every layout of the address space that meets the assumptions.       *)
(***************************************************************************)
EXTENDS KernelPages, SequenceTheorems, TLAPS

(* What a step that takes frames and fills page table entries may assume:  *)
(* the two facts about frames, as a predicate of a bitmap and a map.       *)
Exclusive(map) ==
    \A v, w \in VPages : map[v] = map[w] /\ map[v] \notin {0, TopFrame} => v = w

Marked(bitmap, map) ==
    \A v \in VPages : map[v] \notin {0, TopFrame} => map[v] \in bitmap

Sound(bitmap, map) ==
    /\ bitmap \subseteq Frames
    /\ map \in [VPages -> Frames]
    /\ Exclusive(map)
    /\ Marked(bitmap, map)

FramesInv ==
    /\ Sound(mem_bitmap, pte)
    /\ kern_heap \in KERN_HEAP .. USER_OFFSET
    /\ panics \subseteq Panic

(* A frame that page_frame_aquire returns backs no page: filling any entry *)
(* with it, and marking it, keeps the map sound (page_frame_aquire).       *)
LEMMA AquireSound ==
    ASSUME NEW bitmap, NEW map, Sound(bitmap, map),
           NEW f \in Frames, page_frame_aquire(bitmap, f), NEW v
    PROVE  /\ Sound(bitmap \cup {f}, [map EXCEPT ![v] = f])
           /\ Sound(bitmap \cup {f}, map)
<1>1. f = TopFrame \/ f \notin bitmap
  BY DEF page_frame_aquire
<1>2. bitmap \cup {f} \subseteq Frames
  BY DEF Sound
<1>3. \A w \in VPages : map[w] = f => f \in {0, TopFrame}
  BY <1>1 DEF Sound, Marked
<1>4. Sound(bitmap \cup {f}, map)
  BY <1>2 DEF Sound, Marked
<1>5. [map EXCEPT ![v] = f] \in [VPages -> Frames]
  BY DEF Sound
<1>6. Exclusive([map EXCEPT ![v] = f])
  BY <1>3 DEF Sound, Exclusive
<1>7. Marked(bitmap \cup {f}, [map EXCEPT ![v] = f])
  BY DEF Sound, Marked
<1> QED
  BY <1>2, <1>4, <1>5, <1>6, <1>7 DEF Sound

(* Removing the entry of a page and clearing its frame's bit keeps the map *)
(* sound: no other page loses its mark (page_frame_release).               *)
LEMMA ReleaseSound ==
    ASSUME NEW bitmap, NEW map, Sound(bitmap, map), NEW v \in VPages
    PROVE  Sound(bitmap \ {map[v]}, [map EXCEPT ![v] = 0])
<1>1. 0 \in Frames
  BY FramesAssumption DEF Frames
<1>2. [map EXCEPT ![v] = 0] \in [VPages -> Frames]
  BY <1>1 DEF Sound
<1>3. Exclusive([map EXCEPT ![v] = 0])
  BY DEF Sound, Exclusive
<1>4. Marked(bitmap \ {map[v]}, [map EXCEPT ![v] = 0])
  BY DEF Sound, Marked, Exclusive
<1> QED
  BY <1>2, <1>3, <1>4 DEF Sound

(* kmalloc, growing the heap or not, keeps the map sound.                  *)
LEMMA KmallocSound ==
    ASSUME NEW bitmap, NEW map, Sound(bitmap, map),
           NEW said, said \subseteq Panic,
           kern_heap \in KERN_HEAP .. USER_OFFSET, panics \subseteq Panic,
           kmalloc(bitmap, map, said)
    PROVE  FramesInv'
<1>1. CASE /\ mem_bitmap' = bitmap
           /\ pte' = map
           /\ panics' \subseteq panics \cup said \cup {"no_kmalloc"}
           /\ kern_heap' = kern_heap
  BY <1>1 DEF FramesInv, Panic
<1>2. CASE /\ kern_heap < USER_OFFSET
           /\ \E f \in Frames :
                /\ page_frame_aquire(bitmap, f)
                /\ mem_bitmap' = bitmap \cup {f}
                /\ IF Negative(f)
                     THEN /\ panics' = panics \cup said \cup {"no_kmalloc"}
                          /\ pte' = map
                          /\ kern_heap' = kern_heap
                     ELSE /\ panics' = panics \cup said
                          /\ pte' = [map EXCEPT ![kern_heap] = f]
                          /\ kern_heap' = kern_heap + 1
  <2>1. PICK f \in Frames :
                /\ page_frame_aquire(bitmap, f)
                /\ mem_bitmap' = bitmap \cup {f}
                /\ IF Negative(f)
                     THEN /\ panics' = panics \cup said \cup {"no_kmalloc"}
                          /\ pte' = map
                          /\ kern_heap' = kern_heap
                     ELSE /\ panics' = panics \cup said
                          /\ pte' = [map EXCEPT ![kern_heap] = f]
                          /\ kern_heap' = kern_heap + 1
    BY <1>2
  <2>2. /\ Sound(bitmap \cup {f}, [map EXCEPT ![kern_heap] = f])
        /\ Sound(bitmap \cup {f}, map)
    BY <2>1, AquireSound
  <2>3. Sound(mem_bitmap', pte')
    BY <2>1, <2>2
  <2>4. kern_heap' \in KERN_HEAP .. USER_OFFSET
    BY <1>2, <2>1, PagesAssumption
  <2>5. panics' \subseteq Panic
    BY <2>1 DEF Panic
  <2> QED
    BY <2>3, <2>4, <2>5 DEF FramesInv
<1> QED
  BY <1>1, <1>2 DEF kmalloc, ksbrk, HeapRoom

LEMMA InitFrames == Init => FramesInv
<1> SUFFICES ASSUME Init PROVE FramesInv
  OBVIOUS
<1>1. mem_bitmap \subseteq Frames /\ KERN_PAGES \in Frames /\ 0 \in Frames
  BY FramesAssumption DEF Init, Frames, RamPages
<1>2. pte \in [VPages -> Frames]
  BY <1>1 DEF Init
<1>3. Exclusive(pte) /\ Marked(mem_bitmap, pte)
  BY FramesAssumption DEF Init, Exclusive, Marked
<1>4. kern_heap \in KERN_HEAP .. USER_OFFSET /\ panics \subseteq Panic
  BY PagesAssumption DEF Init
<1> QED
  BY <1>1, <1>2, <1>3, <1>4 DEF FramesInv, Sound

LEMMA NextFrames == FramesInv /\ [Next]_vars => FramesInv'
<1> SUFFICES ASSUME FramesInv, [Next]_vars PROVE FramesInv'
  OBVIOUS
<1>0. /\ Sound(mem_bitmap, pte)
      /\ kern_heap \in KERN_HEAP .. USER_OFFSET
      /\ panics \subseteq Panic
  BY DEF FramesInv
<1>1. CASE PageNew
  <2>1. PICK f \in Frames :
         /\ page_frame_aquire(mem_bitmap, f)
         /\ kmalloc(mem_bitmap \cup {f},
                    [pte EXCEPT ![Head(kern_free_vm).vm_start] = f],
                    IF Negative(f) THEN {"no_frame"} ELSE {})
    BY <1>1 DEF PageNew
  <2>2. Sound(mem_bitmap \cup {f},
              [pte EXCEPT ![Head(kern_free_vm).vm_start] = f])
    BY <1>0, <2>1, AquireSound
  <2>3. (IF Negative(f) THEN {"no_frame"} ELSE {}) \subseteq Panic
    BY DEF Panic
  <2> QED
    BY <1>0, <2>1, <2>2, <2>3, KmallocSound
<1>2. CASE PageNewNoArea
  <2>1. PICK f \in Frames :
         /\ page_frame_aquire(mem_bitmap, f)
         /\ mem_bitmap' = mem_bitmap \cup {f}
         /\ panics' = panics \cup {"no_area"}
                             \cup (IF Negative(f) THEN {"no_frame"} ELSE {})
    BY <1>2 DEF PageNewNoArea
  <2>2. Sound(mem_bitmap \cup {f}, pte)
    BY <1>0, <2>1, AquireSound
  <2> QED
    BY <1>0, <1>2, <2>1, <2>2 DEF PageNewNoArea, FramesInv, Panic
<1>3. ASSUME NEW v \in PageHeap, PageFree(v) PROVE FramesInv'
  <2>1. v \in VPages
    BY PagesAssumption DEF PageHeap, VPages
  <2>2. Sound(Released(v), Unmapped(v))
    BY <1>0, <2>1, ReleaseSound DEF Released, Unmapped
  <2>3. CASE NoKmalloc(v) /\ panics' \subseteq panics \cup {"corrupted"}
    BY <1>0, <2>2, <2>3 DEF NoKmalloc, FramesInv, Panic
  <2>4. CASE kmalloc(Released(v), Unmapped(v), {})
    BY <1>0, <2>2, <2>4, KmallocSound
  <2> QED
    BY <1>3, <2>3, <2>4
    DEF PageFree, FreeGrowPrev, FreeGrowNext, FreeInsert, FreeCorrupted
<1>4. ASSUME NEW u \in UserPages, UserMap(u) PROVE FramesInv'
  <2>1. PICK f \in Frames :
         /\ page_frame_aquire(mem_bitmap, f)
         /\ mem_bitmap' = mem_bitmap \cup {f}
         /\ pte' = [pte EXCEPT ![u] = f]
    BY <1>4 DEF UserMap
  <2>2. Sound(mem_bitmap \cup {f}, [pte EXCEPT ![u] = f])
    BY <1>0, <2>1, AquireSound
  <2> QED
    BY <1>0, <1>4, <2>1, <2>2 DEF UserMap, FramesInv
<1>5. ASSUME NEW u \in UserPages, UserRelease(u) PROVE FramesInv'
  <2>1. u \in VPages
    BY PagesAssumption DEF UserPages, VPages
  <2>2. Sound(mem_bitmap \ {pte[u]}, [pte EXCEPT ![u] = 0])
    BY <1>0, <2>1, ReleaseSound
  <2> QED
    BY <1>0, <1>5, <2>2 DEF UserRelease, FramesInv
<1>6. CASE Kmalloc
  BY <1>0, <1>6, KmallocSound DEF Kmalloc
<1>7. CASE UNCHANGED vars
  BY <1>0, <1>7 DEF vars, FramesInv, Sound, Exclusive, Marked
<1> QED
  BY <1>1, <1>2, <1>3, <1>4, <1>5, <1>6, <1>7 DEF Next

(* The inductive invariant: entries are frames, no two share one, and each *)
(* frame behind a page is marked (page_new, page_free, ksbrk, isr_PF_exc). *)
THEOREM FramesInvariant == Spec => []FramesInv
<1>1. Init => FramesInv
  BY InitFrames
<1>2. FramesInv /\ [Next]_vars => FramesInv'
  BY NextFrames
<1> QED
  BY <1>1, <1>2, PTL DEF Spec

(* No frame of RAM ever backs two pages, whatever the order of page_new,   *)
(* page_free, page faults, process ends and heap growth.                   *)
THEOREM FrameExclusiveAlways == Spec => []FrameExclusive
<1>1. FramesInv => FrameExclusive
  BY DEF FramesInv, Sound, Exclusive, FrameExclusive
<1> QED
  BY <1>1, FramesInvariant, PTL

(* A frame that backs a page stays marked in mem_bitmap.                   *)
THEOREM MappedFrameUsedAlways == Spec => []MappedFrameUsed
<1>1. FramesInv => MappedFrameUsed
  BY DEF FramesInv, Sound, Marked, MappedFrameUsed
<1> QED
  BY <1>1, FramesInvariant, PTL

(* An area that page_free finds to start where v ends is one of the list:  *)
(* no word behind the last one is an address of the page heap.             *)
LEMMA PlaceOfNext ==
    ASSUME NEW v \in PageHeap, NEW n \in 1 .. Len(kern_free_vm) + 1,
           NEW start \in NextStarts(n), start = v + 1
    PROVE  n \in 1 .. Len(kern_free_vm)
<1>1. v + 1 \in KERN_PG_HEAP .. KERN_HEAP
  BY PagesAssumption DEF PageHeap
<1> QED
  BY <1>1, HeadWordsAssumption DEF NextStarts

(* Taking an area's first page off the list leaves a list of areas.        *)
LEMMA TakeFirstAreas ==
    ASSUME NEW areas \in Seq(Area), areas # <<>>
    PROVE  TakeFirst(areas) \in Seq(Area)
<1> DEFINE area == [Head(areas) EXCEPT !.vm_start = @ + 1]
<1>1. Head(areas) \in Area /\ Tail(areas) \in Seq(Area)
  OBVIOUS
<1>2. area \in Area
  <2>1. \A a \in Area, e \in Nat : [a EXCEPT !.vm_start = e] \in Area
    BY DEF Area
  <2>2. Head(areas).vm_start + 1 \in Nat
    BY <1>1 DEF Area
  <2> QED
    BY <1>1, <2>1, <2>2
<1>3. <<area>> \in Seq(Area)
  BY <1>2
<1>4. <<area>> \o Tail(areas) \in Seq(Area)
  BY <1>1, <1>3, ConcatProperties
<1> QED
  BY <1>1, <1>4 DEF TakeFirst

AreasOK == kern_free_vm \in Seq(Area)

(* Every step leaves the list of free areas a list of areas (page_new,     *)
(* page_free).                                                             *)
LEMMA AreasNext ==
    ASSUME AreasOK, [Next]_vars
    PROVE  AreasOK'
<1> USE DEF AreasOK
<1>1. CASE PageNew
  BY <1>1, TakeFirstAreas DEF PageNew
<1>2. ASSUME NEW v \in PageHeap, PageFree(v)
      PROVE  kern_free_vm' \in Seq(Area)
  <2>a. PICK n \in 1 .. Len(kern_free_vm) + 1 : \E start \in NextStarts(n) :
        \/ FreeGrowPrev(v, n, start)
        \/ FreeGrowNext(v, n, start)
        \/ FreeInsert(v, n, start)
        \/ FreeCorrupted(v, n, start)
    BY <1>2 DEF PageFree
  <2>b. PICK start \in NextStarts(n) :
        \/ FreeGrowPrev(v, n, start)
        \/ FreeGrowNext(v, n, start)
        \/ FreeInsert(v, n, start)
        \/ FreeCorrupted(v, n, start)
    BY <2>a
  <2>0. v \in Nat /\ n \in Nat
    BY PagesAssumption DEF PageHeap
  <2>1. \A i \in 1 .. Len(kern_free_vm) : kern_free_vm[i] \in Area
    OBVIOUS
  <2>2. \A i \in 1 .. Len(kern_free_vm), e \in Nat :
          [kern_free_vm EXCEPT ![i].vm_end = e] \in Seq(Area)
    <3> SUFFICES ASSUME NEW i \in 1 .. Len(kern_free_vm), NEW e \in Nat
                 PROVE  [kern_free_vm EXCEPT ![i].vm_end = e] \in Seq(Area)
      OBVIOUS
    <3>1. [kern_free_vm[i] EXCEPT !.vm_end = e] \in Area
      BY <2>1 DEF Area
    <3> QED
      BY <3>1, ExceptSeq
  <2>3. CASE FreeGrowPrev(v, n, start)
    <3> DEFINE grown(e) == [kern_free_vm EXCEPT ![n - 1].vm_end = e]
    <3>1. n - 1 \in 1 .. Len(kern_free_vm)
      BY <2>3, <2>0 DEF FreeGrowPrev, EndsAt
    <3>2. CASE start = v + 1
      <4>1. n \in 1 .. Len(kern_free_vm)
        BY <3>2, PlaceOfNext
      <4>2. kern_free_vm[n].vm_end \in Nat
        BY <4>1, <2>1 DEF Area
      <4> DEFINE s == grown(kern_free_vm[n].vm_end)
      <4>3. s \in Seq(Area) /\ Len(s) = Len(kern_free_vm)
        BY <3>1, <4>2, <2>2
      <4>4. kern_free_vm' = RemoveAt(s, n)
        BY <2>3, <3>2 DEF FreeGrowPrev
      <4> HIDE DEF s
      <4>5. SubSeq(s, 1, n - 1) \in Seq(Area) /\ SubSeq(s, n + 1, Len(s)) \in Seq(Area)
        BY <4>1, <4>3, SubSeqProperties
      <4> QED
        BY <4>4, <4>5, ConcatProperties DEF RemoveAt
    <3>3. CASE start # v + 1
      BY <2>3, <3>3, <3>1, <2>0, <2>2 DEF FreeGrowPrev
    <3> QED
      BY <3>2, <3>3
  <2>4. CASE FreeGrowNext(v, n, start)
    <3>1. n \in 1 .. Len(kern_free_vm)
      BY <2>4, PlaceOfNext DEF FreeGrowNext
    <3>2. [kern_free_vm[n] EXCEPT !.vm_start = v] \in Area
      BY <3>1, <2>0, <2>1 DEF Area
    <3> QED
      BY <2>4, <3>1, <3>2, ExceptSeq DEF FreeGrowNext
  <2>5. CASE FreeInsert(v, n, start)
    <3> DEFINE new == [vm_start |-> v, vm_end |-> v + 1]
    <3>1. <<new>> \in Seq(Area)
      BY <2>0 DEF Area
    <3>2. /\ SubSeq(kern_free_vm, 1, n - 1) \in Seq(Area)
          /\ SubSeq(kern_free_vm, n, Len(kern_free_vm)) \in Seq(Area)
      BY <2>0, SubSeqProperties
    <3>3. SubSeq(kern_free_vm, 1, n - 1) \o <<new>> \in Seq(Area)
      BY <3>1, <3>2, ConcatProperties
    <3>4. kern_free_vm' = InsertAt(kern_free_vm, n, new)
      BY <2>5 DEF FreeInsert
    <3> QED
      BY <3>2, <3>3, <3>4, ConcatProperties DEF InsertAt
  <2>6. CASE FreeCorrupted(v, n, start)
    BY <2>6 DEF FreeCorrupted
  <2> QED
    BY <2>b, <2>3, <2>4, <2>5, <2>6
<1>3. CASE PageNewNoArea
  BY <1>3 DEF PageNewNoArea
<1>4. ASSUME NEW u \in UserPages, UserMap(u) \/ UserRelease(u)
      PROVE  kern_free_vm' \in Seq(Area)
  BY <1>4 DEF UserMap, UserRelease
<1>5. CASE Kmalloc
  BY <1>5 DEF Kmalloc
<1>6. CASE UNCHANGED vars
  BY <1>6 DEF vars
<1> QED
  BY <1>1, <1>2, <1>3, <1>4, <1>5, <1>6 DEF Next

(* The memory manager's state keeps its shape: the bitmap within RAM's     *)
(* bits, entries that are frames, a list of areas, and a heap end that     *)
(* never passes the user's half.                                           *)
THEOREM TypeCorrect == Spec => []TypeOK
<1>1. Init => AreasOK
  <2> SUFFICES ASSUME Init PROVE AreasOK
    OBVIOUS
  <2>1. [vm_start |-> KERN_PG_HEAP, vm_end |-> KERN_HEAP] \in Area
    BY PagesAssumption DEF Area
  <2> QED
    BY <2>1 DEF Init, AreasOK
<1>2. AreasOK /\ [Next]_vars => AreasOK'
  BY AreasNext
<1>3. FramesInv /\ AreasOK => TypeOK
  BY DEF FramesInv, Sound, TypeOK, AreasOK
<1> QED
  BY <1>1, <1>2, <1>3, FramesInvariant, PTL DEF Spec

-----------------------------------------------------------------------------
(* The list of free areas.  Sorted is FreeListOrdered without the need to  *)
(* go from one area to the next: any two areas are apart.                  *)

Sorted(s) ==
    /\ \A i \in 1 .. Len(s) :
         /\ KERN_PG_HEAP <= s[i].vm_start
         /\ s[i].vm_start < s[i].vm_end
         /\ s[i].vm_end <= KERN_HEAP
    /\ \A i, j \in 1 .. Len(s) : i < j => s[i].vm_end < s[j].vm_start

Holds(s, w) == \E i \in 1 .. Len(s) : s[i].vm_start <= w /\ w < s[i].vm_end

(* Taking the first page of an area that has more.                         *)
LEMMA ShrinkSorted ==
    ASSUME NEW s \in Seq(Area), s # <<>>, Sorted(s),
           NEW t \in Seq(Area), Len(t) = Len(s),
           t[1].vm_start = s[1].vm_start + 1, s[1].vm_start + 1 # s[1].vm_end,
           \A i \in 1 .. Len(s) : /\ t[i].vm_end = s[i].vm_end
                                  /\ i # 1 => t[i].vm_start = s[i].vm_start
    PROVE  /\ Sorted(t)
           /\ \A w \in Int :
                Holds(t, w) <=> Holds(s, w) /\ w # s[1].vm_start
<1>l. Len(s) \in Nat /\ 1 \in 1 .. Len(s) /\ Len(t) = Len(s)
  OBVIOUS
<1>n. \A i \in 1 .. Len(s) : s[i].vm_start \in Nat /\ s[i].vm_end \in Nat
  <2>1. \A i \in 1 .. Len(s) : s[i] \in Area
    OBVIOUS
  <2> QED
    BY <2>1 DEF Area
<1>s. t[1].vm_start = s[1].vm_start + 1 /\ s[1].vm_start + 1 # s[1].vm_end
  OBVIOUS
<1>e. \A i \in 1 .. Len(s) : /\ t[i].vm_end = s[i].vm_end
                             /\ i # 1 => t[i].vm_start = s[i].vm_start
  OBVIOUS
<1>1. Sorted(t)
  <2>1. \A i \in 1 .. Len(t) : /\ KERN_PG_HEAP <= t[i].vm_start
                               /\ t[i].vm_start < t[i].vm_end
                               /\ t[i].vm_end <= KERN_HEAP
    <3> TAKE i \in 1 .. Len(t)
    <3>1. /\ KERN_PG_HEAP <= s[i].vm_start
          /\ s[i].vm_start < s[i].vm_end
          /\ s[i].vm_end <= KERN_HEAP
      BY <1>l DEF Sorted
    <3>2. s[i].vm_start \in Nat /\ s[i].vm_end \in Nat /\ KERN_PG_HEAP \in Nat
      BY <1>n, <1>l, PagesAssumption
    <3>3. CASE i = 1
      BY <3>1, <3>2, <3>3, <1>s
    <3>4. CASE i # 1
      BY <3>1, <3>4, <1>l, <1>e
    <3> QED
      BY <3>3, <3>4
  <2>2. \A i, j \in 1 .. Len(t) : i < j => t[i].vm_end < t[j].vm_start
    <3> TAKE i \in 1 .. Len(t), j \in 1 .. Len(t)
    <3>1. i < j => s[i].vm_end < s[j].vm_start
      BY <1>l DEF Sorted
    <3>2. i \in 1 .. Len(s) /\ j \in 1 .. Len(s) /\ (i < j => j # 1)
      BY <1>l
    <3>3. t[i].vm_end = s[i].vm_end
      BY <3>2, <1>e
    <3>4. j # 1 => t[j].vm_start = s[j].vm_start
      BY <3>2, <1>e
    <3> QED
      BY <3>1, <3>2, <3>3, <3>4
  <2> QED
    BY <2>1, <2>2 DEF Sorted
<1>2. ASSUME NEW w \in Int PROVE Holds(t, w) <=> Holds(s, w) /\ w # s[1].vm_start
  <2>1. \A i \in 1 .. Len(s) : i # 1 => s[1].vm_end < s[i].vm_start
    BY <1>l DEF Sorted
  <2>2. s[1].vm_start < s[1].vm_end
    BY <1>l DEF Sorted
  <2>3. \A i \in 1 .. Len(s) :
           t[i].vm_start <= w /\ w < t[i].vm_end
           <=> s[i].vm_start <= w /\ w < s[i].vm_end /\ w # s[1].vm_start
    <3> TAKE i \in 1 .. Len(s)
    <3>1. s[i].vm_start \in Nat /\ s[i].vm_end \in Nat
          /\ s[1].vm_start \in Nat /\ s[1].vm_end \in Nat
      BY <1>n, <1>l
    <3>2. CASE i = 1
      BY <3>1, <3>2, <1>s
    <3>3. CASE i # 1
      <4>1. t[i].vm_end = s[i].vm_end
        BY <3>3, <1>e
      <4>2. t[i].vm_start = s[i].vm_start
        BY <3>3, <1>e
      <4>3. s[1].vm_end < s[i].vm_start
        BY <3>3, <2>1
      <4> QED
        BY <3>1, <4>1, <4>2, <4>3, <2>2
    <3> QED
      BY <3>2, <3>3
  <2> QED
    BY <2>3, <1>l DEF Holds
<1> QED
  BY <1>1, <1>2

(* Taking the first page off a sorted list: it stays sorted and loses that *)
(* page only (page_new).                                                   *)
LEMMA TakeFirstSorted ==
    ASSUME NEW s \in Seq(Area), s # <<>>, Sorted(s)
    PROVE  /\ Sorted(TakeFirst(s))
           /\ \A w \in Int :
                Holds(TakeFirst(s), w) <=> Holds(s, w) /\ w # s[1].vm_start
<1> DEFINE area == [s[1] EXCEPT !.vm_start = @ + 1]
           t == TakeFirst(s)
<1>1. \A i \in 1 .. Len(s) : s[i] \in Area
  OBVIOUS
<1>2. Len(s) >= 1 /\ Len(s) \in Nat /\ Head(s) = s[1]
  OBVIOUS
<1>3. area.vm_start = s[1].vm_start + 1 /\ area.vm_end = s[1].vm_end
  BY <1>1, <1>2 DEF Area
<1>n. \A i \in 1 .. Len(s) : s[i].vm_start \in Nat /\ s[i].vm_end \in Nat
  BY <1>1 DEF Area
<1>4. CASE area.vm_start = area.vm_end
  <2>1. t = Tail(s)
    BY <1>2, <1>4 DEF TakeFirst
  <2>2. Len(t) = Len(s) - 1 /\ \A i \in 1 .. Len(t) : t[i] = s[i + 1]
    BY <1>2, <2>1
  <2> HIDE DEF t, area
  <2>3. Sorted(t)
    <3>1. \A i \in 1 .. Len(t) : i + 1 \in 1 .. Len(s) /\ t[i] = s[i + 1]
      BY <1>2, <2>2
    <3>2. \A i \in 1 .. Len(t) : /\ KERN_PG_HEAP <= t[i].vm_start
                                 /\ t[i].vm_start < t[i].vm_end
                                 /\ t[i].vm_end <= KERN_HEAP
      BY <3>1 DEF Sorted
    <3>3. \A i, j \in 1 .. Len(t) : i < j => t[i].vm_end < t[j].vm_start
      <4> TAKE i \in 1 .. Len(t), j \in 1 .. Len(t)
      <4>1. i + 1 \in 1 .. Len(s) /\ j + 1 \in 1 .. Len(s) /\ (i < j => i + 1 < j + 1)
        BY <3>1
      <4>2. i < j => s[i + 1].vm_end < s[j + 1].vm_start
        BY <4>1 DEF Sorted
      <4> QED
        BY <3>1, <4>2
    <3> QED
      BY <3>2, <3>3 DEF Sorted
  <2>4. ASSUME NEW w \in Int PROVE Holds(t, w) <=> Holds(s, w) /\ w # s[1].vm_start
    <3>1. ASSUME Holds(t, w) PROVE Holds(s, w) /\ w # s[1].vm_start
      <4>1. PICK i \in 1 .. Len(t) : t[i].vm_start <= w /\ w < t[i].vm_end
        BY <3>1 DEF Holds
      <4>2. i + 1 \in 1 .. Len(s) /\ t[i] = s[i + 1] /\ 1 < i + 1 /\ 1 \in 1 .. Len(s)
        BY <1>2, <2>2
      <4>3. s[1].vm_end < s[i + 1].vm_start /\ s[1].vm_start < s[1].vm_end
        BY <4>2 DEF Sorted
      <4>4. w # s[1].vm_start
        BY <4>1, <4>2, <4>3, <1>n
      <4> QED
        BY <4>1, <4>2, <4>4 DEF Holds
    <3>2. ASSUME Holds(s, w), w # s[1].vm_start PROVE Holds(t, w)
      <4>1. PICK i \in 1 .. Len(s) : s[i].vm_start <= w /\ w < s[i].vm_end
        BY <3>2 DEF Holds
      <4>2. i # 1
        BY <1>3, <1>4, <1>n, <3>2, <4>1, <1>2
      <4>3. i - 1 \in 1 .. Len(t) /\ t[i - 1] = s[i]
        BY <4>2, <2>2, <1>2
      <4> QED
        BY <4>1, <4>3 DEF Holds
    <3> QED
      BY <3>1, <3>2
  <2> QED
    BY <2>3, <2>4 DEF t
<1>5. CASE area.vm_start # area.vm_end
  <2>1. t = <<area>> \o Tail(s)
    BY <1>2, <1>5 DEF TakeFirst
  <2>2. /\ Len(t) = Len(s)
        /\ t[1] = area
        /\ \A i \in 2 .. Len(s) : t[i] = s[i]
    <3>1. Tail(s) \in Seq(Area) /\ Len(Tail(s)) = Len(s) - 1
          /\ \A i \in 1 .. Len(s) - 1 : Tail(s)[i] = s[i + 1]
      BY <1>2
    <3> HIDE DEF area
    <3>2. <<area>> \in Seq({area}) /\ Len(<<area>>) = 1 /\ <<area>>[1] = area
      OBVIOUS
    <3> DEFINE u == Tail(s)
    <3>3. Len(<<area>> \o u) = 1 + Len(u)
          /\ (<<area>> \o u)[1] = area
          /\ \A i \in 2 .. Len(u) + 1 : (<<area>> \o u)[i] = u[i - 1]
      <4> HIDE DEF u
      <4>1. u \in Seq(Area)
        BY <3>1 DEF u
      <4> QED
        BY <4>1
    <3> QED
      BY <2>1, <3>1, <3>3, <1>2
  <2>3. /\ t[1].vm_start = s[1].vm_start + 1
        /\ t[1].vm_end = s[1].vm_end
        /\ s[1].vm_start + 1 # s[1].vm_end
    BY <1>3, <1>5, <2>2
  <2>4. t \in Seq(Area)
    BY TakeFirstAreas DEF t
  <2> HIDE DEF t, area
  <2>5. \A i \in 1 .. Len(s) : /\ t[i].vm_end = s[i].vm_end
                               /\ i # 1 => t[i].vm_start = s[i].vm_start
    BY <2>2, <2>3
  <2> QED
    BY <2>2, <2>3, <2>4, <2>5, ShrinkSorted DEF t
<1> QED
  BY <1>4, <1>5

(* What page_free knows of the place it has found for page v in the sorted *)
(* list s: the areas before it end at v or below, those from it on start   *)
(* above v.                                                                *)
Fits(s, n, v) ==
    /\ Sorted(s)
    /\ \A i \in 1 .. Len(s) : i < n => s[i].vm_end <= v
    /\ \A i \in 1 .. Len(s) : n <= i => v < s[i].vm_start

(* t is s with the end of area n - 1 moved up by one page, over v.         *)
Grown(s, t, n, v) ==
    /\ t \in Seq(Area)
    /\ Len(t) = Len(s)
    /\ \A i \in 1 .. Len(s) :
         /\ t[i].vm_start = s[i].vm_start
         /\ t[i].vm_end = IF i = n - 1 THEN v + 1 ELSE s[i].vm_end

(* The area before grows over v (page_free, the first case without the     *)
(* merge).                                                                 *)
LEMMA GrowSorted ==
    ASSUME NEW s \in Seq(Area), NEW v \in PageHeap, NEW n \in 2 .. Len(s) + 1,
           Fits(s, n, v), s[n - 1].vm_end = v,
           n \in 1 .. Len(s) => v + 1 < s[n].vm_start,
           NEW t, Grown(s, t, n, v)
    PROVE  /\ Sorted(t)
           /\ \A w \in Int : Holds(t, w) <=> Holds(s, w) \/ w = v
<1>t. /\ t \in Seq(Area) /\ Len(t) = Len(s)
      /\ \A i \in 1 .. Len(s) :
           /\ t[i].vm_start = s[i].vm_start
           /\ t[i].vm_end = IF i = n - 1 THEN v + 1 ELSE s[i].vm_end
  BY DEF Grown
<1> USE <1>t
<1>0. v \in Nat /\ v + 1 <= KERN_HEAP /\ KERN_HEAP \in Nat /\ n - 1 \in 1 .. Len(s)
  BY PagesAssumption DEF PageHeap
<1>n. \A i \in 1 .. Len(s) : s[i].vm_start \in Nat /\ s[i].vm_end \in Nat
  <2>1. \A i \in 1 .. Len(s) : s[i] \in Area
    OBVIOUS
  <2> QED
    BY <2>1 DEF Area
<1>s. Sorted(s)
  BY DEF Fits
<1>1. ASSUME NEW i \in 1 .. Len(t)
      PROVE  /\ KERN_PG_HEAP <= t[i].vm_start
             /\ t[i].vm_start < t[i].vm_end
             /\ t[i].vm_end <= KERN_HEAP
  <2>1. /\ KERN_PG_HEAP <= s[i].vm_start
        /\ s[i].vm_start < s[i].vm_end
        /\ s[i].vm_end <= KERN_HEAP
    BY <1>s DEF Sorted
  <2> QED
    BY <2>1, <1>0, <1>n
<1>2. ASSUME NEW i \in 1 .. Len(t), NEW j \in 1 .. Len(t), i < j
      PROVE  t[i].vm_end < t[j].vm_start
  <2>1. s[i].vm_end < s[j].vm_start
    BY <1>2, <1>s DEF Sorted
  <2>2. CASE i = n - 1
    <3>1. n \in 1 .. Len(s) /\ n <= j
      BY <1>2, <2>2
    <3>2. s[n].vm_start <= s[j].vm_start
      <4>1. CASE j = n
        BY <4>1, <1>n
      <4>2. CASE n < j
        BY <3>1, <4>2, <1>s, <1>n DEF Sorted
      <4> QED
        BY <3>1, <4>1, <4>2
    <3> QED
      BY <2>2, <3>1, <3>2, <1>0, <1>n
  <2>3. CASE i # n - 1
    BY <2>1, <2>3
  <2> QED
    BY <2>2, <2>3
<1>3. ASSUME NEW w \in Int PROVE Holds(t, w) <=> Holds(s, w) \/ w = v
  <2>1. ASSUME NEW i \in 1 .. Len(t), t[i].vm_start <= w, w < t[i].vm_end
        PROVE  Holds(s, w) \/ w = v
    <3>0. i \in 1 .. Len(s) /\ t[i].vm_start = s[i].vm_start
      OBVIOUS
    <3>1. CASE i = n - 1
      <4>1. t[i].vm_end = v + 1 /\ s[i].vm_end = v
        BY <3>1
      <4>2. w < v \/ w = v
        BY <4>1, <2>1, <1>0
      <4> QED
        BY <4>1, <4>2, <3>0, <2>1 DEF Holds
    <3>2. CASE i # n - 1
      <4>1. t[i].vm_end = s[i].vm_end
        BY <3>2
      <4> QED
        BY <4>1, <3>0, <2>1 DEF Holds
    <3> QED
      BY <3>1, <3>2
  <2>2. ASSUME NEW i \in 1 .. Len(s), s[i].vm_start <= w, w < s[i].vm_end
        PROVE  Holds(t, w)
    <3>1. i \in 1 .. Len(t) /\ t[i].vm_start = s[i].vm_start
      OBVIOUS
    <3>2. w < t[i].vm_end
      <4>1. CASE i = n - 1
        <5>1. t[i].vm_end = v + 1 /\ s[i].vm_end = v
          BY <4>1
        <5> QED
          BY <5>1, <2>2, <1>0
      <4>2. CASE i # n - 1
        BY <4>2, <2>2
      <4> QED
        BY <4>1, <4>2
    <3> QED
      BY <3>1, <3>2, <2>2 DEF Holds
  <2>3. ASSUME w = v PROVE Holds(t, w)
    <3>1. s[n - 1].vm_start < v
      BY <1>0, <1>s DEF Sorted
    <3>2. t[n - 1].vm_start = s[n - 1].vm_start /\ t[n - 1].vm_end = v + 1
      BY <1>0
    <3>3. t[n - 1].vm_start <= w /\ w < t[n - 1].vm_end /\ n - 1 \in 1 .. Len(t)
      BY <2>3, <3>1, <3>2, <1>0, <1>n
    <3> QED
      BY <3>3 DEF Holds
  <2>4. Holds(t, w) => Holds(s, w) \/ w = v
    BY <2>1 DEF Holds
  <2>5. Holds(s, w) => Holds(t, w)
    BY <2>2 DEF Holds
  <2> QED
    BY <2>3, <2>4, <2>5
<1> QED
  BY <1>1, <1>2, <1>3 DEF Sorted

(* t is s without the end of area n - 1 and the start of area n.           *)
Merged(s, t, n) ==
    /\ t \in Seq(Area)
    /\ Len(t) = Len(s) - 1
    /\ \A i \in 1 .. Len(t) :
         /\ t[i].vm_start = IF i < n THEN s[i].vm_start ELSE s[i + 1].vm_start
         /\ t[i].vm_end = IF i < n - 1 THEN s[i].vm_end ELSE s[i + 1].vm_end

(* The area before grows over v and over the next one, which goes          *)
(* (page_free, the first case with the merge).                             *)
LEMMA MergeSorted ==
    ASSUME NEW s \in Seq(Area), NEW v \in PageHeap, NEW n \in 2 .. Len(s),
           Fits(s, n, v), s[n - 1].vm_end = v, s[n].vm_start = v + 1,
           NEW t, Merged(s, t, n)
    PROVE  /\ Sorted(t)
           /\ \A w \in Int : Holds(t, w) <=> Holds(s, w) \/ w = v
<1>t. /\ t \in Seq(Area) /\ Len(t) = Len(s) - 1
      /\ \A i \in 1 .. Len(t) :
           /\ t[i].vm_start = IF i < n THEN s[i].vm_start ELSE s[i + 1].vm_start
           /\ t[i].vm_end = IF i < n - 1 THEN s[i].vm_end ELSE s[i + 1].vm_end
  BY DEF Merged
<1> USE <1>t
<1>0. v \in Nat /\ n - 1 \in 1 .. Len(s) /\ n - 1 \in 1 .. Len(t)
      /\ \A i \in 1 .. Len(t) : i \in 1 .. Len(s) /\ i + 1 \in 1 .. Len(s)
  BY PagesAssumption DEF PageHeap
<1>n. \A i \in 1 .. Len(s) : s[i].vm_start \in Nat /\ s[i].vm_end \in Nat
  <2>1. \A i \in 1 .. Len(s) : s[i] \in Area
    OBVIOUS
  <2> QED
    BY <2>1 DEF Area
<1>s. /\ \A i \in 1 .. Len(s) : /\ KERN_PG_HEAP <= s[i].vm_start
                                /\ s[i].vm_start < s[i].vm_end
                                /\ s[i].vm_end <= KERN_HEAP
      /\ \A i, j \in 1 .. Len(s) : i < j => s[i].vm_end < s[j].vm_start
  BY DEF Fits, Sorted
<1>m. /\ t[n - 1].vm_start = s[n - 1].vm_start
      /\ t[n - 1].vm_end = s[n].vm_end
      /\ s[n - 1].vm_start < v /\ v + 1 < s[n].vm_end
  <2>1. n - 1 + 1 = n /\ n - 1 < n /\ ~(n - 1 < n - 1)
    OBVIOUS
  <2>2. t[n - 1].vm_start = s[n - 1].vm_start
    BY <1>0, <2>1
  <2>3. t[n - 1].vm_end = s[n - 1 + 1].vm_end
    BY <1>0, <2>1
  <2>4. s[n - 1].vm_start < v /\ v + 1 < s[n].vm_end
    BY <1>0, <1>s
  <2> QED
    BY <2>1, <2>2, <2>3, <2>4
<1>1. ASSUME NEW i \in 1 .. Len(t)
      PROVE  /\ KERN_PG_HEAP <= t[i].vm_start
             /\ t[i].vm_start < t[i].vm_end
             /\ t[i].vm_end <= KERN_HEAP
  <2>1. i \in 1 .. Len(s) /\ i + 1 \in 1 .. Len(s) /\ i < i + 1
    BY <1>0
  <2>2. s[i].vm_end < s[i + 1].vm_start
    BY <2>1, <1>s
  <2>3. /\ KERN_PG_HEAP <= s[i].vm_start /\ s[i].vm_start < s[i].vm_end
        /\ s[i].vm_end <= KERN_HEAP
        /\ KERN_PG_HEAP <= s[i + 1].vm_start /\ s[i + 1].vm_start < s[i + 1].vm_end
        /\ s[i + 1].vm_end <= KERN_HEAP
    BY <2>1, <1>s
  <2>4. /\ s[i].vm_start \in Nat /\ s[i].vm_end \in Nat
        /\ s[i + 1].vm_start \in Nat /\ s[i + 1].vm_end \in Nat
    BY <2>1, <1>n
  <2>5. t[i].vm_start = IF i < n THEN s[i].vm_start ELSE s[i + 1].vm_start
    OBVIOUS
  <2>6. t[i].vm_end = IF i < n - 1 THEN s[i].vm_end ELSE s[i + 1].vm_end
    OBVIOUS
  <2>7. KERN_PG_HEAP <= t[i].vm_start
    BY <2>3, <2>5
  <2>8. t[i].vm_end <= KERN_HEAP
    BY <2>3, <2>6
  <2>9. t[i].vm_start < t[i].vm_end
    <3>1. CASE i < n - 1
      BY <3>1, <2>3, <2>5, <2>6
    <3>2. CASE ~(i < n - 1) /\ i < n
      BY <3>2, <2>2, <2>3, <2>4, <2>5, <2>6
    <3>3. CASE ~(i < n)
      BY <3>3, <2>3, <2>5, <2>6
    <3> QED
      BY <3>1, <3>2, <3>3
  <2> QED
    BY <2>7, <2>8, <2>9
<1>2. ASSUME NEW i \in 1 .. Len(t), NEW j \in 1 .. Len(t), i < j
      PROVE  t[i].vm_end < t[j].vm_start
  <2>1. i + 1 \in 1 .. Len(s) /\ j + 1 \in 1 .. Len(s) /\ i + 1 < j + 1
        /\ i \in 1 .. Len(s) /\ j \in 1 .. Len(s)
    BY <1>0, <1>2
  <2>2. /\ s[i].vm_end < s[j].vm_start
        /\ s[i + 1].vm_end < s[j + 1].vm_start
        /\ s[i].vm_end < s[j + 1].vm_start
    BY <2>1, <1>2, <1>s
  <2>3. CASE i < n - 1
    BY <2>2, <2>3
  <2>4. CASE ~(i < n - 1)
    <3>1. ~(j < n)
      BY <2>4, <1>2
    <3> QED
      BY <2>2, <2>4, <3>1
  <2> QED
    BY <2>3, <2>4
<1>3. ASSUME NEW w \in Int PROVE Holds(t, w) <=> Holds(s, w) \/ w = v
  <2>1. ASSUME NEW i \in 1 .. Len(t), t[i].vm_start <= w, w < t[i].vm_end
        PROVE  Holds(s, w) \/ w = v
    <3>0. i \in 1 .. Len(s) /\ i + 1 \in 1 .. Len(s)
      BY <1>0
    <3>1. CASE i < n - 1
      <4>1. s[i].vm_start <= w /\ w < s[i].vm_end
        BY <2>1, <3>1
      <4> QED
        BY <3>0, <4>1 DEF Holds
    <3>2. CASE i = n - 1
      <4>1. s[n - 1].vm_start <= w /\ w < s[n].vm_end
        BY <2>1, <3>2
      <4>2. w < v \/ w = v \/ s[n].vm_start <= w
        BY <1>0
      <4> QED
        BY <1>0, <4>1, <4>2 DEF Holds
    <3>3. CASE n <= i
      <4>1. s[i + 1].vm_start <= w /\ w < s[i + 1].vm_end
        BY <2>1, <3>3
      <4> QED
        BY <3>0, <4>1 DEF Holds
    <3> QED
      BY <3>1, <3>2, <3>3
  <2>2. ASSUME NEW i \in 1 .. Len(s), s[i].vm_start <= w, w < s[i].vm_end
        PROVE  Holds(t, w)
    <3>1. CASE i < n - 1
      <4>1. i \in 1 .. Len(t) /\ t[i].vm_start <= w /\ w < t[i].vm_end
        BY <2>2, <3>1
      <4> QED
        BY <4>1 DEF Holds
    <3>2. CASE i = n - 1 \/ i = n
      <4>1. t[n - 1].vm_start <= w /\ w < t[n - 1].vm_end
        <5>1. CASE i = n - 1
          BY <2>2, <5>1, <1>m, <1>0, <1>n
        <5>2. CASE i = n
          BY <2>2, <5>2, <1>m, <1>0, <1>n
        <5> QED
          BY <3>2, <5>1, <5>2
      <4> QED
        BY <1>0, <4>1 DEF Holds
    <3>3. CASE n < i
      <4>1. i - 1 \in 1 .. Len(t) /\ i - 1 + 1 = i /\ ~(i - 1 < n)
        BY <3>3
      <4>2. t[i - 1].vm_start = s[i].vm_start /\ t[i - 1].vm_end = s[i].vm_end
        BY <4>1
      <4> QED
        BY <2>2, <4>1, <4>2 DEF Holds
    <3> QED
      BY <3>1, <3>2, <3>3
  <2>3. ASSUME w = v PROVE Holds(t, w)
    <3>1. t[n - 1].vm_start <= w /\ w < t[n - 1].vm_end
      BY <2>3, <1>m, <1>0, <1>n
    <3> QED
      BY <3>1, <1>0 DEF Holds
  <2> QED
    BY <2>1, <2>2, <2>3 DEF Holds
<1> QED
  BY <1>1, <1>2, <1>3 DEF Sorted

(* t is s with the start of area n moved down to v.                        *)
GrownDown(s, t, n, v) ==
    /\ t \in Seq(Area)
    /\ Len(t) = Len(s)
    /\ \A i \in 1 .. Len(s) :
         /\ t[i].vm_start = IF i = n THEN v ELSE s[i].vm_start
         /\ t[i].vm_end = s[i].vm_end

(* The area after grows down over v (page_free, the second case).          *)
LEMMA GrowDownSorted ==
    ASSUME NEW s \in Seq(Area), NEW v \in PageHeap, NEW n \in 1 .. Len(s),
           Fits(s, n, v), \A i \in 1 .. Len(s) : i = n - 1 => s[i].vm_end # v,
           s[n].vm_start = v + 1,
           NEW t, GrownDown(s, t, n, v)
    PROVE  /\ Sorted(t)
           /\ \A w \in Int : Holds(t, w) <=> Holds(s, w) \/ w = v
<1>t. /\ t \in Seq(Area) /\ Len(t) = Len(s)
      /\ \A i \in 1 .. Len(s) :
           /\ t[i].vm_start = IF i = n THEN v ELSE s[i].vm_start
           /\ t[i].vm_end = s[i].vm_end
  BY DEF GrownDown
<1> USE <1>t
<1>0. v \in Nat /\ KERN_PG_HEAP <= v /\ KERN_PG_HEAP \in Nat /\ Len(t) = Len(s)
  BY PagesAssumption DEF PageHeap
<1>n. \A i \in 1 .. Len(s) : s[i].vm_start \in Nat /\ s[i].vm_end \in Nat
  <2>1. \A i \in 1 .. Len(s) : s[i] \in Area
    OBVIOUS
  <2> QED
    BY <2>1 DEF Area
<1>s. /\ \A i \in 1 .. Len(s) : /\ KERN_PG_HEAP <= s[i].vm_start
                                /\ s[i].vm_start < s[i].vm_end
                                /\ s[i].vm_end <= KERN_HEAP
      /\ \A i, j \in 1 .. Len(s) : i < j => s[i].vm_end < s[j].vm_start
      /\ \A i \in 1 .. Len(s) : i < n => s[i].vm_end <= v
  BY DEF Fits, Sorted
<1>1. ASSUME NEW i \in 1 .. Len(t)
      PROVE  /\ KERN_PG_HEAP <= t[i].vm_start
             /\ t[i].vm_start < t[i].vm_end
             /\ t[i].vm_end <= KERN_HEAP
  <2>1. /\ KERN_PG_HEAP <= s[i].vm_start
        /\ s[i].vm_start < s[i].vm_end
        /\ s[i].vm_end <= KERN_HEAP
    BY <1>s
  <2> QED
    BY <2>1, <1>0, <1>n
<1>2. ASSUME NEW i \in 1 .. Len(t), NEW j \in 1 .. Len(t), i < j
      PROVE  t[i].vm_end < t[j].vm_start
  <2>1. s[i].vm_end < s[j].vm_start
    BY <1>2, <1>s
  <2>2. CASE j = n
    <3>1. s[i].vm_end <= v
      BY <1>2, <2>2, <1>s
    <3>2. s[i].vm_end # v
      <4>1. CASE i = n - 1
        BY <4>1
      <4>2. CASE i # n - 1
        <5>1. n - 1 \in 1 .. Len(s) /\ i < n - 1
          BY <1>2, <2>2, <4>2
        <5>2. /\ s[i].vm_end < s[n - 1].vm_start
              /\ s[n - 1].vm_start < s[n - 1].vm_end
              /\ s[n - 1].vm_end <= v
          BY <5>1, <1>s
        <5> QED
          BY <5>1, <5>2, <1>0, <1>n
      <4> QED
        BY <4>1, <4>2
    <3> QED
      BY <2>2, <3>1, <3>2, <1>0, <1>n
  <2>3. CASE j # n
    BY <2>1, <2>3
  <2> QED
    BY <2>2, <2>3
<1>3. ASSUME NEW w \in Int PROVE Holds(t, w) <=> Holds(s, w) \/ w = v
  <2>1. ASSUME NEW i \in 1 .. Len(t), t[i].vm_start <= w, w < t[i].vm_end
        PROVE  Holds(s, w) \/ w = v
    <3>1. CASE i = n
      BY <2>1, <3>1, <1>0, <1>n DEF Holds
    <3>2. CASE i # n
      BY <2>1, <3>2 DEF Holds
    <3> QED
      BY <3>1, <3>2
  <2>2. ASSUME NEW i \in 1 .. Len(s), s[i].vm_start <= w, w < s[i].vm_end
        PROVE  Holds(t, w)
    <3>1. t[i].vm_start <= w /\ w < t[i].vm_end
      BY <2>2, <1>0, <1>n
    <3> QED
      BY <3>1, <1>0 DEF Holds
  <2>3. ASSUME w = v PROVE Holds(t, w)
    <3>1. v + 1 < s[n].vm_end
      BY <1>s
    <3>2. t[n].vm_start <= w /\ w < t[n].vm_end
      BY <2>3, <3>1, <1>0, <1>n
    <3> QED
      BY <3>2, <1>0 DEF Holds
  <2> QED
    BY <2>1, <2>2, <2>3 DEF Holds
<1> QED
  BY <1>1, <1>2, <1>3 DEF Sorted

(* t is s with a new area of the page v alone at place n.                  *)
Inserted(s, t, n, v) ==
    /\ t \in Seq(Area)
    /\ Len(t) = Len(s) + 1
    /\ \A i \in 1 .. Len(t) :
         /\ i < n => t[i] = s[i]
         /\ i = n => t[i] = [vm_start |-> v, vm_end |-> v + 1]
         /\ n < i => t[i] = s[i - 1]

(* A new area of the page alone, between two that it does not touch        *)
(* (page_free, the third case).                                            *)
LEMMA InsertSorted ==
    ASSUME NEW s \in Seq(Area), NEW v \in PageHeap, NEW n \in 1 .. Len(s) + 1,
           Fits(s, n, v), \A i \in 1 .. Len(s) : i = n - 1 => s[i].vm_end # v,
           \A i \in 1 .. Len(s) : i = n => v + 1 < s[i].vm_start,
           NEW t, Inserted(s, t, n, v)
    PROVE  /\ Sorted(t)
           /\ \A w \in Int : Holds(t, w) <=> Holds(s, w) \/ w = v
<1>u. /\ t \in Seq(Area) /\ Len(t) = Len(s) + 1
      /\ \A i \in 1 .. Len(t) :
           /\ i < n => t[i] = s[i]
           /\ i = n => t[i] = [vm_start |-> v, vm_end |-> v + 1]
           /\ n < i => t[i] = s[i - 1]
  BY DEF Inserted
<1> USE <1>u
<1>0. /\ v \in Nat /\ KERN_PG_HEAP <= v /\ v + 1 <= KERN_HEAP
      /\ KERN_PG_HEAP \in Nat /\ KERN_HEAP \in Nat /\ Len(t) = Len(s) + 1
  BY PagesAssumption DEF PageHeap
<1>n. \A i \in 1 .. Len(s) : s[i].vm_start \in Nat /\ s[i].vm_end \in Nat
  <2>1. \A i \in 1 .. Len(s) : s[i] \in Area
    OBVIOUS
  <2> QED
    BY <2>1 DEF Area
<1>s. /\ \A i \in 1 .. Len(s) : /\ KERN_PG_HEAP <= s[i].vm_start
                                /\ s[i].vm_start < s[i].vm_end
                                /\ s[i].vm_end <= KERN_HEAP
      /\ \A i, j \in 1 .. Len(s) : i < j => s[i].vm_end < s[j].vm_start
      /\ \A i \in 1 .. Len(s) : i < n => s[i].vm_end <= v
      /\ \A i \in 1 .. Len(s) : n <= i => v < s[i].vm_start
  BY DEF Fits, Sorted
<1>a. \A i \in 1 .. Len(s) : i < n => s[i].vm_end < v
  <2> SUFFICES ASSUME NEW i \in 1 .. Len(s), i < n PROVE s[i].vm_end < v
    OBVIOUS
  <2>1. s[i].vm_end <= v
    BY <1>s
  <2>2. CASE i = n - 1
    BY <2>1, <2>2, <1>0, <1>n
  <2>3. CASE i # n - 1
    <3>1. n - 1 \in 1 .. Len(s) /\ i < n - 1 /\ n - 1 < n
      BY <2>3
    <3>2. /\ s[i].vm_end < s[n - 1].vm_start
          /\ s[n - 1].vm_start < s[n - 1].vm_end
          /\ s[n - 1].vm_end <= v
      BY <3>1, <1>s
    <3> QED
      BY <3>1, <3>2, <1>0, <1>n
  <2> QED
    BY <2>2, <2>3
<1>b. \A i \in 1 .. Len(s) : n <= i => v + 1 < s[i].vm_start
  <2> SUFFICES ASSUME NEW i \in 1 .. Len(s), n <= i PROVE v + 1 < s[i].vm_start
    OBVIOUS
  <2>1. CASE i = n
    BY <2>1
  <2>2. CASE i # n
    <3>1. n \in 1 .. Len(s) /\ n < i
      BY <2>2
    <3>2. s[n].vm_end < s[i].vm_start /\ s[n].vm_start < s[n].vm_end /\ v + 1 < s[n].vm_start
      BY <3>1, <1>s
    <3> QED
      BY <3>1, <3>2, <1>0, <1>n
  <2> QED
    BY <2>1, <2>2
<1>t. \A i \in 1 .. Len(t) :
        /\ i < n => i \in 1 .. Len(s) /\ t[i] = s[i]
        /\ i = n => t[i].vm_start = v /\ t[i].vm_end = v + 1
        /\ n < i => i - 1 \in 1 .. Len(s) /\ n <= i - 1 /\ t[i] = s[i - 1]
  <2> SUFFICES ASSUME NEW i \in 1 .. Len(t)
               PROVE  /\ i < n => i \in 1 .. Len(s) /\ t[i] = s[i]
                      /\ i = n => t[i].vm_start = v /\ t[i].vm_end = v + 1
                      /\ n < i => i - 1 \in 1 .. Len(s) /\ n <= i - 1 /\ t[i] = s[i - 1]
    OBVIOUS
  <2>1. i < n => i \in 1 .. Len(s)
    BY <1>0
  <2>2. n < i => i - 1 \in 1 .. Len(s) /\ n <= i - 1
    BY <1>0
  <2> QED
    BY <2>1, <2>2
<1>1. ASSUME NEW i \in 1 .. Len(t)
      PROVE  /\ KERN_PG_HEAP <= t[i].vm_start
             /\ t[i].vm_start < t[i].vm_end
             /\ t[i].vm_end <= KERN_HEAP
  <2>1. CASE i < n
    BY <2>1, <1>t, <1>s
  <2>2. CASE i = n
    BY <2>2, <1>t, <1>0
  <2>3. CASE n < i
    BY <2>3, <1>t, <1>s
  <2> QED
    BY <2>1, <2>2, <2>3
<1>2. ASSUME NEW i \in 1 .. Len(t), NEW j \in 1 .. Len(t), i < j
      PROVE  t[i].vm_end < t[j].vm_start
  <2>1. CASE j < n
    <3>1. i < n
      BY <1>2, <2>1
    <3> QED
      BY <1>2, <2>1, <3>1, <1>t, <1>s
  <2>2. CASE j = n
    BY <1>2, <2>2, <1>t, <1>a
  <2>3. CASE n < j
    <3>1. j - 1 \in 1 .. Len(s) /\ t[j] = s[j - 1] /\ v + 1 < s[j - 1].vm_start
      BY <2>3, <1>t, <1>b
    <3>2. CASE i < n
      <4>1. i \in 1 .. Len(s) /\ t[i] = s[i] /\ i < j - 1
        BY <2>3, <3>2, <1>t
      <4> QED
        BY <3>1, <4>1, <1>s
    <3>3. CASE i = n
      BY <3>1, <3>3, <1>t
    <3>4. CASE n < i
      <4>1. i - 1 \in 1 .. Len(s) /\ t[i] = s[i - 1] /\ i - 1 < j - 1
        BY <1>2, <3>4, <1>t
      <4> QED
        BY <3>1, <4>1, <1>s
    <3> QED
      BY <3>2, <3>3, <3>4
  <2> QED
    BY <2>1, <2>2, <2>3
<1>3. ASSUME NEW w \in Int PROVE Holds(t, w) <=> Holds(s, w) \/ w = v
  <2>1. ASSUME NEW i \in 1 .. Len(t), t[i].vm_start <= w, w < t[i].vm_end
        PROVE  Holds(s, w) \/ w = v
    <3>1. CASE i < n
      BY <2>1, <3>1, <1>t DEF Holds
    <3>2. CASE i = n
      BY <2>1, <3>2, <1>t, <1>0
    <3>3. CASE n < i
      BY <2>1, <3>3, <1>t DEF Holds
    <3> QED
      BY <3>1, <3>2, <3>3
  <2>2. ASSUME NEW i \in 1 .. Len(s), s[i].vm_start <= w, w < s[i].vm_end
        PROVE  Holds(t, w)
    <3>1. CASE i < n
      <4>1. i \in 1 .. Len(t) /\ t[i] = s[i]
        BY <3>1, <1>0
      <4> QED
        BY <2>2, <4>1 DEF Holds
    <3>2. CASE ~(i < n)
      <4>1. i + 1 \in 1 .. Len(t) /\ n < i + 1 /\ i + 1 - 1 = i
        BY <3>2, <1>0
      <4>2. t[i + 1] = s[i]
        BY <4>1
      <4> QED
        BY <2>2, <4>1, <4>2 DEF Holds
    <3> QED
      BY <3>1, <3>2
  <2>3. ASSUME w = v PROVE Holds(t, w)
    <3>1. n \in 1 .. Len(t)
      BY <1>0
    <3>2. t[n].vm_start <= w /\ w < t[n].vm_end
      BY <2>3, <3>1, <1>t, <1>0
    <3> QED
      BY <3>1, <3>2 DEF Holds
  <2> QED
    BY <2>1, <2>2, <2>3 DEF Holds
<1> QED
  BY <1>1, <1>2, <1>3 DEF Sorted

(* What the steps keep of the list and the page table entries together.    *)
Agree(s, map, said) ==
    \A v \in PageHeap :
        /\ Holds(s, v) => map[v] = 0
        /\ map[v] = 0 /\ "corrupted" \notin said => Holds(s, v)

ListInv ==
    /\ AreasOK
    /\ Sorted(kern_free_vm)
    /\ Agree(kern_free_vm, pte, panics)
    /\ 0 \in mem_bitmap

(* Frame 0 is reserved: no page ever gets it, so that an entry of 0 means  *)
(* that the page has none (page_frame_aquire).                             *)
LEMMA AquireNotZero ==
    ASSUME NEW bitmap, 0 \in bitmap, NEW f \in Frames, page_frame_aquire(bitmap, f)
    PROVE  f # 0
<1>1. TopFrame # 0
  BY FramesAssumption DEF TopFrame
<1> QED
  BY <1>1 DEF page_frame_aquire

(* kmalloc touches no page of the page heap, and does not say that the     *)
(* list is corrupted.                                                      *)
LEMMA KmallocKeepsPages ==
    ASSUME NEW bitmap, 0 \in bitmap, NEW map \in [VPages -> Frames],
           NEW said, kern_heap \in KERN_HEAP .. USER_OFFSET,
           kmalloc(bitmap, map, said)
    PROVE  /\ 0 \in mem_bitmap'
           /\ \A v \in PageHeap : pte'[v] = map[v]
           /\ panics \subseteq panics'
<1>1. kern_heap \notin PageHeap /\ PageHeap \subseteq VPages
  BY PagesAssumption DEF PageHeap, VPages
<1>2. \A f : \A v \in PageHeap : [map EXCEPT ![kern_heap] = f][v] = map[v]
  BY <1>1
<1>3. CASE mem_bitmap' = bitmap /\ pte' = map /\ panics \subseteq panics'
  BY <1>3
<1>4. CASE ksbrk(bitmap, map, said)
  BY <1>2, <1>4 DEF ksbrk
<1> QED
  BY <1>3, <1>4 DEF kmalloc

(* The place that page_free's search finds fits: v is in use, so it is in  *)
(* none of the areas, and those that start below it end by it.             *)
LEMMA PlaceFits ==
    ASSUME ListInv, NEW v \in PageHeap, pte[v] # 0,
           NEW n \in 1 .. Len(kern_free_vm) + 1, IsNext(n, v)
    PROVE  Fits(kern_free_vm, n, v)
<1> DEFINE s == kern_free_vm
<1>0. v \in Nat /\ s \in Seq(Area)
  BY PagesAssumption DEF PageHeap, ListInv, AreasOK
<1>n. \A i \in 1 .. Len(s) : s[i].vm_start \in Nat /\ s[i].vm_end \in Nat
  <2>1. \A i \in 1 .. Len(s) : s[i] \in Area
    BY <1>0
  <2> QED
    BY <2>1 DEF Area
<1>1. ~Holds(s, v)
  BY DEF ListInv, Agree
<1>2. ASSUME NEW i \in 1 .. Len(s), i < n PROVE s[i].vm_end <= v
  <2>1. s[i].vm_start <= v
    BY <1>2 DEF IsNext
  <2> QED
    BY <2>1, <1>0, <1>1, <1>n DEF Holds
<1>3. ASSUME NEW i \in 1 .. Len(s), n <= i PROVE v < s[i].vm_start
  <2>1. n \in 1 .. Len(s) /\ v < s[n].vm_start
    BY <1>3 DEF IsNext
  <2>2. CASE i = n
    BY <2>1, <2>2
  <2>3. CASE n < i
    <3>1. s[n].vm_end < s[i].vm_start /\ s[n].vm_start < s[n].vm_end
      BY <2>1, <2>3 DEF ListInv, Sorted
    <3> QED
      BY <2>1, <3>1, <1>0, <1>n
  <2> QED
    BY <1>3, <2>1, <2>2, <2>3
<1> QED
  BY <1>2, <1>3 DEF Fits, ListInv

(* In each case but that of the message the list stays sorted and gains    *)
(* the page (page_free).                                                   *)
LEMMA FreedIsListed ==
    ASSUME ListInv, NEW v \in PageHeap, pte[v] # 0,
           NEW n \in 1 .. Len(kern_free_vm) + 1, IsNext(n, v),
           NEW start \in NextStarts(n),
           \/ FreeGrowPrev(v, n, start)
           \/ FreeGrowNext(v, n, start)
           \/ FreeInsert(v, n, start)
    PROVE  /\ Sorted(kern_free_vm')
           /\ \A w \in Int : Holds(kern_free_vm', w) <=> Holds(kern_free_vm, w) \/ w = v
<1> DEFINE s == kern_free_vm
<1>0. v \in Nat /\ s \in Seq(Area) /\ n \in Nat /\ Len(s) \in Nat
  BY PagesAssumption DEF PageHeap, ListInv, AreasOK
<1>f. Fits(s, n, v)
  BY PlaceFits
<1>a. \A i \in 1 .. Len(s) : s[i] \in Area
  BY <1>0
<1>n. \A i \in 1 .. Len(s) : s[i].vm_start \in Nat /\ s[i].vm_end \in Nat
  BY <1>a DEF Area
<1>e. \A i \in 1 .. Len(s) : \A e \in Nat :
        /\ [s EXCEPT ![i].vm_end = e] \in Seq(Area)
        /\ Len([s EXCEPT ![i].vm_end = e]) = Len(s)
        /\ \A j \in 1 .. Len(s) :
             /\ [s EXCEPT ![i].vm_end = e][j].vm_start = s[j].vm_start
             /\ [s EXCEPT ![i].vm_end = e][j].vm_end = IF j = i THEN e ELSE s[j].vm_end
  <2> SUFFICES ASSUME NEW i \in 1 .. Len(s), NEW e \in Nat
               PROVE  /\ [s EXCEPT ![i].vm_end = e] \in Seq(Area)
                      /\ Len([s EXCEPT ![i].vm_end = e]) = Len(s)
                      /\ \A j \in 1 .. Len(s) :
                           /\ [s EXCEPT ![i].vm_end = e][j].vm_start = s[j].vm_start
                           /\ [s EXCEPT ![i].vm_end = e][j].vm_end
                                = IF j = i THEN e ELSE s[j].vm_end
    OBVIOUS
  <2> DEFINE a == [s[i] EXCEPT !.vm_end = e]
  <2>1. a \in Area /\ a.vm_start = s[i].vm_start /\ a.vm_end = e
    BY <1>a DEF Area
  <2>2. [s EXCEPT ![i].vm_end = e] = [s EXCEPT ![i] = a]
    OBVIOUS
  <2> HIDE DEF a
  <2>3. /\ [s EXCEPT ![i] = a] \in Seq(Area)
        /\ Len([s EXCEPT ![i] = a]) = Len(s)
        /\ \A j \in 1 .. Len(s) : [s EXCEPT ![i] = a][j] = IF j = i THEN a ELSE s[j]
    BY <2>1, <1>0, ExceptSeq
  <2> QED
    BY <2>1, <2>2, <2>3
<1> USE DEF s
<1>1. CASE FreeGrowPrev(v, n, start)
  <2>1. n - 1 \in 1 .. Len(s) /\ s[n - 1].vm_end = v /\ n \in 2 .. Len(s) + 1
    BY <1>1, <1>0 DEF FreeGrowPrev, EndsAt
  <2>2. CASE start = v + 1
    <3>0. n \in 1 .. Len(s)
      BY <2>2, PlaceOfNext
    <3>1. n \in 2 .. Len(s) /\ n \in 1 .. Len(s)
      BY <2>1, <3>0, <1>0
    <3>2. s[n].vm_start = v + 1
      BY <2>2, <3>1 DEF NextStarts
    <3> DEFINE g == [s EXCEPT ![n - 1].vm_end = s[n].vm_end]
               t == RemoveAt(g, n)
    <3>3. kern_free_vm' = t
      BY <1>1, <2>2 DEF FreeGrowPrev
    <3>4. /\ g \in Seq(Area) /\ Len(g) = Len(s)
          /\ \A j \in 1 .. Len(s) :
               /\ g[j].vm_start = s[j].vm_start
               /\ g[j].vm_end = IF j = n - 1 THEN s[n].vm_end ELSE s[j].vm_end
      <4>1. n - 1 \in 1 .. Len(s) /\ s[n].vm_end \in Nat
        BY <2>1, <3>1, <1>n
      <4> HIDE DEF s
      <4> QED
        BY <4>1, <1>e
    <3> HIDE DEF g
    <3>5. /\ t \in Seq(Area) /\ Len(t) = Len(s) - 1
          /\ \A j \in 1 .. Len(t) : t[j] = IF j < n THEN g[j] ELSE g[j + 1]
      <4>1. t = SubSeq(g, 1, n - 1) \o SubSeq(g, n + 1, Len(g))
        BY DEF RemoveAt
      <4>2. /\ SubSeq(g, 1, n - 1) \in Seq(Area)
            /\ Len(SubSeq(g, 1, n - 1)) = n - 1
            /\ \A j \in 1 .. n - 1 : SubSeq(g, 1, n - 1)[j] = g[j]
        BY <3>1, <3>4
      <4>3. /\ SubSeq(g, n + 1, Len(g)) \in Seq(Area)
            /\ Len(SubSeq(g, n + 1, Len(g))) = Len(g) - n
            /\ \A j \in 1 .. Len(g) - n : SubSeq(g, n + 1, Len(g))[j] = g[n + j]
        BY <3>1, <3>4
      <4> DEFINE x == SubSeq(g, 1, n - 1)
                 y == SubSeq(g, n + 1, Len(g))
      <4>4. x \in Seq(Area) /\ y \in Seq(Area) /\ t = x \o y
        BY <4>1, <4>2, <4>3
      <4>5. Len(x) = n - 1 /\ Len(y) = Len(g) - n
        BY <4>2, <4>3
      <4>6. /\ \A j \in 1 .. n - 1 : x[j] = g[j]
            /\ \A j \in 1 .. Len(g) - n : y[j] = g[n + j]
        BY <4>2, <4>3
      <4> HIDE DEF x, y, t
      <4>7. t \in Seq(Area) /\ Len(t) = Len(x) + Len(y)
        BY <4>4
      <4>8. \A j \in 1 .. Len(t) : t[j] = IF j <= Len(x) THEN x[j] ELSE y[j - Len(x)]
        BY <4>4
      <4>9. ASSUME NEW j \in 1 .. Len(t) PROVE t[j] = IF j < n THEN g[j] ELSE g[j + 1]
        <5>1. CASE j < n
          BY <5>1, <4>5, <4>6, <4>8, <3>1
        <5>2. CASE ~(j < n)
          <6>1. j - (n - 1) \in 1 .. Len(g) - n /\ n + (j - (n - 1)) = j + 1
            BY <5>2, <4>5, <4>7, <3>1, <3>4
          <6>2. t[j] = y[j - (n - 1)]
            BY <5>2, <4>5, <4>8, <3>1
          <6> QED
            BY <5>2, <6>1, <6>2, <4>6
        <5> QED
          BY <5>1, <5>2
      <4> QED
        BY <4>5, <4>7, <4>9, <3>4
    <3> HIDE DEF t
    <3>6. ASSUME NEW j \in 1 .. Len(t)
          PROVE  /\ t[j].vm_start = IF j < n THEN s[j].vm_start ELSE s[j + 1].vm_start
                 /\ t[j].vm_end = IF j < n - 1 THEN s[j].vm_end ELSE s[j + 1].vm_end
      <4>1. j \in 1 .. Len(s) /\ j + 1 \in 1 .. Len(s)
        BY <3>5, <1>0
      <4>2. CASE j < n - 1
        <5>1. t[j] = g[j] /\ j < n /\ j # n - 1
          BY <4>2, <3>5, <3>1
        <5> QED
          BY <4>1, <4>2, <5>1, <3>4
      <4>3. CASE j = n - 1
        <5>1. t[j] = g[j] /\ j < n /\ j + 1 = n
          BY <4>3, <3>5, <3>1
        <5> QED
          BY <4>1, <4>3, <5>1, <3>4
      <4>4. CASE n <= j
        <5>1. t[j] = g[j + 1] /\ ~(j < n) /\ ~(j < n - 1) /\ j + 1 # n - 1
          BY <4>4, <3>5, <3>1
        <5> QED
          BY <4>1, <4>4, <5>1, <3>4
      <4> QED
        BY <4>2, <4>3, <4>4, <3>1
    <3>7. /\ Sorted(t)
          /\ \A w \in Int : Holds(t, w) <=> Holds(s, w) \/ w = v
      <4>1. t \in Seq(Area) /\ Len(t) = Len(s) - 1
        BY <3>5
      <4>2. s \in Seq(Area) /\ n \in 2 .. Len(s) /\ Fits(s, n, v)
            /\ s[n - 1].vm_end = v /\ s[n].vm_start = v + 1
        BY <3>1, <3>2, <2>1, <1>0, <1>f
      <4>3. Merged(s, t, n)
        BY <3>6, <4>1 DEF Merged
      <4> HIDE DEF s
      <4> QED
        BY <4>2, <4>3, MergeSorted
    <3> QED
      BY <3>3, <3>7
  <2>3. CASE start # v + 1
    <3> DEFINE t == [s EXCEPT ![n - 1].vm_end = v + 1]
    <3>1. kern_free_vm' = t
      BY <1>1, <2>3 DEF FreeGrowPrev
    <3>2. n \in 1 .. Len(s) => v + 1 < s[n].vm_start
      <4> SUFFICES ASSUME n \in 1 .. Len(s) PROVE v + 1 < s[n].vm_start
        OBVIOUS
      <4>1. start = s[n].vm_start /\ v < s[n].vm_start
        BY <1>f DEF NextStarts, Fits
      <4> QED
        BY <4>1, <2>3, <1>0, <1>n
    <3>3. /\ t \in Seq(Area) /\ Len(t) = Len(s)
          /\ \A j \in 1 .. Len(s) :
               /\ t[j].vm_start = s[j].vm_start
               /\ t[j].vm_end = IF j = n - 1 THEN v + 1 ELSE s[j].vm_end
      <4>1. n - 1 \in 1 .. Len(s) /\ v + 1 \in Nat
        BY <2>1, <1>0
      <4> HIDE DEF s
      <4> QED
        BY <4>1, <1>e
    <3> HIDE DEF t
    <3>4. /\ Sorted(t)
          /\ \A w \in Int : Holds(t, w) <=> Holds(s, w) \/ w = v
      <4>1. s \in Seq(Area) /\ n \in 2 .. Len(s) + 1 /\ Fits(s, n, v) /\ s[n - 1].vm_end = v
        BY <2>1, <1>0, <1>f
      <4>2. Grown(s, t, n, v)
        BY <3>3 DEF Grown
      <4> HIDE DEF s
      <4> QED
        BY <4>1, <4>2, <3>2, GrowSorted
    <3> QED
      BY <3>1, <3>4
  <2> QED
    BY <2>2, <2>3
<1>2. ASSUME ~EndsAt(n - 1, v)
      PROVE  \A i \in 1 .. Len(s) : i = n - 1 => s[i].vm_end # v
  BY <1>2 DEF EndsAt
<1>3. CASE FreeGrowNext(v, n, start)
  <2>1. n \in 1 .. Len(s) /\ s[n].vm_start = v + 1
    BY <1>3, PlaceOfNext DEF FreeGrowNext, NextStarts
  <2> DEFINE a == [s[n] EXCEPT !.vm_start = v]
             t == [s EXCEPT ![n] = a]
  <2>2. kern_free_vm' = t
    BY <1>3 DEF FreeGrowNext
  <2>3. a \in Area /\ a.vm_start = v /\ a.vm_end = s[n].vm_end
    BY <2>1, <1>0, <1>a DEF Area
  <2> HIDE DEF a
  <2>4. /\ t \in Seq(Area) /\ Len(t) = Len(s)
        /\ \A j \in 1 .. Len(s) : t[j] = IF j = n THEN a ELSE s[j]
    BY <2>1, <2>3, <1>0, ExceptSeq
  <2>5. \A j \in 1 .. Len(s) :
          /\ t[j].vm_start = IF j = n THEN v ELSE s[j].vm_start
          /\ t[j].vm_end = s[j].vm_end
    BY <2>3, <2>4
  <2> HIDE DEF t
  <2>6. \A i \in 1 .. Len(s) : i = n - 1 => s[i].vm_end # v
    BY <1>2, <1>3 DEF FreeGrowNext
  <2>7. t \in Seq(Area) /\ Len(t) = Len(s)
    BY <2>4
  <2>8. /\ Sorted(t)
        /\ \A w \in Int : Holds(t, w) <=> Holds(s, w) \/ w = v
    <3>1. s \in Seq(Area) /\ n \in 1 .. Len(s) /\ Fits(s, n, v) /\ s[n].vm_start = v + 1
      BY <2>1, <1>0, <1>f
    <3>2. GrownDown(s, t, n, v)
      BY <2>5, <2>7 DEF GrownDown
    <3> HIDE DEF s
    <3> QED
      BY <3>1, <3>2, <2>6, GrowDownSorted
  <2> QED
    BY <2>2, <2>8
<1>4. CASE FreeInsert(v, n, start)
  <2> DEFINE new == [vm_start |-> v, vm_end |-> v + 1]
             t == InsertAt(s, n, new)
  <2>1. kern_free_vm' = t
    BY <1>4 DEF FreeInsert
  <2>2. \A i \in 1 .. Len(s) : i = n => v + 1 < s[i].vm_start
    BY <1>4 DEF FreeInsert, NextStarts
  <2>3. new \in Area
    BY <1>0 DEF Area
  <2> HIDE DEF new
  <2> DEFINE x == SubSeq(s, 1, n - 1)
             y == SubSeq(s, n, Len(s))
  <2>4. x \in Seq(Area) /\ Len(x) = n - 1 /\ \A j \in 1 .. n - 1 : x[j] = s[j]
    BY <1>0
  <2>5. /\ y \in Seq(Area) /\ Len(y) = Len(s) - n + 1
        /\ \A j \in 1 .. Len(s) - n + 1 : y[j] = s[n + j - 1]
    BY <1>0
  <2>6. t = x \o <<new>> \o y
    BY DEF InsertAt
  <2> HIDE DEF x, y, t
  <2>7. /\ x \o <<new>> \in Seq(Area) /\ Len(x \o <<new>>) = n
        /\ \A j \in 1 .. n : (x \o <<new>>)[j] = IF j < n THEN s[j] ELSE new
    BY <2>3, <2>4, <1>0
  <2> DEFINE z == x \o <<new>>
  <2>8. z \in Seq(Area) /\ Len(z) = n /\ t = z \o y
    BY <2>6, <2>7
  <2>9. \A j \in 1 .. n : z[j] = IF j < n THEN s[j] ELSE new
    BY <2>7
  <2> HIDE DEF z
  <2>10. t \in Seq(Area) /\ Len(t) = Len(s) + 1
    <3>1. z \o y \in Seq(Area) /\ Len(z \o y) = Len(z) + Len(y)
      BY <2>5, <2>8, ConcatProperties
    <3> QED
      BY <3>1, <2>5, <2>8, <1>0
  <2>11. \A j \in 1 .. Len(t) : t[j] = IF j <= n THEN z[j] ELSE y[j - n]
    BY <2>5, <2>8, <1>0
  <2>12. ASSUME NEW j \in 1 .. Len(t)
         PROVE  /\ j < n => t[j] = s[j]
                /\ j = n => t[j] = new
                /\ n < j => t[j] = s[j - 1]
    <3>1. j <= n => t[j] = z[j] /\ j \in 1 .. n
      BY <2>11, <1>0
    <3>2. ASSUME n < j PROVE t[j] = s[j - 1]
      <4>1. j - n \in 1 .. Len(s) - n + 1 /\ n + (j - n) - 1 = j - 1
        BY <3>2, <2>10, <1>0
      <4>2. t[j] = y[j - n]
        BY <3>2, <2>11, <1>0
      <4> QED
        BY <4>1, <4>2, <2>5
    <3> QED
      BY <3>1, <3>2, <2>9, <1>0
  <2>13. \A i \in 1 .. Len(s) : i = n - 1 => s[i].vm_end # v
    BY <1>2, <1>4 DEF FreeInsert
  <2>14. /\ Sorted(t)
         /\ \A w \in Int : Holds(t, w) <=> Holds(s, w) \/ w = v
    <3>1. s \in Seq(Area) /\ v \in PageHeap /\ n \in 1 .. Len(s) + 1 /\ Fits(s, n, v)
      BY <1>0, <1>f
    <3>2. Inserted(s, t, n, v)
      BY <2>10, <2>12 DEF Inserted, new
    <3> HIDE DEF s
    <3> QED
      BY <3>1, <3>2, <2>2, <2>13, InsertSorted
  <2> QED
    BY <2>1, <2>14
<1> QED
  BY <1>1, <1>3, <1>4

LEMMA InitList == Init => ListInv
<1> SUFFICES ASSUME Init PROVE ListInv
  OBVIOUS
<1> DEFINE area == [vm_start |-> KERN_PG_HEAP, vm_end |-> KERN_HEAP]
<1>1. area \in Area
  BY PagesAssumption DEF Area
<1>2. /\ kern_free_vm \in Seq(Area) /\ Len(kern_free_vm) = 1
      /\ kern_free_vm[1].vm_start = KERN_PG_HEAP
      /\ kern_free_vm[1].vm_end = KERN_HEAP
  BY <1>1 DEF Init
<1>3. Sorted(kern_free_vm)
  BY <1>2, PagesAssumption DEF Sorted
<1>4. ASSUME NEW v \in PageHeap PROVE Holds(kern_free_vm, v) /\ pte[v] = 0
  <2>1. v \in VPages /\ v # KERN_HEAP /\ KERN_PG_HEAP <= v /\ v < KERN_HEAP
    BY PagesAssumption DEF PageHeap, VPages
  <2> QED
    BY <1>2, <2>1 DEF Init, Holds
<1>5. 0 \in mem_bitmap
  BY FramesAssumption DEF Init
<1> QED
  BY <1>2, <1>3, <1>4, <1>5 DEF ListInv, AreasOK, Agree

LEMMA NextList == FramesInv /\ ListInv /\ [Next]_vars => ListInv'
<1> SUFFICES ASSUME FramesInv, ListInv, [Next]_vars PROVE ListInv'
  OBVIOUS
<1>a. AreasOK'
  BY AreasNext DEF ListInv
<1>f. /\ pte \in [VPages -> Frames] /\ kern_heap \in KERN_HEAP .. USER_OFFSET
      /\ kern_free_vm \in Seq(Area) /\ 0 \in mem_bitmap
      /\ Sorted(kern_free_vm) /\ Agree(kern_free_vm, pte, panics)
  BY DEF FramesInv, Sound, ListInv, AreasOK
<1>p. PageHeap \subseteq VPages /\ PageHeap \subseteq Int
  BY PagesAssumption DEF PageHeap, VPages
<1>u. UserPages \cap PageHeap = {}
  BY PagesAssumption DEF PageHeap, UserPages
<1>1. CASE PageNew
  <2> DEFINE first == kern_free_vm[1].vm_start
  <2>1. kern_free_vm # <<>> /\ kern_free_vm' = TakeFirst(kern_free_vm)
    BY <1>1 DEF PageNew
  <2>2. Head(kern_free_vm) = kern_free_vm[1]
    BY <2>1
  <2>3. PICK f \in Frames :
         /\ page_frame_aquire(mem_bitmap, f)
         /\ kmalloc(mem_bitmap \cup {f}, [pte EXCEPT ![first] = f],
                    IF Negative(f) THEN {"no_frame"} ELSE {})
    BY <1>1, <2>2 DEF PageNew
  <2>4. f # 0
    BY <1>f, <2>3, AquireNotZero
  <2>5. /\ Sorted(kern_free_vm')
        /\ \A w \in Int : Holds(kern_free_vm', w) <=> Holds(kern_free_vm, w) /\ w # first
    BY <1>f, <2>1, TakeFirstSorted
  <2>6. [pte EXCEPT ![first] = f] \in [VPages -> Frames] /\ 0 \in mem_bitmap \cup {f}
    BY <1>f
  <2>7. /\ 0 \in mem_bitmap'
        /\ \A v \in PageHeap : pte'[v] = [pte EXCEPT ![first] = f][v]
        /\ panics \subseteq panics'
    BY <1>f, <2>3, <2>6, KmallocKeepsPages
  <2>8. \A v \in PageHeap : pte'[v] = IF v = first THEN f ELSE pte[v]
    BY <1>f, <1>p, <2>7
  <2>9. Agree(kern_free_vm', pte', panics')
    BY <1>f, <1>p, <2>4, <2>5, <2>7, <2>8 DEF Agree
  <2> QED
    BY <1>a, <2>5, <2>7, <2>9 DEF ListInv
<1>2. CASE PageNewNoArea
  BY <1>2, <1>f, <1>a DEF PageNewNoArea, ListInv, Agree
<1>3. ASSUME NEW v \in PageHeap, PageFree(v) PROVE ListInv'
  <2>1. PICK n \in 1 .. Len(kern_free_vm) + 1 :
          /\ IsNext(n, v)
          /\ \E start \in NextStarts(n) :
              \/ FreeGrowPrev(v, n, start)
              \/ FreeGrowNext(v, n, start)
              \/ FreeInsert(v, n, start)
              \/ FreeCorrupted(v, n, start)
    BY <1>3 DEF PageFree
  <2>2. PICK start \in NextStarts(n) :
              \/ FreeGrowPrev(v, n, start)
              \/ FreeGrowNext(v, n, start)
              \/ FreeInsert(v, n, start)
              \/ FreeCorrupted(v, n, start)
    BY <2>1
  <2>3. pte[v] # 0
    BY <1>3 DEF PageFree
  <2>4. 0 \in Released(v) /\ Unmapped(v) \in [VPages -> Frames]
    <3>1. 0 \in Frames
      BY FramesAssumption DEF Frames
    <3> QED
      BY <1>f, <2>3, <3>1 DEF Released, Unmapped
  <2>5. /\ 0 \in mem_bitmap'
        /\ \A w \in PageHeap : pte'[w] = Unmapped(v)[w]
        /\ panics \subseteq panics'
    <3>1. CASE NoKmalloc(v) /\ panics \subseteq panics'
      BY <2>4, <3>1 DEF NoKmalloc
    <3>2. CASE kmalloc(Released(v), Unmapped(v), {})
      BY <1>f, <2>4, <3>2, KmallocKeepsPages
    <3> QED
      BY <2>2, <3>1, <3>2 DEF FreeGrowPrev, FreeGrowNext, FreeInsert, FreeCorrupted
  <2>6. \A w \in PageHeap : pte'[w] = IF w = v THEN 0 ELSE pte[w]
    BY <1>f, <1>p, <2>5 DEF Unmapped
  <2>7. CASE FreeCorrupted(v, n, start)
    <3>1. kern_free_vm' = kern_free_vm /\ "corrupted" \in panics'
      BY <2>7 DEF FreeCorrupted
    <3>2. Agree(kern_free_vm', pte', panics')
      BY <1>f, <2>6, <3>1 DEF Agree
    <3>3. Sorted(kern_free_vm')
      BY <1>f, <3>1
    <3> QED
      BY <1>a, <2>5, <3>2, <3>3 DEF ListInv
  <2>8. CASE \/ FreeGrowPrev(v, n, start)
             \/ FreeGrowNext(v, n, start)
             \/ FreeInsert(v, n, start)
    <3>1. /\ Sorted(kern_free_vm')
          /\ \A w \in Int : Holds(kern_free_vm', w) <=> Holds(kern_free_vm, w) \/ w = v
      BY <2>1, <2>3, <2>8, FreedIsListed
    <3>2. Agree(kern_free_vm', pte', panics')
      BY <1>f, <1>p, <2>5, <2>6, <3>1 DEF Agree
    <3> QED
      BY <1>a, <2>5, <3>1, <3>2 DEF ListInv
  <2> QED
    BY <2>2, <2>7, <2>8
<1>4. ASSUME NEW u \in UserPages, UserMap(u) PROVE ListInv'
  <2>1. \A v \in PageHeap : pte'[v] = pte[v]
    BY <1>4, <1>f, <1>p, <1>u DEF UserMap
  <2>2. 0 \in mem_bitmap' /\ UNCHANGED <<kern_free_vm, panics>>
    BY <1>4, <1>f DEF UserMap
  <2> QED
    BY <1>a, <1>f, <2>1, <2>2 DEF ListInv, Agree
<1>5. ASSUME NEW u \in UserPages, UserRelease(u) PROVE ListInv'
  <2>1. \A v \in PageHeap : pte'[v] = pte[v]
    BY <1>5, <1>f, <1>p, <1>u DEF UserRelease
  <2>2. 0 \in mem_bitmap' /\ UNCHANGED <<kern_free_vm, panics>>
    BY <1>5, <1>f DEF UserRelease
  <2> QED
    BY <1>a, <1>f, <2>1, <2>2 DEF ListInv, Agree
<1>6. CASE Kmalloc
  <2>1. /\ 0 \in mem_bitmap'
        /\ \A v \in PageHeap : pte'[v] = pte[v]
        /\ panics \subseteq panics'
    BY <1>6, <1>f, KmallocKeepsPages DEF Kmalloc
  <2>2. kern_free_vm' = kern_free_vm
    BY <1>6 DEF Kmalloc
  <2> QED
    BY <1>a, <1>f, <2>1, <2>2 DEF ListInv, Agree
<1>7. CASE UNCHANGED vars
  BY <1>7, <1>f, <1>a DEF vars, ListInv, Agree
<1> QED
  BY <1>1, <1>2, <1>3, <1>4, <1>5, <1>6, <1>7 DEF Next

LEMMA ListInvariant == Spec => []ListInv
<1> USE InitList, NextList, FramesInvariant
<1> QED
  BY PTL DEF Spec

(* The areas that page_new takes from and page_free searches are always in *)
(* order, not empty, inside the page heap and apart from each other.       *)
THEOREM FreeListOrderedAlways == Spec => []FreeListOrdered
<1>1. ListInv => FreeListOrdered
  <2> SUFFICES ASSUME ListInv PROVE FreeListOrdered
    OBVIOUS
  <2>1. Sorted(kern_free_vm) /\ Len(kern_free_vm) \in Nat
    BY DEF ListInv, AreasOK
  <2>2. \A i \in 1 .. Len(kern_free_vm) - 1 :
          i \in 1 .. Len(kern_free_vm) /\ i + 1 \in 1 .. Len(kern_free_vm) /\ i < i + 1
    BY <2>1
  <2> QED
    BY <2>1, <2>2 DEF Sorted, FreeListOrdered
<1> QED
  BY <1>1, ListInvariant, PTL

(* A page of the page heap is on the free list exactly when no frame is    *)
(* behind it: page_new never hands out a page in use, and page_free loses  *)
(* none unless it says that the list is corrupted.                         *)
THEOREM ListedIffUnmappedAlways == Spec => []ListedIffUnmapped
<1>1. ListInv => ListedIffUnmapped
  BY DEF ListInv, Agree, ListedIffUnmapped, Listed, Holds
<1> QED
  BY <1>1, ListInvariant, PTL
=============================================================================

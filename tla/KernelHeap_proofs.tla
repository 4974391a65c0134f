------------------------- MODULE KernelHeap_proofs -------------------------
(***************************************************************************)
(* Proofs about the kernel heap, for every page size, header size, heap    *)
(* and set of request sizes the assumptions allow.                         *)
(*                                                                         *)
(* KernelHeap, one call at a time: the blocks that are out never overlap,  *)
(* and the heap implements the module Allocator.                           *)
(*                                                                         *)
(* HeapRace, step by step, with interrupts disabled throughout: kmalloc    *)
(* and kfree hand out disjoint blocks, and their walk from chunk to chunk  *)
(* meets every block and ends at the end of the heap.  (With the timer let *)
(* in between their steps neither holds.)  The argument: there is a set M  *)
(* of addresses, the true starts of chunks, on which the headers are       *)
(* right, whatever memory holds elsewhere.  A cut adds an address to M,    *)
(* and a merge takes one out.                                              *)
(***************************************************************************)
EXTENDS KernelHeap, HeapRace, Induction, FiniteSetTheorems, FunctionTheorems, TLAPS

USE HeapAssumption

(* The chunks of cs lie apart between KERN_HEAP and limit.                 *)
Shaped(cs, limit) ==
    /\ cs \subseteq Chunk
    /\ \A c \in cs : c.size > 0 /\ KERN_HEAP <= c.start /\ EndOf(c) <= limit
    /\ \A c, d \in cs : c # d => EndOf(c) <= d.start \/ EndOf(d) <= c.start

(* Every block of hs has a used chunk of cs to itself.                     *)
OwnedIn(hs, cs) ==
    /\ hs \subseteq Block
    /\ \A b \in hs : b.size \in Sizes
    /\ \A b \in hs : \E c \in cs :
         c.used /\ c.start + HEADER = b.ptr /\ b.ptr + b.size <= EndOf(c)
    /\ \A a, b \in hs : a.ptr = b.ptr => a = b

HeapInv ==
    /\ kern_heap \in Nat /\ top \in Nat
    /\ KERN_HEAP <= top /\ top <= kern_heap /\ kern_heap <= KERN_HEAP_LIM
    /\ Shaped(chunks, top)
    /\ OwnedIn(held, chunks)

(* Two blocks with chunks of their own are apart.                          *)
LEMMA OwnersApart ==
    ASSUME NEW cs, NEW hs, NEW limit \in Nat,
           Shaped(cs, limit), OwnedIn(hs, cs)
    PROVE  \A a, b \in hs : a # b => Promise!Apart(a, b)
<1> SUFFICES ASSUME NEW a \in hs, NEW b \in hs, a # b
             PROVE  Promise!Apart(a, b)
  OBVIOUS
<1>1. PICK c \in cs : c.start + HEADER = a.ptr /\ a.ptr + a.size <= EndOf(c)
  BY DEF OwnedIn
<1>2. PICK d \in cs : d.start + HEADER = b.ptr /\ b.ptr + b.size <= EndOf(d)
  BY DEF OwnedIn
<1>3. /\ c.start \in Nat /\ d.start \in Nat /\ c.size \in Nat /\ d.size \in Nat
      /\ a.ptr \in Nat /\ b.ptr \in Nat /\ a.size \in Nat /\ b.size \in Nat
  BY DEF Shaped, OwnedIn, Chunk, Block
<1>4. c # d
  BY <1>1, <1>2, <1>3 DEF OwnedIn
<1>5. EndOf(c) <= d.start \/ EndOf(d) <= c.start
  BY <1>4 DEF Shaped
<1> QED
  BY <1>1, <1>2, <1>3, <1>5 DEF EndOf, Promise!Apart

LEMMA RealSizeCovers ==
    ASSUME NEW asked \in Sizes
    PROVE  /\ asked \in Nat /\ asked > 0
           /\ RealSize(asked) \in Nat
           /\ HEADER + asked <= RealSize(asked)
BY DEF RealSize

(* Handing out a free chunk, whole or cut, keeps the chunks apart and      *)
(* gives the new block a chunk that was nobody's.                          *)
LEMMA HandSound ==
    ASSUME NEW cs, NEW limit \in Nat, NEW asked \in Sizes, NEW c \in cs,
           Shaped(cs, limit), OwnedIn(held, cs),
           Fits(c, RealSize(asked))
    PROVE  /\ Shaped(Place(cs, c, RealSize(asked)), limit)
           /\ OwnedIn(Hand(c, asked), Place(cs, c, RealSize(asked)))
           /\ [ptr |-> c.start + HEADER, size |-> asked] \notin held
<1> DEFINE real == RealSize(asked)
           rest == [start |-> c.start + real, size |-> c.size - real, used |-> FALSE]
           whole == [start |-> c.start, size |-> c.size, used |-> TRUE]
           cut == [start |-> c.start, size |-> real, used |-> TRUE]
           new == [ptr |-> c.start + HEADER, size |-> asked]
           cs2 == Place(cs, c, real)
<1>1. /\ c.start \in Nat /\ c.size \in Nat /\ real \in Nat /\ asked \in Nat
      /\ asked > 0 /\ HEADER + asked <= real /\ real <= c.size /\ ~c.used
      /\ KERN_HEAP <= c.start /\ c.start + c.size <= limit
  BY RealSizeCovers DEF Shaped, Chunk, Fits, EndOf
<1>2. \/ cs2 = (cs \ {c}) \cup {whole}
      \/ /\ c.size - real >= KMALLOC_MINSIZE
         /\ cs2 = (cs \ {c}) \cup {cut, rest}
  <2> HIDE DEF real
  <2> QED
    BY <1>1 DEF Place
<1>3. \A d \in cs : d # c => d \in cs2
  BY <1>2
<1>4. \A d \in cs : d # c => EndOf(d) <= c.start \/ c.start + c.size <= d.start
  BY DEF Shaped, EndOf
<1>5. Shaped(cs2, limit)
  <2> HIDE DEF real, cs2
  <2>1. CASE cs2 = (cs \ {c}) \cup {whole}
    <3>1. EndOf(whole) = c.start + c.size
      BY <1>1 DEF EndOf
    <3>2. whole \in Chunk
      BY <1>1 DEF Chunk
    <3>3. \A d \in cs \ {c} :
            EndOf(d) <= whole.start \/ EndOf(whole) <= d.start
      BY <1>4, <3>1
    <3>4. /\ whole.size > 0 /\ KERN_HEAP <= whole.start
          /\ EndOf(whole) <= limit
      BY <1>1, <3>1
    <3> HIDE DEF whole
    <3> QED
      BY <2>1, <3>2, <3>3, <3>4 DEF Shaped
  <2>2. CASE /\ c.size - real >= KMALLOC_MINSIZE
             /\ cs2 = (cs \ {c}) \cup {cut, rest}
    <3>1. EndOf(cut) = c.start + real /\ EndOf(rest) = c.start + c.size
      BY <1>1 DEF EndOf
    <3>2. cut \in Chunk /\ rest \in Chunk
      BY <1>1, <2>2 DEF Chunk
    <3>3. /\ cut.start = c.start /\ rest.start = c.start + real
          /\ cut.size > 0 /\ rest.size > 0
      BY <1>1, <2>2
    <3>4. \A d \in cs \ {c} :
            /\ EndOf(d) \in Nat /\ d.start \in Nat
            /\ EndOf(d) <= c.start \/ c.start + c.size <= d.start
      BY <1>4 DEF Shaped, Chunk, EndOf
    <3>5. \A d \in cs \ {c} :
            /\ EndOf(d) <= cut.start \/ EndOf(cut) <= d.start
            /\ EndOf(d) <= rest.start \/ EndOf(rest) <= d.start
      BY <1>1, <3>1, <3>3, <3>4
    <3>6. EndOf(cut) <= rest.start
      BY <1>1, <3>1, <3>3
    <3>7. /\ EndOf(cut) <= limit /\ EndOf(rest) <= limit
          /\ KERN_HEAP <= cut.start /\ KERN_HEAP <= rest.start
      BY <1>1, <2>2, <3>1, <3>3
    <3> HIDE DEF cut, rest
    <3> QED
      BY <2>2, <3>2, <3>3, <3>5, <3>6, <3>7 DEF Shaped
  <2> QED
    BY <1>2, <2>1, <2>2
<1>6. \A b \in held : b.ptr # c.start + HEADER
  <2> SUFFICES ASSUME NEW b \in held, b.ptr = c.start + HEADER PROVE FALSE
    OBVIOUS
  <2>1. PICK d \in cs : d.used /\ d.start + HEADER = b.ptr
    BY DEF OwnedIn
  <2>2. d.start \in Nat /\ d.size \in Nat /\ d.size > 0
    BY DEF Shaped, Chunk
  <2>3. d.start = c.start /\ d # c
    BY <1>1, <2>1, <2>2
  <2> QED
    BY <1>1, <1>4, <2>2, <2>3 DEF EndOf
<1>7. \E d \in cs2 : d.used /\ d.start + HEADER = new.ptr /\ new.ptr + new.size <= EndOf(d)
  <2>1. /\ whole.used /\ whole.start = c.start /\ EndOf(whole) = c.start + c.size
        /\ cut.used /\ cut.start = c.start /\ EndOf(cut) = c.start + real
        /\ new.ptr = c.start + HEADER /\ new.size = asked
    BY <1>1 DEF EndOf
  <2>2. whole \in cs2 \/ cut \in cs2
    BY <1>2
  <2> HIDE DEF whole, cut, new, cs2, real
  <2> QED
    BY <1>1, <2>1, <2>2
<1>8. \A b \in held : \E d \in cs2 :
        d.used /\ d.start + HEADER = b.ptr /\ b.ptr + b.size <= EndOf(d)
  BY <1>1, <1>3 DEF OwnedIn
<1>9. OwnedIn(Hand(c, asked), cs2)
  <2>1. Hand(c, asked) = held \cup {new} /\ new \in Block /\ new.size \in Sizes
    BY <1>1 DEF Hand, Block
  <2>2. \A b \in held : b.ptr # new.ptr
    BY <1>6
  <2> HIDE DEF new, cs2
  <2> QED
    BY <1>7, <1>8, <2>1, <2>2 DEF OwnedIn
<1> QED
  BY <1>5, <1>6, <1>9

(* The pages ksbrk adds for a request are enough for it.                   *)
LEMMA PagesEnough ==
    ASSUME NEW real \in Nat
    PROVE  /\ Pages(real) \in Nat
           /\ real <= Pages(real) * PAGESIZE
           /\ Pages(real) * PAGESIZE > 0
BY DEF Pages

LEMMA InitHeap == Init => HeapInv
<1> SUFFICES ASSUME Init PROVE HeapInv
  OBVIOUS
<1> DEFINE c == [start |-> KERN_HEAP, size |-> PAGESIZE, used |-> FALSE]
<1>1. c \in Chunk /\ EndOf(c) = kern_heap /\ c.start = KERN_HEAP /\ c.size > 0
  BY DEF Init, Chunk, EndOf
<1>2. Shaped(chunks, top)
  BY <1>1 DEF Init, Shaped
<1> QED
  BY <1>2 DEF Init, HeapInv, OwnedIn

(* A block handed out of a sound heap is the abstract allocator's step.    *)
LEMMA HandIsAllocate ==
    ASSUME NEW b \in Promise!Block, b \notin held,
           held' = held \cup {b},
           NEW cs, NEW limit \in Nat, Shaped(cs, limit), OwnedIn(held', cs)
    PROVE  Promise!Next
<1>1. \A a \in held : Promise!Apart(a, b)
  BY OwnersApart
<1>2. Promise!Allocate(b)
  BY <1>1 DEF Promise!Allocate
<1> QED
  BY <1>2 DEF Promise!Next

(* A block at the start of a chunk is a block of the abstract allocator.   *)
LEMMA ChunkHoldsBlock ==
    ASSUME NEW cs, Shaped(cs, KERN_HEAP_LIM),
           NEW c \in cs, NEW asked \in Sizes, Fits(c, RealSize(asked))
    PROVE  [ptr |-> c.start + HEADER, size |-> asked] \in Promise!Block
<1>1. /\ c.start \in Nat /\ c.size \in Nat /\ KERN_HEAP <= c.start
      /\ c.start + c.size <= KERN_HEAP_LIM /\ HEADER + asked <= c.size
      /\ asked \in Nat
  BY RealSizeCovers DEF Shaped, Chunk, EndOf, Fits
<1> QED
  BY <1>1 DEF Promise!Block

LEMMA FitHeap ==
    ASSUME HeapInv, NEW asked \in Sizes, KmallocFit(asked)
    PROVE  HeapInv' /\ Promise!Next
<1>1. PICK c \in chunks :
        /\ Fits(c, RealSize(asked))
        /\ chunks' = Place(chunks, c, RealSize(asked))
        /\ held' = Hand(c, asked)
  BY DEF KmallocFit, FirstFit
<1> DEFINE new == [ptr |-> c.start + HEADER, size |-> asked]
<1>2. /\ Shaped(chunks', top) /\ OwnedIn(held', chunks') /\ new \notin held
  BY <1>1, HandSound DEF HeapInv
<1>3. HeapInv'
  BY <1>2 DEF HeapInv, KmallocFit, Shaped, OwnedIn
<1>4. Shaped(chunks, KERN_HEAP_LIM)
  BY DEF HeapInv, Shaped, Chunk, EndOf
<1>5. new \in Promise!Block
  BY <1>1, <1>4, ChunkHoldsBlock
<1>6. held' = held \cup {new}
  BY <1>1 DEF Hand
<1>7. Promise!Next
  <2> HIDE DEF new
  <2>1. top \in Nat
    BY DEF HeapInv
  <2> QED
    BY <1>2, <1>5, <1>6, <2>1, HandIsAllocate
<1> QED
  BY <1>3, <1>7

LEMMA GrowHeap ==
    ASSUME HeapInv, NEW asked \in Sizes, KmallocGrow(asked)
    PROVE  HeapInv' /\ Promise!Next
<1> DEFINE n == Pages(RealSize(asked))
           c == NewChunk(n)
           cs == chunks \cup {c}
           new == [ptr |-> c.start + HEADER, size |-> asked]
<1>1. /\ top = kern_heap
      /\ kern_heap + n * PAGESIZE <= KERN_HEAP_LIM
      /\ kern_heap' = kern_heap + n * PAGESIZE
      /\ top' = kern_heap'
      /\ chunks' = Place(cs, c, RealSize(asked))
      /\ held' = Hand(c, asked)
  BY DEF KmallocGrow, HeapRoom
<1>2. /\ RealSize(asked) \in Nat
      /\ n \in Nat /\ n * PAGESIZE \in Nat
      /\ RealSize(asked) <= n * PAGESIZE /\ n * PAGESIZE > 0
  BY RealSizeCovers, PagesEnough
<1>3. /\ c.start = kern_heap /\ c.size = n * PAGESIZE /\ ~c.used
      /\ EndOf(c) = kern_heap' /\ c \in Chunk
  BY <1>1, <1>2 DEF HeapInv, NewChunk, Chunk, EndOf
<1>4. /\ KERN_HEAP <= kern_heap /\ kern_heap \in Nat /\ kern_heap' \in Nat
      /\ kern_heap <= kern_heap'
  BY <1>1, <1>2 DEF HeapInv
<1>5. Shaped(cs, kern_heap')
  <2>1. \A d \in chunks : EndOf(d) <= kern_heap /\ EndOf(d) \in Nat
    BY <1>1 DEF HeapInv, Shaped, Chunk, EndOf
  <2> HIDE DEF c, n
  <2> QED
    BY <1>2, <1>3, <1>4, <2>1 DEF HeapInv, Shaped
<1>6. OwnedIn(held, cs)
  BY DEF HeapInv, OwnedIn
<1>7. Fits(c, RealSize(asked)) /\ c \in cs
  BY <1>2, <1>3 DEF Fits
<1>8. /\ Shaped(chunks', kern_heap') /\ OwnedIn(held', chunks') /\ new \notin held
  <2> HIDE DEF c, n, cs
  <2> QED
    BY <1>1, <1>4, <1>5, <1>6, <1>7, HandSound
<1>9. HeapInv'
  <2> HIDE DEF c, n, cs
  <2>1. Shaped(chunks, top)'
    BY <1>1, <1>8 DEF Shaped
  <2>2. OwnedIn(held, chunks)'
    BY <1>8 DEF OwnedIn
  <2>3. kern_heap' <= KERN_HEAP_LIM
    BY <1>1
  <2> QED
    BY <1>1, <1>4, <2>1, <2>2, <2>3 DEF HeapInv
<1>10. Shaped(cs, KERN_HEAP_LIM)
  <2> HIDE DEF c, n, cs
  <2> QED
    BY <1>1, <1>4, <1>5 DEF Shaped, Chunk, EndOf
<1>11. new \in Promise!Block
  <2> HIDE DEF c, n, cs
  <2> QED
    BY <1>7, <1>10, ChunkHoldsBlock
<1>12. held' = held \cup {new}
  BY <1>1 DEF Hand
<1>13. Promise!Next
  <2> HIDE DEF new
  <2> QED
    BY <1>4, <1>8, <1>11, <1>12, HandIsAllocate
<1> QED
  BY <1>9, <1>13

(* The merge of kfree stops short of every used chunk, so the chunks of    *)
(* the other blocks outlive it.                                            *)
LEMMA FreeHeap ==
    ASSUME HeapInv, NEW b \in held, Kfree(b), b \in Promise!Block
    PROVE  HeapInv' /\ Promise!Next
<1>1. PICK c \in chunks, e \in KERN_HEAP .. top :
        /\ c.start = b.ptr - HEADER
        /\ IsNextUsed(e, c)
        /\ chunks' = {d \in chunks : d.start < c.start \/ d.start >= e}
                \cup {[start |-> c.start, size |-> e - c.start, used |-> FALSE]}
  BY DEF Kfree
<1> DEFINE m == [start |-> c.start, size |-> e - c.start, used |-> FALSE]
<1>2. /\ c.start \in Nat /\ c.size \in Nat /\ c.size > 0
      /\ KERN_HEAP <= c.start /\ EndOf(c) = c.start + c.size /\ EndOf(c) <= top
      /\ e \in Nat /\ e <= top /\ top \in Nat
  BY DEF HeapInv, Shaped, Chunk, EndOf
<1>3. e > c.start
  BY <1>1, <1>2 DEF IsNextUsed
<1>4. m \in Chunk /\ m.size > 0 /\ EndOf(m) = e /\ m.start = c.start
  BY <1>2, <1>3 DEF Chunk, EndOf
<1>5. \A d \in chunks :
        /\ d.start \in Nat /\ d.size \in Nat /\ d.size > 0
        /\ EndOf(d) = d.start + d.size
        /\ d # c => EndOf(d) <= c.start \/ EndOf(c) <= d.start
  BY DEF HeapInv, Shaped, Chunk, EndOf
<1>6. Shaped(chunks', top)
  <2>1. \A d \in chunks : d.start < c.start => EndOf(d) <= m.start
    BY <1>2, <1>4, <1>5
  <2> HIDE DEF m
  <2> QED
    BY <1>1, <1>2, <1>4, <2>1 DEF HeapInv, Shaped, m
<1>7. \A d \in chunks : d.used /\ d # c => d \in chunks'
  <2> SUFFICES ASSUME NEW d \in chunks, d.used, d # c, d.start >= c.start
               PROVE  d.start >= e
    BY <1>1, <1>2, <1>5
  <2>1. d.start > c.start
    BY <1>2, <1>5
  <2> QED
    BY <1>1, <1>2, <1>5, <2>1 DEF IsNextUsed
<1>8. held' = held \ {b}
  BY DEF Kfree
<1>9. OwnedIn(held', chunks')
  <2>1. \A a \in held' : \E d \in chunks' :
          d.used /\ d.start + HEADER = a.ptr /\ a.ptr + a.size <= EndOf(d)
    <3> SUFFICES ASSUME NEW a \in held, a # b
                 PROVE  \E d \in chunks' :
                          d.used /\ d.start + HEADER = a.ptr
                                 /\ a.ptr + a.size <= EndOf(d)
      BY <1>8
    <3>1. PICK d \in chunks :
            d.used /\ d.start + HEADER = a.ptr /\ a.ptr + a.size <= EndOf(d)
      BY DEF HeapInv, OwnedIn
    <3>2. a.ptr # b.ptr /\ b.ptr \in Nat
      BY DEF HeapInv, OwnedIn, Block
    <3>3. d # c
      BY <1>1, <1>2, <3>1, <3>2
    <3> QED
      BY <1>7, <3>1, <3>3
  <2> QED
    BY <1>8, <2>1 DEF HeapInv, OwnedIn
<1>10. HeapInv'
  BY <1>6, <1>9 DEF HeapInv, Kfree, Shaped, OwnedIn
<1>11. Promise!Next
  BY <1>8 DEF Promise!Next, Promise!Free
<1> QED
  BY <1>10, <1>11

LEMMA HeldIsBlock ==
    ASSUME HeapInv, NEW b \in held
    PROVE  b \in Promise!Block
<1>1. PICK c \in chunks :
        c.start + HEADER = b.ptr /\ b.ptr + b.size <= EndOf(c)
  BY DEF HeapInv, OwnedIn
<1>2. /\ c.start \in Nat /\ c.size \in Nat /\ KERN_HEAP <= c.start
      /\ c.start + c.size <= KERN_HEAP_LIM
  BY DEF HeapInv, Shaped, Chunk, EndOf
<1>3. b \in Block /\ b.size \in Sizes
  BY DEF HeapInv, OwnedIn
<1> QED
  BY <1>1, <1>2, <1>3 DEF Block, Promise!Block, EndOf

LEMMA NextHeap ==
    ASSUME HeapInv, Next
    PROVE  HeapInv' /\ (Promise!Next \/ UNCHANGED held)
<1>1. CASE \E asked \in Sizes : KmallocFit(asked)
  BY <1>1, FitHeap
<1>2. CASE \E asked \in Sizes : KmallocGrow(asked)
  BY <1>2, GrowHeap
<1>3. CASE \E asked \in Sizes : KmallocNoFrame(asked)
  <2>1. PICK asked \in Sizes, i \in Nat :
          /\ top = kern_heap
          /\ kern_heap + Pages(RealSize(asked)) * PAGESIZE <= KERN_HEAP_LIM
          /\ i <= Pages(RealSize(asked)) - 1
          /\ kern_heap' = kern_heap + i * PAGESIZE
          /\ UNCHANGED <<chunks, top, held>>
    BY <1>3, RealSizeCovers, PagesEnough DEF KmallocNoFrame, HeapRoom
  <2>2. /\ i * PAGESIZE \in Nat
        /\ i * PAGESIZE <= Pages(RealSize(asked)) * PAGESIZE
    BY <2>1, RealSizeCovers, PagesEnough
  <2>3. Pages(RealSize(asked)) * PAGESIZE \in Nat
    BY RealSizeCovers, PagesEnough
  <2> QED
    BY <2>1, <2>2, <2>3 DEF HeapInv, Shaped, OwnedIn
<1>4. CASE \E asked \in Sizes : KmallocNoAddress(asked)
  BY <1>4 DEF KmallocNoAddress, HeapInv, Shaped, OwnedIn
<1>5. CASE \E asked \in Sizes : KmallocNoHeader(asked)
  BY <1>5 DEF KmallocNoHeader, HeapInv, Shaped, OwnedIn
<1>6. CASE \E b \in held : Kfree(b)
  BY <1>6, FreeHeap, HeldIsBlock
<1> QED
  BY <1>1, <1>2, <1>3, <1>4, <1>5, <1>6 DEF Next

THEOREM HeapInvariant == Spec => []HeapInv
<1>1. HeapInv /\ [Next]_vars => HeapInv'
  <2> SUFFICES ASSUME HeapInv, [Next]_vars PROVE HeapInv'
    OBVIOUS
  <2>1. CASE Next
    BY <2>1, NextHeap
  <2>2. CASE UNCHANGED vars
    BY <2>2 DEF vars, HeapInv, Shaped, OwnedIn
  <2> QED
    BY <2>1, <2>2
<1> QED
  BY InitHeap, <1>1, PTL DEF Spec

(* kmalloc never hands out a byte that somebody else holds, whatever the   *)
(* sequence of kmalloc and kfree calls, the sizes asked for, the growth of *)
(* the heap and the failures of ksbrk in the middle of it.                 *)
THEOREM HeldDisjointAlways == Spec => []HeldDisjoint
<1>1. HeapInv => HeldDisjoint
  <2> SUFFICES ASSUME HeapInv PROVE HeldDisjoint
    OBVIOUS
  <2>1. \A a, b \in held : a # b => Promise!Apart(a, b)
    BY OwnersApart DEF HeapInv
  <2> QED
    BY <2>1 DEF HeldDisjoint, Promise!Apart
<1> QED
  BY HeapInvariant, <1>1, PTL

(* Every block that is out has a used chunk of its own that covers it: no  *)
(* cut, merge or growth of the heap ever reaches into one.                 *)
THEOREM HeldInChunkAlways == Spec => []HeldInChunk
<1>1. HeapInv => HeldInChunk
  BY DEF HeapInv, OwnedIn, HeldInChunk
<1> QED
  BY HeapInvariant, <1>1, PTL

(* kmalloc and kfree implement the abstract allocator: each call is one of *)
(* its steps or changes nothing a caller can see.                          *)
THEOREM HeapImplementsAllocator == Spec => IsAllocator
<1>1. Init => Promise!Init
  BY DEF Init, Promise!Init
<1>2. HeapInv /\ [Next]_vars => [Promise!Next]_held
  <2> SUFFICES ASSUME HeapInv, [Next]_vars
               PROVE  Promise!Next \/ UNCHANGED held
    OBVIOUS
  <2> QED
    BY NextHeap DEF vars
<1> QED
  BY HeapInvariant, <1>1, <1>2, PTL DEF Spec, IsAllocator, Promise!Spec

FateOK == fate \in {"running", "halted", "loop", "garbage"}

(* The allocator's state keeps its shape; above all, kern_heap never       *)
(* passes KERN_HEAP_LIM, however many pages a request asks for.            *)
THEOREM TypeCorrect == Spec => []TypeOK
<1>1. Init => FateOK
  BY DEF Init, FateOK
<1>2. FateOK /\ [Next]_vars => FateOK'
  BY DEF Next, vars, FateOK, KmallocFit, KmallocGrow, KmallocNoFrame,
         HaltOrReturn, KmallocNoAddress, KmallocNoHeader, Kfree
<1>3. HeapInv /\ FateOK => TypeOK
  BY DEF HeapInv, Shaped, OwnedIn, TypeOK, FateOK
<1> QED
  BY <1>1, <1>2, <1>3, HeapInvariant, PTL DEF Spec

-----------------------------------------------------------------------------
(* The walk from header to header: what kmalloc's "null size" and "heap    *)
(* limit" messages and kfree's merge depend on.                            *)

(* The chunks of cs follow each other from KERN_HEAP to limit.             *)
Linked(cs, limit) ==
    /\ \E c \in cs : c.start = KERN_HEAP
    /\ \A c \in cs : EndOf(c) = limit \/ \E d \in cs : d.start = EndOf(c)

(* Every used chunk of cs is the chunk of a block of hs.                   *)
Claimed(cs, hs) == \A c \in cs : c.used => \E b \in hs : b.ptr = c.start + HEADER

(* Handing out a chunk, whole or cut, leaves no gap and no chunk that is   *)
(* used by nobody.                                                         *)
LEMMA PlaceLinked ==
    ASSUME NEW cs, NEW limit \in Nat, NEW asked \in Sizes, NEW c \in cs,
           Shaped(cs, limit), Linked(cs, limit), Claimed(cs, held),
           Fits(c, RealSize(asked))
    PROVE  /\ Linked(Place(cs, c, RealSize(asked)), limit)
           /\ Claimed(Place(cs, c, RealSize(asked)), Hand(c, asked))
<1> DEFINE real == RealSize(asked)
           rest == [start |-> c.start + real, size |-> c.size - real, used |-> FALSE]
           whole == [start |-> c.start, size |-> c.size, used |-> TRUE]
           cut == [start |-> c.start, size |-> real, used |-> TRUE]
           cs2 == Place(cs, c, real)
<1>1. c.start \in Nat /\ c.size \in Nat /\ real \in Nat /\ EndOf(c) = c.start + c.size
  BY RealSizeCovers DEF Shaped, Chunk, EndOf
<1>2. cs2 = (cs \ {c}) \cup {whole} \/ cs2 = (cs \ {c}) \cup {cut, rest}
  <2> HIDE DEF real
  <2> QED
    BY DEF Place
<1>3. \E m \in cs2 : m.start = c.start
  <2>1. whole.start = c.start /\ cut.start = c.start
    OBVIOUS
  <2> HIDE DEF whole, cut, cs2
  <2> QED
    BY <1>2, <2>1
<1>4. \A d \in cs : \E m \in cs2 : m.start = d.start
  BY <1>2, <1>3
<1>5. /\ EndOf(whole) = EndOf(c)
      /\ EndOf(cut) = rest.start
      /\ EndOf(rest) = EndOf(c)
  BY <1>1 DEF EndOf
<1>6. \A m \in cs2 : \/ m \in cs
                     \/ EndOf(m) = EndOf(c)
                     \/ m = cut /\ rest \in cs2
  BY <1>2, <1>5
<1>7. Linked(cs2, limit)
  <2> HIDE DEF cs2, rest, cut, whole, real
  <2>1. \E m \in cs2 : m.start = KERN_HEAP
    BY <1>4 DEF Linked
  <2>2. ASSUME NEW m \in cs2 PROVE EndOf(m) = limit \/ \E d \in cs2 : d.start = EndOf(m)
    <3>1. CASE m \in cs
      BY <3>1, <1>4 DEF Linked
    <3>2. CASE EndOf(m) = EndOf(c)
      BY <3>2, <1>4 DEF Linked
    <3>3. CASE m = cut /\ rest \in cs2
      BY <3>3, <1>5
    <3> QED
      BY <3>1, <3>2, <3>3, <1>6
  <2> QED
    BY <2>1, <2>2 DEF Linked
<1>8. Claimed(cs2, Hand(c, asked))
  <2> DEFINE new == [ptr |-> c.start + HEADER, size |-> asked]
  <2>1. new \in Hand(c, asked) /\ held \subseteq Hand(c, asked) /\ new.ptr = c.start + HEADER
    BY DEF Hand
  <2>2. \A m \in cs2 : m.used => m \in cs \/ m.start = c.start
    BY <1>2
  <2> HIDE DEF cs2, new
  <2> QED
    BY <2>1, <2>2 DEF Claimed
<1> QED
  BY <1>7, <1>8

WalkInv ==
    /\ Linked(chunks, top)
    /\ Claimed(chunks, held)

LEMMA InitWalk == Init => WalkInv
BY DEF Init, WalkInv, Linked, Claimed, EndOf

LEMMA GrowWalk ==
    ASSUME HeapInv, WalkInv, NEW asked \in Sizes, KmallocGrow(asked)
    PROVE  WalkInv'
<1> DEFINE n == Pages(RealSize(asked))
           c == NewChunk(n)
           cs == chunks \cup {c}
<1>1. /\ top = kern_heap
      /\ kern_heap' = kern_heap + n * PAGESIZE
      /\ top' = kern_heap'
      /\ chunks' = Place(cs, c, RealSize(asked))
      /\ held' = Hand(c, asked)
  BY DEF KmallocGrow, HeapRoom
<1>2. /\ RealSize(asked) \in Nat
      /\ n \in Nat /\ n * PAGESIZE \in Nat
      /\ RealSize(asked) <= n * PAGESIZE /\ n * PAGESIZE > 0
  BY RealSizeCovers, PagesEnough
<1>3. /\ c.start = kern_heap /\ c.size = n * PAGESIZE /\ ~c.used
      /\ EndOf(c) = kern_heap' /\ c \in Chunk
  BY <1>1, <1>2 DEF HeapInv, NewChunk, Chunk, EndOf
<1>4. /\ KERN_HEAP <= kern_heap /\ kern_heap \in Nat /\ kern_heap' \in Nat
      /\ kern_heap <= kern_heap'
  BY <1>1, <1>2 DEF HeapInv
<1>5. Shaped(cs, kern_heap')
  <2>1. \A d \in chunks : EndOf(d) <= kern_heap /\ EndOf(d) \in Nat
    BY <1>1 DEF HeapInv, Shaped, Chunk, EndOf
  <2> HIDE DEF c, n
  <2> QED
    BY <1>2, <1>3, <1>4, <2>1 DEF HeapInv, Shaped
<1>6. Linked(cs, kern_heap')
  <2> HIDE DEF c, n
  <2> QED
    BY <1>1, <1>3 DEF WalkInv, Linked
<1>7. Claimed(cs, held)
  <2> HIDE DEF c, n
  <2> QED
    BY <1>3 DEF WalkInv, Claimed
<1>8. Fits(c, RealSize(asked)) /\ c \in cs
  BY <1>2, <1>3 DEF Fits
<1>9. Linked(chunks', kern_heap') /\ Claimed(chunks', held')
  <2> HIDE DEF c, n, cs
  <2> QED
    BY <1>1, <1>4, <1>5, <1>6, <1>7, <1>8, PlaceLinked
<1>10. Linked(chunks, top)'
  BY <1>1, <1>9 DEF Linked
<1>11. Claimed(chunks, held)'
  BY <1>9 DEF Claimed
<1> QED
  BY <1>10, <1>11 DEF WalkInv

(* The merge of kfree ends where the next used chunk or the heap's end is, *)
(* and what it leaves out in between belonged to no one.                   *)
LEMMA FreeWalk ==
    ASSUME HeapInv, WalkInv, NEW b \in held, Kfree(b)
    PROVE  WalkInv'
<1>1. PICK c \in chunks, e \in KERN_HEAP .. top :
        /\ c.start = b.ptr - HEADER
        /\ IsNextUsed(e, c)
        /\ chunks' = {d \in chunks : d.start < c.start \/ d.start >= e}
                \cup {[start |-> c.start, size |-> e - c.start, used |-> FALSE]}
  BY DEF Kfree
<1> DEFINE m == [start |-> c.start, size |-> e - c.start, used |-> FALSE]
<1>2. /\ c.start \in Nat /\ c.size \in Nat /\ c.size > 0
      /\ KERN_HEAP <= c.start /\ EndOf(c) = c.start + c.size /\ EndOf(c) <= top
      /\ e \in Nat /\ e <= top /\ top \in Nat
  BY DEF HeapInv, Shaped, Chunk, EndOf
<1>3. e > c.start
  BY <1>1, <1>2 DEF IsNextUsed
<1>4. EndOf(m) = e /\ m.start = c.start /\ ~m.used /\ m \in chunks'
  BY <1>1, <1>2, <1>3 DEF EndOf
<1>5. \A d \in chunks :
        /\ d.start \in Nat /\ d.size \in Nat /\ d.size > 0 /\ KERN_HEAP <= d.start
        /\ EndOf(d) = d.start + d.size
        /\ d # c => EndOf(d) <= c.start \/ EndOf(c) <= d.start
  BY DEF HeapInv, Shaped, Chunk, EndOf
<1>6. /\ top' = top /\ held' = held \ {b} /\ b.ptr = c.start + HEADER
      /\ \A d : d \in chunks' <=>
                  d = m \/ (d \in chunks /\ (d.start < c.start \/ d.start >= e))
  <2>1. b.ptr \in Nat
    BY DEF HeapInv, OwnedIn, Block
  <2>2. b.ptr = c.start + HEADER
    BY <1>1, <1>2, <2>1
  <2> QED
    BY <1>1, <2>2 DEF Kfree
<1> HIDE DEF m
<1>7. \E d \in chunks' : d.start = KERN_HEAP
  <2>1. PICK d \in chunks : d.start = KERN_HEAP
    BY DEF WalkInv, Linked
  <2>2. CASE d.start < c.start
    BY <2>1, <2>2, <1>6
  <2>3. CASE ~(d.start < c.start)
    BY <2>1, <2>3, <1>2, <1>4, <1>5
  <2> QED
    BY <2>2, <2>3
<1>8. ASSUME NEW d \in chunks'
      PROVE  EndOf(d) = top \/ \E x \in chunks' : x.start = EndOf(d)
  <2>1. CASE d = m
    <3>1. CASE e = top
      BY <2>1, <3>1, <1>4
    <3>2. CASE \E x \in chunks : x.used /\ x.start = e
      BY <2>1, <3>2, <1>2, <1>4, <1>5, <1>6
    <3> QED
      BY <1>1, <3>1, <3>2 DEF IsNextUsed
  <2>2. CASE d \in chunks /\ d.start < c.start
    <3>1. EndOf(d) <= c.start
      BY <2>2, <1>2, <1>5
    <3>2. EndOf(d) # top
      BY <2>2, <3>1, <1>2, <1>5
    <3>3. PICK x \in chunks : x.start = EndOf(d)
      BY <2>2, <3>2 DEF WalkInv, Linked
    <3>4. CASE x.start = c.start
      BY <3>3, <3>4, <1>4
    <3>5. CASE x.start < c.start
      BY <3>3, <3>5, <1>6
    <3> QED
      BY <3>1, <3>3, <3>4, <3>5, <1>2, <1>5
  <2>3. CASE d \in chunks /\ d.start >= e
    <3>1. CASE EndOf(d) = top
      BY <3>1
    <3>2. CASE \E x \in chunks : x.start = EndOf(d)
      <4>1. PICK x \in chunks : x.start = EndOf(d)
        BY <3>2
      <4>2. x.start >= e
        BY <2>3, <4>1, <1>2, <1>5
      <4> QED
        BY <4>1, <4>2, <1>6
    <3> QED
      BY <2>3, <3>1, <3>2 DEF WalkInv, Linked
  <2> QED
    BY <2>1, <2>2, <2>3, <1>6
<1>9. Linked(chunks, top)'
  BY <1>6, <1>7, <1>8 DEF Linked, EndOf
<1>10. ASSUME NEW d \in chunks', d.used
       PROVE  \E a \in held' : a.ptr = d.start + HEADER
  <2>1. d \in chunks /\ (d.start < c.start \/ d.start >= e)
    BY <1>4, <1>6, <1>10
  <2>2. PICK a \in held : a.ptr = d.start + HEADER
    BY <1>10, <2>1 DEF WalkInv, Claimed
  <2>3. a # b
    BY <2>1, <2>2, <1>2, <1>3, <1>5, <1>6
  <2> QED
    BY <2>2, <2>3, <1>6
<1>11. Claimed(chunks, held)'
  BY <1>10 DEF Claimed
<1> QED
  BY <1>9, <1>11 DEF WalkInv

LEMMA NextWalk == HeapInv /\ WalkInv /\ [Next]_vars => WalkInv'
<1> SUFFICES ASSUME HeapInv, WalkInv, [Next]_vars PROVE WalkInv'
  OBVIOUS
<1>1. ASSUME NEW asked \in Sizes, KmallocFit(asked) PROVE WalkInv'
  <2>1. PICK c \in chunks :
          /\ Fits(c, RealSize(asked))
          /\ chunks' = Place(chunks, c, RealSize(asked))
          /\ held' = Hand(c, asked)
    BY <1>1 DEF KmallocFit, FirstFit
  <2>2. Linked(chunks', top) /\ Claimed(chunks', held')
    BY <2>1, PlaceLinked DEF HeapInv, WalkInv
  <2>3. top' = top
    BY <1>1 DEF KmallocFit
  <2> QED
    BY <2>2, <2>3 DEF WalkInv, Linked, Claimed
<1>2. ASSUME NEW asked \in Sizes, KmallocGrow(asked) PROVE WalkInv'
  BY <1>2, GrowWalk
<1>3. ASSUME UNCHANGED <<chunks, top, held>> PROVE WalkInv'
  BY <1>3 DEF WalkInv, Linked, Claimed
<1>4. ASSUME NEW b \in held, Kfree(b) PROVE WalkInv'
  BY <1>4, FreeWalk
<1> QED
  BY <1>1, <1>2, <1>3, <1>4
  DEF Next, vars, KmallocNoFrame, KmallocNoAddress, KmallocNoHeader

LEMMA WalkInvariant == Spec => []WalkInv
<1> USE InitWalk, NextWalk, HeapInvariant
<1> QED
  BY PTL DEF Spec

(* The chunks tile the heap after any sequence of cuts, merges and growth, *)
(* failed growth included: kmalloc's walk never meets a chunk of size 0 or *)
(* one that ends beyond the heap.                                          *)
THEOREM TilingAlways == Spec => []Tiling
<1>1. HeapInv /\ WalkInv => Tiling
  BY DEF HeapInv, WalkInv, Shaped, Linked, Tiling
<1> QED
  BY <1>1, HeapInvariant, WalkInvariant, PTL

(* No memory is lost inside the heap: a chunk is used only while somebody  *)
(* holds its block.                                                        *)
THEOREM UsedIsHeldAlways == Spec => []UsedIsHeld
<1>1. WalkInv => UsedIsHeld
  BY DEF WalkInv, Claimed, UsedIsHeld
<1> QED
  BY <1>1, WalkInvariant, PTL

-----------------------------------------------------------------------------
(* kmalloc and kfree step by step: the invariant of HeapRace.              *)

TypeInv ==
    /\ size \in [Addr -> 0 .. HeapSize]
    /\ used \in [Addr -> BOOLEAN]
    /\ pc \in [Procs -> InKmalloc \cup {"out", "merge", "add"}]
    /\ chunk \in [Procs -> Addr]
    /\ realsize \in [Procs -> 0 .. HeapSize]
    /\ blocks \in [Procs -> SUBSET (Addr \X (0 .. HeapSize))]

(* No header, left over or not, says more than there is.                   *)
Within == \A a \in Addr : a + size[a] <= HeapSize

(* Each chunk of M ends where the next one begins, the last at HeapSize.   *)
Chain(M) ==
    /\ M \subseteq Addr /\ 0 \in M
    /\ \A a \in M :
        /\ size[a] > 0
        /\ a + size[a] \in M \cup {HeapSize}
        /\ \A m \in M : m <= a \/ a + size[a] <= m

(* The used chunks are the blocks that are held, each by one process.      *)
Owned(M) ==
    /\ \A a \in M : used[a] <=> \E q \in Procs : \E b \in blocks[q] : b[1] = a
    /\ \A q \in Procs : \A b \in blocks[q] : b[1] \in M /\ size[b[1]] = b[2]
    /\ \A q, r \in Procs : \A b \in blocks[q], d \in blocks[r] : b[1] = d[1] => q = r

(* Where a process is in kmalloc its chunk is a chunk, and the tests it    *)
(* made still hold.                                                        *)
Searching(M) ==
    \A q \in Procs :
        /\ pc[q] \in InKmalloc => chunk[q] \in M /\ realsize[q] > 0
        /\ pc[q] = "take" => ~used[chunk[q]] /\ size[chunk[q]] >= realsize[q]
        /\ pc[q] = "mark" => ~used[chunk[q]] /\ size[chunk[q]] = realsize[q]

(* Where it is in kfree, another call of kfree may have merged its chunk   *)
(* away.  The chunk is free and nobody else's, and so stays what it found  *)
(* behind it.                                                              *)
Freeing ==
    /\ \A q \in Procs :
        /\ pc[q] \in {"merge", "add"} => ~used[chunk[q]]
        /\ pc[q] = "add" =>
             /\ chunk[q] + size[chunk[q]] \in Addr
             /\ ~used[chunk[q] + size[chunk[q]]]
    /\ \A q, r \in Procs :
         q # r /\ pc[q] # "out" /\ pc[r] # "out" => chunk[q] # chunk[r]

ChunksAre(M) == Chain(M) /\ Owned(M) /\ Searching(M)

HeapIsSound ==
    /\ TypeInv /\ Within /\ ~Crossed /\ Freeing
    /\ \E M \in SUBSET Addr : ChunksAre(M)

RaceInv == overtaken \/ HeapIsSound

-----------------------------------------------------------------------------
(* Addresses are numbers below the size of the heap.                       *)
LEMMA AddrIs == /\ HeapSize \in Nat \ {0}
                /\ \A a : a \in Addr <=> a \in Nat /\ a < HeapSize
BY RaceAssumption DEF Addr

(* The boot heap is one chunk.                                             *)
LEMMA InitRace == RaceInit => RaceInv
<1> SUFFICES ASSUME RaceInit PROVE HeapIsSound
  BY DEF RaceInv
<1>1. TypeInv /\ Within /\ ~Crossed /\ Freeing
  BY AddrIs DEF RaceInit, TypeInv, Within, Crossed, InKmalloc, Freeing
<1>2. {0} \in SUBSET Addr
  BY AddrIs
<1>3. Chain({0})
  BY AddrIs DEF RaceInit, Chain
<1>4. Owned({0}) /\ Searching({0})
  BY AddrIs DEF RaceInit, Owned, Searching, InKmalloc
<1> QED BY <1>1, <1>2, <1>3, <1>4 DEF HeapIsSound, ChunksAre

(* Nobody is in a call while another process is in kmalloc.                *)
LEMMA AloneInKmalloc ==
    ASSUME ~Crossed, NEW q \in Procs, pc[q] \in InKmalloc
    PROVE  \A r \in Procs \ {q} : pc[r] = "out"
BY DEF Crossed

(* kmalloc up to the first chunk that fits, and its end without one: the   *)
(* headers stay as they are.                                               *)
LEMMA SearchRace ==
    ASSUME HeapIsSound, ~Crossed', NEW q \in Procs, KmallocCall(q) \/ KmallocWalk(q)
    PROVE  HeapIsSound'
<1>1. PICK M \in SUBSET Addr : ChunksAre(M)
  BY DEF HeapIsSound
<1>2. TypeInv /\ Within
  BY DEF HeapIsSound
<1>3. CASE KmallocCall(q)
  <2>1. PICK n \in Requests : realsize' = [realsize EXCEPT ![q] = n]
    BY <1>3 DEF KmallocCall
  <2>2. n \in 1 .. HeapSize
    BY RaceAssumption
  <2>3. /\ UNCHANGED <<size, used, blocks>>
        /\ chunk' = [chunk EXCEPT ![q] = 0]
        /\ pc' = [pc EXCEPT ![q] = "walk"]
    BY <1>3 DEF KmallocCall, Goto
  <2>4. pc'[q] = "walk" /\ \A r \in Procs \ {q} : pc'[r] = "out"
    <3>1. pc'[q] = "walk" /\ \A r \in Procs \ {q} : pc'[r] = pc[r]
      BY <1>2, <2>3 DEF TypeInv
    <3> QED BY <3>1 DEF Crossed, InKmalloc
  <2>5. TypeInv' /\ Within'
    BY <1>2, <2>1, <2>2, <2>3, AddrIs DEF TypeInv, Within, InKmalloc
  <2>6. Chain(M)' /\ Owned(M)'
    BY <1>1, <2>3 DEF ChunksAre, Chain, Owned
  <2>7. Searching(M)' /\ Freeing'
    BY <1>1, <1>2, <2>1, <2>2, <2>3, <2>4
    DEF ChunksAre, Chain, Searching, Freeing, InKmalloc, TypeInv
  <2> QED BY <2>5, <2>6, <2>7 DEF HeapIsSound, ChunksAre
<1>4. CASE KmallocWalk(q)
  <2> DEFINE c == chunk[q]
  <2>1. /\ pc[q] = "walk" /\ UNCHANGED <<size, used, realsize, blocks>>
        /\ c \in M /\ c \in Addr
    BY <1>1, <1>4 DEF KmallocWalk, At, ChunksAre, Searching, InKmalloc
  <2>2. \/ /\ ~used[c] /\ size[c] >= realsize[q]
           /\ pc' = [pc EXCEPT ![q] = "take"] /\ chunk' = chunk
        \/ /\ c + size[c] \in Addr
           /\ chunk' = [chunk EXCEPT ![q] = c + size[c]] /\ pc' = pc
        \/ pc' = [pc EXCEPT ![q] = "out"] /\ chunk' = chunk
    BY <1>2, <1>4 DEF KmallocWalk, Goto, TypeInv
  <2>3. c + size[c] \in Addr => c + size[c] \in M
    BY <1>1, <2>1, AddrIs DEF ChunksAre, Chain
  <2>4. \A r \in Procs \ {q} : pc[r] = "out"
    BY <2>1, AloneInKmalloc DEF HeapIsSound, InKmalloc
  <2>5. TypeInv' /\ Within'
    BY <1>2, <2>1, <2>2 DEF TypeInv, Within, InKmalloc
  <2>6. Chain(M)' /\ Owned(M)'
    BY <1>1, <2>1 DEF ChunksAre, Chain, Owned
  <2>7. Searching(M)' /\ Freeing'
    BY <1>1, <1>2, <2>1, <2>2, <2>3, <2>4
    DEF ChunksAre, Searching, Freeing, InKmalloc, TypeInv
  <2> QED BY <2>5, <2>6, <2>7 DEF HeapIsSound, ChunksAre
<1> QED BY <1>3, <1>4

(* kmalloc cuts the chunk it takes: the rest is a chunk of its own.        *)
LEMMA CutRace ==
    ASSUME HeapIsSound, ~Crossed', NEW q \in Procs, KmallocCut(q)
    PROVE  HeapIsSound'
<1> DEFINE c == chunk[q]
           n == realsize[q]
<1>1. PICK M \in SUBSET Addr : ChunksAre(M)
  BY DEF HeapIsSound
<1>2. TypeInv /\ Within /\ pc[q] = "take" /\ \A r \in Procs \ {q} : pc[r] = "out"
  <2>1. TypeInv /\ Within /\ ~Crossed /\ pc[q] = "take"
    BY DEF HeapIsSound, KmallocCut, At
  <2> QED BY <2>1, AloneInKmalloc DEF InKmalloc
<1>3. /\ pc' = [pc EXCEPT ![q] = "mark"]
      /\ UNCHANGED <<chunk, realsize, blocks>>
  BY DEF KmallocCut, Goto
<1>4. /\ c \in M /\ c \in Addr /\ ~used[c] /\ size[c] >= n /\ n > 0
      /\ n \in 0 .. HeapSize /\ size[c] \in 0 .. HeapSize
      /\ c + size[c] \in M \cup {HeapSize}
      /\ \A m \in M : m <= c \/ c + size[c] <= m
  BY <1>1, <1>2 DEF ChunksAre, Searching, Chain, TypeInv, InKmalloc
<1>5. pc'[q] = "mark" /\ \A r \in Procs \ {q} : pc'[r] = "out"
  BY <1>2, <1>3 DEF TypeInv
<1>6. Freeing'
  BY <1>5 DEF Freeing
<1>7. CASE size[c] = n
  <2>1. UNCHANGED <<size, used>>
    BY <1>4, <1>7 DEF KmallocCut
  <2>2. TypeInv' /\ Within'
    BY <1>2, <1>3, <2>1 DEF TypeInv, Within, InKmalloc
  <2>3. Chain(M)' /\ Owned(M)'
    BY <1>1, <1>3, <2>1 DEF ChunksAre, Chain, Owned
  <2>4. Searching(M)'
    BY <1>1, <1>3, <1>4, <1>5, <1>7, <2>1 DEF Searching, InKmalloc
  <2> QED BY <1>6, <2>2, <2>3, <2>4 DEF HeapIsSound, ChunksAre
<1>8. CASE size[c] > n
  <2>1. c + n \in Addr /\ c + n \notin M /\ c + n # c /\ size[c] - n \in 1 .. HeapSize
    BY <1>1, <1>4, <1>8, AddrIs
  <2>2. PICK d \in Addr : d = c + n
    BY <2>1
  <2>3. /\ size' = [size EXCEPT ![d] = size[c] - n, ![c] = n]
        /\ used' = [used EXCEPT ![d] = FALSE]
    BY <1>8, <2>2 DEF KmallocCut
  <2>4. /\ size'[d] = size[c] - n /\ size'[c] = n
        /\ \A a \in Addr \ {c, d} : size'[a] = size[a]
        /\ ~used'[d] /\ \A a \in Addr \ {d} : used'[a] = used[a]
    BY <1>2, <1>4, <2>1, <2>2, <2>3 DEF TypeInv
  <2>5. TypeInv'
    BY <1>2, <1>3, <1>4, <2>1, <2>3 DEF TypeInv, InKmalloc
  <2>6. Within'
    <3>1. ASSUME NEW a \in Addr PROVE a + size'[a] <= HeapSize
      <4>1. c + size[c] <= HeapSize /\ a + size[a] <= HeapSize
        BY <1>2, <1>4 DEF Within
      <4>2. CASE a = c \/ a = d
        BY <1>4, <1>8, <2>1, <2>2, <2>4, <4>1, <4>2, AddrIs
      <4>3. CASE a # c /\ a # d
        BY <2>4, <4>1, <4>3
      <4> QED BY <4>2, <4>3
    <3> QED BY <3>1 DEF Within
  <2>7. \A a \in M : a \in Addr /\ a # d
    BY <2>1, <2>2
  <2>8. Chain(M \cup {d})'
    <3>1. ASSUME NEW a \in M \cup {d}
          PROVE  /\ size'[a] > 0
                 /\ a + size'[a] \in (M \cup {d}) \cup {HeapSize}
                 /\ \A m \in M \cup {d} : m <= a \/ a + size'[a] <= m
      <4>1. CASE a = d
        BY <1>1, <1>4, <2>1, <2>2, <2>4, <4>1, AddrIs
      <4>2. CASE a = c
        BY <1>1, <1>4, <2>1, <2>2, <2>4, <4>2, AddrIs
      <4>3. CASE a # d /\ a # c
        <5>1. a \in M /\ size'[a] = size[a] /\ size[a] \in 0 .. HeapSize
          BY <1>2, <2>4, <4>3 DEF TypeInv
        <5>2. /\ size[a] > 0 /\ a + size[a] \in M \cup {HeapSize}
              /\ \A m \in M : m <= a \/ a + size[a] <= m
          BY <1>1, <5>1 DEF ChunksAre, Chain
        <5>3. d <= a \/ a + size[a] <= d
          BY <1>4, <2>1, <2>2, <4>3, <5>1, <5>2, AddrIs
        <5> QED BY <5>1, <5>2, <5>3
      <4> QED BY <4>1, <4>2, <4>3
    <3> QED BY <1>1, <2>2, <3>1 DEF ChunksAre, Chain
  <2>9. Owned(M \cup {d})'
    <3>1. \A r \in Procs : \A b \in blocks[r] : b[1] \in M /\ b[1] # c /\ b[1] # d
      BY <1>1, <1>4, <2>7 DEF ChunksAre, Owned
    <3>2. \A r \in Procs : \A b \in blocks[r] : size'[b[1]] = b[2]
      BY <1>1, <2>4, <2>7, <3>1 DEF ChunksAre, Owned
    <3> QED BY <1>1, <1>3, <2>4, <2>7, <3>1, <3>2 DEF ChunksAre, Owned
  <2>10. Searching(M \cup {d})'
    <3>1. chunk'[q] = c /\ realsize'[q] = n
      BY <1>3
    <3> QED BY <1>4, <1>5, <2>1, <2>2, <2>4, <3>1 DEF Searching, InKmalloc
  <2>11. M \cup {d} \in SUBSET Addr
    OBVIOUS
  <2> QED BY <1>6, <2>5, <2>6, <2>8, <2>9, <2>10, <2>11 DEF HeapIsSound, ChunksAre
<1> QED BY <1>4, <1>7, <1>8

(* kmalloc marks the chunk used and hands it out.                          *)
LEMMA MarkRace ==
    ASSUME HeapIsSound, ~Crossed', NEW q \in Procs, KmallocMark(q)
    PROVE  HeapIsSound'
<1>1. PICK M \in SUBSET Addr : ChunksAre(M)
  BY DEF HeapIsSound
<1>2. TypeInv /\ Within /\ pc[q] = "mark" /\ \A r \in Procs \ {q} : pc[r] = "out"
  <2>1. TypeInv /\ Within /\ ~Crossed /\ pc[q] = "mark"
    BY DEF HeapIsSound, KmallocMark, At
  <2> QED BY <2>1, AloneInKmalloc DEF InKmalloc
<1>3. PICK c \in M : c = chunk[q] /\ ~used[c] /\ size[c] = realsize[q]
  BY <1>1, <1>2 DEF ChunksAre, Searching, InKmalloc
<1>4. c \in Addr /\ realsize[q] \in 0 .. HeapSize
  BY <1>1, <1>2 DEF TypeInv
<1>5. /\ used' = [used EXCEPT ![c] = TRUE]
      /\ blocks' = [blocks EXCEPT ![q] = blocks[q] \cup {<<c, realsize[q]>>}]
      /\ pc' = [pc EXCEPT ![q] = "out"]
      /\ UNCHANGED <<size, chunk, realsize>>
  BY <1>3 DEF KmallocMark, Goto
<1>6. TypeInv' /\ Within'
  BY <1>2, <1>4, <1>5 DEF TypeInv, Within
<1>7. \A r \in Procs : pc'[r] = "out"
  BY <1>2, <1>5 DEF TypeInv
<1>8. Chain(M)' /\ Searching(M)' /\ Freeing'
  BY <1>1, <1>5, <1>7 DEF ChunksAre, Chain, Searching, Freeing, InKmalloc
<1>9. Owned(M)'
  <2>1. /\ blocks'[q] = blocks[q] \cup {<<c, realsize[q]>>}
        /\ \A r \in Procs \ {q} : blocks'[r] = blocks[r]
        /\ used'[c] /\ \A a \in Addr \ {c} : used'[a] = used[a]
    BY <1>2, <1>4, <1>5 DEF TypeInv
  <2>2. \A r \in Procs : \A b \in blocks[r] : b[1] # c
    BY <1>1, <1>3 DEF ChunksAre, Owned
  <2>3. ASSUME NEW a \in M
        PROVE  used'[a] <=> \E r \in Procs : \E b \in blocks'[r] : b[1] = a
    <3>1. CASE a = c
      <4>1. <<c, realsize[q]>> \in blocks'[q] /\ <<c, realsize[q]>>[1] = a
        BY <2>1, <3>1
      <4>2. \E r \in Procs : \E b \in blocks'[r] : b[1] = a
        BY <4>1
      <4>3. used'[a]
        BY <2>1, <3>1
      <4> QED BY <4>2, <4>3
    <3>2. CASE a # c
      <4>1. used'[a] <=> \E r \in Procs : \E b \in blocks[r] : b[1] = a
        BY <1>1, <2>1, <3>2 DEF ChunksAre, Owned
      <4> QED BY <2>1, <3>2, <4>1
    <3> QED BY <3>1, <3>2
  <2>4. \A r \in Procs : \A b \in blocks'[r] : b[1] \in M /\ size'[b[1]] = b[2]
    BY <1>1, <1>3, <1>5, <2>1 DEF ChunksAre, Owned
  <2>5. \A r, t \in Procs : \A b \in blocks'[r], d \in blocks'[t] : b[1] = d[1] => r = t
    BY <1>1, <2>1, <2>2 DEF ChunksAre, Owned
  <2> QED BY <2>3, <2>4, <2>5 DEF Owned
<1> QED BY <1>6, <1>8, <1>9 DEF HeapIsSound, ChunksAre

(* kfree takes a block back, beside other calls of kfree.  The block was   *)
(* used, and what those work on is not.                                    *)
LEMMA FreeRace ==
    ASSUME HeapIsSound, ~Crossed', NEW q \in Procs, KfreeCall(q)
    PROVE  HeapIsSound'
<1>1. PICK M \in SUBSET Addr : ChunksAre(M)
  BY DEF HeapIsSound
<1>2. TypeInv /\ Within /\ Freeing
  BY DEF HeapIsSound
<1>3. PICK b \in blocks[q] :
        /\ used' = [used EXCEPT ![b[1]] = FALSE]
        /\ chunk' = [chunk EXCEPT ![q] = b[1]]
        /\ blocks' = [blocks EXCEPT ![q] = blocks[q] \ {b}]
        /\ pc' = [pc EXCEPT ![q] = "merge"]
        /\ UNCHANGED <<size, realsize>>
  BY DEF KfreeCall, Goto
<1>4. PICK c \in M : c = b[1]
  BY <1>1 DEF ChunksAre, Owned
<1>5. c \in Addr /\ used[c]
  BY <1>1, <1>4 DEF ChunksAre, Owned
<1>6. TypeInv' /\ Within'
  BY <1>2, <1>3, <1>4, <1>5 DEF TypeInv, Within
<1>7. /\ blocks'[q] = blocks[q] \ {b}
      /\ \A r \in Procs \ {q} : blocks'[r] = blocks[r]
      /\ ~used'[c] /\ \A a \in Addr \ {c} : used'[a] = used[a]
      /\ chunk'[q] = c /\ pc'[q] = "merge"
      /\ \A r \in Procs \ {q} : pc'[r] = pc[r] /\ chunk'[r] = chunk[r] /\ chunk[r] \in Addr
  BY <1>2, <1>3, <1>4, <1>5 DEF TypeInv
<1>8. \A r \in Procs : pc'[r] \in {"out", "merge", "add"}
  BY <1>2, <1>7 DEF Crossed, InKmalloc, TypeInv
<1>9. Chain(M)' /\ Searching(M)'
  BY <1>1, <1>3, <1>8 DEF ChunksAre, Chain, Searching, InKmalloc
<1>10. Freeing'
  <2>1. \A a \in Addr : ~used[a] => ~used'[a]
    BY <1>7
  <2>2. ASSUME NEW r \in Procs \ {q}, pc[r] # "out"
        PROVE  chunk[r] # c /\ ~used'[chunk[r]]
    BY <1>2, <1>5, <1>7, <1>8, <2>1, <2>2 DEF Freeing
  <2>3. ASSUME NEW r \in Procs, pc'[r] = "add"
        PROVE  /\ chunk'[r] + size'[chunk'[r]] \in Addr
               /\ ~used'[chunk'[r] + size'[chunk'[r]]]
    <3>1. r # q /\ pc[r] = "add" /\ chunk'[r] = chunk[r] /\ size' = size
      BY <1>3, <1>7, <2>3
    <3> QED BY <1>2, <2>1, <3>1 DEF Freeing
  <2> QED BY <1>2, <1>7, <1>8, <2>2, <2>3 DEF Freeing
<1>11. Owned(M)'
  <2>1. \A r \in Procs : \A d \in blocks'[r] : d[1] # c
    <3>1. ASSUME NEW r \in Procs, NEW d \in blocks'[r], d[1] = c PROVE FALSE
      <4>1. d \in blocks[r] /\ r = q
        BY <1>1, <1>4, <1>7, <3>1 DEF ChunksAre, Owned
      <4>2. d \in Addr \X (0 .. HeapSize) /\ b \in Addr \X (0 .. HeapSize)
        BY <1>2, <4>1 DEF TypeInv
      <4>3. d[2] = size[c] /\ b[2] = size[c]
        BY <1>1, <1>4, <3>1, <4>1 DEF ChunksAre, Owned
      <4>4. d = b
        BY <1>4, <3>1, <4>2, <4>3
      <4> QED BY <1>7, <4>1, <4>4
    <3> QED BY <3>1
  <2>2. ASSUME NEW a \in M
        PROVE  used'[a] <=> \E r \in Procs : \E d \in blocks'[r] : d[1] = a
    <3>1. CASE a = c
      BY <1>7, <2>1, <3>1
    <3>2. CASE a # c
      <4>1. used'[a] <=> \E r \in Procs : \E d \in blocks[r] : d[1] = a
        BY <1>1, <1>7, <3>2 DEF ChunksAre, Owned
      <4>2. \A r \in Procs : \A d \in blocks[r] : d[1] = a => d \in blocks'[r]
        BY <1>4, <1>7, <3>2
      <4>3. \A r \in Procs : blocks'[r] \subseteq blocks[r]
        BY <1>7
      <4> QED BY <4>1, <4>2, <4>3
    <3> QED BY <3>1, <3>2
  <2>3. \A r \in Procs : blocks'[r] \subseteq blocks[r]
    BY <1>7
  <2> QED BY <1>1, <1>3, <2>2, <2>3 DEF ChunksAre, Owned
<1> QED BY <1>6, <1>9, <1>10, <1>11 DEF HeapIsSound, ChunksAre

(* kfree looks at the chunk behind.                                        *)
LEMMA TestRace ==
    ASSUME HeapIsSound, ~Crossed', NEW q \in Procs, KfreeTest(q)
    PROVE  HeapIsSound'
<1> DEFINE other == chunk[q] + size[chunk[q]]
<1>1. PICK M \in SUBSET Addr : ChunksAre(M)
  BY DEF HeapIsSound
<1>2. TypeInv /\ Within /\ Freeing /\ pc[q] = "merge"
  BY DEF HeapIsSound, KfreeTest, At
<1>3. /\ pc' = [pc EXCEPT ![q] = IF other \in Addr /\ ~used[other] THEN "add" ELSE "out"]
      /\ UNCHANGED <<size, used, chunk, realsize, blocks>>
  BY DEF KfreeTest, Goto
<1>4. TypeInv' /\ Within'
  BY <1>2, <1>3 DEF TypeInv, Within
<1>5. /\ pc'[q] = (IF other \in Addr /\ ~used[other] THEN "add" ELSE "out")
      /\ \A r \in Procs \ {q} : pc'[r] = pc[r]
  BY <1>2, <1>3 DEF TypeInv
<1>6. Chain(M)' /\ Owned(M)'
  BY <1>1, <1>3 DEF ChunksAre, Chain, Owned
<1>7. Searching(M)'
  BY <1>1, <1>3, <1>5 DEF ChunksAre, Searching, InKmalloc
<1>8. Freeing'
  BY <1>2, <1>3, <1>5 DEF Freeing
<1> QED BY <1>4, <1>6, <1>7, <1>8 DEF HeapIsSound, ChunksAre

(* kfree merges: the chunk behind is a chunk no more.  If another call has *)
(* merged this one away meanwhile, a header that nobody reads grows.       *)
LEMMA AddRace ==
    ASSUME HeapIsSound, ~Crossed', NEW q \in Procs, KfreeAdd(q)
    PROVE  HeapIsSound'
<1>1. PICK M \in SUBSET Addr : ChunksAre(M)
  BY DEF HeapIsSound
<1>2. TypeInv /\ Within /\ Freeing /\ pc[q] = "add"
  BY DEF HeapIsSound, KfreeAdd, At
<1>3. PICK c \in Addr : c = chunk[q]
  BY <1>2 DEF TypeInv
<1>4. PICK d \in Addr : d = c + size[c]
  BY <1>2, <1>3 DEF Freeing
<1>5. /\ ~used[c] /\ ~used[d] /\ d + size[d] <= HeapSize
      /\ size[c] \in 0 .. HeapSize /\ size[d] \in 0 .. HeapSize
  BY <1>2, <1>3, <1>4 DEF Freeing, Within, TypeInv
<1>6. size[c] + size[d] \in 0 .. HeapSize /\ c + (size[c] + size[d]) <= HeapSize
  BY <1>4, <1>5, AddrIs
<1>7. /\ size' = [size EXCEPT ![c] = size[c] + size[d]]
      /\ pc' = [pc EXCEPT ![q] = "merge"]
      /\ UNCHANGED <<used, chunk, realsize, blocks>>
  BY <1>3, <1>4 DEF KfreeAdd, Goto
<1>8. /\ size'[c] = size[c] + size[d] /\ \A a \in Addr \ {c} : size'[a] = size[a]
      /\ pc'[q] = "merge" /\ \A r \in Procs \ {q} : pc'[r] = pc[r]
  BY <1>2, <1>3, <1>7 DEF TypeInv
<1>9. TypeInv' /\ Within'
  BY <1>2, <1>6, <1>7, <1>8 DEF TypeInv, Within
<1>10. \A r \in Procs : pc'[r] \notin InKmalloc
  BY <1>8 DEF Crossed, InKmalloc
<1>11. Freeing'
  <2>1. ASSUME NEW r \in Procs, pc'[r] = "add"
        PROVE  /\ chunk[r] + size'[chunk[r]] \in Addr
               /\ ~used[chunk[r] + size'[chunk[r]]]
    <3>1. r # q /\ pc[r] = "add" /\ chunk[r] \in Addr /\ chunk[r] # c
      BY <1>2, <1>3, <1>8, <2>1 DEF Freeing, TypeInv
    <3> QED BY <1>2, <1>8, <3>1 DEF Freeing
  <2> QED BY <1>2, <1>7, <1>8, <2>1 DEF Freeing
<1>12. \A r \in Procs : \A b \in blocks[r] : b[1] \in M \ {c, d} /\ b[1] \in Addr
  BY <1>1, <1>5 DEF ChunksAre, Owned
<1>13. CASE c \notin M
  <2>1. \A a \in M : a \in Addr /\ size'[a] = size[a]
    BY <1>8, <1>13
  <2>2. Chain(M)'
    BY <1>1, <2>1 DEF ChunksAre, Chain
  <2>3. Owned(M)' /\ Searching(M)'
    BY <1>1, <1>7, <1>10, <2>1 DEF ChunksAre, Owned, Searching, InKmalloc
  <2> QED BY <1>9, <1>11, <2>2, <2>3 DEF HeapIsSound, ChunksAre
<1>14. CASE c \in M
  <2>1. /\ d \in M /\ size[c] > 0 /\ size[d] > 0
        /\ d + size[d] \in M \cup {HeapSize}
        /\ \A m \in M : m <= d \/ d + size[d] <= m
        /\ \A m \in M : m <= c \/ d <= m
    BY <1>1, <1>4, <1>14, AddrIs DEF ChunksAre, Chain
  <2>2. c # d /\ d # 0
    BY <1>4, <1>5, <2>1, AddrIs
  <2>3. Chain(M \ {d})'
    <3>1. ASSUME NEW a \in M \ {d}
          PROVE  /\ size'[a] > 0
                 /\ a + size'[a] \in (M \ {d}) \cup {HeapSize}
                 /\ \A m \in M \ {d} : m <= a \/ a + size'[a] <= m
      <4>1. CASE a = c
        BY <1>1, <1>4, <1>5, <1>8, <2>1, <2>2, <4>1, AddrIs
      <4>2. CASE a # c
        <5>1. a \in Addr /\ size'[a] = size[a] /\ size[a] \in 0 .. HeapSize
          BY <1>1, <1>2, <1>8, <4>2 DEF TypeInv
        <5>2. /\ size[a] > 0 /\ a + size[a] \in M \cup {HeapSize}
              /\ \A m \in M : m <= a \/ a + size[a] <= m
          BY <1>1 DEF ChunksAre, Chain
        <5>3. a + size[a] # d
          BY <1>4, <1>5, <1>14, <2>1, <4>2, <5>1, <5>2, AddrIs
        <5> QED BY <5>1, <5>2, <5>3
      <4> QED BY <4>1, <4>2
    <3> QED BY <1>1, <2>2, <3>1 DEF ChunksAre, Chain
  <2>4. Owned(M \ {d})'
    BY <1>1, <1>7, <1>8, <1>12 DEF ChunksAre, Owned
  <2>5. Searching(M \ {d})'
    BY <1>10 DEF Searching, InKmalloc
  <2> QED BY <1>9, <1>11, <2>3, <2>4, <2>5 DEF HeapIsSound, ChunksAre
<1> QED BY <1>13, <1>14

-----------------------------------------------------------------------------

(* The headers stay right for as long as no call crosses one of kmalloc.   *)
THEOREM RaceInvariant == RaceSpec => []RaceInv
<1>1. ASSUME RaceInv, RaceNext PROVE RaceInv'
  <2>1. CASE overtaken \/ Crossed'
    BY <1>1, <2>1 DEF RaceInv, RaceNext
  <2>2. CASE ~overtaken /\ ~Crossed'
    <3>1. HeapIsSound
      BY <1>1, <2>2 DEF RaceInv
    <3>2. HeapIsSound'
      BY <1>1, <2>2, <3>1, SearchRace, CutRace, MarkRace, FreeRace, TestRace, AddRace
      DEF RaceNext
    <3> QED BY <3>2 DEF RaceInv
  <2> QED BY <2>1, <2>2
<1>2. ASSUME RaceInv, UNCHANGED raceVars PROVE RaceInv'
  BY <1>2 DEF raceVars, RaceInv, HeapIsSound, TypeInv, Within, Crossed, Freeing,
              ChunksAre, Chain, Owned, Searching
<1>3. RaceInv /\ [RaceNext]_raceVars => RaceInv'
  BY <1>1, <1>2
<1> QED BY <1>3, InitRace, PTL DEF RaceSpec

(* A walk from chunk to chunk meets the chunks and the end of the heap: as *)
(* long as m has not been met, the walk is below it, and it goes up with   *)
(* every step.                                                             *)
LEMMA MetIsChain ==
    ASSUME TypeInv, NEW M \in SUBSET Addr, Chain(M)
    PROVE  Met = M \cup {HeapSize}
<1> DEFINE X == M \cup {HeapSize}
           step == [a \in X |-> IF a \in Addr THEN a + size[a] ELSE a]
           H(h) == [i \in 0 .. HeapSize |->
                      IF i = 0 THEN 0
                      ELSE LET a == h[i - 1]
                           IN  IF a \in Addr THEN a + size[a] ELSE a]
           at == CHOOSE h : h = H(h)
<1>1. HeapSize \in Nat \ {0} /\ \A a : a \in Addr <=> a \in Nat /\ a < HeapSize
  BY AddrIs
<1>2. 0 \in X /\ \A a \in X : a \in 0 .. HeapSize /\ (a \in Addr <=> a \in M)
  BY <1>1 DEF Chain
<1>3. ASSUME NEW a \in X PROVE step[a] \in X
  BY <1>2 DEF Chain
<1>4. step \in [X -> X]
  <2>1. step = [a \in X |-> step[a]]
    OBVIOUS
  <2> HIDE DEF step, X
  <2> QED BY <1>3, <2>1
<1>5. PICK f \in [0 .. HeapSize -> X] : Iterates(f, HeapSize, 0, step)
  <2> HIDE DEF step, X
  <2> QED BY <1>1, <1>2, <1>4, IteratesExist
<1>6. f = H(f)
  <2>1. ASSUME NEW i \in 0 .. HeapSize PROVE f[i] = H(f)[i]
    <3>1. CASE i = 0
      BY <3>1, <1>5 DEF Iterates
    <3>2. CASE i # 0
      <4>1. i \in 1 .. HeapSize /\ i - 1 \in 0 .. HeapSize
        BY <1>1, <3>2
      <4>2. f[i] = step[f[i - 1]] /\ f[i - 1] \in X
        BY <4>1, <1>5, Zenon DEF Iterates
      <4> QED BY <4>2, <3>2
    <3> QED BY <3>1, <3>2
  <2> QED BY <2>1
<1>7. at = H(at)
  BY <1>6, Zenon
<1>8. Met = {at[i] : i \in 0 .. HeapSize}
  BY DEF Met
<1>9. at[0] = 0
  <2> HIDE DEF at
  <2>1. at[0] = H(at)[0]
    BY <1>7
  <2> QED BY <1>1, <2>1
<1>10. ASSUME NEW i \in 1 .. HeapSize
       PROVE  at[i] = IF at[i - 1] \in Addr THEN at[i - 1] + size[at[i - 1]] ELSE at[i - 1]
  <2> HIDE DEF at
  <2>1. i \in 0 .. HeapSize /\ i # 0
    BY <1>1
  <2>2. at[i] = H(at)[i]
    BY <1>7
  <2> QED BY <2>1, <2>2
<1>11. \A i \in 0 .. HeapSize : at[i] \in X
  <2> DEFINE S == {i \in 0 .. HeapSize : at[i] \in X}
  <2>1. 0 \in S
    <3> HIDE DEF at
    <3> QED BY <1>1, <1>2, <1>9
  <2>2. ASSUME NEW i \in 1 .. HeapSize, i - 1 \in S PROVE i \in S
    <3>1. at[i] = step[at[i - 1]]
      <4> HIDE DEF at
      <4> QED BY <1>10, <2>2
    <3>2. step[at[i - 1]] \in X
      <4> HIDE DEF at, step
      <4> QED BY <1>3, <2>2
    <3> HIDE DEF at, step
    <3> QED BY <3>1, <3>2
  <2>3. 0 .. HeapSize \subseteq S
    <3> HIDE DEF S
    <3> QED BY <1>1, <2>1, <2>2, RangeInduction
  <2> QED BY <2>3
<1> HIDE DEF at, step
<1>12. ASSUME NEW m \in X PROVE \E j \in 0 .. HeapSize : at[j] = m
  <2> DEFINE S == {i \in 0 .. HeapSize : \/ \E j \in 0 .. i : at[j] = m
                                        \/ (i <= at[i] /\ at[i] < m)}
  <2>1. 0 \in S
    <3>1. 0 \in 0 .. HeapSize /\ 0 \in 0 .. 0 /\ (0 = m \/ 0 < m)
      BY <1>1, <1>2
    <3> QED BY <1>9, <3>1
  <2>2. ASSUME NEW i \in 1 .. HeapSize, i - 1 \in S PROVE i \in S
    <3>1. CASE \E j \in 0 .. i - 1 : at[j] = m
      BY <3>1
    <3>2. CASE i - 1 <= at[i - 1] /\ at[i - 1] < m
      <4>1. PICK a \in X : a = at[i - 1]
        <5>1. i - 1 \in 0 .. HeapSize
          BY <1>1
        <5> HIDE DEF X
        <5> QED BY <1>11, <5>1
      <4>2. a \in M /\ a \in 0 .. HeapSize /\ m \in 0 .. HeapSize /\ size[a] \in 0 .. HeapSize
        BY <1>1, <1>2, <3>2, <4>1 DEF TypeInv
      <4>3. size[a] > 0 /\ a + size[a] <= m
        BY <1>1, <1>2, <3>2, <4>1, <4>2 DEF Chain, TypeInv
      <4>4. at[i] = a + size[a]
        BY <1>10, <4>1, <4>2
      <4>5. at[i] = m \/ (i <= at[i] /\ at[i] < m)
        BY <3>2, <4>1, <4>2, <4>3, <4>4
      <4>6. i \in 0 .. i /\ i \in 0 .. HeapSize
        BY <1>1
      <4> QED BY <4>5, <4>6
    <3> QED BY <2>2, <3>1, <3>2
  <2>3. HeapSize \in S
    <3>1. 0 .. HeapSize \subseteq S
      <4> HIDE DEF S
      <4> QED BY <1>1, <2>1, <2>2, RangeInduction
    <3> QED BY <1>1, <3>1
  <2>4. m \in 0 .. HeapSize /\ at[HeapSize] \in 0 .. HeapSize
    BY <1>1, <1>2, <1>11
  <2> QED BY <1>1, <2>3, <2>4
<1>13. {at[i] : i \in 0 .. HeapSize} = X
  <2> HIDE DEF X, H
  <2> QED BY <1>11, <1>12
<1> QED BY <1>8, <1>13

(* Calls of kfree may interrupt each other anywhere: while no call has     *)
(* crossed one of kmalloc, the chunks cover the heap to its very end, and  *)
(* those in use are the blocks that are held, one for one.                 *)
THEOREM WalkIsSoundAlways == RaceSpec => []WalkIsSound
<1>1. RaceInv => WalkIsSound
  <2> SUFFICES ASSUME HeapIsSound PROVE WalkIsSound
    BY DEF RaceInv, WalkIsSound
  <2>1. PICK M \in SUBSET Addr : ChunksAre(M)
    BY DEF HeapIsSound
  <2>2. TypeInv
    BY DEF HeapIsSound
  <2>3. Met = M \cup {HeapSize}
    BY <2>1, <2>2, MetIsChain DEF ChunksAre
  <2>4. ASSUME NEW q \in Procs, NEW b \in blocks[q] PROVE b[1] \in Met /\ used[b[1]]
    BY <2>1, <2>3 DEF ChunksAre, Owned
  <2> DEFINE U == {a \in Met \cap Addr : used[a]}
             B == UNION {blocks[q] : q \in Procs}
             start == [a \in U |-> <<a, size[a]>>]
  <2>5. IsFiniteSet(U)
    <3>1. IsFiniteSet(Addr) /\ U \in SUBSET Addr
      BY FS_Interval, AddrIs DEF Addr
    <3> HIDE DEF U
    <3> QED BY <3>1, FS_Subset
  <2>6. \A a \in U : <<a, size[a]>> \in B
    <3>1. ASSUME NEW a \in U PROVE <<a, size[a]>> \in B
      <4>1. a \in M
        BY <2>3, AddrIs
      <4>2. PICK q \in Procs : \E b \in blocks[q] : b[1] = a
        BY <2>1, <4>1 DEF ChunksAre, Owned
      <4>3. PICK b \in blocks[q] : b[1] = a
        BY <4>2
      <4>4. b \in Addr \X (0 .. HeapSize) /\ b[2] = size[a]
        BY <2>1, <2>2, <4>3 DEF TypeInv, ChunksAre, Owned
      <4>5. b = <<a, size[a]>>
        BY <4>3, <4>4
      <4> QED BY <4>5
    <3> QED BY <3>1
  <2>7. ASSUME NEW b \in B PROVE b[1] \in U /\ b = <<b[1], size[b[1]]>>
    <3>1. PICK q \in Procs : b \in blocks[q]
      OBVIOUS
    <3>2. b \in Addr \X (0 .. HeapSize) /\ b[2] = size[b[1]]
      BY <2>1, <2>2, <3>1 DEF TypeInv, ChunksAre, Owned
    <3>3. b[1] \in Addr /\ b = <<b[1], b[2]>>
      BY <3>2
    <3> QED BY <2>4, <3>1, <3>2, <3>3
  <2>8. Cardinality(B) = Cardinality(U)
    <3>1. start \in [U -> B]
      BY <2>6
    <3>2. \A a, d \in U : start[a] = start[d] => a = d
      <4>1. ASSUME NEW a \in U, NEW d \in U, start[a] = start[d] PROVE a = d
        <5>1. <<a, size[a]>> = <<d, size[d]>>
          <6> HIDE DEF U, B
          <6> QED BY <4>1
        <5> QED BY <5>1
      <4> QED BY <4>1
    <3>3. \A b \in B : \E a \in U : start[a] = b
      <4>1. ASSUME NEW b \in B PROVE start[b[1]] = b /\ b[1] \in U
        <5> HIDE DEF U, B
        <5> QED BY <2>7
      <4> QED BY <4>1
    <3>4. start \in Bijection(U, B)
      <4> HIDE DEF U, B, start
      <4> QED BY <3>1, <3>2, <3>3, Fun_IsBij
    <3> HIDE DEF U, B, start
    <3> QED BY <2>5, <3>4, FS_Bijection DEF ExistsBijection
  <2> QED BY <2>3, <2>4, <2>8 DEF WalkIsSound
<1> QED BY <1>1, RaceInvariant, PTL
=============================================================================

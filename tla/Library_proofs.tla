--------------------------- MODULE Library_proofs ---------------------------
(***************************************************************************)
(* Theorems about the C library: the heap of a program (UserHeap), its     *)
(* streams (Streams), of any size and for any requests, the division of    *)
(* two words (Division), of any number of bits, qsort and bsearch          *)
(* (Sorting), of any number of elements, and dates (Dates).                *)
(*                                                                         *)
(* The heap: the chunks are disjoint and each block has a used chunk of    *)
(* its own, unless a walk has got lost in a gap that sbrk left.            *)
(*                                                                         *)
(* Streams: the characters a program writes are numbers that grow, and so  *)
(* are those that come in.  What was written followed by what waits in the *)
(* buffer is such a sequence; what was read, the character given back, the *)
(* rest of the buffer and what waits on the device are, one after the      *)
(* other, all that came in.  Each function of stdio is a lemma about these *)
(* two sequences, fwrite and fread by induction over their loops, and each *)
(* action follows from the lemma of its function.                          *)
(*                                                                         *)
(* Division: the divisor moved left has its leading bit, so that the       *)
(* estimated quotient is at most one too large; one subtraction puts it    *)
(* and the remainder right.  Signs are put on afterwards, and only the     *)
(* least number divided by -1 has no quotient.                             *)
(*                                                                         *)
(* Sorting: between two rounds of the partition's loop the elements are    *)
(* in five places, equal, smaller, not yet looked at, larger and equal;    *)
(* what the exchanges after it make of them is three parts, the outer two  *)
(* of which are shorter than the whole, so that the recursion ends.  All   *)
(* of it only moves elements.  bsearch keeps what it looks for among what  *)
(* it looks at, which gets less with each round.                           *)
(*                                                                         *)
(* Dates: the tables of days have a formula, with which the year and the   *)
(* month that are looked for in them are the right ones.                   *)
(***************************************************************************)
EXTENDS UserHeap, Streams, LibraryCalls, Induction, FiniteSetTheorems, SequenceTheorems, TLAPS

(* The heap of a program.                                                  *)


Chunk == [start : Nat, size : Nat, used : BOOLEAN]
Heaps == [chunks : SUBSET Chunk, end : Nat, brk : Nat, lost : BOOLEAN]
Blocks == [ptr : Nat, size : Nat \ {0}]

(* No two chunks overlap, each has room for more than a header, and none   *)
(* goes beyond the end.                                                    *)
Good(h) ==
    /\ \A c \in h.chunks : HEADER < c.size /\ EndOf(c) <= h.end
    /\ \A c, d \in h.chunks : c = d \/ EndOf(c) <= d.start \/ EndOf(d) <= c.start
    /\ h.end <= h.brk

(* Each block of bs has a used chunk of its own.                           *)
Lies(b, c) == c.used /\ c.start = b.ptr - HEADER /\ b.ptr + b.size <= EndOf(c)
HeldIn(h, bs) ==
    /\ \A b \in bs : \E c \in h.chunks : Lies(b, c)
    /\ \A a, b \in bs : a.ptr = b.ptr => a = b

UserHeapInv ==
    /\ heap \in Heaps /\ held \subseteq Blocks
    /\ ~heap.lost => Good(heap) /\ HeldIn(heap, held)

-----------------------------------------------------------------------------

(* A number rounded up to a multiple of m is no less.                      *)
LEMMA RoundedUp ==
    ASSUME NEW x \in Nat, NEW m \in Nat, m > 0
    PROVE  ((x + m - 1) \div m) * m \in Nat /\ x <= ((x + m - 1) \div m) * m
<1>1. PICK y \in Nat : y = x + m - 1
  OBVIOUS
<1>2. PICK k \in Nat : k = y \div m
  OBVIOUS
<1>3. y < (k + 1) * m
  BY <1>2
<1>4. (k + 1) * m = k * m + m /\ k * m \in Nat
  OBVIOUS
<1> QED BY <1>1, <1>2, <1>3, <1>4

(* A chunk rounded up has room for the header and what was asked for.      *)
LEMMA RealSizeFits ==
    ASSUME NEW n \in Nat \ {0}
    PROVE  RealSize(n) \in Nat /\ HEADER + n <= RealSize(n)
<1>1. HEADER + n \in Nat /\ MINSIZE \in Nat /\ MINSIZE > 0
  BY UserHeapAssumption
<1> QED BY <1>1, RoundedUp DEF RealSize

(* The first chunk that fits is one that does.                             *)
LEMMA FirstFitFits ==
    ASSUME NEW cs \in SUBSET [start : Nat, size : Nat, used : BOOLEAN], NEW real \in Nat,
           Fits(cs, real) # {}
    PROVE  FirstFit(cs, real) \in Fits(cs, real)
<1> DEFINE T == {c.start : c \in Fits(cs, real)}
<1>1. T \in SUBSET Nat /\ T # {}
  BY DEF Fits
<1>2. PICK n \in T : \A m \in T : n <= m
  <2> HIDE DEF T
  <2> QED BY <1>1, LeastElement
<1>3. \E c \in Fits(cs, real) : \A d \in Fits(cs, real) : c.start <= d.start
  BY <1>2
<1> QED BY <1>3 DEF FirstFit

(* The end of what free merges is one of the candidates, the least.        *)
LEMMA LeastOfIs ==
    ASSUME NEW T \in SUBSET Nat, T # {}
    PROVE  LeastOf(T) \in T /\ \A m \in T : LeastOf(T) <= m
BY LeastElement DEF LeastOf

(* Chunks that lie within one that is taken out take its place.            *)
LEMMA PlacedGood ==
    ASSUME NEW h \in Heaps, Good(h), NEW c \in h.chunks, NEW fresh \in SUBSET Chunk,
           \A d \in fresh : HEADER < d.size /\ c.start <= d.start /\ EndOf(d) <= EndOf(c),
           \A d, e \in fresh : d = e \/ EndOf(d) <= e.start \/ EndOf(e) <= d.start
    PROVE  LET g == [h EXCEPT !.chunks = (h.chunks \ {c}) \cup fresh]
           IN  g \in Heaps /\ Good(g)
<1> DEFINE g == [h EXCEPT !.chunks = (h.chunks \ {c}) \cup fresh]
<1>1. /\ g \in Heaps /\ g.chunks = (h.chunks \ {c}) \cup fresh
      /\ g.end = h.end /\ g.brk = h.brk
      /\ h.chunks \in SUBSET Chunk /\ h.end \in Nat
  BY DEF Heaps, Chunk
<1> HIDE DEF g
<1>2. \A d \in h.chunks \cup fresh :
        d.start \in Nat /\ d.size \in Nat /\ EndOf(d) = d.start + d.size
  BY <1>1 DEF Chunk, EndOf
<1>3. HEADER \in Nat
  BY UserHeapAssumption
<1>4. ASSUME NEW d \in g.chunks PROVE HEADER < d.size /\ EndOf(d) <= g.end
  <2>1. EndOf(c) <= h.end /\ EndOf(c) \in Nat
    BY <1>2 DEF Good
  <2> QED BY <1>1, <1>2, <2>1 DEF Good
<1>5. ASSUME NEW d \in h.chunks \ {c}, NEW e \in fresh
      PROVE  EndOf(d) <= e.start \/ EndOf(e) <= d.start
  <2>1. EndOf(d) <= c.start \/ EndOf(c) <= d.start
    BY DEF Good
  <2> QED BY <1>2, <2>1
<1>6. ASSUME NEW d \in g.chunks, NEW e \in g.chunks
      PROVE  d = e \/ EndOf(d) <= e.start \/ EndOf(e) <= d.start
  BY <1>1, <1>5 DEF Good
<1>7. g \in Heaps /\ Good(g)
  BY <1>1, <1>4, <1>6 DEF Good
<1> QED BY <1>7 DEF g

(* malloc that does not get lost: the heap is good, the used chunks stay,  *)
(* and one more is used, at the address returned.                          *)
LEMMA MallocGood ==
    ASSUME NEW h \in Heaps, Good(h), NEW n \in Nat \ {0},
           NEW m, m = malloc(h, n), ~m.heap.lost
    PROVE  /\ m.heap \in Heaps /\ Good(m.heap)
           /\ m.ptr \in Nat
           /\ \A d \in h.chunks : d.used => d \in m.heap.chunks /\ d.start # m.ptr - HEADER
           /\ \E u \in m.heap.chunks : Lies([ptr |-> m.ptr, size |-> n], u)
<1> DEFINE real == RealSize(n)
           c == FirstFit(h.chunks, real)
<1>1. /\ HEADER \in Nat \ {0} /\ MINSIZE \in Nat /\ HEADER < MINSIZE
      /\ real \in Nat /\ HEADER + n <= real
  BY RealSizeFits, UserHeapAssumption
<1> HIDE DEF real
<1>2. h.chunks \in SUBSET Chunk /\ h.end \in Nat /\ h.brk \in Nat
  BY DEF Heaps, Chunk
<1>3. CASE Fits(h.chunks, real) # {}
  <2>1. c \in h.chunks /\ ~c.used /\ real <= c.size /\ c \in Chunk
    <3>1. c \in Fits(h.chunks, real)
      BY <1>1, <1>2, <1>3, FirstFitFits DEF Chunk
    <3> HIDE DEF c
    <3> QED BY <1>1, <1>2, <3>1 DEF Fits
  <2>2. m = [heap |-> [h EXCEPT !.chunks = Place(h.chunks, c, real)], ptr |-> c.start + HEADER]
    BY <1>3 DEF malloc, real
  <2> HIDE DEF c
  <2>3. PICK u \in Chunk, fresh \in SUBSET Chunk :
          /\ Place(h.chunks, c, real) = (h.chunks \ {c}) \cup fresh
          /\ u \in fresh /\ u.used /\ u.start = c.start /\ real <= u.size
          /\ \A d \in fresh : HEADER < d.size /\ c.start <= d.start /\ EndOf(d) <= EndOf(c)
          /\ \A d, e \in fresh : d = e \/ EndOf(d) <= e.start \/ EndOf(e) <= d.start
    <3>1. CASE c.size - real < MINSIZE
      <4> DEFINE u == [c EXCEPT !.used = TRUE]
      <4>1. /\ u \in Chunk /\ u.used /\ u.start = c.start /\ u.size = c.size
            /\ c.start \in Nat /\ c.size \in Nat
        BY <2>1 DEF Chunk
      <4>2. Place(h.chunks, c, real) = (h.chunks \ {c}) \cup {u}
        BY <3>1 DEF Place
      <4> HIDE DEF u
      <4>3. HEADER < u.size /\ EndOf(u) <= EndOf(c)
        BY <1>1, <2>1, <4>1 DEF EndOf
      <4>4. {u} \in SUBSET Chunk
        BY <4>1
      <4>5. \A d \in {u} : HEADER < d.size /\ c.start <= d.start /\ EndOf(d) <= EndOf(c)
        BY <4>1, <4>3
      <4>6. u \in {u} /\ real <= u.size /\ \A d, e \in {u} : d = e
        BY <2>1, <4>1
      <4> QED BY <4>1, <4>2, <4>4, <4>5, <4>6
    <3>2. CASE ~ (c.size - real < MINSIZE)
      <4> DEFINE u == [c EXCEPT !.size = real, !.used = TRUE]
                 r == [start |-> c.start + real, size |-> c.size - real, used |-> FALSE]
      <4>1. /\ c.start \in Nat /\ c.size \in Nat
            /\ u \in Chunk /\ u.used /\ u.start = c.start /\ u.size = real
            /\ r \in Chunk /\ r.start = c.start + real /\ r.size = c.size - real
        <5>1. c.start \in Nat /\ c.size \in Nat /\ c.size - real \in Nat
          BY <1>1, <2>1, <3>2 DEF Chunk
        <5>2. u \in Chunk /\ u.used /\ u.start = c.start /\ u.size = real
          BY <1>1, <2>1 DEF Chunk
        <5>3. r \in Chunk /\ r.start = c.start + real /\ r.size = c.size - real
          BY <1>1, <5>1 DEF Chunk
        <5> QED BY <5>1, <5>2, <5>3
      <4>2. Place(h.chunks, c, real) = (h.chunks \ {c}) \cup {u, r}
        BY <3>2 DEF Place
      <4> HIDE DEF u, r
      <4>3. /\ HEADER < u.size /\ EndOf(u) <= EndOf(c) /\ EndOf(u) <= r.start
            /\ HEADER < r.size /\ EndOf(r) <= EndOf(c) /\ c.start <= r.start
        BY <1>1, <2>1, <3>2, <4>1 DEF EndOf
      <4>4. {u, r} \in SUBSET Chunk
        BY <4>1
      <4>5. \A d \in {u, r} : HEADER < d.size /\ c.start <= d.start /\ EndOf(d) <= EndOf(c)
        BY <4>1, <4>3
      <4>6. \A d, e \in {u, r} : d = e \/ EndOf(d) <= e.start \/ EndOf(e) <= d.start
        BY <4>3
      <4>7. u \in {u, r} /\ real <= u.size
        BY <1>1, <4>1
      <4> QED BY <4>1, <4>2, <4>4, <4>5, <4>6, <4>7
    <3> QED BY <3>1, <3>2
  <2>4. m.heap = [h EXCEPT !.chunks = (h.chunks \ {c}) \cup fresh] /\ m.ptr = c.start + HEADER
    BY <2>2, <2>3
  <2>5. m.heap \in Heaps /\ Good(m.heap)
    BY <2>1, <2>3, <2>4, PlacedGood
  <2>6. m.heap.chunks = (h.chunks \ {c}) \cup fresh
    BY <2>4 DEF Heaps
  <2>7. m.ptr \in Nat /\ m.ptr - HEADER = c.start
    BY <1>1, <2>1, <2>4 DEF Chunk
  <2>8. ASSUME NEW d \in h.chunks, d.used PROVE d \in m.heap.chunks /\ d.start # c.start
    <3>1. d # c
      BY <2>1, <2>8
    <3>2. /\ EndOf(d) <= c.start \/ EndOf(c) <= d.start
          /\ HEADER < d.size /\ HEADER < c.size
      BY <2>1, <3>1 DEF Good
    <3>3. d.start # c.start
      BY <1>1, <1>2, <2>1, <3>2 DEF EndOf, Chunk
    <3> QED BY <2>6, <3>1, <3>3
  <2>9. Lies([ptr |-> m.ptr, size |-> n], u) /\ u \in m.heap.chunks
    BY <1>1, <2>1, <2>3, <2>6, <2>7 DEF Lies, EndOf, Chunk
  <2> QED BY <2>5, <2>7, <2>8, <2>9
<1>4. CASE Fits(h.chunks, real) = {}
  <2> DEFINE u == [start |-> h.brk, size |-> real, used |-> TRUE]
  <2>1. m = [heap |-> [h EXCEPT !.chunks = h.chunks \cup {u},
                                !.brk = h.brk + real, !.end = h.brk + real],
             ptr |-> h.brk + HEADER]
    BY <1>4 DEF malloc, real
  <2>2. /\ u \in Chunk /\ u.used /\ u.start = h.brk /\ u.size = real
        /\ EndOf(u) = h.brk + real
    BY <1>1, <1>2 DEF Chunk, EndOf
  <2> HIDE DEF u
  <2>3. /\ m.heap.chunks = h.chunks \cup {u} /\ m.heap.end = h.brk + real
        /\ m.heap.brk = h.brk + real /\ m.ptr = h.brk + HEADER
        /\ m.heap \in Heaps
    <3>1. h.chunks \cup {u} \in SUBSET Chunk /\ h.brk + real \in Nat
      BY <1>1, <1>2, <2>2
    <3>2. PICK cs \in SUBSET Chunk, k \in Nat : cs = h.chunks \cup {u} /\ k = h.brk + real
      BY <3>1
    <3>3. m.heap = [h EXCEPT !.chunks = cs, !.brk = k, !.end = k]
      BY <2>1, <3>2
    <3>4. m.heap = [chunks |-> cs, end |-> k, brk |-> k, lost |-> h.lost] /\ h.lost \in BOOLEAN
      BY <3>3 DEF Heaps
    <3>5. m.heap \in Heaps
      BY <3>4 DEF Heaps
    <3>6. m.ptr = h.brk + HEADER
      BY <2>1
    <3>7. m.heap.chunks = cs /\ m.heap.end = k /\ m.heap.brk = k
      BY <3>4
    <3> QED BY <3>2, <3>5, <3>6, <3>7
  <2>4. \A d \in h.chunks : /\ d.start \in Nat /\ d.size \in Nat /\ EndOf(d) = d.start + d.size
                            /\ HEADER < d.size /\ EndOf(d) <= h.brk /\ d.start < h.brk
    BY <1>1, <1>2 DEF Good, Chunk, EndOf
  <2>5. \A d \in h.chunks \cup {u} : HEADER < d.size /\ EndOf(d) <= h.brk + real
    BY <1>1, <1>2, <2>2, <2>4
  <2>6. \A d, e \in h.chunks \cup {u} :
          d = e \/ EndOf(d) <= e.start \/ EndOf(e) <= d.start
    BY <2>2, <2>4 DEF Good
  <2>7. Good(m.heap)
    BY <1>1, <1>2, <2>3, <2>5, <2>6 DEF Good
  <2>8. Lies([ptr |-> m.ptr, size |-> n], u)
    BY <1>1, <1>2, <2>2, <2>3 DEF Lies
  <2>9. m.ptr \in Nat /\ m.ptr - HEADER = h.brk
    BY <1>1, <1>2, <2>3
  <2> QED BY <2>3, <2>4, <2>7, <2>8, <2>9
<1> QED BY <1>3, <1>4

(* malloc that gets lost hands out nothing and leaves the chunks.          *)
LEMMA MallocLost ==
    ASSUME NEW h \in Heaps, ~h.lost, NEW n, NEW m, m = malloc(h, n), m.heap.lost
    PROVE  m.heap = [h EXCEPT !.lost = TRUE] /\ m.heap \in Heaps
<1> DEFINE real == RealSize(n)
           c == FirstFit(h.chunks, real)
           cs == Place(h.chunks, c, real)
           k == h.brk + real
           ds == h.chunks \cup {[start |-> h.brk, size |-> real, used |-> TRUE]}
<1>1. \/ m.heap = [h EXCEPT !.chunks = cs]
      \/ m.heap = [h EXCEPT !.chunks = ds, !.brk = k, !.end = k]
      \/ m.heap = [h EXCEPT !.lost = TRUE]
  BY DEF malloc
<1> HIDE DEF cs, ds, k
<1>2. CASE m.heap = [h EXCEPT !.chunks = cs]
  BY <1>2 DEF Heaps
<1>3. CASE m.heap = [h EXCEPT !.chunks = ds, !.brk = k, !.end = k]
  BY <1>3 DEF Heaps
<1>4. CASE m.heap = [h EXCEPT !.lost = TRUE]
  BY <1>4 DEF Heaps
<1> QED BY <1>1, <1>2, <1>3, <1>4

(* The chunk at an address is the only one there.                          *)
LEMMA ChunkAtIs ==
    ASSUME NEW h \in Heaps, Good(h), NEW c \in h.chunks, NEW ptr \in Nat,
           c.start = ptr - HEADER
    PROVE  ChunkAt(h, ptr) = c
<1>1. HEADER \in Nat \ {0}
  BY UserHeapAssumption
<1>2. \A d \in h.chunks : /\ d.start \in Nat /\ d.size \in Nat /\ HEADER < d.size
                          /\ EndOf(d) = d.start + d.size
  BY DEF Good, Heaps, Chunk, EndOf
<1>3. ASSUME NEW d \in h.chunks, d.start = ptr - HEADER PROVE d = c
  BY <1>1, <1>2, <1>3 DEF Good
<1> QED BY <1>3 DEF ChunkAt

(* free that does not get lost: the heap is good and the other used chunks *)
(* stay; free that gets lost leaves the chunks.                            *)
LEMMA FreeGood ==
    ASSUME NEW h \in Heaps, ~h.lost, Good(h), NEW c \in h.chunks, c.used,
           NEW ptr \in Nat, c.start = ptr - HEADER, NEW g, g = free(h, ptr)
    PROVE  /\ g \in Heaps
           /\ ~g.lost => /\ Good(g)
                         /\ \A d \in h.chunks : d.used /\ d # c => d \in g.chunks
<1>1. HEADER \in Nat \ {0} /\ h.chunks \in SUBSET Chunk /\ h.end \in Nat
  BY UserHeapAssumption DEF Heaps
<1>2. \A d \in h.chunks :
        /\ d.start \in Nat /\ d.size \in Nat /\ EndOf(d) = d.start + d.size
        /\ HEADER < d.size /\ EndOf(d) <= h.end
        /\ d = c \/ EndOf(d) <= c.start \/ EndOf(c) <= d.start
  BY <1>1 DEF Good, Chunk, EndOf
<1> DEFINE T == {d.start : d \in {d \in h.chunks : d.used /\ d.start > c.start}} \cup {h.end}
<1>3. T \in SUBSET Nat /\ T # {}
  BY <1>1, <1>2
<1>4. PICK e \in Nat : e = LeastOf(T) /\ e \in T /\ \A k \in T : e <= k
  <2> HIDE DEF T
  <2> QED BY <1>3, LeastOfIs
<1>5. EndOf(c) <= e /\ e <= h.end
  <2>1. ASSUME NEW k \in T PROVE EndOf(c) <= k
    BY <1>1, <1>2, <2>1
  <2> QED BY <1>4, <2>1
<1>6. \A d \in h.chunks : d.used /\ d.start > c.start => e <= d.start
  BY <1>4
<1> DEFINE new == [start |-> c.start, size |-> e - c.start, used |-> FALSE]
           cs == {d \in h.chunks : d.start < c.start \/ d.start >= e} \cup {new}
<1>7. g = IF Unbroken(h.chunks, EndOf(c), e)
          THEN [h EXCEPT !.chunks = cs] ELSE [h EXCEPT !.lost = TRUE]
  BY <1>4, ChunkAtIs DEF free
<1>8. /\ new \in Chunk /\ new.start = c.start /\ new.size = e - c.start
      /\ EndOf(new) = e /\ HEADER < new.size
  <2>1. e - c.start \in Nat /\ HEADER < e - c.start /\ c.start + (e - c.start) = e
    BY <1>1, <1>2, <1>5
  <2> QED BY <1>2, <2>1 DEF Chunk, EndOf
<1> HIDE DEF T, new
<1>9. cs \in SUBSET Chunk
  BY <1>1, <1>8
<1>10. \A d \in h.chunks : d.used /\ d # c => d \in cs
  BY <1>1, <1>2, <1>6
<1>11. \A d \in cs : HEADER < d.size /\ EndOf(d) <= h.end
  BY <1>2, <1>5, <1>8
<1>12. ASSUME NEW d \in h.chunks, d.start < c.start \/ d.start >= e
       PROVE  EndOf(d) <= c.start \/ e <= d.start
  BY <1>1, <1>2, <1>5, <1>12
<1>13. \A d, k \in cs : d = k \/ EndOf(d) <= k.start \/ EndOf(k) <= d.start
  BY <1>8, <1>12 DEF Good
<1> HIDE DEF cs
<1>14. CASE Unbroken(h.chunks, EndOf(c), e)
  <2>1. g \in Heaps /\ g.chunks = cs /\ g.end = h.end /\ g.brk = h.brk
    BY <1>7, <1>9, <1>14 DEF Heaps
  <2> QED BY <1>10, <1>11, <1>13, <2>1 DEF Good
<1>15. CASE ~Unbroken(h.chunks, EndOf(c), e)
  BY <1>7, <1>15 DEF Heaps
<1> QED BY <1>14, <1>15

-----------------------------------------------------------------------------

LEMMA InitUserHeap == HeapInit => UserHeapInv
<1> SUFFICES ASSUME HeapInit PROVE UserHeapInv
  OBVIOUS
<1>1. USER_HEAP \in Nat
  BY UserHeapAssumption
<1>2. heap \in Heaps
  BY <1>1 DEF HeapInit, Heaps
<1>3. Good(heap) /\ HeldIn(heap, held) /\ held \subseteq Blocks
  BY <1>1 DEF HeapInit, Good, HeldIn
<1> QED BY <1>2, <1>3 DEF UserHeapInv

(* A block handed out joins those held.                                    *)
LEMMA HeldGrows ==
    ASSUME NEW h \in Heaps, NEW g \in Heaps, NEW bs \in SUBSET Blocks, HeldIn(h, bs),
           NEW ptr \in Nat, NEW n \in Nat \ {0},
           \A d \in h.chunks : d.used => d \in g.chunks /\ d.start # ptr - HEADER,
           \E u \in g.chunks : Lies([ptr |-> ptr, size |-> n], u)
    PROVE  HeldIn(g, bs \cup {[ptr |-> ptr, size |-> n]})
<1> DEFINE new == [ptr |-> ptr, size |-> n]
<1>1. new.ptr = ptr
  OBVIOUS
<1> HIDE DEF new
<1>2. ASSUME NEW b \in bs PROVE b.ptr # ptr /\ \E d \in g.chunks : Lies(b, d)
  <2>1. PICK d \in h.chunks : Lies(b, d)
    BY DEF HeldIn
  <2> QED BY <2>1 DEF Lies
<1>3. \E d \in g.chunks : Lies(new, d)
  BY DEF new
<1>4. HeldIn(g, bs \cup {new})
  BY <1>1, <1>2, <1>3 DEF HeldIn
<1> QED BY <1>4 DEF new

(* A block given back leaves those held.                                   *)
LEMMA HeldShrinks ==
    ASSUME NEW h \in Heaps, NEW g \in Heaps, NEW bs \in SUBSET Blocks, HeldIn(h, bs),
           NEW b \in bs, NEW c \in h.chunks, Lies(b, c),
           \A d \in h.chunks : d.used /\ d # c => d \in g.chunks
    PROVE  HeldIn(g, bs \ {b})
<1>1. ASSUME NEW a \in bs \ {b} PROVE \E d \in g.chunks : Lies(a, d)
  <2>1. PICK d \in h.chunks : Lies(a, d)
    BY DEF HeldIn
  <2>2. a.ptr # b.ptr /\ a.ptr \in Nat /\ b.ptr \in Nat
    BY DEF HeldIn, Blocks
  <2>3. d # c
    BY <2>1, <2>2, UserHeapAssumption DEF Lies
  <2> QED BY <2>1, <2>3 DEF Lies
<1> QED BY <1>1 DEF HeldIn

LEMMA MallocKeeps ==
    ASSUME UserHeapInv, ~heap.lost, NEW n \in Requests, Malloc(n)
    PROVE  UserHeapInv'
<1>1. PICK m : m = malloc(heap, n)
  OBVIOUS
<1>2. /\ n \in Nat \ {0} /\ heap' = m.heap
      /\ held' = IF m.heap.lost THEN held ELSE held \cup {[ptr |-> m.ptr, size |-> n]}
      /\ heap \in Heaps /\ held \in SUBSET Blocks /\ Good(heap) /\ HeldIn(heap, held)
  BY <1>1, UserHeapAssumption DEF Malloc, UserHeapInv
<1>3. CASE m.heap.lost
  <2>1. heap' \in Heaps /\ heap'.lost
    BY <1>1, <1>2, <1>3, MallocLost
  <2> QED BY <1>2, <1>3, <2>1 DEF UserHeapInv
<1>4. CASE ~m.heap.lost
  <2>1. /\ m.heap \in Heaps /\ Good(m.heap) /\ m.ptr \in Nat
        /\ \A d \in heap.chunks : d.used => d \in m.heap.chunks /\ d.start # m.ptr - HEADER
        /\ \E u \in m.heap.chunks : Lies([ptr |-> m.ptr, size |-> n], u)
    BY <1>1, <1>2, <1>4, MallocGood
  <2>2. HeldIn(heap', held')
    BY <1>2, <1>4, <2>1, HeldGrows
  <2>3. held' \subseteq Blocks
    BY <1>2, <1>4, <2>1 DEF Blocks
  <2> QED BY <1>2, <2>1, <2>2, <2>3 DEF UserHeapInv, Good, HeldIn
<1> QED BY <1>3, <1>4

LEMMA FreeKeeps ==
    ASSUME UserHeapInv, ~heap.lost, NEW b \in held, Free(b)
    PROVE  UserHeapInv'
<1>1. /\ heap' = free(heap, b.ptr) /\ held' = held \ {b} /\ b.ptr \in Nat
      /\ heap \in Heaps /\ held \in SUBSET Blocks /\ Good(heap) /\ HeldIn(heap, held)
  BY DEF Free, UserHeapInv, Blocks
<1>2. PICK c \in heap.chunks : Lies(b, c)
  BY <1>1 DEF HeldIn
<1>3. /\ heap' \in Heaps
      /\ ~heap'.lost => /\ Good(heap')
                        /\ \A d \in heap.chunks : d.used /\ d # c => d \in heap'.chunks
  BY <1>1, <1>2, FreeGood DEF Lies
<1>4. ~heap'.lost => HeldIn(heap', held')
  BY <1>1, <1>2, <1>3, HeldShrinks
<1> QED BY <1>1, <1>3, <1>4 DEF UserHeapInv, Good, HeldIn

LEMMA ReallocKeeps ==
    ASSUME UserHeapInv, ~heap.lost, NEW b \in held, NEW nsize \in Requests, Realloc(b, nsize)
    PROVE  UserHeapInv'
<1>1. /\ b.ptr \in Nat
      /\ heap \in Heaps /\ held \in SUBSET Blocks /\ Good(heap) /\ HeldIn(heap, held)
  BY DEF UserHeapInv, Blocks
<1>2. PICK c \in heap.chunks : Lies(b, c)
  BY <1>1 DEF HeldIn
<1>3. ChunkAt(heap, b.ptr) = c /\ c.size \in Nat
  BY <1>1, <1>2, ChunkAtIs DEF Lies, Heaps, Chunk
<1>4. PICK n \in Nat \ {0} : n = c.size + nsize
  BY <1>3, UserHeapAssumption
<1>5. PICK m : m = malloc(heap, n)
  OBVIOUS
<1>6. /\ heap' = IF m.heap.lost THEN m.heap ELSE free(m.heap, b.ptr)
      /\ held' = (held \ {b}) \cup
                 (IF m.heap.lost THEN {} ELSE {[ptr |-> m.ptr, size |-> n]})
  BY <1>3, <1>4, <1>5 DEF Realloc
<1>7. CASE m.heap.lost
  <2>1. heap' \in Heaps /\ heap'.lost
    BY <1>1, <1>5, <1>6, <1>7, MallocLost
  <2> QED BY <1>1, <1>6, <1>7, <2>1 DEF UserHeapInv
<1>8. CASE ~m.heap.lost
  <2>1. /\ m.heap \in Heaps /\ Good(m.heap) /\ m.ptr \in Nat
        /\ \A d \in heap.chunks : d.used => d \in m.heap.chunks /\ d.start # m.ptr - HEADER
        /\ \E u \in m.heap.chunks : Lies([ptr |-> m.ptr, size |-> n], u)
    BY <1>1, <1>5, <1>8, MallocGood
  <2>2. PICK new : new = [ptr |-> m.ptr, size |-> n]
    OBVIOUS
  <2>3. new \in Blocks /\ new.ptr = m.ptr
    BY <2>1, <2>2 DEF Blocks
  <2>4. HeldIn(m.heap, held \cup {new})
    BY <1>1, <2>1, <2>2, HeldGrows
  <2>5. new # b /\ c \in m.heap.chunks
    BY <1>2, <2>1, <2>3 DEF Lies
  <2>6. heap' = free(m.heap, b.ptr) /\ held' = (held \cup {new}) \ {b}
    BY <1>6, <1>8, <2>2, <2>5
  <2>7. /\ heap' \in Heaps
        /\ ~heap'.lost => /\ Good(heap')
                          /\ \A d \in m.heap.chunks : d.used /\ d # c => d \in heap'.chunks
    BY <1>1, <1>2, <1>8, <2>1, <2>5, <2>6, FreeGood DEF Lies
  <2>8. ~heap'.lost => HeldIn(heap', held')
    <3>1. held \cup {new} \in SUBSET Blocks
      BY <1>1, <2>3
    <3> QED BY <1>1, <1>2, <2>1, <2>4, <2>5, <2>6, <2>7, <3>1, HeldShrinks
  <2>9. held' \subseteq Blocks
    BY <1>1, <2>3, <2>6
  <2> QED BY <2>7, <2>8, <2>9 DEF UserHeapInv, Good, HeldIn
<1> QED BY <1>7, <1>8

LEMMA SbrkKeeps ==
    ASSUME UserHeapInv, Sbrk
    PROVE  UserHeapInv'
<1>1. PICK k \in Nat : k = heap.brk + MINSIZE /\ heap.brk <= k /\ heap.brk \in Nat
  BY UserHeapAssumption DEF UserHeapInv, Heaps
<1>2. heap' = [heap EXCEPT !.brk = k] /\ held' = held /\ heap \in Heaps
  BY <1>1 DEF Sbrk, UserHeapInv
<1>3. /\ heap' \in Heaps /\ heap'.chunks = heap.chunks /\ heap'.end = heap.end
      /\ heap'.brk = k /\ heap'.lost = heap.lost /\ heap.end \in Nat
  BY <1>2 DEF Heaps
<1> QED BY <1>1, <1>2, <1>3 DEF UserHeapInv, Good, HeldIn

LEMMA NextUserHeap == UserHeapInv /\ [HeapNext]_heapVars => UserHeapInv'
<1> SUFFICES ASSUME UserHeapInv, [HeapNext]_heapVars PROVE UserHeapInv'
  OBVIOUS
<1>1. CASE HeapNext
  <2>1. ~heap.lost
    BY <1>1 DEF HeapNext
  <2>2. ASSUME NEW n \in Requests, Malloc(n) PROVE UserHeapInv'
    BY <2>1, <2>2, MallocKeeps
  <2>3. ASSUME NEW n \in Requests, NEW b \in held, Realloc(b, n) PROVE UserHeapInv'
    BY <2>1, <2>3, ReallocKeeps
  <2>4. ASSUME NEW b \in held, Free(b) PROVE UserHeapInv'
    BY <2>1, <2>4, FreeKeeps
  <2>5. CASE Sbrk
    BY <2>5, SbrkKeeps
  <2> QED BY <1>1, <2>2, <2>3, <2>4, <2>5 DEF HeapNext
<1>2. CASE UNCHANGED heapVars
  BY <1>2 DEF heapVars, UserHeapInv, Good, HeldIn
<1> QED BY <1>1, <1>2

LEMMA HeldIsApart == UserHeapInv => BlocksApart
<1> SUFFICES ASSUME UserHeapInv, ~heap.lost PROVE
      \A b \in held :
        /\ \E c \in heap.chunks : Lies(b, c)
        /\ \A c \in heap.chunks : c.start + HEADER <= b.ptr \/ b.ptr + b.size <= c.start
        /\ \A a \in held \ {b} : a.ptr + a.size <= b.ptr \/ b.ptr + b.size <= a.ptr
  BY DEF BlocksApart, Lies
<1>1. heap \in Heaps /\ held \subseteq Blocks /\ Good(heap) /\ HeldIn(heap, held)
  BY DEF UserHeapInv
<1>2. HEADER \in Nat \ {0}
  BY UserHeapAssumption
<1>3. \A c \in heap.chunks : c.start \in Nat /\ c.size \in Nat /\ EndOf(c) = c.start + c.size
                             /\ HEADER < c.size
  BY <1>1 DEF Heaps, Chunk, EndOf, Good
<1>4. \A b \in held : b.ptr \in Nat /\ b.size \in Nat
  BY <1>1 DEF Blocks
<1>5. ASSUME NEW b \in held
      PROVE  /\ \E c \in heap.chunks : Lies(b, c)
             /\ \A c \in heap.chunks : c.start + HEADER <= b.ptr \/ b.ptr + b.size <= c.start
             /\ \A a \in held \ {b} : a.ptr + a.size <= b.ptr \/ b.ptr + b.size <= a.ptr
  <2>1. PICK u \in heap.chunks : Lies(b, u)
    BY <1>1 DEF HeldIn
  <2>2. u.start = b.ptr - HEADER /\ b.ptr + b.size <= EndOf(u)
    BY <2>1 DEF Lies
  <2>3. ASSUME NEW c \in heap.chunks
        PROVE  c.start + HEADER <= b.ptr \/ b.ptr + b.size <= c.start
    <3>1. c = u \/ EndOf(c) <= u.start \/ EndOf(u) <= c.start
      BY <1>1 DEF Good
    <3> QED BY <1>2, <1>3, <1>4, <2>2, <3>1
  <2>4. ASSUME NEW a \in held \ {b}
        PROVE  a.ptr + a.size <= b.ptr \/ b.ptr + b.size <= a.ptr
    <3>1. PICK v \in heap.chunks : Lies(a, v)
      BY <1>1 DEF HeldIn
    <3>2. v.start = a.ptr - HEADER /\ a.ptr + a.size <= EndOf(v)
      BY <3>1 DEF Lies
    <3>3. a.ptr # b.ptr
      BY <1>1 DEF HeldIn
    <3>4. v # u
      BY <1>2, <1>4, <2>2, <3>2, <3>3
    <3>5. EndOf(v) <= u.start \/ EndOf(u) <= v.start
      BY <1>1, <3>4 DEF Good
    <3> QED BY <1>2, <1>3, <1>4, <2>2, <3>2, <3>5
  <2> QED BY <2>1, <2>3, <2>4
<1> QED BY <1>5

(* Whatever the sizes of headers, chunks and requests, blocks in the hands *)
(* of a program never overlap each other or a header (BlocksApart), through*)
(* malloc, free, realloc and the program's own sbrk.                       *)
THEOREM BlocksApartAlways == HeapSpec => []BlocksApart
<1>1. HeapInit => UserHeapInv
  BY InitUserHeap
<1>2. UserHeapInv /\ [HeapNext]_heapVars => UserHeapInv'
  BY NextUserHeap
<1>3. UserHeapInv => BlocksApart
  BY HeldIsApart
<1> QED BY <1>1, <1>2, <1>3, PTL DEF HeapSpec

-----------------------------------------------------------------------------
(* Streams.                                                                *)

Text == Seq(Nat)

Files(k) ==
    [can : {k}, error : BOOLEAN, eof : BOOLEAN, linewise : BOOLEAN, nobuf : BOOLEAN,
     bufinput : BOOLEAN, buffer : Text, pos : Nat, size : Nat, data : Nat,
     ungotten : BOOLEAN, unget : Nat, open : BOOLEAN]

Devices == [works : BOOLEAN, in : Text, out : Text]

(* Output lies in the buffer up to pos, input up to data, and output       *)
(* without buffering never does.                                           *)
Sound(st) ==
    IF st.bufinput THEN st.data <= Len(st.buffer)
    ELSE st.data = 0 /\ st.pos <= Len(st.buffer) /\ (st.nobuf => st.pos = 0)

Calls(k) == {s \in [st : Files(k), dv : Devices, ret : Int, smash : BOOLEAN] : Sound(s.st)}

(* What a state has written, and what it has still to give.                *)
Out(s) == s.dv.out \o Pending(s.st)
Back(st) == IF st.ungotten THEN <<st.unget>> ELSE <<>>
Inp(s) == Back(s.st) \o Unread(s.st) \o s.dv.in

-----------------------------------------------------------------------------

(* The parts of a call's state, with their types.                          *)
LEMMA Parts ==
    ASSUME NEW k, NEW s \in Calls(k)
    PROVE  /\ s.st \in Files(k) /\ s.dv \in Devices /\ s.ret \in Int /\ s.smash \in BOOLEAN
           /\ Sound(s.st)
           /\ s.st.bufinput \in BOOLEAN /\ s.st.buffer \in Text /\ s.st.pos \in Nat
           /\ s.st.data \in Nat /\ s.st.size \in Nat /\ s.st.unget \in Nat
           /\ s.st.nobuf \in BOOLEAN /\ s.st.ungotten \in BOOLEAN
           /\ s.dv.works \in BOOLEAN /\ s.dv.in \in Text /\ s.dv.out \in Text
<1>1. /\ s \in [st : Files(k), dv : Devices, ret : Int, smash : BOOLEAN] /\ Sound(s.st)
  BY DEF Calls
<1>2. s.st \in Files(k) /\ s.dv \in Devices /\ s.ret \in Int /\ s.smash \in BOOLEAN
  BY <1>1
<1>3. /\ s.st.bufinput \in BOOLEAN /\ s.st.buffer \in Text /\ s.st.pos \in Nat
      /\ s.st.data \in Nat /\ s.st.size \in Nat /\ s.st.unget \in Nat
      /\ s.st.nobuf \in BOOLEAN /\ s.st.ungotten \in BOOLEAN
  BY <1>2 DEF Files
<1>4. s.dv.works \in BOOLEAN /\ s.dv.in \in Text /\ s.dv.out \in Text
  BY <1>2 DEF Devices
<1> QED BY <1>1, <1>2, <1>3, <1>4

(* The parts of a buffer are texts.                                        *)
LEMMA Slices ==
    ASSUME NEW b \in Text, NEW m \in Nat, NEW n \in Nat, n <= Len(b)
    PROVE  /\ SubSeq(b, 1, n) \in Text /\ Len(SubSeq(b, 1, n)) = n
           /\ SubSeq(b, m + 1, n) \in Text
           /\ n <= m => SubSeq(b, m + 1, n) = <<>>
<1>1. \A i \in 1 .. n : b[i] \in Nat
  BY DEF Text
<1>2. SubSeq(b, 1, n) \in Text /\ Len(SubSeq(b, 1, n)) = n
  BY <1>1, SubSeqProperties DEF Text
<1>3. SubSeq(b, m + 1, n) \in Text
  BY <1>1, SubSeqProperties DEF Text
<1>4. n <= m => SubSeq(b, m + 1, n) = <<>>
  BY SubSeqEmpty
<1> QED BY <1>2, <1>3, <1>4

(* Nothing joined to a text is the text.                                   *)
LEMMA Joined ==
    /\ <<>> \in Text
    /\ \A a \in Text : a \o <<>> = a /\ <<>> \o a = a
    /\ \A a, b \in Text : a \o b \in Text /\ Len(a \o b) = Len(a) + Len(b)
    /\ \A a, b, c \in Text : (a \o b) \o c = a \o (b \o c)
BY ConcatEmptySeq, ConcatProperties, ConcatAssociative, EmptySeq DEF Text

(* What a joined text has.                                                 *)
LEMMA InJoined ==
    ASSUME NEW a \in Text, NEW b \in Text, NEW c
    PROVE  In(c, a \o b) <=> In(c, a) \/ In(c, b)
<1>1. /\ Len(a) \in Nat /\ Len(b) \in Nat /\ Len(a \o b) = Len(a) + Len(b)
      /\ DOMAIN a = 1 .. Len(a) /\ DOMAIN b = 1 .. Len(b)
      /\ DOMAIN (a \o b) = 1 .. Len(a) + Len(b)
      /\ \A i \in 1 .. Len(a) + Len(b) :
           (a \o b)[i] = IF i <= Len(a) THEN a[i] ELSE b[i - Len(a)]
  BY ConcatProperties, LenProperties DEF Text
<1>2. ASSUME In(c, a) PROVE In(c, a \o b)
  <2>1. PICK i \in 1 .. Len(a) : a[i] = c
    BY <1>1, <1>2 DEF In
  <2> QED BY <1>1, <2>1 DEF In
<1>3. ASSUME In(c, b) PROVE In(c, a \o b)
  <2>1. PICK i \in 1 .. Len(b) : b[i] = c
    BY <1>1, <1>3 DEF In
  <2>2. Len(a) + i \in 1 .. Len(a) + Len(b) /\ (a \o b)[Len(a) + i] = c
    BY <1>1, <2>1
  <2> QED BY <1>1, <2>2 DEF In
<1>4. ASSUME In(c, a \o b) PROVE In(c, a) \/ In(c, b)
  <2>1. PICK i \in 1 .. Len(a) + Len(b) : (a \o b)[i] = c
    BY <1>1, <1>4 DEF In
  <2>2. CASE i <= Len(a)
    BY <1>1, <2>1, <2>2 DEF In
  <2>3. CASE ~(i <= Len(a))
    <3>1. i - Len(a) \in 1 .. Len(b) /\ b[i - Len(a)] = c
      BY <1>1, <2>1, <2>3
    <3> QED BY <1>1, <3>1 DEF In
  <2> QED BY <2>2, <2>3
<1> QED BY <1>2, <1>3, <1>4

(* What a FILE has to write and to give are texts.                         *)
LEMMA Ends ==
    ASSUME NEW k, NEW s \in Calls(k)
    PROVE  /\ Pending(s.st) \in Text /\ Unread(s.st) \in Text /\ Back(s.st) \in Text
           /\ Out(s) \in Text /\ Inp(s) \in Text
           /\ s.st.bufinput => Pending(s.st) = <<>>
           /\ ~s.st.bufinput => Unread(s.st) = <<>>
           /\ ~s.st.bufinput => Len(Pending(s.st)) = s.st.pos
           /\ s.st.bufinput /\ s.st.data <= s.st.pos => Unread(s.st) = <<>>
<1>1. Pending(s.st) \in Text
  BY Parts, Slices, Joined DEF Pending, Sound
<1>2. Unread(s.st) \in Text
  BY Parts, Slices, Joined DEF Unread, Sound
<1>3. Back(s.st) \in Text
  BY Parts, Joined DEF Back, Text
<1>4. Out(s) \in Text
  BY <1>1, Parts, Joined DEF Out
<1>5. Inp(s) \in Text
  <2>1. Back(s.st) \o Unread(s.st) \in Text
    BY <1>2, <1>3, Joined
  <2> QED BY <2>1, Parts, Joined DEF Inp
<1>6. s.st.bufinput => Pending(s.st) = <<>>
  BY DEF Pending
<1>7. ~s.st.bufinput => Unread(s.st) = <<>>
  BY DEF Unread
<1>8. ~s.st.bufinput => Len(Pending(s.st)) = s.st.pos
  BY Parts, Slices DEF Pending, Sound
<1>9. s.st.bufinput /\ s.st.data <= s.st.pos => Unread(s.st) = <<>>
  BY Parts, Slices DEF Unread, Sound
<1> QED BY <1>1, <1>2, <1>3, <1>4, <1>5, <1>6, <1>7, <1>8, <1>9

(* The parts of a FILE that a call does not touch.                         *)
SameFile(f, g) ==
    /\ f.can = g.can /\ f.linewise = g.linewise /\ f.nobuf = g.nobuf
    /\ f.size = g.size /\ f.open = g.open
    /\ f.ungotten = g.ungotten /\ f.unget = g.unget

(* Where the buffer stands and what the device has are the same.           *)
Unmoved(s, t) ==
    /\ t.dv = s.dv /\ SameFile(t.st, s.st) /\ t.st.bufinput = s.st.bufinput
    /\ t.st.pos = s.st.pos /\ t.st.data = s.st.data /\ t.st.buffer = s.st.buffer

(* What was written stays written.                                         *)
Keeps(s, t) == \A c : In(c, s.dv.out) => In(c, t.dv.out)

(* A call that leaves file and device alone changes nothing to write or    *)
(* read.                                                                   *)
LEMMA UnmovedSame ==
    ASSUME NEW s, NEW t, Unmoved(s, t)
    PROVE  /\ Pending(t.st) = Pending(s.st) /\ Unread(t.st) = Unread(s.st)
           /\ Back(t.st) = Back(s.st) /\ Out(t) = Out(s) /\ Inp(t) = Inp(s)
           /\ Keeps(s, t)
<1>1. /\ Pending(t.st) = Pending(s.st) /\ Unread(t.st) = Unread(s.st)
      /\ Back(t.st) = Back(s.st) /\ t.dv = s.dv
  BY DEF Unmoved, SameFile, Pending, Unread, Back
<1> QED BY <1>1 DEF Out, Inp, Keeps

(* A call that is answered without anything done.                          *)
LEMMA ToldRight ==
    ASSUME NEW k, NEW s \in Calls(k), NEW r \in Int, NEW t, t = Told(s, r)
    PROVE  t \in Calls(k) /\ t.ret = r /\ Unmoved(s, t) /\ t.st = s.st
<1>1. s.st \in Files(k) /\ s.dv \in Devices /\ s.smash \in BOOLEAN /\ Sound(s.st)
  BY Parts
<1>2. t = [st |-> s.st, dv |-> s.dv, ret |-> r, smash |-> s.smash]
  BY DEF Told, Calls
<1> QED BY <1>1, <1>2 DEF Calls, Unmoved, SameFile

(* A call that fails without anything done.                                *)
LEMMA FailedRight ==
    ASSUME NEW k, NEW s \in Calls(k), NEW t, t = Failed(s)
    PROVE  t \in Calls(k) /\ t.ret = EOF /\ Unmoved(s, t)
<1>1. s.st \in Files(k) /\ s.dv \in Devices /\ s.smash \in BOOLEAN /\ Sound(s.st)
  BY Parts
<1>2. PICK f : f = [s.st EXCEPT !.error = TRUE]
  OBVIOUS
<1>3. t = [st |-> f, dv |-> s.dv, ret |-> EOF, smash |-> s.smash]
  BY <1>2 DEF Failed, Calls
<1>4. /\ f \in Files(k) /\ SameFile(f, s.st) /\ f.bufinput = s.st.bufinput
      /\ f.pos = s.st.pos /\ f.data = s.st.data /\ f.buffer = s.st.buffer
  BY <1>1, <1>2 DEF Files, SameFile
<1>5. Sound(f)
  BY <1>1, <1>4 DEF Sound, SameFile
<1> QED BY <1>1, <1>3, <1>4, <1>5 DEF Calls, Unmoved, EOF

(* fflush: nothing is lost on the way to the device, and input is          *)
(* forgotten.                                                              *)
LEMMA FlushRight ==
    ASSUME NEW k, NEW s \in Calls(k), NEW t, t = fflush(s)
    PROVE  /\ t \in Calls(k) /\ t.ret \in {0, EOF}
           /\ Out(t) = Out(s) /\ t.dv.in = s.dv.in /\ t.dv.works = s.dv.works
           /\ SameFile(t.st, s.st) /\ t.st.bufinput = s.st.bufinput
           /\ Unread(t.st) = <<>> /\ Keeps(s, t)
           /\ t.ret = 0 => t.st.pos = 0 /\ Pending(t.st) = <<>> /\ t.dv.out = Out(s)
           /\ t.st.bufinput => t.ret = 0 /\ t.st.data = 0
           /\ t.ret # 0 => Pending(s.st) # <<>> /\ ~s.dv.works
<1>1. /\ s.st \in Files(k) /\ s.dv \in Devices /\ s.smash \in BOOLEAN /\ Sound(s.st)
      /\ s.st.bufinput \in BOOLEAN /\ s.st.pos \in Nat
  BY Parts
<1>2. CASE s.st.bufinput
  <2>1. PICK f : f = [s.st EXCEPT !.pos = 0, !.data = 0]
    OBVIOUS
  <2>2. t = [st |-> f, dv |-> s.dv, ret |-> 0, smash |-> s.smash]
    BY <1>2, <2>1 DEF fflush, Calls
  <2>3. /\ f \in Files(k) /\ f.pos = 0 /\ f.data = 0 /\ f.bufinput = s.st.bufinput
        /\ SameFile(f, s.st) /\ f.buffer = s.st.buffer
    BY <1>1, <2>1 DEF Files, SameFile
  <2>4. Sound(f)
    BY <1>2, <2>3, Parts DEF Sound, Text
  <2>5. /\ t \in Calls(k) /\ t.st = f /\ t.dv = s.dv /\ t.ret = 0
        /\ Out(t) = s.dv.out \o Pending(f)
    BY <1>1, <2>2, <2>3, <2>4 DEF Calls, Out
  <2>6. Pending(f) = <<>> /\ Pending(s.st) = <<>> /\ Unread(f) = <<>>
    BY <1>2, <2>3, <2>5, Ends
  <2>7. Out(t) = s.dv.out /\ Out(s) = s.dv.out
    BY <2>5, <2>6, Parts, Joined DEF Out
  <2> QED BY <1>2, <2>3, <2>5, <2>6, <2>7 DEF Keeps
<1>3. CASE ~s.st.bufinput /\ s.st.pos = 0
  <2>1. t = Told(s, 0)
    BY <1>3 DEF fflush
  <2>2. t \in Calls(k) /\ t.ret = 0 /\ Unmoved(s, t) /\ t.st = s.st
    BY <2>1, ToldRight
  <2>3. Pending(s.st) = <<>> /\ Unread(s.st) = <<>>
    BY <1>3, Ends, Parts, SubSeqEmpty DEF Pending
  <2>4. Out(t) = Out(s) /\ Out(s) = s.dv.out /\ Keeps(s, t)
    BY <2>2, <2>3, UnmovedSame, Parts, Joined DEF Out
  <2> QED BY <1>3, <2>2, <2>3, <2>4 DEF Unmoved
<1>4. CASE ~s.st.bufinput /\ s.st.pos # 0 /\ ~s.dv.works
  <2>1. t = Failed(s)
    BY <1>4 DEF fflush
  <2>2. t \in Calls(k) /\ t.ret = EOF /\ Unmoved(s, t)
    BY <2>1, FailedRight
  <2>3. Pending(s.st) # <<>> /\ Unread(s.st) = <<>>
    <3>1. Len(Pending(s.st)) = s.st.pos
      BY <1>4, Ends
    <3>2. Len(<<>>) = 0
      OBVIOUS
    <3> QED BY <1>4, <3>1, <3>2, Ends
  <2>4. Out(t) = Out(s) /\ Unread(t.st) = Unread(s.st) /\ Keeps(s, t)
    BY <2>2, UnmovedSame
  <2> QED BY <1>4, <2>2, <2>3, <2>4 DEF Unmoved, EOF
<1>5. CASE ~s.st.bufinput /\ s.st.pos # 0 /\ s.dv.works
  <2>1. PICK f, d : /\ f = [s.st EXCEPT !.pos = 0]
                    /\ d = [s.dv EXCEPT !.out = s.dv.out \o Pending(s.st)]
    OBVIOUS
  <2>2. PICK b \in BOOLEAN : t = [st |-> f, dv |-> d, ret |-> 0, smash |-> b]
    <3>1. t = [st |-> f, dv |-> d, ret |-> 0, smash |-> s.st.size < BUFSIZE]
      BY <1>5, <2>1 DEF fflush, Written, Calls
    <3>2. (s.st.size < BUFSIZE) \in BOOLEAN
      OBVIOUS
    <3> QED BY <3>1, <3>2
  <2>3. /\ f \in Files(k) /\ f.pos = 0 /\ f.data = s.st.data /\ f.bufinput = s.st.bufinput
        /\ SameFile(f, s.st) /\ f.buffer = s.st.buffer
    BY <1>1, <2>1 DEF Files, SameFile
  <2>4. d \in Devices /\ d.out = Out(s) /\ d.in = s.dv.in /\ d.works = s.dv.works
    <3>1. s.dv.out \o Pending(s.st) \in Text
      BY Ends, Parts, Joined
    <3> QED BY <1>1, <2>1, <3>1 DEF Devices, Out
  <2>5. Sound(f)
    BY <1>1, <1>5, <2>3, Parts DEF Sound, SameFile, Text
  <2>6. /\ t \in Calls(k) /\ t.st = f /\ t.dv = d /\ t.ret = 0
        /\ Out(t) = d.out \o Pending(f)
    <3>1. t.st = f /\ t.dv = d /\ t.ret = 0
      BY <2>2
    <3>2. t \in Calls(k)
      BY <2>2, <2>3, <2>4, <2>5 DEF Calls
    <3> QED BY <3>1, <3>2 DEF Out
  <2>7. Pending(f) = <<>> /\ Unread(f) = <<>>
    BY <1>5, <2>3, <2>6, Ends, SubSeqEmpty DEF Pending
  <2>8. Out(t) = Out(s)
    BY <2>4, <2>6, <2>7, Ends, Joined
  <2>9. Keeps(s, t)
    BY <2>4, <2>6, Ends, Parts, InJoined DEF Keeps, Out
  <2> QED BY <1>5, <2>3, <2>4, <2>6, <2>7, <2>8, <2>9
<1> QED BY <1>1, <1>2, <1>3, <1>4, <1>5

(* Output that cannot be written.                                          *)
Stuck(s) == Pending(s.st) # <<>> /\ ~s.dv.works

(* The direction is changed: only output that cannot be written is lost.   *)
Turned(s, b, t) ==
    /\ t.ret \in {0, EOF}
    /\ t.dv.in = s.dv.in /\ t.dv.works = s.dv.works
    /\ SameFile(t.st, s.st) /\ t.st.bufinput = b
    /\ t.ret = 0 => Out(t) = Out(s)
    /\ t.ret # 0 => b /\ Stuck(s)
    /\ b => Inp(t) = Inp(s)
    /\ ~b => Unread(t.st) = <<>>
    /\ Keeps(s, t)

(* set_stream_flags changes the direction as Turned says: what is read is  *)
(* given back to nobody, what waits to be written is written or the call   *)
(* fails.                                                                  *)
LEMMA TurnRight ==
    ASSUME NEW k, NEW s \in Calls(k), NEW b \in BOOLEAN, NEW t, t = set_stream_flags(s, b)
    PROVE  t \in Calls(k) /\ Turned(s, b, t)
<1> USE DEF Turned
<1>1. /\ s.st.bufinput \in BOOLEAN /\ s.dv \in Devices
  BY Parts
<1>2. CASE s.st.bufinput = b
  <2>1. t = Told(s, 0)
    BY <1>2 DEF set_stream_flags
  <2>2. t \in Calls(k) /\ t.ret = 0 /\ Unmoved(s, t)
    BY <2>1, ToldRight
  <2>3. Out(t) = Out(s) /\ Inp(t) = Inp(s) /\ Keeps(s, t)
    BY <2>2, UnmovedSame
  <2>4. t.st.bufinput = b /\ SameFile(t.st, s.st) /\ t.dv = s.dv
    BY <1>2, <2>2 DEF Unmoved
  <2>5. ~b => Unread(t.st) = <<>>
    BY <2>2, <2>4, Ends
  <2> QED BY <2>2, <2>3, <2>4, <2>5
<1>3. CASE s.st.bufinput # b
  <2>1. PICK u : u = fflush(s)
    OBVIOUS
  <2>2. /\ u \in Calls(k) /\ u.ret \in {0, EOF}
        /\ Out(u) = Out(s) /\ u.dv.in = s.dv.in /\ u.dv.works = s.dv.works
        /\ SameFile(u.st, s.st) /\ u.st.bufinput = s.st.bufinput
        /\ u.ret = 0 => u.st.pos = 0 /\ Pending(u.st) = <<>> /\ u.dv.out = Out(s)
        /\ u.st.bufinput => u.ret = 0 /\ u.st.data = 0
        /\ u.ret # 0 => Pending(s.st) # <<>> /\ ~s.dv.works
        /\ Keeps(s, u)
    BY <2>1, FlushRight
  <2>3. /\ u.st \in Files(k) /\ u.dv \in Devices /\ u.smash \in BOOLEAN /\ Sound(u.st)
        /\ u.ret \in Int
    BY <2>2, Parts
  <2>4. PICK f : f = [u.st EXCEPT !.bufinput = b]
    OBVIOUS
  <2>5. t = [st |-> f, dv |-> u.dv, ret |-> u.ret, smash |-> u.smash]
    BY <1>3, <2>1, <2>2, <2>4 DEF set_stream_flags, Calls
  <2>6. /\ f \in Files(k) /\ f.pos = u.st.pos /\ f.data = u.st.data /\ f.bufinput = b
        /\ SameFile(f, u.st) /\ f.buffer = u.st.buffer
    BY <2>3, <2>4 DEF Files, SameFile
  <2>7. f.data = 0
    BY <1>1, <1>3, <2>2, <2>3, <2>6 DEF Sound
  <2>8. Sound(f)
    BY <1>1, <1>3, <2>2, <2>6, <2>7, Parts DEF Sound, Text
  <2>9. /\ t \in Calls(k) /\ t.st = f /\ t.dv = u.dv /\ t.ret = u.ret
    <3>1. t.st = f /\ t.dv = u.dv /\ t.ret = u.ret
      BY <2>5
    <3> QED BY <2>3, <2>5, <2>6, <2>8, <3>1 DEF Calls
  <2>10. Unread(f) = <<>>
    BY <2>6, <2>7, <2>9, Ends, Parts
  <2>11. u.ret = 0 => Pending(f) = <<>>
    BY <2>2, <2>6, <2>9, Ends, SubSeqEmpty DEF Pending
  <2>12. u.ret = 0 => Out(t) = Out(s)
    BY <2>2, <2>9, <2>11, Ends, Joined DEF Out
  <2>13. b => Unread(s.st) = <<>>
    BY <1>1, <1>3, Ends
  <2>14. Back(f) = Back(s.st)
    BY <2>2, <2>6 DEF Back, SameFile
  <2>15. b => Inp(t) = Inp(s)
    BY <2>2, <2>9, <2>10, <2>13, <2>14 DEF Inp
  <2>16. SameFile(f, s.st)
    BY <2>2, <2>6 DEF SameFile
  <2>17. u.ret # 0 => b /\ Stuck(s)
    BY <1>1, <1>3, <2>2 DEF Stuck
  <2>18. Keeps(s, t)
    BY <2>2, <2>9 DEF Keeps
  <2> QED BY <2>2, <2>6, <2>9, <2>10, <2>12, <2>15, <2>16, <2>17, <2>18
<1> QED BY <1>2, <1>3

-----------------------------------------------------------------------------
(* Writing.                                                                *)

(* A character put into the buffer.                                        *)
LEMMA StoredRight ==
    ASSUME NEW k, NEW s \in Calls(k), ~s.st.bufinput, ~s.st.nobuf, NEW c \in Nat,
           NEW t, t = Stored(s, c)
    PROVE  /\ t \in Calls(k) /\ t.ret = 0 /\ t.dv = s.dv
           /\ SameFile(t.st, s.st) /\ ~t.st.bufinput
           /\ Out(t) = Out(s) \o <<c>>
<1>1. /\ s.st \in Files(k) /\ s.dv \in Devices /\ s.smash \in BOOLEAN /\ Sound(s.st)
      /\ s.st.buffer \in Text /\ s.st.pos \in Nat /\ s.st.pos <= Len(s.st.buffer)
      /\ s.st.data = 0
  BY Parts DEF Sound
<1>2. PICK a \in Text : a = SubSeq(s.st.buffer, 1, s.st.pos) /\ Len(a) = s.st.pos
  BY <1>1, Slices
<1>w. PICK w \in Text : w = <<c>> /\ Len(w) = 1
  <2>1. <<c>> \in Text /\ Len(<<c>>) = 1
    BY DEF Text
  <2> QED BY <2>1
<1>3. PICK e \in Text : e = a \o w /\ Len(e) = s.st.pos + 1
  <2>1. Len(w) = 1 /\ Len(a) = s.st.pos /\ s.st.pos \in Nat
    BY <1>1, <1>2, <1>w
  <2>2. a \o w \in Text /\ Len(a \o w) = Len(a) + Len(w)
    BY Joined
  <2> QED BY <2>1, <2>2
<1> DEFINE n == s.st.pos + 1
<1>4. PICK f : f = [s.st EXCEPT !.buffer = e, !.pos = n]
  OBVIOUS
<1>5. t = [st |-> f, dv |-> s.dv, ret |-> 0, smash |-> s.smash]
  BY <1>2, <1>w, <1>3, <1>4 DEF Stored, Calls
<1>6. /\ f \in Files(k) /\ f.pos = s.st.pos + 1 /\ f.data = 0
      /\ f.bufinput = s.st.bufinput /\ f.buffer = e /\ SameFile(f, s.st)
  <2>1. n \in Nat /\ n = s.st.pos + 1
    BY <1>1
  <2> HIDE DEF n
  <2>2. f \in Files(k)
    BY <1>1, <1>4, <2>1 DEF Files
  <2>3. /\ f.pos = n /\ f.data = 0
        /\ f.bufinput = s.st.bufinput /\ f.buffer = e /\ SameFile(f, s.st)
    BY <1>1, <1>4 DEF Files, SameFile
  <2> QED BY <2>1, <2>2, <2>3
<1>7. Sound(f)
  BY <1>1, <1>3, <1>6 DEF Sound, SameFile
<1>8. t \in Calls(k) /\ t.st = f /\ t.dv = s.dv /\ t.ret = 0
  <2>1. t.st = f /\ t.dv = s.dv /\ t.ret = 0
    BY <1>5
  <2> QED BY <1>1, <1>5, <1>6, <1>7, <2>1 DEF Calls
<1>9. Pending(f) = e /\ Pending(s.st) = a
  <2>1. SubSeq(e, 1, Len(e)) = e
    BY SubSeqFull DEF Text
  <2> QED BY <1>2, <1>3, <1>6, <2>1 DEF Pending
<1>10. s.dv.out \in Text
  BY Parts
<1>11. Out(t) = Out(s) \o <<c>>
  <2>1. Out(t) = s.dv.out \o (a \o w)
    BY <1>3, <1>8, <1>9 DEF Out
  <2>2. Out(s) = s.dv.out \o a
    BY <1>9 DEF Out
  <2>3. Out(t) = (s.dv.out \o a) \o w
    BY <1>10, <2>1, Joined
  <2> QED BY <1>w, <2>2, <2>3
<1> QED BY <1>6, <1>8, <1>11

(* Characters sent straight to the device, nothing pending before them.    *)
LEMMA WrittenRight ==
    ASSUME NEW k, NEW s \in Calls(k), Pending(s.st) = <<>>, NEW cs \in Text,
           NEW t, t = Written(s, cs)
    PROVE  /\ t \in Calls(k) /\ t.ret = 0 /\ t.st = s.st
           /\ t.dv.in = s.dv.in /\ t.dv.works = s.dv.works
           /\ Out(t) = Out(s) \o cs /\ Keeps(s, t)
<1>1. /\ s.st \in Files(k) /\ s.dv \in Devices /\ s.smash \in BOOLEAN /\ Sound(s.st)
      /\ s.dv.out \in Text
  BY Parts
<1>2. PICK e \in Text : e = s.dv.out \o cs
  BY <1>1, Joined
<1>3. PICK d : d = [s.dv EXCEPT !.out = e]
  OBVIOUS
<1>4. t = [st |-> s.st, dv |-> d, ret |-> 0, smash |-> s.smash]
  BY <1>2, <1>3 DEF Written, Calls
<1>5. d \in Devices /\ d.out = e /\ d.in = s.dv.in /\ d.works = s.dv.works
  BY <1>1, <1>3 DEF Devices
<1>6. t \in Calls(k) /\ t.st = s.st /\ t.dv = d /\ t.ret = 0
  <2>1. t.st = s.st /\ t.dv = d /\ t.ret = 0
    BY <1>4
  <2> QED BY <1>1, <1>4, <1>5, <2>1 DEF Calls
<1>7. Out(t) = e /\ Out(s) = s.dv.out
  <2>1. Out(t) = e \o <<>> /\ Out(s) = s.dv.out \o <<>>
    BY <1>5, <1>6 DEF Out
  <2> QED BY <1>1, <2>1, Joined
<1>8. Keeps(s, t)
  <2>1. t.dv.out = e
    BY <1>5, <1>6
  <2>2. ASSUME NEW c, In(c, s.dv.out) PROVE In(c, e)
    BY <1>1, <1>2, <2>2, InJoined
  <2> QED BY <2>1, <2>2 DEF Keeps
<1> QED BY <1>2, <1>5, <1>6, <1>7, <1>8

(* fputc: a character that is taken follows those before it.               *)
Put(s, c, newline, t) ==
    /\ t.ret \in {0, EOF}
    /\ t.dv.in = s.dv.in /\ t.dv.works = s.dv.works /\ SameFile(t.st, s.st)
    /\ Out(t) = Out(s) \/ Out(t) = Out(s) \o <<c>>
    /\ t.ret = 0 => Out(t) = Out(s) \o <<c>>
    /\ t.ret # 0 /\ newline = FALSE => Out(t) = Out(s)
    /\ Unread(s.st) = <<>> => Unread(t.st) = <<>>
    /\ Keeps(s, t)

(* fputc adds its character to what is written or waits, or fails as Put   *)
(* says.                                                                   *)
LEMMA PutRight ==
    ASSUME NEW k, NEW s \in Calls(k), NEW c \in Nat, NEW newline,
           NEW t, t = fputc(s, c, newline)
    PROVE  t \in Calls(k) /\ Put(s, c, newline, t)
<1> USE DEF Put
<1>1. CASE "write" \notin s.st.can
  <2>1. t = Failed(s)
    BY <1>1 DEF fputc
  <2>2. t \in Calls(k) /\ t.ret = EOF /\ Unmoved(s, t)
    BY <2>1, FailedRight
  <2>3. Out(t) = Out(s) /\ Unread(t.st) = Unread(s.st) /\ Keeps(s, t)
    BY <2>2, UnmovedSame
  <2> QED BY <2>2, <2>3 DEF Unmoved, EOF
<1>2. CASE "write" \in s.st.can
  <2>1. PICK turned : turned = set_stream_flags(s, FALSE)
    OBVIOUS
  <2>2. /\ turned \in Calls(k) /\ turned.ret = 0 /\ ~turned.st.bufinput
        /\ turned.dv.in = s.dv.in /\ turned.dv.works = s.dv.works
        /\ SameFile(turned.st, s.st) /\ Out(turned) = Out(s) /\ Keeps(s, turned)
    <3>1. PICK b \in BOOLEAN : ~b /\ turned = set_stream_flags(s, b)
      BY <2>1
    <3>2. turned \in Calls(k) /\ Turned(s, b, turned)
      BY <3>1, TurnRight
    <3> QED BY <3>1, <3>2 DEF Turned
  <2>3. PICK room :
          room = IF turned.st.pos >= turned.st.size - 1 THEN fflush(turned) ELSE Told(turned, 0)
    OBVIOUS
  <2>4. /\ room \in Calls(k) /\ room.ret \in {0, EOF} /\ ~room.st.bufinput
        /\ room.dv.in = s.dv.in /\ room.dv.works = s.dv.works
        /\ SameFile(room.st, s.st) /\ Out(room) = Out(s) /\ Unread(room.st) = <<>>
        /\ Keeps(s, room)
    <3>1. CASE room = fflush(turned)
      <4>1. /\ room \in Calls(k) /\ room.ret \in {0, EOF} /\ ~room.st.bufinput
            /\ room.dv.in = turned.dv.in /\ room.dv.works = turned.dv.works
            /\ SameFile(room.st, turned.st) /\ Out(room) = Out(turned)
            /\ Unread(room.st) = <<>> /\ Keeps(turned, room)
        BY <2>2, <3>1, FlushRight
      <4> QED BY <2>2, <4>1 DEF SameFile, Keeps
    <3>2. CASE room = Told(turned, 0)
      <4>1. room \in Calls(k) /\ room.ret = 0 /\ Unmoved(turned, room)
        BY <2>2, <3>2, ToldRight
      <4>2. Out(room) = Out(turned) /\ ~room.st.bufinput /\ Keeps(turned, room)
        BY <2>2, <4>1, UnmovedSame DEF Unmoved
      <4>3. Unread(room.st) = <<>>
        BY <4>1, <4>2, Ends
      <4> QED BY <2>2, <4>1, <4>2, <4>3 DEF Unmoved, SameFile, Keeps
    <3> QED BY <2>3, <3>1, <3>2
  <2>5. t = IF room.ret # 0 THEN Failed(room)
            ELSE IF s.st.nobuf
                 THEN IF s.dv.works THEN Written(room, <<c>>) ELSE Failed(room)
            ELSE IF s.st.linewise /\ newline /\ fflush(Stored(room, c)).ret # 0
                 THEN Failed(fflush(Stored(room, c)))
            ELSE IF s.st.linewise /\ newline THEN fflush(Stored(room, c))
            ELSE Stored(room, c)
    BY <1>2, <2>1, <2>2, <2>3 DEF fputc
  <2>6. CASE t = Failed(room)
    <3>1. t \in Calls(k) /\ t.ret = EOF /\ Unmoved(room, t)
      BY <2>4, <2>6, FailedRight
    <3>2. Out(t) = Out(s) /\ Unread(t.st) = <<>> /\ Keeps(room, t)
      BY <2>4, <3>1, UnmovedSame
    <3> QED BY <2>4, <3>1, <3>2 DEF Unmoved, SameFile, Keeps, EOF
  <2>7. CASE s.st.nobuf /\ t = Written(room, <<c>>)
    <3>1. Pending(room.st) = <<>>
      <4>1. room.st.pos = 0
        BY <2>4, <2>7, Parts DEF Sound, SameFile
      <4> QED BY <2>4, <4>1, SubSeqEmpty DEF Pending
    <3>2. <<c>> \in Text
      BY DEF Text
    <3>3. /\ t \in Calls(k) /\ t.ret = 0 /\ t.st = room.st
          /\ t.dv.in = room.dv.in /\ t.dv.works = room.dv.works
          /\ Out(t) = Out(room) \o <<c>> /\ Keeps(room, t)
      BY <2>4, <2>7, <3>1, <3>2, WrittenRight
    <3> QED BY <2>4, <3>3 DEF Keeps
  <2>8. CASE ~s.st.nobuf /\ room.ret = 0
    <3>1. PICK kept : kept = Stored(room, c)
      OBVIOUS
    <3>2. /\ kept \in Calls(k) /\ kept.ret = 0 /\ kept.dv = room.dv
          /\ SameFile(kept.st, room.st) /\ ~kept.st.bufinput
          /\ Out(kept) = Out(s) \o <<c>>
      <4>1. ~room.st.nobuf
        BY <2>4, <2>8 DEF SameFile
      <4> QED BY <2>4, <3>1, <4>1, StoredRight
    <3>3. PICK flushed : flushed = fflush(kept)
      OBVIOUS
    <3>4. /\ flushed \in Calls(k) /\ flushed.ret \in {0, EOF} /\ Out(flushed) = Out(kept)
          /\ flushed.dv.in = kept.dv.in /\ flushed.dv.works = kept.dv.works
          /\ SameFile(flushed.st, kept.st) /\ Unread(flushed.st) = <<>>
          /\ Keeps(kept, flushed)
      BY <3>2, <3>3, FlushRight
    <3>5. CASE t = kept
      BY <2>4, <3>2, <3>5, Ends DEF SameFile, Keeps
    <3>6. CASE t = flushed /\ flushed.ret = 0
      BY <2>4, <3>2, <3>4, <3>6 DEF SameFile, Keeps
    <3>7. CASE t = Failed(flushed) /\ newline
      <4>1. t \in Calls(k) /\ t.ret = EOF /\ Unmoved(flushed, t)
        BY <3>4, <3>7, FailedRight
      <4>2. Out(t) = Out(s) \o <<c>> /\ Unread(t.st) = <<>> /\ Keeps(flushed, t)
        BY <3>2, <3>4, <4>1, UnmovedSame
      <4> QED BY <2>4, <3>2, <3>4, <3>7, <4>1, <4>2 DEF Unmoved, SameFile, Keeps, EOF
    <3>8. \/ t = kept \/ (t = flushed /\ flushed.ret = 0) \/ (t = Failed(flushed) /\ newline)
      BY <2>5, <2>8, <3>1, <3>3
    <3> QED BY <3>5, <3>6, <3>7, <3>8
  <2>9. \/ t = Failed(room) \/ (s.st.nobuf /\ t = Written(room, <<c>>))
        \/ (~s.st.nobuf /\ room.ret = 0)
    BY <2>5
  <2> QED BY <2>6, <2>7, <2>8, <2>9
<1> QED BY <1>1, <1>2

(* A call that fails with nothing taken.                                   *)
LEMMA NoneTaken ==
    ASSUME NEW k, NEW s \in Calls(k), NEW t, t = [Failed(s) EXCEPT !.ret = 0]
    PROVE  t \in Calls(k) /\ t.ret = 0 /\ Unmoved(s, t)
<1>1. PICK u : u = Failed(s)
  OBVIOUS
<1>2. u \in Calls(k) /\ Unmoved(s, u)
  BY <1>1, FailedRight
<1>3. t = Told(u, 0)
  BY <1>1 DEF Told
<1>4. t \in Calls(k) /\ t.ret = 0 /\ Unmoved(u, t)
  BY <1>2, <1>3, ToldRight
<1> QED BY <1>2, <1>4 DEF Unmoved, SameFile

(* The first n of cs have been taken by s, and t is how it stands.         *)
Took(s, cs, n, t) ==
    /\ t.dv.in = s.dv.in /\ t.dv.works = s.dv.works /\ SameFile(t.st, s.st)
    /\ Out(t) = Out(s) \o SubSeq(cs, 1, n)
    /\ Unread(s.st) = <<>> => Unread(t.st) = <<>>
    /\ Keeps(s, t)

(* At the start of a fwrite none of its characters is taken.               *)
LEMMA TookNone ==
    ASSUME NEW k, NEW s \in Calls(k), NEW cs \in Text, NEW t, Unmoved(s, t)
    PROVE  Took(s, cs, 0, t)
<1>1. SubSeq(cs, 1, 0) = <<>>
  BY SubSeqEmpty
<1>2. Out(t) = Out(s) /\ Unread(t.st) = Unread(s.st) /\ Keeps(s, t)
  BY UnmovedSame
<1>3. Out(s) \o <<>> = Out(s)
  BY Ends, Joined
<1> QED BY <1>1, <1>2, <1>3 DEF Took, Unmoved

(* What was taken stays taken when nothing moves.                          *)
LEMMA TookMore ==
    ASSUME NEW s, NEW cs, NEW n, NEW t, NEW u, Took(s, cs, n, t), Unmoved(t, u)
    PROVE  Took(s, cs, n, u)
<1>1. Out(u) = Out(t) /\ Unread(u.st) = Unread(t.st) /\ Keeps(t, u)
  BY UnmovedSame
<1> QED BY <1>1 DEF Took, Unmoved, SameFile, Keeps

(* One more character taken, or a call that added none.                    *)
LEMMA TookOne ==
    ASSUME NEW k, NEW s \in Calls(k), NEW cs \in Text, NEW n \in Nat, n < Len(cs),
           NEW t \in Calls(k), Took(s, cs, n, t), NEW u \in Calls(k),
           u.dv.in = t.dv.in, u.dv.works = t.dv.works, SameFile(u.st, t.st),
           Unread(t.st) = <<>> => Unread(u.st) = <<>>, Keeps(t, u)
    PROVE  /\ Out(u) = Out(t) => Took(s, cs, n, u)
           /\ Out(u) = Out(t) \o <<cs[n + 1]>> => Took(s, cs, n + 1, u)
<1>1. SameFile(u.st, s.st) /\ Keeps(s, u)
  BY DEF Took, SameFile, Keeps
<1>2. Out(u) = Out(t) => Took(s, cs, n, u)
  BY <1>1 DEF Took
<1>3. ASSUME Out(u) = Out(t) \o <<cs[n + 1]>> PROVE Took(s, cs, n + 1, u)
  <2>1. PICK a \in Text : a = SubSeq(cs, 1, n)
    <3>1. SubSeq(cs, 1, n) \in Text
      BY Slices DEF Text
    <3> QED BY <3>1
  <2>0. PICK b \in Text : b = <<cs[n + 1]>>
    <3>1. PICK c \in Nat : c = cs[n + 1]
      BY DEF Text
    <3>2. <<c>> \in Text
      BY DEF Text
    <3> QED BY <3>1, <3>2
  <2>5. PICK o \in Text : o = Out(s)
    BY Ends
  <2>2. a \o b = SubSeq(cs, 1, n + 1)
    <3>1. n + 1 \in 1 .. Len(cs) /\ (n + 1) - 1 = n
      OBVIOUS
    <3> QED BY <2>0, <2>1, <3>1 DEF Text
  <2>3. (o \o a) \o b = o \o (a \o b)
    BY Joined
  <2>4. Out(u) = Out(s) \o SubSeq(cs, 1, n + 1)
    BY <1>3, <2>0, <2>1, <2>2, <2>3, <2>5 DEF Took
  <2> QED BY <1>1, <2>4 DEF Took
<1> QED BY <1>2, <1>3

(* fwrite: the characters that are taken follow those before them, in      *)
(* their order.                                                            *)
PutAlls(k) == [s : Calls(k), taken : Nat, failed : BOOLEAN]
PutStep(b, c) ==
    LET t == fputc(b.s, c, FALSE)
    IN  IF b.failed THEN b
        ELSE IF t.ret # 0 THEN [b EXCEPT !.s = t, !.failed = TRUE]
        ELSE [b EXCEPT !.s = t, !.taken = @ + 1]

(* One turn of fwrite's loop over fputc takes the next character or fails. *)
LEMMA PutStepRight ==
    ASSUME NEW k, NEW s \in Calls(k), NEW cs \in Text, NEW n \in 1 .. Len(cs),
           NEW b \in PutAlls(k)
    PROVE  /\ PutStep(b, cs[n]) \in PutAlls(k)
           /\ Took(s, cs, b.taken, b.s) /\ b.taken < n /\ (b.failed \/ b.taken = n - 1)
              => LET u == PutStep(b, cs[n])
                 IN  Took(s, cs, u.taken, u.s) /\ u.taken <= n /\ (u.failed \/ u.taken = n)
<1>1. PICK c \in Nat : c = cs[n]
  BY DEF Text
<1>2. b.s \in Calls(k) /\ b.taken \in Nat /\ b.failed \in BOOLEAN /\ n \in Nat
  BY DEF PutAlls
<1>3. PICK o, t : o = FALSE /\ t = fputc(b.s, c, o)
  OBVIOUS
<1>4. /\ t \in Calls(k) /\ t.ret \in {0, EOF}
      /\ t.dv.in = b.s.dv.in /\ t.dv.works = b.s.dv.works /\ SameFile(t.st, b.s.st)
      /\ t.ret = 0 => Out(t) = Out(b.s) \o <<c>>
      /\ t.ret # 0 => Out(t) = Out(b.s)
      /\ Unread(b.s.st) = <<>> => Unread(t.st) = <<>>
      /\ Keeps(b.s, t)
  <2>1. PICK q \in Calls(k) : q = b.s
    BY <1>2
  <2>2. t = fputc(q, c, o)
    BY <1>3, <2>1
  <2>3. /\ t \in Calls(k) /\ t.ret \in {0, EOF}
        /\ t.dv.in = q.dv.in /\ t.dv.works = q.dv.works /\ SameFile(t.st, q.st)
        /\ t.ret = 0 => Out(t) = Out(q) \o <<c>>
        /\ t.ret # 0 /\ o = FALSE => Out(t) = Out(q)
        /\ Unread(q.st) = <<>> => Unread(t.st) = <<>>
        /\ Keeps(q, t)
    <3>1. t \in Calls(k) /\ Put(q, c, o, t)
      BY <2>2, PutRight
    <3> QED BY <3>1 DEF Put
  <2> QED BY <1>3, <2>1, <2>3
<1>5. PICK u : u = PutStep(b, cs[n])
  OBVIOUS
<1>6. CASE b.failed
  <2>1. u = b
    BY <1>5, <1>6 DEF PutStep
  <2> QED BY <1>2, <1>5, <1>6, <2>1
<1>7. CASE ~b.failed /\ t.ret # 0
  <2>1. u = [b EXCEPT !.s = t, !.failed = TRUE]
    BY <1>1, <1>3, <1>5, <1>7 DEF PutStep
  <2>2. u \in PutAlls(k) /\ u.s = t /\ u.taken = b.taken /\ u.failed
    BY <1>4, <2>1 DEF PutAlls
  <2>3. ASSUME Took(s, cs, b.taken, b.s), b.taken = n - 1 PROVE Took(s, cs, b.taken, t)
    <3>1. b.taken < Len(cs)
      BY <1>2, <2>3
    <3> QED BY <1>2, <1>4, <1>7, <2>3, <3>1, TookOne
  <2> QED BY <1>2, <1>5, <1>7, <2>2, <2>3
<1>8. CASE ~b.failed /\ t.ret = 0
  <2>0. PICK m \in Nat : m = b.taken + 1
    BY <1>2
  <2>1. u = [b EXCEPT !.s = t, !.taken = m]
    BY <1>1, <1>3, <1>5, <1>8, <2>0 DEF PutStep
  <2>2. u \in PutAlls(k) /\ u.s = t /\ u.taken = m /\ u.failed = b.failed
    BY <1>4, <2>1 DEF PutAlls
  <2>3. ASSUME Took(s, cs, b.taken, b.s), b.taken = n - 1 PROVE Took(s, cs, m, t)
    <3>1. b.taken < Len(cs) /\ b.taken + 1 = n /\ m = n
      BY <1>2, <2>0, <2>3
    <3>2. Out(t) = Out(b.s) \o <<cs[b.taken + 1]>>
      BY <1>1, <1>4, <1>8, <3>1
    <3>3. Took(s, cs, b.taken + 1, t)
      BY <1>2, <1>4, <2>3, <3>1, <3>2, TookOne
    <3> QED BY <2>0, <3>3
  <2> QED BY <1>2, <1>5, <1>8, <2>0, <2>2, <2>3
<1> QED BY <1>4, <1>6, <1>7, <1>8

(* fwrite a character at a time.                                           *)
LEMMA PutsRight ==
    ASSUME NEW k, NEW s \in Calls(k), NEW cs \in Text
    PROVE  LET put[i \in 0 .. Len(cs)] ==
                   IF i = 0 THEN [s |-> s, taken |-> 0, failed |-> FALSE]
                   ELSE PutStep(put[i - 1], cs[i])
               all == put[Len(cs)]
           IN  all \in PutAlls(k) /\ all.taken <= Len(cs) /\ Took(s, cs, all.taken, all.s)
<1> DEFINE X == PutAlls(k)
           first == [s |-> s, taken |-> 0, failed |-> FALSE]
           step == [i \in 0 + 1 .. Len(cs) |-> [b \in X |-> PutStep(b, cs[i])]]
           H(h) == [i \in 0 .. Len(cs) |->
                      IF i = 0 THEN [s |-> s, taken |-> 0, failed |-> FALSE]
                      ELSE PutStep(h[i - 1], cs[i])]
           put == CHOOSE h : h = H(h)
<1>1. Len(cs) \in Nat /\ 0 \in Nat /\ 0 <= Len(cs)
  BY DEF Text
<1>2. first \in X /\ first.s = s /\ first.taken = 0
  BY <1>1 DEF PutAlls
<1>3. step \in [0 + 1 .. Len(cs) -> [X -> X]]
  <2>1. ASSUME NEW i \in 0 + 1 .. Len(cs), NEW b \in X PROVE PutStep(b, cs[i]) \in X
    <3>1. i \in 1 .. Len(cs)
      BY <1>1
    <3> QED BY <3>1, PutStepRight
  <2> QED BY <2>1
<1>4. PICK f \in [0 .. Len(cs) -> X] : Stepwise(f, 0, Len(cs), first, step)
  <2> HIDE DEF X, first, step
  <2> QED BY <1>1, <1>2, <1>3, StepwiseExists
<1>5. f = H(f)
  <2>1. ASSUME NEW i \in 0 .. Len(cs) PROVE f[i] = H(f)[i]
    <3>1. CASE i = 0
      BY <3>1, <1>4 DEF Stepwise
    <3>2. CASE i # 0
      <4>1. i \in 0 + 1 .. Len(cs) /\ i - 1 \in 0 .. Len(cs)
        BY <1>1, <3>2
      <4>2. f[i] = step[i][f[i - 1]] /\ f[i - 1] \in X
        BY <4>1, <1>4 DEF Stepwise
      <4> QED BY <4>1, <4>2, <3>2
    <3> QED BY <3>1, <3>2
  <2> QED BY <2>1
<1>6. put = H(put)
  BY <1>5
<1>7. put[0] = first
  <2> HIDE DEF put
  <2>1. put[0] = H(put)[0]
    BY <1>6
  <2> QED BY <1>1, <2>1
<1>8. ASSUME NEW i \in 1 .. Len(cs) PROVE put[i] = PutStep(put[i - 1], cs[i])
  <2> HIDE DEF put
  <2>1. i \in 0 .. Len(cs) /\ i # 0
    BY <1>1
  <2>2. put[i] = H(put)[i]
    BY <1>6
  <2> QED BY <2>1, <2>2
<1> DEFINE Right(i) == /\ put[i] \in X /\ put[i].taken <= i
                       /\ put[i].failed \/ put[i].taken = i
                       /\ Took(s, cs, put[i].taken, put[i].s)
           S == {i \in 0 .. Len(cs) : Right(i)}
<1>9. 0 \in S
  <2>1. Took(s, cs, 0, s)
    <3>1. Unmoved(s, s)
      BY DEF Unmoved, SameFile
    <3> QED BY <3>1, TookNone
  <2> HIDE DEF put
  <2> QED BY <1>1, <1>2, <1>7, <2>1
<1>10. ASSUME NEW i \in 1 .. Len(cs), i - 1 \in S PROVE i \in S
  <2> HIDE DEF put, X
  <2>1. PICK b : b = put[i - 1]
    OBVIOUS
  <2>2. /\ b \in PutAlls(k) /\ b.taken < i /\ (b.failed \/ b.taken = i - 1)
        /\ Took(s, cs, b.taken, b.s)
    <3>1. b.taken \in Nat /\ i \in Nat
      BY <1>1, <1>10, <2>1 DEF X, PutAlls
    <3> QED BY <1>10, <2>1, <3>1 DEF X
  <2>3. PICK u : u = PutStep(b, cs[i])
    OBVIOUS
  <2>4. /\ u \in PutAlls(k)
        /\ Took(s, cs, u.taken, u.s) /\ u.taken <= i /\ (u.failed \/ u.taken = i)
    BY <2>2, <2>3, PutStepRight
  <2>5. put[i] = u
    BY <1>8, <2>1, <2>3
  <2> QED BY <1>1, <2>4, <2>5 DEF X
<1>11. 0 .. Len(cs) \subseteq S
  <2> HIDE DEF S
  <2> QED BY <1>1, <1>9, <1>10, RangeInduction
<1>12. Right(Len(cs))
  <2> HIDE DEF Right, put
  <2> QED BY <1>1, <1>11
<1> QED
  <2> HIDE DEF Took, PutStep, PutAlls
  <2> QED BY <1>12

(* fwrite: the characters it takes follow those before them, in their      *)
(* order.                                                                  *)
LEMMA WriteRight ==
    ASSUME NEW k, NEW s \in Calls(k), NEW cs \in Text, NEW t, t = fwrite(s, cs)
    PROVE  t \in Calls(k) /\ t.ret \in 0 .. Len(cs) /\ Took(s, cs, t.ret, t)
<1> DEFINE put[i \in 0 .. Len(cs)] ==
               IF i = 0 THEN [s |-> s, taken |-> 0, failed |-> FALSE]
               ELSE PutStep(put[i - 1], cs[i])
           all == put[Len(cs)]
<1>1. t = IF "write" \notin s.st.can THEN [Failed(s) EXCEPT !.ret = 0]
          ELSE IF cs = <<>> THEN Told(s, 0)
          ELSE IF Len(cs) > s.st.size \/ s.st.nobuf
             THEN IF fflush(s).ret # 0 THEN Told(fflush(s), 0)
                  ELSE IF s.dv.works THEN Told(Written(fflush(s), cs), Len(cs))
                  ELSE [Failed(fflush(s)) EXCEPT !.ret = 0]
          ELSE Told(all.s, all.taken)
  BY DEF fwrite, PutStep
<1>2. all \in PutAlls(k) /\ all.taken <= Len(cs) /\ Took(s, cs, all.taken, all.s)
  BY PutsRight
<1> HIDE DEF all
<1>3. Len(cs) \in Nat
  BY DEF Text
<1>4. ASSUME NEW q \in Calls(k), t = [Failed(q) EXCEPT !.ret = 0], Took(s, cs, 0, q)
      PROVE  t \in Calls(k) /\ t.ret \in 0 .. Len(cs) /\ Took(s, cs, t.ret, t)
  <2>1. t \in Calls(k) /\ t.ret = 0 /\ Unmoved(q, t)
    BY <1>4, NoneTaken
  <2>2. Took(s, cs, 0, t)
    BY <1>4, <2>1, TookMore
  <2> QED BY <1>3, <2>1, <2>2
<1>5. ASSUME NEW q \in Calls(k), NEW n \in 0 .. Len(cs), t = Told(q, n), Took(s, cs, n, q)
      PROVE  t \in Calls(k) /\ t.ret \in 0 .. Len(cs) /\ Took(s, cs, t.ret, t)
  <2>1. t \in Calls(k) /\ t.ret = n /\ Unmoved(q, t)
    BY <1>5, ToldRight
  <2>2. Took(s, cs, n, t)
    BY <1>5, <2>1, TookMore
  <2> QED BY <2>1, <2>2
<1>6. Took(s, cs, 0, s)
  <2>1. Unmoved(s, s)
    BY DEF Unmoved, SameFile
  <2> QED BY <2>1, TookNone
<1>7. PICK flushed : flushed = fflush(s)
  OBVIOUS
<1>8. /\ flushed \in Calls(k) /\ flushed.ret \in {0, EOF} /\ flushed.dv.works = s.dv.works
      /\ Took(s, cs, 0, flushed)
      /\ flushed.ret = 0 => Pending(flushed.st) = <<>>
  <2>1. /\ flushed \in Calls(k) /\ flushed.ret \in {0, EOF}
        /\ Out(flushed) = Out(s) /\ flushed.dv.in = s.dv.in
        /\ flushed.dv.works = s.dv.works
        /\ SameFile(flushed.st, s.st) /\ Unread(flushed.st) = <<>> /\ Keeps(s, flushed)
        /\ flushed.ret = 0 => Pending(flushed.st) = <<>>
    BY <1>7, FlushRight
  <2>2. Out(s) = Out(s) \o SubSeq(cs, 1, 0)
    BY <1>6 DEF Took
  <2> QED BY <2>1, <2>2 DEF Took
<1>9. CASE "write" \notin s.st.can
  BY <1>1, <1>4, <1>6, <1>9
<1>10. CASE cs = <<>> /\ t = Told(s, 0)
  BY <1>3, <1>5, <1>6, <1>10
<1>11. CASE t = Told(flushed, 0)
  BY <1>3, <1>5, <1>8, <1>11
<1>12. CASE flushed.ret = 0 /\ t = Told(Written(flushed, cs), Len(cs))
  <2>1. PICK u : u = Written(flushed, cs)
    OBVIOUS
  <2>2. /\ u \in Calls(k) /\ u.st = flushed.st
        /\ u.dv.in = flushed.dv.in /\ u.dv.works = flushed.dv.works
        /\ Out(u) = Out(flushed) \o cs /\ Keeps(flushed, u)
    BY <1>8, <1>12, <2>1, WrittenRight
  <2>3. Out(flushed) = Out(s)
    BY <1>7, FlushRight
  <2>4. SubSeq(cs, 1, Len(cs)) = cs
    BY SubSeqFull DEF Text
  <2>5. Took(s, cs, Len(cs), u)
    BY <1>8, <2>2, <2>3, <2>4 DEF Took, Keeps
  <2> QED BY <1>3, <1>5, <1>12, <2>1, <2>2, <2>5
<1>13. CASE t = [Failed(flushed) EXCEPT !.ret = 0]
  BY <1>4, <1>8, <1>13
<1>14. CASE t = Told(all.s, all.taken)
  <2>1. all.s \in Calls(k) /\ all.taken \in 0 .. Len(cs)
    BY <1>2, <1>3 DEF PutAlls
  <2> QED BY <1>2, <1>5, <1>14, <2>1
<1> QED BY <1>1, <1>7, <1>9, <1>10, <1>11, <1>12, <1>13, <1>14
-----------------------------------------------------------------------------
(* Reading.                                                                *)

(* s with its buffer filled with what came in first.                       *)
Fill(s, n) ==
    [s EXCEPT !.st.buffer = SubSeq(s.dv.in, 1, n), !.st.pos = 0, !.st.data = n,
              !.dv.in = SubSeq(@, n + 1, Len(@))]

(* s with the next character of its buffer read.                           *)
ReadOne(s) == [s EXCEPT !.st.pos = @ + 1, !.ret = s.st.buffer[s.st.pos + 1]]

(* A read into an empty buffer moves characters from the device into it:   *)
(* what there is to read stays the same.                                   *)
LEMMA FilledRight ==
    ASSUME NEW k, NEW s \in Calls(k), s.st.bufinput, s.st.data <= s.st.pos,
           NEW n \in Nat, n <= Len(s.dv.in),
           NEW t, t = Fill(s, n)
    PROVE  /\ t \in Calls(k) /\ t.st.bufinput /\ t.st.pos = 0 /\ t.st.data = n
           /\ SameFile(t.st, s.st) /\ t.dv.works = s.dv.works /\ t.dv.out = s.dv.out
           /\ Inp(t) = Inp(s)
<1>1. /\ s.st \in Files(k) /\ s.dv \in Devices /\ s.smash \in BOOLEAN /\ s.ret \in Int
      /\ s.dv.in \in Text
  BY Parts
<1>2. PICK a \in Text : a = SubSeq(s.dv.in, 1, n) /\ Len(a) = n
  <2>1. SubSeq(s.dv.in, 1, n) \in Text /\ Len(SubSeq(s.dv.in, 1, n)) = n
    BY <1>1, Slices
  <2> QED BY <2>1
<1>3. PICK e \in Text : e = SubSeq(s.dv.in, n + 1, Len(s.dv.in))
  <2>1. SubSeq(s.dv.in, n + 1, Len(s.dv.in)) \in Text
    BY <1>1, Slices DEF Text
  <2> QED BY <2>1
<1>4. PICK f, d : /\ f = [s.st EXCEPT !.buffer = a, !.pos = 0, !.data = n]
                  /\ d = [s.dv EXCEPT !.in = e]
  OBVIOUS
<1>5. t = [st |-> f, dv |-> d, ret |-> s.ret, smash |-> s.smash]
  BY <1>2, <1>3, <1>4 DEF Calls, Fill
<1>6. /\ f \in Files(k) /\ f.pos = 0 /\ f.data = n /\ f.bufinput = s.st.bufinput
      /\ SameFile(f, s.st) /\ f.buffer = a
  BY <1>1, <1>4 DEF Files, SameFile
<1>7. d \in Devices /\ d.in = e /\ d.works = s.dv.works /\ d.out = s.dv.out
  BY <1>1, <1>4 DEF Devices
<1>8. Sound(f)
  BY <1>2, <1>6 DEF Sound
<1>9. t \in Calls(k) /\ t.st = f /\ t.dv = d
  <2>1. t.st = f /\ t.dv = d
    BY <1>5
  <2> QED BY <1>1, <1>5, <1>6, <1>7, <1>8, <2>1 DEF Calls
<1>10. Inp(t) = Inp(s)
  <2>1. Unread(s.st) = <<>>
    BY Ends
  <2>2. Unread(f) = a
    <3>1. SubSeq(a, 1, Len(a)) = a
      BY SubSeqFull DEF Text
    <3> QED BY <1>2, <1>6, <3>1 DEF Unread
  <2>3. a \o e = s.dv.in
    <3>0. Len(s.dv.in) \in Nat
      BY <1>1 DEF Text
    <3>1. /\ 1 \in 1 .. Len(s.dv.in) + 1 /\ n \in 1 - 1 .. Len(s.dv.in)
          /\ Len(s.dv.in) \in n .. Len(s.dv.in)
      BY <3>0
    <3>2. SubSeq(s.dv.in, 1, n) \o SubSeq(s.dv.in, n + 1, Len(s.dv.in))
            = SubSeq(s.dv.in, 1, Len(s.dv.in))
      BY <1>1, <3>1, ConcatAdjacentSubSeq DEF Text
    <3>3. SubSeq(s.dv.in, 1, Len(s.dv.in)) = s.dv.in
      BY <1>1, SubSeqFull DEF Text
    <3> QED BY <1>2, <1>3, <3>2, <3>3
  <2>4. PICK b \in Text : b = Back(s.st) /\ b = Back(f)
    <3>1. Back(f) = Back(s.st) /\ Back(s.st) \in Text
      BY <1>6, Ends DEF SameFile, Back
    <3> QED BY <3>1
  <2>5. Inp(t) = (b \o a) \o e
    BY <1>7, <1>9, <2>2, <2>4 DEF Inp
  <2>6. Inp(s) = (b \o <<>>) \o s.dv.in
    BY <2>1, <2>4 DEF Inp
  <2>7. (b \o a) \o e = b \o (a \o e) /\ b \o <<>> = b
    BY Joined
  <2> QED BY <2>3, <2>5, <2>6, <2>7
<1> QED BY <1>6, <1>7, <1>9, <1>10

(* The next character of the buffer is the first of what there is to read. *)
LEMMA NextRight ==
    ASSUME NEW k, NEW s \in Calls(k), s.st.bufinput, s.st.pos < s.st.data, ~s.st.ungotten,
           NEW t, t = ReadOne(s)
    PROVE  /\ t \in Calls(k) /\ t.ret \in Nat /\ t.st.bufinput
           /\ SameFile(t.st, s.st) /\ t.dv = s.dv
           /\ Inp(s) = <<t.ret>> \o Inp(t)
<1>1. /\ s.st \in Files(k) /\ s.dv \in Devices /\ s.smash \in BOOLEAN
      /\ s.st.buffer \in Text /\ s.st.pos \in Nat /\ s.st.data \in Nat
      /\ s.st.data <= Len(s.st.buffer) /\ s.dv.in \in Text
  BY Parts DEF Sound
<1>2. PICK m \in Nat : m = s.st.pos + 1
  BY <1>1
<1>3. PICK c \in Nat : c = s.st.buffer[s.st.pos + 1]
  <2>1. s.st.pos + 1 \in 1 .. Len(s.st.buffer)
    BY <1>1 DEF Text
  <2> QED BY <1>1, <2>1 DEF Text
<1>4. PICK f : f = [s.st EXCEPT !.pos = m]
  OBVIOUS
<1>5. t = [st |-> f, dv |-> s.dv, ret |-> c, smash |-> s.smash]
  BY <1>2, <1>3, <1>4 DEF Calls, ReadOne
<1>6. /\ f \in Files(k) /\ f.pos = m /\ f.data = s.st.data /\ f.bufinput = s.st.bufinput
      /\ SameFile(f, s.st) /\ f.buffer = s.st.buffer
  BY <1>1, <1>4 DEF Files, SameFile
<1>7. Sound(f)
  BY <1>1, <1>6 DEF Sound
<1>8. t \in Calls(k) /\ t.st = f /\ t.dv = s.dv /\ t.ret = c
  <2>1. t.st = f /\ t.dv = s.dv /\ t.ret = c
    BY <1>5
  <2> QED BY <1>1, <1>5, <1>6, <1>7, <2>1 DEF Calls
<1>9. Inp(s) = <<c>> \o Inp(t)
  <2>1. PICK w \in Text : w = <<c>>
    <3>1. <<c>> \in Text
      BY DEF Text
    <3> QED BY <3>1
  <2>2. PICK a \in Text : a = Unread(f)
    BY <1>8, Ends
  <2>3. Unread(s.st) = w \o a
    <3>0. Len(s.st.buffer) \in Nat
      BY <1>1 DEF Text
    <3>1. /\ s.st.pos + 1 \in 1 .. Len(s.st.buffer)
          /\ s.st.data \in s.st.pos + 1 .. Len(s.st.buffer)
      BY <1>1, <3>0
    <3>2. SubSeq(s.st.buffer, s.st.pos + 1, s.st.data)
            = <<s.st.buffer[s.st.pos + 1]>> \o SubSeq(s.st.buffer, (s.st.pos + 1) + 1, s.st.data)
      BY <1>1, <3>1, SubSeqRecursiveFirst DEF Text
    <3> QED BY <1>2, <1>3, <1>6, <2>1, <2>2, <3>2 DEF Unread
  <2>4. Back(s.st) = <<>> /\ Back(f) = <<>>
    BY <1>6 DEF Back, SameFile
  <2>5. PICK i \in Text : i = s.dv.in
    BY <1>1
  <2>6. Inp(s) = (<<>> \o (w \o a)) \o i /\ Inp(t) = (<<>> \o a) \o i
    BY <1>8, <2>2, <2>3, <2>4, <2>5 DEF Inp
  <2>7. /\ <<>> \o (w \o a) = w \o a /\ <<>> \o a = a
        /\ (w \o a) \o i = w \o (a \o i)
    BY Joined
  <2> QED BY <2>1, <2>6, <2>7
<1> QED BY <1>6, <1>8, <1>9

(* s with the character given back read.                                   *)
Unback(s, r) == [s EXCEPT !.st.ungotten = FALSE, !.ret = r]

(* The character given back is the first of what there is to read.         *)
LEMMA UnbackRight ==
    ASSUME NEW k, NEW s \in Calls(k), s.st.ungotten, NEW r \in Int, NEW t, t = Unback(s, r)
    PROVE  /\ t \in Calls(k) /\ t.ret = r /\ t.dv = s.dv /\ t.st.open = s.st.open
           /\ Inp(s) = <<s.st.unget>> \o Inp(t)
           /\ Out(t) = Out(s) /\ Pending(t.st) = Pending(s.st)
<1>1. /\ s.st \in Files(k) /\ s.dv \in Devices /\ s.smash \in BOOLEAN /\ Sound(s.st)
      /\ s.st.unget \in Nat
  BY Parts
<1>2. PICK f : f = [s.st EXCEPT !.ungotten = FALSE]
  OBVIOUS
<1>3. t = [st |-> f, dv |-> s.dv, ret |-> r, smash |-> s.smash]
  BY <1>2 DEF Calls, Unback
<1>4. /\ f \in Files(k) /\ f.open = s.st.open /\ ~f.ungotten /\ f.nobuf = s.st.nobuf
      /\ f.pos = s.st.pos /\ f.data = s.st.data /\ f.buffer = s.st.buffer
      /\ f.bufinput = s.st.bufinput
  BY <1>1, <1>2 DEF Files
<1>5. Sound(f) /\ Pending(f) = Pending(s.st) /\ Unread(f) = Unread(s.st)
  BY <1>1, <1>4 DEF Sound, Pending, Unread
<1>6. t \in Calls(k) /\ t.st = f /\ t.dv = s.dv /\ t.ret = r
  <2>1. t.st = f /\ t.dv = s.dv /\ t.ret = r
    BY <1>3
  <2> QED BY <1>1, <1>3, <1>4, <1>5, <2>1 DEF Calls
<1>7. Inp(s) = <<s.st.unget>> \o Inp(t)
  <2>1. PICK w \in Text : w = <<s.st.unget>>
    <3>1. <<s.st.unget>> \in Text
      BY <1>1 DEF Text
    <3> QED BY <3>1
  <2>2. PICK a \in Text, i \in Text : a = Unread(s.st) /\ i = s.dv.in
    BY Ends, Parts
  <2>3. Back(s.st) = w /\ Back(f) = <<>>
    BY <1>4, <2>1 DEF Back
  <2>4. Inp(s) = (w \o a) \o i /\ Inp(t) = (<<>> \o a) \o i
    BY <1>5, <1>6, <2>2, <2>3 DEF Inp
  <2>5. (w \o a) \o i = w \o (a \o i) /\ <<>> \o a = a
    BY Joined
  <2> QED BY <2>1, <2>4, <2>5
<1> QED BY <1>4, <1>5, <1>6, <1>7 DEF Out

(* fgetc: the next of what came in, or none.                               *)
Get(s, t) ==
    /\ t.ret \in Nat \cup {EOF}
    /\ t.dv.works = s.dv.works /\ t.st.open = s.st.open
    /\ t.ret = EOF => Inp(t) = Inp(s)
    /\ t.ret # EOF => Inp(s) = <<t.ret>> \o Inp(t)
    /\ ~Stuck(s) => Out(t) = Out(s) /\ ~Stuck(t)
    /\ Keeps(s, t)

(* fgetc that returns EOF has read nothing.                                *)
LEMMA GetNone ==
    ASSUME NEW s, NEW q, NEW t, Unmoved(q, t), t.ret = EOF,
           q.dv.works = s.dv.works, SameFile(q.st, s.st), Inp(q) = Inp(s),
           ~Stuck(s) => Out(q) = Out(s) /\ ~Stuck(q), Keeps(s, q)
    PROVE  Get(s, t)
<1>1. /\ Inp(t) = Inp(q) /\ Out(t) = Out(q) /\ Keeps(q, t) /\ Pending(t.st) = Pending(q.st)
  BY UnmovedSame
<1>2. Keeps(s, t)
  BY <1>1 DEF Keeps
<1>3. t.dv.works = s.dv.works /\ t.st.open = s.st.open
  BY DEF Unmoved, SameFile
<1> QED BY <1>1, <1>2, <1>3 DEF Get, Stuck

(* fgetc written with Fill and ReadOne.                                    *)
LEMMA GetIs ==
    ASSUME NEW s
    PROVE  LET q == set_stream_flags(s, TRUE)
               n == Least(q.st.size, Len(q.dv.in))
               filled == IF q.st.pos < q.st.data THEN q ELSE Fill(q, n)
               empty == q.st.pos >= q.st.data
           IN  fgetc(s) =
               IF "read" \notin s.st.can THEN Failed(s)
               ELSE IF q.ret # 0 THEN Failed(q)
               ELSE IF q.st.ungotten THEN [q EXCEPT !.st.ungotten = FALSE, !.ret = q.st.unget]
               ELSE IF q.st.eof THEN Told(q, EOF)
               ELSE IF empty /\ ~q.dv.works THEN Failed(q)
               ELSE IF empty /\ n = 0 THEN [q EXCEPT !.st.eof = TRUE, !.ret = EOF]
               ELSE ReadOne(filled)
BY DEF fgetc, Fill, ReadOne

(* fgetc returns the first of what there is to read, or EOF.               *)
LEMMA GetRight ==
    ASSUME NEW k, NEW s \in Calls(k), NEW t, t = fgetc(s)
    PROVE  t \in Calls(k) /\ Get(s, t)
<1>1. CASE "read" \notin s.st.can
  <2>1. t = Failed(s)
    BY <1>1 DEF fgetc
  <2>2. t \in Calls(k) /\ t.ret = EOF /\ Unmoved(s, t)
    BY <2>1, FailedRight
  <2> QED BY <2>2, GetNone DEF SameFile, Keeps
<1>2. CASE "read" \in s.st.can
  <2>1. PICK b, q :
          b \in BOOLEAN /\ b /\ q = set_stream_flags(s, TRUE) /\ q = set_stream_flags(s, b)
    OBVIOUS
  <2>2. /\ q \in Calls(k) /\ q.ret \in {0, EOF} /\ q.st.bufinput
        /\ q.dv.works = s.dv.works /\ SameFile(q.st, s.st)
        /\ q.ret = 0 => Out(q) = Out(s)
        /\ q.ret # 0 => Stuck(s)
        /\ Inp(q) = Inp(s) /\ Keeps(s, q)
    <3>1. q \in Calls(k) /\ Turned(s, b, q)
      BY <2>1, TurnRight
    <3> QED BY <2>1, <3>1 DEF Turned
  <2>3. ~Stuck(s) => Out(q) = Out(s) /\ ~Stuck(q)
    BY <2>2, Ends DEF Stuck
  <2>4. PICK n \in Nat : n = Least(q.st.size, Len(q.dv.in)) /\ n <= Len(q.dv.in)
    <3>1. q.st.size \in Nat /\ q.dv.in \in Text
      BY <2>2, Parts
    <3>2. Len(q.dv.in) \in Nat
      BY <3>1 DEF Text
    <3> QED BY <3>1, <3>2 DEF Least
  <2>5. /\ q.st.pos \in Nat /\ q.st.data \in Nat /\ q.st.unget \in Nat
        /\ q.st.ungotten \in BOOLEAN
    BY <2>2, Parts
  <2>6. PICK filled : filled = IF q.st.pos < q.st.data THEN q ELSE Fill(q, n)
    OBVIOUS
  <2>7. t = IF q.ret # 0 THEN Failed(q)
            ELSE IF q.st.ungotten THEN [q EXCEPT !.st.ungotten = FALSE, !.ret = q.st.unget]
            ELSE IF q.st.eof THEN Told(q, EOF)
            ELSE IF q.st.pos >= q.st.data /\ ~q.dv.works THEN Failed(q)
            ELSE IF q.st.pos >= q.st.data /\ n = 0
                 THEN [q EXCEPT !.st.eof = TRUE, !.ret = EOF]
            ELSE ReadOne(filled)
    <3> DEFINE m == Least(q.st.size, Len(q.dv.in))
               full == IF q.st.pos < q.st.data THEN q ELSE Fill(q, m)
    <3>1. t = IF q.ret # 0 THEN Failed(q)
            ELSE IF q.st.ungotten THEN [q EXCEPT !.st.ungotten = FALSE, !.ret = q.st.unget]
            ELSE IF q.st.eof THEN Told(q, EOF)
            ELSE IF q.st.pos >= q.st.data /\ ~q.dv.works THEN Failed(q)
            ELSE IF q.st.pos >= q.st.data /\ m = 0
                 THEN [q EXCEPT !.st.eof = TRUE, !.ret = EOF]
            ELSE ReadOne(full)
      BY <1>2, <2>1, GetIs
    <3>2. m = n
      BY <2>4
    <3> HIDE DEF m
    <3> QED BY <2>6, <3>1, <3>2
  <2>8. /\ q.st \in Files(k) /\ q.dv \in Devices /\ q.smash \in BOOLEAN /\ Sound(q.st)
        /\ Pending(q.st) = <<>>
    BY <2>2, Parts, Ends
  <2>9. CASE t = Failed(q)
    <3>1. t \in Calls(k) /\ t.ret = EOF /\ Unmoved(q, t)
      BY <2>2, <2>9, FailedRight
    <3> QED BY <2>2, <2>3, <3>1, GetNone
  <2>10. CASE q.ret = 0 /\ q.st.ungotten
              /\ t = [q EXCEPT !.st.ungotten = FALSE, !.ret = q.st.unget]
    <3>1. PICK c \in Nat : c = q.st.unget
      BY <2>5
    <3>2. t = Unback(q, c) /\ q.st.ungotten
      BY <2>10, <3>1 DEF Unback
    <3>3. /\ t \in Calls(k) /\ t.ret = c /\ t.dv = q.dv /\ t.st.open = q.st.open
          /\ Inp(q) = <<q.st.unget>> \o Inp(t)
          /\ Out(t) = Out(q) /\ Pending(t.st) = Pending(q.st)
      BY <2>2, <3>2, UnbackRight
    <3>4. t.ret \in Nat /\ t.ret # EOF
      BY <3>3 DEF EOF
    <3>5. t.dv.works = s.dv.works /\ t.st.open = s.st.open /\ Keeps(s, t)
      BY <2>2, <3>3 DEF SameFile, Keeps
    <3> QED BY <2>2, <2>8, <2>10, <3>1, <3>3, <3>4, <3>5 DEF Get, Stuck
  <2>11. CASE q.ret = 0 /\ t = Told(q, EOF)
    <3>1. t \in Calls(k) /\ t.ret = EOF /\ Unmoved(q, t)
      BY <2>2, <2>11, ToldRight DEF EOF
    <3> QED BY <2>2, <2>3, <3>1, GetNone
  <2>12. CASE q.ret = 0 /\ t = [q EXCEPT !.st.eof = TRUE, !.ret = EOF]
    <3>1. PICK f : f = [q.st EXCEPT !.eof = TRUE]
      OBVIOUS
    <3>2. t = [st |-> f, dv |-> q.dv, ret |-> EOF, smash |-> q.smash]
      BY <2>2, <2>12, <3>1 DEF Calls
    <3>3. /\ f \in Files(k) /\ SameFile(f, q.st) /\ f.bufinput = q.st.bufinput
          /\ f.pos = q.st.pos /\ f.data = q.st.data /\ f.buffer = q.st.buffer
      BY <2>8, <3>1 DEF Files, SameFile
    <3>4. Sound(f)
      BY <2>8, <3>3 DEF Sound, SameFile
    <3>5. t \in Calls(k) /\ t.ret = EOF /\ Unmoved(q, t)
      <4>1. t.st = f /\ t.dv = q.dv /\ t.ret = EOF
        BY <3>2
      <4> QED BY <2>8, <3>2, <3>3, <3>4, <4>1 DEF Calls, Unmoved, EOF
    <3> QED BY <2>2, <2>3, <3>5, GetNone
  <2>13. CASE q.ret = 0 /\ ~q.st.ungotten /\ (q.st.pos < q.st.data \/ n # 0) /\ t = ReadOne(filled)
    <3>1. /\ filled \in Calls(k) /\ filled.st.bufinput /\ filled.st.pos < filled.st.data
          /\ SameFile(filled.st, q.st) /\ filled.dv.works = q.dv.works
          /\ filled.dv.out = q.dv.out /\ Inp(filled) = Inp(q)
      <4>1. CASE q.st.pos < q.st.data
        <5>1. filled = q
          BY <2>6, <4>1
        <5> QED BY <2>2, <4>1, <5>1 DEF SameFile
      <4>2. CASE ~(q.st.pos < q.st.data)
        <5>1. filled = Fill(q, n) /\ q.st.data <= q.st.pos /\ 0 < n
          BY <2>5, <2>6, <2>13, <4>2
        <5> QED BY <2>2, <2>4, <5>1, FilledRight
      <4> QED BY <4>1, <4>2
    <3>2. ~filled.st.ungotten
      BY <2>13, <3>1 DEF SameFile
    <3>3. /\ t \in Calls(k) /\ t.ret \in Nat /\ t.st.bufinput
          /\ SameFile(t.st, filled.st) /\ t.dv = filled.dv
          /\ Inp(filled) = <<t.ret>> \o Inp(t)
      BY <2>13, <3>1, <3>2, NextRight
    <3>4. Pending(t.st) = <<>>
      BY <3>3, Ends
    <3>5. Out(t) = Out(q)
      BY <2>8, <3>1, <3>3, <3>4 DEF Out
    <3>6. /\ t.dv.works = s.dv.works /\ t.st.open = s.st.open
          /\ Keeps(s, t) /\ t.ret # EOF
      BY <2>2, <3>1, <3>3 DEF SameFile, Keeps, EOF
    <3> QED BY <2>2, <2>13, <3>1, <3>3, <3>4, <3>5, <3>6 DEF Get, Stuck
  <2> QED BY <2>2, <2>5, <2>7, <2>9, <2>10, <2>11, <2>12, <2>13
<1> QED BY <1>1, <1>2

(* From s the characters got have been read, and t is how it stands.       *)
Read(s, got, t) ==
    /\ t.dv.works = s.dv.works /\ t.st.open = s.st.open
    /\ Inp(s) = got \o Inp(t)
    /\ ~Stuck(s) => Out(t) = Out(s) /\ ~Stuck(t)
    /\ Keeps(s, t)

(* One more character read by fread, or the end.                           *)
LEMMA ReadMore ==
    ASSUME NEW k, NEW s \in Calls(k), NEW got \in Text, NEW t \in Calls(k), Read(s, got, t),
           NEW u \in Calls(k), Get(t, u)
    PROVE  /\ u.ret = EOF => Read(s, got, u)
           /\ u.ret # EOF => Append(got, u.ret) \in Text /\ Read(s, Append(got, u.ret), u)
<1>1. /\ u.dv.works = s.dv.works /\ u.st.open = s.st.open
      /\ ~Stuck(s) => Out(u) = Out(s) /\ ~Stuck(u)
      /\ Keeps(s, u)
  BY DEF Read, Get, Keeps
<1>2. u.ret = EOF => Read(s, got, u)
  BY <1>1 DEF Read, Get
<1>3. ASSUME u.ret # EOF
      PROVE  Append(got, u.ret) \in Text /\ Read(s, Append(got, u.ret), u)
  <2>1. PICK c \in Nat : c = u.ret
    BY <1>3 DEF Get
  <2>2. PICK w \in Text : w = <<c>>
    <3>1. <<c>> \in Text
      BY DEF Text
    <3> QED BY <3>1
  <2>3. Append(got, c) = got \o w /\ got \o w \in Text
    <3>1. Append(got, c) = got \o <<c>>
      BY AppendIsConcat DEF Text
    <3>2. got \o w \in Text
      BY Joined
    <3> QED BY <2>2, <3>1, <3>2
  <2>4. PICK e \in Text : e = Inp(u)
    BY Ends
  <2>5. Inp(s) = got \o (w \o e)
    BY <1>3, <2>1, <2>2, <2>4 DEF Read, Get
  <2>6. got \o (w \o e) = (got \o w) \o e
    BY Joined
  <2>7. Read(s, got \o w, u)
    BY <1>1, <2>4, <2>5, <2>6 DEF Read
  <2> QED BY <2>1, <2>3, <2>7
<1> QED BY <1>2, <1>3

Reads(k) == [s : Calls(k), got : Text, ended : BOOLEAN]
ReadStep(b) ==
    LET t == fgetc(b.s)
    IN  IF b.ended THEN b
        ELSE IF t.ret = EOF THEN [b EXCEPT !.s = t, !.ended = TRUE]
        ELSE [b EXCEPT !.s = t, !.got = Append(@, t.ret)]

(* One turn of fread's loop over fgetc keeps what Read says.               *)
LEMMA ReadStepRight ==
    ASSUME NEW k, NEW s \in Calls(k), NEW b \in Reads(k), Read(s, b.got, b.s)
    PROVE  ReadStep(b) \in Reads(k) /\ Read(s, ReadStep(b).got, ReadStep(b).s)
<1>1. b.s \in Calls(k) /\ b.got \in Text /\ b.ended \in BOOLEAN
  BY DEF Reads
<1>2. PICK t : t = fgetc(b.s)
  OBVIOUS
<1>3. t \in Calls(k) /\ Get(b.s, t)
  BY <1>1, <1>2, GetRight
<1>4. PICK u : u = ReadStep(b)
  OBVIOUS
<1>5. CASE b.ended
  <2>1. u = b
    BY <1>4, <1>5 DEF ReadStep
  <2> QED BY <1>4, <2>1
<1>6. CASE ~b.ended /\ t.ret = EOF
  <2>1. u = [b EXCEPT !.s = t, !.ended = TRUE]
    BY <1>2, <1>4, <1>6 DEF ReadStep
  <2>2. u \in Reads(k) /\ u.s = t /\ u.got = b.got
    BY <1>3, <2>1 DEF Reads
  <2>3. Read(s, b.got, t)
    BY <1>1, <1>3, <1>6, ReadMore
  <2> QED BY <1>4, <2>2, <2>3
<1>7. CASE ~b.ended /\ t.ret # EOF
  <2>1. Append(b.got, t.ret) \in Text /\ Read(s, Append(b.got, t.ret), t)
    BY <1>1, <1>3, <1>7, ReadMore
  <2>2. PICK e \in Text : e = Append(b.got, t.ret)
    BY <2>1
  <2>3. u = [b EXCEPT !.s = t, !.got = e]
    BY <1>2, <1>4, <1>7, <2>2 DEF ReadStep
  <2>4. u \in Reads(k) /\ u.s = t /\ u.got = e
    BY <1>3, <2>3 DEF Reads
  <2> QED BY <1>4, <2>1, <2>2, <2>4
<1> QED BY <1>5, <1>6, <1>7

(* fread: what it returns is the first of what came in.                    *)
LEMMA ReadsRight ==
    ASSUME NEW k, NEW s \in Calls(k), NEW first \in Calls(k), NEW got \in Text,
           Read(s, got, first), NEW n \in Nat, Len(got) <= n
    PROVE  LET get[i \in Len(got) .. n] ==
                   IF i = Len(got) THEN [s |-> first, got |-> got, ended |-> FALSE]
                   ELSE ReadStep(get[i - 1])
           IN  get[n] \in Reads(k) /\ Read(s, get[n].got, get[n].s)
<1> DEFINE X == {b \in Reads(k) : Read(s, b.got, b.s)}
           m == Len(got)
           start == [s |-> first, got |-> got, ended |-> FALSE]
           step == [i \in m + 1 .. n |-> [b \in X |-> ReadStep(b)]]
           H(h) == [i \in Len(got) .. n |->
                      IF i = Len(got) THEN [s |-> first, got |-> got, ended |-> FALSE]
                      ELSE ReadStep(h[i - 1])]
           get == CHOOSE h : h = H(h)
<1>1. m \in Nat /\ m <= n
  BY DEF Text
<1>2. start \in X
  BY DEF Reads
<1>3. step \in [m + 1 .. n -> [X -> X]]
  <2>1. ASSUME NEW b \in X PROVE ReadStep(b) \in X
    BY ReadStepRight
  <2> HIDE DEF X
  <2> QED BY <2>1
<1>4. PICK f \in [m .. n -> X] : Stepwise(f, m, n, start, step)
  <2> HIDE DEF X, start, step, m
  <2> QED BY <1>1, <1>2, <1>3, StepwiseExists
<1>5. f = H(f)
  <2>1. ASSUME NEW i \in m .. n PROVE f[i] = H(f)[i]
    <3>1. CASE i = m
      BY <3>1, <1>4 DEF Stepwise
    <3>2. CASE i # m
      <4>1. i \in m + 1 .. n /\ i - 1 \in m .. n
        <5> HIDE DEF m
        <5> QED BY <1>1, <3>2
      <4>2. f[i] = step[i][f[i - 1]] /\ f[i - 1] \in X
        BY <4>1, <1>4 DEF Stepwise
      <4> QED BY <4>1, <4>2, <3>2
    <3> QED BY <3>1, <3>2
  <2> QED BY <2>1
<1>6. get = H(get)
  BY <1>5
<1>7. get[m] = start
  <2> HIDE DEF get
  <2>1. get[m] = H(get)[m]
    BY <1>6
  <2> QED BY <1>1, <2>1
<1>8. ASSUME NEW i \in m + 1 .. n PROVE get[i] = ReadStep(get[i - 1])
  <2> HIDE DEF get
  <2>1. i \in m .. n /\ i # m
    <3> HIDE DEF m
    <3> QED BY <1>1
  <2>2. get[i] = H(get)[i]
    BY <1>6
  <2> QED BY <2>1, <2>2
<1> DEFINE S == {j \in 0 .. n - m : get[m + j] \in X}
<1>9. 0 \in S
  <2> HIDE DEF get, X, m, start
  <2> QED BY <1>1, <1>2, <1>7
<1>10. ASSUME NEW j \in 1 .. n - m, j - 1 \in S PROVE j \in S
  <2>1. /\ m + j \in m + 1 .. n /\ (m + j) - 1 = m + (j - 1) /\ j \in 0 .. n - m
    <3> HIDE DEF m
    <3> QED BY <1>1
  <2>2. get[m + j] = ReadStep(get[m + (j - 1)])
    <3> HIDE DEF get, m
    <3> QED BY <1>8, <2>1
  <2>3. get[m + (j - 1)] \in X
    <3> HIDE DEF get, m, X
    <3> QED BY <1>10
  <2>4. ReadStep(get[m + (j - 1)]) \in X
    <3> HIDE DEF get, m
    <3> QED BY <2>3, ReadStepRight
  <2> HIDE DEF get, m, X
  <2> QED BY <2>1, <2>2, <2>4
<1>11. 0 .. n - m \subseteq S
  <2>1. n - m \in Nat
    <3> HIDE DEF m
    <3> QED BY <1>1
  <2> HIDE DEF S, m
  <2> QED BY <1>9, <1>10, <2>1, RangeInduction
<1>12. get[n] \in X
  <2>1. n - m \in 0 .. n - m /\ m + (n - m) = n
    <3> HIDE DEF m
    <3> QED BY <1>1
  <2> HIDE DEF get, m, X
  <2> QED BY <1>11, <2>1
<1> QED
  <2> HIDE DEF Read, ReadStep, Reads
  <2> QED BY <1>12

(* fread written with ReadStep.                                            *)
LEMMA FreadIs ==
    ASSUME NEW s, NEW n
    PROVE  LET first == IF s.st.ungotten
                        THEN [s |-> [s EXCEPT !.st.ungotten = FALSE], got |-> <<s.st.unget>>]
                        ELSE [s |-> s, got |-> <<>>]
               get[i \in Len(first.got) .. n] ==
                   IF i = Len(first.got)
                   THEN [s |-> first.s, got |-> first.got, ended |-> FALSE]
                   ELSE ReadStep(get[i - 1])
           IN  fread(s, n) =
               IF "read" \notin s.st.can THEN [s |-> Failed(s), got |-> <<>>]
               ELSE IF n = 0 THEN [s |-> s, got |-> <<>>]
               ELSE [s |-> get[n].s, got |-> get[n].got]
BY DEF fread, ReadStep

(* fread returns the beginning of what there is to read, and leaves the    *)
(* rest.                                                                   *)
LEMMA FreadRight ==
    ASSUME NEW k, NEW s \in Calls(k), NEW n \in Nat, NEW r, r = fread(s, n)
    PROVE  r.s \in Calls(k) /\ r.got \in Text /\ Read(s, r.got, r.s)
<1>1. <<>> \in Text /\ Inp(s) = <<>> \o Inp(s)
  BY Ends, Joined
<1>2. Read(s, <<>>, s)
  BY <1>1 DEF Read, Keeps
<1>3. ASSUME NEW first \in Calls(k), NEW got \in Text, Read(s, got, first), Len(got) <= n,
             (IF s.st.ungotten
              THEN [s |-> [s EXCEPT !.st.ungotten = FALSE], got |-> <<s.st.unget>>]
              ELSE [s |-> s, got |-> <<>>]) = [s |-> first, got |-> got],
             "read" \in s.st.can, n # 0
      PROVE  r.s \in Calls(k) /\ r.got \in Text /\ Read(s, r.got, r.s)
  <2> DEFINE get[i \in Len(got) .. n] ==
                 IF i = Len(got) THEN [s |-> first, got |-> got, ended |-> FALSE]
                 ELSE ReadStep(get[i - 1])
             one == IF s.st.ungotten
                    THEN [s |-> [s EXCEPT !.st.ungotten = FALSE], got |-> <<s.st.unget>>]
                    ELSE [s |-> s, got |-> <<>>]
             all[i \in Len(one.got) .. n] ==
                   IF i = Len(one.got)
                   THEN [s |-> one.s, got |-> one.got, ended |-> FALSE]
                   ELSE ReadStep(all[i - 1])
  <2>1. r = [s |-> all[n].s, got |-> all[n].got]
    BY <1>3, FreadIs
  <2>2. one.s = first /\ one.got = got
    BY <1>3
  <2>3. all = get
    <3> HIDE DEF one
    <3> QED BY <2>2
  <2>4. get[n] \in Reads(k) /\ Read(s, get[n].got, get[n].s)
    BY <1>3, ReadsRight
  <2> HIDE DEF get, all
  <2>5. r.s = get[n].s /\ r.got = get[n].got
    BY <2>1, <2>3
  <2>6. get[n].s \in Calls(k) /\ get[n].got \in Text
    BY <2>4 DEF Reads
  <2> QED BY <2>4, <2>5, <2>6
<1>4. CASE "read" \notin s.st.can
  <2>1. PICK t : t = Failed(s)
    OBVIOUS
  <2>2. t \in Calls(k) /\ t.ret = EOF /\ Unmoved(s, t)
    BY <2>1, FailedRight
  <2>3. Get(s, t)
    BY <2>2, GetNone DEF SameFile, Keeps
  <2>4. Read(s, <<>>, t)
    BY <1>1, <1>2, <2>2, <2>3, ReadMore
  <2>5. r = [s |-> t, got |-> <<>>]
    BY <1>4, <2>1, FreadIs
  <2>6. r.s = t /\ r.got = <<>>
    BY <2>5
  <2> QED BY <1>1, <2>2, <2>4, <2>6
<1>5. CASE "read" \in s.st.can /\ n = 0
  <2>1. r = [s |-> s, got |-> <<>>]
    BY <1>5, FreadIs
  <2>2. r.s = s /\ r.got = <<>>
    BY <2>1
  <2> QED BY <1>1, <1>2, <2>2
<1>6. CASE "read" \in s.st.can /\ n # 0 /\ ~s.st.ungotten
  <2>1. Len(<<>>) <= n
    BY <1>6
  <2>2. (IF s.st.ungotten
         THEN [s |-> [s EXCEPT !.st.ungotten = FALSE], got |-> <<s.st.unget>>]
         ELSE [s |-> s, got |-> <<>>]) = [s |-> s, got |-> <<>>]
    BY <1>6
  <2> QED BY <1>1, <1>2, <1>3, <1>6, <2>1, <2>2
<1>7. CASE "read" \in s.st.can /\ n # 0 /\ s.st.ungotten
  <2>1. PICK t : t = [s EXCEPT !.st.ungotten = FALSE]
    OBVIOUS
  <2>2. PICK got : got = <<s.st.unget>>
    OBVIOUS
  <2>3. got \in Text /\ Len(got) = 1
    BY <2>2, Parts DEF Text
  <2>4. t \in Calls(k) /\ Read(s, got, t)
    <3>1. s.ret \in Int
      BY Parts
    <3>2. t = Unback(s, s.ret)
      BY <2>1 DEF Unback, Calls
    <3>3. /\ t \in Calls(k) /\ t.dv = s.dv /\ t.st.open = s.st.open
          /\ Inp(s) = <<s.st.unget>> \o Inp(t)
          /\ Out(t) = Out(s) /\ Pending(t.st) = Pending(s.st)
      BY <1>7, <3>1, <3>2, UnbackRight
    <3> QED BY <2>2, <3>3 DEF Read, Stuck, Keeps
  <2>5. (IF s.st.ungotten
         THEN [s |-> [s EXCEPT !.st.ungotten = FALSE], got |-> <<s.st.unget>>]
         ELSE [s |-> s, got |-> <<>>]) = [s |-> t, got |-> got]
    BY <1>7, <2>1, <2>2
  <2>6. Len(got) <= n
    BY <1>7, <2>3
  <2> QED BY <1>3, <1>7, <2>3, <2>4, <2>5, <2>6
<1> QED BY <1>4, <1>5, <1>6, <1>7

(* ungetc: the character is the next to come in.                           *)
LEMMA UngetRight ==
    ASSUME NEW k, NEW s \in Calls(k), NEW c \in Nat, NEW t, t = ungetc(s, c), t.ret # EOF
    PROVE  /\ t \in Calls(k) /\ t.dv = s.dv /\ t.st.open = s.st.open
           /\ Inp(t) = <<c>> \o Inp(s)
           /\ Out(t) = Out(s)
<1>1. /\ s.st \in Files(k) /\ s.dv \in Devices /\ s.smash \in BOOLEAN /\ Sound(s.st)
  BY Parts
<1>2. ~s.st.ungotten
  <2>1. CASE s.st.ungotten
    <3>1. t = Told(s, EOF)
      BY <2>1 DEF ungetc
    <3>2. t.ret = EOF
      BY <3>1, ToldRight DEF EOF
    <3> QED BY <3>2
  <2> QED BY <2>1
<1>3. PICK f : f = [s.st EXCEPT !.ungotten = TRUE, !.unget = c, !.eof = FALSE, !.error = FALSE]
  OBVIOUS
<1>4. t = [st |-> f, dv |-> s.dv, ret |-> c, smash |-> s.smash]
  BY <1>2, <1>3 DEF Calls, ungetc
<1>5. /\ f \in Files(k) /\ f.open = s.st.open /\ f.ungotten /\ f.unget = c
      /\ f.nobuf = s.st.nobuf
      /\ f.pos = s.st.pos /\ f.data = s.st.data /\ f.buffer = s.st.buffer
      /\ f.bufinput = s.st.bufinput
  BY <1>1, <1>3 DEF Files
<1>6. Sound(f) /\ Pending(f) = Pending(s.st) /\ Unread(f) = Unread(s.st)
  BY <1>1, <1>5 DEF Sound, Pending, Unread
<1>7. t \in Calls(k) /\ t.st = f /\ t.dv = s.dv
  <2>1. t.st = f /\ t.dv = s.dv
    BY <1>4
  <2> QED BY <1>1, <1>4, <1>5, <1>6, <2>1 DEF Calls
<1>8. Inp(t) = <<c>> \o Inp(s)
  <2>1. PICK w \in Text : w = <<c>>
    <3>1. <<c>> \in Text
      BY DEF Text
    <3> QED BY <3>1
  <2>2. PICK a \in Text, i \in Text : a = Unread(s.st) /\ i = s.dv.in
    BY Ends, Parts
  <2>3. Back(s.st) = <<>> /\ Back(f) = w
    BY <1>2, <1>5, <2>1 DEF Back
  <2>4. Inp(t) = (w \o a) \o i /\ Inp(s) = (<<>> \o a) \o i
    BY <1>6, <1>7, <2>2, <2>3 DEF Inp
  <2>5. (w \o a) \o i = w \o (a \o i) /\ <<>> \o a = a
    BY Joined
  <2> QED BY <2>1, <2>4, <2>5
<1> QED BY <1>5, <1>6, <1>7, <1>8 DEF Out

-----------------------------------------------------------------------------
(* The invariant.                                                          *)

Programs ==
    [tried : Nat, taken : SUBSET Nat, flushed : SUBSET Nat, got : Text, came : Nat,
     inputLost : BOOLEAN, outputLost : BOOLEAN, smashed : BOOLEAN]

(* Numbers up to n, each greater than those before it.                     *)
UpTo(cs, n) ==
    /\ \A i \in DOMAIN cs : cs[i] \in 1 .. n
    /\ \A i, j \in DOMAIN cs : i < j => cs[i] < cs[j]

(* sent is what was written and waits to be, out what was written.         *)
OutRight(sent, out, open, p) ==
    ~p.outputLost =>
        /\ UpTo(sent, p.tried)
        /\ open => \A c \in p.taken : In(c, sent)
        /\ \A c \in p.flushed : In(c, out)

(* inp is what there is to read.                                           *)
InRight(inp, open, p) ==
    open /\ ~p.inputLost => p.got \o inp = [i \in 1 .. p.came |-> i]

StreamsInv ==
    /\ \E k : Now \in Calls(k)
    /\ program \in Programs
    /\ OutRight(Sent, device.out, stream.open, program)
    /\ InRight(Inp(Now), stream.open, program)

(* What it says implies what is claimed of the stream.                     *)
LEMMA InvImplies ==
    ASSUME StreamsInv
    PROVE  OutputInOrder /\ InputInOrder
<1>1. OutputInOrder
  BY DEF StreamsInv, OutRight, UpTo, OutputInOrder
<1>2. PICK k : Now \in Calls(k)
  BY DEF StreamsInv
<1>3. Now.st = stream /\ Now.dv = device
  BY DEF Now
<1>4. program.got \in Text
  BY DEF StreamsInv, Programs
<1>5. PICK b \in Text, a \in Text, i \in Text, g \in Text :
        b = Back(stream) /\ a = Unread(stream) /\ i = device.in /\ g = program.got
  BY <1>2, <1>3, <1>4, Ends, Parts
<1>6. ((g \o b) \o a) \o i = g \o ((b \o a) \o i)
  <2>1. (g \o b) \o a = g \o (b \o a) /\ b \o a \in Text
    BY Joined
  <2>2. (g \o (b \o a)) \o i = g \o ((b \o a) \o i)
    BY <2>1, Joined
  <2> QED BY <2>1, <2>2
<1>7. Inp(Now) = (b \o a) \o i
  BY <1>3, <1>5 DEF Inp
<1>8. InputInOrder
  <2>1. InRight((b \o a) \o i, stream.open, program)
    BY <1>7 DEF StreamsInv
  <2>2. stream.open /\ ~program.inputLost => ((g \o b) \o a) \o i = [j \in 1 .. program.came |-> j]
    BY <1>5, <1>6, <2>1 DEF InRight
  <2> QED BY <1>5, <2>2 DEF InputInOrder, Back
<1> QED BY <1>1, <1>8

(* What the invariant says of the state between two calls.                 *)
LEMMA NowIs ==
    ASSUME StreamsInv
    PROVE  /\ \E k : Now \in Calls(k)
           /\ Now.st = stream /\ Now.dv = device
           /\ stream.open => Sent = Out(Now)
           /\ program \in Programs /\ program.got \in Text /\ program.tried \in Nat
           /\ program.came \in Nat /\ program.taken \in SUBSET Nat
           /\ program.flushed \in SUBSET Nat
           /\ program.inputLost \in BOOLEAN /\ program.outputLost \in BOOLEAN
           /\ program.smashed \in BOOLEAN
<1>1. Now.st = stream /\ Now.dv = device
  BY DEF Now
<1>2. stream.open => Sent = Out(Now)
  BY <1>1 DEF Sent, Out
<1> QED BY <1>1, <1>2 DEF StreamsInv, Programs

(* A step that leaves the state s.                                         *)
LEMMA StateRight ==
    ASSUME NEW k, NEW s \in Calls(k), stream' = s.st, device' = s.dv, program' \in Programs,
           s.st.open => OutRight(Out(s), s.dv.out, TRUE, program'),
           ~s.st.open => OutRight(s.dv.out, s.dv.out, FALSE, program'),
           InRight(Inp(s), s.st.open, program')
    PROVE  StreamsInv'
<1>1. Now' = [st |-> s.st, dv |-> s.dv, ret |-> 0, smash |-> FALSE]
  BY DEF Now
<1>2. Now' \in Calls(k) /\ (Inp(Now))' = Inp(s)
  <2>1. s.st \in Files(k) /\ s.dv \in Devices /\ Sound(s.st)
    BY Parts
  <2>2. Now'.st = s.st /\ Now'.dv = s.dv
    BY <1>1
  <2>3. Now' \in Calls(k)
    BY <1>1, <2>1, <2>2 DEF Calls
  <2> QED BY <2>2, <2>3 DEF Inp
<1>3. Sent' = s.dv.out \o (IF s.st.open THEN Pending(s.st) ELSE <<>>)
  BY DEF Sent
<1>4. OutRight(Sent, device.out, stream.open, program)'
  <2>1. CASE s.st.open
    <3>1. Sent' = Out(s)
      BY <1>3, <2>1 DEF Out
    <3> QED BY <2>1, <3>1 DEF OutRight
  <2>2. CASE ~s.st.open
    <3>1. Sent' = s.dv.out
      BY <1>3, <2>2, Parts, Joined
    <3> QED BY <2>2, <3>1 DEF OutRight
  <2> QED BY <2>1, <2>2
<1>5. InRight(Inp(Now), stream.open, program)'
  BY <1>2 DEF InRight
<1> QED BY <1>2, <1>4, <1>5 DEF StreamsInv

(* A call that leaves the state s and the program p.                       *)
LEMMA AfterRight ==
    ASSUME NEW k, NEW s \in Calls(k), NEW p \in Programs, After(s, p),
           s.st.open => OutRight(Out(s), s.dv.out, TRUE, p),
           ~s.st.open => OutRight(s.dv.out, s.dv.out, FALSE, p),
           InRight(Inp(s), s.st.open, p)
    PROVE  StreamsInv'
<1>1. stream' = s.st /\ device' = s.dv /\ s.smash \in BOOLEAN
  BY Parts DEF After
<1>2. PICK b \in BOOLEAN : program' = [p EXCEPT !.smashed = b]
  <2>1. (p.smashed \/ s.smash) \in BOOLEAN
    OBVIOUS
  <2> QED BY <2>1 DEF After
<1>3. /\ program' \in Programs
      /\ program'.tried = p.tried /\ program'.taken = p.taken /\ program'.flushed = p.flushed
      /\ program'.got = p.got /\ program'.came = p.came
      /\ program'.inputLost = p.inputLost /\ program'.outputLost = p.outputLost
  BY <1>2 DEF Programs
<1>4. s.st.open => OutRight(Out(s), s.dv.out, TRUE, program')
  BY <1>3 DEF OutRight
<1>5. ~s.st.open => OutRight(s.dv.out, s.dv.out, FALSE, program')
  BY <1>3 DEF OutRight
<1>6. InRight(Inp(s), s.st.open, program')
  BY <1>3 DEF InRight
<1> QED BY <1>1, <1>3, <1>4, <1>5, <1>6, StateRight

(* What a call says is lost.                                               *)
LEMMA LoseInputIs ==
    ASSUME NEW p \in Programs, NEW q, q = LoseInput(p)
    PROVE  /\ q \in Programs
           /\ q.tried = p.tried /\ q.taken = p.taken /\ q.flushed = p.flushed
           /\ q.got = p.got /\ q.came = p.came /\ q.outputLost = p.outputLost
           /\ ~q.inputLost => ~p.inputLost /\ Unread(stream) = <<>>
<1>1. PICK b \in BOOLEAN : b = (p.inputLost \/ Unread(stream) # <<>>)
  OBVIOUS
<1>2. q = [p EXCEPT !.inputLost = b]
  BY <1>1 DEF LoseInput
<1> QED BY <1>1, <1>2 DEF Programs

(* LoseOutput marks the output as lost exactly when some waits that cannot *)
(* be written.                                                             *)
LEMMA LoseOutputIs ==
    ASSUME NEW p \in Programs, NEW q, q = LoseOutput(p)
    PROVE  /\ q \in Programs
           /\ q.tried = p.tried /\ q.taken = p.taken /\ q.flushed = p.flushed
           /\ q.got = p.got /\ q.came = p.came /\ q.inputLost = p.inputLost
           /\ ~q.outputLost => ~p.outputLost /\ ~(Pending(stream) # <<>> /\ ~device.works)
<1>1. PICK b \in BOOLEAN : b = (p.outputLost \/ (Pending(stream) # <<>> /\ ~device.works))
  OBVIOUS
<1>2. q = [p EXCEPT !.outputLost = b]
  BY <1>1 DEF LoseOutput
<1> QED BY <1>1, <1>2 DEF Programs

(* Numbers up to n followed by those after n.                              *)
LEMMA UpToJoined ==
    ASSUME NEW a \in Text, NEW n \in Nat, NEW m \in Nat, NEW cs \in Text, UpTo(a, n),
           Len(cs) <= m, \A i \in 1 .. Len(cs) : cs[i] = n + i
    PROVE  UpTo(a \o cs, n + m)
<1>1. /\ Len(a) \in Nat /\ Len(cs) \in Nat /\ DOMAIN a = 1 .. Len(a)
      /\ DOMAIN (a \o cs) = 1 .. Len(a) + Len(cs)
      /\ \A i \in 1 .. Len(a) + Len(cs) :
           (a \o cs)[i] = IF i <= Len(a) THEN a[i] ELSE cs[i - Len(a)]
  BY ConcatProperties, LenProperties DEF Text
<1>2. PICK A \in Nat, C \in Nat, g \in {a \o cs} : A = Len(a) /\ C = Len(cs) /\ g = a \o cs
  BY <1>1
<1>3. ASSUME NEW i \in 1 .. A + C
      PROVE  \/ i <= A /\ g[i] = a[i] /\ i \in DOMAIN a /\ a[i] \in 1 .. n
             \/ i > A /\ g[i] = n + (i - A) /\ i - A <= m
  <2>1. CASE i <= A
    BY <1>1, <1>2, <2>1 DEF UpTo
  <2>2. CASE i > A
    <3>1. i - A \in 1 .. C /\ i - A <= m
      BY <1>1, <1>2, <2>2
    <3>2. g[i] = cs[i - A]
      BY <1>1, <1>2, <2>2
    <3> QED BY <1>2, <2>2, <3>1, <3>2
  <2> QED BY <2>1, <2>2
<1>4. ASSUME NEW i \in 1 .. A + C PROVE g[i] \in 1 .. n + m
  <2>1. CASE i <= A /\ g[i] = a[i] /\ a[i] \in 1 .. n
    BY <2>1
  <2>2. CASE i > A /\ g[i] = n + (i - A) /\ i - A <= m
    BY <2>2
  <2> QED BY <1>3, <2>1, <2>2
<1>5. ASSUME NEW i \in 1 .. A + C, NEW j \in 1 .. A + C, i < j PROVE g[i] < g[j]
  <2>1. CASE j <= A
    <3>1. i <= A
      BY <1>5, <2>1
    <3>2. i \in DOMAIN a /\ j \in DOMAIN a /\ g[i] = a[i] /\ g[j] = a[j]
      BY <1>3, <2>1, <3>1
    <3> QED BY <1>5, <3>2 DEF UpTo
  <2>2. CASE j > A /\ i <= A
    <3>1. PICK x \in 1 .. n : g[i] = x
      <4>1. g[i] = a[i] /\ a[i] \in 1 .. n
        BY <1>1, <1>2, <1>3, <2>2
      <4> QED BY <4>1
    <3>2. g[j] = n + (j - A)
      BY <1>3, <2>2
    <3> QED BY <2>2, <3>1, <3>2
  <2>3. CASE j > A /\ i > A
    <3>1. g[j] = n + (j - A) /\ g[i] = n + (i - A)
      BY <1>3, <2>3
    <3> QED BY <1>5, <3>1
  <2> QED BY <2>1, <2>2, <2>3
<1> QED BY <1>1, <1>2, <1>4, <1>5 DEF UpTo

(* A beginning of increasing numbers is one.                               *)
LEMMA UpToPrefix ==
    ASSUME NEW a \in Text, NEW b \in Text, NEW n, UpTo(a \o b, n)
    PROVE  UpTo(a, n)
<1>1. /\ Len(a) \in Nat /\ Len(b) \in Nat /\ DOMAIN a = 1 .. Len(a)
      /\ DOMAIN (a \o b) = 1 .. Len(a) + Len(b)
      /\ \A i \in 1 .. Len(a) : (a \o b)[i] = a[i] /\ i \in 1 .. Len(a) + Len(b)
  BY ConcatProperties, LenProperties DEF Text
<1> QED BY <1>1 DEF UpTo

(* The program after it tried len more, those of new with success.         *)
Tried(len, new) == [program EXCEPT !.tried = @ + len, !.taken = @ \cup new]

(* The first n of the characters cs have been written, the next that the   *)
(* program tries: those of new are said to be.                             *)
LEMMA WroteStep ==
    ASSUME StreamsInv, stream.open, NEW k, Now \in Calls(k), NEW cs \in Text,
           \A i \in 1 .. Len(cs) : cs[i] = program.tried + i,
           NEW n \in 0 .. Len(cs), NEW s \in Calls(k), Took(Now, cs, n, s),
           NEW new \in SUBSET {cs[i] : i \in 1 .. n},
           NEW p, p = Tried(Len(cs), new),
           After(s, LoseInput(p))
    PROVE  StreamsInv'
<1>1. /\ Now.st = stream /\ Now.dv = device /\ Sent = Out(Now)
      /\ program \in Programs /\ program.tried \in Nat /\ Len(cs) \in Nat
      /\ program.got \in Text
  BY NowIs DEF Text
<1>2. new \subseteq Nat
  <2>1. ASSUME NEW i \in 1 .. n PROVE cs[i] \in Nat
    <3>1. i \in 1 .. Len(cs)
      BY <1>1
    <3> QED BY <3>1 DEF Text
  <2> QED BY <2>1
<1>3. PICK m \in Nat, T \in SUBSET Nat : m = program.tried + Len(cs) /\ T = program.taken \cup new
  <2>1. program.tried + Len(cs) \in Nat
    BY <1>1
  <2>2. (program.taken \cup new) \in SUBSET Nat
    BY <1>2, NowIs
  <2> QED BY <2>1, <2>2
<1>4. p = [program EXCEPT !.tried = m, !.taken = T]
  BY <1>3 DEF Tried
<1>5. /\ p \in Programs /\ p.tried = m /\ p.taken = T /\ p.flushed = program.flushed
      /\ p.got = program.got /\ p.came = program.came
      /\ p.inputLost = program.inputLost /\ p.outputLost = program.outputLost
  BY <1>1, <1>4 DEF Programs
<1>6. PICK q : q = LoseInput(p)
  OBVIOUS
<1>7. /\ q \in Programs
      /\ q.tried = m /\ q.taken = T /\ q.flushed = program.flushed
      /\ q.got = program.got /\ q.came = program.came /\ q.outputLost = program.outputLost
      /\ ~q.inputLost => ~program.inputLost /\ Unread(stream) = <<>>
  BY <1>5, <1>6, LoseInputIs
<1>8. PICK a \in Text, b \in Text :
        /\ a = Out(Now) /\ b = SubSeq(cs, 1, n) /\ Len(b) = n
        /\ \A i \in 1 .. n : b[i] = cs[i]
  <2>1. SubSeq(cs, 1, n) \in Text /\ Len(SubSeq(cs, 1, n)) = n
    BY <1>1, Slices
  <2>2. \A i \in 1 .. n : SubSeq(cs, 1, n)[i] = cs[i]
    BY <1>1 DEF Text
  <2> QED BY <2>1, <2>2, Ends
<1>9. Out(s) = a \o b /\ Keeps(Now, s) /\ s.st.open
  BY <1>1, <1>8 DEF Took, SameFile
<1>10. OutRight(Out(s), s.dv.out, TRUE, q)
  <2> SUFFICES ASSUME ~q.outputLost
               PROVE  /\ UpTo(a \o b, m)
                      /\ \A c \in T : In(c, a \o b)
                      /\ \A c \in program.flushed : In(c, s.dv.out)
    BY <1>7, <1>9 DEF OutRight
  <2>1. /\ UpTo(a, program.tried)
        /\ \A c \in program.taken : In(c, a)
        /\ \A c \in program.flushed : In(c, device.out)
    BY <1>1, <1>7, <1>8 DEF StreamsInv, OutRight
  <2>2. UpTo(a \o b, m)
    <3>1. \A i \in 1 .. Len(b) : b[i] = program.tried + i
      BY <1>1, <1>8
    <3>2. UpTo(a \o b, program.tried + Len(cs))
      <4>1. PICK t \in Nat, l \in Nat : t = program.tried /\ l = Len(cs) /\ Len(b) <= l
        BY <1>1, <1>8
      <4>2. UpTo(a, t) /\ \A i \in 1 .. Len(b) : b[i] = t + i
        BY <2>1, <3>1, <4>1
      <4>3. UpTo(a \o b, t + l)
        BY <4>1, <4>2, UpToJoined
      <4> QED BY <4>1, <4>3
    <3> QED BY <1>3, <3>2
  <2>3. ASSUME NEW c \in T PROVE In(c, a \o b)
    <3>1. CASE c \in program.taken
      BY <2>1, <3>1, InJoined
    <3>2. CASE c \in new
      <4>1. PICK i \in 1 .. n : b[i] = c
        BY <1>8, <3>2
      <4>2. In(c, b)
        BY <1>8, <4>1, LenProperties DEF In, Text
      <4> QED BY <4>2, InJoined
    <3> QED BY <1>3, <3>1, <3>2
  <2>4. \A c \in program.flushed : In(c, s.dv.out)
    BY <1>1, <1>9, <2>1 DEF Keeps
  <2> QED BY <2>2, <2>3, <2>4
<1>11. InRight(Inp(s), s.st.open, q)
  <2> SUFFICES ASSUME ~q.inputLost PROVE program.got \o Inp(s) = [i \in 1 .. program.came |-> i]
    BY <1>7 DEF InRight
  <2>1. Unread(Now.st) = <<>> /\ Unread(s.st) = <<>> /\ ~program.inputLost
    BY <1>1, <1>7 DEF Took
  <2>2. Back(s.st) = Back(Now.st) /\ s.dv.in = Now.dv.in
    BY DEF Took, SameFile, Back
  <2>3. Inp(s) = Inp(Now)
    BY <2>1, <2>2 DEF Inp
  <2> QED BY <2>1, <2>3 DEF StreamsInv, InRight
<1> QED BY <1>6, <1>7, <1>9, <1>10, <1>11, AfterRight

(* fputc keeps the invariant: its character is the next number.            *)
LEMMA FputcKeeps ==
    ASSUME StreamsInv, NEW newline \in BOOLEAN, Fputc(newline)
    PROVE  StreamsInv'
<1>1. stream.open
  BY DEF Fputc, Usable
<1>2. PICK k : Now \in Calls(k)
  BY NowIs
<1>3. PICK c \in Nat : c = program.tried + 1
  BY NowIs
<1>4. PICK s : s = fputc(Now, c, newline)
  OBVIOUS
<1>5. PICK cs \in Text : cs = <<c>>
  <2>1. <<c>> \in Text
    BY DEF Text
  <2> QED BY <2>1
<1>6. Len(cs) = 1 /\ cs[1] = c /\ \A i \in 1 .. Len(cs) : cs[i] = program.tried + i
  BY <1>3, <1>5
<1>7. s \in Calls(k) /\ Put(Now, c, newline, s)
  BY <1>2, <1>4, PutRight
<1>8. PICK n \in {0, 1} : Took(Now, cs, n, s) /\ (s.ret = 0 => n = 1)
  <2>1. SubSeq(cs, 1, 1) = cs /\ SubSeq(cs, 1, 0) = <<>>
    BY <1>6, SubSeqFull, SubSeqEmpty DEF Text
  <2>2. Out(Now) \o <<>> = Out(Now)
    BY <1>2, Ends, Joined
  <2>3. CASE Out(s) = Out(Now) \o <<c>>
    BY <1>5, <1>7, <2>1, <2>3 DEF Put, Took
  <2>4. CASE Out(s) = Out(Now) /\ s.ret # 0
    BY <1>7, <2>1, <2>2, <2>4 DEF Put, Took
  <2> QED BY <1>7, <2>3, <2>4 DEF Put
<1>9. PICK new : new = IF s.ret = 0 THEN {c} ELSE {}
  OBVIOUS
<1>10. new \in SUBSET {cs[i] : i \in 1 .. n} /\ n \in 0 .. Len(cs)
  BY <1>6, <1>8, <1>9
<1>11. PICK p : p = Tried(Len(cs), new)
  OBVIOUS
<1>12. After(s, LoseInput(p))
  <2>1. p = [program EXCEPT !.tried = c, !.taken = IF s.ret = 0 THEN @ \cup {c} ELSE @]
    <3>1. program.taken \cup new = IF s.ret = 0 THEN program.taken \cup {c} ELSE program.taken
      BY <1>9
    <3> QED BY <1>3, <1>6, <1>11, <3>1 DEF Tried
  <2> QED BY <1>3, <1>4, <2>1 DEF Fputc
<1> QED BY <1>1, <1>2, <1>6, <1>7, <1>8, <1>10, <1>11, <1>12, WroteStep

(* fwrite keeps the invariant: its characters are the next numbers, and    *)
(* those it reports are a beginning of them.                               *)
LEMMA FwriteKeeps ==
    ASSUME StreamsInv, NEW n \in Lengths, Fwrite(n)
    PROVE  StreamsInv'
<1>1. stream.open /\ n \in Nat
  BY StreamsAssumption DEF Fwrite, Usable
<1>2. PICK k : Now \in Calls(k)
  BY NowIs
<1>3. PICK cs \in Text : cs = [i \in 1 .. n |-> program.tried + i] /\ Len(cs) = n
  <2>1. [i \in 1 .. n |-> program.tried + i] \in Text
    BY <1>1, NowIs DEF Text
  <2>2. Len([i \in 1 .. n |-> program.tried + i]) = n
    BY <1>1
  <2> QED BY <2>1, <2>2
<1>4. \A i \in 1 .. Len(cs) : cs[i] = program.tried + i
  BY <1>3
<1>5. PICK s : s = fwrite(Now, cs)
  OBVIOUS
<1>6. s \in Calls(k) /\ s.ret \in 0 .. Len(cs) /\ Took(Now, cs, s.ret, s)
  BY <1>2, <1>5, WriteRight
<1>7. PICK new : new = {cs[i] : i \in 1 .. s.ret}
  OBVIOUS
<1>8. PICK p : p = Tried(Len(cs), new)
  OBVIOUS
<1>9. After(s, LoseInput(p))
  BY <1>3, <1>5, <1>7, <1>8 DEF Fwrite, Tried
<1> QED BY <1>1, <1>2, <1>4, <1>6, <1>7, <1>8, <1>9, WroteStep

(* The program after a flush that returned r.                              *)
Flushed(r) == [program EXCEPT !.flushed = IF r = 0 THEN program.taken ELSE @]

(* fflush leaves the output in order, and all of it on the device when it  *)
(* returns 0.                                                              *)
LEMMA FlushStep ==
    ASSUME StreamsInv, stream.open, NEW k, Now \in Calls(k), NEW f, f = fflush(Now),
           NEW q, q = LoseInput(Flushed(f.ret))
    PROVE  /\ f \in Calls(k) /\ f.st.open /\ q \in Programs
           /\ OutRight(Out(f), f.dv.out, TRUE, q) /\ OutRight(f.dv.out, f.dv.out, FALSE, q)
           /\ InRight(Inp(f), TRUE, q)
<1>1. /\ Now.st = stream /\ Now.dv = device /\ Sent = Out(Now) /\ program \in Programs
      /\ program.taken \in SUBSET Nat /\ program.flushed \in SUBSET Nat
  BY NowIs
<1>2. /\ f \in Calls(k) /\ f.ret \in {0, EOF}
      /\ Out(f) = Out(Now) /\ f.dv.in = Now.dv.in
      /\ SameFile(f.st, Now.st) /\ Unread(f.st) = <<>> /\ Keeps(Now, f)
      /\ f.ret = 0 => f.dv.out = Out(Now)
  BY FlushRight
<1>3. PICK p : p = Flushed(f.ret)
  OBVIOUS
<1>4. PICK F \in SUBSET Nat : F = IF f.ret = 0 THEN program.taken ELSE program.flushed
  BY <1>1
<1>5. /\ p \in Programs /\ p.tried = program.tried /\ p.taken = program.taken
      /\ p.flushed = F /\ p.got = program.got /\ p.came = program.came
      /\ p.inputLost = program.inputLost /\ p.outputLost = program.outputLost
  <2>1. p = [program EXCEPT !.flushed = F]
    BY <1>3, <1>4 DEF Flushed
  <2> QED BY <1>1, <2>1 DEF Programs
<1>6. /\ q \in Programs /\ q.tried = program.tried /\ q.taken = program.taken
      /\ q.flushed = F /\ q.got = program.got /\ q.came = program.came
      /\ q.outputLost = program.outputLost
      /\ ~q.inputLost => ~program.inputLost /\ Unread(stream) = <<>>
  <2>1. q = LoseInput(p)
    BY <1>3
  <2> QED BY <1>5, <2>1, LoseInputIs
<1>7. ASSUME ~q.outputLost
      PROVE  /\ UpTo(Out(f), q.tried) /\ UpTo(f.dv.out, q.tried)
             /\ \A c \in q.taken : In(c, Out(f))
             /\ \A c \in q.flushed : In(c, f.dv.out)
  <2>1. /\ UpTo(Out(f), q.tried)
        /\ \A c \in q.taken : In(c, Out(f))
        /\ \A c \in program.flushed : In(c, device.out)
    BY <1>1, <1>2, <1>6, <1>7 DEF StreamsInv, OutRight
  <2>2. UpTo(f.dv.out, q.tried)
    <3>1. PICK a \in Text, b \in Text : a = f.dv.out /\ b = Pending(f.st)
      BY <1>2, Ends, Parts
    <3>2. UpTo(a \o b, q.tried)
      BY <2>1, <3>1 DEF Out
    <3>3. UpTo(a, q.tried)
      BY <3>2, UpToPrefix
    <3> QED BY <3>1, <3>3
  <2>3. \A c \in q.flushed : In(c, f.dv.out)
    BY <1>1, <1>2, <1>4, <1>6, <2>1 DEF Keeps
  <2> QED BY <2>1, <2>2, <2>3
<1>8. InRight(Inp(f), TRUE, q)
  <2> SUFFICES ASSUME ~q.inputLost PROVE program.got \o Inp(f) = [i \in 1 .. program.came |-> i]
    BY <1>6 DEF InRight
  <2>1. Back(f.st) = Back(Now.st) /\ Unread(f.st) = Unread(Now.st) /\ f.dv.in = Now.dv.in
    BY <1>1, <1>2, <1>6 DEF SameFile, Back
  <2>2. Inp(f) = Inp(Now)
    BY <2>1 DEF Inp
  <2> QED BY <1>6, <2>2 DEF StreamsInv, InRight
<1>9. f.st.open
  BY <1>1, <1>2 DEF SameFile
<1> QED BY <1>2, <1>6, <1>7, <1>8, <1>9 DEF OutRight

(* fflush keeps the invariant.                                             *)
LEMMA FflushKeeps ==
    ASSUME StreamsInv, Fflush
    PROVE  StreamsInv'
<1>1. stream.open
  BY DEF Fflush, Usable
<1>2. PICK k : Now \in Calls(k)
  BY NowIs
<1>3. PICK f, q : f = fflush(Now) /\ q = LoseInput(Flushed(f.ret))
  OBVIOUS
<1>4. After(f, q)
  BY <1>3 DEF Fflush, Flushed
<1>5. /\ f \in Calls(k) /\ f.st.open /\ q \in Programs
      /\ OutRight(Out(f), f.dv.out, TRUE, q)
      /\ InRight(Inp(f), TRUE, q)
  BY <1>1, <1>2, <1>3, FlushStep
<1>6. InRight(Inp(f), f.st.open, q)
  BY <1>5 DEF InRight
<1> QED BY <1>4, <1>5, <1>6, AfterRight

(* fclose keeps the invariant: it flushes, and the file is closed whatever *)
(* the flush returned.                                                     *)
LEMMA FcloseKeeps ==
    ASSUME StreamsInv, Fclose
    PROVE  StreamsInv'
<1>1. stream.open
  BY DEF Fclose, Usable
<1>2. PICK k : Now \in Calls(k)
  BY NowIs
<1>3. PICK f, q : f = fflush(Now) /\ q = LoseInput(Flushed(f.ret))
  OBVIOUS
<1>4. PICK s : s = [f EXCEPT !.st.open = FALSE]
  OBVIOUS
<1>5. After(s, q)
  BY <1>3, <1>4 DEF Fclose, Flushed
<1>6. f \in Calls(k) /\ q \in Programs /\ OutRight(f.dv.out, f.dv.out, FALSE, q)
  BY <1>1, <1>2, <1>3, FlushStep
<1>7. s \in Calls(k) /\ s.dv = f.dv /\ ~s.st.open
  <2>1. /\ f.st \in Files(k) /\ f.dv \in Devices /\ f.ret \in Int /\ f.smash \in BOOLEAN
        /\ Sound(f.st)
    BY <1>6, Parts
  <2>2. PICK g : g = [f.st EXCEPT !.open = FALSE]
    OBVIOUS
  <2>3. s = [st |-> g, dv |-> f.dv, ret |-> f.ret, smash |-> f.smash]
    BY <1>4, <1>6, <2>2 DEF Calls
  <2>4. g \in Files(k) /\ ~g.open /\ Sound(g)
    <3>1. /\ g \in Files(k) /\ ~g.open /\ g.bufinput = f.st.bufinput /\ g.data = f.st.data
          /\ g.pos = f.st.pos /\ g.buffer = f.st.buffer /\ g.nobuf = f.st.nobuf
      BY <2>1, <2>2 DEF Files
    <3> QED BY <2>1, <3>1 DEF Sound
  <2>5. s.st = g /\ s.dv = f.dv
    BY <2>3
  <2> QED BY <2>1, <2>3, <2>4, <2>5 DEF Calls
<1>8. InRight(Inp(s), s.st.open, q)
  BY <1>7 DEF InRight
<1> QED BY <1>5, <1>6, <1>7, <1>8, AfterRight

(* The program after it has read got.                                      *)
GotMore(got) == [program EXCEPT !.got = @ \o got]

(* A call that reads, fgetc or fread, keeps the invariant.                 *)
LEMMA GotStep ==
    ASSUME StreamsInv, stream.open, NEW k, Now \in Calls(k), NEW got \in Text,
           NEW s \in Calls(k), Read(Now, got, s), NEW p, p = GotMore(got),
           After(s, LoseOutput(p))
    PROVE  StreamsInv'
<1>1. /\ Now.st = stream /\ Now.dv = device /\ Sent = Out(Now) /\ program \in Programs
      /\ program.got \in Text
  BY NowIs
<1>2. PICK g \in Text, e \in Text, i \in Text : g = program.got /\ e = g \o got /\ i = Inp(s)
  BY <1>1, Ends, Joined
<1>3. /\ p \in Programs /\ p.tried = program.tried /\ p.taken = program.taken
      /\ p.flushed = program.flushed /\ p.got = e /\ p.came = program.came
      /\ p.inputLost = program.inputLost /\ p.outputLost = program.outputLost
  <2>1. p = [program EXCEPT !.got = e]
    BY <1>2 DEF GotMore
  <2> QED BY <1>1, <2>1 DEF Programs
<1>4. PICK q : q = LoseOutput(p)
  OBVIOUS
<1>5. /\ q \in Programs /\ q.tried = program.tried /\ q.taken = program.taken
      /\ q.flushed = program.flushed /\ q.got = e /\ q.came = program.came
      /\ q.inputLost = program.inputLost
      /\ ~q.outputLost => ~program.outputLost /\ ~(Pending(stream) # <<>> /\ ~device.works)
  BY <1>3, <1>4, LoseOutputIs
<1>6. s.st.open
  BY <1>1 DEF Read
<1>7. ASSUME ~q.outputLost
      PROVE  /\ UpTo(Out(s), q.tried)
             /\ \A c \in q.taken : In(c, Out(s))
             /\ \A c \in q.flushed : In(c, s.dv.out)
  <2>1. Out(s) = Out(Now) /\ Keeps(Now, s)
    BY <1>1, <1>5, <1>7 DEF Read, Stuck
  <2>2. /\ UpTo(Out(Now), program.tried)
        /\ \A c \in program.taken : In(c, Out(Now))
        /\ \A c \in program.flushed : In(c, device.out)
    BY <1>1, <1>5, <1>7 DEF StreamsInv, OutRight
  <2> QED BY <1>1, <1>5, <2>1, <2>2 DEF Keeps
<1>8. InRight(Inp(s), s.st.open, q)
  <2> SUFFICES ASSUME ~q.inputLost PROVE e \o i = [j \in 1 .. program.came |-> j]
    BY <1>2, <1>5 DEF InRight
  <2>1. e \o i = g \o (got \o i)
    <3>1. (g \o got) \o i = g \o (got \o i)
      BY Joined
    <3> QED BY <1>2, <3>1
  <2>2. Inp(Now) = got \o i
    BY <1>2 DEF Read
  <2>3. g \o Inp(Now) = [j \in 1 .. program.came |-> j]
    BY <1>2, <1>5 DEF StreamsInv, InRight
  <2> QED BY <2>1, <2>2, <2>3
<1> QED BY <1>4, <1>5, <1>6, <1>7, <1>8, AfterRight DEF OutRight

(* fread keeps the invariant.                                              *)
LEMMA FreadKeeps ==
    ASSUME StreamsInv, NEW n \in Lengths, Fread(n)
    PROVE  StreamsInv'
<1>1. stream.open /\ n \in Nat
  BY StreamsAssumption DEF Fread, Usable
<1>2. PICK k : Now \in Calls(k)
  BY NowIs
<1>3. PICK r, s, got, p : /\ r = fread(Now, n) /\ s = r.s /\ got = r.got /\ p = GotMore(got)
  OBVIOUS
<1>4. s \in Calls(k) /\ got \in Text /\ Read(Now, got, s)
  BY <1>1, <1>2, <1>3, FreadRight
<1>5. After(s, LoseOutput(p))
  BY <1>3 DEF Fread, GotMore
<1> QED BY <1>1, <1>2, <1>3, <1>4, <1>5, GotStep

(* fgetc keeps the invariant, at the end of the file too.                  *)
LEMMA FgetcKeeps ==
    ASSUME StreamsInv, Fgetc
    PROVE  StreamsInv'
<1>1. stream.open /\ program.got \in Text
  BY NowIs DEF Fgetc, Usable
<1>2. PICK k : Now \in Calls(k)
  BY NowIs
<1>3. PICK s : s = fgetc(Now)
  OBVIOUS
<1>4. s \in Calls(k) /\ Get(Now, s)
  BY <1>2, <1>3, GetRight
<1>5. PICK got \in Text : got = IF s.ret = EOF THEN <<>> ELSE <<s.ret>>
  <2>1. s.ret # EOF => <<s.ret>> \in Text
    <3>1. s.ret # EOF => s.ret \in Nat
      BY <1>4 DEF Get
    <3> QED BY <3>1 DEF Text
  <2> QED BY <2>1, Joined
<1>6. Read(Now, got, s)
  <2>1. Inp(Now) = got \o Inp(s)
    <3>1. <<>> \o Inp(s) = Inp(s)
      BY <1>4, Ends, Joined
    <3> QED BY <1>4, <1>5, <3>1 DEF Get
  <2> QED BY <1>4, <2>1 DEF Get, Read
<1>7. PICK p : p = GotMore(got)
  OBVIOUS
<1>8. p = [program EXCEPT !.got = IF s.ret = EOF THEN @ ELSE Append(@, s.ret)]
  <2>1. program.got \o got = IF s.ret = EOF THEN program.got ELSE Append(program.got, s.ret)
    <3>1. CASE s.ret = EOF
      BY <1>1, <1>5, <3>1, Joined
    <3>2. CASE s.ret # EOF
      <4>1. s.ret \in Nat
        BY <1>4, <3>2 DEF Get
      <4>2. Append(program.got, s.ret) = program.got \o <<s.ret>>
        BY <1>1, <4>1, AppendIsConcat DEF Text
      <4> QED BY <1>5, <3>2, <4>2
    <3> QED BY <3>1, <3>2
  <2> QED BY <1>7, <2>1 DEF GotMore
<1>9. After(s, LoseOutput(p))
  BY <1>3, <1>8 DEF Fgetc
<1> QED BY <1>1, <1>2, <1>4, <1>6, <1>7, <1>9, GotStep

(* ungetc keeps the invariant: the character given back is read again      *)
(* first.                                                                  *)
LEMMA UngetcKeeps ==
    ASSUME StreamsInv, Ungetc
    PROVE  StreamsInv'
<1>1. stream.open /\ program.got \in Text /\ program.got # <<>> /\ program \in Programs
  BY NowIs DEF Ungetc, Usable
<1>2. PICK k : Now \in Calls(k)
  BY NowIs
<1>3. PICK l \in Nat : l = Len(program.got) /\ l \in 1 .. Len(program.got)
  BY <1>1, EmptySeq DEF Text
<1>4. PICK c \in Nat : c = program.got[l]
  BY <1>1, <1>3 DEF Text
<1>5. PICK g \in Text : g = SubSeq(program.got, 1, l - 1)
  <2>1. SubSeq(program.got, 1, l - 1) \in Text
    BY <1>1, <1>3, Slices
  <2> QED BY <2>1
<1>6. PICK s, p : s = ungetc(Now, c) /\ p = [program EXCEPT !.got = g]
  OBVIOUS
<1>7. s.ret # EOF /\ After(s, p)
  BY <1>3, <1>4, <1>5, <1>6 DEF Ungetc
<1>8. /\ s \in Calls(k) /\ s.dv = Now.dv /\ s.st.open = Now.st.open
      /\ Inp(s) = <<c>> \o Inp(Now)
      /\ Out(s) = Out(Now)
  BY <1>2, <1>6, <1>7, UngetRight
<1>9. /\ p \in Programs /\ p.tried = program.tried /\ p.taken = program.taken
      /\ p.flushed = program.flushed /\ p.got = g /\ p.came = program.came
      /\ p.inputLost = program.inputLost /\ p.outputLost = program.outputLost
  BY <1>1, <1>6 DEF Programs
<1>10. s.st.open /\ Sent = Out(Now) /\ s.dv = device
  BY <1>1, <1>8, NowIs
<1>11. OutRight(Out(s), s.dv.out, TRUE, p)
  BY <1>1, <1>8, <1>9, <1>10 DEF StreamsInv, OutRight
<1>12. InRight(Inp(s), s.st.open, p)
  <2> SUFFICES ASSUME ~p.inputLost PROVE g \o Inp(s) = [i \in 1 .. program.came |-> i]
    BY <1>9 DEF InRight
  <2>1. PICK w \in Text : w = <<c>>
    <3>1. <<c>> \in Text
      BY DEF Text
    <3> QED BY <3>1
  <2>2. program.got = g \o w
    <3>1. SubSeq(program.got, 1, l) = SubSeq(program.got, 1, l - 1) \o <<program.got[l]>>
      <4>1. 1 \in 1 .. Len(program.got) /\ l \in 1 .. Len(program.got)
        BY <1>3
      <4> QED BY <1>1, <4>1, SubSeqRecursiveSecond DEF Text
    <3>2. SubSeq(program.got, 1, Len(program.got)) = program.got
      BY <1>1, SubSeqFull DEF Text
    <3> QED BY <1>3, <1>4, <1>5, <2>1, <3>1, <3>2
  <2>3. PICK e \in Text : e = Inp(Now)
    BY <1>2, Ends
  <2>4. (g \o w) \o e = g \o (w \o e)
    BY Joined
  <2>5. program.got \o e = [i \in 1 .. program.came |-> i]
    BY <1>1, <1>9, <2>3 DEF StreamsInv, InRight
  <2> QED BY <1>8, <2>1, <2>2, <2>3, <2>4, <2>5
<1> QED BY <1>7, <1>8, <1>9, <1>10, <1>11, <1>12, AfterRight

(* fseek keeps the invariant: input read ahead counts as thrown away.      *)
LEMMA FseekKeeps ==
    ASSUME StreamsInv, Fseek
    PROVE  StreamsInv'
<1>1. /\ stream.open /\ Now.st = stream /\ Now.dv = device /\ Sent = Out(Now)
      /\ program \in Programs
  BY NowIs DEF Fseek, Usable
<1>2. PICK k : Now \in Calls(k)
  BY NowIs
<1>3. PICK f : f = fflush(Now)
  OBVIOUS
<1>4. /\ f \in Calls(k) /\ Out(f) = Out(Now) /\ f.dv.in = Now.dv.in
      /\ SameFile(f.st, Now.st) /\ Keeps(Now, f)
      /\ f.ret = 0 => f.dv.out = Out(Now)
      /\ f.ret # 0 => Pending(Now.st) # <<>> /\ ~Now.dv.works
  BY <1>2, <1>3, FlushRight
<1>5. /\ f.st \in Files(k) /\ f.dv \in Devices /\ f.ret \in Int /\ f.smash \in BOOLEAN
      /\ f.st.buffer \in Text /\ f.dv.out \in Text
  BY <1>4, Parts
<1>6. PICK g : g = [f.st EXCEPT !.pos = 0, !.data = 0, !.eof = FALSE, !.error = FALSE,
                                !.ungotten = FALSE]
  OBVIOUS
<1>7. PICK s : s = [st |-> g, dv |-> f.dv, ret |-> f.ret, smash |-> f.smash]
  OBVIOUS
<1>8. s = [f EXCEPT !.st.pos = 0, !.st.data = 0, !.st.eof = FALSE,
                    !.st.error = FALSE, !.st.ungotten = FALSE]
  <2>1. PICK h \in Calls(k) : h = f
    BY <1>4
  <2>2. PICK e : e = [h.st EXCEPT !.pos = 0, !.data = 0, !.eof = FALSE, !.error = FALSE,
                                  !.ungotten = FALSE]
    OBVIOUS
  <2>3. PICK t : t = [h EXCEPT !.st.pos = 0, !.st.data = 0, !.st.eof = FALSE,
                               !.st.error = FALSE, !.st.ungotten = FALSE]
    OBVIOUS
  <2>4. t = [st |-> e, dv |-> h.dv, ret |-> h.ret, smash |-> h.smash]
    BY <2>2, <2>3 DEF Calls
  <2>5. s = t
    BY <1>6, <1>7, <2>1, <2>2, <2>4
  <2> QED BY <2>1, <2>3, <2>5
<1>9. /\ g \in Files(k) /\ g.pos = 0 /\ g.data = 0 /\ g.buffer = f.st.buffer
      /\ g.open = f.st.open /\ ~g.ungotten
  BY <1>5, <1>6 DEF Files
<1>10. Sound(g) /\ Pending(g) = <<>> /\ Unread(g) = <<>> /\ Back(g) = <<>>
  <2>1. SubSeq(g.buffer, 1, 0) = <<>> /\ SubSeq(g.buffer, 0 + 1, 0) = <<>>
    BY SubSeqEmpty
  <2>2. Len(g.buffer) \in Nat
    BY <1>5, <1>9 DEF Text
  <2> QED BY <1>9, <2>1, <2>2 DEF Sound, Pending, Unread, Back
<1>11. s \in Calls(k) /\ s.st = g /\ s.dv = f.dv
  <2>1. s.st = g /\ s.dv = f.dv
    BY <1>7
  <2> QED BY <1>5, <1>7, <1>9, <1>10, <2>1 DEF Calls
<1>12. PICK b \in BOOLEAN : b = (program.inputLost \/ stream.ungotten)
  OBVIOUS
<1>13. PICK p, q, r : p = [program EXCEPT !.inputLost = b] /\ q = LoseInput(p) /\ r = LoseOutput(q)
  OBVIOUS
<1>14. After(s, r)
  BY <1>3, <1>8, <1>12, <1>13 DEF Fseek
<1>15. /\ p \in Programs /\ p.tried = program.tried /\ p.taken = program.taken
       /\ p.flushed = program.flushed /\ p.got = program.got /\ p.came = program.came
       /\ p.outputLost = program.outputLost
       /\ ~p.inputLost => ~program.inputLost /\ ~stream.ungotten
  BY <1>1, <1>12, <1>13 DEF Programs
<1>16. /\ q \in Programs /\ q.tried = p.tried /\ q.taken = p.taken
       /\ q.flushed = p.flushed /\ q.got = p.got /\ q.came = p.came
       /\ q.outputLost = p.outputLost
       /\ ~q.inputLost => ~p.inputLost /\ Unread(stream) = <<>>
  BY <1>13, <1>15, LoseInputIs
<1>17. /\ r \in Programs /\ r.tried = q.tried /\ r.taken = q.taken
       /\ r.flushed = q.flushed /\ r.got = q.got /\ r.came = q.came
       /\ r.inputLost = q.inputLost
       /\ ~r.outputLost => ~q.outputLost /\ ~(Pending(stream) # <<>> /\ ~device.works)
  BY <1>13, <1>16, LoseOutputIs
<1>18. s.st.open
  BY <1>1, <1>4, <1>9, <1>11 DEF SameFile
<1>19. OutRight(Out(s), s.dv.out, TRUE, r)
  <2> SUFFICES ASSUME ~r.outputLost
               PROVE  /\ UpTo(Out(s), r.tried)
                      /\ \A c \in r.taken : In(c, Out(s))
                      /\ \A c \in r.flushed : In(c, s.dv.out)
    BY DEF OutRight
  <2>1. f.dv.out = Out(Now)
    BY <1>1, <1>4, <1>17
  <2>2. Out(s) = Out(Now)
    BY <1>5, <1>10, <1>11, <2>1, Joined DEF Out
  <2> QED BY <1>1, <1>4, <1>11, <1>15, <1>16, <1>17, <2>2 DEF StreamsInv, OutRight, Keeps
<1>20. InRight(Inp(s), s.st.open, r)
  <2> SUFFICES ASSUME ~r.inputLost PROVE program.got \o Inp(s) = [i \in 1 .. program.came |-> i]
    BY <1>15, <1>16, <1>17 DEF InRight
  <2>1. Back(Now.st) = <<>> /\ Unread(Now.st) = <<>>
    BY <1>1, <1>15, <1>16, <1>17 DEF Back
  <2>2. Inp(s) = Inp(Now)
    BY <1>4, <1>10, <1>11, <2>1 DEF Inp
  <2> QED BY <1>1, <1>15, <1>16, <1>17, <2>2 DEF StreamsInv, InRight
<1> QED BY <1>11, <1>14, <1>17, <1>18, <1>19, <1>20, AfterRight

(* fpurge keeps the invariant: what it throws away counts as lost.         *)
LEMMA FpurgeKeeps ==
    ASSUME StreamsInv, Fpurge
    PROVE  StreamsInv'
<1>1. /\ stream.open /\ Now.st = stream /\ Now.dv = device /\ Sent = Out(Now)
      /\ program \in Programs
  BY NowIs DEF Fpurge, Usable
<1>2. PICK k : Now \in Calls(k)
  BY NowIs
<1>3. /\ stream \in Files(k) /\ device \in Devices /\ Sound(stream)
      /\ stream.data \in Nat /\ stream.buffer \in Text
  BY <1>1, <1>2, Parts
<1>4. PICK n \in Nat : n = IF stream.bufinput THEN stream.data ELSE 0
  BY <1>3
<1>5. PICK f : f = [stream EXCEPT !.ungotten = FALSE, !.pos = n]
  OBVIOUS
<1>6. PICK s : s = [st |-> f, dv |-> device, ret |-> 0, smash |-> FALSE]
  OBVIOUS
<1>7. /\ f \in Files(k) /\ f.pos = n /\ ~f.ungotten /\ f.data = stream.data
      /\ f.bufinput = stream.bufinput /\ f.buffer = stream.buffer
      /\ f.open = stream.open /\ f.nobuf = stream.nobuf
  BY <1>3, <1>5 DEF Files
<1>8. /\ Sound(f) /\ Pending(f) = <<>> /\ Unread(f) = <<>> /\ Back(f) = <<>>
  <2>1. SubSeq(f.buffer, 1, 0) = <<>>
    BY SubSeqEmpty
  <2>2. SubSeq(f.buffer, stream.data + 1, stream.data) = <<>>
    BY <1>3, SubSeqEmpty
  <2>3. Len(f.buffer) \in Nat
    BY <1>3, <1>7 DEF Text
  <2> QED BY <1>3, <1>4, <1>7, <2>1, <2>2, <2>3 DEF Sound, Pending, Unread, Back
<1>9. s \in Calls(k) /\ s.st = f /\ s.dv = device
  <2>1. s.st = f /\ s.dv = device
    BY <1>6
  <2> QED BY <1>3, <1>6, <1>7, <1>8, <2>1 DEF Calls
<1>10. stream' = s.st /\ device' = s.dv
  BY <1>4, <1>5, <1>9 DEF Fpurge
<1>11. PICK a \in BOOLEAN, b \in BOOLEAN :
         /\ a = (program.inputLost \/ Unread(stream) # <<>> \/ stream.ungotten)
         /\ b = (program.outputLost \/ Pending(stream) # <<>>)
  OBVIOUS
<1>12. PICK p : p = [program EXCEPT !.inputLost = a, !.outputLost = b]
  OBVIOUS
<1>13. program' = p
  BY <1>11, <1>12 DEF Fpurge
<1>14. /\ p \in Programs /\ p.tried = program.tried /\ p.taken = program.taken
       /\ p.flushed = program.flushed /\ p.got = program.got /\ p.came = program.came
       /\ ~p.inputLost => ~program.inputLost /\ Unread(stream) = <<>> /\ ~stream.ungotten
       /\ ~p.outputLost => ~program.outputLost /\ Pending(stream) = <<>>
  BY <1>1, <1>11, <1>12 DEF Programs
<1>15. OutRight(Out(s), s.dv.out, TRUE, p)
  <2> SUFFICES ASSUME ~p.outputLost
               PROVE  /\ UpTo(Out(s), p.tried)
                      /\ \A c \in p.taken : In(c, Out(s))
                      /\ \A c \in p.flushed : In(c, s.dv.out)
    BY DEF OutRight
  <2>1. Out(s) = Out(Now)
    BY <1>1, <1>8, <1>9, <1>14 DEF Out
  <2> QED BY <1>1, <1>9, <1>14, <2>1 DEF StreamsInv, OutRight
<1>16. InRight(Inp(s), s.st.open, p)
  <2> SUFFICES ASSUME ~p.inputLost PROVE program.got \o Inp(s) = [i \in 1 .. program.came |-> i]
    BY <1>14 DEF InRight
  <2>1. Back(Now.st) = <<>> /\ Unread(Now.st) = <<>>
    BY <1>1, <1>14 DEF Back
  <2>2. Inp(s) = Inp(Now)
    BY <1>1, <1>8, <1>9, <2>1 DEF Inp
  <2> QED BY <1>1, <1>14, <2>2 DEF StreamsInv, InRight
<1>17. s.st.open
  BY <1>1, <1>7, <1>9
<1> QED BY <1>9, <1>10, <1>13, <1>14, <1>15, <1>16, <1>17, StateRight

(* setvbuf keeps the invariant: another buffer, after a flush.             *)
LEMMA SetvbufKeeps ==
    ASSUME StreamsInv, NEW size \in Sizes, NEW flags \in {"_IOFBF", "_IOLBF", "_IONBF"},
           Setvbuf(size, flags)
    PROVE  StreamsInv'
<1>1. /\ stream.open /\ Now.st = stream /\ Now.dv = device /\ Sent = Out(Now)
      /\ program \in Programs /\ program.came \in Nat /\ ~stream.bufinput /\ size \in Nat
      /\ program' = program /\ device' = device
  BY NowIs, StreamsAssumption DEF Setvbuf, Usable
<1>2. PICK k : Now \in Calls(k)
  BY NowIs
<1>3. /\ stream \in Files(k) /\ device \in Devices /\ stream.buffer \in Text
      /\ stream.size \in Nat /\ device.out \in Text
  BY <1>1, <1>2, Parts
<1>4. PICK z \in Nat, u \in BOOLEAN, l \in BOOLEAN :
        /\ z = IF size = 0 THEN stream.size ELSE size
        /\ u = (flags = "_IONBF") /\ l = (flags = "_IOLBF")
  BY <1>1, <1>3
<1>5. PICK f : f = [stream EXCEPT !.size = z, !.pos = 0, !.data = 0, !.nobuf = u, !.linewise = l]
  OBVIOUS
<1>6. stream' = f
  BY <1>4, <1>5 DEF Setvbuf
<1>7. PICK s : s = [st |-> f, dv |-> device, ret |-> 0, smash |-> FALSE]
  OBVIOUS
<1>8. /\ f \in Files(k) /\ f.pos = 0 /\ f.data = 0
      /\ f.bufinput = stream.bufinput /\ f.buffer = stream.buffer
      /\ f.open = stream.open /\ f.ungotten = stream.ungotten /\ f.unget = stream.unget
  BY <1>3, <1>5 DEF Files
<1>9. Sound(f) /\ Pending(f) = <<>> /\ Unread(f) = <<>> /\ Back(f) = Back(stream)
  <2>1. SubSeq(f.buffer, 1, 0) = <<>> /\ Len(f.buffer) \in Nat
    BY <1>3, <1>8, SubSeqEmpty DEF Text
  <2> QED BY <1>1, <1>8, <2>1 DEF Sound, Pending, Unread, Back
<1>10. s \in Calls(k) /\ s.st = f /\ s.dv = device
  <2>1. s.st = f /\ s.dv = device
    BY <1>7
  <2> QED BY <1>3, <1>7, <1>8, <1>9, <2>1 DEF Calls
<1>11. program.taken = {} /\ program.flushed = {}
  <2>1. program = [NewProgram EXCEPT !.came = program.came]
    BY DEF Setvbuf
  <2> QED BY <2>1 DEF NewProgram
<1>12. OutRight(Out(s), s.dv.out, TRUE, program)
  <2> SUFFICES ASSUME ~program.outputLost PROVE UpTo(Out(s), program.tried)
    BY <1>11 DEF OutRight
  <2>1. PICK a \in Text, b \in Text : a = device.out /\ b = Pending(stream)
    BY <1>1, <1>2, <1>3, Ends
  <2>2. UpTo(a \o b, program.tried)
    BY <1>1, <2>1 DEF StreamsInv, OutRight, Out
  <2>3. UpTo(a, program.tried)
    BY <2>2, UpToPrefix
  <2>4. Out(s) = a
    BY <1>3, <1>9, <1>10, <2>1, Joined DEF Out
  <2> QED BY <2>3, <2>4
<1>13. InRight(Inp(s), s.st.open, program)
  <2>1. Unread(Now.st) = <<>>
    BY <1>1 DEF Unread
  <2>2. Inp(s) = Inp(Now)
    BY <1>1, <1>9, <1>10, <2>1 DEF Inp
  <2> QED BY <1>8, <1>10, <2>2 DEF StreamsInv, InRight
<1>14. s.st.open
  BY <1>1, <1>8, <1>10
<1> QED BY <1>1, <1>6, <1>10, <1>12, <1>13, <1>14, StateRight

(* clearerr keeps the invariant.                                           *)
LEMMA ClearerrKeeps ==
    ASSUME StreamsInv, Clearerr
    PROVE  StreamsInv'
<1>1. /\ stream.open /\ Now.st = stream /\ Now.dv = device /\ Sent = Out(Now)
      /\ program' = program /\ device' = device /\ program \in Programs
  BY NowIs DEF Clearerr, Usable
<1>2. PICK k : Now \in Calls(k)
  BY NowIs
<1>3. stream \in Files(k) /\ device \in Devices /\ Sound(stream)
  BY <1>1, <1>2, Parts
<1>4. PICK f : f = [stream EXCEPT !.eof = FALSE, !.error = FALSE]
  OBVIOUS
<1>5. PICK s : s = [st |-> f, dv |-> device, ret |-> 0, smash |-> FALSE]
  OBVIOUS
<1>6. /\ f \in Files(k) /\ SameFile(f, stream) /\ f.bufinput = stream.bufinput
      /\ f.pos = stream.pos /\ f.data = stream.data /\ f.buffer = stream.buffer
  BY <1>3, <1>4 DEF Files, SameFile
<1>7. Sound(f)
  BY <1>3, <1>6 DEF Sound, SameFile
<1>8. s \in Calls(k) /\ s.st = f /\ s.dv = device
  <2>1. s.st = f /\ s.dv = device
    BY <1>5
  <2> QED BY <1>3, <1>5, <1>6, <1>7, <2>1 DEF Calls
<1>9. Out(s) = Out(Now) /\ Inp(s) = Inp(Now) /\ s.st.open /\ stream' = s.st
  <2>1. Unmoved(Now, s)
    BY <1>1, <1>6, <1>8 DEF Unmoved
  <2>2. stream' = f
    BY <1>4 DEF Clearerr
  <2> QED BY <1>1, <1>6, <1>8, <2>1, <2>2, UnmovedSame DEF SameFile
<1>10. OutRight(Out(s), s.dv.out, TRUE, program')
  BY <1>1, <1>8, <1>9 DEF StreamsInv, OutRight
<1>11. InRight(Inp(s), s.st.open, program')
  BY <1>1, <1>9 DEF StreamsInv, InRight
<1> QED BY <1>1, <1>8, <1>9, <1>10, <1>11, StateRight

(* One more of the numbers from 1.                                         *)
LEMMA CountedOn ==
    ASSUME NEW n \in Nat
    PROVE  [i \in 1 .. n |-> i] \o <<n + 1>> = [i \in 1 .. n + 1 |-> i]
<1>1. [i \in 1 .. n |-> i] \in Seq(Nat) /\ Len([i \in 1 .. n |-> i]) = n
  OBVIOUS
<1>2. [i \in 1 .. n + 1 |-> i] \in Seq(Nat) /\ Len([i \in 1 .. n + 1 |-> i]) = n + 1
  OBVIOUS
<1>3. <<n + 1>> \in Seq(Nat) /\ Len(<<n + 1>>) = 1
  OBVIOUS
<1> QED BY <1>1, <1>2, <1>3, SMT

(* The device, on which characters come in and which fails and recovers,   *)
(* keeps the invariant: what comes in is the next number.                  *)
LEMMA DeviceKeeps ==
    ASSUME StreamsInv, Device
    PROVE  StreamsInv'
<1>1. /\ Now.st = stream /\ Now.dv = device
      /\ stream.open => Sent = Out(Now)
      /\ program \in Programs /\ program.came \in Nat /\ program.got \in Text
      /\ stream' = stream
  BY NowIs DEF Device
<1>2. PICK k : Now \in Calls(k)
  BY NowIs
<1>3. /\ stream \in Files(k) /\ device \in Devices /\ Sound(stream)
      /\ device.in \in Text /\ device.out \in Text /\ device.works \in BOOLEAN
  BY <1>1, <1>2, Parts
<1>4. ~stream.open => Sent = device.out
  BY <1>3, Joined DEF Sent
<1>5. ASSUME NEW d \in Devices, device' = d, d.out = device.out,
             program' \in Programs, program'.tried = program.tried,
             program'.taken = program.taken, program'.flushed = program.flushed,
             program'.outputLost = program.outputLost,
             InRight((Back(stream) \o Unread(stream)) \o d.in, stream.open, program')
      PROVE  StreamsInv'
  <2>1. PICK s : s = [st |-> stream, dv |-> d, ret |-> 0, smash |-> FALSE]
    OBVIOUS
  <2>2. s \in Calls(k) /\ s.st = stream /\ s.dv = d
    <3>1. s.st = stream /\ s.dv = d
      BY <2>1
    <3> QED BY <1>3, <2>1, <3>1 DEF Calls
  <2>3. stream.open => OutRight(Out(s), s.dv.out, TRUE, program')
    <3>1. Out(s) = Out(Now)
      BY <1>1, <1>5, <2>2 DEF Out
    <3> QED BY <1>1, <1>5, <2>2, <3>1 DEF StreamsInv, OutRight
  <2>4. ~stream.open => OutRight(s.dv.out, s.dv.out, FALSE, program')
    BY <1>4, <1>5, <2>2 DEF StreamsInv, OutRight
  <2>5. InRight(Inp(s), s.st.open, program')
    BY <1>5, <2>2 DEF Inp
  <2> QED BY <1>1, <1>5, <2>2, <2>3, <2>4, <2>5, StateRight
<1>6. PICK x \in Text, i \in Text, g \in Text :
        x = Back(stream) \o Unread(stream) /\ i = device.in /\ g = program.got
  <2>1. Back(stream) \o Unread(stream) \in Text
    BY <1>1, <1>2, Ends, Joined
  <2> QED BY <1>1, <1>3, <2>1
<1>7. InRight(x \o i, stream.open, program)
  BY <1>1, <1>6 DEF StreamsInv, Inp
<1>8. CASE /\ device' = [device EXCEPT !.in = Append(@, program.came + 1)]
           /\ program' = [program EXCEPT !.came = @ + 1]
  <2>1. PICK m \in Nat : m = program.came + 1
    BY <1>1
  <2>2. PICK w \in Text : w = <<m>>
    <3>1. <<m>> \in Text
      BY DEF Text
    <3> QED BY <3>1
  <2>3. PICK e \in Text : e = Append(device.in, program.came + 1) /\ e = i \o w
    <3>1. Append(i, m) = i \o <<m>>
      BY AppendIsConcat DEF Text
    <3>2. i \o w \in Text
      BY Joined
    <3> QED BY <1>6, <2>1, <2>2, <3>1, <3>2
  <2>4. device' = [device EXCEPT !.in = e] /\ program' = [program EXCEPT !.came = m]
    BY <1>8, <2>1, <2>3
  <2>5. device' \in Devices /\ device'.out = device.out /\ device'.in = e
    BY <1>3, <2>4 DEF Devices
  <2>6. /\ program' \in Programs /\ program'.tried = program.tried
        /\ program'.taken = program.taken /\ program'.flushed = program.flushed
        /\ program'.outputLost = program.outputLost /\ program'.inputLost = program.inputLost
        /\ program'.got = program.got /\ program'.came = m
    BY <1>1, <2>4 DEF Programs
  <2>7. InRight(x \o e, stream.open, program')
    <3> SUFFICES ASSUME stream.open, ~program'.inputLost PROVE g \o (x \o e) = [j \in 1 .. m |-> j]
      BY <1>6, <2>6 DEF InRight
    <3>1. g \o (x \o i) = [j \in 1 .. program.came |-> j]
      BY <1>6, <1>7, <2>6 DEF InRight
    <3>2. g \o (x \o (i \o w)) = (g \o (x \o i)) \o w
      <4>1. x \o (i \o w) = (x \o i) \o w /\ x \o i \in Text
        BY Joined
      <4>2. g \o ((x \o i) \o w) = (g \o (x \o i)) \o w
        BY <4>1, Joined
      <4> QED BY <4>1, <4>2
    <3>3. [j \in 1 .. program.came |-> j] \o <<program.came + 1>> =
            [j \in 1 .. program.came + 1 |-> j]
      BY <1>1, CountedOn
    <3> QED BY <2>1, <2>2, <2>3, <3>1, <3>2, <3>3
  <2>8. PICK d \in Devices : d = device'
    BY <2>5
  <2> QED BY <1>5, <1>6, <2>5, <2>6, <2>7, <2>8
<1>9. CASE device' = [device EXCEPT !.works = ~@] /\ program' = program
  <2>1. PICK o \in BOOLEAN : o = ~device.works
    OBVIOUS
  <2>2. PICK d : d = [device EXCEPT !.works = o]
    OBVIOUS
  <2>3. d \in Devices /\ d.out = device.out /\ d.in = device.in
    BY <1>3, <2>2 DEF Devices
  <2>4. device' = d
    BY <1>9, <2>1, <2>2
  <2> QED BY <1>1, <1>5, <1>6, <1>7, <1>9, <2>3, <2>4
<1> QED BY <1>8, <1>9 DEF Device

(* fopen leaves a stream with nothing written, nothing to read and nothing *)
(* lost.                                                                   *)
LEMMA InitRight ==
    ASSUME Init
    PROVE  StreamsInv
<1>1. PICK mode \in Modes : stream = init_file(mode)
  BY DEF Init
<1>2. PICK k : k = parse_mode(mode)
  OBVIOUS
<1>3. stream = [can |-> k, error |-> FALSE, eof |-> FALSE,
                linewise |-> FALSE, nobuf |-> FALSE, bufinput |-> FALSE,
                buffer |-> <<>>, pos |-> 0, size |-> BUFSIZE, data |-> 0,
                ungotten |-> FALSE, unget |-> 0, open |-> TRUE]
  BY <1>1, <1>2 DEF init_file
<1>4. device = [works |-> TRUE, in |-> <<>>, out |-> <<>>] /\ program = NewProgram
  BY DEF Init
<1>5. /\ stream \in Files(k) /\ ~stream.bufinput /\ stream.data = 0 /\ stream.pos = 0
      /\ stream.buffer = <<>> /\ ~stream.nobuf /\ ~stream.ungotten /\ stream.open
  BY <1>3, Joined, StreamsAssumption DEF Files
<1>6. device \in Devices /\ device.in = <<>> /\ device.out = <<>>
  BY <1>4, Joined DEF Devices
<1>7. /\ program \in Programs /\ program.taken = {} /\ program.flushed = {}
      /\ program.got = <<>> /\ program.came = 0
  BY <1>4, Joined DEF NewProgram, Programs
<1>8. Now \in Calls(k) /\ Now.st = stream /\ Now.dv = device
  <2>1. Now = [st |-> stream, dv |-> device, ret |-> 0, smash |-> FALSE]
    BY DEF Now
  <2>2. Now.st = stream /\ Now.dv = device
    BY <2>1
  <2>3. Sound(stream)
    BY <1>5 DEF Sound
  <2> QED BY <1>5, <1>6, <2>1, <2>2, <2>3 DEF Calls
<1>9. <<>> \o <<>> = <<>>
  BY Joined
<1>10. Pending(stream) = <<>> /\ Unread(stream) = <<>> /\ Back(stream) = <<>>
  BY <1>5, SubSeqEmpty DEF Pending, Unread, Back
<1>11. Sent = <<>> /\ Inp(Now) = <<>>
  BY <1>6, <1>8, <1>9, <1>10 DEF Sent, Inp
<1>12. OutRight(Sent, device.out, stream.open, program)
  BY <1>7, <1>11 DEF OutRight, UpTo
<1>13. InRight(Inp(Now), stream.open, program)
  <2>1. [i \in 1 .. 0 |-> i] = <<>>
    OBVIOUS
  <2> QED BY <1>7, <1>9, <1>11, <2>1 DEF InRight
<1> QED BY <1>7, <1>8, <1>12, <1>13 DEF StreamsInv

(* For every size of buffer, mode of fopen and sequence of calls, whatever *)
(* fails on the device: between two calls of stdio (fputc, fwrite, fgetc,  *)
(* fread, ungetc, fflush, fpurge, fseek, setvbuf, clearerr, fclose) the    *)
(* invariant of the streams holds.                                         *)
THEOREM StreamsInvariant == Spec => []StreamsInv
<1>1. Init => StreamsInv
  BY InitRight
<1>2. StreamsInv /\ [Next]_vars => StreamsInv'
  <2> SUFFICES ASSUME StreamsInv, [Next]_vars PROVE StreamsInv'
    OBVIOUS
  <2>1. ASSUME NEW newline \in BOOLEAN, Fputc(newline) PROVE StreamsInv'
    BY <2>1, FputcKeeps
  <2>2. ASSUME NEW n \in Lengths, Fwrite(n) PROVE StreamsInv'
    BY <2>2, FwriteKeeps
  <2>3. ASSUME NEW n \in Lengths, Fread(n) PROVE StreamsInv'
    BY <2>3, FreadKeeps
  <2>4. CASE Fflush
    BY <2>4, FflushKeeps
  <2>5. CASE Fgetc
    BY <2>5, FgetcKeeps
  <2>6. CASE Ungetc
    BY <2>6, UngetcKeeps
  <2>7. CASE Fpurge
    BY <2>7, FpurgeKeeps
  <2>8. CASE Fseek
    BY <2>8, FseekKeeps
  <2>9. CASE Clearerr
    BY <2>9, ClearerrKeeps
  <2>10. CASE Fclose
    BY <2>10, FcloseKeeps
  <2>11. ASSUME NEW size \in Sizes, NEW flags \in {"_IOFBF", "_IOLBF", "_IONBF"},
                Setvbuf(size, flags)
         PROVE  StreamsInv'
    BY <2>11, SetvbufKeeps
  <2>12. CASE Device
    BY <2>12, DeviceKeeps
  <2>13. CASE UNCHANGED vars
    BY <2>13 DEF vars, StreamsInv, OutRight, InRight, UpTo, Now, Sent, Inp, Back, Pending,
                 Unread, In
  <2> QED BY <2>1, <2>2, <2>3, <2>4, <2>5, <2>6, <2>7, <2>8, <2>9, <2>10, <2>11, <2>12, <2>13
          DEF Next
<1> QED BY <1>1, <1>2, PTL DEF Spec

(* What a program writes (fputc, fwrite) reaches the file in the order it  *)
(* was written in, none twice; what it was told is written is in the file  *)
(* or in the buffer, and what it was told is flushed (fflush) is in the    *)
(* file, unless output was thrown away or the device failed.               *)
THEOREM OutputInOrderAlways == Spec => []OutputInOrder
<1>1. StreamsInv => OutputInOrder
  BY InvImplies
<1> QED BY <1>1, StreamsInvariant, PTL

(* What a program reads (fgetc, fread, ungetc), with what was given back,  *)
(* what is in the buffer and what is on the device, is what came in:       *)
(* nothing is lost, doubled or read out of order unless the program throws *)
(* input away.                                                             *)
THEOREM InputInOrderAlways == Spec => []InputInOrder
<1>1. StreamsInv => InputInOrder
  BY InvImplies
<1> QED BY <1>1, StreamsInvariant, PTL
-----------------------------------------------------------------------------
(* Division.                                                               *)

W == W_TYPE_SIZE

-----------------------------------------------------------------------------
(* There are twice as many numbers of k bits as of k - 1: those without    *)
(* the bit k, and those with it.                                           *)
LEMMA Doubled ==
    ASSUME NEW k \in Nat, k > 0, IsFiniteSet(SUBSET (1 .. k - 1))
    PROVE  IsFiniteSet(SUBSET (1 .. k)) /\ Pow2(k) = 2 * Pow2(k - 1)
<1> DEFINE S == SUBSET (1 .. k - 1)
           T == {s \in SUBSET (1 .. k) : k \in s}
           f == [s \in S |-> s \cup {k}]
<1>1. S \cup T = SUBSET (1 .. k) /\ S \cap T = {}
  OBVIOUS
<1>2. f \in Bijection(S, T)
  <2>1. f \in [S -> T]
    OBVIOUS
  <2>2. \A a, b \in S : f[a] = f[b] => a = b
    <3>1. \A a \in S : f[a] \ {k} = a
      OBVIOUS
    <3> QED BY <3>1, Zenon
  <2>3. \A t \in T : \E s \in S : f[s] = t
    <3> SUFFICES ASSUME NEW t \in T PROVE \E s \in S : f[s] = t
      OBVIOUS
    <3>1. t \ {k} \in S /\ (t \ {k}) \cup {k} = t
      OBVIOUS
    <3> QED BY <3>1
  <2> HIDE DEF S, T, f
  <2> QED BY <2>1, <2>2, <2>3 DEF Bijection, Injection, Surjection, IsInjective
<1>3. IsFiniteSet(T) /\ Cardinality(T) = Cardinality(S) /\ Cardinality(S) \in Nat
  <2> HIDE DEF T, f
  <2> QED BY <1>2, FS_Bijection, FS_CardinalityType DEF ExistsBijection
<1>4. /\ IsFiniteSet(S \cup T)
      /\ Cardinality(S \cup T) = Cardinality(S) + Cardinality(T) - Cardinality(S \cap T)
  <2> HIDE DEF T
  <2> QED BY <1>3, FS_Union
<1>5. Cardinality(S \cap T) = 0
  BY <1>1, FS_EmptySet
<1>6. Pow2(k) = Cardinality(S \cup T) /\ Pow2(k - 1) = Cardinality(S)
  BY <1>1 DEF Pow2
<1>7. IsFiniteSet(SUBSET (1 .. k))
  BY <1>1, <1>4, Zenon
<1>8. Pow2(k) = 2 * Pow2(k - 1)
  <2> HIDE DEF S, T
  <2> QED BY <1>3, <1>4, <1>5, <1>6
<1> QED BY <1>7, <1>8

(* Powers of two.                                                          *)
LEMMA PowIs ==
    /\ Pow2(0) = 1
    /\ \A k \in 1 .. W : Pow2(k) = 2 * Pow2(k - 1)
    /\ \A k \in 0 .. W : Pow2(k) \in Nat /\ Pow2(k) > 0
<1>1. W \in Nat /\ W > 0
  BY WordAssumption DEF W
<1>2. IsFiniteSet(SUBSET (1 .. 0)) /\ Pow2(0) = 1
  <2>1. SUBSET (1 .. 0) = {{}}
    OBVIOUS
  <2>2. IsFiniteSet({{}}) /\ Cardinality({{}}) = 1
    BY FS_Singleton
  <2> QED BY <2>1, <2>2 DEF Pow2
<1> DEFINE S == {k \in Nat : /\ IsFiniteSet(SUBSET (1 .. k))
                             /\ Pow2(k) \in Nat /\ Pow2(k) > 0}
<1>3. ASSUME NEW k \in S PROVE k + 1 \in S /\ Pow2(k + 1) = 2 * Pow2(k)
  <2>1. k + 1 \in Nat /\ k + 1 > 0 /\ (k + 1) - 1 = k
    OBVIOUS
  <2>2. IsFiniteSet(SUBSET (1 .. (k + 1) - 1)) /\ Pow2(k) \in Nat /\ Pow2(k) > 0
    BY <1>3, <2>1
  <2>3. IsFiniteSet(SUBSET (1 .. k + 1)) /\ Pow2(k + 1) = 2 * Pow2(k)
    BY <2>1, <2>2, Doubled
  <2>4. Pow2(k + 1) \in Nat /\ Pow2(k + 1) > 0
    BY <2>2, <2>3
  <2> QED BY <2>1, <2>3, <2>4
<1>4. \A k \in Nat : k \in S
  <2>1. 0 \in S /\ S \in SUBSET Nat
    BY <1>2
  <2>2. \A k \in S : k + 1 \in S
    BY <1>3
  <2> HIDE DEF S
  <2> QED BY <2>1, <2>2, SetInduction
<1>5. ASSUME NEW k \in 1 .. W PROVE Pow2(k) = 2 * Pow2(k - 1)
  <2>1. k - 1 \in Nat /\ (k - 1) + 1 = k
    BY <1>1
  <2>2. Pow2((k - 1) + 1) = 2 * Pow2(k - 1)
    BY <1>3, <1>4, <2>1
  <2> QED BY <2>1, <2>2
<1>6. \A k \in 0 .. W : Pow2(k) \in Nat /\ Pow2(k) > 0
  <2>1. \A k \in Nat : Pow2(k) \in Nat /\ Pow2(k) > 0
    BY <1>4, Zenon
  <2>2. \A k \in 0 .. W : k \in Nat
    BY <1>1
  <2> QED BY <2>1, <2>2, Zenon
<1> QED BY <1>2, <1>5, <1>6

LEMMA WordIs ==
    /\ W \in Nat /\ W > 0
    /\ B \in Nat /\ B > 0 /\ B2 = B * B /\ B2 \in Nat /\ B2 > 0
    /\ \E half \in Nat : half = Pow2(W - 1) /\ B = 2 * half /\ half > 0
<1>1. W \in Nat /\ W > 0 /\ B = Pow2(W)
  BY WordAssumption DEF W, B
<1>2. W \in 0 .. W /\ W \in 1 .. W /\ W - 1 \in 0 .. W
  BY <1>1
<1>3. B \in Nat /\ B > 0
  BY <1>1, <1>2, PowIs
<1>4. B * B \in Nat /\ B * B > 0
  <2>1. PICK b \in Nat : b = B /\ b > 0
    BY <1>3
  <2>2. b * b \in Nat /\ b * b > 0
    BY <2>1
  <2> QED BY <2>1, <2>2
<1>5. B = 2 * Pow2(W - 1) /\ Pow2(W - 1) \in Nat /\ Pow2(W - 1) > 0
  BY <1>1, <1>2, PowIs
<1> QED BY <1>1, <1>3, <1>4, <1>5 DEF B2

(* A word is cut in two by any number of bits.                             *)
LEMMA PowSplit ==
    ASSUME NEW k \in 0 .. W
    PROVE  Pow2(k) * Pow2(W - k) = B
<1> DEFINE S == {j \in 0 .. W : Pow2(j) * Pow2(W - j) = B}
<1>1. W \in Nat /\ B \in Nat /\ B = Pow2(W)
  BY WordIs DEF B, W
<1>2. 0 \in S
  BY <1>1, PowIs
<1>3. ASSUME NEW j \in 1 .. W, j - 1 \in S PROVE j \in S
  <2>1. /\ j \in 0 .. W /\ j - 1 \in 0 .. W /\ W - j \in 0 .. W /\ W - (j - 1) \in 1 .. W
        /\ W - (j - 1) - 1 = W - j
    BY <1>1
  <2>2. PICK a \in Nat, b \in Nat : a = Pow2(j - 1) /\ b = Pow2(W - j)
    BY <2>1, PowIs
  <2>3. Pow2(j) = 2 * a /\ Pow2(W - (j - 1)) = 2 * b
    BY <2>1, <2>2, PowIs
  <2>4. a * (2 * b) = B
    BY <1>3, <2>2, <2>3
  <2>5. (2 * a) * b = a * (2 * b)
    OBVIOUS
  <2> QED BY <2>1, <2>2, <2>3, <2>4, <2>5
<1>4. 0 .. W \subseteq S
  <2> HIDE DEF S
  <2> QED BY <1>1, <1>2, <1>3, RangeInduction
<1> QED BY <1>4

(* A word that is not zero has a leading bit.                              *)
LEMMA LeadingIs ==
    ASSUME NEW x \in Nat, x > 0, x < B
    PROVE  /\ count_leading_zeros(x) \in 0 .. W - 1
           /\ Pow2(W - 1 - count_leading_zeros(x)) <= x
           /\ x < Pow2(W - count_leading_zeros(x))
<1> DEFINE S == {k \in 0 .. W : x < Pow2(k) => \E j \in 0 .. k - 1 :
                                   Pow2(j) <= x /\ x < Pow2(j + 1)}
<1>1. W \in Nat /\ B = Pow2(W)
  BY WordIs DEF B, W
<1>2. 0 \in S
  BY <1>1, PowIs
<1>3. ASSUME NEW k \in 1 .. W, k - 1 \in S PROVE k \in S
  <2>1. k \in 0 .. W /\ k - 1 \in 0 .. W /\ k - 1 + 1 = k /\ k - 1 \in 0 .. k - 1
    BY <1>1
  <2>2. Pow2(k - 1) \in Nat
    BY <2>1, PowIs
  <2>3. CASE x < Pow2(k - 1)
    <3>1. PICK j \in 0 .. k - 1 - 1 : Pow2(j) <= x /\ x < Pow2(j + 1)
      BY <1>3, <2>3
    <3>2. j \in 0 .. k - 1
      BY <2>1
    <3> QED BY <2>1, <3>1, <3>2
  <2>4. CASE Pow2(k - 1) <= x
    BY <2>1, <2>4
  <2> QED BY <2>2, <2>3, <2>4
<1>4. 0 .. W \subseteq S
  <2> HIDE DEF S
  <2> QED BY <1>1, <1>2, <1>3, RangeInduction
<1>5. W \in S
  BY <1>1, <1>4
<1>6. PICK j \in 0 .. W - 1 : Pow2(j) <= x /\ x < Pow2(j + 1)
  BY <1>1, <1>5
<1>7. PICK z \in 0 .. W - 1 : W - 1 - z = j /\ W - z = j + 1
  <2>1. W - 1 - j \in 0 .. W - 1 /\ W - 1 - (W - 1 - j) = j /\ W - (W - 1 - j) = j + 1
    BY <1>1
  <2> QED BY <2>1
<1>8. \E y \in 0 .. W_TYPE_SIZE - 1 : Pow2(W_TYPE_SIZE - 1 - y) <= x /\ x < Pow2(W_TYPE_SIZE - y)
  BY <1>6, <1>7 DEF W
<1> QED BY <1>8 DEF count_leading_zeros, W

-----------------------------------------------------------------------------
(* u is the quotient and the remainder of n by d.                          *)
Exact(n, d, u) ==
    /\ u.q \in Nat /\ u.r \in Nat /\ u.fault = FALSE
    /\ n = u.q * d + u.r /\ u.r < d

(* The instruction, when the quotient is a word.                           *)
FitsAWord(n1, n0, dv) == n1 \in Nat /\ n0 \in Nat /\ dv \in Nat /\ n1 < dv /\ n0 < B

LEMMA InstructionIs ==
    ASSUME NEW n1, NEW n0, NEW dv, FitsAWord(n1, n0, dv)
    PROVE  \E q \in Nat, r \in Nat :
             /\ udiv_qrnnd(n1, n0, dv) = [q |-> q, r |-> r, fault |-> FALSE]
             /\ n1 * B + n0 = q * dv + r /\ r < dv /\ q < B
<1> USE DEF FitsAWord
<1>1. PICK b \in Nat : b = B /\ b > 0
  BY WordIs
<1>2. PICK n \in Nat : n = n1 * b + n0
  <2>1. n1 * b + n0 \in Nat
    OBVIOUS
  <2> QED BY <2>1
<1>3. PICK q \in Nat, r \in Nat : Cut(n, dv, q, r) /\ n = q * dv + r /\ r < dv
  <2>1. dv > 0
    OBVIOUS
  <2> QED BY <2>1, DivMod
<1>4. udiv_qrnnd(n1, n0, dv) = [q |-> q, r |-> r, fault |-> FALSE]
  <2>1. ~(n1 >= dv)
    OBVIOUS
  <2> QED BY <1>1, <1>2, <1>3, <2>1 DEF udiv_qrnnd, Cut
<1>5. q < b
  <2> SUFFICES ASSUME b <= q PROVE FALSE
    OBVIOUS
  <2>1. b * dv <= q * dv /\ b * dv \in Nat /\ q * dv \in Nat
    BY TimesLess
  <2>2. (n1 + 1) * b <= dv * b
    BY TimesLess
  <2>3. (n1 + 1) * b = n1 * b + b /\ dv * b = b * dv /\ n1 * b \in Nat
    OBVIOUS
  <2> QED BY <1>1, <1>2, <1>3, <2>1, <2>2, <2>3
<1> QED BY <1>1, <1>2, <1>3, <1>4, <1>5

LEMMA OneWordIs ==
    ASSUME NEW n1 \in Nat, NEW n0 \in Nat, NEW d0 \in Nat, n0 < B, d0 > 0
    PROVE  Exact(n1 * B + n0, d0, ByOneWord(n1, n0, d0))
<1>1. PICK b \in Nat : b = B /\ b > 0
  BY WordIs
<1>2. CASE d0 > n1
  <2>1. PICK q \in Nat, r \in Nat :
          /\ udiv_qrnnd(n1, n0, d0) = [q |-> q, r |-> r, fault |-> FALSE]
          /\ n1 * B + n0 = q * d0 + r /\ r < d0
    <3>1. FitsAWord(n1, n0, d0)
      BY <1>2 DEF FitsAWord
    <3> QED BY <3>1, InstructionIs
  <2>2. ByOneWord(n1, n0, d0) = [q |-> q, r |-> r, fault |-> FALSE]
    BY <1>2, <2>1 DEF ByOneWord, Result
  <2> QED BY <2>1, <2>2 DEF Exact
<1>3. CASE ~(d0 > n1)
  <2>0. 0 * b = 0
    OBVIOUS
  <2>1. PICK q \in Nat, r \in Nat : Cut(n1, d0, q, r) /\ n1 = q * d0 + r /\ r < d0
    BY DivMod
  <2>2. udiv_qrnnd(0, n1, d0) = [q |-> q, r |-> r, fault |-> FALSE]
    <3>1. ~(0 >= d0) /\ 0 * B + n1 = n1
      BY <1>1, <2>0
    <3> QED BY <2>1, <3>1 DEF udiv_qrnnd, Cut
  <2>3. PICK p \in Nat, e \in Nat :
          /\ udiv_qrnnd(r, n0, d0) = [q |-> p, r |-> e, fault |-> FALSE]
          /\ r * B + n0 = p * d0 + e /\ e < d0
    <3>1. FitsAWord(r, n0, d0)
      BY <2>1 DEF FitsAWord
    <3> QED BY <3>1, InstructionIs
  <2>4. ByOneWord(n1, n0, d0) = [q |-> q * B + p, r |-> e, fault |-> FALSE]
    <3>1. PICK high, low : high = udiv_qrnnd(0, n1, d0) /\ low = udiv_qrnnd(high.r, n0, d0)
      OBVIOUS
    <3>2. high.q = q /\ high.r = r /\ high.fault = FALSE
      BY <2>2, <3>1
    <3>3. low.q = p /\ low.r = e /\ low.fault = FALSE
      BY <2>3, <3>1, <3>2
    <3>4. ByOneWord(n1, n0, d0) =
            [q |-> high.q * B + low.q, r |-> low.r, fault |-> high.fault \/ low.fault]
      BY <1>3, <3>1, Zenon DEF ByOneWord, Result
    <3>5. (high.fault \/ low.fault) = FALSE
      BY <3>2, <3>3
    <3> QED BY <3>2, <3>3, <3>4, <3>5
  <2>5. q * b + p \in Nat /\ n1 * b + n0 = (q * b + p) * d0 + e
    <3>1. (q * d0 + r) * b = (q * b) * d0 + r * b
      OBVIOUS
    <3>2. (q * b + p) * d0 = (q * b) * d0 + p * d0
      OBVIOUS
    <3>3. /\ q * b \in Nat /\ (q * b) * d0 \in Nat /\ r * b \in Nat /\ p * d0 \in Nat
          /\ r * b + n0 = p * d0 + e
      BY <1>1, <2>3
    <3>4. n1 * b = (q * b) * d0 + r * b
      BY <2>1, <3>1
    <3> QED BY <3>2, <3>3, <3>4
  <2> QED BY <1>1, <2>3, <2>4, <2>5 DEF Exact
<1> QED BY <1>2, <1>3

(* The estimate: when the divisor has its leading bit, and both were moved *)
(* left by a factor s, the quotient of the leading words is too large by   *)
(* one at most.                                                            *)
Estimate(b, h, s, t, d, D, Dh, Dl, N, Np, Nl, q, r) ==
    /\ b \in Nat /\ h \in Nat /\ b = 2 * h
    /\ s \in Nat /\ t \in Nat /\ s * t = b /\ s > 0 /\ s <= h
    /\ d \in Nat /\ D \in Nat /\ D = d * s
    /\ Dh \in Nat /\ Dl \in Nat /\ D = Dh * b + Dl /\ Dl < b /\ h <= Dh
    /\ N \in Nat /\ Np \in Nat /\ Nl \in Nat /\ N = Np * b + Nl /\ Nl < b /\ Np < b * s
    /\ q \in Nat /\ r \in Nat /\ Np = q * Dh + r /\ r < Dh

LEMMA EstimateIs ==
    ASSUME NEW b, NEW h, NEW s, NEW t, NEW d, NEW D, NEW Dh, NEW Dl, NEW N, NEW Np, NEW Nl,
           NEW q, NEW r, Estimate(b, h, s, t, d, D, Dh, Dl, N, Np, Nl, q, r)
    PROVE  /\ q * Dl \in Nat /\ q * Dl <= D
           /\ r * b + Nl \in Nat /\ r * b + Nl < D
           /\ q * D \in Nat /\ N = q * D + (r * b + Nl) - q * Dl
<1> USE DEF Estimate
<1>1. q <= 2 * s
  <2> SUFFICES ASSUME 2 * s <= q PROVE FALSE
    OBVIOUS
  <2>1. (2 * s) * Dh <= q * Dh /\ (2 * s) * h <= (2 * s) * Dh
    BY TimesLess
  <2>2. (2 * s) * h = b * s
    OBVIOUS
  <2>3. q * Dh \in Nat /\ (2 * s) * Dh \in Nat /\ b * s \in Nat
    OBVIOUS
  <2> QED BY <2>1, <2>2, <2>3
<1>2. Dl <= b - s
  <2>1. PICK e \in Int : e = d - Dh * t
    OBVIOUS
  <2>2. s * e = Dl
    <3>1. s * (d - Dh * t) = s * d - s * (Dh * t)
      OBVIOUS
    <3>2. s * (Dh * t) = Dh * (s * t) /\ s * d = d * s
      OBVIOUS
    <3> QED BY <2>1, <3>1, <3>2
  <2>3. e < t
    <3> SUFFICES ASSUME t <= e PROVE FALSE
      BY <2>1
    <3>1. e \in Nat
      BY <2>1
    <3>2. s * t <= s * e
      BY <3>1, TimesLess
    <3> QED BY <2>2, <3>2
  <2>4. CASE e \in Nat
    <3>1. s * (e + 1) <= s * t
      BY <2>3, <2>4, TimesLess
    <3>2. s * (e + 1) = s * e + s
      BY <2>4
    <3> QED BY <2>2, <3>1, <3>2
  <2>5. CASE e \notin Nat
    <3>1. PICK k \in Nat : e = 0 - 1 - k
      <4>1. 0 - 1 - e \in Nat /\ e = 0 - 1 - (0 - 1 - e)
        BY <2>1, <2>5
      <4> QED BY <4>1
    <3>2. s * (0 - 1 - k) = 0 - s - s * k /\ s * k \in Nat
      OBVIOUS
    <3> QED BY <2>2, <3>1, <3>2
  <2> QED BY <2>4, <2>5
<1>3. q * Dl \in Nat /\ q * Dl <= D
  <2>1. PICK k \in Nat : h = s + k
    <3>1. h - s \in Nat /\ h = s + (h - s)
      OBVIOUS
    <3> QED BY <3>1
  <2>2. b - s = s + 2 * k
    BY <2>1
  <2>3. q * Dl <= (2 * s) * Dl /\ (2 * s) * Dl <= (2 * s) * (s + 2 * k)
    BY <1>1, <1>2, <2>2, TimesLess
  <2>4. (2 * s) * (s + 2 * k) <= h * b
    <3>1. (2 * s) * (s + 2 * k) = 2 * (s * s) + 4 * (s * k)
      OBVIOUS
    <3>2. (s + k) * (2 * (s + k)) = 2 * (s * s) + 4 * (s * k) + 2 * (k * k)
      OBVIOUS
    <3>3. s * s \in Nat /\ s * k \in Nat /\ k * k \in Nat
      OBVIOUS
    <3> QED BY <2>1, <3>1, <3>2, <3>3
  <2>5. h * b <= Dh * b
    BY TimesLess
  <2>6. /\ q * Dl \in Nat /\ (2 * s) * Dl \in Nat /\ (2 * s) * (s + 2 * k) \in Nat
        /\ h * b \in Nat /\ Dh * b \in Nat
    OBVIOUS
  <2> QED BY <2>3, <2>4, <2>5, <2>6
<1>4. r * b + Nl \in Nat /\ r * b + Nl < D
  <2>1. (r + 1) * b <= Dh * b /\ (r + 1) * b = r * b + b /\ r * b \in Nat /\ Dh * b \in Nat
    BY TimesLess
  <2> QED BY <2>1
<1>5. q * D \in Nat /\ N = q * D + (r * b + Nl) - q * Dl
  <2>1. q * (Dh * b + Dl) = (q * Dh) * b + q * Dl
    OBVIOUS
  <2>2. (q * Dh + r) * b = (q * Dh) * b + r * b
    OBVIOUS
  <2>3. q * D \in Nat /\ q * Dl \in Nat /\ (q * Dh) * b \in Nat /\ r * b \in Nat
    OBVIOUS
  <2> QED BY <2>1, <2>2, <2>3
<1> QED BY <1>3, <1>4, <1>5

(* What is left is moved right again.                                      *)
Moved(n, d, s, p, left) ==
    /\ n \in Nat /\ d \in Nat /\ s \in Nat /\ s > 0 /\ p \in Nat /\ left \in Nat
    /\ n * s = p * (d * s) + left /\ left < d * s

LEMMA MovedBack ==
    ASSUME NEW n, NEW d, NEW s, NEW p, NEW left, Moved(n, d, s, p, left)
    PROVE  \E x \in Nat : left \div s = x /\ n = p * d + x /\ x < d
<1> USE DEF Moved
<1>1. PICK x \in Int : x = n - p * d
  OBVIOUS
<1>2. x * s = left
  <2>1. (n - p * d) * s = n * s - p * (d * s)
    OBVIOUS
  <2>2. n * s \in Nat /\ p * (d * s) \in Nat
    OBVIOUS
  <2> QED BY <1>1, <2>1, <2>2
<1>3. x \in Nat
  <2> SUFFICES ASSUME x < 0 PROVE FALSE
    BY <1>1
  <2>1. PICK k \in Nat : x = 0 - 1 - k
    <3>1. 0 - 1 - x \in Nat /\ x = 0 - 1 - (0 - 1 - x)
      BY <1>1
    <3> QED BY <3>1
  <2>2. (0 - 1 - k) * s = 0 - s - k * s /\ k * s \in Nat
    OBVIOUS
  <2> QED BY <1>2, <2>1, <2>2
<1>4. x < d
  <2> SUFFICES ASSUME d <= x PROVE FALSE
    BY <1>3
  <2>1. d * s <= x * s
    BY <1>3, TimesLess
  <2> QED BY <1>2, <2>1
<1>5. left \div s = x
  <2>1. x * s + 0 = left
    BY <1>2
  <2>2. Cut(x * s + 0, s, x, 0)
    BY <1>3, CutUnique
  <2> QED BY <2>1, <2>2 DEF Cut
<1>6. p * d \in Int
  OBVIOUS
<1> QED BY <1>1, <1>3, <1>4, <1>5, <1>6

(* Numbers below the bound are what they are modulo the bound.             *)
LEMMA Small ==
    ASSUME NEW c \in Nat, NEW x \in Nat, x < c
    PROVE  x % c = x /\ (x - c) % c = x
<1>1. (0 * c + x) % c = x /\ 0 * c + x = x
  <2>1. Cut(0 * c + x, c, 0, x)
    BY CutUnique
  <2> QED BY <2>1 DEF Cut
<1>2. ((-1) * c + x) % c = x /\ (-1) * c + x = x - c
  <2>1. Cut((-1) * c + x, c, -1, x)
    BY CutUnique
  <2> QED BY <2>1 DEF Cut
<1> QED BY <1>1, <1>2

(* The end of ByTwoWords: the estimate is put right.                       *)
Corrected(q, m, M, D, s, fault) ==
    Result(IF m > M THEN (q - 1) % B ELSE q,
           ((M - (IF m > M THEN (m - D) % B2 ELSE m)) % B2) \div s, fault)

LEMMA CorrectedIs ==
    ASSUME NEW n1, NEW n0, NEW d1, NEW d0, NEW bm, bm = count_leading_zeros(d1),
           NEW D, D = (d1 * B + d0) * Pow2(bm), NEW N, N = (n1 * B + n0) * Pow2(bm),
           NEW e, e = udiv_qrnnd(N \div B2, (N \div B) % B, D \div B)
    PROVE  ByTwoWords(n1, n0, d1, d0) =
             Corrected(e.q, e.q * (D % B), e.r * B + (N % B), D, Pow2(bm), e.fault)
BY DEF ByTwoWords, Corrected

(* The divisor has two words and is moved left.                            *)
LEMMA TwoWordsAre ==
    ASSUME NEW n1 \in Nat, NEW n0 \in Nat, NEW d1 \in Nat, NEW d0 \in Nat,
           n1 < B, n0 < B, d1 < B, d0 < B, d1 > 0, count_leading_zeros(d1) # 0
    PROVE  Exact(n1 * B + n0, d1 * B + d0, ByTwoWords(n1, n0, d1, d0))
<1>1. PICK b \in Nat, h \in Nat :
        b = B /\ h = Pow2(W - 1) /\ b = 2 * h /\ h > 0 /\ b > 0 /\ B2 = b * b
  BY WordIs
<1>2. PICK bm \in 1 .. W - 1 : bm = count_leading_zeros(d1)
  BY LeadingIs, WordIs
<1>3. PICK s \in Nat, t \in Nat, a \in Nat :
        /\ s = Pow2(bm) /\ s * t = b /\ t = 2 * a /\ a <= d1 /\ d1 < t /\ s > 0 /\ a > 0
  <2>1. /\ W \in Nat /\ bm \in 0 .. W /\ W - bm \in 1 .. W /\ W - bm - 1 = W - 1 - bm
        /\ W - bm \in 0 .. W /\ W - 1 - bm \in 0 .. W
    BY WordIs
  <2>2. Pow2(bm) * Pow2(W - bm) = b
    BY <1>1, <2>1, PowSplit
  <2>3. Pow2(W - bm) = 2 * Pow2(W - 1 - bm)
    BY <2>1, PowIs
  <2>4. Pow2(W - 1 - bm) <= d1 /\ d1 < Pow2(W - bm)
    BY <1>2, LeadingIs
  <2> QED BY <2>1, <2>2, <2>3, <2>4, PowIs
<1>4. s * a = h /\ s <= h
  <2>1. s * (2 * a) = 2 * (s * a) /\ s * a \in Nat
    OBVIOUS
  <2>2. s * 1 <= s * a
    BY <1>3, TimesLess
  <2> QED BY <1>1, <1>3, <2>1, <2>2
<1>5. PICK n \in Nat : n = n1 * b + n0 /\ n < b * b
  <2>0. n1 + 1 \in Nat /\ n1 + 1 <= b
    BY <1>1
  <2>1. (n1 + 1) * b <= b * b
    BY <2>0, TimesLess, Zenon
  <2>2. (n1 + 1) * b = n1 * b + b /\ n1 * b \in Nat /\ b * b \in Nat
    OBVIOUS
  <2> QED BY <1>1, <2>1, <2>2
<1>6. PICK d \in Nat : d = d1 * b + d0 /\ a * b <= d /\ d + 1 <= t * b
  <2>1. a * b <= d1 * b /\ (d1 + 1) * b <= t * b
    BY <1>3, TimesLess
  <2>2. (d1 + 1) * b = d1 * b + b /\ d1 * b \in Nat /\ t * b \in Nat /\ a * b \in Nat
    OBVIOUS
  <2> QED BY <1>1, <2>1, <2>2
<1>7. PICK D \in Nat : D = d * s /\ h * b <= D /\ D < b * b
  <2>1. (a * b) * s <= d * s /\ (d + 1) * s <= (t * b) * s
    BY <1>6, TimesLess
  <2>2. (a * b) * s = (s * a) * b /\ (t * b) * s = (s * t) * b /\ (d + 1) * s = d * s + s
    OBVIOUS
  <2>3. d * s \in Nat /\ h * b \in Nat /\ b * b \in Nat
    OBVIOUS
  <2> QED BY <1>3, <1>4, <2>1, <2>2, <2>3
<1>8. PICK Dh \in Nat, Dl \in Nat :
        Cut(D, b, Dh, Dl) /\ D = Dh * b + Dl /\ Dl < b /\ h <= Dh
  <2>1. PICK x \in Nat, y \in Nat : Cut(D, b, x, y) /\ D = x * b + y /\ y < b
    BY <1>1, DivMod
  <2>2. h <= x
    <3> SUFFICES ASSUME x < h PROVE FALSE
      OBVIOUS
    <3>1. (x + 1) * b <= h * b /\ (x + 1) * b = x * b + b /\ x * b \in Nat /\ h * b \in Nat
      BY TimesLess
    <3> QED BY <1>7, <2>1, <3>1
  <2> QED BY <2>1, <2>2
<1>9. PICK N \in Nat : N = n * s /\ N < (b * b) * s
  <2>1. (n + 1) * s <= (b * b) * s /\ (n + 1) * s = n * s + s /\ n * s \in Nat
        /\ (b * b) * s \in Nat
    BY <1>5, TimesLess
  <2> QED BY <1>3, <2>1
<1>10. PICK Np \in Nat, Nl \in Nat :
         Cut(N, b, Np, Nl) /\ N = Np * b + Nl /\ Nl < b /\ Np < b * s
  <2>1. PICK x \in Nat, y \in Nat : Cut(N, b, x, y) /\ N = x * b + y /\ y < b
    BY <1>1, DivMod
  <2>2. x < b * s
    <3> SUFFICES ASSUME b * s <= x PROVE FALSE
      OBVIOUS
    <3>1. (b * s) * b <= x * b /\ (b * s) * b = (b * b) * s
      BY TimesLess
    <3>2. x * b \in Nat /\ (b * b) * s \in Nat
      OBVIOUS
    <3> QED BY <1>9, <2>1, <3>1, <3>2
  <2> QED BY <2>1, <2>2
<1>11. PICK Nh \in Nat, Nm \in Nat :
         /\ \E z : Cut(N, b * b, Nh, z)
         /\ \E z : Cut(Np, b, z, Nm)
         /\ Np = Nh * b + Nm /\ Nm < b /\ Nh < Dh
  <2>1. PICK x \in Nat, y \in Nat : Cut(Np, b, x, y) /\ Np = x * b + y /\ y < b
    BY <1>1, DivMod
  <2>2. N = x * (b * b) + (y * b + Nl) /\ y * b + Nl \in Nat /\ y * b + Nl < b * b
    <3>1. (x * b + y) * b = x * (b * b) + y * b
      OBVIOUS
    <3>2. (y + 1) * b <= b * b /\ (y + 1) * b = y * b + b
      BY <2>1, TimesLess
    <3>3. y * b \in Nat /\ x * (b * b) \in Nat /\ b * b \in Nat
      OBVIOUS
    <3> QED BY <1>10, <2>1, <3>1, <3>2, <3>3
  <2>3. \E z : Cut(N, b * b, x, z)
    <3>1. PICK c \in Nat, z \in Nat : c = b * b /\ z = y * b + Nl /\ z < c
      BY <2>2
    <3>2. Cut(x * c + z, c, x, z)
      BY <3>1, CutUnique
    <3>3. N = x * c + z
      BY <2>2, <3>1, Zenon
    <3> QED BY <3>1, <3>2, <3>3, Zenon
  <2>4. x < s
    <3> SUFFICES ASSUME s <= x PROVE FALSE
      OBVIOUS
    <3>1. s * b <= x * b
      BY TimesLess, Zenon
    <3>2. s * b = b * s /\ x * b \in Nat /\ b * s \in Nat
      OBVIOUS
    <3> QED BY <1>10, <2>1, <3>1, <3>2
  <2>5. x < Dh
    BY <1>4, <1>8, <2>4
  <2> QED BY <2>1, <2>3, <2>5, Zenon
<1>12. PICK q \in Nat, r \in Nat :
         /\ udiv_qrnnd(Nh, Nm, Dh) = [q |-> q, r |-> r, fault |-> FALSE]
         /\ Np = q * Dh + r /\ r < Dh /\ q < b
  <2>1. Nm < B /\ Nh < Dh /\ Nh * B + Nm = Np
    BY <1>1, <1>11
  <2>2. \E q \in Nat, r \in Nat :
          /\ udiv_qrnnd(Nh, Nm, Dh) = [q |-> q, r |-> r, fault |-> FALSE]
          /\ Nh * B + Nm = q * Dh + r /\ r < Dh /\ q < B
    <3>1. FitsAWord(Nh, Nm, Dh)
      BY <2>1 DEF FitsAWord
    <3> QED BY <3>1, InstructionIs
  <2> QED BY <1>1, <2>1, <2>2
<1>13. PICK m \in Nat, M \in Nat, x \in Nat :
         /\ m = q * Dl /\ M = r * b + Nl /\ x = q * D
         /\ m <= D /\ M < D /\ N = x + M - m
  <2>1. Estimate(b, h, s, t, d, D, Dh, Dl, N, Np, Nl, q, r)
    BY <1>1, <1>3, <1>4, <1>7, <1>8, <1>10, <1>12, Zenon DEF Estimate
  <2>2. /\ q * Dl \in Nat /\ q * Dl <= D
        /\ r * b + Nl \in Nat /\ r * b + Nl < D
        /\ q * D \in Nat /\ N = q * D + (r * b + Nl) - q * Dl
    BY <2>1, EstimateIs
  <2> QED BY <2>2
<1>u. PICK u : u = ByTwoWords(n1, n0, d1, d0)
  OBVIOUS
<1>14. u = Corrected(q, m, M, D, s, FALSE)
  <2>1. PICK e : e = udiv_qrnnd(N \div B2, (N \div B) % B, D \div B)
    OBVIOUS
  <2>2. e.q = q /\ e.r = r /\ e.fault = FALSE
    <3>1. N \div B2 = Nh /\ (N \div B) % B = Nm /\ D \div B = Dh
      BY <1>1, <1>8, <1>10, <1>11, Zenon DEF Cut
    <3> QED BY <1>12, <2>1, <3>1
  <2>3. N = (n1 * B + n0) * Pow2(bm) /\ D = (d1 * B + d0) * Pow2(bm)
    BY <1>1, <1>3, <1>5, <1>6, <1>7, <1>9
  <2>4. ByTwoWords(n1, n0, d1, d0) =
          Corrected(e.q, e.q * (D % B), e.r * B + (N % B), D, Pow2(bm), e.fault)
    BY <1>2, <2>1, <2>3, CorrectedIs
  <2>5. e.q * (D % B) = m /\ e.r * B + (N % B) = M
    BY <1>1, <1>8, <1>10, <1>13, <2>2, Zenon DEF Cut
  <2> QED BY <1>3, <1>u, <2>2, <2>4, <2>5, Zenon
<1>n. n = n1 * B + n0 /\ d = d1 * B + d0
  BY <1>1, <1>5, <1>6, Zenon
<1>15. D < B2 /\ B2 \in Nat
  BY <1>1, <1>7, WordIs
<1>16. CASE ~(m > M)
  <2>1. PICK left \in Nat : left = M - m /\ left < D
    BY <1>13, <1>16
  <2>2. left % B2 = left
    <3>1. left < B2
      BY <1>15, <2>1
    <3> QED BY <1>15, <3>1, Small, Zenon
  <2>3. u = Result(q, left \div s, FALSE)
    BY <1>14, <1>16, <2>1, <2>2, Zenon DEF Corrected
  <2>4. n * s = q * (d * s) + left
    BY <1>7, <1>9, <1>13, <2>1
  <2>5. PICK y \in Nat : left \div s = y /\ n = q * d + y /\ y < d
    <3>1. Moved(n, d, s, q, left)
      BY <1>3, <1>7, <2>1, <2>4 DEF Moved
    <3> QED BY <3>1, MovedBack
  <2>6. u = [q |-> q, r |-> y, fault |-> FALSE]
    BY <2>3, <2>5, Zenon DEF Result
  <2>7. Exact(n, d, u)
    BY <2>5, <2>6 DEF Exact
  <2> QED BY <1>n, <1>u, <2>7, Zenon
<1>17. CASE m > M
  <2>1. q # 0
    <3>1. 0 * Dl = 0
      OBVIOUS
    <3> QED BY <1>13, <1>17, <3>1
  <2>2. PICK p \in Nat : p = q - 1 /\ p < b
    BY <1>12, <2>1
  <2>3. p % B = p
    <3>1. p < B /\ B \in Nat
      BY <1>1, <2>2
    <3> QED BY <3>1, Small, Zenon
  <2>4. PICK left \in Nat : left = M - m + D /\ left < D
    BY <1>13, <1>17
  <2>5. (M - ((m - D) % B2)) % B2 = left
    <3>1. CASE m = D
      <4>0. 0 < B2 /\ left < B2 /\ m - D = 0 /\ M - 0 = left /\ 0 \in Nat
        BY <1>15, <2>4, <3>1
      <4>1. 0 % B2 = 0 /\ left % B2 = left
        BY <1>15, <4>0, Small, Zenon
      <4> QED BY <4>0, <4>1, Zenon
    <3>2. CASE m # D
      <4>1. PICK k \in Nat : k = B2 + (m - D) /\ k < B2
        BY <1>13, <1>15, <3>2
      <4>2. (m - D) % B2 = k
        <5>1. m - D = k - B2
          BY <1>15, <4>1
        <5> QED BY <1>15, <4>1, <5>1, Small, Zenon
      <4>3. M - k = left - B2
        BY <1>15, <2>4, <4>1
      <4>4. (left - B2) % B2 = left
        <5>1. left < B2
          BY <1>15, <2>4
        <5> QED BY <1>15, <5>1, Small, Zenon
      <4> QED BY <4>2, <4>3, <4>4, Zenon
    <3> QED BY <3>1, <3>2
  <2>6. u = Result(p, left \div s, FALSE)
    <3>1. q - 1 = p
      BY <2>2
    <3> QED BY <1>14, <1>17, <2>3, <2>5, <3>1, Zenon DEF Corrected
  <2>7. n * s = p * (d * s) + left
    <3>1. (p + 1) * D = p * D + D /\ p * D \in Nat
      OBVIOUS
    <3>2. q = p + 1
      BY <2>2
    <3> QED BY <1>7, <1>9, <1>13, <2>4, <3>1, <3>2
  <2>8. PICK y \in Nat : left \div s = y /\ n = p * d + y /\ y < d
    <3>1. Moved(n, d, s, p, left)
      BY <1>3, <1>7, <2>4, <2>7 DEF Moved
    <3> QED BY <3>1, MovedBack
  <2>9. u = [q |-> p, r |-> y, fault |-> FALSE]
    BY <2>6, <2>8, Zenon DEF Result
  <2>10. Exact(n, d, u)
    BY <2>8, <2>9 DEF Exact
  <2> QED BY <1>n, <1>u, <2>10, Zenon
<1> QED BY <1>16, <1>17

-----------------------------------------------------------------------------
(* __udivmoddi4 is exact.                                                  *)
LEMMA UnsignedIs ==
    ASSUME NEW n \in 0 .. B2 - 1, NEW d \in 0 .. B2 - 1, d # 0
    PROVE  Exact(n, d, udivmoddi4(n, d))
<1>1. PICK b \in Nat, h \in Nat :
        b = B /\ h = Pow2(W - 1) /\ b = 2 * h /\ h > 0 /\ b > 0 /\ B2 = b * b /\ b * b \in Nat
  BY WordIs
<1>2. ASSUME NEW x \in 0 .. B2 - 1
      PROVE  \E x1 \in Nat, x0 \in Nat :
               Cut(x, b, x1, x0) /\ x = x1 * b + x0 /\ x0 < b /\ x1 < b
  <2>1. x \in Nat /\ x < b * b
    BY <1>1
  <2>2. PICK x1 \in Nat, x0 \in Nat :
          Cut(x, b, x1, x0) /\ x = x1 * b + x0 /\ x0 < b
    BY <1>1, <2>1, DivMod
  <2>3. x1 < b
    <3> SUFFICES ASSUME b <= x1 PROVE FALSE
      OBVIOUS
    <3>1. b * b <= x1 * b /\ x1 * b \in Nat
      BY TimesLess
    <3> QED BY <1>1, <2>1, <2>2, <3>1
  <2> QED BY <2>2, <2>3
<1>3. PICK n1 \in Nat, n0 \in Nat :
        Cut(n, b, n1, n0) /\ n = n1 * b + n0 /\ n0 < b /\ n1 < b
  BY <1>2
<1>4. PICK d1 \in Nat, d0 \in Nat :
        Cut(d, b, d1, d0) /\ d = d1 * b + d0 /\ d0 < b /\ d1 < b
  BY <1>2
<1>5. PICK u : /\ u = udivmoddi4(n, d)
               /\ u = IF d1 = 0 THEN ByOneWord(n1, n0, d0)
                      ELSE IF d1 > n1 THEN Result(0, n, FALSE)
                      ELSE IF count_leading_zeros(d1) # 0 THEN ByTwoWords(n1, n0, d1, d0)
                      ELSE IF n1 > d1 \/ n0 >= d0 THEN Result(1, (n - d) % B2, FALSE)
                      ELSE Result(0, n, FALSE)
  BY <1>1, <1>3, <1>4, Zenon DEF udivmoddi4, Cut
<1>6. CASE d1 = 0
  <2>1. d0 > 0 /\ d = d0
    <3>1. 0 * b = 0
      OBVIOUS
    <3> QED BY <1>4, <1>6, <3>1
  <2>2. Exact(n1 * B + n0, d0, ByOneWord(n1, n0, d0))
    BY <1>1, <1>3, <2>1, OneWordIs
  <2> QED BY <1>1, <1>3, <1>5, <1>6, <2>1, <2>2
<1>7. ASSUME d > n PROVE Exact(n, d, Result(0, n, FALSE))
  <2>1. n \in Nat /\ 0 * d = 0
    BY <1>1
  <2> QED BY <1>7, <2>1 DEF Exact, Result
<1>8. CASE d1 > n1
  <2>1. (n1 + 1) * b <= d1 * b /\ (n1 + 1) * b = n1 * b + b /\ n1 * b \in Nat /\ d1 * b \in Nat
    BY <1>8, TimesLess
  <2>2. d > n
    BY <1>3, <1>4, <2>1
  <2>3. d1 # 0
    BY <1>8
  <2> QED BY <1>5, <1>7, <1>8, <2>2, <2>3
<1>9. CASE d1 # 0 /\ ~(d1 > n1) /\ count_leading_zeros(d1) # 0
  <2>1. Exact(n1 * B + n0, d1 * B + d0, ByTwoWords(n1, n0, d1, d0))
    <3>1. n1 < B /\ n0 < B /\ d1 < B /\ d0 < B /\ d1 > 0
      BY <1>1, <1>3, <1>4, <1>9
    <3> QED BY <1>9, <3>1, TwoWordsAre, Zenon
  <2> QED BY <1>1, <1>3, <1>4, <1>5, <1>9, <2>1
<1>10. CASE d1 # 0 /\ ~(d1 > n1) /\ count_leading_zeros(d1) = 0
  <2>1. h <= d1
    <3>1. d1 > 0 /\ d1 < B /\ W - 1 - 0 = W - 1
      BY <1>1, <1>4, <1>10, WordIs
    <3>2. Pow2(W - 1 - 0) <= d1
      BY <1>10, <3>1, LeadingIs, Zenon
    <3> QED BY <1>1, <3>1, <3>2
  <2>2. CASE n1 > d1 \/ n0 >= d0
    <3>1. d <= n
      <4>1. CASE n1 > d1
        <5>1. (d1 + 1) * b <= n1 * b /\ (d1 + 1) * b = d1 * b + b
              /\ n1 * b \in Nat /\ d1 * b \in Nat
          BY <4>1, TimesLess
        <5> QED BY <1>3, <1>4, <5>1
      <4>2. CASE n1 = d1 /\ n0 >= d0
        <5>1. d1 * b \in Nat
          OBVIOUS
        <5> QED BY <1>3, <1>4, <4>2, <5>1
      <4> QED BY <1>10, <2>2, <4>1, <4>2
    <3>2. n < d + d
      <4>1. h * b <= d1 * b /\ h * b \in Nat /\ d1 * b \in Nat
        BY <2>1, TimesLess
      <4>2. (2 * h) * b = h * b + h * b
        OBVIOUS
      <4> QED BY <1>1, <1>4, <4>1, <4>2
    <3>3. PICK r \in Nat : r = n - d /\ r < d /\ r < B2
      BY <1>1, <3>1, <3>2
    <3>4. r % B2 = r
      BY <1>1, <3>3, Small
    <3>5. u = Result(1, r, FALSE)
      BY <1>5, <1>10, <2>2, <3>3, <3>4
    <3>6. n = 1 * d + r
      BY <1>1, <3>3
    <3> QED BY <1>5, <3>3, <3>5, <3>6 DEF Exact, Result
  <2>3. CASE ~(n1 > d1 \/ n0 >= d0)
    <3>1. n1 = d1 /\ n0 < d0
      BY <1>10, <2>3
    <3>2. d > n
      <4>1. d1 * b \in Nat
        OBVIOUS
      <4> QED BY <1>3, <1>4, <3>1, <4>1
    <3> QED BY <1>5, <1>7, <1>10, <2>3, <3>2
  <2> QED BY <2>2, <2>3
<1> QED BY <1>6, <1>8, <1>9, <1>10

(* Division by zero is noticed by the processor.                           *)
LEMMA ByZeroIs ==
    ASSUME NEW n \in 0 .. B2 - 1
    PROVE  udivmoddi4(n, 0).fault = TRUE
<1>1. PICK b \in Nat : b = B /\ b > 0 /\ B2 \in Nat
  BY WordIs
<1>2. 0 \div B = 0 /\ 0 % B = 0
  <2>1. Cut(0 * b + 0, b, 0, 0)
    BY <1>1, CutUnique
  <2>2. 0 * b + 0 = 0
    OBVIOUS
  <2> QED BY <1>1, <2>1, <2>2 DEF Cut
<1>3. PICK n1 \in Nat, n0 \in Nat : Cut(n, B, n1, n0)
  <2>1. n \in Nat
    BY <1>1
  <2> QED BY <1>1, <2>1, DivMod
<1>4. udivmoddi4(n, 0) = ByOneWord(n1, n0, 0)
  BY <1>2, <1>3 DEF udivmoddi4, Cut
<1>5. PICK high, low : high = udiv_qrnnd(0, n1, 0) /\ low = udiv_qrnnd(high.r, n0, 0)
  OBVIOUS
<1>6. high.fault = TRUE
  BY <1>5 DEF udiv_qrnnd
<1>7. ByOneWord(n1, n0, 0) =
        [q |-> high.q * B + low.q, r |-> low.r, fault |-> high.fault \/ low.fault]
  <2>1. ~(0 > n1)
    OBVIOUS
  <2> QED BY <1>5, <2>1, Zenon DEF ByOneWord, Result
<1>8. (high.fault \/ low.fault) = TRUE
  BY <1>6
<1>9. PICK f : f = (high.fault \/ low.fault)
  OBVIOUS
<1>10. ByOneWord(n1, n0, 0).fault = f
  BY <1>7, <1>9
<1> QED BY <1>4, <1>8, <1>9, <1>10, Zenon

-----------------------------------------------------------------------------
LEMMA Opposite == ASSUME NEW x \in Int, NEW y \in Int, x + y = 0 PROVE y = -x
OBVIOUS

LEMMA MinusZero == -0 = 0
<1>1. PICK x \in Int, y \in Int : x = 0 /\ y = 0 /\ x + y = 0
  OBVIOUS
<1>2. y = -x
  BY <1>1, Opposite, Zenon
<1> QED BY <1>1, <1>2, Zenon

(* Signed numbers: H is the first that stands for a negative one.          *)
Half(H) ==
    /\ H \in Nat /\ H > 0 /\ B2 = 2 * H /\ B2 \div 2 = H
    /\ \A u \in 0 .. B2 - 1 : /\ Negative(u) <=> u >= H
                              /\ Negated(u) = IF u = 0 THEN 0 ELSE B2 - u

LEMMA HalfIs == \E H : Half(H)
<1>1. PICK b \in Nat, h \in Nat : b = B /\ b = 2 * h /\ h > 0 /\ b > 0 /\ B2 = b * b
  BY WordIs
<1>2. PICK H \in Nat : H = h * b /\ H > 0
  <2>1. 1 * b <= h * b /\ 1 * b = b /\ h * b \in Nat
    BY <1>1, TimesLess
  <2> QED BY <1>1, <2>1
<1>3. B2 = 2 * H
  <2>1. (2 * h) * b = 2 * (h * b)
    OBVIOUS
  <2> QED BY <1>1, <1>2, <2>1
<1>4. B2 \div 2 = H /\ B \div 2 = h
  BY <1>1, <1>2, <1>3
<1>5. ASSUME NEW u \in 0 .. B2 - 1 PROVE Negative(u) <=> u >= H
  <2>1. PICK u1 \in Nat, u0 \in Nat : Cut(u, b, u1, u0) /\ u = u1 * b + u0 /\ u0 < b
    <3>1. u \in Nat
      BY <1>2, <1>3
    <3> QED BY <1>1, <3>1, DivMod
  <2>2. Negative(u) <=> u1 >= h
    BY <1>1, <1>4, <2>1 DEF Negative, Cut
  <2>3. CASE u1 >= h
    <3>1. h * b <= u1 * b /\ u1 * b \in Nat
      BY <2>3, TimesLess
    <3> QED BY <1>2, <2>1, <2>2, <2>3, <3>1
  <2>4. CASE ~(u1 >= h)
    <3>0. u1 + 1 \in Nat /\ u1 + 1 <= h
      BY <2>4
    <3>1. (u1 + 1) * b <= h * b
      BY <3>0, TimesLess, Zenon
    <3>2. (u1 + 1) * b = u1 * b + b /\ u1 * b \in Nat
      OBVIOUS
    <3> QED BY <1>2, <2>1, <2>2, <2>4, <3>1, <3>2
  <2> QED BY <2>3, <2>4
<1>6. ASSUME NEW u \in 0 .. B2 - 1 PROVE Negated(u) = IF u = 0 THEN 0 ELSE B2 - u
  <2>1. CASE u = 0
    <3>1. 0 \in Nat /\ 0 < B2 /\ B2 \in Nat
      BY <1>2, <1>3
    <3>2. 0 % B2 = 0
      BY <3>1, Small, Zenon
    <3> QED BY <2>1, <3>2, MinusZero, Zenon DEF Negated
  <2>2. CASE u # 0
    <3>1. PICK x \in Nat : x = B2 - u /\ x < B2 /\ -u = x - B2 /\ B2 \in Nat
      BY <1>2, <1>3, <2>2
    <3>2. (x - B2) % B2 = x
      BY <3>1, Small, Zenon
    <3> QED BY <2>2, <3>1, <3>2 DEF Negated
  <2> QED BY <2>1, <2>2
<1> QED BY <1>2, <1>3, <1>4, <1>5, <1>6 DEF Half

LEMMA MagnitudeIs ==
    ASSUME NEW H, Half(H), NEW u \in 0 .. B2 - 1
    PROVE  \E a \in Nat : /\ a = Magnitude(u) /\ a <= H /\ a \in 0 .. B2 - 1
                          /\ Negative(u) <=> u >= H
                          /\ u < H => a = u /\ SignedValue(u) = a
                          /\ u >= H => a = B2 - u /\ a > 0 /\ SignedValue(u) = -a
<1>1. H \in Nat /\ H > 0 /\ B2 = 2 * H /\ B2 \div 2 = H /\ (Negative(u) <=> u >= H)
  BY DEF Half
<1>2. CASE u < H
  <2>1. Magnitude(u) = u /\ SignedValue(u) = u
    BY <1>1, <1>2 DEF Magnitude, SignedValue
  <2> QED BY <1>1, <1>2, <2>1
<1>3. CASE u >= H
  <2>1. PICK a \in Nat : a = B2 - u /\ a > 0 /\ a <= H /\ u - B2 = -a
    BY <1>1, <1>3
  <2>2. Negated(u) = a
    BY <1>1, <1>3, <2>1 DEF Half
  <2>3. Magnitude(u) = a /\ SignedValue(u) = -a
    BY <1>1, <1>3, <2>1, <2>2 DEF Magnitude, SignedValue
  <2> QED BY <1>1, <1>3, <2>1, <2>3
<1> QED BY <1>1, <1>2, <1>3

(* The sign put before a magnitude.                                        *)
LEMMA SignIs ==
    ASSUME NEW H, Half(H), NEW w \in Nat, w <= H
    PROVE  /\ SignedValue(Negated(w)) = -w
           /\ w < H => SignedValue(w) = w
           /\ w = H => SignedValue(w) = -w
<1>1. H \in Nat /\ H > 0 /\ B2 = 2 * H /\ B2 \div 2 = H /\ w \in 0 .. B2 - 1
  BY DEF Half
<1>2. Negated(w) = IF w = 0 THEN 0 ELSE B2 - w
  BY <1>1 DEF Half
<1>3. SignedValue(Negated(w)) = -w
  <2>1. CASE w = 0
    <3>1. Negated(w) = 0 /\ ~(0 >= B2 \div 2)
      BY <1>1, <1>2, <2>1
    <3>2. SignedValue(0) = 0
      BY <3>1 DEF SignedValue
    <3> QED BY <2>1, <3>1, <3>2, MinusZero, Zenon
  <2>2. CASE w # 0
    <3>1. PICK x \in Nat : x = B2 - w /\ x >= H /\ x - B2 = -w
      BY <1>1, <2>2
    <3> QED BY <1>1, <1>2, <2>2, <3>1 DEF SignedValue
  <2> QED BY <2>1, <2>2
<1>4. w < H => SignedValue(w) = w
  BY <1>1 DEF SignedValue
<1>5. w = H => SignedValue(w) = -w
  BY <1>1 DEF SignedValue
<1> QED BY <1>3, <1>4, <1>5

(* What DividesRight says of the signed numbers.                           *)
SignedRight(N, D, q, r) ==
    /\ (q * D + r - N) % B2 = 0
    /\ Absolute(r) < Absolute(D)
    /\ r # 0 => (r < 0 <=> N < 0)
    /\ ~(N = -(B2 \div 2) /\ D = -1) => q * D + r = N

(* An exact quotient and remainder with the right signs.                   *)
SignedExact(N, D, q, r) ==
    /\ N \in Int /\ D \in Int /\ q \in Int /\ r \in Int
    /\ q * D + r = N
    /\ Absolute(r) < Absolute(D)
    /\ r # 0 => (r < 0 <=> N < 0)

LEMMA ExactIsRight ==
    ASSUME NEW N, NEW D, NEW q, NEW r, SignedExact(N, D, q, r)
    PROVE  SignedRight(N, D, q, r)
<1>0. /\ N \in Int /\ D \in Int /\ q \in Int /\ r \in Int
      /\ q * D + r = N
      /\ Absolute(r) < Absolute(D)
      /\ r # 0 => (r < 0 <=> N < 0)
  BY DEF SignedExact
<1>1. q * D \in Int
  BY <1>0
<1>2. q * D + r - N = 0
  BY <1>0, <1>1
<1>3. 0 % B2 = 0
  <2>1. 0 \in Nat /\ B2 \in Nat /\ 0 < B2
    BY WordIs
  <2> QED BY <2>1, Small, Zenon
<1> QED BY <1>0, <1>2, <1>3 DEF SignedRight

(* __divdi3 and __moddi3.                                                  *)
LEMMA SignedAre ==
    ASSUME NEW n \in 0 .. B2 - 1, NEW d \in 0 .. B2 - 1, d # 0
    PROVE  SignedRight(SignedValue(n), SignedValue(d), SignedValue(divdi3(n, d)),
                       SignedValue(moddi3(n, d)))
<1>1. PICK H : Half(H)
  BY HalfIs
<1>2. H \in Nat /\ H > 0 /\ B2 = 2 * H /\ B2 \div 2 = H
  BY <1>1 DEF Half
<1>3. PICK a \in Nat : /\ a = Magnitude(n) /\ a <= H /\ a \in 0 .. B2 - 1
                       /\ Negative(n) <=> n >= H
                       /\ n < H => a = n /\ SignedValue(n) = a
                       /\ n >= H => a = B2 - n /\ a > 0 /\ SignedValue(n) = -a
  BY <1>1, MagnitudeIs
<1>4. PICK c \in Nat : /\ c = Magnitude(d) /\ c <= H /\ c \in 0 .. B2 - 1
                       /\ Negative(d) <=> d >= H
                       /\ d < H => c = d /\ SignedValue(d) = c
                       /\ d >= H => c = B2 - d /\ c > 0 /\ SignedValue(d) = -c
  BY <1>1, MagnitudeIs
<1>5. c > 0
  BY <1>2, <1>4
<1>6. PICK u : u = udivmoddi4(a, c)
  OBVIOUS
<1>7. PICK w \in Nat, r \in Nat, p \in Nat :
        u.q = w /\ u.r = r /\ p = w * c /\ a = p + r /\ r < c /\ w <= p
  <2>1. Exact(a, c, u)
    BY <1>3, <1>4, <1>5, <1>6, UnsignedIs
  <2>2. \A w \in Nat : w * 1 <= w * c /\ w * c \in Nat
    BY <1>5, TimesLess
  <2> QED BY <2>1, <2>2 DEF Exact
<1>8. w <= H /\ r < H /\ r <= H
  BY <1>2, <1>3, <1>4, <1>7
<1>9. /\ divdi3(n, d) = IF Negative(n) # Negative(d) THEN Negated(w) ELSE w
      /\ moddi3(n, d) = IF Negative(n) THEN Negated(r) ELSE r
  BY <1>3, <1>4, <1>6, <1>7, Zenon DEF divdi3, moddi3
<1>10. PICK wm \in Int, rm \in Int, am \in Int, cm \in Int :
         /\ wm = -w /\ rm = -r /\ am = -a /\ cm = -c
         /\ wm = 0 - w /\ rm = 0 - r /\ am = 0 - a /\ cm = 0 - c
  OBVIOUS
<1>11. SignedValue(Negated(w)) = wm /\ SignedValue(Negated(r)) = rm /\ SignedValue(r) = r
       /\ (w < H => SignedValue(w) = w) /\ (w = H => SignedValue(w) = wm)
  BY <1>1, <1>8, <1>10, SignIs
<1>12. w * cm = 0 - p /\ wm * c = 0 - p /\ wm * cm = p
  <2>1. w * (0 - c) = 0 - w * c /\ (0 - w) * c = 0 - w * c /\ (0 - w) * (0 - c) = w * c
    OBVIOUS
  <2> QED BY <1>7, <1>10, <2>1
<1>13. /\ Absolute(r) = r /\ Absolute(c) = c /\ Absolute(rm) = r /\ Absolute(cm) = c
       /\ r < c
  <2>1. ~(r < 0) /\ ~(c < 0) /\ cm < 0
    BY <1>5, <1>10
  <2>2. Absolute(cm) = c
    <3>1. -cm = c
      BY <1>10
    <3> QED BY <2>1, <3>1 DEF Absolute
  <2>3. Absolute(rm) = r
    <3>1. CASE rm < 0
      <4>1. -rm = r
        BY <1>10
      <4> QED BY <3>1, <4>1 DEF Absolute
    <3>2. CASE ~(rm < 0)
      <4>1. rm = r
        BY <1>10, <3>2
      <4> QED BY <3>2, <4>1 DEF Absolute
    <3> QED BY <3>1, <3>2
  <2> QED BY <1>7, <2>1, <2>2, <2>3 DEF Absolute
<1>18. /\ Absolute(r) < Absolute(c) /\ Absolute(r) < Absolute(cm)
       /\ Absolute(rm) < Absolute(c) /\ Absolute(rm) < Absolute(cm)
  BY <1>13, Zenon
<1>19. /\ a \in Int /\ c \in Int /\ w \in Int /\ r \in Int
       /\ am \in Int /\ cm \in Int /\ wm \in Int /\ rm \in Int
  OBVIOUS
<1> DEFINE N == SignedValue(n)
           D == SignedValue(d)
           q == SignedValue(divdi3(n, d))
           R == SignedValue(moddi3(n, d))
<1>14. CASE n < H /\ d < H
  <2>1. w < H
    BY <1>2, <1>3, <1>7, <1>14
  <2>2. ~Negative(n) /\ ~Negative(d)
    BY <1>2, <1>3, <1>4, <1>14
  <2>3. N = a /\ D = c /\ q = w /\ R = r
    <3>1. N = a /\ D = c
      BY <1>3, <1>4, <1>14
    <3>2. divdi3(n, d) = w /\ moddi3(n, d) = r
      <4>1. Negative(n) = FALSE /\ Negative(d) = FALSE
        BY <2>2 DEF Negative
      <4>2. ~(Negative(n) # Negative(d)) /\ ~Negative(n)
        BY <4>1
      <4> QED BY <1>9, <4>2, Zenon
    <3>3. SignedValue(w) = w /\ SignedValue(r) = r
      BY <1>11, <2>1
    <3> QED BY <3>1, <3>2, <3>3, Zenon
  <2>4. w * c + r = a /\ (r # 0 => (r < 0 <=> a < 0))
    BY <1>7
  <2>5. SignedRight(a, c, w, r)
    <3>1. SignedExact(a, c, w, r)
      BY <1>18, <1>19, <2>4, Zenon DEF SignedExact
    <3> QED BY <3>1, ExactIsRight, Zenon
  <2> QED BY <2>3, <2>5
<1>15. CASE n < H /\ d >= H
  <2>1. ~Negative(n) /\ Negative(d)
    BY <1>2, <1>3, <1>4, <1>15
  <2>2. N = a /\ D = cm /\ q = wm /\ R = r
    BY <1>3, <1>4, <1>9, <1>10, <1>11, <1>15, <2>1
  <2>3. wm * cm + r = a /\ (r # 0 => (r < 0 <=> a < 0))
    BY <1>7, <1>12
  <2>4. SignedRight(a, cm, wm, r)
    <3>1. SignedExact(a, cm, wm, r)
      BY <1>18, <1>19, <2>3, Zenon DEF SignedExact
    <3> QED BY <3>1, ExactIsRight, Zenon
  <2> QED BY <2>2, <2>4
<1>16. CASE n >= H /\ d < H
  <2>1. Negative(n) /\ ~Negative(d)
    BY <1>2, <1>3, <1>4, <1>16
  <2>2. N = am /\ D = c /\ q = wm /\ R = rm
    BY <1>3, <1>4, <1>9, <1>10, <1>11, <1>16, <2>1
  <2>3. wm * c + rm = am /\ (rm # 0 => (rm < 0 <=> am < 0))
    BY <1>3, <1>7, <1>10, <1>12, <1>16
  <2>4. SignedRight(am, c, wm, rm)
    <3>1. SignedExact(am, c, wm, rm)
      BY <1>18, <1>19, <2>3, Zenon DEF SignedExact
    <3> QED BY <3>1, ExactIsRight, Zenon
  <2> QED BY <2>2, <2>4
<1>17. CASE n >= H /\ d >= H
  <2>1. Negative(n) /\ Negative(d)
    BY <1>3, <1>4, <1>17
  <2>2. N = am /\ D = cm /\ R = rm /\ q = SignedValue(w)
    BY <1>3, <1>4, <1>9, <1>10, <1>11, <1>17, <2>1
  <2>3. CASE w < H
    <3>1. w * cm + rm = am /\ (rm # 0 => (rm < 0 <=> am < 0))
      BY <1>3, <1>7, <1>10, <1>12, <1>17
    <3>2. SignedRight(am, cm, w, rm)
      <4>1. SignedExact(am, cm, w, rm)
        BY <1>18, <1>19, <3>1, Zenon DEF SignedExact
      <4> QED BY <4>1, ExactIsRight, Zenon
    <3> QED BY <1>11, <2>2, <2>3, <3>2
  <2>4. CASE w = H
    <3>1. a = H /\ r = 0 /\ p = H /\ c = 1
      <4>1. p = H /\ r = 0 /\ a = H
        BY <1>2, <1>3, <1>7, <2>4
      <4>2. c = 1
        <5> SUFFICES ASSUME 2 <= c PROVE FALSE
          BY <1>5
        <5>1. w * 2 <= w * c
          BY TimesLess
        <5> QED BY <1>2, <1>7, <2>4, <4>1, <5>1
      <4> QED BY <4>1, <4>2
    <3>2. q = wm
      BY <1>11, <2>2, <2>4
    <3>3. wm * cm + rm - am = B2
      BY <1>2, <1>10, <1>12, <3>1
    <3>4. B2 % B2 = 0
      <4>1. Cut(1 * B2 + 0, B2, 1, 0) /\ 1 * B2 + 0 = B2
        <5>1. B2 \in Nat /\ 0 \in Nat /\ 1 \in Int /\ 0 < B2
          BY WordIs
        <5> QED BY <5>1, CutUnique
      <4> QED BY <4>1 DEF Cut
    <3>5. am = -(B2 \div 2) /\ cm = -1
      BY <1>2, <1>10, <3>1
    <3>6. rm # 0 => (rm < 0 <=> am < 0)
      <4>1. 0 - r = 0
        BY <3>1
      <4> QED BY <1>10, <4>1, Zenon
    <3>7. SignedRight(am, cm, wm, rm)
      BY <1>13, <3>3, <3>4, <3>5, <3>6 DEF SignedRight
    <3> QED BY <2>2, <3>2, <3>7
  <2> QED BY <1>8, <1>2, <2>3, <2>4
<1> QED BY <1>2, <1>14, <1>15, <1>16, <1>17

(* DividesRight of every two numbers, which DivisionIsRight checks: 64-bit *)
(* division and remainder are exact for words of every number of bits,     *)
(* however the estimate is put right and whatever the signs are            *)
(* (__udivmoddi4, __divdi3, __moddi3).                                     *)
THEOREM EveryDivisionIsRight == \A n, d \in 0 .. B2 - 1 : DividesRight(n, d)
<1> SUFFICES ASSUME NEW n \in 0 .. B2 - 1, NEW d \in 0 .. B2 - 1 PROVE DividesRight(n, d)
  OBVIOUS
<1>1. CASE d = 0
  BY <1>1, ByZeroIs DEF DividesRight
<1>2. CASE d # 0
  <2>1. Exact(n, d, udivmoddi4(n, d))
    BY <1>2, UnsignedIs
  <2>2. SignedRight(SignedValue(n), SignedValue(d), SignedValue(divdi3(n, d)),
                    SignedValue(moddi3(n, d)))
    BY <1>2, SignedAre
  <2> QED BY <1>2, <2>1, <2>2 DEF DividesRight, Exact, SignedRight
<1> QED BY <1>1, <1>2
-----------------------------------------------------------------------------
(* Sorting.                                                                *)

(* p moves the places in D, and of those only the ones in l .. r.          *)
Moves(p, D, l, r) ==
    /\ p \in [D -> D]
    /\ \A x, y \in D : p[x] = p[y] => x = y
    /\ \A y \in D : \E x \in D : p[x] = y
    /\ \A x \in D : IF x \in l .. r THEN p[x] \in l .. r ELSE p[x] = x

(* b has the elements of a, each once, with only those in l .. r moved.    *)
Rearranges(a, b, D, l, r) == \E p : Moves(p, D, l, r) /\ \A x \in D : b[x] = a[p[x]]

(* Nothing moved is a rearrangement too, and so are two of them.           *)
LEMMA NothingMoved == ASSUME NEW a, NEW D, NEW l, NEW r PROVE Rearranges(a, a, D, l, r)
<1> DEFINE p == [x \in D |-> x]
<1>1. Moves(p, D, l, r)
  BY DEF Moves
<1>2. \A x \in D : a[x] = a[p[x]]
  OBVIOUS
<1> HIDE DEF p
<1> QED BY <1>1, <1>2 DEF Rearranges

LEMMA MovedTwice ==
    ASSUME NEW a, NEW b, NEW c, NEW D, NEW l, NEW r,
           Rearranges(a, b, D, l, r), Rearranges(b, c, D, l, r)
    PROVE  Rearranges(a, c, D, l, r)
<1>1. PICK p : Moves(p, D, l, r) /\ \A x \in D : b[x] = a[p[x]]
  BY DEF Rearranges
<1>2. PICK q : Moves(q, D, l, r) /\ \A x \in D : c[x] = b[q[x]]
  BY DEF Rearranges
<1> DEFINE t == [x \in D |-> p[q[x]]]
<1>3. Moves(t, D, l, r)
  <2>1. t \in [D -> D]
    BY <1>1, <1>2 DEF Moves
  <2>2. \A x, y \in D : t[x] = t[y] => x = y
    BY <1>1, <1>2 DEF Moves
  <2>3. ASSUME NEW y \in D PROVE \E x \in D : t[x] = y
    <3>1. PICK z \in D : p[z] = y
      BY <1>1 DEF Moves
    <3>2. PICK x \in D : q[x] = z
      BY <1>2 DEF Moves
    <3> QED BY <3>1, <3>2
  <2>4. ASSUME NEW x \in D PROVE IF x \in l .. r THEN t[x] \in l .. r ELSE t[x] = x
    <3>1. q[x] \in D /\ IF x \in l .. r THEN q[x] \in l .. r ELSE q[x] = x
      BY <1>2, Zenon DEF Moves
    <3>2. IF q[x] \in l .. r THEN p[q[x]] \in l .. r ELSE p[q[x]] = q[x]
      BY <1>1, <3>1, Zenon DEF Moves
    <3>3. t[x] = p[q[x]]
      OBVIOUS
    <3> HIDE DEF t
    <3> QED BY <3>1, <3>2, <3>3, Zenon
  <2> HIDE DEF t
  <2> QED BY <2>1, <2>2, <2>3, <2>4 DEF Moves
<1>4. \A x \in D : c[x] = a[t[x]]
  BY <1>1, <1>2 DEF Moves
<1> HIDE DEF t
<1> QED BY <1>3, <1>4 DEF Rearranges

(* What moves within m .. s moves within l .. r around it.                 *)
LEMMA MovedWider ==
    ASSUME NEW a, NEW b, NEW D, NEW l \in Int, NEW r \in Int, NEW m \in Int, NEW s \in Int,
           l <= m, s <= r, Rearranges(a, b, D, m, s)
    PROVE  Rearranges(a, b, D, l, r)
<1>1. PICK p : Moves(p, D, m, s) /\ \A x \in D : b[x] = a[p[x]]
  BY DEF Rearranges
<1>2. Moves(p, D, l, r)
  <2>1. ASSUME NEW x \in D PROVE IF x \in l .. r THEN p[x] \in l .. r ELSE p[x] = x
    <3>1. CASE x \in m .. s
      <4>1. p[x] \in m .. s
        BY <1>1, <3>1 DEF Moves
      <4> QED BY <3>1, <4>1
    <3>2. CASE x \notin m .. s
      <4>1. p[x] = x
        BY <1>1, <3>2, Zenon DEF Moves
      <4> QED BY <4>1
    <3> QED BY <3>1, <3>2
  <2> QED BY <1>1, <2>1, Zenon DEF Moves
<1> QED BY <1>1, <1>2 DEF Rearranges

(* b is a with the elements at i and j exchanged.                          *)
Exchanged(a, b, D, i, j) ==
    /\ b[i] = a[j] /\ b[j] = a[i]
    /\ \A x \in D : x # i /\ x # j => b[x] = a[x]

(* exch exchanges two elements and leaves the rest.                        *)
LEMMA ExchIs ==
    ASSUME NEW D, NEW S, NEW a \in [D -> S], NEW i \in D, NEW j \in D
    PROVE  exch(a, i, j) \in [D -> S] /\ Exchanged(a, exch(a, i, j), D, i, j)
BY DEF exch, Exchanged

(* Within the part they are of, that is a rearrangement.                   *)
LEMMA ExchMoves ==
    ASSUME NEW D, NEW S, NEW a \in [D -> S], NEW l, NEW r,
           NEW i \in D, NEW j \in D, i \in l .. r, j \in l .. r
    PROVE  Rearranges(a, exch(a, i, j), D, l, r)
<1> DEFINE p == [x \in D |-> IF x = i THEN j ELSE IF x = j THEN i ELSE x]
<1>1. Moves(p, D, l, r)
  <2>1. p \in [D -> D]
    OBVIOUS
  <2>2. \A x, y \in D : p[x] = p[y] => x = y
    OBVIOUS
  <2>3. \A y \in D : \E x \in D : p[x] = y
    <3> SUFFICES ASSUME NEW y \in D PROVE \E x \in D : p[x] = y
      OBVIOUS
    <3>1. p[p[y]] = y /\ p[y] \in D
      OBVIOUS
    <3> HIDE DEF p
    <3> QED BY <3>1
  <2>4. \A x \in D : IF x \in l .. r THEN p[x] \in l .. r ELSE p[x] = x
    OBVIOUS
  <2> HIDE DEF p
  <2> QED BY <2>1, <2>2, <2>3, <2>4 DEF Moves
<1>2. ASSUME NEW x \in D PROVE exch(a, i, j)[x] = a[p[x]]
  <2>1. Exchanged(a, exch(a, i, j), D, i, j)
    BY ExchIs, Zenon
  <2>2. p[x] = IF x = i THEN j ELSE IF x = j THEN i ELSE x
    OBVIOUS
  <2> HIDE DEF p
  <2> QED BY <2>1, <2>2 DEF Exchanged
<1> HIDE DEF p
<1> QED BY <1>1, <1>2 DEF Rearranges

(* What is known of a rearranged array.                                    *)
LEMMA MovedFrom ==
    ASSUME NEW a, NEW b, NEW D, NEW l, NEW r, Rearranges(a, b, D, l, r), NEW x \in D
    PROVE  /\ x \notin l .. r => b[x] = a[x]
           /\ x \in l .. r => \E y \in D : y \in l .. r /\ b[x] = a[y]
<1>1. PICK p : Moves(p, D, l, r) /\ \A z \in D : b[z] = a[p[z]]
  BY DEF Rearranges
<1>2. p[x] \in D /\ b[x] = a[p[x]] /\ IF x \in l .. r THEN p[x] \in l .. r ELSE p[x] = x
  BY <1>1, Zenon DEF Moves
<1> QED BY <1>2, Zenon

SameElements(a, b, D) == {b[x] : x \in D} = {a[x] : x \in D}

(* It has the same elements.                                               *)
LEMMA MovedRange ==
    ASSUME NEW a, NEW b, NEW D, NEW l, NEW r, Rearranges(a, b, D, l, r)
    PROVE  SameElements(a, b, D)
<1>1. PICK p : Moves(p, D, l, r) /\ \A z \in D : b[z] = a[p[z]]
  BY DEF Rearranges
<1>2. \A x \in D : p[x] \in D
  BY <1>1 DEF Moves
<1>3. \A y \in D : \E x \in D : p[x] = y
  BY <1>1 DEF Moves
<1> QED BY <1>1, <1>2, <1>3 DEF SameElements

(* The larger of 0 and n.                                                  *)
LEMMA MaxOfZero ==
    ASSUME NEW n \in Int
    PROVE  Max({0, n}) = IF n <= 0 THEN 0 ELSE n
<1>1. \E x \in {0, n} : \A y \in {0, n} : x >= y
  <2>1. CASE n <= 0
    BY <2>1
  <2>2. CASE 0 <= n
    BY <2>2
  <2> QED BY <2>1, <2>2
<1>2. Max({0, n}) \in {0, n} /\ \A y \in {0, n} : Max({0, n}) >= y
  BY <1>1 DEF Max
<1> QED BY <1>2

(* b is a after from + k and to - k have been exchanged for k below n.      *)
Mirrored(a, b, from, to, n) ==
    \A x \in from .. to :
      LET y == from + to - x
          early == x - from < n
          late == to - x < n
      IN  /\ (early /\ ~late) \/ (late /\ ~early) => b[x] = a[y]
          /\ ~early /\ ~late => b[x] = a[x]
          /\ b[x] = a[x] \/ b[x] = a[y]

(* The k-th exchange.                                                      *)
LEMMA MirrorOne ==
    ASSUME NEW D \in SUBSET Int, NEW S, NEW a \in [D -> S], NEW b \in [D -> S],
           NEW from \in Int, NEW to \in Int, from .. to \subseteq D,
           NEW k \in Nat, k < to - from + 1, Mirrored(a, b, from, to, k)
    PROVE  Mirrored(a, exch(b, from + k, to - k), from, to, k + 1)
<1>1. PICK i \in Int, j \in Int : i = from + k /\ j = to - k
  OBVIOUS
<1>2. i \in from .. to /\ j \in from .. to /\ i \in D /\ j \in D
  BY <1>1
<1>3. PICK c : c = exch(b, i, j)
  OBVIOUS
<1>4. c[i] = b[j] /\ c[j] = b[i] /\ \A x \in D : x # i /\ x # j => c[x] = b[x]
  <2>1. Exchanged(b, c, D, i, j)
    BY <1>2, <1>3, ExchIs, Zenon
  <2> QED BY <2>1 DEF Exchanged
<1>5. ASSUME NEW x \in from .. to
      PROVE  LET y == from + to - x
                 early == x - from < k + 1
                 late == to - x < k + 1
             IN  /\ (early /\ ~late) \/ (late /\ ~early) => c[x] = a[y]
                 /\ ~early /\ ~late => c[x] = a[x]
                 /\ c[x] = a[x] \/ c[x] = a[y]
  <2>1. PICK y \in Int : y = from + to - x /\ y \in from .. to /\ from + to - y = x
                         /\ y - from = to - x /\ to - y = x - from
    OBVIOUS
  <2>2. /\ (x - from < k /\ ~(to - x < k)) \/ (to - x < k /\ ~(x - from < k)) => b[x] = a[y]
        /\ ~(x - from < k) /\ ~(to - x < k) => b[x] = a[x]
        /\ b[x] = a[x] \/ b[x] = a[y]
    BY <2>1 DEF Mirrored
  <2>3. /\ (y - from < k /\ ~(to - y < k)) \/ (to - y < k /\ ~(y - from < k)) => b[y] = a[x]
        /\ ~(y - from < k) /\ ~(to - y < k) => b[y] = a[y]
        /\ b[y] = a[y] \/ b[y] = a[x]
    BY <2>1 DEF Mirrored
  <2>4. CASE x = i \/ x = j
    <3>1. c[x] = b[y]
      BY <1>1, <1>4, <2>1, <2>4
    <3> QED BY <1>1, <2>1, <2>3, <2>4, <3>1
  <2>5. CASE x # i /\ x # j
    <3>1. c[x] = b[x]
      BY <1>4, <2>5
    <3>2. (x - from < k + 1 <=> x - from < k) /\ (to - x < k + 1 <=> to - x < k)
      BY <1>1, <2>5
    <3> QED BY <2>1, <2>2, <3>1, <3>2
  <2> QED BY <2>4, <2>5
<1> QED BY <1>1, <1>3, <1>5 DEF Mirrored

(* What the loop of exchanges makes of an array.                           *)
LEMMA SwappedIs ==
    ASSUME NEW D \in SUBSET Int, NEW S, NEW a \in [D -> S],
           NEW from \in Int, NEW to \in Int, from .. to \subseteq D,
           NEW n \in Int, n > 0 => n <= to - from + 1
    PROVE  /\ Swapped(a, from, to, n) \in [D -> S]
           /\ Mirrored(a, Swapped(a, from, to, n), from, to, n)
           /\ Rearranges(a, Swapped(a, from, to, n), D, from, to)
<1>1. PICK N \in Nat : N = Max({0, n}) /\ N = (IF n <= 0 THEN 0 ELSE n)
  BY MaxOfZero
<1> DEFINE X == [D -> S]
           one(k, b) == exch(b, from + (k - 1), to - (k - 1))
           step == [k \in 0 + 1 .. N |-> [b \in X |-> one(k, b)]]
           H(h) == [k \in 0 .. N |-> IF k = 0 THEN a ELSE one(k, h[k - 1])]
           swap == CHOOSE h : h = H(h)
<1>2. ASSUME NEW k \in 1 .. N
      PROVE  /\ from + (k - 1) \in D /\ to - (k - 1) \in D
             /\ from + (k - 1) \in from .. to /\ to - (k - 1) \in from .. to
  BY <1>1
<1>3. ASSUME NEW k \in 1 .. N, NEW b \in X PROVE one(k, b) \in X
  BY <1>2, ExchIs, Zenon
<1>4. PICK f \in [0 .. N -> X] : Stepwise(f, 0, N, a, step)
  <2>1. step \in [0 + 1 .. N -> [X -> X]]
    <3>1. \A k \in 0 + 1 .. N : [b \in X |-> one(k, b)] \in [X -> X]
      <4> HIDE DEF X, one
      <4> QED BY <1>3
    <3> HIDE DEF X, one
    <3> QED BY <3>1
  <2>2. 0 \in Nat /\ 0 <= N /\ a \in X
    OBVIOUS
  <2> HIDE DEF X, step
  <2> QED BY <2>1, <2>2, StepwiseExists
<1>5. f[0] = a /\ \A k \in 1 .. N : f[k] = one(k, f[k - 1]) /\ f[k - 1] \in X
  <2>1. f[0] = a
    BY <1>4 DEF Stepwise
  <2>2. ASSUME NEW k \in 1 .. N PROVE f[k] = one(k, f[k - 1]) /\ f[k - 1] \in X
    <3>1. k \in 0 + 1 .. N /\ k - 1 \in 0 .. N
      OBVIOUS
    <3>2. f[k] = step[k][f[k - 1]] /\ f[k - 1] \in X
      <4> HIDE DEF X, step
      <4> QED BY <1>4, <3>1 DEF Stepwise
    <3> HIDE DEF X, one
    <3> QED BY <3>1, <3>2
  <2> QED BY <2>1, <2>2
<1>6. f = H(f)
  <2> HIDE DEF one, X
  <2> QED BY <1>4, <1>5
<1>7. swap = H(swap)
  <2> HIDE DEF H
  <2> QED BY <1>6
<1>8. swap = f
  <2> DEFINE T == {k \in 0 .. N : swap[k] = f[k]}
  <2>1. 0 \in T
    <3>1. swap[0] = a
      <4> HIDE DEF one, swap
      <4> QED BY <1>7
    <3> HIDE DEF swap
    <3> QED BY <1>5, <3>1
  <2>2. ASSUME NEW k \in 1 .. N, k - 1 \in T PROVE k \in T
    <3>1. swap[k] = one(k, swap[k - 1])
      <4> HIDE DEF one, swap
      <4> QED BY <1>7
    <3> HIDE DEF one, swap
    <3> QED BY <1>5, <2>2, <3>1
  <2>3. 0 .. N \subseteq T
    <3> HIDE DEF T
    <3> QED BY <2>1, <2>2, RangeInduction
  <2> HIDE DEF one, swap
  <2> QED BY <1>6, <1>7, <2>3
<1>9. Swapped(a, from, to, n) = f[N]
  <2> HIDE DEF swap, one
  <2>1. Swapped(a, from, to, n) = swap[N]
    <3> USE DEF swap, one
    <3> QED BY <1>1 DEF Swapped
  <2> QED BY <1>8, <2>1
<1> DEFINE T == {k \in 0 .. N : /\ Mirrored(a, f[k], from, to, k)
                                /\ Rearranges(a, f[k], D, from, to)}
<1>10. 0 \in T
  <2>1. Mirrored(a, a, from, to, 0)
    BY DEF Mirrored
  <2>2. Rearranges(a, a, D, from, to)
    BY NothingMoved
  <2> QED BY <1>5, <2>1, <2>2
<1>11. ASSUME NEW k \in 1 .. N, k - 1 \in T PROVE k \in T
  <2>1. PICK b : b = f[k - 1] /\ b \in [D -> S]
    BY <1>5
  <2>2. f[k] = exch(b, from + (k - 1), to - (k - 1))
    BY <1>5, <2>1
  <2>3. Mirrored(a, b, from, to, k - 1) /\ Rearranges(a, b, D, from, to)
    BY <1>11, <2>1
  <2>4. k - 1 \in Nat /\ k - 1 < to - from + 1 /\ (k - 1) + 1 = k
    BY <1>1
  <2>5. Mirrored(a, f[k], from, to, k)
    BY <2>1, <2>2, <2>3, <2>4, MirrorOne
  <2>6. Rearranges(b, f[k], D, from, to)
    <3>1. PICK i \in D, j \in D : /\ i = from + (k - 1) /\ j = to - (k - 1)
                                 /\ i \in from .. to /\ j \in from .. to
      BY <1>2
    <3>2. Rearranges(b, exch(b, i, j), D, from, to)
      BY <2>1, <3>1, ExchMoves, Zenon
    <3> QED BY <2>2, <3>1, <3>2
  <2>7. Rearranges(a, f[k], D, from, to)
    BY <2>3, <2>6, MovedTwice
  <2> QED BY <2>5, <2>7
<1>12. N \in T
  <2>1. 0 .. N \subseteq T
    <3> HIDE DEF T
    <3> QED BY <1>10, <1>11, RangeInduction
  <2> QED BY <2>1
<1>13. Mirrored(a, f[N], from, to, n)
  <2>1. Mirrored(a, f[N], from, to, N)
    BY <1>12
  <2>2. n = N \/ (n <= 0 /\ N = 0)
    BY <1>1
  <2>3. \A x \in from .. to : (x - from < n <=> x - from < N) /\ (to - x < n <=> to - x < N)
    BY <2>2
  <2> HIDE DEF T
  <2> QED BY <2>1, <2>3 DEF Mirrored
<1> QED BY <1>4, <1>9, <1>12, <1>13

(* Elements have keys, numbers of any size.                                *)
Keyed(S) == \A e \in S : e.key \in Int

(* The state of the loop.                                                  *)
Loops(D, S) == [a : [D -> S], i : Int, j : Int, p : Int, q : Int]

(* b has elements equal to v in l .. p and q .. r, smaller ones from p to  *)
(* i and larger ones from j to q.                                          *)
SidesAre(b, v, l, r, p, i, j, q) ==
    /\ \A x \in l .. p : b[x].key = v.key
    /\ \A x \in p + 1 .. i : b[x].key < v.key
    /\ \A x \in j .. q - 1 : b[x].key > v.key
    /\ \A x \in q .. r : b[x].key = v.key

(* Between two rounds of the loop.                                         *)
Running(s, v, l, r) ==
    /\ l - 1 <= s.p /\ s.p <= s.i /\ s.i < s.j /\ l < s.j /\ s.j <= s.q /\ s.q <= r
    /\ SidesAre(s.a, v, l, r, s.p, s.i, s.j, s.q)

(* After i and j have met.                                                 *)
Met(s, v, l, r) ==
    /\ l - 1 <= s.p /\ s.p < s.i /\ l <= s.i /\ s.i <= s.q /\ s.q <= r /\ s.j <= s.i
    /\ SidesAre(s.a, v, l, r, s.p, s.i - 1, s.i + 1, s.q)
    /\ s.a[s.i].key >= v.key

(* After an exchange: the elements at i and at j are on their sides.       *)
HasExchanged(s, v, l, r) ==
    /\ l - 1 <= s.p /\ s.p < s.i /\ s.i < s.j /\ s.j < s.q /\ s.q <= r
    /\ SidesAre(s.a, v, l, r, s.p, s.i - 1, s.j + 1, s.q)
    /\ s.a[s.i].key <= v.key /\ s.a[s.j].key >= v.key

HasLeft(s, v, l, r) ==
    /\ l - 1 <= s.p /\ s.p <= s.i /\ l <= s.i /\ s.i < s.j /\ s.j < s.q /\ s.q <= r
    /\ SidesAre(s.a, v, l, r, s.p, s.i, s.j + 1, s.q)
    /\ s.a[s.j].key >= v.key

(* Another state, with some elements moved.                                *)
Turns(s, t, D, S, l, r) == t \in Loops(D, S) /\ Rearranges(s.a, t.a, D, l, r)

(* Line 31 of qsort.c: an element equal to the pivot goes to the left end. *)
LEMMA LeftIsRight ==
    ASSUME NEW D \in SUBSET Int, NEW S, Keyed(S), NEW v \in S, NEW l \in Int, NEW r \in Int,
           l .. r \subseteq D, NEW s \in Loops(D, S), HasExchanged(s, v, l, r)
    PROVE  LET t == EqualLeft(s, v)
           IN  Turns(s, t, D, S, l, r) /\ HasLeft(t, v, l, r) /\ t.i = s.i /\ t.j = s.j
<1>1. PICK b \in [D -> S], i \in Int, j \in Int, p \in Int, q \in Int :
        s = [a |-> b, i |-> i, j |-> j, p |-> p, q |-> q]
  BY DEF Loops
<1>2. /\ l - 1 <= p /\ p < i /\ i < j /\ j < q /\ q <= r
      /\ SidesAre(b, v, l, r, p, i - 1, j + 1, q)
      /\ b[i].key <= v.key /\ b[j].key >= v.key
  BY <1>1 DEF HasExchanged
<1>3. i \in l .. r /\ p + 1 \in l .. r /\ i \in D /\ p + 1 \in D
  BY <1>2
<1>4. v.key \in Int /\ \A x \in D : b[x].key \in Int
  BY DEF Keyed
<1>5. CASE b[i].key # v.key
  <2>1. EqualLeft(s, v) = s
    BY <1>1, <1>3, <1>4, <1>5 DEF EqualLeft, compar
  <2>2. \A x \in p + 1 .. i : b[x].key < v.key
    BY <1>2, <1>3, <1>4, <1>5 DEF SidesAre
  <2>3. HasLeft(s, v, l, r)
    BY <1>1, <1>2, <2>2 DEF HasLeft, SidesAre
  <2>4. Turns(s, s, D, S, l, r)
    BY NothingMoved DEF Turns
  <2> QED BY <2>1, <2>3, <2>4
<1>6. CASE b[i].key = v.key
  <2>1. PICK c : c = exch(b, p + 1, i)
    OBVIOUS
  <2>2. c \in [D -> S] /\ Exchanged(b, c, D, p + 1, i)
    BY <1>3, <2>1, ExchIs, Zenon
  <2>3. Rearranges(b, c, D, l, r)
    BY <1>3, <2>1, ExchMoves, Zenon
  <2>4. PICK t : t = [a |-> c, i |-> i, j |-> j, p |-> p + 1, q |-> q]
    OBVIOUS
  <2>5. EqualLeft(s, v) = t
    <3>1. compar(s.a[s.i], v) = 0
      BY <1>1, <1>3, <1>4, <1>6 DEF compar
    <3>2. EqualLeft(s, v) = [s EXCEPT !.p = @ + 1, !.a = exch(@, s.p + 1, s.i)]
      BY <3>1 DEF EqualLeft
    <3>3. EqualLeft(s, v) = [s EXCEPT !.p = p + 1, !.a = c]
      BY <1>1, <2>1, <3>2
    <3> QED BY <1>1, <2>4, <3>3
  <2>6. c[p + 1].key = v.key /\ \A x \in D : x # p + 1 /\ x # i => c[x] = b[x]
    BY <1>6, <2>2 DEF Exchanged
  <2>7. p + 1 < i => c[i].key < v.key
    <3>1. p + 1 < i => b[p + 1].key < v.key
      BY <1>2 DEF SidesAre
    <3> QED BY <2>2, <3>1 DEF Exchanged
  <2>8. SidesAre(c, v, l, r, p + 1, i, j + 1, q)
    <3>1. \A x \in l .. r : x \in D
      OBVIOUS
    <3>2. ASSUME NEW x \in l .. p + 1 PROVE c[x].key = v.key
      <4>1. CASE x = p + 1
        BY <2>6, <4>1
      <4>2. CASE x # p + 1
        BY <1>2, <2>6, <3>1, <4>2 DEF SidesAre
      <4> QED BY <4>1, <4>2
    <3>3. ASSUME NEW x \in (p + 1) + 1 .. i PROVE c[x].key < v.key
      <4>1. CASE x = i
        BY <2>7, <4>1
      <4>2. CASE x # i
        BY <1>2, <1>3, <2>6, <3>1, <4>2 DEF SidesAre
      <4> QED BY <4>1, <4>2
    <3>4. ASSUME NEW x \in j + 1 .. r PROVE c[x] = b[x]
      BY <1>2, <2>6, <3>1
    <3> QED BY <1>2, <3>2, <3>3, <3>4 DEF SidesAre
  <2>9. c[j] = b[j]
    BY <1>2, <2>6
  <2>10. HasLeft(t, v, l, r)
    BY <1>2, <2>4, <2>8, <2>9 DEF HasLeft
  <2>11. Turns(s, t, D, S, l, r)
    BY <1>1, <2>2, <2>3, <2>4 DEF Turns, Loops
  <2> QED BY <1>1, <2>4, <2>5, <2>10, <2>11
<1> QED BY <1>5, <1>6

(* Line 32: or to the right end.                                           *)
LEMMA RightIsRight ==
    ASSUME NEW D \in SUBSET Int, NEW S, Keyed(S), NEW v \in S, NEW l \in Int, NEW r \in Int,
           l .. r \subseteq D, NEW s \in Loops(D, S), HasLeft(s, v, l, r)
    PROVE  LET t == EqualRight(s, v)
           IN  Turns(s, t, D, S, l, r) /\ Running(t, v, l, r) /\ t.i = s.i /\ t.j = s.j
<1>1. PICK b \in [D -> S], i \in Int, j \in Int, p \in Int, q \in Int :
        s = [a |-> b, i |-> i, j |-> j, p |-> p, q |-> q]
  BY DEF Loops
<1>2. /\ l - 1 <= p /\ p <= i /\ l <= i /\ i < j /\ j < q /\ q <= r
      /\ SidesAre(b, v, l, r, p, i, j + 1, q)
      /\ b[j].key >= v.key
  BY <1>1 DEF HasLeft
<1>3. j \in l .. r /\ q - 1 \in l .. r /\ j \in D /\ q - 1 \in D
  BY <1>2
<1>4. v.key \in Int /\ \A x \in D : b[x].key \in Int
  BY DEF Keyed
<1>5. CASE b[j].key # v.key
  <2>1. EqualRight(s, v) = s
    BY <1>1, <1>3, <1>4, <1>5 DEF EqualRight, compar
  <2>2. \A x \in j .. q - 1 : b[x].key > v.key
    BY <1>2, <1>3, <1>4, <1>5 DEF SidesAre
  <2>3. Running(s, v, l, r)
    BY <1>1, <1>2, <2>2 DEF Running, SidesAre
  <2>4. Turns(s, s, D, S, l, r)
    BY NothingMoved DEF Turns
  <2> QED BY <2>1, <2>3, <2>4
<1>6. CASE b[j].key = v.key
  <2>1. PICK c : c = exch(b, j, q - 1)
    OBVIOUS
  <2>2. c \in [D -> S] /\ Exchanged(b, c, D, j, q - 1)
    BY <1>3, <2>1, ExchIs, Zenon
  <2>3. Rearranges(b, c, D, l, r)
    BY <1>3, <2>1, ExchMoves, Zenon
  <2>4. PICK t : t = [a |-> c, i |-> i, j |-> j, p |-> p, q |-> q - 1]
    OBVIOUS
  <2>5. EqualRight(s, v) = t
    <3>1. compar(v, s.a[s.j]) = 0
      BY <1>1, <1>3, <1>4, <1>6 DEF compar
    <3>2. EqualRight(s, v) = [s EXCEPT !.q = @ - 1, !.a = exch(@, s.j, s.q - 1)]
      BY <3>1 DEF EqualRight
    <3>3. EqualRight(s, v) = [s EXCEPT !.q = q - 1, !.a = c]
      BY <1>1, <2>1, <3>2
    <3> QED BY <1>1, <2>4, <3>3
  <2>6. c[q - 1].key = v.key /\ \A x \in D : x # j /\ x # q - 1 => c[x] = b[x]
    BY <1>6, <2>2 DEF Exchanged
  <2>7. j < q - 1 => c[j].key > v.key
    <3>1. j < q - 1 => b[q - 1].key > v.key
      BY <1>2 DEF SidesAre
    <3> QED BY <2>2, <3>1 DEF Exchanged
  <2>8. SidesAre(c, v, l, r, p, i, j, q - 1)
    <3>1. \A x \in l .. r : x \in D
      OBVIOUS
    <3>2. ASSUME NEW x \in q - 1 .. r PROVE c[x].key = v.key
      <4>1. CASE x = q - 1
        BY <2>6, <4>1
      <4>2. CASE x # q - 1
        BY <1>2, <2>6, <3>1, <4>2 DEF SidesAre
      <4> QED BY <4>1, <4>2
    <3>3. ASSUME NEW x \in j .. (q - 1) - 1 PROVE c[x].key > v.key
      <4>1. CASE x = j
        BY <2>7, <4>1
      <4>2. CASE x # j
        BY <1>2, <1>3, <2>6, <3>1, <4>2 DEF SidesAre
      <4> QED BY <4>1, <4>2
    <3>4. ASSUME NEW x \in l .. i PROVE c[x] = b[x]
      BY <1>2, <2>6, <3>1
    <3> QED BY <1>2, <3>2, <3>3, <3>4 DEF SidesAre
  <2>10. Running(t, v, l, r)
    BY <1>2, <2>4, <2>8 DEF Running
  <2>11. Turns(s, t, D, S, l, r)
    BY <1>1, <2>2, <2>3, <2>4 DEF Turns, Loops
  <2> QED BY <1>1, <2>4, <2>5, <2>10, <2>11
<1> QED BY <1>5, <1>6

(* The scan from the left stops at the first element that stops it.        *)
LEMMA ScanRight ==
    ASSUME NEW m \in Nat, NEW r \in Nat, m <= r, NEW T \in SUBSET (m .. r), r \in T
    PROVE  Min(T) \in T /\ \A k \in m .. Min(T) - 1 : k \notin T
<1>1. T \subseteq Nat /\ T # {}
  OBVIOUS
<1>2. PICK x \in T : \A y \in T : x <= y
  BY <1>1, LeastElement
<1>3. Min(T) \in T /\ \A y \in T : Min(T) <= y
  BY <1>2, Zenon DEF Min
<1>4. PICK g \in m .. r : g = Min(T)
  BY <1>3
<1> QED BY <1>3, <1>4

(* The scan from the right.                                                *)
LEMMA ScanLeft ==
    ASSUME NEW l \in Nat, NEW m \in Nat, l <= m, NEW T \in SUBSET (l .. m), l \in T
    PROVE  Max(T) \in T /\ \A k \in Max(T) + 1 .. m : k \notin T
<1> DEFINE U == {n \in Nat : n <= m /\ m - n \in T}
<1>1. U \subseteq Nat /\ m - l \in U
  OBVIOUS
<1>2. PICK n \in U : \A y \in U : n <= y
  <2> HIDE DEF U
  <2> QED BY <1>1, LeastElement
<1>3. m - n \in T
  BY <1>2
<1>4. \A y \in T : m - n >= y
  <2> SUFFICES ASSUME NEW y \in T PROVE m - n >= y
    OBVIOUS
  <2>1. m - y \in U
    OBVIOUS
  <2>2. n <= m - y
    BY <1>2, <2>1
  <2> QED BY <2>2
<1>5. Max(T) \in T /\ \A y \in T : Max(T) >= y
  <2>1. PICK g \in T : \A y \in T : g >= y
    BY <1>3, <1>4
  <2> QED BY <2>1, Zenon DEF Max
<1>6. PICK h \in l .. m : h = Max(T)
  BY <1>5
<1> QED BY <1>5, <1>6

(* A round of the loop (lines 26 to 33): i and j come nearer or have met.  *)
LEMMA RoundIsRight ==
    ASSUME NEW D \in SUBSET Int, NEW S, Keyed(S), NEW v \in S, NEW l \in Nat, NEW r \in Nat,
           l < r, l .. r \subseteq D, NEW s \in Loops(D, S), Running(s, v, l, r)
    PROVE  LET t == Round(s, l, r)
           IN  /\ Turns(s, t, D, S, l, r)
               /\ \/ Met(t, v, l, r)
                  \/ Running(t, v, l, r) /\ t.j - t.i < s.j - s.i
<1>1. PICK b \in [D -> S], i0 \in Int, j0 \in Int, p \in Int, q \in Int :
        s = [a |-> b, i |-> i0, j |-> j0, p |-> p, q |-> q]
  BY DEF Loops
<1>2. /\ l - 1 <= p /\ p <= i0 /\ i0 < j0 /\ l < j0 /\ j0 <= q /\ q <= r
      /\ SidesAre(b, v, l, r, p, i0, j0, q)
  BY <1>1 DEF Running
<1>3. v.key \in Int /\ \A x \in D : b[x].key \in Int
  BY DEF Keyed
<1>4. PICK w \in S : w = b[r] /\ w.key = v.key
  <2>1. r \in D /\ r \in q .. r
    BY <1>2
  <2> QED BY <1>2, <2>1 DEF SidesAre
<1> DEFINE Stops == {k \in i0 + 1 .. r : k = r \/ compar(b[k], w) >= 0}
           Halts == {k \in l .. j0 - 1 : k = l \/ compar(w, b[k]) >= 0}
<1>5. \A x \in l .. r : x \in D
  OBVIOUS
<1>6. PICK i \in i0 + 1 .. r : /\ i = Min(Stops) /\ i \in l .. r
                               /\ i = r \/ b[i].key >= v.key
                               /\ \A k \in i0 + 1 .. i - 1 : b[k].key < v.key
  <2>1. i0 + 1 \in Nat /\ i0 + 1 <= r /\ Stops \in SUBSET (i0 + 1 .. r) /\ r \in Stops
    BY <1>2
  <2>2. Min(Stops) \in Stops /\ \A k \in i0 + 1 .. Min(Stops) - 1 : k \notin Stops
    <3> HIDE DEF Stops
    <3> QED BY <2>1, ScanRight
  <2>3. Min(Stops) \in i0 + 1 .. r /\ Min(Stops) \in l .. r
    BY <1>2, <2>2
  <2>4. Min(Stops) = r \/ b[Min(Stops)].key >= v.key
    <3>1. PICK m \in i0 + 1 .. r : m = Min(Stops) /\ m \in l .. r
      BY <2>3
    <3>2. m = r \/ compar(b[m], w) >= 0
      BY <2>2, <3>1
    <3> HIDE DEF Stops
    <3> QED BY <1>3, <1>4, <1>5, <3>1, <3>2 DEF compar
  <2>5. ASSUME NEW k \in i0 + 1 .. Min(Stops) - 1 PROVE b[k].key < v.key
    <3>1. k \in i0 + 1 .. r /\ k \in l .. r
      BY <1>2, <2>3
    <3>2. ~(compar(b[k], w) >= 0)
      BY <2>2, <3>1
    <3> HIDE DEF Stops
    <3> QED BY <1>3, <1>4, <1>5, <3>1, <3>2 DEF compar
  <2> HIDE DEF Stops
  <2> QED BY <2>3, <2>4, <2>5
<1>7. PICK j \in l .. j0 - 1 : /\ j = Max(Halts) /\ j \in l .. r
                               /\ j = l \/ b[j].key <= v.key
                               /\ \A k \in j + 1 .. j0 - 1 : b[k].key > v.key
  <2>1. j0 - 1 \in Nat /\ l <= j0 - 1 /\ Halts \in SUBSET (l .. j0 - 1) /\ l \in Halts
    BY <1>2
  <2>2. Max(Halts) \in Halts /\ \A k \in Max(Halts) + 1 .. j0 - 1 : k \notin Halts
    <3> HIDE DEF Halts
    <3> QED BY <2>1, ScanLeft
  <2>3. Max(Halts) \in l .. j0 - 1 /\ Max(Halts) \in l .. r
    BY <1>2, <2>2
  <2>4. Max(Halts) = l \/ b[Max(Halts)].key <= v.key
    <3>1. PICK m \in l .. j0 - 1 : m = Max(Halts) /\ m \in l .. r
      BY <2>3
    <3>2. m = l \/ compar(w, b[m]) >= 0
      BY <2>2, <3>1
    <3> HIDE DEF Halts
    <3> QED BY <1>3, <1>4, <1>5, <3>1, <3>2 DEF compar
  <2>5. ASSUME NEW k \in Max(Halts) + 1 .. j0 - 1 PROVE b[k].key > v.key
    <3>1. k \in l .. j0 - 1 /\ k \in l .. r
      BY <1>2, <2>3
    <3>2. ~(compar(w, b[k]) >= 0)
      BY <2>2, <3>1
    <3> HIDE DEF Halts
    <3> QED BY <1>3, <1>4, <1>5, <3>1, <3>2 DEF compar
  <2> HIDE DEF Halts
  <2> QED BY <2>3, <2>4, <2>5
<1>8. CASE i >= j
  <2>1. PICK t : t = [a |-> b, i |-> i, j |-> j, p |-> p, q |-> q]
    OBVIOUS
  <2>2. Round(s, l, r) = t
    <3>1. ~(s.i >= s.j) /\ s.a[r] = w
      BY <1>1, <1>2, <1>4
    <3>2. i = Min({k \in s.i + 1 .. r : k = r \/ compar(s.a[k], w) >= 0})
      BY <1>1, <1>6
    <3>3. j = Max({k \in l .. s.j - 1 : k = l \/ compar(w, s.a[k]) >= 0})
      BY <1>1, <1>7
    <3>4. Round(s, l, r) = [s EXCEPT !.i = i, !.j = j]
      <4> HIDE DEF Stops, Halts
      <4> QED BY <1>8, <3>1, <3>2, <3>3, Zenon DEF Round
    <3> HIDE DEF Stops, Halts
    <3> QED BY <1>1, <2>1, <3>4
  <2> HIDE DEF Stops, Halts
  <2>3. Turns(s, t, D, S, l, r)
    BY <1>1, <2>1, NothingMoved DEF Turns, Loops
  <2>4. i <= q
    <3>1. q \in q .. r /\ b[q].key = v.key
      BY <1>2 DEF SidesAre
    <3>2. SUFFICES ASSUME i > q PROVE FALSE
      BY <1>2
    <3>3. q \in i0 + 1 .. i - 1
      BY <1>2, <3>2
    <3>4. b[q].key < v.key
      BY <1>6, <3>3
    <3> QED BY <1>3, <3>1, <3>4
  <2>5. b[i].key >= v.key
    BY <1>3, <1>4, <1>6
  <2>6. SidesAre(b, v, l, r, p, i - 1, i + 1, q)
    <3>1. \A x \in p + 1 .. i - 1 : b[x].key < v.key
      BY <1>2, <1>6 DEF SidesAre
    <3>2. \A x \in i + 1 .. q - 1 : b[x].key > v.key
      BY <1>2, <1>7, <1>8 DEF SidesAre
    <3> QED BY <1>2, <3>1, <3>2 DEF SidesAre
  <2>7. Met(t, v, l, r)
    BY <1>2, <1>6, <1>8, <2>1, <2>4, <2>5, <2>6 DEF Met
  <2> QED BY <2>2, <2>3, <2>7
<1>9. CASE i < j
  <2>1. PICK c : c = exch(b, i, j)
    OBVIOUS
  <2>2. PICK t : t = [a |-> c, i |-> i, j |-> j, p |-> p, q |-> q]
    OBVIOUS
  <2>3. Round(s, l, r) = EqualRight(EqualLeft(t, w), w)
    <3>1. ~(s.i >= s.j) /\ s.a[r] = w /\ ~(i >= j)
      BY <1>1, <1>2, <1>4, <1>9
    <3>2. i = Min({k \in s.i + 1 .. r : k = r \/ compar(s.a[k], w) >= 0})
      BY <1>1, <1>6
    <3>3. j = Max({k \in l .. s.j - 1 : k = l \/ compar(w, s.a[k]) >= 0})
      BY <1>1, <1>7
    <3> HIDE DEF Stops, Halts
    <3>4. t = [s EXCEPT !.a = exch(@, i, j), !.i = i, !.j = j]
      <4>1. t = [s EXCEPT !.a = c, !.i = i, !.j = j]
        <5>1. PICK u : u = [a |-> c, i |-> i0, j |-> j0, p |-> p, q |-> q]
          OBVIOUS
        <5>2. u = [s EXCEPT !.a = c]
          BY <1>1, <5>1
        <5>3. PICK x : x = [a |-> c, i |-> i, j |-> j0, p |-> p, q |-> q]
          OBVIOUS
        <5>4. x = [u EXCEPT !.i = i]
          BY <5>1, <5>3
        <5>5. t = [x EXCEPT !.j = j]
          BY <2>2, <5>3
        <5> QED BY <5>2, <5>4, <5>5, Zenon
      <4>2. exch(s.a, i, j) = c
        BY <1>1, <2>1
      <4> QED BY <4>1, <4>2
    <3> QED BY <3>1, <3>2, <3>3, <3>4, Zenon DEF Round
  <2> HIDE DEF Stops, Halts
  <2>4. i \in D /\ j \in D
    BY <1>5, <1>6, <1>7
  <2>5. c \in [D -> S] /\ Exchanged(b, c, D, i, j)
    BY <2>1, <2>4, ExchIs, Zenon
  <2>6. Rearranges(b, c, D, l, r)
    BY <1>6, <1>7, <2>1, <2>4, ExchMoves, Zenon
  <2>7. t \in Loops(D, S) /\ Turns(s, t, D, S, l, r)
    BY <1>1, <2>2, <2>5, <2>6 DEF Turns, Loops
  <2>8. /\ c[i].key <= v.key /\ c[j].key >= v.key
        /\ \A x \in D : x # i /\ x # j => c[x] = b[x]
    BY <1>2, <1>6, <1>7, <1>9, <2>5 DEF Exchanged
  <2>9. SidesAre(c, v, l, r, p, i - 1, j + 1, q)
    <3>1. ASSUME NEW x \in l .. p PROVE c[x].key = v.key
      BY <1>2, <1>5, <1>9, <2>8 DEF SidesAre
    <3>2. ASSUME NEW x \in p + 1 .. i - 1 PROVE c[x].key < v.key
      <4>1. c[x] = b[x]
        BY <1>2, <1>5, <1>6, <1>9, <2>8
      <4> QED BY <1>2, <1>6, <4>1 DEF SidesAre
    <3>3. ASSUME NEW x \in j + 1 .. q - 1 PROVE c[x].key > v.key
      <4>1. c[x] = b[x]
        BY <1>2, <1>5, <1>7, <1>9, <2>8
      <4> QED BY <1>2, <1>7, <4>1 DEF SidesAre
    <3>4. ASSUME NEW x \in q .. r PROVE c[x].key = v.key
      <4>1. c[x] = b[x]
        BY <1>2, <1>5, <1>7, <1>9, <2>8
      <4> QED BY <1>2, <4>1 DEF SidesAre
    <3> QED BY <3>1, <3>2, <3>3, <3>4 DEF SidesAre
  <2>10. HasExchanged(t, w, l, r)
    BY <1>2, <1>4, <1>6, <1>7, <1>9, <2>2, <2>8, <2>9 DEF HasExchanged, SidesAre
  <2>11. PICK u : /\ u = EqualLeft(t, w) /\ u \in Loops(D, S) /\ Turns(t, u, D, S, l, r)
                  /\ HasLeft(u, w, l, r) /\ u.i = i /\ u.j = j
    BY <2>2, <2>7, <2>10, LeftIsRight DEF Turns
  <2>12. PICK x : /\ x = EqualRight(u, w) /\ Turns(u, x, D, S, l, r)
                  /\ Running(x, w, l, r) /\ x.i = i /\ x.j = j
    BY <2>11, RightIsRight
  <2>13. Turns(s, x, D, S, l, r)
    BY <2>7, <2>11, <2>12, MovedTwice DEF Turns
  <2>14. Running(x, v, l, r)
    BY <1>4, <2>12 DEF Running, SidesAre
  <2>15. x.j - x.i < s.j - s.i
    BY <1>1, <1>6, <1>7, <2>12
  <2> QED BY <2>3, <2>11, <2>12, <2>13, <2>14, <2>15
<1> QED BY <1>8, <1>9

(* The states in which the loop can be.                                    *)
Reached(D, S, v, l, r) == {s \in Loops(D, S) : Running(s, v, l, r) \/ Met(s, v, l, r)}

(* One round: it moves elements of l .. r only, and i and j come nearer.   *)
Nears(s, t, v, D, l, r) ==
    /\ Rearranges(s.a, t.a, D, l, r)
    /\ Met(s, v, l, r) => t = s
    /\ Running(t, v, l, r) => t.j - t.i < s.j - s.i

(* The same for whatever state the loop can be in.                         *)
LEMMA RoundNears ==
    ASSUME NEW D \in SUBSET Int, NEW S, Keyed(S), NEW v \in S, NEW l \in Nat, NEW r \in Nat,
           l < r, l .. r \subseteq D, NEW s \in Reached(D, S, v, l, r)
    PROVE  /\ Round(s, l, r) \in Reached(D, S, v, l, r)
           /\ Nears(s, Round(s, l, r), v, D, l, r)
<1>1. s \in Loops(D, S) /\ s.i \in Int /\ s.j \in Int
  BY DEF Reached, Loops
<1>2. CASE Met(s, v, l, r)
  <2>1. s.i >= s.j
    BY <1>1, <1>2 DEF Met
  <2>2. Round(s, l, r) = s
    BY <2>1, Zenon DEF Round
  <2>3. ~Running(s, v, l, r)
    BY <1>1, <2>1 DEF Running
  <2>4. Rearranges(s.a, s.a, D, l, r)
    BY NothingMoved
  <2> QED BY <2>2, <2>3, <2>4, Zenon DEF Nears
<1>3. CASE ~Met(s, v, l, r)
  <2>1. Running(s, v, l, r)
    BY <1>3 DEF Reached
  <2>2. PICK t : /\ t = Round(s, l, r) /\ Turns(s, t, D, S, l, r)
                 /\ \/ Met(t, v, l, r)
                    \/ Running(t, v, l, r) /\ t.j - t.i < s.j - s.i
    BY <1>1, <2>1, RoundIsRight
  <2>3. t \in Reached(D, S, v, l, r) /\ Rearranges(s.a, t.a, D, l, r)
    BY <2>2, Zenon DEF Turns, Reached
  <2>4. Met(t, v, l, r) => ~Running(t, v, l, r)
    <3>1. t.i \in Int /\ t.j \in Int
      BY <2>3 DEF Reached, Loops
    <3> QED BY <3>1 DEF Met, Running
  <2>5. Running(t, v, l, r) => t.j - t.i < s.j - s.i
    BY <2>2, <2>4, Zenon
  <2> QED BY <1>3, <2>2, <2>3, <2>5, Zenon DEF Nears
<1> QED BY <1>2, <1>3

(* The loop ends, in time, with i and j having met.                        *)
LEMMA PartitionIs ==
    ASSUME NEW D \in SUBSET Int, NEW S, Keyed(S), NEW a \in [D -> S],
           NEW l \in Nat, NEW r \in Nat, l < r, l .. r \subseteq D
    PROVE  LET s == Partition(a, l, r)
           IN  s \in Loops(D, S) /\ Rearranges(a, s.a, D, l, r) /\ Met(s, a[r], l, r)
<1>1. PICK v \in S, N \in Nat : v = a[r] /\ N = r - l + 1
  <2>1. r \in D /\ a[r] \in S
    OBVIOUS
  <2> QED BY <2>1
<1> DEFINE s0 == [a |-> a, i |-> l - 1, j |-> r, p |-> l - 1, q |-> r]
           X == Reached(D, S, v, l, r)
           step == [k \in 0 + 1 .. N |-> [s \in X |-> Round(s, l, r)]]
           H(h) == [k \in 0 .. r - l + 1 |-> IF k = 0 THEN s0 ELSE Round(h[k - 1], l, r)]
           round == CHOOSE h : h = H(h)
<1>2. s0 \in X /\ Running(s0, v, l, r)
  <2>1. SidesAre(a, v, l, r, l - 1, l - 1, r, r)
    BY <1>1 DEF SidesAre
  <2>2. Running(s0, v, l, r)
    BY <1>1, <2>1 DEF Running
  <2>3. s0 \in Loops(D, S)
    BY DEF Loops
  <2> HIDE DEF s0
  <2> QED BY <2>2, <2>3 DEF Reached
<1>3. ASSUME NEW s \in X PROVE Round(s, l, r) \in X /\ Nears(s, Round(s, l, r), v, D, l, r)
  BY RoundNears
<1>4. PICK f \in [0 .. N -> X] : Stepwise(f, 0, N, s0, step)
  <2> HIDE DEF X, s0
  <2>1. step \in [0 + 1 .. N -> [X -> X]]
    <3>1. [s \in X |-> Round(s, l, r)] \in [X -> X]
      BY <1>3
    <3> QED BY <3>1
  <2> HIDE DEF step
  <2>2. 0 \in Nat /\ 0 <= N
    OBVIOUS
  <2> QED BY <1>2, <2>1, <2>2, StepwiseExists
<1>5. f[0] = s0 /\ \A k \in 1 .. N : f[k] = Round(f[k - 1], l, r) /\ f[k - 1] \in X /\ f[k] \in X
  <2> HIDE DEF X, s0
  <2>1. f[0] = s0
    BY <1>4 DEF Stepwise
  <2>2. ASSUME NEW k \in 1 .. N
        PROVE  f[k] = Round(f[k - 1], l, r) /\ f[k - 1] \in X /\ f[k] \in X
    <3>1. k \in 0 + 1 .. N /\ k - 1 \in 0 .. N /\ k \in 0 .. N
      OBVIOUS
    <3>2. f[k] = step[k][f[k - 1]] /\ f[k - 1] \in X /\ f[k] \in X
      <4> HIDE DEF step
      <4> QED BY <1>4, <3>1 DEF Stepwise
    <3> QED BY <3>1, <3>2
  <2> QED BY <2>1, <2>2
<1>6. f = H(f)
  <2> HIDE DEF X, s0
  <2> QED BY <1>1, <1>4, <1>5
<1>7. round = H(round)
  <2> HIDE DEF H
  <2> QED BY <1>6
<1>8. round = f
  <2> HIDE DEF X, s0, round
  <2> DEFINE T == {k \in 0 .. N : round[k] = f[k]}
  <2>1. 0 \in T
    <3>1. round[0] = s0
      BY <1>1, <1>7
    <3> QED BY <1>5, <3>1
  <2>2. ASSUME NEW k \in 1 .. N, k - 1 \in T PROVE k \in T
    <3>1. round[k] = Round(round[k - 1], l, r)
      BY <1>1, <1>7
    <3> QED BY <1>5, <2>2, <3>1
  <2>3. 0 .. N \subseteq T
    <3> HIDE DEF T
    <3> QED BY <2>1, <2>2, RangeInduction
  <2> QED BY <1>1, <1>6, <1>7, <2>3
<1>9. Partition(a, l, r) = f[N]
  <2>1. Partition(a, l, r) = round[N]
    BY <1>1, Zenon DEF Partition
  <2> HIDE DEF round
  <2> QED BY <1>8, <2>1
<1> HIDE DEF X, s0, step, H, round
<1> DEFINE T == {k \in 0 .. N : /\ Rearranges(a, f[k].a, D, l, r)
                                /\ Running(f[k], v, l, r) => f[k].j - f[k].i <= N - k}
<1>10. 0 \in T
  <2>1. s0.a = a /\ s0.j - s0.i = r - (l - 1)
    BY DEF s0
  <2>2. Rearranges(a, a, D, l, r)
    BY NothingMoved
  <2>3. 0 \in 0 .. N /\ s0.j - s0.i <= N - 0
    BY <1>1, <2>1
  <2> QED BY <1>5, <2>1, <2>2, <2>3
<1>11. ASSUME NEW k \in 1 .. N, k - 1 \in T PROVE k \in T
  <2>1. PICK s \in X, t \in X : s = f[k - 1] /\ t = f[k] /\ t = Round(s, l, r)
    BY <1>5
  <2>2. Nears(s, t, v, D, l, r)
    BY <1>3, <2>1
  <2>3. Rearranges(a, s.a, D, l, r) /\ (Running(s, v, l, r) => s.j - s.i <= N - (k - 1))
    BY <1>11, <2>1
  <2>4. Rearranges(a, t.a, D, l, r)
    BY <2>2, <2>3, MovedTwice DEF Nears
  <2>5. s.i \in Int /\ s.j \in Int /\ t.i \in Int /\ t.j \in Int
    BY DEF X, Reached, Loops
  <2>6. Running(t, v, l, r) => Running(s, v, l, r)
    <3>1. s \in Reached(D, S, v, l, r)
      BY DEF X
    <3>2. SUFFICES ASSUME Running(t, v, l, r), ~Running(s, v, l, r) PROVE FALSE
      OBVIOUS
    <3>3. Met(s, v, l, r)
      BY <3>1, <3>2 DEF Reached
    <3> QED BY <2>2, <3>2, <3>3, Zenon DEF Nears
  <2>7. Running(t, v, l, r) => t.j - t.i <= N - k
    BY <2>2, <2>3, <2>5, <2>6 DEF Nears
  <2>8. Rearranges(a, f[k].a, D, l, r) /\ (Running(f[k], v, l, r) => f[k].j - f[k].i <= N - k)
    <3> HIDE DEF T
    <3> QED BY <2>1, <2>4, <2>7, Zenon
  <2>9. k \in 0 .. N
    OBVIOUS
  <2> QED BY <2>8, <2>9, Zenon
<1>12. N \in T
  <2>1. 0 .. N \subseteq T
    <3> HIDE DEF T
    <3> QED BY <1>10, <1>11, RangeInduction
  <2> QED BY <2>1
<1>13. PICK s \in X : s = f[N]
  BY <1>4
<1>14. s \in Loops(D, S) /\ (Running(s, v, l, r) \/ Met(s, v, l, r))
  BY <1>13 DEF X, Reached
<1>15. ~Running(s, v, l, r)
  <2>1. s.i \in Int /\ s.j \in Int
    BY <1>14 DEF Loops
  <2> QED BY <1>12, <1>13, <2>1 DEF Running
<1> QED BY <1>1, <1>9, <1>12, <1>13, <1>14, <1>15

(* The keys of a part of an array, and that of the pivot.                  *)
AtMost(b, v, m, n) == \A x \in m .. n : b[x].key <= v.key
AllEqual(b, v, m, n) == \A x \in m .. n : b[x].key = v.key
AtLeast(b, v, m, n) == \A x \in m .. n : b[x].key >= v.key

(* What is left to sort: l .. e and g .. r.                                *)
Parted(b, v, l, e, g, r) ==
    /\ l - 1 <= e /\ e < r /\ l < g /\ g <= r + 1 /\ e < g
    /\ AtMost(b, v, l, e)
    /\ AllEqual(b, v, e + 1, g - 1)
    /\ AtLeast(b, v, g, r)

(* The pivot has come to i.                                                *)
LEMMA PivotMoved ==
    ASSUME NEW D \in SUBSET Int, NEW S, Keyed(S), NEW v \in S, NEW l \in Nat, NEW r \in Nat,
           l .. r \subseteq D, NEW b \in [D -> S],
           NEW i \in l .. r, NEW p \in l - 1 .. i - 1, NEW q \in i .. r,
           SidesAre(b, v, l, r, p, i - 1, i + 1, q), b[i].key >= v.key
    PROVE  LET c == exch(b, i, r)
           IN  /\ c \in [D -> S] /\ Rearranges(b, c, D, l, r)
               /\ AllEqual(c, v, l, p)
               /\ AtMost(c, v, l, i - 1)
               /\ c[i].key = v.key
               /\ AtLeast(c, v, i + 1, r)
               /\ AllEqual(c, v, q + 1, r - 1)
<1>1. i \in D /\ r \in D /\ r \in l .. r
  OBVIOUS
<1>2. PICK c : c = exch(b, i, r)
  OBVIOUS
<1>3. c \in [D -> S] /\ Exchanged(b, c, D, i, r)
  BY <1>1, <1>2, ExchIs, Zenon
<1>4. Rearranges(b, c, D, l, r)
  BY <1>1, <1>2, ExchMoves, Zenon
<1>5. v.key \in Int /\ \A x \in D : b[x].key \in Int
  BY DEF Keyed
<1>6. \A x \in l .. r : x # i /\ x # r => c[x] = b[x]
  BY <1>3 DEF Exchanged
<1>7. c[i] = b[r] /\ c[r] = b[i]
  BY <1>3 DEF Exchanged
<1>8. b[r].key = v.key
  BY DEF SidesAre
<1>9. \A x \in l .. i - 1 : c[x] = b[x]
  BY <1>6
<1>10. \A x \in i + 1 .. r - 1 : c[x] = b[x]
  BY <1>6
<1>11. AllEqual(c, v, l, p)
  BY <1>9 DEF SidesAre, AtMost, AllEqual, AtLeast
<1>12. AtMost(c, v, l, i - 1)
  <2>1. ASSUME NEW x \in l .. i - 1 PROVE b[x].key <= v.key
    <3>1. CASE x <= p
      BY <1>5, <3>1 DEF SidesAre
    <3>2. CASE x > p
      <4>1. x \in p + 1 .. i - 1 /\ x \in D
        BY <3>2
      <4> QED BY <1>5, <4>1 DEF SidesAre
    <3> QED BY <3>1, <3>2
  <2> QED BY <1>9, <2>1 DEF AtMost, AllEqual, AtLeast
<1>13. AtLeast(c, v, i + 1, r)
  <2>1. ASSUME NEW x \in i + 1 .. r - 1 PROVE b[x].key >= v.key
    <3>1. CASE x < q
      <4>1. x \in i + 1 .. q - 1 /\ x \in D
        BY <3>1
      <4> QED BY <1>5, <4>1 DEF SidesAre
    <3>2. CASE x >= q
      <4>1. x \in q .. r /\ x \in D
        BY <3>2
      <4> QED BY <1>5, <4>1 DEF SidesAre
    <3> QED BY <3>1, <3>2
  <2> QED BY <1>7, <1>10, <2>1 DEF AtMost, AllEqual, AtLeast
<1>14. AllEqual(c, v, q + 1, r - 1)
  BY <1>10 DEF SidesAre, AtMost, AllEqual, AtLeast
<1> QED BY <1>2, <1>3, <1>4, <1>7, <1>8, <1>11, <1>12, <1>13, <1>14

(* The first n places are equal to v: they come to the end.                *)
LEMMA EqualsToTheEnd ==
    ASSUME NEW D \in SUBSET Int, NEW S, Keyed(S), NEW v \in S, NEW a \in [D -> S],
           NEW from \in Int, NEW to \in Int, from .. to \subseteq D,
           NEW n \in Int, n > 0 => n <= to - from + 1, NEW m \in Nat, m = Max({0, n}),
           AtMost(a, v, from, to),
           AllEqual(a, v, from, from + n - 1)
    PROVE  LET b == Swapped(a, from, to, n)
           IN  /\ b \in [D -> S] /\ Rearranges(a, b, D, from, to)
               /\ AtMost(b, v, from, to)
               /\ AllEqual(b, v, to - m + 1, to)
<1>1. PICK b : b = Swapped(a, from, to, n)
  OBVIOUS
<1>2. b \in [D -> S] /\ Mirrored(a, b, from, to, n) /\ Rearranges(a, b, D, from, to)
  BY <1>1, SwappedIs
<1>3. ASSUME NEW x \in from .. to PROVE b[x].key <= v.key
  <2>1. PICK y \in from .. to : y = from + to - x
    OBVIOUS
  <2>2. b[x] = a[x] \/ b[x] = a[y]
    BY <1>2, <2>1 DEF Mirrored
  <2> QED BY <2>2 DEF AtMost, AllEqual, AtLeast
<1>4. ASSUME NEW x \in to - m + 1 .. to PROVE b[x].key = v.key
  <2>1. m = n /\ n > 0 /\ x \in from .. to
    BY MaxOfZero
  <2>2. PICK y \in from .. to : y = from + to - x /\ y \in from .. from + n - 1 /\ to - x < n
    BY <2>1
  <2>3. CASE x - from < n
    <3>1. x \in from .. from + n - 1
      BY <2>1, <2>3
    <3>2. b[x] = a[x] \/ b[x] = a[y]
      BY <1>2, <2>1, <2>2 DEF Mirrored
    <3> QED BY <2>2, <3>1, <3>2 DEF AtMost, AllEqual, AtLeast
  <2>4. CASE ~(x - from < n)
    <3>1. b[x] = a[y]
      BY <1>2, <2>1, <2>2, <2>4 DEF Mirrored
    <3> QED BY <2>2, <3>1 DEF AtMost, AllEqual, AtLeast
  <2> QED BY <2>3, <2>4
<1> QED BY <1>1, <1>2, <1>3, <1>4 DEF AtMost, AllEqual, AtLeast

(* The last n places are equal to v: they come to the beginning.           *)
LEMMA EqualsToTheStart ==
    ASSUME NEW D \in SUBSET Int, NEW S, Keyed(S), NEW v \in S, NEW a \in [D -> S],
           NEW from \in Int, NEW to \in Int, from .. to \subseteq D,
           NEW n \in Int, n > 0 => n <= to - from + 1, NEW m \in Nat, m = Max({0, n}),
           AtLeast(a, v, from, to),
           AllEqual(a, v, to - n + 1, to)
    PROVE  LET b == Swapped(a, from, to, n)
           IN  /\ b \in [D -> S] /\ Rearranges(a, b, D, from, to)
               /\ AtLeast(b, v, from, to)
               /\ AllEqual(b, v, from, from + m - 1)
<1>1. PICK b : b = Swapped(a, from, to, n)
  OBVIOUS
<1>2. b \in [D -> S] /\ Mirrored(a, b, from, to, n) /\ Rearranges(a, b, D, from, to)
  BY <1>1, SwappedIs
<1>3. ASSUME NEW x \in from .. to PROVE b[x].key >= v.key
  <2>1. PICK y \in from .. to : y = from + to - x
    OBVIOUS
  <2>2. b[x] = a[x] \/ b[x] = a[y]
    BY <1>2, <2>1 DEF Mirrored
  <2> QED BY <2>2 DEF AtMost, AllEqual, AtLeast
<1>4. ASSUME NEW x \in from .. from + m - 1 PROVE b[x].key = v.key
  <2>1. m = n /\ n > 0 /\ x \in from .. to
    BY MaxOfZero
  <2>2. PICK y \in from .. to : y = from + to - x /\ y \in to - n + 1 .. to /\ x - from < n
    BY <2>1
  <2>3. CASE to - x < n
    <3>1. x \in to - n + 1 .. to
      BY <2>1, <2>3
    <3>2. b[x] = a[x] \/ b[x] = a[y]
      BY <1>2, <2>1, <2>2 DEF Mirrored
    <3> QED BY <2>2, <3>1, <3>2 DEF AtMost, AllEqual, AtLeast
  <2>4. CASE ~(to - x < n)
    <3>1. b[x] = a[y]
      BY <1>2, <2>1, <2>2, <2>4 DEF Mirrored
    <3> QED BY <2>2, <3>1 DEF AtMost, AllEqual, AtLeast
  <2> QED BY <2>3, <2>4
<1> QED BY <1>1, <1>2, <1>3, <1>4 DEF AtMost, AllEqual, AtLeast

(* After the moves the array is in three parts: the smaller elements, the  *)
(* ones equal to the pivot and the larger ones.                            *)
LEMMA MovedInIs ==
    ASSUME NEW D \in SUBSET Int, NEW S, Keyed(S), NEW v \in S, NEW l \in Nat, NEW r \in Nat,
           l .. r \subseteq D, NEW s \in Loops(D, S), Met(s, v, l, r)
    PROVE  /\ MovedIn(s, l, r) \in [D -> S]
           /\ Rearranges(s.a, MovedIn(s, l, r), D, l, r)
           /\ SmallerEnd(s, l) \in Int /\ LargerStart(s, r) \in Int
           /\ Parted(MovedIn(s, l, r), v, l, SmallerEnd(s, l), LargerStart(s, r), r)
<1>1. PICK b \in [D -> S], i \in Int, j \in Int, p \in Int, q \in Int :
        s = [a |-> b, i |-> i, j |-> j, p |-> p, q |-> q]
  BY DEF Loops
<1>2. /\ l - 1 <= p /\ p < i /\ l <= i /\ i <= q /\ q <= r
      /\ SidesAre(b, v, l, r, p, i - 1, i + 1, q)
      /\ b[i].key >= v.key
  BY <1>1 DEF Met
<1>3. PICK n \in Int, m \in Int : n = p - l /\ m = r - 1 - q
  OBVIOUS
<1>4. PICK n0 \in Nat : n0 = Max({0, n}) /\ n0 = (IF n <= 0 THEN 0 ELSE n)
  BY MaxOfZero
<1>5. PICK m0 \in Nat : m0 = Max({0, m}) /\ m0 = (IF m <= 0 THEN 0 ELSE m)
  BY MaxOfZero
<1>6. PICK e \in Int, g \in Int : e = i - 1 - n0 /\ g = i + 1 + m0
  OBVIOUS
<1>7. SmallerEnd(s, l) = e /\ LargerStart(s, r) = g
  BY <1>1, <1>3, <1>4, <1>5, <1>6 DEF SmallerEnd, LargerStart
<1>8. PICK c : /\ c = exch(b, i, r) /\ c \in [D -> S] /\ Rearranges(b, c, D, l, r)
               /\ AllEqual(c, v, l, p)
               /\ AtMost(c, v, l, i - 1)
               /\ c[i].key = v.key
               /\ AtLeast(c, v, i + 1, r)
               /\ AllEqual(c, v, q + 1, r - 1)
  <2>1. i \in l .. r /\ p \in l - 1 .. i - 1 /\ q \in i .. r
    BY <1>2
  <2>2. /\ exch(b, i, r) \in [D -> S] /\ Rearranges(b, exch(b, i, r), D, l, r)
        /\ AllEqual(exch(b, i, r), v, l, p)
        /\ AtMost(exch(b, i, r), v, l, i - 1)
        /\ exch(b, i, r)[i].key = v.key
        /\ AtLeast(exch(b, i, r), v, i + 1, r)
        /\ AllEqual(exch(b, i, r), v, q + 1, r - 1)
    BY <1>2, <2>1, PivotMoved
  <2> QED BY <2>2, Zenon
<1>9. PICK left \in Int, right \in Int, from \in Int, to \in Int :
        left = l /\ right = i - 1 /\ from = i + 1 /\ to = r - 1
  OBVIOUS
<1>10. PICK d : /\ d = Swapped(c, left, right, n) /\ d \in [D -> S]
                /\ Rearranges(c, d, D, left, right)
                /\ AtMost(d, v, left, right)
                /\ AllEqual(d, v, right - n0 + 1, right)
  <2>1. left .. right \subseteq D /\ (n > 0 => n <= right - left + 1)
    BY <1>2, <1>3, <1>9
  <2>2. AtMost(c, v, left, right)
    BY <1>8, <1>9
  <2>3. AllEqual(c, v, left, left + n - 1)
    BY <1>3, <1>8, <1>9 DEF AtMost, AllEqual, AtLeast
  <2>4. PICK d : d = Swapped(c, left, right, n)
    OBVIOUS
  <2>5. /\ d \in [D -> S] /\ Rearranges(c, d, D, left, right)
        /\ AtMost(d, v, left, right) /\ AllEqual(d, v, right - n0 + 1, right)
    BY <1>4, <1>8, <2>1, <2>2, <2>3, <2>4, EqualsToTheEnd
  <2> QED BY <2>4, <2>5, Zenon
<1>11. \A x \in i .. r : d[x] = c[x]
  <2>1. ASSUME NEW x \in i .. r PROVE d[x] = c[x]
    <3>1. x \in D /\ x \notin left .. right
      BY <1>2, <1>9
    <3> QED BY <1>10, <3>1, MovedFrom
  <2> QED BY <2>1
<1>12. PICK f : /\ f = Swapped(d, from, to, m) /\ f \in [D -> S]
                /\ Rearranges(d, f, D, from, to)
                /\ AtLeast(f, v, from, to)
                /\ AllEqual(f, v, from, from + m0 - 1)
  <2>1. from .. to \subseteq D /\ (m > 0 => m <= to - from + 1)
    BY <1>2, <1>3, <1>9
  <2>2. AtLeast(d, v, from, to)
    BY <1>2, <1>8, <1>9, <1>11 DEF AtMost, AllEqual, AtLeast
  <2>3. AllEqual(d, v, to - m + 1, to)
    BY <1>2, <1>3, <1>8, <1>9, <1>11 DEF AtMost, AllEqual, AtLeast
  <2>4. PICK f : f = Swapped(d, from, to, m)
    OBVIOUS
  <2>5. /\ f \in [D -> S] /\ Rearranges(d, f, D, from, to)
        /\ AtLeast(f, v, from, to) /\ AllEqual(f, v, from, from + m0 - 1)
    BY <1>5, <1>10, <2>1, <2>2, <2>3, <2>4, EqualsToTheStart
  <2> QED BY <2>4, <2>5, Zenon
<1>13. \A x \in l .. r : x \notin from .. to => f[x] = d[x]
  BY <1>12, MovedFrom
<1>14. MovedIn(s, l, r) = f
  <2>1. /\ s.a = b /\ s.i = i /\ s.i - 1 = right /\ s.p - l = n
        /\ s.i + 1 = from /\ r - 1 = to /\ r - 1 - s.q = m /\ l = left
    BY <1>1, <1>3, <1>9
  <2> QED BY <1>8, <1>10, <1>12, <2>1, Zenon DEF MovedIn
<1>15. Rearranges(b, f, D, l, r)
  <2>1. Rearranges(c, d, D, l, r)
    BY <1>2, <1>9, <1>10, MovedWider
  <2>2. Rearranges(d, f, D, l, r)
    BY <1>2, <1>9, <1>12, MovedWider
  <2>3. Rearranges(b, d, D, l, r)
    BY <1>8, <2>1, MovedTwice
  <2> QED BY <2>2, <2>3, MovedTwice
<1>16. ASSUME NEW x \in l .. e PROVE f[x].key <= v.key
  <2>1. x \in left .. right /\ x \in l .. r /\ x \notin from .. to
    BY <1>2, <1>6, <1>9
  <2> QED BY <1>10, <1>13, <2>1 DEF AtMost, AllEqual, AtLeast
<1>17. ASSUME NEW x \in e + 1 .. g - 1 PROVE f[x].key = v.key
  <2>1. CASE x < i
    <3>1. x \in right - n0 + 1 .. right /\ x \in l .. r /\ x \notin from .. to
      BY <1>2, <1>3, <1>4, <1>6, <1>9, <2>1
    <3> QED BY <1>10, <1>13, <3>1 DEF AtMost, AllEqual, AtLeast
  <2>2. CASE x = i
    BY <1>2, <1>8, <1>9, <1>11, <1>13, <2>2
  <2>3. CASE x > i
    <3>1. x \in from .. from + m0 - 1
      BY <1>6, <1>9, <2>3
    <3> QED BY <1>12, <3>1 DEF AtMost, AllEqual, AtLeast
  <2> QED BY <2>1, <2>2, <2>3
<1>18. ASSUME NEW x \in g .. r PROVE f[x].key >= v.key
  <2>1. CASE x = r
    <3>1. x \in i + 1 .. r /\ x \in l .. r /\ x \notin from .. to /\ x \in i .. r
      BY <1>2, <1>5, <1>6, <1>9, <2>1
    <3> QED BY <1>8, <1>11, <1>13, <3>1 DEF AtMost, AllEqual, AtLeast
  <2>2. CASE x # r
    <3>1. x \in from .. to
      BY <1>5, <1>6, <1>9, <2>2
    <3> QED BY <1>12, <3>1 DEF AtMost, AllEqual, AtLeast
  <2> QED BY <2>1, <2>2
<1>19. l - 1 <= e /\ e < r /\ l < g /\ g <= r + 1 /\ e < g
  BY <1>2, <1>3, <1>4, <1>5, <1>6
<1>20. Parted(f, v, l, e, g, r)
  BY <1>16, <1>17, <1>18, <1>19, Zenon DEF Parted, AtMost, AllEqual, AtLeast
<1> QED BY <1>1, <1>7, <1>12, <1>14, <1>15, <1>20

(* The keys of l .. r are in order.                                        *)
Ordered(b, l, r) == \A x, y \in l .. r : x <= y => b[x].key <= b[y].key

(* What moving elements of l .. r leaves true.                             *)
LEMMA MovedAtMost ==
    ASSUME NEW a, NEW b, NEW D, NEW v, NEW l, NEW r, l .. r \subseteq D,
           Rearranges(a, b, D, l, r)
    PROVE  /\ AtMost(a, v, l, r) => AtMost(b, v, l, r)
           /\ AtLeast(a, v, l, r) => AtLeast(b, v, l, r)
<1>1. ASSUME NEW x \in l .. r PROVE \E y \in l .. r : b[x] = a[y]
  <2>1. x \in D
    OBVIOUS
  <2> QED BY <2>1, MovedFrom
<1>2. ASSUME AtMost(a, v, l, r), NEW x \in l .. r PROVE b[x].key <= v.key
  <2>1. PICK y \in l .. r : b[x] = a[y]
    BY <1>1
  <2> QED BY <1>2, <2>1, Zenon DEF AtMost
<1>3. ASSUME AtLeast(a, v, l, r), NEW x \in l .. r PROVE b[x].key >= v.key
  <2>1. PICK y \in l .. r : b[x] = a[y]
    BY <1>1
  <2> QED BY <1>3, <2>1, Zenon DEF AtLeast
<1> QED BY <1>2, <1>3, Zenon DEF AtMost, AtLeast

(* Two parts in order, with elements equal to the pivot between them.      *)
LEMMA JoinedInOrder ==
    ASSUME NEW D \in SUBSET Int, NEW S, Keyed(S), NEW v \in S, NEW w \in [D -> S],
           NEW l \in Int, NEW e \in Int, NEW g \in Int, NEW r \in Int,
           e < g, l .. r \subseteq D, Ordered(w, l, e), Ordered(w, g, r),
           AtMost(w, v, l, e), AllEqual(w, v, e + 1, g - 1), AtLeast(w, v, g, r)
    PROVE  Ordered(w, l, r)
<1> SUFFICES ASSUME NEW x \in l .. r, NEW y \in l .. r, x <= y PROVE w[x].key <= w[y].key
  BY DEF Ordered
<1>1. x \in D /\ y \in D
  OBVIOUS
<1>2. PICK kx \in Int, ky \in Int, kv \in Int : kx = w[x].key /\ ky = w[y].key /\ kv = v.key
  BY <1>1 DEF Keyed
<1>3. /\ x \in l .. e => kx <= kv
      /\ x \in e + 1 .. g - 1 => kx = kv
      /\ y \in e + 1 .. g - 1 => ky = kv
      /\ y \in g .. r => ky >= kv
  BY <1>2 DEF AtMost, AllEqual, AtLeast
<1>4. CASE y <= e
  <2>1. x \in l .. e /\ y \in l .. e
    BY <1>4
  <2> QED BY <2>1 DEF Ordered
<1>5. CASE x >= g
  <2>1. x \in g .. r /\ y \in g .. r
    BY <1>5
  <2> QED BY <2>1 DEF Ordered
<1>6. CASE x < g /\ y > e
  <2>1. x \in l .. e \/ x \in e + 1 .. g - 1
    BY <1>6
  <2>2. y \in g .. r \/ y \in e + 1 .. g - 1
    BY <1>6
  <2> QED BY <1>2, <1>3, <2>1, <2>2
<1> QED BY <1>4, <1>5, <1>6

(* The calls of one sort, and what one call makes of what the calls within *)
(* it do.                                                                  *)
CallsOf(A, left, right) == [a : A, l : left .. right + 1, r : left - 1 .. right]

SortStep(g, c) ==
    LET s == Partition(c.a, c.l, c.r)
        below == g[[a |-> MovedIn(s, c.l, c.r), l |-> c.l, r |-> SmallerEnd(s, c.l)]]
    IN  IF c.r <= c.l THEN c.a
        ELSE g[[a |-> below, l |-> LargerStart(s, c.r), r |-> c.r]]

(* g sorts what c is about, and nothing else.                              *)
SortsCall(g, c, D) == Rearranges(c.a, g[c], D, c.l, c.r) /\ Ordered(g[c], c.l, c.r)

(* A call makes two calls, each for fewer elements.                        *)
CallOk(g, c, D, A, C) ==
    \E u \in A, w \in A, c1 \in C, c2 \in C :
      /\ u = g[c1] /\ w = g[c2] /\ SortStep(g, c) = w
      /\ c1.r - c1.l < c.r - c.l /\ c2.r - c2.l < c.r - c.l
      /\ SortsCall(g, c1, D) /\ SortsCall(g, c2, D)
           => Rearranges(c.a, w, D, c.l, c.r) /\ Ordered(w, c.l, c.r)

(* If both calls within sort their parts, the call sorts its own.          *)
LEMMA CallIsRight ==
    ASSUME NEW D \in SUBSET Int, NEW S, Keyed(S), NEW left \in Nat, NEW right \in Nat,
           left .. right \subseteq D,
           NEW g \in [CallsOf([D -> S], left, right) -> [D -> S]],
           NEW c \in CallsOf([D -> S], left, right), c.l < c.r
    PROVE  CallOk(g, c, D, [D -> S], CallsOf([D -> S], left, right))
<1>1. PICK b \in [D -> S], l \in left .. right + 1, r \in left - 1 .. right :
        c = [a |-> b, l |-> l, r |-> r]
  BY DEF CallsOf
<1>2. l \in Nat /\ r \in Nat /\ l < r /\ l .. r \subseteq D /\ r \in D
  <2>1. l \in Int /\ r \in Int /\ l < r /\ left <= l /\ r <= right
    BY <1>1
  <2>2. \A x \in l .. r : x \in left .. right
    BY <2>1
  <2> QED BY <2>1, <2>2
<1>3. PICK v \in S : v = b[r]
  BY <1>2
<1>4. PICK s : /\ s = Partition(b, l, r) /\ s \in Loops(D, S)
               /\ Rearranges(b, s.a, D, l, r) /\ Met(s, v, l, r)
  BY <1>2, <1>3, PartitionIs
<1>5. PICK m \in [D -> S], e \in Int, f \in Int :
        /\ m = MovedIn(s, l, r) /\ e = SmallerEnd(s, l) /\ f = LargerStart(s, r)
        /\ Rearranges(s.a, m, D, l, r) /\ Parted(m, v, l, e, f, r)
  <2>1. /\ MovedIn(s, l, r) \in [D -> S]
        /\ Rearranges(s.a, MovedIn(s, l, r), D, l, r)
        /\ SmallerEnd(s, l) \in Int /\ LargerStart(s, r) \in Int
        /\ Parted(MovedIn(s, l, r), v, l, SmallerEnd(s, l), LargerStart(s, r), r)
    BY <1>2, <1>4, MovedInIs
  <2> QED BY <2>1, Zenon
<1>6. /\ l - 1 <= e /\ e < r /\ l < f /\ f <= r + 1 /\ e < f
      /\ AtMost(m, v, l, e) /\ AllEqual(m, v, e + 1, f - 1) /\ AtLeast(m, v, f, r)
  BY <1>5, Zenon DEF Parted
<1> DEFINE C == CallsOf([D -> S], left, right)
<1>7. PICK c1 \in C : c1 = [a |-> m, l |-> l, r |-> e]
  <2>1. e \in left - 1 .. right
    BY <1>2, <1>6
  <2> QED BY <1>5, <2>1 DEF CallsOf
<1>8. PICK u \in [D -> S] : u = g[c1]
  <2>1. g \in [C -> [D -> S]]
    OBVIOUS
  <2> HIDE DEF C
  <2> QED BY <2>1
<1>9. PICK c2 \in C : c2 = [a |-> u, l |-> f, r |-> r]
  <2>1. f \in left .. right + 1
    BY <1>2, <1>6
  <2> QED BY <1>8, <2>1 DEF CallsOf
<1>10. PICK w \in [D -> S] : w = g[c2]
  <2>1. g \in [C -> [D -> S]]
    OBVIOUS
  <2> HIDE DEF C
  <2> QED BY <2>1
<1> HIDE DEF C
<1>11. SortStep(g, c) = w
  <2>1. c.a = b /\ c.l = l /\ c.r = r /\ ~(c.r <= c.l)
    BY <1>1, <1>2
  <2> QED BY <1>4, <1>5, <1>7, <1>8, <1>9, <1>10, <2>1, Zenon DEF SortStep
<1>12. c1.r - c1.l < c.r - c.l /\ c2.r - c2.l < c.r - c.l
  BY <1>1, <1>2, <1>6, <1>7, <1>9
<1>13. ASSUME SortsCall(g, c1, D), SortsCall(g, c2, D)
       PROVE  Rearranges(c.a, w, D, c.l, c.r) /\ Ordered(w, c.l, c.r)
  <2>1. Rearranges(m, u, D, l, e) /\ Ordered(u, l, e)
    <3>1. c1.a = m /\ c1.l = l /\ c1.r = e
      BY <1>7
    <3> QED BY <1>8, <1>13, <3>1, Zenon DEF SortsCall
  <2>2. Rearranges(u, w, D, f, r) /\ Ordered(w, f, r)
    <3>1. c2.a = u /\ c2.l = f /\ c2.r = r
      BY <1>9
    <3> QED BY <1>10, <1>13, <3>1, Zenon DEF SortsCall
  <2>3. Rearranges(b, w, D, l, r)
    <3>1. Rearranges(m, u, D, l, r)
      BY <1>2, <1>6, <2>1, MovedWider
    <3>2. Rearranges(u, w, D, l, r)
      BY <1>2, <1>6, <2>2, MovedWider
    <3>3. Rearranges(b, m, D, l, r)
      BY <1>4, <1>5, MovedTwice
    <3>4. Rearranges(b, u, D, l, r)
      BY <3>1, <3>3, MovedTwice
    <3> QED BY <3>2, <3>4, MovedTwice
  <2>4. l .. e \subseteq D /\ f .. r \subseteq D /\ e + 1 .. f - 1 \subseteq D
    BY <1>2, <1>6
  <2>5. \A x \in l .. e : w[x] = u[x]
    <3>1. ASSUME NEW x \in l .. e PROVE w[x] = u[x]
      <4>1. x \in D /\ x \notin f .. r
        BY <1>2, <1>6, <2>4
      <4> QED BY <2>2, <4>1, MovedFrom
    <3> QED BY <3>1
  <2>6. \A x \in e + 1 .. r : u[x] = m[x]
    <3>1. ASSUME NEW x \in e + 1 .. r PROVE u[x] = m[x]
      <4>1. x \in D /\ x \notin l .. e
        BY <1>2, <1>6
      <4> QED BY <2>1, <4>1, MovedFrom
    <3> QED BY <3>1
  <2>7. \A x \in e + 1 .. f - 1 : w[x] = m[x]
    <3>1. ASSUME NEW x \in e + 1 .. f - 1 PROVE w[x] = m[x]
      <4>1. x \in D /\ x \notin f .. r /\ x \in e + 1 .. r
        BY <1>2, <1>6, <2>4
      <4>2. w[x] = u[x]
        BY <2>2, <4>1, MovedFrom
      <4> QED BY <2>6, <4>1, <4>2
    <3> QED BY <3>1
  <2>8. AtMost(w, v, l, e) /\ Ordered(w, l, e)
    <3>1. AtMost(u, v, l, e)
      BY <1>6, <2>1, <2>4, MovedAtMost
    <3> QED BY <2>1, <2>5, <3>1 DEF AtMost, Ordered
  <2>9. AllEqual(w, v, e + 1, f - 1)
    BY <1>6, <2>7 DEF AllEqual
  <2>10. AtLeast(w, v, f, r)
    <3>1. \A x \in f .. r : x \in e + 1 .. r
      BY <1>2, <1>6
    <3>2. AtLeast(u, v, f, r)
      BY <1>6, <2>6, <3>1 DEF AtLeast
    <3> QED BY <2>2, <2>4, <3>2, MovedAtMost
  <2>11. Ordered(w, l, r)
    <3>1. l \in Int /\ r \in Int
      BY <1>2
    <3> QED BY <1>2, <1>6, <2>2, <2>8, <2>9, <2>10, <3>1, JoinedInOrder, Zenon
  <2>12. c.a = b /\ c.l = l /\ c.r = r
    BY <1>1
  <2> QED BY <2>3, <2>11, <2>12
<1> QED BY <1>8, <1>10, <1>11, <1>12, <1>13, Zenon DEF CallOk, C

(* The array comes out in order, with its elements each where it was or    *)
(* moved.                                                                  *)
LEMMA QuicksortIs ==
    ASSUME NEW D \in SUBSET Int, NEW S, Keyed(S), NEW a \in [D -> S],
           NEW left \in Nat, NEW right \in Nat, left <= right, left .. right \subseteq D
    PROVE  /\ quicksort(a, left, right) \in [D -> S]
           /\ Rearranges(a, quicksort(a, left, right), D, left, right)
           /\ Ordered(quicksort(a, left, right), left, right)
<1> DEFINE E == {a[i] : i \in DOMAIN a}
           A == [DOMAIN a -> E]
           C == [a : A, l : left .. right + 1, r : left - 1 .. right]
           X == [C -> A]
           N == right - left
           Body(h, k, c) ==
              LET s == Partition(c.a, c.l, c.r)
                  below == h[k - 1][[a |-> MovedIn(s, c.l, c.r),
                                     l |-> c.l, r |-> SmallerEnd(s, c.l)]]
              IN  IF k = 0 \/ c.r <= c.l THEN c.a
                  ELSE h[k - 1][[a |-> below, l |-> LargerStart(s, c.r), r |-> c.r]]
           H(h) == [k \in 0 .. right - left |-> [c \in C |-> Body(h, k, c)]]
           sort == CHOOSE h : h = H(h)
           first == [c \in C |-> c.a]
           step == [k \in 0 + 1 .. N |-> [g \in X |-> [c \in C |-> SortStep(g, c)]]]
<1>1. DOMAIN a = D /\ E \subseteq S /\ Keyed(E) /\ A = [D -> E] /\ a \in A
  <2>1. DOMAIN a = D /\ E \subseteq S
    OBVIOUS
  <2>2. Keyed(E)
    BY <2>1 DEF Keyed
  <2>3. a \in [DOMAIN a -> E]
    OBVIOUS
  <2> QED BY <2>1, <2>2, <2>3
<1>2. C = CallsOf([D -> E], left, right)
  <2> HIDE DEF E
  <2> QED BY <1>1 DEF CallsOf
<1>3. \A c \in C : /\ c.a \in A /\ c.l \in Int /\ c.r \in Int
                   /\ c.l \in left .. right + 1 /\ c.r \in left - 1 .. right
  <2> HIDE DEF A
  <2> QED OBVIOUS
<1>4. \A h, k, c : Body(h, k, c) = IF k = 0 THEN c.a ELSE SortStep(h[k - 1], c)
  BY Zenon DEF SortStep
<1>5. ASSUME NEW g \in X, NEW c \in C, c.l < c.r PROVE CallOk(g, c, D, A, C)
  <2>1. g \in [CallsOf([D -> E], left, right) -> [D -> E]] /\ c \in CallsOf([D -> E], left, right)
    BY <1>1, <1>2
  <2>2. CallOk(g, c, D, [D -> E], CallsOf([D -> E], left, right))
    <3> HIDE DEF E, A, C, X
    <3> QED BY <1>1, <1>5, <2>1, CallIsRight
  <2> HIDE DEF E, A, C
  <2> QED BY <1>1, <1>2, <2>2
<1>6. ASSUME NEW g \in X, NEW c \in C PROVE SortStep(g, c) \in A
  <2> HIDE DEF A, C, X
  <2>1. CASE c.r <= c.l
    BY <1>3, <2>1, Zenon DEF SortStep
  <2>2. CASE ~(c.r <= c.l)
    <3>1. c.l < c.r
      BY <1>3, <2>2
    <3> QED BY <1>5, <3>1, Zenon DEF CallOk
  <2> QED BY <2>1, <2>2
<1> HIDE DEF E, A, C, Body
<1>7. PICK f \in [0 .. N -> X] : Stepwise(f, 0, N, first, step)
  <2>1. first \in X
    BY <1>3
  <2>2. step \in [0 + 1 .. N -> [X -> X]]
    <3>1. ASSUME NEW g \in X PROVE [c \in C |-> SortStep(g, c)] \in X
      <4>1. \A c \in C : SortStep(g, c) \in A
        BY <1>6
      <4> QED BY <4>1
    <3> HIDE DEF X
    <3> QED BY <3>1
  <2>3. 0 \in Nat /\ 0 <= N /\ N \in Nat
    OBVIOUS
  <2> HIDE DEF step, X, first, N
  <2> QED BY <2>1, <2>2, <2>3, StepwiseExists
<1>8. /\ f[0] = first
      /\ \A k \in 1 .. N :
            f[k] = [c \in C |-> SortStep(f[k - 1], c)] /\ f[k - 1] \in X /\ f[k] \in X
  <2> HIDE DEF X, first
  <2>1. f[0] = first
    BY <1>7 DEF Stepwise
  <2>2. ASSUME NEW k \in 1 .. N
        PROVE  f[k] = [c \in C |-> SortStep(f[k - 1], c)] /\ f[k - 1] \in X /\ f[k] \in X
    <3>1. k \in 0 + 1 .. N /\ k - 1 \in 0 .. N /\ k \in 0 .. N
      OBVIOUS
    <3>2. f[k] = step[k][f[k - 1]] /\ f[k - 1] \in X /\ f[k] \in X
      <4> HIDE DEF step
      <4> QED BY <1>7, <3>1 DEF Stepwise
    <3>3. step[k][f[k - 1]] = [c \in C |-> SortStep(f[k - 1], c)]
      BY <3>1, <3>2
    <3> QED BY <3>2, <3>3
  <2> QED BY <2>1, <2>2
<1>9. f = H(f)
  <2>1. ASSUME NEW k \in 0 .. N PROVE f[k] = [c \in C |-> Body(f, k, c)]
    <3>1. CASE k = 0
      <4>1. \A c \in C : Body(f, k, c) = c.a
        BY <1>4, <3>1, Zenon
      <4> QED BY <1>8, <3>1, <4>1
    <3>2. CASE k # 0
      <4>1. k \in 1 .. N
        BY <3>2
      <4>2. \A c \in C : Body(f, k, c) = SortStep(f[k - 1], c)
        BY <1>4, <3>2, Zenon
      <4>3. f[k] = [c \in C |-> SortStep(f[k - 1], c)]
        BY <1>8, <4>1, Zenon
      <4> HIDE DEF X
      <4> QED BY <4>2, <4>3
    <3> QED BY <3>1, <3>2
  <2> HIDE DEF X
  <2> QED BY <1>7, <2>1
<1>10. sort = H(sort)
  <2> HIDE DEF H
  <2> QED BY <1>9
<1>11. sort = f
  <2> HIDE DEF sort, X
  <2> DEFINE T == {k \in 0 .. N : sort[k] = f[k]}
  <2>1. \A k \in 0 .. N : sort[k] = [c \in C |-> Body(sort, k, c)]
    BY <1>10
  <2>2. 0 \in T
    <3>1. \A c \in C : Body(sort, 0, c) = c.a
      BY <1>4, Zenon
    <3>2. sort[0] = first
      BY <2>1, <3>1
    <3> QED BY <1>8, <3>2
  <2>3. ASSUME NEW k \in 1 .. N, k - 1 \in T PROVE k \in T
    <3>1. k \in 0 .. N /\ k # 0
      OBVIOUS
    <3>2. \A c \in C : Body(sort, k, c) = SortStep(sort[k - 1], c)
      BY <1>4, <3>1, Zenon
    <3>3. sort[k] = [c \in C |-> SortStep(sort[k - 1], c)]
      BY <2>1, <3>1, <3>2
    <3>4. sort[k - 1] = f[k - 1]
      BY <2>3
    <3>5. sort[k] = f[k]
      <4>1. f[k] = [c \in C |-> SortStep(f[k - 1], c)]
        BY <1>8, Zenon
      <4> QED BY <3>3, <3>4, <4>1, Zenon
    <3> QED BY <3>1, <3>5
  <2>4. 0 .. N \subseteq T
    <3>1. N \in Nat
      OBVIOUS
    <3> HIDE DEF T
    <3> QED BY <2>2, <2>3, <3>1, RangeInduction
  <2>5. \A k \in 0 .. N : sort[k] = f[k]
    BY <2>4
  <2> QED BY <1>7, <1>10, <2>5
<1>12. PICK c0 \in C : c0 = [a |-> a, l |-> left, r |-> right]
  <2>1. left \in left .. right + 1 /\ right \in left - 1 .. right /\ a \in A
    BY <1>1
  <2>2. [a |-> a, l |-> left, r |-> right] \in C
    BY <2>1 DEF C
  <2> QED BY <2>2
<1>13. quicksort(a, left, right) = f[N][c0]
  <2>1. quicksort(a, left, right) = sort[N][c0]
    BY <1>12, Zenon DEF quicksort, C, A, E, Body
  <2> HIDE DEF sort
  <2> QED BY <1>11, <2>1
<1> HIDE DEF sort, H, first, step, X
<1> DEFINE T == {k \in 0 .. N : \A c \in C : c.r - c.l <= k => SortsCall(f[k], c, D)}
<1>14. ASSUME NEW g, NEW c \in C, c.r <= c.l, g[c] = c.a PROVE SortsCall(g, c, D)
  <2>1. Rearranges(c.a, c.a, D, c.l, c.r)
    BY NothingMoved
  <2>2. Ordered(c.a, c.l, c.r)
    <3>1. PICK l \in left .. right + 1, r \in left - 1 .. right : l = c.l /\ r = c.r /\ r <= l
      BY <1>3, <1>14
    <3>2. ASSUME NEW x \in l .. r, NEW y \in l .. r PROVE x = y /\ x = l /\ l = r
      BY <3>1
    <3>3. CASE l = r
      <4>1. l \in D
        <5>1. l \in left .. right
          BY <3>1, <3>3
        <5> QED BY <5>1
      <4>2. c.a[l].key \in Int
        BY <1>1, <1>3, <4>1 DEF Keyed
      <4> QED BY <3>1, <3>2, <4>2 DEF Ordered
    <3>4. CASE l # r
      BY <3>1, <3>2, <3>4 DEF Ordered
    <3> QED BY <3>3, <3>4
  <2> QED BY <1>14, <2>1, <2>2 DEF SortsCall
<1>15. 0 \in T
  <2>1. ASSUME NEW c \in C, c.r - c.l <= 0 PROVE SortsCall(f[0], c, D)
    <3>1. c.r <= c.l
      BY <1>3, <2>1
    <3>2. f[0][c] = c.a
      BY <1>8 DEF first
    <3> QED BY <1>14, <3>1, <3>2
  <2> QED BY <2>1
<1>16. ASSUME NEW k \in 1 .. N, k - 1 \in T PROVE k \in T
  <2>1. PICK g \in X : g = f[k - 1] /\ f[k] = [c \in C |-> SortStep(g, c)]
    BY <1>8
  <2>2. ASSUME NEW c \in C, c.r - c.l <= k PROVE SortsCall(f[k], c, D)
    <3>1. f[k][c] = SortStep(g, c)
      BY <2>1
    <3>2. CASE c.r <= c.l
      <4>1. f[k][c] = c.a
        BY <3>1, <3>2, Zenon DEF SortStep
      <4> QED BY <1>14, <3>2, <4>1
    <3>3. CASE ~(c.r <= c.l)
      <4>1. c.l < c.r
        BY <1>3, <3>3
      <4>2. PICK u \in A, w \in A, c1 \in C, c2 \in C :
              /\ u = g[c1] /\ w = g[c2] /\ SortStep(g, c) = w
              /\ c1.r - c1.l < c.r - c.l /\ c2.r - c2.l < c.r - c.l
              /\ SortsCall(g, c1, D) /\ SortsCall(g, c2, D)
                   => Rearranges(c.a, w, D, c.l, c.r) /\ Ordered(w, c.l, c.r)
        BY <1>5, <4>1, Zenon DEF CallOk
      <4>3. c1.r - c1.l <= k - 1 /\ c2.r - c2.l <= k - 1
        BY <1>3, <2>2, <4>2
      <4>4. SortsCall(g, c1, D) /\ SortsCall(g, c2, D)
        BY <1>16, <2>1, <4>3
      <4> QED BY <3>1, <4>2, <4>4, Zenon DEF SortsCall
    <3> QED BY <3>2, <3>3
  <2>3. k \in 0 .. N
    OBVIOUS
  <2> QED BY <2>2, <2>3
<1>17. SortsCall(f[N], c0, D)
  <2>1. 0 .. N \subseteq T
    <3> HIDE DEF T
    <3>1. N \in Nat
      OBVIOUS
    <3> QED BY <1>15, <1>16, <3>1, RangeInduction
  <2>2. N \in T /\ c0.r - c0.l <= N
    BY <1>12, <2>1
  <2> QED BY <2>2
<1>18. f[N][c0] \in [D -> S]
  <2>1. f[N] \in X
    BY <1>7
  <2>2. f[N][c0] \in A
    BY <2>1 DEF X
  <2> QED BY <1>1, <2>2
<1> QED
  <2>1. c0.a = a /\ c0.l = left /\ c0.r = right
    BY <1>12
  <2> QED BY <1>13, <1>17, <1>18, <2>1, Zenon DEF SortsCall

(* What the search still looks at.                                         *)
Looks(n) == {s \in [base : Nat, nmemb : Nat] : s.base + s.nmemb <= n}

(* Elements with the key are among these, and one is in their middle.      *)
Among(a, n, key, s) ==
    \A i \in 0 .. n - 1 : a[i].key = key.key => s.base <= i /\ i < s.base + s.nmemb
Found(a, key, s) == s.nmemb > 0 /\ a[s.base + s.nmemb \div 2].key = key.key

(* One round: of fewer elements, if the one in the middle is another.      *)
LEMMA NarrowIs ==
    ASSUME NEW S, Keyed(S), NEW n \in Nat, NEW a \in [0 .. n - 1 -> S], Ordered(a, 0, n - 1),
           NEW key, key.key \in Int, NEW s \in Looks(n)
    PROVE  LET t == Narrow(key, a, s)
           IN  /\ t \in Looks(n)
               /\ Among(a, n, key, s) => Among(a, n, key, t)
               /\ IF Found(a, key, s) \/ s.nmemb = 0 THEN t = s ELSE t.nmemb < s.nmemb
<1>1. PICK b \in Nat, z \in Nat : s = [base |-> b, nmemb |-> z] /\ b + z <= n
  BY DEF Looks
<1>2. CASE z = 0
  <2>1. Narrow(key, a, s) = s
    BY <1>1, <1>2 DEF Narrow
  <2> QED BY <1>1, <1>2, <2>1
<1>3. CASE z # 0
  <2>1. PICK m \in Nat : m = z \div 2 /\ m < z
    BY <1>3
  <2>2. PICK c \in 0 .. n - 1 : c = b + m
    BY <1>1, <2>1
  <2>3. PICK k \in Int, x \in Int : k = key.key /\ x = a[c].key
    BY DEF Keyed
  <2>4. PICK tmp \in Int : tmp = k - x /\ tmp = compar(key, a[s.base + s.nmemb \div 2])
    BY <1>1, <2>1, <2>2, <2>3 DEF compar
  <2>5. tmp # 0 => ~Found(a, key, s)
    BY <1>1, <2>1, <2>2, <2>3, <2>4 DEF Found
  <2>6. CASE tmp = 0
    <3>1. Narrow(key, a, s) = s
      BY <2>4, <2>6, Zenon DEF Narrow
    <3>2. Found(a, key, s)
      BY <1>1, <1>3, <2>1, <2>2, <2>3, <2>4, <2>6 DEF Found
    <3> QED BY <3>1, <3>2
  <2>7. CASE tmp < 0
    <3>1. PICK t : t = [base |-> b, nmemb |-> m]
      OBVIOUS
    <3>2. Narrow(key, a, s) = t
      <4>1. ~(s.nmemb = 0 \/ tmp = 0) /\ s.nmemb \div 2 = m
        BY <1>1, <1>3, <2>1, <2>4, <2>7
      <4>2. Narrow(key, a, s) = [s EXCEPT !.nmemb = m]
        BY <2>4, <2>7, <4>1, Zenon DEF Narrow
      <4> QED BY <1>1, <3>1, <4>2
    <3>3. t \in Looks(n) /\ t.nmemb < s.nmemb
      BY <1>1, <2>1, <3>1 DEF Looks
    <3>4. ASSUME Among(a, n, key, s), NEW i \in 0 .. n - 1, a[i].key = key.key
          PROVE  t.base <= i /\ i < t.base + t.nmemb
      <4>1. b <= i /\ i < b + z
        BY <1>1, <3>4 DEF Among
      <4>2. i < c
        <5>1. SUFFICES ASSUME c <= i PROVE FALSE
          BY <2>2
        <5>2. x <= k
          BY <2>3, <3>4, <5>1 DEF Ordered
        <5> QED BY <2>4, <2>7, <5>2
      <4> QED BY <2>2, <3>1, <4>1, <4>2
    <3>5. Among(a, n, key, s) => Among(a, n, key, t)
      BY <3>4, Zenon DEF Among
    <3> QED BY <1>1, <1>3, <2>5, <2>7, <3>2, <3>3, <3>5
  <2>8. CASE tmp > 0
    <3>1. PICK t : t = [base |-> b + (m + 1), nmemb |-> z - (m + 1)]
      OBVIOUS
    <3>2. Narrow(key, a, s) = t
      <4>1. ~(s.nmemb = 0 \/ tmp = 0) /\ ~(tmp < 0) /\ s.nmemb \div 2 = m
        BY <1>1, <1>3, <2>1, <2>4, <2>8
      <4>2. Narrow(key, a, s) = [base |-> s.base + (m + 1), nmemb |-> s.nmemb - (m + 1)]
        BY <2>4, <4>1, Zenon DEF Narrow
      <4> QED BY <1>1, <3>1, <4>2
    <3>3. t \in Looks(n) /\ t.nmemb < s.nmemb
      BY <1>1, <2>1, <3>1 DEF Looks
    <3>4. ASSUME Among(a, n, key, s), NEW i \in 0 .. n - 1, a[i].key = key.key
          PROVE  t.base <= i /\ i < t.base + t.nmemb
      <4>1. b <= i /\ i < b + z
        BY <1>1, <3>4 DEF Among
      <4>2. i > c
        <5>1. SUFFICES ASSUME i <= c PROVE FALSE
          BY <2>2
        <5>2. k <= x
          BY <2>3, <3>4, <5>1 DEF Ordered
        <5> QED BY <2>4, <2>8, <5>2
      <4> QED BY <2>1, <2>2, <3>1, <4>1, <4>2
    <3>5. Among(a, n, key, s) => Among(a, n, key, t)
      BY <3>4, Zenon DEF Among
    <3> QED BY <1>1, <1>3, <2>5, <2>8, <3>2, <3>3, <3>5
  <2> QED BY <2>6, <2>7, <2>8
<1> QED BY <1>2, <1>3

(* The search finds an element with the key if there is one.               *)
LEMMA BsearchIs ==
    ASSUME NEW S, Keyed(S), NEW n \in Nat, NEW a \in [0 .. n - 1 -> S], Ordered(a, 0, n - 1),
           NEW key, key.key \in Int
    PROVE  LET at == bsearch(key, a, 0, n)
           IN  \/ at \in 0 .. n - 1 /\ a[at].key = key.key
               \/ at = -1 /\ \A i \in 0 .. n - 1 : a[i].key # key.key
<1> DEFINE s0 == [base |-> 0, nmemb |-> n]
           X == Looks(n)
           step == [k \in 0 + 1 .. n |-> [s \in X |-> Narrow(key, a, s)]]
           H(h) == [k \in 0 .. n |-> IF k = 0 THEN s0 ELSE Narrow(key, a, h[k - 1])]
           narrow == CHOOSE h : h = H(h)
<1>1. s0 \in X /\ s0.nmemb = n /\ Among(a, n, key, s0)
  BY DEF Looks, Among
<1>2. ASSUME NEW s \in X
      PROVE  /\ Narrow(key, a, s) \in X
             /\ Among(a, n, key, s) => Among(a, n, key, Narrow(key, a, s))
             /\ IF Found(a, key, s) \/ s.nmemb = 0 THEN Narrow(key, a, s) = s
                ELSE Narrow(key, a, s).nmemb < s.nmemb
  BY NarrowIs
<1> HIDE DEF s0, X
<1>3. PICK f \in [0 .. n -> X] : Stepwise(f, 0, n, s0, step)
  <2>1. step \in [0 + 1 .. n -> [X -> X]]
    <3>1. [s \in X |-> Narrow(key, a, s)] \in [X -> X]
      BY <1>2
    <3> QED BY <3>1
  <2> HIDE DEF step
  <2>2. 0 \in Nat /\ 0 <= n
    OBVIOUS
  <2> QED BY <1>1, <2>1, <2>2, StepwiseExists
<1>4. /\ f[0] = s0
      /\ \A k \in 1 .. n : f[k] = Narrow(key, a, f[k - 1]) /\ f[k - 1] \in X /\ f[k] \in X
  <2>1. f[0] = s0
    BY <1>3 DEF Stepwise
  <2>2. ASSUME NEW k \in 1 .. n
        PROVE  f[k] = Narrow(key, a, f[k - 1]) /\ f[k - 1] \in X /\ f[k] \in X
    <3>1. k \in 0 + 1 .. n /\ k - 1 \in 0 .. n /\ k \in 0 .. n
      OBVIOUS
    <3>2. f[k] = step[k][f[k - 1]] /\ f[k - 1] \in X /\ f[k] \in X
      <4> HIDE DEF step
      <4> QED BY <1>3, <3>1 DEF Stepwise
    <3> QED BY <3>1, <3>2
  <2> QED BY <2>1, <2>2
<1>5. f = H(f)
  BY <1>3, <1>4
<1>6. narrow = H(narrow)
  <2> HIDE DEF H
  <2> QED BY <1>5
<1>7. narrow = f
  <2> HIDE DEF narrow
  <2> DEFINE T == {k \in 0 .. n : narrow[k] = f[k]}
  <2>1. 0 \in T
    <3>1. narrow[0] = s0
      BY <1>6
    <3> QED BY <1>4, <3>1
  <2>2. ASSUME NEW k \in 1 .. n, k - 1 \in T PROVE k \in T
    <3>1. narrow[k] = Narrow(key, a, narrow[k - 1])
      BY <1>6
    <3> QED BY <1>4, <2>2, <3>1
  <2>3. 0 .. n \subseteq T
    <3> HIDE DEF T
    <3> QED BY <2>1, <2>2, RangeInduction
  <2> QED BY <1>5, <1>6, <2>3
<1>8. PICK s \in X : s = f[n]
  BY <1>3
<1>9. bsearch(key, a, 0, n) = IF s.nmemb = 0 THEN -1 ELSE s.base + s.nmemb \div 2
  <2>1. bsearch(key, a, 0, n) =
          IF narrow[n].nmemb = 0 THEN -1 ELSE narrow[n].base + narrow[n].nmemb \div 2
    BY Zenon DEF bsearch, s0
  <2> HIDE DEF narrow
  <2> QED BY <1>7, <1>8, <2>1
<1> HIDE DEF step, H, narrow
<1> DEFINE T == {k \in 0 .. n : /\ Among(a, n, key, f[k])
                                /\ f[k].nmemb <= n - k \/ Found(a, key, f[k])}
<1>10. 0 \in T
  BY <1>1, <1>4
<1>11. ASSUME NEW k \in 1 .. n, k - 1 \in T PROVE k \in T
  <2>1. PICK t \in X, u \in X : t = f[k - 1] /\ u = f[k] /\ u = Narrow(key, a, t)
    BY <1>4
  <2>2. Among(a, n, key, t) /\ (t.nmemb <= n - (k - 1) \/ Found(a, key, t))
    BY <1>11, <2>1
  <2>3. t.nmemb \in Nat /\ u.nmemb \in Nat
    BY DEF X, Looks
  <2>4. Among(a, n, key, u)
    BY <1>2, <2>1, <2>2
  <2>5. IF Found(a, key, t) \/ t.nmemb = 0 THEN u = t ELSE u.nmemb < t.nmemb
    BY <1>2, <2>1
  <2>6. u.nmemb <= n - k \/ Found(a, key, u)
    BY <2>2, <2>3, <2>5
  <2>7. k \in 0 .. n
    OBVIOUS
  <2> QED BY <2>1, <2>4, <2>6, <2>7
<1>12. n \in T
  <2>1. 0 .. n \subseteq T
    <3> HIDE DEF T
    <3> QED BY <1>10, <1>11, RangeInduction
  <2> QED BY <2>1
<1>13. s \in [base : Nat, nmemb : Nat] /\ s.base + s.nmemb <= n
  BY DEF X, Looks
<1>14. CASE s.nmemb = 0
  <2>1. \A i \in 0 .. n - 1 : a[i].key # key.key
    BY <1>8, <1>12, <1>13, <1>14 DEF Among
  <2> QED BY <1>9, <1>14, <2>1
<1>15. CASE s.nmemb # 0
  <2>1. Found(a, key, s)
    BY <1>8, <1>12, <1>13, <1>15
  <2>2. s.base + s.nmemb \div 2 \in 0 .. n - 1
    BY <1>13, <1>15
  <2> QED BY <1>9, <1>15, <2>1, <2>2 DEF Found
<1> QED BY <1>14, <1>15

(* qsort of every array, from no element on.                               *)
LEMMA QsortIs ==
    ASSUME NEW n \in Nat, NEW S, Keyed(S), NEW a \in [0 .. n - 1 -> S]
    PROVE  /\ qsort(a) \in [0 .. n - 1 -> S]
           /\ Rearranges(a, qsort(a), 0 .. n - 1, 0, n - 1)
           /\ Ordered(qsort(a), 0, n - 1)
<1>1. Cardinality(DOMAIN a) = n
  BY FS_Interval
<1>2. CASE n > 1
  <2>1. qsort(a) = quicksort(a, 0, n - 1)
    BY <1>1, <1>2 DEF qsort
  <2>2. PICK r \in Nat, D \in SUBSET Int : D = 0 .. n - 1 /\ r = n - 1 /\ 0 .. r \subseteq D
    BY <1>2
  <2>3. /\ quicksort(a, 0, r) \in [D -> S]
        /\ Rearranges(a, quicksort(a, 0, r), D, 0, r)
        /\ Ordered(quicksort(a, 0, r), 0, r)
    <3>1. a \in [D -> S] /\ 0 \in Nat /\ 0 <= r
      BY <2>2
    <3> QED BY <2>2, <3>1, QuicksortIs
  <2> QED BY <2>1, <2>2, <2>3, Zenon
<1>3. CASE ~(n > 1)
  <2>1. qsort(a) = a
    BY <1>1, <1>3 DEF qsort
  <2>2. Rearranges(a, a, 0 .. n - 1, 0, n - 1)
    BY NothingMoved
  <2>3. Ordered(a, 0, n - 1)
    BY <1>3 DEF Ordered, Keyed
  <2> QED BY <2>1, <2>2, <2>3
<1> QED BY <1>2, <1>3

(* Whatever the number of elements, their keys and how many are equal:     *)
(* qsort leaves the elements of the array, each as often as it was there,  *)
(* in order, and bsearch then finds every key that is there and no other.  *)
THEOREM EveryArrayIsSorted ==
    ASSUME NEW n \in Nat, NEW S, Keyed(S), NEW a \in [0 .. n - 1 -> S]
    PROVE  SortsAndFinds(a) /\ Rearranges(a, qsort(a), 0 .. n - 1, 0, n - 1)
<1>1. PICK s \in [0 .. n - 1 -> S] :
        /\ s = qsort(a) /\ Rearranges(a, s, 0 .. n - 1, 0, n - 1) /\ Ordered(s, 0, n - 1)
  BY QsortIs
<1>2. DOMAIN a = 0 .. n - 1 /\ DOMAIN s = 0 .. n - 1 /\ Cardinality(DOMAIN s) = n
  BY FS_Interval
<1>3. InOrder(a, s)
  <2>1. {s[i] : i \in DOMAIN a} = {a[i] : i \in DOMAIN a}
    <3>1. SameElements(a, s, 0 .. n - 1)
      BY <1>1, MovedRange
    <3>2. {s[i] : i \in 0 .. n - 1} = {a[i] : i \in 0 .. n - 1}
      BY <3>1, Zenon DEF SameElements
    <3> QED BY <1>2, <3>2
  <2>2. ASSUME NEW i \in DOMAIN a, NEW j \in DOMAIN a, j = i + 1 PROVE compar(s[i], s[j]) <= 0
    <3>1. i \in 0 .. n - 1 /\ j \in 0 .. n - 1 /\ i <= j
      BY <1>2, <2>2
    <3>2. s[i].key <= s[j].key /\ s[i].key \in Int /\ s[j].key \in Int
      BY <1>1, <3>1 DEF Ordered, Keyed
    <3> QED BY <3>2 DEF compar
  <2>3. \A i \in DOMAIN a : i \in DOMAIN s
    BY <1>2
  <2> QED BY <1>2, <2>1, <2>2, Zenon DEF InOrder
<1>4. ASSUME NEW k \in Int PROVE Searched(s, k)
  <2>1. PICK key : key = [key |-> k]
    OBVIOUS
  <2>2. key.key = k
    BY <2>1
  <2>3. PICK at : at = bsearch(key, s, 0, n)
    OBVIOUS
  <2>4. \/ at \in 0 .. n - 1 /\ s[at].key = k
        \/ at = -1 /\ \A i \in 0 .. n - 1 : s[i].key # k
    BY <1>1, <2>2, <2>3, BsearchIs
  <2> QED BY <1>2, <2>1, <2>3, <2>4, Zenon DEF Searched
<1>5. \A k \in {a[i].key : i \in DOMAIN a} \cup {0} : k \in Int /\ k + 1 \in Int
  BY <1>2 DEF Keyed
<1> QED BY <1>1, <1>3, <1>4, <1>5 DEF SortsAndFinds, SortedAs

-----------------------------------------------------------------------------
(* Dates.                                                                  *)

(* The days before each month, of a year that has leap days more.          *)
HasMonths(M, leap) ==
    /\ M[1] = 0 /\ M[2] = 31 /\ M[3] = 59 + leap /\ M[4] = 90 + leap /\ M[5] = 120 + leap
    /\ M[6] = 151 + leap /\ M[7] = 181 + leap /\ M[8] = 212 + leap /\ M[9] = 243 + leap
    /\ M[10] = 273 + leap /\ M[11] = 304 + leap /\ M[12] = 334 + leap

(* The tables have them.                                                   *)
LEMMA MonthsAre ==
    ASSUME NEW y \in Nat
    PROVE  \E leap \in {0, 1} : HasMonths(Months(y), leap) /\ (leap = 1 <=> y % 4 = 0)
<1>1. HasMonths(monthdays, 0)
  BY DEF HasMonths, monthdays
<1>2. HasMonths(monthdays2, 1)
  <2> HIDE DEF monthdays
  <2>1. \A m \in 1 .. 13 : monthdays2[m] = IF m <= 2 THEN monthdays[m] ELSE monthdays[m] + 1
    BY DEF monthdays2
  <2> QED BY <1>1, <2>1 DEF HasMonths
<1>3. CASE y % 4 = 0
  BY <1>2, <1>3 DEF Months
<1>4. CASE y % 4 # 0
  BY <1>1, <1>4 DEF Months
<1> QED BY <1>3, <1>4

(* The months that begin after a day, among the first twelve.              *)
LaterMonths(M, d) == {m \in 0 .. 11 : M[m + 1] > d}
MonthOf(M, d) == IF LaterMonths(M, d) = {} THEN 12 ELSE Min(LaterMonths(M, d)) - 1

(* The month of a day: the last one that begins before it, of the first    *)
(* eleven, or 12.                                                          *)
LEMMA MonthIsFound ==
    ASSUME NEW M, NEW leap \in {0, 1}, HasMonths(M, leap), NEW d \in Nat,
           NEW mon, mon = MonthOf(M, d)
    PROVE  \/ mon = 12 /\ d >= M[12]
           \/ mon \in 0 .. 10 /\ d < M[12] /\ M[mon + 1] \in Nat /\ d - M[mon + 1] \in 0 .. 30
<1>1. PICK later : later = LaterMonths(M, d)
  OBVIOUS
<1>2. mon = IF later = {} THEN 12 ELSE Min(later) - 1
  BY <1>1 DEF MonthOf
<1>3. /\ \A m \in 0 .. 11 : M[m + 1] \in Nat /\ M[m + 1] <= M[12]
      /\ \A m \in 1 .. 11 : M[m + 1] <= M[m] + 31
      /\ M[1] = 0
  <2>1. ASSUME NEW m \in 0 .. 11 PROVE M[m + 1] \in Nat /\ M[m + 1] <= M[12]
    <3>1. m \in {0, 1, 2, 3, 4, 5, 6, 7, 8, 9, 10, 11}
      OBVIOUS
    <3> QED BY <3>1 DEF HasMonths
  <2>2. ASSUME NEW m \in 1 .. 11 PROVE M[m + 1] <= M[m] + 31
    <3>1. m \in {1, 2, 3, 4, 5, 6, 7, 8, 9, 10, 11}
      OBVIOUS
    <3> QED BY <3>1 DEF HasMonths
  <2> QED BY <2>1, <2>2 DEF HasMonths
<1>4. CASE d >= M[12]
  <2>1. later = {}
    BY <1>1, <1>3, <1>4 DEF LaterMonths
  <2> QED BY <1>2, <1>4, <2>1
<1>5. CASE d < M[12]
  <2>1. later \in SUBSET (0 .. 11) /\ 11 \in later
    BY <1>1, <1>5 DEF LaterMonths
  <2>2. Min(later) \in later /\ \A k \in 0 .. Min(later) - 1 : k \notin later
    <3>1. PICK m \in Nat, r \in Nat : m = 0 /\ r = 11
      OBVIOUS
    <3>2. m <= r /\ later \in SUBSET (m .. r) /\ r \in later
      BY <2>1, <3>1
    <3>3. Min(later) \in later /\ \A k \in m .. Min(later) - 1 : k \notin later
      BY <3>2, ScanRight
    <3> QED BY <3>1, <3>3
  <2>3. PICK g \in 0 .. 11 : g = Min(later)
    BY <2>1, <2>2
  <2>4. g # 0 /\ M[g + 1] > d
    BY <1>1, <1>3, <2>2, <2>3 DEF LaterMonths
  <2>5. g - 1 \in 0 .. 10 /\ mon = g - 1
    BY <1>2, <2>1, <2>3, <2>4
  <2>6. g - 1 \notin later
    BY <2>2, <2>3, <2>5
  <2>7. M[(g - 1) + 1] <= d
    <3>1. ~(M[(g - 1) + 1] > d) /\ M[(g - 1) + 1] \in Nat
      BY <1>1, <1>3, <2>5, <2>6 DEF LaterMonths
    <3> QED BY <3>1
  <2>8. M[g] \in Nat /\ M[g] <= d /\ M[g + 1] <= M[g] + 31 /\ M[g + 1] > d /\ M[g + 1] \in Nat
    <3>1. (g - 1) + 1 = g /\ g \in 1 .. 11
      BY <2>4
    <3> QED BY <1>3, <2>4, <2>5, <2>7, <3>1
  <2>9. PICK x \in Nat, z \in Nat : x = M[g] /\ z = M[g + 1]
    BY <2>8
  <2>10. M[mon + 1] = x /\ d - x \in 0 .. 30
    <3>1. mon + 1 = g
      BY <2>4, <2>5
    <3>2. x <= d /\ z <= x + 31 /\ z > d
      BY <2>8, <2>9
    <3> QED BY <2>9, <3>1, <3>2
  <2> QED BY <1>5, <2>5, <2>10
<1> QED
  <2>1. M[12] \in Nat
    BY DEF HasMonths
  <2> QED BY <1>4, <1>5, <2>1

(* The years that the tables of months take for leap years.                *)
Leaps(i) == {y \in EPOCH .. EPOCH + i - 1 : y % 4 = 0}

(* There are so many of them before a year.                                *)
LEMMA LeapsAre ==
    ASSUME NEW i \in Nat
    PROVE  IsFiniteSet(Leaps(i)) /\ Cardinality(Leaps(i)) = (i + 1) \div 4
<1> DEFINE S == {n \in Nat : IsFiniteSet(Leaps(n)) /\ Cardinality(Leaps(n)) = (n + 1) \div 4}
<1>1. 0 \in S
  <2>1. Leaps(0) = {}
    BY DEF Leaps, EPOCH
  <2>2. (0 + 1) \div 4 = 0
    OBVIOUS
  <2> QED BY <2>1, <2>2, FS_EmptySet
<1>2. ASSUME NEW n \in S PROVE n + 1 \in S
  <2>1. n \in Nat /\ IsFiniteSet(Leaps(n)) /\ Cardinality(Leaps(n)) = (n + 1) \div 4
    OBVIOUS
  <2>2. EPOCH + n \notin Leaps(n)
    BY <2>1 DEF Leaps, EPOCH
  <2>3. CASE (EPOCH + n) % 4 = 0
    <3>1. Leaps(n + 1) = Leaps(n) \cup {EPOCH + n}
      BY <2>1, <2>3 DEF Leaps, EPOCH
    <3>2. IsFiniteSet(Leaps(n + 1)) /\ Cardinality(Leaps(n + 1)) = Cardinality(Leaps(n)) + 1
      BY <2>1, <2>2, <3>1, FS_AddElement
    <3>3. (n + 2) \div 4 = (n + 1) \div 4 + 1 /\ (n + 1) + 1 = n + 2
      BY <2>1, <2>3 DEF EPOCH
    <3> QED BY <2>1, <3>2, <3>3
  <2>4. CASE (EPOCH + n) % 4 # 0
    <3>1. Leaps(n + 1) = Leaps(n)
      BY <2>1, <2>4 DEF Leaps, EPOCH
    <3>2. (n + 2) \div 4 = (n + 1) \div 4 /\ (n + 1) + 1 = n + 2
      BY <2>1, <2>4 DEF EPOCH
    <3> QED BY <2>1, <3>1, <3>2
  <2> QED BY <2>3, <2>4
<1>3. \A n \in Nat : n \in S
  <2>1. S \in SUBSET Nat
    OBVIOUS
  <2> HIDE DEF S
  <2> QED BY <1>1, <1>2, <2>1, SetInduction
<1> QED BY <1>3

(* The days from 1970 to the beginning of a year, by the table of years.   *)
LEMMA SumsAre ==
    ASSUME NEW i \in 0 .. 59
    PROVE  sumofdays[i + 1] = 365 * i + (i + 3) \div 4
<1>1. i + 1 \in 1 .. 60 /\ (i + 1) - 1 = i /\ (i + 1) + 2 = i + 3
  OBVIOUS
<1> QED BY <1>1 DEF sumofdays

(* The years that begin after a day.                                       *)
LaterYears(days) == {i \in 0 .. 59 : sumofdays[i + 1] > days}
YearOf(days) == IF LaterYears(days) = {} THEN 0 ELSE Min(LaterYears(days)) - 1

(* The year of a day is found in the table.                                *)
LEMMA YearIsFound ==
    ASSUME NEW i \in 0 .. 58, NEW d \in Nat, d <= IF i % 4 = 0 THEN 365 ELSE 364
    PROVE  YearOf(sumofdays[i + 1] + d) = i
<1>1. PICK later : later = LaterYears(sumofdays[i + 1] + d)
  OBVIOUS
<1>2. YearOf(sumofdays[i + 1] + d) = IF later = {} THEN 0 ELSE Min(later) - 1
  BY <1>1 DEF YearOf
<1>3. sumofdays[i + 1] = 365 * i + (i + 3) \div 4
  BY SumsAre
<1>4. ASSUME NEW k \in 0 .. 59 PROVE k \in later <=> k > i
  <2>1. sumofdays[k + 1] = 365 * k + (k + 3) \div 4
    BY SumsAre
  <2>2. k \in later <=> 365 * k + (k + 3) \div 4 > 365 * i + (i + 3) \div 4 + d
    BY <1>1, <1>3, <2>1 DEF LaterYears
  <2>3. CASE k > i
    <3>1. (k + 3) \div 4 >= (i + 4) \div 4 /\ k >= i + 1
      BY <2>3
    <3>2. (i + 4) \div 4 = (i + 3) \div 4 + (IF i % 4 = 0 THEN 1 ELSE 0)
      OBVIOUS
    <3> QED BY <2>2, <2>3, <3>1, <3>2
  <2>4. CASE k <= i
    <3>1. (k + 3) \div 4 <= (i + 3) \div 4
      BY <2>4
    <3> QED BY <2>2, <2>4, <3>1
  <2> QED BY <2>3, <2>4
<1>5. later \in SUBSET (0 .. 59) /\ 59 \in later
  BY <1>1, <1>4 DEF LaterYears
<1>6. Min(later) \in later /\ \A k \in 0 .. Min(later) - 1 : k \notin later
  <2>1. PICK m \in Nat, r \in Nat : m = 0 /\ r = 59
    OBVIOUS
  <2>2. m <= r /\ later \in SUBSET (m .. r) /\ r \in later
    BY <1>5, <2>1
  <2>3. Min(later) \in later /\ \A k \in m .. Min(later) - 1 : k \notin later
    BY <2>2, ScanRight
  <2> QED BY <2>1, <2>3
<1>7. PICK g \in 0 .. 59 : g = Min(later)
  BY <1>5, <1>6
<1>8. g = i + 1
  <2>1. g > i
    BY <1>4, <1>6, <1>7
  <2>2. i + 1 \in later
    BY <1>4
  <2>3. ~(i + 1 < g)
    BY <1>6, <1>7, <2>2
  <2> QED BY <2>1, <2>3
<1> QED BY <1>2, <1>5, <1>7, <1>8

(* Seconds are counted within a day.                                       *)
LEMMA DayHas == SECONDS_PER_DAY = 86400
BY SMT DEF SECONDS_PER_DAY

LEMMA DayIsNumber == SECONDS_PER_DAY \in Nat
BY SMT DEF SECONDS_PER_DAY

(* A moment: days since 1970, and seconds of the day.                      *)
IsMoment(t, days, seconds) == t = 86400 * days + seconds /\ seconds < 86400

(* The whole days of a moment.                                             *)
LEMMA DayIs ==
    ASSUME NEW days \in Nat, NEW seconds \in Nat, NEW t \in Nat,
           IsMoment(t, days, seconds)
    PROVE  t \div 86400 = days
BY SMT DEF IsMoment

(* The parts of the time of day.                                           *)
HasTime(t, seconds, h, m, s) ==
    /\ (t \div 3600) % 24 = h /\ (t \div 60) % 60 = m /\ t % 60 = s
    /\ h * 3600 + m * 60 + s = seconds

(* They are found by division.                                             *)
LEMMA TimeIs ==
    ASSUME NEW days \in Nat, NEW seconds \in Nat, NEW t \in Nat,
           IsMoment(t, days, seconds)
    PROVE  \E h \in 0 .. 23, m \in 0 .. 59, s \in 0 .. 59 : HasTime(t, seconds, h, m, s)
<1>1. PICK a \in Nat, s \in 0 .. 59 : seconds = 60 * a + s
  <2>1. PICK a \in Nat : a = seconds \div 60
    BY SMT
  <2>2. PICK s \in 0 .. 59 : seconds = 60 * a + s
    BY <2>1, SMT
  <2> QED BY <2>2
<1>2. PICK h \in 0 .. 23, m \in 0 .. 59 : a = 60 * h + m
  <2>1. PICK h \in Nat : h = a \div 60
    BY SMT
  <2>2. PICK m \in 0 .. 59 : a = 60 * h + m
    BY <2>1, SMT
  <2>3. PICK k \in 0 .. 23 : k = h
    BY <1>1, <2>2, SMT DEF IsMoment
  <2>4. a = 60 * k + m
    BY <2>2, <2>3, SMT
  <2> QED BY <2>4
<1>3. t % 60 = s /\ t \div 60 = 1440 * days + a
  <2>1. t = 60 * (1440 * days + a) + s
    BY <1>1, SMT DEF IsMoment
  <2> QED BY <2>1, SMT
<1>4. (t \div 60) % 60 = m
  <2>1. 1440 * days + a = 60 * (24 * days + h) + m
    BY <1>2, SMT
  <2> QED BY <1>3, <2>1, SMT
<1>5. (t \div 3600) % 24 = h
  <2>1. t = 3600 * (24 * days + h) + (60 * m + s)
    BY <1>1, <1>2, SMT DEF IsMoment
  <2>2. 60 * m + s < 3600
    BY SMT
  <2>3. t \div 3600 = 24 * days + h
    BY <2>1, <2>2, SMT
  <2> QED BY <2>3, SMT
<1>6. h * 3600 + m * 60 + s = seconds
  BY <1>1, <1>2, SMT
<1>7. t % 60 = s
  BY <1>3, SMT
<1>8. HasTime(t, seconds, h, m, s)
  BY <1>4, <1>5, <1>6, <1>7, SMT DEF HasTime
<1> QED BY <1>8, Zenon

(* What _gmtime makes of a moment of a year in the tables.                 *)
TakenApart(tm, y, d, wday, h, m, s, mon, mday) ==
    tm = [tm_sec |-> s, tm_min |-> m, tm_hour |-> h, tm_wday |-> wday, tm_year |-> y,
          tm_yday |-> d, tm_mon |-> mon, tm_mday |-> mday]

(* The hours, minutes and seconds of a day.                                *)
AddUp(h, m, s, seconds) == h * 3600 + m * 60 + s = seconds

(* Day d of a year is mday in the month mon, if it is not December.        *)
OfMonth(year, d, mon, mday) ==
    \/ mon = 12 /\ d >= Months(year)[12]
    \/ /\ mon \in 0 .. 10 /\ d < Months(year)[12] /\ Months(year)[mon + 1] \in Nat
       /\ mday = 1 + d - Months(year)[mon + 1] /\ mday \in 1 .. 31

(* What is found of day d of the year i: its month too, but for December.  *)
FoundAs(t, i, d, seconds, h, m, s, mon, mday) ==
    /\ TakenApart(_gmtime(t), EPOCH + i, d, (4 + (sumofdays[i + 1] + d)) % 7, h, m, s, mon, mday)
    /\ AddUp(h, m, s, seconds)
    /\ OfMonth(EPOCH + i, d, mon, mday)

(* The parts of a date are found, but for December.                        *)
LEMMA MomentIsTakenApart ==
    ASSUME NEW i \in 0 .. 58, NEW d \in Nat, d <= IF i % 4 = 0 THEN 365 ELSE 364,
           NEW seconds \in Nat,
           NEW t \in Nat, IsMoment(t, sumofdays[i + 1] + d, seconds)
    PROVE  \E h \in 0 .. 23, m \in 0 .. 59, s \in 0 .. 59, mon \in 0 .. 12, mday \in Int :
              FoundAs(t, i, d, seconds, h, m, s, mon, mday)
<1> DEFINE days == t \div SECONDS_PER_DAY
           laterYears == {k \in 0 .. 59 : sumofdays[k + 1] > days}
           years == IF laterYears = {} THEN 0 ELSE Min(laterYears) - 1
           yday == days - sumofdays[years + 1]
           months == Months(EPOCH + years)
           laterMonths == {k \in 0 .. 11 : months[k + 1] > yday}
           mon == IF laterMonths = {} THEN 12 ELSE Min(laterMonths) - 1
           mday == 1 + yday - (IF mon = 12 THEN 0 ELSE months[mon + 1])
<1>1. PICK sum \in Nat : sum = sumofdays[i + 1]
  <2>1. sumofdays[i + 1] = 365 * i + (i + 3) \div 4
    BY SumsAre
  <2> QED BY <2>1
<1>2. sum + d \in Nat /\ IsMoment(t, sum + d, seconds)
  BY <1>1
<1>3. days = sum + d
  <2>1. SECONDS_PER_DAY = 86400
    BY DayHas
  <2>2. t \div 86400 = sum + d
    BY <1>2, DayIs
  <2> QED BY <2>1, <2>2
<1>4. PICK h \in 0 .. 23, m \in 0 .. 59, s \in 0 .. 59 : HasTime(t, seconds, h, m, s)
  BY <1>2, TimeIs, Zenon
<1> HIDE DEF days
<1>5. years = i
  <2>1. years = YearOf(days)
    BY Zenon DEF LaterYears, YearOf
  <2>2. YearOf(sumofdays[i + 1] + d) = i
    BY YearIsFound
  <2> QED BY <1>1, <1>3, <2>1, <2>2, Zenon
<1> HIDE DEF years
<1>6. yday = d
  BY <1>1, <1>3, <1>5
<1>7. months = Months(EPOCH + i)
  BY <1>5
<1>8. PICK leap \in {0, 1} : HasMonths(months, leap)
  <2>1. EPOCH + i \in Nat
    BY DEF EPOCH
  <2> QED BY <1>7, <2>1, MonthsAre
<1> HIDE DEF yday, months
<1>9. \/ mon = 12 /\ d >= months[12]
      \/ /\ mon \in 0 .. 10 /\ d < months[12]
         /\ months[mon + 1] \in Nat /\ d - months[mon + 1] \in 0 .. 30
  <2>1. mon = MonthOf(months, yday)
    BY Zenon DEF LaterMonths, MonthOf
  <2>2. mon = MonthOf(months, d)
    BY <1>6, <2>1, Zenon
  <2> HIDE DEF mon
  <2> QED BY <1>8, <2>2, MonthIsFound
<1> HIDE DEF laterMonths, mon
<1>10. /\ mon \in 0 .. 12 /\ mday \in Int
       /\ mon # 12 => mday = 1 + d - months[mon + 1] /\ mday \in 1 .. 31
  BY <1>6, <1>9
<1> HIDE DEF mday
<1>11. TakenApart(_gmtime(t), EPOCH + i, d, (4 + (sumofdays[i + 1] + d)) % 7, h, m, s, mon, mday)
  <2>1. t % 60 = s /\ (t \div 60) % 60 = m /\ (t \div 3600) % 24 = h
    BY <1>4 DEF HasTime
  <2>2. (4 + days) % 7 = (4 + (sumofdays[i + 1] + d)) % 7
    BY <1>1, <1>3
  <2>3. _gmtime(t) = [tm_sec |-> t % 60, tm_min |-> (t \div 60) % 60,
                      tm_hour |-> (t \div 3600) % 24, tm_wday |-> (4 + days) % 7,
                      tm_year |-> EPOCH + years, tm_yday |-> yday, tm_mon |-> mon,
                      tm_mday |-> mday]
    BY Zenon DEF _gmtime, days, laterYears, years, yday, months, laterMonths, mon, mday
  <2>4. EPOCH + years = EPOCH + i
    BY <1>5, Zenon
  <2>5. PICK w : w = (4 + days) % 7
    OBVIOUS
  <2>6. PICK y : y = EPOCH + years
    OBVIOUS
  <2>7. _gmtime(t) = [tm_sec |-> s, tm_min |-> m, tm_hour |-> h, tm_wday |-> w, tm_year |-> y,
                      tm_yday |-> d, tm_mon |-> mon, tm_mday |-> mday]
    BY <1>6, <2>1, <2>3, <2>5, <2>6, SMT
  <2> QED BY <2>2, <2>4, <2>5, <2>6, <2>7, Zenon DEF TakenApart
<1>12. AddUp(h, m, s, seconds)
  BY <1>4 DEF HasTime, AddUp
<1>13. OfMonth(EPOCH + i, d, mon, mday)
  <2>1. CASE mon = 12
    BY <1>7, <1>9, <2>1 DEF OfMonth
  <2>2. CASE mon # 12
    BY <1>7, <1>9, <1>10, <2>2, Zenon DEF OfMonth
  <2> QED BY <2>1, <2>2
<1>14. FoundAs(t, i, d, seconds, h, m, s, mon, mday)
  BY <1>11, <1>12, <1>13, Zenon DEF FoundAs
<1> QED BY <1>10, <1>14, Zenon

(* The tables of months count the leap days of other years than the table  *)
(* of years does: in two years of four they have one less.                 *)
LEMMA DaysAre ==
    ASSUME NEW i \in 0 .. 58, NEW d \in Nat, NEW mon, NEW mday \in Int,
           Months(EPOCH + i)[mon + 1] \in Nat, mday = 1 + d - Months(EPOCH + i)[mon + 1]
    PROVE  daysdiff(EPOCH + i, mon, mday)
              = sumofdays[i + 1] + d - (IF (EPOCH + i) % 4 \in {3, 0} THEN 1 ELSE 0)
<1>1. PICK sum \in Nat : sum = sumofdays[i + 1] /\ sum = 365 * i + (i + 3) \div 4
  <2>1. sumofdays[i + 1] = 365 * i + (i + 3) \div 4
    BY SumsAre
  <2> QED BY <2>1
<1>2. PICK before \in Nat : before = Months(EPOCH + i)[mon + 1]
  OBVIOUS
<1>3. PICK leaps \in Nat : leaps = Cardinality(Leaps(i)) /\ leaps = (i + 1) \div 4
  BY LeapsAre
<1>4. PICK year \in Nat : year = EPOCH + i
  BY DEF EPOCH
<1>5. daysdiff(year, mon, mday) = 365 * i + leaps + before + mday - 1
  <2>1. {y \in EPOCH .. year - 1 : y % 4 = 0} = Leaps(i)
    BY <1>4 DEF Leaps, EPOCH
  <2>2. year - EPOCH = i
    BY <1>4 DEF EPOCH
  <2>3. daysdiff(year, mon, mday)
           = 365 * (year - EPOCH) + Cardinality({y \in EPOCH .. year - 1 : y % 4 = 0})
               + Months(year)[mon + 1] + mday - 1
    BY Zenon DEF daysdiff
  <2>4. daysdiff(year, mon, mday) = 365 * i + leaps + before + mday - 1
    <3>1. Months(year)[mon + 1] = before
      BY <1>2, <1>4
    <3>2. Cardinality({y \in EPOCH .. year - 1 : y % 4 = 0}) = leaps
      BY <1>3, <2>1
    <3> QED BY <2>2, <2>3, <3>1, <3>2
  <2> QED BY <2>4
<1>6. mday = 1 + d - before
  BY <1>2
<1>7. (i + 3) \div 4 - (i + 1) \div 4 = IF year % 4 \in {3, 0} THEN 1 ELSE 0
  BY <1>4 DEF EPOCH
<1> QED BY <1>1, <1>3, <1>4, <1>5, <1>6, <1>7

(* A number of two digits is read from the clock as it is shown.           *)
LEMMA ShownIsRead ==
    ASSUME NEW n \in 0 .. 99
    PROVE  FromClock(16 * (n \div 10) + (n % 10)) = n
<1>1. PICK a \in 0 .. 9, b \in 0 .. 9 : n \div 10 = a /\ n % 10 = b /\ n = 10 * a + b
  OBVIOUS
<1>2. (16 * a + b) \div 16 = a
  OBVIOUS
<1> QED BY <1>1, <1>2 DEF FromClock

(* The date that the clock shows is the one that is read.                  *)
LEMMA ClockIsRead ==
    ASSUME NEW tm, tm.tm_year \in Nat, tm.tm_mon \in 0 .. 11, tm.tm_mday \in 1 .. 31,
           tm.tm_hour \in 0 .. 23, tm.tm_min \in 0 .. 59, tm.tm_sec \in 0 .. 59
    PROVE  ClockRead(tm)
<1> DEFINE Shown(n) == 16 * (n \div 10) + (n % 10)
           register == [r \in 0 .. 9 |->
              Shown(CASE r = 9 -> tm.tm_year % 100 [] r = 8 -> tm.tm_mon + 1 [] r = 7 -> tm.tm_mday
                      [] r = 4 -> tm.tm_hour [] r = 2 -> tm.tm_min [] OTHER -> tm.tm_sec)]
<1>1. /\ register[9] = Shown(tm.tm_year % 100) /\ register[8] = Shown(tm.tm_mon + 1)
      /\ register[7] = Shown(tm.tm_mday) /\ register[4] = Shown(tm.tm_hour)
      /\ register[2] = Shown(tm.tm_min) /\ register[0] = Shown(tm.tm_sec)
  <2> HIDE DEF Shown
  <2> QED BY SMT
<1>2. /\ tm.tm_year % 100 \in 0 .. 99 /\ tm.tm_mon + 1 \in 0 .. 99 /\ tm.tm_mday \in 0 .. 99
      /\ tm.tm_hour \in 0 .. 99 /\ tm.tm_min \in 0 .. 99 /\ tm.tm_sec \in 0 .. 99
  BY SMT
<1>3. \A n \in 0 .. 99 : FromClock(Shown(n)) = n
  BY ShownIsRead
<1> HIDE DEF Shown
<1>4. /\ FromClock(register[9]) = tm.tm_year % 100 /\ FromClock(register[8]) = tm.tm_mon + 1
      /\ FromClock(register[7]) = tm.tm_mday /\ FromClock(register[4]) = tm.tm_hour
      /\ FromClock(register[2]) = tm.tm_min /\ FromClock(register[0]) = tm.tm_sec
  <2> HIDE DEF register
  <2> QED BY <1>1, <1>2, <1>3, SMT
<1>5. reset_info(register) =
        [year |-> tm.tm_year % 100, month |-> tm.tm_mon + 1, day |-> tm.tm_mday,
         h |-> tm.tm_hour, m |-> tm.tm_min, s |-> tm.tm_sec]
  <2> HIDE DEF register
  <2> QED BY <1>4, SMT DEF reset_info
<1> QED BY <1>5, Zenon DEF ClockRead, Shown, register

(* DatesAgree of every second of year i of the tables.                     *)
LEMMA YearAgrees ==
    ASSUME NEW i \in 0 .. 58, NEW year, year = EPOCH + i,
           NEW of \in Nat, of < SECONDS_PER_DAY
    PROVE  DatesAgree(year, of)
<1>1. i = year - EPOCH /\ year = EPOCH + i /\ 1 + year - EPOCH = i + 1
  BY SMT DEF EPOCH
<1>2. year \in Nat /\ (year % 4 = 2 <=> i % 4 = 0)
  BY <1>1, SMT DEF EPOCH
<1>3. SECONDS_PER_DAY = 86400
  BY DayHas
<1>4. of < 86400
  BY <1>3, SMT
<1> DEFINE t(d) == (sumofdays[1 + year - EPOCH] + d) * SECONDS_PER_DAY + of
           apart == IF year % 4 \in {3, 0} THEN 1 ELSE 0
           Agrees(d) ==
              LET tm == _gmtime(t(d))
              IN  /\ tm.tm_year = year /\ tm.tm_yday = d
                  /\ tm.tm_mon = 12 <=> d >= Months(year)[12]
                  /\ tm.tm_mon < 12 =>
                        /\ mktime(tm) = t(d) - apart * SECONDS_PER_DAY
                        /\ tm.tm_mday \in 1 .. 31
                        /\ dayofweek(year, tm.tm_mon, tm.tm_mday) = (tm.tm_wday + 7 - apart) % 7
                        /\ ClockRead(tm)
<1>5. ASSUME NEW d \in 0 .. (IF year % 4 = 2 THEN 365 ELSE 364) PROVE Agrees(d)
  <2>1. d \in Nat /\ d <= IF i % 4 = 0 THEN 365 ELSE 364
    BY <1>2, SMT
  <2>2. PICK days \in Nat : days = sumofdays[i + 1] + d
    <3>1. sumofdays[i + 1] = 365 * i + (i + 3) \div 4
      BY SumsAre
    <3> QED BY <2>1, <3>1, SMT
  <2>3. PICK at \in Nat : at = days * 86400 + of
    BY SMT
  <2>4. t(d) = at
    <3>1. sumofdays[1 + year - EPOCH] + d = days
      BY <1>1, <2>2, Zenon
    <3>2. t(d) = days * SECONDS_PER_DAY + of
      BY <3>1, Zenon
    <3>3. days * SECONDS_PER_DAY + of = at
      BY <1>3, <2>3, SMT
    <3> QED BY <3>2, <3>3, Zenon
  <2>5. IsMoment(at, sumofdays[i + 1] + d, of)
    BY <1>4, <2>2, <2>3, SMT DEF IsMoment
  <2>6. PICK h \in 0 .. 23, m \in 0 .. 59, s \in 0 .. 59, mon \in 0 .. 12, mday \in Int :
          FoundAs(at, i, d, of, h, m, s, mon, mday)
    BY <2>1, <2>5, MomentIsTakenApart, Zenon
  <2>7. /\ TakenApart(_gmtime(at), year, d, (4 + days) % 7, h, m, s, mon, mday)
        /\ AddUp(h, m, s, of) /\ OfMonth(year, d, mon, mday)
    BY <1>1, <2>2, <2>6, Zenon DEF FoundAs
  <2>8. PICK tm : tm = _gmtime(at)
    OBVIOUS
  <2>9. tm = [tm_sec |-> s, tm_min |-> m, tm_hour |-> h, tm_wday |-> (4 + days) % 7,
              tm_year |-> year, tm_yday |-> d, tm_mon |-> mon, tm_mday |-> mday]
    BY <2>7, <2>8, Zenon DEF TakenApart
  <2>10. /\ tm.tm_sec = s /\ tm.tm_min = m /\ tm.tm_hour = h /\ tm.tm_wday = (4 + days) % 7
         /\ tm.tm_year = year /\ tm.tm_yday = d /\ tm.tm_mon = mon /\ tm.tm_mday = mday
    BY <2>9, Zenon
  <2>11. h * 3600 + m * 60 + s = of
    BY <2>7, SMT DEF AddUp
  <2>12. Months(year)[12] \in Nat
    BY <1>2, MonthsAre DEF HasMonths
  <2>13. tm.tm_mon = 12 <=> d >= Months(year)[12]
    BY <2>1, <2>10, <2>7, <2>12, SMT DEF OfMonth
  <2>14. ASSUME mon < 12
         PROVE  /\ mktime(tm) = at - apart * SECONDS_PER_DAY
                /\ mday \in 1 .. 31
                /\ dayofweek(year, mon, mday) = (((4 + days) % 7) + 7 - apart) % 7
                /\ ClockRead(tm)
    <3>1. /\ Months(year)[mon + 1] \in Nat /\ mday \in 1 .. 31
          /\ mday = 1 + d - Months(year)[mon + 1] /\ mon \in 0 .. 10
      BY <2>7, <2>14, SMT DEF OfMonth
    <3>2. PICK ap \in {0, 1} : ap = apart
      BY SMT
    <3>3. daysdiff(year, mon, mday) = days - ap
      <4>1. /\ Months(EPOCH + i)[mon + 1] \in Nat
            /\ mday = 1 + d - Months(EPOCH + i)[mon + 1]
        BY <1>1, <3>1, Zenon
      <4>2. daysdiff(EPOCH + i, mon, mday)
               = sumofdays[i + 1] + d - (IF (EPOCH + i) % 4 \in {3, 0} THEN 1 ELSE 0)
        BY <2>1, <4>1, DaysAre
      <4>3. daysdiff(year, mon, mday) = sumofdays[i + 1] + d - apart
        <5>1. EPOCH + i = year
          BY <1>1
        <5> QED BY <4>2, <5>1
      <4> HIDE DEF apart
      <4>4. PICK sum \in Int : sum = sumofdays[i + 1]
        <5>1. sumofdays[i + 1] = 365 * i + (i + 3) \div 4
          BY SumsAre
        <5> QED BY <5>1, SMT
      <4>5. daysdiff(year, mon, mday) = sum + d - ap
        BY <3>2, <4>3, <4>4, Zenon
      <4>6. days = sum + d
        BY <2>2, <4>4, Zenon
      <4> QED BY <2>1, <4>5, <4>6, SMT
    <3>4. mktime(tm) = at - apart * SECONDS_PER_DAY
      <4>1. ~(year > 2100)
        BY <1>1, SMT DEF EPOCH
      <4>2. mktime(tm) = daysdiff(year, mon, mday) * SECONDS_PER_DAY + h * 3600 + m * 60 + s
        BY <2>10, <4>1, SMT DEF mktime
      <4>3. mktime(tm) = (days - ap) * 86400 + of
        BY <1>3, <2>11, <3>3, <4>2, SMT
      <4> QED BY <1>3, <2>3, <3>2, <4>3, SMT
    <3>5. dayofweek(year, mon, mday) = (((4 + days) % 7) + 7 - apart) % 7
      <4>1. dayofweek(year, mon, mday) = (4 + (days - ap)) % 7
        BY <3>3, Zenon DEF dayofweek
      <4> QED BY <3>2, <4>1, SMT
    <3>6. ClockRead(tm)
      BY <1>2, <2>10, <3>1, ClockIsRead, SMT
    <3> QED BY <3>1, <3>4, <3>5, <3>6
  <2> QED BY <2>4, <2>8, <2>10, <2>13, <2>14, Zenon
<1> HIDE DEF Agrees
<1>6. \A d \in 0 .. (IF year % 4 = 2 THEN 365 ELSE 364) : Agrees(d)
  BY <1>5, Zenon
<1> QED BY <1>6, Zenon DEF DatesAgree, Agrees

(* DatesAgree of every second from 1970 to 2028, which DatesAreRight       *)
(* checks at both ends of a day: what _gmtime takes apart, mktime,         *)
(* dayofweek and the clock's registers put together again, but for         *)
(* December and the years in which the two tables disagree.                *)
THEOREM EveryDateAgrees ==
    \A year \in EPOCH .. EPOCH + 58, seconds \in 0 .. SECONDS_PER_DAY - 1 :
        DatesAgree(year, seconds)
<1> SUFFICES ASSUME NEW year \in EPOCH .. EPOCH + 58, NEW seconds \in 0 .. SECONDS_PER_DAY - 1
             PROVE  DatesAgree(year, seconds)
  OBVIOUS
<1>1. seconds \in Nat /\ seconds < SECONDS_PER_DAY
  BY DayIsNumber, SMT
<1>2. PICK i \in 0 .. 58 : year = EPOCH + i
  BY SMT DEF EPOCH
<1> QED BY <1>1, <1>2, YearAgrees, Zenon

-----------------------------------------------------------------------------
(* A call is of one of the functions, with arguments of their types.       *)
CallsInv ==
    \/ input = NoCall
    \/ \E n, d \in 0 .. B2 - 1 : input = [call |-> "divide", n |-> n, d |-> d]
    \/ \E a \in Arrays : input = [call |-> "sort", array |-> a]
    \/ \E y \in EPOCH .. EPOCH + 58, s \in 0 .. SECONDS_PER_DAY - 1 :
          input = [call |-> "date", year |-> y, seconds |-> s]

(* No call has other arguments.                                            *)
LEMMA CallsKeep == CallsSpec => []CallsInv
<1>1. CallsInit => CallsInv
  BY DEF CallsInit, CallsInv
<1>2. CallsInv /\ [CallsNext]_input => CallsInv'
  <2> SUFFICES ASSUME CallsInv, [CallsNext]_input PROVE CallsInv'
    OBVIOUS
  <2>1. ASSUME NEW n \in Dividends, NEW d \in Dividends, Divide(n, d) PROVE CallsInv'
    <3>1. n \in 0 .. B2 - 1 /\ d \in 0 .. B2 - 1
      BY ArgumentsAssumption
    <3> QED BY <2>1, <3>1, Zenon DEF CallsInv, Divide
  <2>2. ASSUME NEW a \in Arrays, Sort(a) PROVE CallsInv'
    BY <2>2, Zenon DEF CallsInv, Sort
  <2>3. ASSUME NEW y \in Years, NEW s \in DayTimes, TakeApart(y, s) PROVE CallsInv'
    <3>1. y \in EPOCH .. EPOCH + 58 /\ s \in 0 .. SECONDS_PER_DAY - 1
      BY ArgumentsAssumption, Zenon
    <3> QED BY <2>3, <3>1, Zenon DEF CallsInv, TakeApart
  <2>4. CASE UNCHANGED input
    BY <2>4, Zenon DEF CallsInv
  <2> QED BY <2>1, <2>2, <2>3, <2>4, Zenon DEF CallsNext
<1> QED BY <1>1, <1>2, PTL DEF CallsSpec

(* qsort and bsearch are right whenever they are called.                   *)
THEOREM SortedAndFoundAlways == CallsSpec => []SortedAndFound
<1>1. CallsInv => SortedAndFound
  <2> SUFFICES ASSUME CallsInv, input.call = "sort" PROVE SortsAndFinds(input.array)
    BY DEF SortedAndFound
  <2>1. PICK a \in Arrays : input.array = a
    BY DEF CallsInv, NoCall
  <2>2. PICK n \in Nat : n = Cardinality(DOMAIN a) /\ DOMAIN a = 0 .. n - 1
    <3>1. IsFiniteSet(DOMAIN a) /\ DOMAIN a = 0 .. Cardinality(DOMAIN a) - 1
      BY ArgumentsAssumption, Zenon
    <3>2. Cardinality(DOMAIN a) \in Nat
      BY <3>1, FS_CardinalityType
    <3> QED BY <3>1, <3>2
  <2> DEFINE S == {a[i] : i \in DOMAIN a}
  <2>3. Keyed(S)
    <3>1. \A i \in DOMAIN a : a[i].key \in Int
      BY ArgumentsAssumption, Zenon
    <3> QED BY <3>1 DEF Keyed
  <2>4. a \in [0 .. n - 1 -> S]
    <3>1. a = [i \in DOMAIN a |-> a[i]]
      BY ArgumentsAssumption, Zenon
    <3>2. a = [i \in 0 .. n - 1 |-> a[i]]
      BY <2>2, <3>1, Zenon
    <3>3. \A i \in 0 .. n - 1 : a[i] \in S
      BY <2>2
    <3> HIDE DEF S
    <3>4. [i \in 0 .. n - 1 |-> a[i]] \in [0 .. n - 1 -> S]
      BY <3>3
    <3> QED BY <3>2, <3>4, Zenon
  <2> HIDE DEF S
  <2>5. SortsAndFinds(a)
    BY <2>3, <2>4, EveryArrayIsSorted
  <2> QED BY <2>1, <2>5
<1> QED BY <1>1, CallsKeep, PTL

(* Division is right whenever the compiler calls for it.                   *)
THEOREM DivisionIsRightAlways == CallsSpec => []DivisionIsRight
<1>1. CallsInv => DivisionIsRight
  <2> SUFFICES ASSUME CallsInv, input.call = "divide" PROVE DividesRight(input.n, input.d)
    BY DEF DivisionIsRight
  <2>1. PICK n \in 0 .. B2 - 1, d \in 0 .. B2 - 1 : input.n = n /\ input.d = d
    BY DEF CallsInv, NoCall
  <2>2. DividesRight(n, d)
    BY EveryDivisionIsRight
  <2> QED BY <2>1, <2>2
<1> QED BY <1>1, CallsKeep, PTL

(* Every date is taken apart and put together as DatesAgree says.          *)
THEOREM DatesAreRightAlways == CallsSpec => []DatesAreRight
<1>1. CallsInv => DatesAreRight
  <2> SUFFICES ASSUME CallsInv, input.call = "date" PROVE DatesAgree(input.year, input.seconds)
    BY Zenon DEF DatesAreRight
  <2>1. PICK y \in EPOCH .. EPOCH + 58, s \in 0 .. SECONDS_PER_DAY - 1 :
          input.year = y /\ input.seconds = s
    <3>1. PICK y \in EPOCH .. EPOCH + 58, s \in 0 .. SECONDS_PER_DAY - 1 :
            input = [call |-> "date", year |-> y, seconds |-> s]
      BY DEF CallsInv, NoCall
    <3>2. input.year = y /\ input.seconds = s
      BY <3>1, Zenon
    <3> QED BY <3>2, Zenon
  <2>2. DatesAgree(y, s)
    BY EveryDateAgrees, Zenon
  <2> QED BY <2>1, <2>2, Zenon
<1> QED BY <1>1, CallsKeep, PTL
=============================================================================

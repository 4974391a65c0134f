------------------------ MODULE AddressSpaces_proofs ------------------------
(***************************************************************************)
(* Proofs about AddressSpaces, for every number of processes and frames:   *)
(* until a program that failed to load is reaped, no frame is on two lists *)
(* or lost; and when no process ends before its children, no frame serves  *)
(* two processes and all of those in use are marked.                       *)
(***************************************************************************)
EXTENDS AddressSpaces, FiniteSetTheorems, WellFoundedInduction, TLAPS

USE SpacesAssumption

-----------------------------------------------------------------------------
(* page_frame_aquire: Take(n) is n frames that were free, all different.   *)

LEMMA LeastExists ==
    ASSUME NEW T \in SUBSET Nat, T # {}
    PROVE  \E x \in T : \A y \in T : x <= y
<1> DEFINE Upto == {0 .. x : x \in T}
<1>1. Upto \subseteq FiniteSubsetsOf(Nat) /\ Upto # {}
  <2>1. \A x \in T : 0 .. x \in SUBSET Nat /\ IsFiniteSet(0 .. x)
    BY FS_Interval
  <2> QED
    BY <2>1 DEF FiniteSubsetsOf
<1>2. IsWellFoundedOn(StrictSubsetOrdering(Nat), FiniteSubsetsOf(Nat))
  BY FS_StrictSubsetOrderingWellFounded
<1>3. \E u \in Upto : \A w \in Upto : ~(<<w, u>> \in StrictSubsetOrdering(Nat))
  <2> HIDE DEF Upto
  <2> QED
    BY <1>1, <1>2, WFMin
<1>4. PICK x \in T : \A w \in Upto : ~(<<w, 0 .. x>> \in StrictSubsetOrdering(Nat))
  BY <1>3
<1>5. ASSUME NEW y \in T, y < x PROVE FALSE
  <2>1. 0 .. y \in Upto /\ 0 .. y \in SUBSET Nat /\ 0 .. x \in SUBSET Nat
    OBVIOUS
  <2>2. 0 .. y \subseteq 0 .. x
    BY <1>5
  <2>3. 0 .. y # 0 .. x
    <3>1. x \in 0 .. x /\ x \notin 0 .. y
      BY <1>5
    <3> QED
      BY <3>1
  <2>4. <<0 .. y, 0 .. x>> \in StrictSubsetOrdering(Nat)
    BY <2>1, <2>2, <2>3 DEF StrictSubsetOrdering
  <2> QED
    BY <1>4, <2>1, <2>4
<1>6. \A y \in T : x <= y
  BY <1>5
<1> QED
  BY <1>6

Under(S, f) == {g \in S : g < f}
HasRank(S, k) == \E f \in S : Cardinality(Under(S, f)) = k

LEMMA FirstRank ==
    ASSUME NEW S \in SUBSET Nat, S # {}
    PROVE  HasRank(S, 0)
<1>1. PICK f \in S : \A g \in S : f <= g
  BY LeastExists, Zenon
<1>2. \A g \in S : ~(g < f)
  BY <1>1
<1>3. Under(S, f) = {}
  BY <1>2 DEF Under
<1> QED
  BY <1>3, FS_EmptySet DEF HasRank

(* The next larger one of a set is the least of those above.               *)
LEMMA NextRank ==
    ASSUME NEW S \in SUBSET Nat, IsFiniteSet(S), NEW k \in Nat,
           HasRank(S, k), Cardinality(S) > k + 1
    PROVE  HasRank(S, k + 1)
<1>1. PICK f \in S : Cardinality(Under(S, f)) = k
  BY DEF HasRank
<1>2. IsFiniteSet(Under(S, f)) /\ f \notin Under(S, f) /\ Under(S, f) \cup {f} \subseteq S
  BY FS_Subset DEF Under
<1>3. /\ IsFiniteSet(Under(S, f) \cup {f})
      /\ Cardinality(Under(S, f) \cup {f}) = k + 1
  BY <1>1, <1>2, FS_AddElement
<1>4. Under(S, f) \cup {f} # S
  BY <1>3
<1> DEFINE T == {g \in S : f < g}
<1>5. T # {} /\ T \in SUBSET Nat
  <2>1. PICK g \in S : g \notin Under(S, f) \cup {f}
    BY <1>2, <1>4
  <2>2. f \in Nat /\ g \in Nat /\ ~(g < f) /\ g # f
    BY <2>1 DEF Under
  <2>3. f < g
    BY <2>2
  <2> QED
    BY <2>1, <2>3
<1>6. \E h \in T : \A g \in T : h <= g
  <2> HIDE DEF T
  <2> QED
    BY <1>5, LeastExists, Zenon
<1>7. PICK h \in S : f < h /\ \A g \in S : f < g => h <= g
  BY <1>6
<1>8. Under(S, h) = Under(S, f) \cup {f}
  <2>1. ASSUME NEW g \in S PROVE g < h <=> g < f \/ g = f
    <3>1. f \in Nat /\ g \in Nat /\ h \in Nat /\ (f < g => h <= g)
      BY <1>7
    <3> QED
      BY <3>1, <1>7
  <2> QED
    BY <2>1 DEF Under
<1> QED
  BY <1>3, <1>7, <1>8 DEF HasRank

LEMMA Ranks ==
    ASSUME NEW S \in SUBSET Nat, IsFiniteSet(S), NEW n \in 1 .. 6, Cardinality(S) >= n
    PROVE  \A i \in 1 .. n : HasRank(S, i - 1)
<1>0. Cardinality(S) \in Nat /\ S # {}
  BY FS_CardinalityType, FS_EmptySet
<1>1. HasRank(S, 0)
  BY <1>0, FirstRank
<1>2. n > 1 => HasRank(S, 1)
  BY <1>0, <1>1, NextRank, 0 + 1 = 1
<1>3. n > 2 => HasRank(S, 2)
  BY <1>0, <1>2, NextRank, 1 + 1 = 2
<1>4. n > 3 => HasRank(S, 3)
  BY <1>0, <1>3, NextRank, 2 + 1 = 3
<1>5. n > 4 => HasRank(S, 4)
  BY <1>0, <1>4, NextRank, 3 + 1 = 4
<1>6. n > 5 => HasRank(S, 5)
  BY <1>0, <1>5, NextRank, 4 + 1 = 5
<1> SUFFICES ASSUME NEW i \in 1 .. n PROVE HasRank(S, i - 1)
  OBVIOUS
<1>7. i = 1 \/ i = 2 \/ i = 3 \/ i = 4 \/ i = 5 \/ i = 6
  OBVIOUS
<1>8. /\ i = 1 => i - 1 = 0
      /\ i = 2 => i - 1 = 1 /\ n > 1
      /\ i = 3 => i - 1 = 2 /\ n > 2
      /\ i = 4 => i - 1 = 3 /\ n > 3
      /\ i = 5 => i - 1 = 4 /\ n > 4
      /\ i = 6 => i - 1 = 5 /\ n > 5
  OBVIOUS
<1> QED
  BY <1>1, <1>2, <1>3, <1>4, <1>5, <1>6, <1>7, <1>8

LEMMA TakeSound ==
    ASSUME NEW n \in 1 .. 6, Available(n)
    PROVE  /\ Take(n) \in [1 .. n -> Frames \ used]
           /\ \A i, j \in 1 .. n : i # j => Take(n)[i] # Take(n)[j]
<1> DEFINE S == Frames \ used
<1>1. IsFiniteSet(S) /\ S \in SUBSET Nat
  <2>1. IsFiniteSet(Frames) /\ Frames \subseteq Nat
    BY FS_Interval DEF Frames
  <2> QED
    BY <2>1, FS_Subset
<1>2. \A i \in 1 .. n : HasRank(S, i - 1)
  BY <1>1, Ranks DEF Available
<1>3. \A i \in 1 .. n : /\ Take(n)[i] \in S
                        /\ Cardinality(Under(S, Take(n)[i])) = i - 1
  <2> SUFFICES ASSUME NEW i \in 1 .. n
               PROVE  /\ Take(n)[i] \in S
                      /\ Cardinality(Under(S, Take(n)[i])) = i - 1
    OBVIOUS
  <2>1. Take(n)[i] = CHOOSE f \in S : Cardinality(Under(S, f)) = i - 1
    BY DEF Take, Under
  <2>2. \E f \in S : Cardinality(Under(S, f)) = i - 1
    BY <1>2 DEF HasRank
  <2> HIDE DEF S
  <2> QED
    BY <2>1, <2>2
<1>4. DOMAIN Take(n) = 1 .. n /\ Take(n) = [i \in 1 .. n |-> Take(n)[i]]
  BY DEF Take
<1>5. Take(n) \in [1 .. n -> S]
  BY <1>3, <1>4
<1>6. \A i, j \in 1 .. n : i # j => Take(n)[i] # Take(n)[j]
  BY <1>3
<1> QED
  BY <1>5, <1>6

-----------------------------------------------------------------------------
(* The lists: each frame that is marked has exactly one owner.             *)

Own(q) == Listed(q) \cup {base[q], kstack[q]}
Status == {"unborn", "runs", "zombie", "gone", "failed", "twice"}

ShapeInv ==
    /\ used \subseteq Nat \ {None}
    /\ status \in [Procs -> Status]
    /\ parent \in [Procs -> Procs]
    /\ base \in [Procs -> Nat] /\ kstack \in [Procs -> Nat]
    /\ pglist \in [Procs -> SUBSET Nat] /\ pt \in [Procs -> SUBSET Nat]
    /\ status[Init1] = "runs"
    /\ \A q \in Procs : status[q] = "unborn" => Listed(q) = {}

OwnInv ==
    /\ \A q \in Procs : HasSpace(q) => Own(q) \subseteq used
    /\ \A q, r \in Procs :
         q # r /\ HasSpace(q) /\ HasSpace(r) => Own(q) \cap Own(r) = {}
    /\ Unlisted \subseteq used
    /\ \A q \in Procs : HasSpace(q) => Own(q) \cap Unlisted = {}
    /\ \A f \in used : f \in Unlisted \/ \E q \in Procs : HasSpace(q) /\ f \in Own(q)

LEMMA InitOwn == Init => ShapeInv /\ OwnInv
<1> SUFFICES ASSUME Init PROVE ShapeInv /\ OwnInv
  OBVIOUS
<1>1. \A q \in Procs : Listed(q) = {}
  BY DEF Init, Listed
<1>2. ShapeInv
  BY <1>1 DEF Init, ShapeInv, Status, None
<1>3. \A q \in Procs : HasSpace(q) <=> q = Init1
  BY DEF Init, HasSpace
<1>4. Own(Init1) = {1, 6}
  BY <1>1 DEF Init, Own
<1>5. used = {1, 2, 3, 4, 5, 6}
  BY DEF Init
<1> QED
  BY <1>2, <1>3, <1>4, <1>5 DEF OwnInv, Unlisted

(* A birth: the new process owns two fresh frames, its page directory and  *)
(* its kernel stack; the others that were taken are filed under the parent *)
(* (execv, create_process).                                                *)
Birth(c, q, b, k, P, T) ==
    /\ Born(c, q, "runs")
    /\ b # k /\ b \notin P \cup T /\ k \notin P \cup T
    /\ {b, k} \cup P \cup T \subseteq Nat \ {None}
    /\ ({b, k} \cup P \cup T) \cap used = {}
    /\ used' = used \cup {b, k} \cup P \cup T
    /\ base' = [base EXCEPT ![c] = b] /\ kstack' = [kstack EXCEPT ![c] = k]
    /\ pglist' = [pglist EXCEPT ![q] = @ \cup P] /\ pt' = [pt EXCEPT ![q] = @ \cup T]

LEMMA BornOwn ==
    ASSUME ShapeInv, OwnInv, NEW c \in Procs, NEW q \in Procs,
           NEW b, NEW k, NEW P, NEW T, Birth(c, q, b, k, P, T)
    PROVE  ShapeInv' /\ OwnInv'
<1> USE DEF Birth
<1>1. /\ status[q] = "runs" /\ status[c] = "unborn" /\ c # q
      /\ status' = [status EXCEPT ![c] = "runs"]
      /\ parent' = [parent EXCEPT ![c] = q]
  BY DEF Born
<1>2. \A r \in Procs : Listed(r)' = IF r = q THEN Listed(q) \cup P \cup T ELSE Listed(r)
  BY DEF ShapeInv, Listed
<1>3. \A r \in Procs : /\ base'[r] = IF r = c THEN b ELSE base[r]
                       /\ kstack'[r] = IF r = c THEN k ELSE kstack[r]
  BY DEF ShapeInv
<1>4. \A r \in Procs : HasSpace(r)' <=> HasSpace(r) \/ r = c
  BY <1>1 DEF HasSpace, ShapeInv
<1>5. HasSpace(q) /\ ~HasSpace(c)
  BY <1>1 DEF HasSpace
<1>6. Listed(c) = {}
  BY <1>1 DEF ShapeInv
<1>7. ShapeInv'
  <2>1. status' \in [Procs -> Status] /\ parent' \in [Procs -> Procs] /\ status'[Init1] = "runs"
    BY <1>1 DEF ShapeInv, Status
  <2>2. base' \in [Procs -> Nat] /\ kstack' \in [Procs -> Nat]
    BY DEF ShapeInv
  <2>3. pglist' \in [Procs -> SUBSET Nat] /\ pt' \in [Procs -> SUBSET Nat] /\ used' \subseteq Nat \ {None}
    BY DEF ShapeInv
  <2>4. \A r \in Procs : status'[r] = "unborn" => Listed(r)' = {}
    BY <1>1, <1>2 DEF ShapeInv
  <2> QED
    BY <2>1, <2>2, <2>3, <2>4 DEF ShapeInv
<1>8. Own(c)' = {b, k}
  BY <1>1, <1>2, <1>3, <1>6 DEF Own
<1>9. Own(q)' = Own(q) \cup P \cup T
  BY <1>1, <1>2, <1>3 DEF Own
<1>10. \A r \in Procs : r # c /\ r # q => Own(r)' = Own(r)
  BY <1>2, <1>3 DEF Own
<1>11. \A r \in Procs : HasSpace(r) => Own(r) \subseteq used
  BY DEF OwnInv
<1>12. \A r \in Procs : HasSpace(r)' => Own(r)' \subseteq used'
  <2> SUFFICES ASSUME NEW r \in Procs, HasSpace(r)' PROVE Own(r)' \subseteq used'
    OBVIOUS
  <2>1. CASE r = c
    BY <2>1, <1>8
  <2>2. CASE r = q
    BY <2>2, <1>5, <1>9, <1>11
  <2>3. CASE r # c /\ r # q
    BY <2>3, <1>4, <1>10, <1>11
  <2> QED
    BY <2>1, <2>2, <2>3
<1>13. \A r, x \in Procs :
         r # x /\ HasSpace(r)' /\ HasSpace(x)' => Own(r)' \cap Own(x)' = {}
  <2>1. \A r, x \in Procs :
          r # x /\ HasSpace(r) /\ HasSpace(x) => Own(r) \cap Own(x) = {}
    BY DEF OwnInv
  <2>2. \A x \in Procs : x # c /\ HasSpace(x)' => Own(c)' \cap Own(x)' = {}
    <3> SUFFICES ASSUME NEW x \in Procs, x # c, HasSpace(x)' PROVE Own(c)' \cap Own(x)' = {}
      OBVIOUS
    <3>1. HasSpace(x) /\ Own(x) \subseteq used
      BY <1>4, <1>11
    <3>2. CASE x = q
      BY <3>1, <3>2, <1>8, <1>9
    <3>3. CASE x # q
      BY <3>1, <3>3, <1>8, <1>10
    <3> QED
      BY <3>2, <3>3
  <2>3. \A x \in Procs : x # c /\ x # q /\ HasSpace(x)' => Own(q)' \cap Own(x)' = {}
    <3> SUFFICES ASSUME NEW x \in Procs, x # c, x # q, HasSpace(x)'
                 PROVE  Own(q)' \cap Own(x)' = {}
      OBVIOUS
    <3>1. HasSpace(x) /\ Own(x) \subseteq used /\ Own(x)' = Own(x)
      BY <1>4, <1>10, <1>11
    <3>2. Own(q) \cap Own(x) = {}
      BY <3>1, <1>5, <2>1
    <3> QED
      BY <3>1, <3>2, <1>9
  <2>4. \A r, x \in Procs : /\ r # x /\ r # c /\ r # q /\ x # c /\ x # q
                            /\ HasSpace(r)' /\ HasSpace(x)'
                            => Own(r)' \cap Own(x)' = {}
    BY <1>4, <1>10, <2>1
  <2> QED
    BY <2>2, <2>3, <2>4
<1>14. \A r \in Procs : HasSpace(r)' => Own(r)' \cap Unlisted = {}
  <2> SUFFICES ASSUME NEW r \in Procs, HasSpace(r)' PROVE Own(r)' \cap Unlisted = {}
    OBVIOUS
  <2>0. Unlisted \subseteq used /\ (HasSpace(r) => Own(r) \cap Unlisted = {})
    BY DEF OwnInv
  <2>1. CASE r = c
    BY <2>0, <2>1, <1>8
  <2>2. CASE r = q
    BY <2>0, <2>2, <1>5, <1>9
  <2>3. CASE r # c /\ r # q
    BY <2>0, <2>3, <1>4, <1>10
  <2> QED
    BY <2>1, <2>2, <2>3
<1>15. \A f \in used' : f \in Unlisted \/ \E r \in Procs : HasSpace(r)' /\ f \in Own(r)'
  <2> SUFFICES ASSUME NEW f \in used', f \notin Unlisted
               PROVE  \E r \in Procs : HasSpace(r)' /\ f \in Own(r)'
    OBVIOUS
  <2>1. CASE f \in {b, k}
    BY <2>1, <1>4, <1>8
  <2>2. CASE f \in P \cup T
    BY <2>2, <1>4, <1>5, <1>9
  <2>3. CASE f \in used
    <3>1. PICK r \in Procs : HasSpace(r) /\ f \in Own(r)
      BY <2>3 DEF OwnInv
    <3> QED
      BY <3>1, <1>4, <1>5, <1>9, <1>10
  <2> QED
    BY <2>1, <2>2, <2>3
<1>16. Unlisted \subseteq used'
  BY DEF OwnInv
<1> QED
  BY <1>7, <1>12, <1>13, <1>14, <1>15, <1>16 DEF OwnInv

(* Frames that are filed under a process that has a space: a page fault,   *)
(* or a program that could not be loaded.                                  *)
LEMMA FileOwn ==
    ASSUME ShapeInv, OwnInv, NEW q \in Procs, HasSpace(q), NEW P, NEW T,
           P \cup T \subseteq Nat \ {None}, (P \cup T) \cap used = {},
           used' = used \cup P \cup T,
           NEW c \in Procs, status' = status \/ Born(c, q, "failed"),
           status' = status => parent' = parent,
           UNCHANGED <<base, kstack>>,
           pglist' = [pglist EXCEPT ![q] = @ \cup P], pt' = [pt EXCEPT ![q] = @ \cup T]
    PROVE  ShapeInv' /\ OwnInv'
<1>1. status' = status \/ (status[c] = "unborn" /\ status' = [status EXCEPT ![c] = "failed"])
  BY DEF Born
<1>2. \A r \in Procs : Listed(r)' = IF r = q THEN Listed(q) \cup P \cup T ELSE Listed(r)
  BY DEF ShapeInv, Listed
<1>3. \A r \in Procs : HasSpace(r)' <=> HasSpace(r)
  BY <1>1 DEF HasSpace, ShapeInv
<1>4. status[q] # "unborn"
  BY DEF HasSpace
<1>5. ShapeInv'
  <2>1. status' \in [Procs -> Status] /\ status'[Init1] = "runs"
    BY <1>1 DEF ShapeInv, Status
  <2>2. parent' \in [Procs -> Procs]
    BY DEF ShapeInv, Born
  <2>3. pglist' \in [Procs -> SUBSET Nat] /\ pt' \in [Procs -> SUBSET Nat] /\ used' \subseteq Nat \ {None}
    BY DEF ShapeInv
  <2>4. \A r \in Procs : status'[r] = "unborn" => Listed(r)' = {}
    BY <1>1, <1>2, <1>4 DEF ShapeInv
  <2> QED
    BY <2>1, <2>2, <2>3, <2>4 DEF ShapeInv
<1>6. Own(q)' = Own(q) \cup P \cup T
  BY <1>2 DEF Own
<1>7. \A r \in Procs : r # q => Own(r)' = Own(r)
  BY <1>2 DEF Own
<1>8. \A r \in Procs : HasSpace(r) => Own(r) \subseteq used /\ Own(r) \cap Unlisted = {}
  BY DEF OwnInv
<1>9. Unlisted \subseteq used
  BY DEF OwnInv
<1>10. \A r \in Procs : HasSpace(r)' => Own(r)' \subseteq used' /\ Own(r)' \cap Unlisted = {}
  BY <1>3, <1>6, <1>7, <1>8, <1>9
<1>11. \A r, x \in Procs :
         r # x /\ HasSpace(r)' /\ HasSpace(x)' => Own(r)' \cap Own(x)' = {}
  <2>1. \A r, x \in Procs :
          r # x /\ HasSpace(r) /\ HasSpace(x) => Own(r) \cap Own(x) = {}
    BY DEF OwnInv
  <2>2. \A x \in Procs : x # q /\ HasSpace(x) => Own(q)' \cap Own(x)' = {}
    BY <1>6, <1>7, <1>8, <2>1
  <2> QED
    BY <1>3, <1>7, <2>1, <2>2
<1>12. \A f \in used' : f \in Unlisted \/ \E r \in Procs : HasSpace(r)' /\ f \in Own(r)'
  <2> SUFFICES ASSUME NEW f \in used', f \notin Unlisted
               PROVE  \E r \in Procs : HasSpace(r)' /\ f \in Own(r)'
    OBVIOUS
  <2>1. CASE f \in P \cup T
    BY <2>1, <1>3, <1>6
  <2>2. CASE f \in used
    <3>1. PICK r \in Procs : HasSpace(r) /\ f \in Own(r)
      BY <2>2 DEF OwnInv
    <3> QED
      BY <3>1, <1>3, <1>6, <1>7
  <2> QED
    BY <2>1, <2>2
<1> QED
  BY <1>5, <1>9, <1>10, <1>11, <1>12 DEF OwnInv

LEMMA DestroyOwn ==
    ASSUME ShapeInv, OwnInv, NEW z \in Procs, Destroy(z)
    PROVE  ShapeInv' /\ OwnInv'
<1>1. /\ status[z] = "zombie" /\ status' = [status EXCEPT ![z] = "gone"]
      /\ used' = used \ Own(z)
      /\ UNCHANGED <<parent, base, kstack, pglist, pt>>
  BY DEF Destroy, Released, Own
<1>2. \A r \in Procs : Listed(r)' = Listed(r) /\ Own(r)' = Own(r)
  BY <1>1 DEF Listed, Own
<1>3. \A r \in Procs : HasSpace(r)' <=> HasSpace(r) /\ r # z
  BY <1>1 DEF HasSpace, ShapeInv
<1>4. HasSpace(z)
  BY <1>1 DEF HasSpace
<1>5. ShapeInv'
  BY <1>1, <1>2 DEF ShapeInv, Status
<1>6. /\ \A r \in Procs : HasSpace(r) => Own(r) \subseteq used /\ Own(r) \cap Unlisted = {}
      /\ \A r, x \in Procs :
           r # x /\ HasSpace(r) /\ HasSpace(x) => Own(r) \cap Own(x) = {}
      /\ Unlisted \subseteq used
      /\ \A f \in used : f \in Unlisted \/ \E q \in Procs : HasSpace(q) /\ f \in Own(q)
  BY DEF OwnInv
<1>7. \A r \in Procs : HasSpace(r)' => Own(r)' \subseteq used'
  BY <1>1, <1>2, <1>3, <1>4, <1>6
<1>8. Unlisted \subseteq used'
  BY <1>1, <1>4, <1>6
<1>9. \A f \in used' : f \in Unlisted \/ \E q \in Procs : HasSpace(q)' /\ f \in Own(q)'
  BY <1>1, <1>2, <1>3, <1>6
<1>10. /\ \A r \in Procs : HasSpace(r)' => Own(r)' \cap Unlisted = {}
       /\ \A r, x \in Procs :
            r # x /\ HasSpace(r)' /\ HasSpace(x)' => Own(r)' \cap Own(x)' = {}
  BY <1>2, <1>3, <1>6
<1> QED
  BY <1>5, <1>7, <1>8, <1>9, <1>10 DEF OwnInv

LEMMA FaultOwn ==
    ASSUME ShapeInv, OwnInv, NEW q \in Procs, NEW v \in Pages, Fault(q, v)
    PROVE  ShapeInv' /\ OwnInv'
<1>1. /\ HasSpace(q) /\ status' = status
      /\ parent' = parent /\ UNCHANGED <<base, kstack>>
  BY DEF HasSpace, Fault
<1>2. CASE pde[q][TableOf(v)] = None
  <2> DEFINE f == Take(2)
  <2>1. /\ Available(2)
        /\ used' = used \cup Range(f)
        /\ pglist' = [pglist EXCEPT ![q] = @ \cup {f[1]}]
        /\ pt' = [pt EXCEPT ![q] = @ \cup {f[2]}]
    BY <1>2 DEF Fault
  <2>2. f \in [1 .. 2 -> Frames \ used]
    BY <2>1, TakeSound
  <2>3. Range(f) = {f[1], f[2]}
    <3>1. DOMAIN f = {1, 2}
      BY <2>2
    <3> QED
      BY <3>1 DEF Range
  <2>4. {f[1]} \cup {f[2]} \subseteq Nat \ {None} /\ ({f[1]} \cup {f[2]}) \cap used = {}
    BY <2>2 DEF Frames, None
  <2>5. used' = used \cup {f[1]} \cup {f[2]}
    BY <2>1, <2>3
  <2> HIDE DEF f
  <2> QED
    BY <1>1, <2>1, <2>4, <2>5, FileOwn
<1>3. CASE pde[q][TableOf(v)] # None
  <2> DEFINE f == Take(1)
  <2>1. /\ Available(1)
        /\ used' = used \cup Range(f)
        /\ pglist' = [pglist EXCEPT ![q] = @ \cup {f[1]}]
        /\ pt' = pt
    BY <1>3 DEF Fault
  <2>2. f \in [1 .. 1 -> Frames \ used]
    BY <2>1, TakeSound
  <2>3. Range(f) = {f[1]}
    <3>1. DOMAIN f = {1}
      BY <2>2
    <3> QED
      BY <3>1 DEF Range
  <2>4. {f[1]} \cup {} \subseteq Nat \ {None} /\ ({f[1]} \cup {}) \cap used = {}
    BY <2>2 DEF Frames, None
  <2>5. used' = used \cup {f[1]} \cup {}
    BY <2>1, <2>3
  <2>6. pt' = [pt EXCEPT ![q] = @ \cup {}]
    <3>1. pt \in [Procs -> SUBSET Nat]
      BY DEF ShapeInv
    <3> QED
      BY <2>1, <3>1
  <2> HIDE DEF f
  <2> QED
    BY <1>1, <2>1, <2>4, <2>5, <2>6, FileOwn
<1> QED
  BY <1>2, <1>3

(* What the three ways through execv come to.                              *)
LEMMA ExecvBirth ==
    ASSUME NEW c, NEW q, Execv(c, q)
    PROVE  \E b, k, p, t : /\ Birth(c, q, b, k, {p}, {t}) /\ p \in Nat /\ t \in Nat
                           /\ pte' = [pte EXCEPT ![c]["code"] = p]
                           /\ pde' = [pde EXCEPT ![c]["low"] = t]
<1> DEFINE f == Take(4)
<1>1. f \in [1 .. 4 -> Frames \ used] /\ \A i, j \in 1 .. 4 : i # j => f[i] # f[j]
  BY TakeSound DEF Execv
<1>2. Range(f) = {f[1], f[2], f[3], f[4]}
  <2>1. DOMAIN f = {1, 2, 3, 4}
    BY <1>1
  <2> QED
    BY <2>1 DEF Range
<1>3. f[1] # f[4] /\ f[1] \notin {f[2]} \cup {f[3]} /\ f[4] \notin {f[2]} \cup {f[3]}
  BY <1>1
<1>4. /\ f[1] \in Frames \ used /\ f[2] \in Frames \ used
      /\ f[3] \in Frames \ used /\ f[4] \in Frames \ used
  BY <1>1
<1>5. /\ {f[1], f[4]} \cup {f[2]} \cup {f[3]} \subseteq Nat \ {None}
      /\ ({f[1], f[4]} \cup {f[2]} \cup {f[3]}) \cap used = {}
  BY <1>4 DEF Frames, None
<1>6. /\ Born(c, q, "runs")
      /\ used' = used \cup {f[1], f[4]} \cup {f[2]} \cup {f[3]}
      /\ base' = [base EXCEPT ![c] = f[1]] /\ kstack' = [kstack EXCEPT ![c] = f[4]]
      /\ pglist' = [pglist EXCEPT ![q] = @ \cup {f[2]}]
      /\ pt' = [pt EXCEPT ![q] = @ \cup {f[3]}]
      /\ pte' = [pte EXCEPT ![c]["code"] = f[2]]
      /\ pde' = [pde EXCEPT ![c]["low"] = f[3]]
  BY <1>2 DEF Execv
<1>7. Birth(c, q, f[1], f[4], {f[2]}, {f[3]})
  BY <1>3, <1>5, <1>6 DEF Birth
<1>8. f[2] \in Nat /\ f[3] \in Nat
  BY <1>5
<1> HIDE DEF f
<1> QED
  BY <1>6, <1>7, <1>8

LEMMA ExecvArgsBirth ==
    ASSUME NEW c, NEW q, ExecvArgs(c, q)
    PROVE  \E f \in [1 .. 6 -> Nat] :
              /\ Birth(c, q, f[1], f[6], {f[2], f[4]}, {f[3], f[5]})
              /\ pte' = [pte EXCEPT ![c]["code"] = f[2], ![c]["stack"] = f[4]]
              /\ pde' = [pde EXCEPT ![c]["low"] = f[3], ![c]["high"] = f[5]]
<1> DEFINE f == Take(6)
<1>1. f \in [1 .. 6 -> Frames \ used] /\ \A i, j \in 1 .. 6 : i # j => f[i] # f[j]
  BY TakeSound DEF ExecvArgs
<1>2. Range(f) = {f[1], f[2], f[3], f[4], f[5], f[6]}
  <2>1. DOMAIN f = {1, 2, 3, 4, 5, 6}
    BY <1>1
  <2> QED
    BY <2>1 DEF Range
<1>3. /\ f[1] # f[6]
      /\ f[1] \notin {f[2], f[4]} \cup {f[3], f[5]}
      /\ f[6] \notin {f[2], f[4]} \cup {f[3], f[5]}
  BY <1>1
<1>4. /\ f[1] \in Frames \ used /\ f[2] \in Frames \ used /\ f[3] \in Frames \ used
      /\ f[4] \in Frames \ used /\ f[5] \in Frames \ used /\ f[6] \in Frames \ used
  BY <1>1
<1>5. /\ {f[1], f[6]} \cup {f[2], f[4]} \cup {f[3], f[5]} \subseteq Nat \ {None}
      /\ ({f[1], f[6]} \cup {f[2], f[4]} \cup {f[3], f[5]}) \cap used = {}
  BY <1>4 DEF Frames, None
<1>6. /\ Born(c, q, "runs")
      /\ used' = used \cup {f[1], f[6]} \cup {f[2], f[4]} \cup {f[3], f[5]}
      /\ base' = [base EXCEPT ![c] = f[1]] /\ kstack' = [kstack EXCEPT ![c] = f[6]]
      /\ pglist' = [pglist EXCEPT ![q] = @ \cup {f[2], f[4]}]
      /\ pt' = [pt EXCEPT ![q] = @ \cup {f[3], f[5]}]
      /\ pte' = [pte EXCEPT ![c]["code"] = f[2], ![c]["stack"] = f[4]]
      /\ pde' = [pde EXCEPT ![c]["low"] = f[3], ![c]["high"] = f[5]]
  BY <1>2 DEF ExecvArgs
<1>7. Birth(c, q, f[1], f[6], {f[2], f[4]}, {f[3], f[5]})
  BY <1>3, <1>5, <1>6 DEF Birth
<1>8. f \in [1 .. 6 -> Nat]
  BY <1>1 DEF Frames
<1> HIDE DEF f
<1> QED
  BY <1>6, <1>7, <1>8

LEMMA ExecvFailsFiles ==
    ASSUME NEW c, NEW q, ExecvFails(c, q)
    PROVE  \E p, t : /\ {p} \cup {t} \subseteq Nat \ {None} /\ ({p} \cup {t}) \cap used = {}
                     /\ used' = used \cup {p} \cup {t}
                     /\ pglist' = [pglist EXCEPT ![q] = @ \cup {p}]
                     /\ pt' = [pt EXCEPT ![q] = @ \cup {t}]
<1> DEFINE f == Take(3)
<1>1. f \in [1 .. 3 -> Frames \ used] /\ \A i, j \in 1 .. 3 : i # j => f[i] # f[j]
  BY TakeSound DEF ExecvFails
<1>2. Range(f) = {f[1], f[2], f[3]}
  <2>1. DOMAIN f = {1, 2, 3}
    BY <1>1
  <2> QED
    BY <2>1 DEF Range
<1>3. f[1] # f[2] /\ f[1] # f[3]
  BY <1>1
<1>4. f[1] \in Frames \ used /\ f[2] \in Frames \ used /\ f[3] \in Frames \ used
  BY <1>1
<1>5. {f[2]} \cup {f[3]} \subseteq Nat \ {None} /\ ({f[2]} \cup {f[3]}) \cap used = {}
  BY <1>4 DEF Frames, None
<1>6. used' = used \cup {f[2]} \cup {f[3]}
  <2>1. used' = (used \cup {f[1], f[2], f[3]}) \ {f[1]}
    BY <1>2 DEF ExecvFails, ReleasedOnFail
  <2> QED
    BY <1>3, <1>4, <2>1
<1>7. /\ pglist' = [pglist EXCEPT ![q] = @ \cup {f[2]}]
      /\ pt' = [pt EXCEPT ![q] = @ \cup {f[3]}]
  BY DEF ExecvFails
<1> HIDE DEF f
<1> QED
  BY <1>5, <1>6, <1>7

LEMMA ExecvOwn ==
    ASSUME ShapeInv, OwnInv, NEW c \in Procs, NEW q \in Procs,
           Execv(c, q) \/ ExecvArgs(c, q) \/ ExecvFails(c, q)
    PROVE  ShapeInv' /\ OwnInv'
<1>1. CASE Execv(c, q)
  <2>1. \E b, k, p, t : Birth(c, q, b, k, {p}, {t})
    BY <1>1, ExecvBirth
  <2> QED
    BY <2>1, BornOwn
<1>2. CASE ExecvArgs(c, q)
  <2>1. \E f \in [1 .. 6 -> Nat] : Birth(c, q, f[1], f[6], {f[2], f[4]}, {f[3], f[5]})
    BY <1>2, ExecvArgsBirth
  <2> QED
    BY <2>1, BornOwn
<1>3. CASE ExecvFails(c, q)
  <2>1. PICK p, t : /\ {p} \cup {t} \subseteq Nat \ {None} /\ ({p} \cup {t}) \cap used = {}
                    /\ used' = used \cup {p} \cup {t}
                    /\ pglist' = [pglist EXCEPT ![q] = @ \cup {p}]
                    /\ pt' = [pt EXCEPT ![q] = @ \cup {t}]
    BY <1>3, ExecvFailsFiles
  <2>2. Born(c, q, "failed") /\ UNCHANGED <<base, kstack>>
    BY <1>3 DEF ExecvFails
  <2>3. HasSpace(q) /\ (status' = status => parent' = parent)
    <3>1. status[c] = "unborn" /\ status' = [status EXCEPT ![c] = "failed"] /\ status[q] = "runs"
      BY <2>2 DEF Born
    <3> QED
      BY <3>1 DEF HasSpace, ShapeInv
  <2> QED
    BY <2>1, <2>2, <2>3, FileOwn
<1> QED
  BY <1>1, <1>2, <1>3

LEMMA NextOwn ==
    ASSUME ShapeInv, OwnInv, [Next]_vars
    PROVE  Strayed' \/ (ShapeInv' /\ OwnInv')
<1>1. ASSUME NEW c \in Procs, NEW q \in Procs,
             Execv(c, q) \/ ExecvArgs(c, q) \/ ExecvFails(c, q)
      PROVE  ShapeInv' /\ OwnInv'
  BY <1>1, ExecvOwn
<1>2. ASSUME NEW q \in Procs, NEW v \in Pages, Fault(q, v)
      PROVE  ShapeInv' /\ OwnInv'
  BY <1>2, FaultOwn
<1>3. ASSUME NEW q \in Procs, Exit(q)
      PROVE  ShapeInv' /\ OwnInv'
  <2>1. /\ q # Init1 /\ status[q] = "runs" /\ status' = [status EXCEPT ![q] = "zombie"]
        /\ UNCHANGED <<used, parent, base, kstack, pglist, pt>>
    BY <1>3 DEF Exit
  <2>2. \A r \in Procs : Listed(r)' = Listed(r) /\ Own(r)' = Own(r)
    BY <2>1 DEF Listed, Own
  <2>3. \A r \in Procs : HasSpace(r)' <=> HasSpace(r)
    BY <2>1 DEF HasSpace, ShapeInv
  <2>4. ShapeInv'
    BY <2>1, <2>2 DEF ShapeInv, Status
  <2>5. OwnInv'
    BY <2>1, <2>2, <2>3 DEF OwnInv
  <2> QED
    BY <2>4, <2>5
<1>4. ASSUME NEW z \in Procs, Destroy(z)
      PROVE  ShapeInv' /\ OwnInv'
  BY <1>4, DestroyOwn
<1>5. ASSUME NEW z \in Procs, DestroyFailed(z)
      PROVE  Strayed'
  <2>1. status' = [status EXCEPT ![z] = "twice"] /\ status \in [Procs -> Status]
    BY <1>5 DEF DestroyFailed, ShapeInv
  <2> QED
    BY <2>1 DEF Strayed
<1>6. CASE UNCHANGED vars
  <2>1. UNCHANGED <<used, status, parent, base, kstack, pglist, pt>>
    BY <1>6 DEF vars
  <2>2. \A r \in Procs : Listed(r)' = Listed(r) /\ Own(r)' = Own(r) /\ (HasSpace(r)' <=> HasSpace(r))
    BY <2>1 DEF Listed, Own, HasSpace
  <2>3. ShapeInv'
    BY <2>1, <2>2 DEF ShapeInv
  <2>4. OwnInv'
    BY <2>1, <2>2 DEF OwnInv
  <2> QED
    BY <2>3, <2>4
<1> QED
  BY <1>1, <1>2, <1>3, <1>4, <1>5, <1>6 DEF Next

(* What is proved of the others holds until a program that failed to load  *)
(* is reaped; what status a process may have, and that this one keeps its  *)
(* own, after that too.                                                    *)
Statuses == status \in [Procs -> Status]

LEMMA StatusesStay ==
    ASSUME Statuses, [Next]_vars
    PROVE  Statuses' /\ (Strayed => Strayed')
<1> DEFINE Moves == \E q \in Procs : \E as \in Status :
                      status[q] # "twice" /\ status' = [status EXCEPT ![q] = as]
<1>1. ASSUME NEW c \in Procs, NEW q \in Procs,
             Execv(c, q) \/ ExecvArgs(c, q) \/ ExecvFails(c, q)
      PROVE  Moves
  BY <1>1 DEF Execv, ExecvArgs, ExecvFails, Born, Status
<1>2. ASSUME NEW q \in Procs, Exit(q) \/ Destroy(q) \/ DestroyFailed(q)
      PROVE  Moves
  BY <1>2 DEF Exit, Destroy, DestroyFailed, Status
<1>3. ASSUME NEW q \in Procs, NEW v \in Pages, Fault(q, v)
      PROVE  status' = status
  BY <1>3 DEF Fault
<1>4. Moves \/ status' = status
  <2> HIDE DEF Moves
  <2> QED
    BY <1>1, <1>2, <1>3 DEF Next, vars
<1> QED
  BY <1>4 DEF Statuses, Strayed

OwnKept == Statuses /\ (Strayed \/ (ShapeInv /\ OwnInv))

LEMMA OwnInvariant == Spec => []OwnKept
<1>1. Init => OwnKept
  BY InitOwn DEF OwnKept, Statuses, ShapeInv
<1>2. OwnKept /\ [Next]_vars => OwnKept'
  BY StatusesStay, NextOwn DEF OwnKept
<1> QED
  BY <1>1, <1>2, PTL DEF Spec

(* Nothing is freed twice, whoever ends before whom: until a program that  *)
(* failed to load is reaped, a frame is on the lists of one process only,  *)
(* page faults and failed loads included (x86.cc isr_PF_exc,               *)
(* elf_loader.cc, architecture.cc destroy_process).                        *)
THEOREM ListedOnceAlways == Spec => []ListedOnce
<1>1. OwnKept => ListedOnce
  BY DEF OwnKept, OwnInv, ListedOnce, Own
<1> QED
  BY <1>1, OwnInvariant, PTL

-----------------------------------------------------------------------------
(* What is mapped, when no process ends before its children: the pages of  *)
(* a process are on its own lists or, those of its program, on those of    *)
(* its parent, which runs for as long as it has a space.                   *)

Maps(q) == ({pde[q][t] : t \in Tables} \cup {pte[q][v] : v \in Pages}) \ {None}

MapInv ==
    /\ pde \in [Procs -> [Tables -> Nat]] /\ pte \in [Procs -> [Pages -> Nat]]
    /\ \A q \in Procs : status[q] = "unborn" => Maps(q) = {}
    /\ \A q \in Procs : HasSpace(q) => /\ Maps(q) \subseteq Listed(q) \cup Listed(parent[q]) \cup Unlisted
                                       /\ status[parent[q]] = "runs"
    /\ \A q \in Procs : HasSpace(q) /\ q # Init1 => parent[q] # q
    /\ Isolation

LEMMA InitMap == Init => MapInv
<1> SUFFICES ASSUME Init PROVE MapInv
  OBVIOUS
<1>1. pde \in [Procs -> [Tables -> Nat]] /\ pte \in [Procs -> [Pages -> Nat]]
  BY DEF Init, None
<1>2. \A q \in Procs : HasSpace(q) <=> q = Init1
  BY DEF Init, HasSpace
<1>3. \A q \in Procs : q # Init1 => Maps(q) = {}
  BY DEF Init, Maps
<1>4. Maps(Init1) \subseteq Unlisted /\ status[parent[Init1]] = "runs" /\ status[Init1] # "unborn"
  BY DEF Init, Maps, Unlisted
<1>5. Isolation
  BY <1>2 DEF Isolation
<1> QED
  BY <1>1, <1>2, <1>3, <1>4, <1>5 DEF MapInv

(* Whatever a process maps or stands on is marked.                         *)
LEMMA FramesMarked ==
    ASSUME ShapeInv, OwnInv, MapInv
    PROVE  \A q \in Procs : HasSpace(q) => FramesOf(q) \subseteq used
<1> SUFFICES ASSUME NEW q \in Procs, HasSpace(q) PROVE FramesOf(q) \subseteq used
  OBVIOUS
<1>1. parent[q] \in Procs /\ HasSpace(parent[q])
  BY DEF MapInv, ShapeInv, HasSpace
<1>2. Own(q) \subseteq used /\ Own(parent[q]) \subseteq used /\ Unlisted \subseteq used
  BY <1>1 DEF OwnInv
<1>3. Maps(q) \subseteq Listed(q) \cup Listed(parent[q]) \cup Unlisted
  BY DEF MapInv
<1>4. Listed(q) \subseteq Own(q) /\ Listed(parent[q]) \subseteq Own(parent[q])
  BY DEF Own
<1>5. FramesOf(q) \subseteq {base[q], kstack[q]} \cup Maps(q)
  BY DEF FramesOf, Maps
<1>6. {base[q], kstack[q]} \subseteq Own(q)
  BY DEF Own
<1> QED
  BY <1>2, <1>3, <1>4, <1>5, <1>6

(* A step that hands out frames: one process, x, maps fresh frames on top  *)
(* of those it has, if it had any.                                         *)
LEMMA FreshIsolated ==
    ASSUME ShapeInv, OwnInv, MapInv, NEW x \in Procs, NEW F, F \cap used = {},
           FramesOf(x)' \subseteq F \cup (IF HasSpace(x) THEN FramesOf(x) ELSE {}),
           \A r \in Procs : r # x => FramesOf(r)' = FramesOf(r),
           \A r \in Procs : r # x => (HasSpace(r)' <=> HasSpace(r))
    PROVE  Isolation'
<1>1. \A r \in Procs : HasSpace(r) => FramesOf(r) \subseteq used
  BY FramesMarked
<1>2. \A q, r \in Procs :
        q # r /\ HasSpace(q) /\ HasSpace(r) => FramesOf(q) \cap FramesOf(r) = {}
  BY DEF MapInv, Isolation
<1>3. \A r \in Procs : r # x /\ HasSpace(r)' => FramesOf(x)' \cap FramesOf(r)' = {}
  <2> SUFFICES ASSUME NEW r \in Procs, r # x, HasSpace(r)'
               PROVE  FramesOf(x)' \cap FramesOf(r)' = {}
    OBVIOUS
  <2>1. HasSpace(r) /\ FramesOf(r)' = FramesOf(r) /\ FramesOf(r) \subseteq used
    BY <1>1
  <2>2. CASE HasSpace(x)
    BY <1>2, <2>1, <2>2
  <2>3. CASE ~HasSpace(x)
    BY <2>1, <2>3
  <2> QED
    BY <2>2, <2>3
<1>4. \A q, r \in Procs : q # r /\ q # x /\ r # x /\ HasSpace(q)' /\ HasSpace(r)'
                          => FramesOf(q)' \cap FramesOf(r)' = {}
  BY <1>2
<1> QED
  BY <1>3, <1>4 DEF Isolation

LEMMA BornMap ==
    ASSUME ShapeInv, OwnInv, MapInv, NEW c \in Procs, NEW q \in Procs,
           NEW b, NEW k, NEW P, NEW T, Birth(c, q, b, k, P, T),
           pde' \in [Procs -> [Tables -> Nat]], pte' \in [Procs -> [Pages -> Nat]],
           \A r \in Procs : r # c => pde'[r] = pde[r] /\ pte'[r] = pte[r],
           Maps(c)' \subseteq P \cup T
    PROVE  MapInv'
<1>1. /\ status[q] = "runs" /\ status[c] = "unborn" /\ c # q /\ c # Init1
      /\ status' = [status EXCEPT ![c] = "runs"]
      /\ parent' = [parent EXCEPT ![c] = q]
  BY DEF Birth, Born, ShapeInv
<1>2. \A r \in Procs : Listed(r)' = IF r = q THEN Listed(q) \cup P \cup T ELSE Listed(r)
  BY DEF ShapeInv, Listed, Birth
<1>3. \A r \in Procs : HasSpace(r)' <=> HasSpace(r) \/ r = c
  BY <1>1 DEF HasSpace, ShapeInv
<1>4. \A r \in Procs : r # c => /\ Maps(r)' = Maps(r)
                                /\ base'[r] = base[r] /\ kstack'[r] = kstack[r]
                                /\ FramesOf(r)' = FramesOf(r)
  BY DEF Maps, FramesOf, Birth, ShapeInv
<1>5. FramesOf(c)' \subseteq {b, k} \cup P \cup T
  <2>1. base'[c] = b /\ kstack'[c] = k
    BY DEF Birth, ShapeInv
  <2>2. FramesOf(c)' \subseteq {base'[c], kstack'[c]} \cup Maps(c)'
    BY DEF FramesOf, Maps
  <2> QED
    BY <2>1, <2>2
<1>6. Isolation'
  <2>1. ({b, k} \cup P \cup T) \cap used = {}
    BY DEF Birth
  <2>2. FramesOf(c)' \subseteq ({b, k} \cup P \cup T) \cup (IF HasSpace(c) THEN FramesOf(c) ELSE {})
    BY <1>5
  <2>3. \A r \in Procs : r # c => (HasSpace(r)' <=> HasSpace(r))
    BY <1>3
  <2> DEFINE F == {b, k} \cup P \cup T
  <2>4. \A r \in Procs : r # c => FramesOf(r)' = FramesOf(r)
    BY <1>4
  <2>5. F \cap used = {} /\ FramesOf(c)' \subseteq F \cup (IF HasSpace(c) THEN FramesOf(c) ELSE {})
    BY <2>1, <2>2
  <2> HIDE DEF F
  <2> QED
    BY <2>3, <2>4, <2>5, FreshIsolated
<1>7. \A r \in Procs : status'[r] = "unborn" => Maps(r)' = {}
  BY <1>1, <1>4 DEF MapInv, ShapeInv
<1>8. \A r \in Procs : HasSpace(r)' => /\ Maps(r)' \subseteq Listed(r)' \cup Listed(parent[r])' \cup Unlisted
                                       /\ status'[parent'[r]] = "runs"
  <2> SUFFICES ASSUME NEW r \in Procs, HasSpace(r)'
               PROVE  /\ Maps(r)' \subseteq Listed(r)' \cup Listed(parent[r])' \cup Unlisted
                      /\ status'[parent'[r]] = "runs"
    OBVIOUS
  <2>1. CASE r = c
    <3>1. parent'[r] = q /\ status'[q] = "runs"
      BY <2>1, <1>1 DEF ShapeInv
    <3>2. Listed(q)' = Listed(q) \cup P \cup T
      BY <1>2
    <3> QED
      BY <2>1, <3>1, <3>2
  <2>2. CASE r # c
    <3>1. HasSpace(r) /\ parent'[r] = parent[r] /\ parent[r] \in Procs
      BY <2>2, <1>1, <1>3 DEF ShapeInv
    <3>2. status[parent[r]] = "runs" /\ Maps(r) \subseteq Listed(r) \cup Listed(parent[r]) \cup Unlisted
      BY <3>1 DEF MapInv
    <3>3. status'[parent[r]] = "runs"
      BY <3>1, <3>2, <1>1 DEF ShapeInv
    <3>4. Listed(r) \subseteq Listed(r)' /\ Listed(parent[r]) \subseteq Listed(parent[r])'
      BY <3>1, <1>2
    <3> QED
      BY <2>2, <3>1, <3>2, <3>3, <3>4, <1>4
  <2> QED
    BY <2>1, <2>2
<1>9. \A r \in Procs : HasSpace(r)' /\ r # Init1 => parent'[r] # r
  BY <1>1, <1>3 DEF MapInv, ShapeInv
<1> QED
  BY <1>6, <1>7, <1>8, <1>9 DEF MapInv

Filing(q, P, T) ==
    /\ HasSpace(q) /\ (P \cup T) \cap used = {}
    /\ \/ status' = status /\ parent' = parent
       \/ \E c \in Procs : Born(c, q, "failed")
    /\ UNCHANGED <<base, kstack>>
    /\ pglist' = [pglist EXCEPT ![q] = @ \cup P] /\ pt' = [pt EXCEPT ![q] = @ \cup T]
    /\ pde' \in [Procs -> [Tables -> Nat]] /\ pte' \in [Procs -> [Pages -> Nat]]
    /\ \A r \in Procs : r # q => pde'[r] = pde[r] /\ pte'[r] = pte[r]
    /\ Maps(q)' \subseteq Maps(q) \cup P \cup T

LEMMA FileMap ==
    ASSUME ShapeInv, OwnInv, MapInv, NEW q \in Procs, NEW P, NEW T, Filing(q, P, T)
    PROVE  MapInv'
<1> USE DEF Filing
<1>1. \/ status' = status /\ parent' = parent
      \/ \E c \in Procs : /\ status[c] = "unborn" /\ status' = [status EXCEPT ![c] = "failed"]
                          /\ parent' = [parent EXCEPT ![c] = q]
  BY DEF Born
<1>2. \A r \in Procs : Listed(r)' = IF r = q THEN Listed(q) \cup P \cup T ELSE Listed(r)
  BY DEF ShapeInv, Listed
<1>3. \A r \in Procs : HasSpace(r)' <=> HasSpace(r)
  BY <1>1 DEF HasSpace, ShapeInv
<1>4. \A r \in Procs : r # q => Maps(r)' = Maps(r) /\ FramesOf(r)' = FramesOf(r)
  <2> SUFFICES ASSUME NEW r \in Procs, r # q
               PROVE  Maps(r)' = Maps(r) /\ FramesOf(r)' = FramesOf(r)
    OBVIOUS
  <2>1. pde'[r] = pde[r] /\ pte'[r] = pte[r] /\ base'[r] = base[r] /\ kstack'[r] = kstack[r]
    OBVIOUS
  <2> HIDE DEF Filing
  <2>2. Maps(r)' = Maps(r)
    BY <2>1 DEF Maps
  <2>3. FramesOf(r)' = FramesOf(r)
    BY <2>1 DEF FramesOf
  <2> QED
    BY <2>2, <2>3
<1>5. \A r \in Procs : HasSpace(r) => parent'[r] = parent[r]
  BY <1>1 DEF HasSpace, ShapeInv
<1>6. Isolation'
  <2> DEFINE F == P \cup T
  <2>1. FramesOf(q)' \subseteq F \cup FramesOf(q)
    <3>1. FramesOf(q)' = ({base[q], kstack[q]} \ {None}) \cup Maps(q)'
      BY DEF FramesOf, Maps
    <3>2. FramesOf(q) = ({base[q], kstack[q]} \ {None}) \cup Maps(q)
      BY DEF FramesOf, Maps
    <3> QED
      BY <3>1, <3>2
  <2>2. FramesOf(q)' \subseteq F \cup (IF HasSpace(q) THEN FramesOf(q) ELSE {})
    BY <2>1
  <2>3. \A r \in Procs : r # q => (HasSpace(r)' <=> HasSpace(r))
    BY <1>3
  <2>4. \A r \in Procs : r # q => FramesOf(r)' = FramesOf(r)
    BY <1>4
  <2>5. F \cap used = {}
    OBVIOUS
  <2> HIDE DEF F
  <2> QED
    BY <2>2, <2>3, <2>4, <2>5, FreshIsolated
<1>7. \A r \in Procs : status'[r] = "unborn" => Maps(r)' = {}
  <2>1. status[q] # "unborn" /\ status'[q] # "unborn"
    BY <1>1 DEF HasSpace, ShapeInv
  <2>2. \A r \in Procs : status'[r] = "unborn" => status[r] = "unborn"
    BY <1>1 DEF ShapeInv
  <2> QED
    BY <2>1, <2>2, <1>4 DEF MapInv
<1>8. \A r \in Procs : HasSpace(r)' => /\ Maps(r)' \subseteq Listed(r)' \cup Listed(parent[r])' \cup Unlisted
                                       /\ status'[parent'[r]] = "runs"
  <2> SUFFICES ASSUME NEW r \in Procs, HasSpace(r)'
               PROVE  /\ Maps(r)' \subseteq Listed(r)' \cup Listed(parent[r])' \cup Unlisted
                      /\ status'[parent'[r]] = "runs"
    OBVIOUS
  <2>1. HasSpace(r) /\ parent'[r] = parent[r] /\ parent[r] \in Procs
    BY <1>3, <1>5 DEF ShapeInv
  <2>2. status[parent[r]] = "runs" /\ Maps(r) \subseteq Listed(r) \cup Listed(parent[r]) \cup Unlisted
    BY <2>1 DEF MapInv
  <2>3. status'[parent[r]] = "runs"
    BY <2>1, <2>2, <1>1 DEF ShapeInv
  <2>4. Listed(r) \subseteq Listed(r)' /\ Listed(parent[r]) \subseteq Listed(parent[r])'
    BY <2>1, <1>2
  <2>5. Maps(r)' \subseteq Maps(r) \cup Listed(r)'
    <3>1. CASE r = q
      <4>1. Listed(q)' = Listed(q) \cup P \cup T
        BY <1>2
      <4> QED
        BY <3>1, <4>1
    <3>2. CASE r # q
      BY <3>2, <1>4
    <3> QED
      BY <3>1, <3>2
  <2> QED
    BY <2>1, <2>2, <2>3, <2>4, <2>5
<1>9. \A r \in Procs : HasSpace(r)' /\ r # Init1 => parent'[r] # r
  BY <1>3, <1>5 DEF MapInv
<1> QED
  BY <1>6, <1>7, <1>8, <1>9 DEF MapInv

LEMMA ExitMap ==
    ASSUME ~OrphansAllowed, ShapeInv, MapInv, NEW z \in Procs, Exit(z)
    PROVE  MapInv'
<1>1. /\ z # Init1 /\ status[z] = "runs" /\ status' = [status EXCEPT ![z] = "zombie"]
      /\ \A c \in Procs \ {z} : parent[c] = z => ~HasSpace(c)
      /\ UNCHANGED <<used, parent, base, kstack, pde, pte, pglist, pt>>
  BY DEF Exit, HasSpace
<1>2. \A r \in Procs : /\ Listed(r)' = Listed(r) /\ Maps(r)' = Maps(r)
                       /\ FramesOf(r)' = FramesOf(r) /\ parent'[r] = parent[r]
  BY <1>1 DEF Listed, Maps, FramesOf
<1>3. \A r \in Procs : HasSpace(r)' <=> HasSpace(r)
  BY <1>1 DEF HasSpace, ShapeInv
<1>4. \A r \in Procs : status'[r] = "unborn" => Maps(r)' = {}
  BY <1>1, <1>2 DEF MapInv, ShapeInv
<1>5. \A r \in Procs : HasSpace(r)' => parent[r] # z
  BY <1>1, <1>3 DEF MapInv
<1>6. \A r \in Procs : HasSpace(r)' => status'[parent'[r]] = "runs"
  BY <1>1, <1>2, <1>3, <1>5 DEF MapInv, ShapeInv
<1>7. Isolation'
  BY <1>2, <1>3 DEF MapInv, Isolation
<1>8. \A r \in Procs : Listed(parent[r])' = Listed(parent[r])
  BY <1>1 DEF Listed
<1> QED
  BY <1>1, <1>2, <1>3, <1>4, <1>6, <1>7, <1>8 DEF MapInv

LEMMA DestroyMap ==
    ASSUME ShapeInv, MapInv, NEW z \in Procs, Destroy(z)
    PROVE  MapInv'
<1>1. /\ status[z] = "zombie" /\ status' = [status EXCEPT ![z] = "gone"]
      /\ UNCHANGED <<parent, base, kstack, pde, pte, pglist, pt>>
  BY DEF Destroy
<1>2. \A r \in Procs : /\ Listed(r)' = Listed(r) /\ Maps(r)' = Maps(r)
                       /\ FramesOf(r)' = FramesOf(r) /\ parent'[r] = parent[r]
  BY <1>1 DEF Listed, Maps, FramesOf
<1>3. \A r \in Procs : HasSpace(r)' => HasSpace(r)
  BY <1>1 DEF HasSpace, ShapeInv
<1>4. \A r \in Procs : status'[r] = "unborn" => Maps(r)' = {}
  BY <1>1, <1>2 DEF MapInv, ShapeInv
<1>5. \A r \in Procs : HasSpace(r)' => status'[parent'[r]] = "runs"
  BY <1>1, <1>2, <1>3 DEF MapInv, ShapeInv
<1>6. Isolation'
  BY <1>2, <1>3 DEF MapInv, Isolation
<1>7. \A r \in Procs : Listed(parent[r])' = Listed(parent[r])
  BY <1>1 DEF Listed
<1> QED
  BY <1>1, <1>2, <1>3, <1>4, <1>5, <1>6, <1>7 DEF MapInv

LEMMA FaultMap ==
    ASSUME ShapeInv, OwnInv, MapInv, NEW q \in Procs, NEW v \in Pages, Fault(q, v)
    PROVE  MapInv'
<1>1. /\ HasSpace(q) /\ status' = status
      /\ parent' = parent /\ UNCHANGED <<base, kstack>>
  BY DEF HasSpace, Fault
<1>2. TableOf(v) \in Tables
  BY DEF TableOf, Tables
<1>3. pde \in [Procs -> [Tables -> Nat]] /\ pte \in [Procs -> [Pages -> Nat]]
  BY DEF MapInv
<1>4. CASE pde[q][TableOf(v)] = None
  <2> DEFINE f == Take(2)
  <2>1. /\ Available(2)
        /\ pglist' = [pglist EXCEPT ![q] = @ \cup {f[1]}]
        /\ pt' = [pt EXCEPT ![q] = @ \cup {f[2]}]
        /\ pte' = [pte EXCEPT ![q][v] = f[1]]
        /\ pde' = [pde EXCEPT ![q][TableOf(v)] = f[2]]
    BY <1>4 DEF Fault
  <2>2. f \in [1 .. 2 -> Frames \ used]
    BY <2>1, TakeSound
  <2>3. f[1] \in Nat /\ f[2] \in Nat /\ ({f[1]} \cup {f[2]}) \cap used = {}
    BY <2>2 DEF Frames
  <2> HIDE DEF f
  <2>4. pde' \in [Procs -> [Tables -> Nat]] /\ pte' \in [Procs -> [Pages -> Nat]]
    BY <1>2, <1>3, <2>1, <2>3
  <2>5. \A r \in Procs : r # q => pde'[r] = pde[r] /\ pte'[r] = pte[r]
    BY <1>3, <2>1
  <2>6. Maps(q)' \subseteq Maps(q) \cup {f[1]} \cup {f[2]}
    <3>1. \A w \in Pages : pte'[q][w] = IF w = v THEN f[1] ELSE pte[q][w]
      BY <1>3, <2>1
    <3>2. \A t \in Tables : pde'[q][t] = IF t = TableOf(v) THEN f[2] ELSE pde[q][t]
      BY <1>2, <1>3, <2>1
    <3> QED
      BY <3>1, <3>2 DEF Maps
  <2>7. Filing(q, {f[1]}, {f[2]})
    BY <1>1, <2>1, <2>3, <2>4, <2>5, <2>6 DEF Filing
  <2> QED
    BY <2>7, FileMap
<1>5. CASE pde[q][TableOf(v)] # None
  <2> DEFINE f == Take(1)
  <2>1. /\ Available(1)
        /\ pglist' = [pglist EXCEPT ![q] = @ \cup {f[1]}]
        /\ pt' = pt /\ pde' = pde
        /\ pte' = [pte EXCEPT ![q][v] = f[1]]
    BY <1>5 DEF Fault
  <2>2. f \in [1 .. 1 -> Frames \ used]
    BY <2>1, TakeSound
  <2>3. f[1] \in Nat /\ ({f[1]} \cup {}) \cap used = {}
    BY <2>2 DEF Frames
  <2> HIDE DEF f
  <2>4. pde' \in [Procs -> [Tables -> Nat]] /\ pte' \in [Procs -> [Pages -> Nat]]
    BY <1>3, <2>1, <2>3
  <2>5. \A r \in Procs : r # q => pde'[r] = pde[r] /\ pte'[r] = pte[r]
    BY <1>3, <2>1
  <2>6. Maps(q)' \subseteq Maps(q) \cup {f[1]} \cup {}
    <3>1. \A w \in Pages : pte'[q][w] = IF w = v THEN f[1] ELSE pte[q][w]
      BY <1>3, <2>1
    <3> QED
      BY <2>1, <3>1 DEF Maps
  <2>7. pt' = [pt EXCEPT ![q] = @ \cup {}]
    <3>1. pt \in [Procs -> SUBSET Nat]
      BY DEF ShapeInv
    <3> QED
      BY <2>1, <3>1
  <2>8. Filing(q, {f[1]}, {})
    BY <1>1, <2>1, <2>3, <2>4, <2>5, <2>6, <2>7 DEF Filing
  <2> QED
    BY <2>8, FileMap
<1> QED
  BY <1>4, <1>5

LEMMA ExecvMap ==
    ASSUME ShapeInv, OwnInv, MapInv, NEW c \in Procs, NEW q \in Procs,
           Execv(c, q) \/ ExecvArgs(c, q) \/ ExecvFails(c, q)
    PROVE  MapInv'
<1>1. pde \in [Procs -> [Tables -> Nat]] /\ pte \in [Procs -> [Pages -> Nat]]
  BY DEF MapInv
<1>2. status[c] = "unborn"
  BY DEF Execv, ExecvArgs, ExecvFails, Born
<1>3. /\ \A v \in Pages : pte[c][v] = None
      /\ \A t \in Tables : pde[c][t] = None
  <2>1. Maps(c) = {}
    BY <1>2 DEF MapInv
  <2> QED
    BY <2>1 DEF Maps
<1>4. CASE Execv(c, q)
  <2>1. PICK b, k, p, t : /\ Birth(c, q, b, k, {p}, {t}) /\ p \in Nat /\ t \in Nat
                          /\ pte' = [pte EXCEPT ![c]["code"] = p]
                          /\ pde' = [pde EXCEPT ![c]["low"] = t]
    BY <1>4, ExecvBirth
  <2>2. pde' \in [Procs -> [Tables -> Nat]] /\ pte' \in [Procs -> [Pages -> Nat]]
    BY <1>1, <2>1
  <2>3. \A r \in Procs : r # c => pde'[r] = pde[r] /\ pte'[r] = pte[r]
    BY <1>1, <2>1
  <2>4. Maps(c)' \subseteq {p} \cup {t}
    <3>1. \A w \in Pages : pte'[c][w] \in {p, None}
      BY <1>1, <1>3, <2>1
    <3>2. \A x \in Tables : pde'[c][x] \in {t, None}
      BY <1>1, <1>3, <2>1
    <3> QED
      BY <3>1, <3>2 DEF Maps
  <2> QED
    BY <2>1, <2>2, <2>3, <2>4, BornMap
<1>5. CASE ExecvArgs(c, q)
  <2>1. PICK f \in [1 .. 6 -> Nat] :
           /\ Birth(c, q, f[1], f[6], {f[2], f[4]}, {f[3], f[5]})
           /\ pte' = [pte EXCEPT ![c]["code"] = f[2], ![c]["stack"] = f[4]]
           /\ pde' = [pde EXCEPT ![c]["low"] = f[3], ![c]["high"] = f[5]]
    BY <1>5, ExecvArgsBirth
  <2>2. f[2] \in Nat /\ f[3] \in Nat /\ f[4] \in Nat /\ f[5] \in Nat
    OBVIOUS
  <2>3. pde' \in [Procs -> [Tables -> Nat]] /\ pte' \in [Procs -> [Pages -> Nat]]
    BY <1>1, <2>1, <2>2 DEF Tables, Pages
  <2>4. \A r \in Procs : r # c => pde'[r] = pde[r] /\ pte'[r] = pte[r]
    BY <1>1, <2>1
  <2>5. Maps(c)' \subseteq {f[2], f[4]} \cup {f[3], f[5]}
    <3>1. \A w \in Pages : pte'[c][w] \in {f[2], f[4], None}
      BY <1>1, <1>3, <2>1 DEF Pages
    <3>2. \A x \in Tables : pde'[c][x] \in {f[3], f[5], None}
      BY <1>1, <1>3, <2>1 DEF Tables
    <3> QED
      BY <3>1, <3>2 DEF Maps
  <2> QED
    BY <2>1, <2>3, <2>4, <2>5, BornMap
<1>6. CASE ExecvFails(c, q)
  <2>1. PICK p, t : /\ ({p} \cup {t}) \cap used = {}
                    /\ pglist' = [pglist EXCEPT ![q] = @ \cup {p}]
                    /\ pt' = [pt EXCEPT ![q] = @ \cup {t}]
    BY <1>6, ExecvFailsFiles
  <2>2. Born(c, q, "failed") /\ UNCHANGED <<base, kstack, pde, pte>>
    BY <1>6 DEF ExecvFails
  <2>3. HasSpace(q)
    BY <2>2 DEF Born, HasSpace
  <2>4. Maps(q)' \subseteq Maps(q) \cup {p} \cup {t}
    BY <2>2 DEF Maps
  <2>5. Filing(q, {p}, {t})
    BY <1>1, <2>1, <2>2, <2>3, <2>4 DEF Filing
  <2> QED
    BY <2>5, FileMap
<1> QED
  BY <1>4, <1>5, <1>6

LEMMA NextMap ==
    ASSUME ~OrphansAllowed, ShapeInv, OwnInv, MapInv, [Next]_vars
    PROVE  Strayed' \/ MapInv'
<1>1. ASSUME NEW c \in Procs, NEW q \in Procs,
             Execv(c, q) \/ ExecvArgs(c, q) \/ ExecvFails(c, q)
      PROVE  MapInv'
  BY <1>1, ExecvMap
<1>2. ASSUME NEW q \in Procs, NEW v \in Pages, Fault(q, v)
      PROVE  MapInv'
  BY <1>2, FaultMap
<1>3. ASSUME NEW q \in Procs, Exit(q)
      PROVE  MapInv'
  BY <1>3, ExitMap
<1>4. ASSUME NEW z \in Procs, Destroy(z)
      PROVE  MapInv'
  BY <1>4, DestroyMap
<1>5. ASSUME NEW z \in Procs, DestroyFailed(z)
      PROVE  Strayed'
  <2>1. status' = [status EXCEPT ![z] = "twice"] /\ status \in [Procs -> Status]
    BY <1>5 DEF DestroyFailed, ShapeInv
  <2> QED
    BY <2>1 DEF Strayed
<1>6. CASE UNCHANGED vars
  <2>1. UNCHANGED <<used, status, parent, base, kstack, pglist, pt, pde, pte>>
    BY <1>6 DEF vars
  <2>2. \A r \in Procs : /\ Listed(r)' = Listed(r) /\ Maps(r)' = Maps(r)
                         /\ FramesOf(r)' = FramesOf(r) /\ (HasSpace(r)' <=> HasSpace(r))
                         /\ Listed(parent[r])' = Listed(parent[r])
    BY <2>1 DEF Listed, Maps, FramesOf, HasSpace
  <2>3. Isolation'
    BY <2>2 DEF MapInv, Isolation
  <2> QED
    BY <2>1, <2>2, <2>3 DEF MapInv
<1> QED
  BY <1>1, <1>2, <1>3, <1>4, <1>5, <1>6 DEF Next

MapKept == Statuses /\ (Strayed \/ (ShapeInv /\ OwnInv /\ MapInv))

LEMMA MapInvariant ==
    ASSUME ~OrphansAllowed
    PROVE  Spec => []MapKept
<1>1. Init => MapKept
  BY InitOwn, InitMap DEF MapKept, Statuses, ShapeInv
<1>2. MapKept /\ [Next]_vars => MapKept'
  BY StatusesStay, NextOwn, NextMap DEF MapKept
<1> QED
  BY <1>1, <1>2, PTL DEF Spec

(* When no process ends before its children, and until a program that      *)
(* failed to load is reaped, no frame is mapped for two processes, nor for *)
(* one while it is the page directory or the kernel stack of another       *)
(* (Chapter-8/README.md; create_process, isr_PF_exc, destroy_process).     *)
THEOREM IsolationAlways ==
    ASSUME ~OrphansAllowed
    PROVE  Spec => []IsolationHolds
<1>1. MapKept => IsolationHolds
  BY DEF MapKept, MapInv, IsolationHolds
<1> QED
  BY <1>1, MapInvariant, PTL

(* Then also the bitmap and the processes agree: whatever a process maps   *)
(* is marked in mem_bitmap, and whatever is marked has an owner that gives *)
(* it back (vmm.cc page_frame_aquire, page_frame_release).                 *)
THEOREM MarkedIsOwnedAlways ==
    ASSUME ~OrphansAllowed
    PROVE  Spec => []MarkedIsOwned
<1>1. MapKept => MarkedIsOwned
  <2> SUFFICES ASSUME ShapeInv, OwnInv, MapInv PROVE MarkedIsOwned
    BY DEF MapKept, MarkedIsOwned
  <2>1. \A q \in Procs : HasSpace(q) => FramesOf(q) \subseteq used
    BY FramesMarked
  <2>2. used \subseteq Unlisted \cup UNION {Own(q) : q \in {r \in Procs : HasSpace(r)}}
    BY DEF OwnInv
  <2> QED
    BY <2>1, <2>2 DEF MarkedIsOwned, Own
<1> QED
  BY <1>1, MapInvariant, PTL
=============================================================================

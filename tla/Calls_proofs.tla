---------------------------- MODULE Calls_proofs ----------------------------
(***************************************************************************)
(* Theorems about the system calls: what those on files do to the tree and *)
(* the descriptors (Files), for all processes, links, names and paths, and *)
(* how any call gets its arguments and gives back its result (Syscalls),   *)
(* for every number of processes.                                          *)
(*                                                                         *)
(* Files: what FileTree defines by following pointers exists because the   *)
(* files have ages: parents and next siblings are older.  The pointers are *)
(* the rows of a tree, newest file first, File::add and the destructor     *)
(* change one row, and this is what Directory promises.  path takes one    *)
(* step for each word, so that it finds a file below a file it finds.      *)
(*                                                                         *)
(* Syscalls: no call returns the result of another's call, a call that     *)
(* does not wait returns its own, and a call that no timer cuts works on   *)
(* its own arguments.                                                      *)
(***************************************************************************)
EXTENDS Files, Syscalls, Induction, FiniteSetTheorems, SequenceTheorems, TLAPS

-----------------------------------------------------------------------------
(* What is defined by recursion along pointers exists, if each pointer     *)
(* leads to something older.                                               *)
Descends(Q, nil, p, age, N) ==
    /\ nil \notin Q /\ p \in [Q -> Q \cup {nil}]
    /\ N \in Nat /\ age \in [Q -> 0 .. N]
    /\ \A q \in Q : p[q] # nil => age[p[q]] < age[q]

Steps(Q, X, base, step) == base \in X /\ step \in [Q -> [X -> X]]

Recursive(h, Q, nil, p, X, base, step) ==
    /\ h \in [Q \cup {nil} -> X] /\ h[nil] = base
    /\ \A q \in Q : h[q] = step[q][h[p[q]]]

LEMMA PointerRecursion ==
    ASSUME NEW Q, NEW nil, NEW p, NEW age, NEW N, Descends(Q, nil, p, age, N),
           NEW X, NEW base, NEW step, Steps(Q, X, base, step)
    PROVE  \E h : Recursive(h, Q, nil, p, X, base, step)
<1> USE DEF Descends, Steps
<1> DEFINE Upto(h, n) == /\ h \in [Q \cup {nil} -> X] /\ h[nil] = base
                         /\ \A q \in Q : age[q] < n => h[q] = step[q][h[p[q]]]
           S == {n \in Nat : \E h : Upto(h, n)}
<1>1. 0 \in S
  <2>1. Upto([q \in Q \cup {nil} |-> base], 0)
    OBVIOUS
  <2> QED BY <2>1
<1>2. ASSUME NEW n \in S PROVE n + 1 \in S
  <2>1. n \in Nat
    OBVIOUS
  <2>2. PICK h : Upto(h, n)
    OBVIOUS
  <2> DEFINE g == [q \in Q \cup {nil} |-> IF q \in Q /\ age[q] = n THEN step[q][h[p[q]]] ELSE h[q]]
  <2>3. \A q \in Q : h[p[q]] \in X /\ step[q][h[p[q]]] \in X
    BY <2>2
  <2>4. g \in [Q \cup {nil} -> X] /\ g[nil] = base
    BY <2>2, <2>3
  <2>5. ASSUME NEW q \in Q, age[q] < n + 1 PROVE g[q] = step[q][h[p[q]]]
    <3>1. age[q] = n \/ age[q] < n
      BY <2>1, <2>5
    <3> QED BY <2>2, <3>1
  <2>6. ASSUME NEW q \in Q, age[q] < n + 1 PROVE g[p[q]] = h[p[q]]
    <3>1. CASE p[q] = nil
      BY <3>1
    <3>2. CASE p[q] \in Q
      <4>1. age[p[q]] < age[q] /\ age[p[q]] \in Nat /\ age[q] \in Nat
        BY <3>2
      <4>2. age[p[q]] # n
        BY <2>1, <2>6, <4>1
      <4> QED BY <3>2, <4>2
    <3> QED BY <3>1, <3>2
  <2>7. Upto(g, n + 1)
    <3> HIDE DEF g
    <3> QED BY <2>4, <2>5, <2>6
  <2> HIDE DEF Upto
  <2> QED BY <2>1, <2>7
<1>3. PICK h : Upto(h, N + 1)
  <2>1. N + 1 \in S
    <3> HIDE DEF S
    <3> QED BY <1>1, <1>2, SetInduction DEF S
  <2> QED BY <2>1
<1>4. \A q \in Q : age[q] < N + 1
  OBVIOUS
<1> QED BY <1>3, <1>4 DEF Recursive

-----------------------------------------------------------------------------
Nth(s, i) == IF i \in 1 .. Len(s) THEN s[i] ELSE NULL

(* The children of d are those of s, in its order.                         *)
Row(d, s) ==
    /\ s \in Seq(File)
    /\ \A i, j \in 1 .. Len(s) : s[i] = s[j] => i = j
    /\ child[d] = Nth(s, 1)
    /\ \A i \in 1 .. Len(s) : /\ s[i] \in alive /\ parent[s[i]] = d
                              /\ next[s[i]] = Nth(s, i + 1)
                              /\ prev[s[i]] = Nth(s, i - 1)

Rows(rows) ==
    /\ \A d \in File : Row(d, rows[d])
    /\ \A f \in alive \ {ROOT} :
         /\ parent[f] \in alive
         /\ \E i \in 1 .. Len(rows[parent[f]]) : rows[parent[f]][i] = f

(* Files have ages: both parents and next neighbours are older.            *)
Ages(age, N) ==
    /\ N \in Nat /\ age \in [File -> 0 .. N]
    /\ \A f \in File : /\ parent[f] # NULL => age[parent[f]] < age[f]
                       /\ next[f] # NULL => age[next[f]] < age[f]

TypeInv ==
    /\ alive \subseteq File
    /\ name = [f \in File |-> name[f]]
    /\ link = [f \in File |-> link[f]]
    /\ parent \in [File -> Ptr]
    /\ child \in [File -> Ptr]
    /\ next \in [File -> Ptr]
    /\ prev \in [File -> Ptr]

LoneInv ==
    /\ \A f \in File \ alive : /\ parent[f] = NULL /\ child[f] = NULL
                               /\ next[f] = NULL /\ prev[f] = NULL
    /\ parent[ROOT] = NULL /\ next[ROOT] = NULL /\ prev[ROOT] = NULL

Tree(rows, age, N) == TypeInv /\ LoneInv /\ Rows(rows) /\ Ages(age, N)

TreeInv == \E rows, age, N : Tree(rows, age, N)

(* NULL is no File.                                                        *)
LEMMA NullIsNoFile == NULL \notin File /\ ROOT \in File /\ PROC \in File /\ DEV \in File
BY FileTreeAssumption DEF File, Fixed

(* From the i-th of a row on, the list of siblings is the rest of the row. *)
LEMMA ChildrenAre ==
    ASSUME NEW rows, NEW age, NEW N, Tree(rows, age, N), NEW d \in File
    PROVE  Children(d) = rows[d]
<1> DEFINE H(h) == [f \in Ptr |-> IF f = NULL THEN <<>> ELSE <<f>> \o h[next[f]]]
           from == CHOOSE h : h = H(h)
           X == Seq(File)
           step == [f \in File |-> [s \in X |-> <<f>> \o s]]
<1>1. /\ Row(d, rows[d]) /\ next \in [File -> File \cup {NULL}]
      /\ N \in Nat /\ age \in [File -> 0 .. N]
      /\ \A f \in File : next[f] # NULL => age[next[f]] < age[f]
  BY DEF Tree, Rows, Ages, TypeInv, Ptr
<1>2. from = H(from)
  <2>1. Steps(File, X, <<>>, step)
    BY DEF Steps
  <2>2. PICK h \in [File \cup {NULL} -> X] :
          h[NULL] = <<>> /\ \A f \in File : h[f] = step[f][h[next[f]]]
    <3>1. Descends(File, NULL, next, age, N)
      BY <1>1, NullIsNoFile DEF Descends
    <3> HIDE DEF X, step
    <3>2. PICK h : Recursive(h, File, NULL, next, X, <<>>, step)
      BY <2>1, <3>1, PointerRecursion
    <3> QED BY <3>2 DEF Recursive
  <2>3. h = H(h)
    <3>1. \A f \in File : next[f] \in File \cup {NULL} /\ h[next[f]] \in X
      BY <1>1, <2>2
    <3>2. \A f \in File : h[f] = <<f>> \o h[next[f]]
      BY <2>2, <3>1
    <3> HIDE DEF X, step
    <3> QED BY <2>2, <3>2, NullIsNoFile DEF Ptr
  <2> HIDE DEF H
  <2> QED BY <2>3
<1>3. PICK s : s = rows[d] /\ s \in Seq(File) /\ child[d] = Nth(s, 1)
               /\ \A i \in 1 .. Len(s) : next[s[i]] = Nth(s, i + 1)
  BY <1>1 DEF Row
<1>4. Children(d) = from[Nth(s, 1)]
  BY <1>3 DEF Children
<1>5. from[NULL] = <<>> /\ \A i \in 1 .. Len(s) : from[s[i]] = <<s[i]>> \o from[Nth(s, i + 1)]
  <2>1. \A i \in 1 .. Len(s) : s[i] \in Ptr /\ s[i] # NULL
    BY <1>3, NullIsNoFile DEF Ptr
  <2>2. NULL \in Ptr
    BY DEF Ptr
  <2> HIDE DEF from
  <2>3. \A f \in Ptr : from[f] = IF f = NULL THEN <<>> ELSE <<f>> \o from[next[f]]
    BY <1>2
  <2> QED BY <1>3, <2>1, <2>2, <2>3
<1> HIDE DEF from, H
<1>6. PICK L \in Nat : L = Len(s)
  BY <1>3
<1> DEFINE T == {j \in 0 .. L : from[Nth(s, L + 1 - j)] = SubSeq(s, L + 1 - j, L)}
<1>7. 0 \in T
  <2>1. L + 1 - 0 = L + 1 /\ Nth(s, L + 1) = NULL
    BY <1>6 DEF Nth
  <2>2. SubSeq(s, L + 1, L) = <<>>
    BY <1>3, <1>6
  <2>3. from[Nth(s, L + 1)] = SubSeq(s, L + 1, L)
    BY <1>5, <2>1, <2>2
  <2>4. 0 \in 0 .. L
    OBVIOUS
  <2> QED BY <2>1, <2>3, <2>4
<1>8. ASSUME NEW j \in 1 .. L, j - 1 \in T PROVE j \in T
  <2>1. PICK i \in 1 .. L : i = L + 1 - j /\ i + 1 = L + 1 - (j - 1)
    BY <1>6
  <2>2. from[Nth(s, i + 1)] = SubSeq(s, i + 1, L) /\ from[s[i]] = <<s[i]>> \o from[Nth(s, i + 1)]
    BY <1>5, <1>6, <1>8, <2>1
  <2>3. Nth(s, i) = s[i]
    BY <1>6 DEF Nth
  <2>4. SubSeq(s, i, L) = <<s[i]>> \o SubSeq(s, i + 1, L)
    BY <1>3, <1>6
  <2>5. from[Nth(s, i)] = SubSeq(s, i, L)
    BY <2>2, <2>3, <2>4
  <2>6. j \in 0 .. L
    OBVIOUS
  <2> QED BY <2>1, <2>5, <2>6
<1>9. L \in T
  <2>1. \A j \in 1 .. L : j - 1 \in T => j \in T
    BY <1>8
  <2> HIDE DEF T
  <2>2. 0 .. L \subseteq T
    BY <1>7, <2>1, RangeInduction
  <2> QED BY <2>2
<1>10. from[Nth(s, 1)] = SubSeq(s, 1, L)
  BY <1>6, <1>9
<1>11. SubSeq(s, 1, L) = s
  BY <1>3, <1>6
<1> QED BY <1>3, <1>4, <1>10, <1>11
(* What find and Above are made of.                                        *)
LEMMA Descending ==
    ASSUME NEW rows, NEW age, NEW N, Tree(rows, age, N)
    PROVE  Descends(File, NULL, next, age, N) /\ Descends(File, NULL, parent, age, N)
BY NullIsNoFile DEF Tree, Ages, TypeInv, Ptr, Descends

(* find returns the first file of the row that has the name.               *)
LEMMA FindIs ==
    ASSUME NEW rows, NEW age, NEW N, Tree(rows, age, N), NEW d \in File, NEW n,
           NEW k \in 1 .. Len(rows[d]), name[rows[d][k]] = n,
           \A j \in 1 .. k - 1 : name[rows[d][j]] # n
    PROVE  find(d, n) = rows[d][k]
<1> DEFINE H(h) == [f \in Ptr |-> IF f = NULL \/ name[f] = n THEN f ELSE h[next[f]]]
           from == CHOOSE h : h = H(h)
           step == [f \in File |-> [x \in Ptr |-> IF name[f] = n THEN f ELSE x]]
<1>1. PICK s : s = rows[d] /\ s \in Seq(File) /\ child[d] = Nth(s, 1)
               /\ \A i \in 1 .. Len(s) : next[s[i]] = Nth(s, i + 1)
  <2>1. Row(d, rows[d])
    BY DEF Tree, Rows
  <2> QED BY <2>1 DEF Row
<1>2. from = H(from)
  <2>1. Steps(File, Ptr, NULL, step)
    BY DEF Steps, Ptr
  <2>2. Descends(File, NULL, next, age, N)
    BY Descending
  <2>3. PICK h : Recursive(h, File, NULL, next, Ptr, NULL, step)
    <3> HIDE DEF step
    <3> QED BY <2>1, <2>2, PointerRecursion
  <2>4. h = H(h)
    <3>1. h \in [Ptr -> Ptr] /\ h[NULL] = NULL
      BY <2>3 DEF Recursive, Ptr
    <3>2. \A f \in File : next[f] \in Ptr /\ h[next[f]] \in Ptr
      BY <2>2, <3>1 DEF Descends, Ptr
    <3>3. \A f \in File : h[f] = IF name[f] = n THEN f ELSE h[next[f]]
      BY <2>3, <3>2 DEF Recursive
    <3> HIDE DEF step
    <3> QED BY <3>1, <3>3 DEF Ptr
  <2> HIDE DEF H
  <2> QED BY <2>4
<1>3. find(d, n) = from[Nth(s, 1)]
  BY <1>1 DEF find
<1>4. \A i \in 1 .. Len(s) : from[s[i]] = IF name[s[i]] = n THEN s[i] ELSE from[Nth(s, i + 1)]
  <2>1. \A i \in 1 .. Len(s) : s[i] \in Ptr /\ s[i] # NULL
    BY <1>1, NullIsNoFile DEF Ptr
  <2> HIDE DEF from
  <2>2. \A f \in Ptr : from[f] = IF f = NULL \/ name[f] = n THEN f ELSE from[next[f]]
    BY <1>2
  <2> QED BY <1>1, <2>1, <2>2
<1> HIDE DEF from, H
<1> DEFINE T == {j \in 0 .. k - 1 : from[s[j + 1]] = from[s[1]]}
<1>5. k \in Nat /\ k > 0 /\ k \in 1 .. Len(s) /\ Len(s) \in Nat
  BY <1>1
<1>6. 0 \in T
  BY <1>5
<1>7. ASSUME NEW j \in 1 .. k - 1, j - 1 \in T PROVE j \in T
  <2>1. j \in 1 .. Len(s) /\ j + 1 \in 1 .. Len(s) /\ (j - 1) + 1 = j /\ j \in 0 .. k - 1
    BY <1>5
  <2>2. name[s[j]] # n
    BY <1>1
  <2>3. from[s[j]] = from[Nth(s, j + 1)] /\ Nth(s, j + 1) = s[j + 1]
    BY <1>4, <2>1, <2>2 DEF Nth
  <2>4. from[s[j]] = from[s[1]]
    BY <1>7, <2>1
  <2> QED BY <2>1, <2>3, <2>4
<1>8. k - 1 \in T
  <2>1. \A j \in 1 .. k - 1 : j - 1 \in T => j \in T
    BY <1>7
  <2>2. k - 1 \in Nat /\ k - 1 \in 0 .. k - 1
    BY <1>5
  <2> HIDE DEF T
  <2>3. 0 .. k - 1 \subseteq T
    BY <1>6, <2>1, <2>2, RangeInduction
  <2> QED BY <2>2, <2>3
<1>9. from[s[k]] = from[s[1]] /\ Nth(s, 1) = s[1]
  <2>1. (k - 1) + 1 = k /\ 1 \in 1 .. Len(s)
    BY <1>5
  <2> QED BY <1>8, <2>1 DEF Nth
<1>10. from[s[k]] = s[k]
  BY <1>1, <1>4, <1>5
<1> QED BY <1>1, <1>3, <1>9, <1>10

(* find returns NULL only if no file of the row has the name.              *)
LEMMA FindFails ==
    ASSUME NEW rows, NEW age, NEW N, Tree(rows, age, N), NEW d \in File, NEW n, find(d, n) = NULL
    PROVE  \A k \in 1 .. Len(rows[d]) : name[rows[d][k]] # n
<1> SUFFICES ASSUME NEW k \in 1 .. Len(rows[d]), name[rows[d][k]] = n PROVE FALSE
  OBVIOUS
<1>1. rows[d] \in Seq(File)
  BY DEF Tree, Rows, Row
<1> DEFINE T == {i \in Nat : i \in 1 .. Len(rows[d]) /\ name[rows[d][i]] = n}
<1>2. k \in T
  BY <1>1
<1>3. PICK i \in T : \A m \in T : i <= m
  <2> HIDE DEF T
  <2>1. T \in SUBSET Nat
    BY DEF T
  <2> QED BY <1>2, <2>1, LeastElement
<1>4. i \in 1 .. Len(rows[d]) /\ name[rows[d][i]] = n
  OBVIOUS
<1>5. \A j \in 1 .. i - 1 : name[rows[d][j]] # n
  <2> SUFFICES ASSUME NEW j \in 1 .. i - 1, name[rows[d][j]] = n PROVE FALSE
    OBVIOUS
  <2>1. j \in Nat /\ j \in 1 .. Len(rows[d]) /\ j < i /\ i \in Nat
    BY <1>1, <1>4
  <2>2. i <= j
    BY <1>3, <2>1
  <2> QED BY <2>1, <2>2
<1>6. find(d, n) = rows[d][i]
  BY <1>4, <1>5, FindIs
<1>7. rows[d][i] \in File
  BY <1>1, <1>4
<1> QED BY <1>6, <1>7, NullIsNoFile

(* The files above a file: its parent, and those above that.               *)
LEMMA AboveIs ==
    ASSUME NEW rows, NEW age, NEW N, Tree(rows, age, N)
    PROVE  /\ \A f \in File : parent[f] = NULL => Above(f) = {}
           /\ \A f \in File : parent[f] # NULL => Above(f) = {parent[f]} \cup Above(parent[f])
<1> DEFINE H(h) == [g \in Ptr |-> IF g = NULL THEN {} ELSE {g} \cup h[parent[g]]]
           up == CHOOSE h : h = H(h)
           X == SUBSET File
           step == [g \in File |-> [x \in X |-> {g} \cup x]]
<1>1. up = H(up)
  <2>1. Steps(File, X, {}, step)
    BY DEF Steps
  <2>2. Descends(File, NULL, parent, age, N)
    BY Descending
  <2>3. PICK h : Recursive(h, File, NULL, parent, X, {}, step)
    <3> HIDE DEF X, step
    <3> QED BY <2>1, <2>2, PointerRecursion
  <2>4. h = H(h)
    <3>1. h \in [Ptr -> X] /\ h[NULL] = {}
      BY <2>3 DEF Recursive, Ptr
    <3>2. \A f \in File : parent[f] \in Ptr /\ h[parent[f]] \in X
      BY <2>2, <3>1 DEF Descends, Ptr
    <3>3. \A f \in File : h[f] = {f} \cup h[parent[f]]
      BY <2>3, <3>2 DEF Recursive
    <3> HIDE DEF X, step
    <3> QED BY <3>1, <3>3, NullIsNoFile DEF Ptr
  <2> HIDE DEF H
  <2> QED BY <2>4
<1>2. \A f : Above(f) = up[parent[f]]
  BY DEF Above
<1> HIDE DEF up
<1>3. \A f \in File : parent[f] \in Ptr
  BY DEF Tree, TypeInv
<1>4. \A g \in Ptr : up[g] = IF g = NULL THEN {} ELSE {g} \cup up[parent[g]]
  BY <1>1
<1> HIDE DEF H
<1> QED BY <1>2, <1>3, <1>4 DEF Ptr

(* What is above a file is older than it: no file is above itself.         *)
LEMMA AboveIsOlder ==
    ASSUME NEW rows, NEW age, NEW N, Tree(rows, age, N), NEW f \in File
    PROVE  \A a \in Above(f) : a \in File /\ age[a] < age[f]
<1> DEFINE T == {n \in Nat : \A g \in File : age[g] < n =>
                                \A a \in Above(g) : a \in File /\ age[a] < age[g]}
<1>1. /\ N \in Nat /\ age \in [File -> 0 .. N] /\ parent \in [File -> File \cup {NULL}]
      /\ \A g \in File : parent[g] # NULL => age[parent[g]] < age[g]
  BY DEF Tree, Ages, TypeInv, Ptr
<1>2. \A g \in File : age[g] \in Nat
  BY <1>1
<1>3. 0 \in T
  BY <1>2
<1>4. ASSUME NEW n \in T PROVE n + 1 \in T
  <2> SUFFICES ASSUME NEW g \in File, age[g] < n + 1, NEW a \in Above(g)
               PROVE  a \in File /\ age[a] < age[g]
    OBVIOUS
  <2>1. parent[g] # NULL /\ Above(g) = {parent[g]} \cup Above(parent[g])
    BY AboveIs
  <2>2. parent[g] \in File /\ age[parent[g]] < age[g]
    BY <1>1, <2>1
  <2>3. age[parent[g]] < n /\ age[parent[g]] \in Nat /\ age[g] \in Nat
    BY <1>2, <2>2
  <2>4. \A b \in Above(parent[g]) : b \in File /\ age[b] < age[parent[g]]
    BY <2>2, <2>3
  <2> QED BY <1>2, <2>1, <2>2, <2>3, <2>4
<1>5. \A n \in Nat : n \in T
  <2>1. T \in SUBSET Nat /\ \A n \in T : n + 1 \in T
    BY <1>4
  <2> HIDE DEF T
  <2> QED BY <1>3, <2>1, SetInduction
<1>6. age[f] + 1 \in Nat /\ age[f] < age[f] + 1
  BY <1>2
<1>7. age[f] + 1 \in T
  BY <1>5, <1>6
<1> QED BY <1>6, <1>7
-----------------------------------------------------------------------------
(* What a destructor takes with it.                                        *)
Gone(z) == {z} \cup Below(z)

(* What the destructor of z takes: z and every file whose parent goes.     *)
LEMMA GoneIs ==
    ASSUME NEW rows, NEW age, NEW N, Tree(rows, age, N), NEW z \in alive \ {ROOT}, ROOT \in alive
    PROVE  /\ Gone(z) \subseteq alive /\ z \in Gone(z) /\ ROOT \notin Gone(z)
           /\ parent[z] \notin Gone(z)
           /\ \A g \in alive \ {ROOT} : g \in Gone(z) <=> g = z \/ parent[g] \in Gone(z)
<1>1. /\ alive \subseteq File /\ parent[ROOT] = NULL /\ z \in File /\ parent[z] \in alive
      /\ \A g \in alive \ {ROOT} : parent[g] \in alive /\ parent[g] \in File
  BY DEF Tree, TypeInv, LoneInv, Rows
<1>2. \A g \in alive \ {ROOT} : Above(g) = {parent[g]} \cup Above(parent[g])
  BY <1>1, NullIsNoFile, AboveIs
<1>3. \A g \in alive \ {ROOT} : z \in Above(g) <=> parent[g] \in Gone(z)
  BY <1>1, <1>2 DEF Gone, Below
<1>4. Above(ROOT) = {}
  BY <1>1, NullIsNoFile, AboveIs
<1>5. ROOT \notin Gone(z)
  BY <1>4 DEF Gone, Below
<1>6. parent[z] \notin Gone(z)
  <2>1. z \in Above(z) => age[z] < age[z]
    BY <1>1, AboveIsOlder
  <2>2. age[z] \in Nat
    BY <1>1 DEF Tree, Ages
  <2>3. z \notin Above(z)
    BY <2>1, <2>2
  <2> QED BY <1>3, <2>3
<1> QED BY <1>1, <1>3, <1>5, <1>6 DEF Gone, Below

-----------------------------------------------------------------------------
(* A row with one file more in front.                                      *)
LEMMA InFront ==
    ASSUME NEW S, NEW s \in Seq(S), NEW f \in S
    PROVE  /\ <<f>> \o s \in Seq(S) /\ Len(<<f>> \o s) = Len(s) + 1 /\ Len(s) \in Nat
           /\ (<<f>> \o s)[1] = f
           /\ \A i \in 1 .. Len(s) : (<<f>> \o s)[i + 1] = s[i]
           /\ \A i \in 1 .. Len(<<f>> \o s) : i = 1 \/ i - 1 \in 1 .. Len(s)
OBVIOUS

Cutout(s, k) == SubSeq(s, 1, k - 1) \o SubSeq(s, k + 1, Len(s))

(* A row without its k-th file.                                            *)
LEMMA CutoutIs ==
    ASSUME NEW S, NEW s \in Seq(S), NEW k \in 1 .. Len(s)
    PROVE  /\ Cutout(s, k) \in Seq(S) /\ Len(Cutout(s, k)) = Len(s) - 1
           /\ \A i \in 1 .. Len(s) - 1 : Cutout(s, k)[i] = IF i < k THEN s[i] ELSE s[i + 1]
<1>1. PICK L \in Nat : L = Len(s)
  OBVIOUS
<1>2. PICK a \in Seq(S), b \in Seq(S) : a = SubSeq(s, 1, k - 1) /\ b = SubSeq(s, k + 1, L)
  <2>1. \A i \in 1 .. L : s[i] \in S
    BY <1>1
  <2>2. SubSeq(s, 1, k - 1) \in Seq(S)
    BY <1>1, <2>1, SubSeqProperties
  <2>3. SubSeq(s, k + 1, L) \in Seq(S)
    BY <1>1, <2>1, SubSeqProperties
  <2> QED BY <2>2, <2>3
<1>3. Len(a) = k - 1 /\ \A i \in 1 .. k - 1 : a[i] = s[i]
  BY <1>1, <1>2
<1>4. Len(b) = L - k /\ \A i \in 1 .. L - k : b[i] = s[i + k]
  BY <1>1, <1>2
<1>5. Len(a \o b) = L - 1 /\ a \o b \in Seq(S)
  BY <1>1, <1>3, <1>4
<1>6. ASSUME NEW i \in 1 .. L - 1 PROVE (a \o b)[i] = IF i < k THEN s[i] ELSE s[i + 1]
  <2>1. CASE i < k
    BY <1>1, <1>3, <1>4, <2>1
  <2>2. CASE ~(i < k)
    <3>1. PICK m \in 1 .. L - k : m = i - (k - 1) /\ m + k = i + 1
      BY <1>1, <2>2
    <3>2. (a \o b)[i] = b[m]
      BY <1>1, <1>3, <1>4, <2>2, <3>1
    <3> QED BY <1>4, <2>2, <3>1, <3>2
  <2> QED BY <2>1, <2>2
<1>7. Cutout(s, k) = a \o b
  BY <1>1, <1>2 DEF Cutout
<1> QED BY <1>1, <1>5, <1>6, <1>7
-----------------------------------------------------------------------------
(* File::add puts f in front of the row of d.                              *)
LEMMA AddTree ==
    ASSUME NEW rows, NEW age, NEW N, Tree(rows, age, N), NEW f \in File \ alive, NEW d \in alive,
           ROOT \in alive, NEW n, Add(f, n, d), link' = [g \in File |-> link'[g]]
    PROVE  \E more, older : /\ Tree(more, older, N + 1)'
                            /\ rows[f] = <<>>
                            /\ \A e \in File :
                                 more[e] = IF e = d THEN <<f>> \o rows[e] ELSE rows[e]
<1> DEFINE more == [e \in File |-> IF e = d THEN <<f>> \o rows[e] ELSE rows[e]]
           older == [e \in File |-> IF e = f THEN N + 1 ELSE age[e]]
<1>1. /\ d \in File /\ d # f /\ f # ROOT /\ alive \subseteq File
      /\ parent \in [File -> Ptr] /\ child \in [File -> Ptr]
      /\ next \in [File -> Ptr] /\ prev \in [File -> Ptr]
  BY DEF Tree, TypeInv
<1>2. /\ alive' = alive \cup {f}
      /\ name' = [name EXCEPT ![f] = checkName(n)]
      /\ parent' = [parent EXCEPT ![f] = d]
      /\ next' = [next EXCEPT ![f] = child[d]]
      /\ child' = [child EXCEPT ![f] = NULL, ![d] = f]
      /\ prev' = [prev EXCEPT ![f] = NULL,
                              ![IF child[d] = NULL THEN f ELSE child[d]] =
                                  IF child[d] = NULL THEN NULL ELSE f]
  BY DEF Add
<1>3. /\ \A e \in File : parent'[e] = IF e = f THEN d ELSE parent[e]
      /\ \A e \in File : next'[e] = IF e = f THEN child[d] ELSE next[e]
      /\ \A e \in File : child'[e] = IF e = f THEN NULL ELSE IF e = d THEN f ELSE child[e]
      /\ \A e \in File : prev'[e] = IF child[d] # NULL /\ e = child[d] THEN f
                                    ELSE IF e = f THEN NULL ELSE prev[e]
      /\ parent' \in [File -> Ptr] /\ next' \in [File -> Ptr]
      /\ child' \in [File -> Ptr] /\ prev' \in [File -> Ptr]
  <2>1. \A e \in File : parent'[e] = IF e = f THEN d ELSE parent[e]
    BY <1>1, <1>2
  <2>2. \A e \in File : next'[e] = IF e = f THEN child[d] ELSE next[e]
    BY <1>1, <1>2
  <2>3. \A e \in File : child'[e] = IF e = f THEN NULL ELSE IF e = d THEN f ELSE child[e]
    BY <1>1, <1>2
  <2>4. \A e \in File : prev'[e] = IF child[d] # NULL /\ e = child[d] THEN f
                                   ELSE IF e = f THEN NULL ELSE prev[e]
    BY <1>1, <1>2
  <2>5. f \in Ptr /\ d \in Ptr /\ NULL \in Ptr /\ child[d] \in Ptr
    BY <1>1 DEF Ptr
  <2>6. parent' \in [File -> Ptr] /\ next' \in [File -> Ptr] /\ child' \in [File -> Ptr]
    BY <1>1, <1>2, <2>5
  <2>7. prev' \in [File -> Ptr]
    BY <1>1, <1>2, <2>5
  <2> QED BY <2>1, <2>2, <2>3, <2>4, <2>6, <2>7
<1>4. \A e \in File : /\ rows[e] \in Seq(File)
                      /\ \A i, j \in 1 .. Len(rows[e]) : rows[e][i] = rows[e][j] => i = j
                      /\ child[e] = Nth(rows[e], 1)
                      /\ \A i \in 1 .. Len(rows[e]) : /\ rows[e][i] \in alive
                                                      /\ parent[rows[e][i]] = e
                                                      /\ next[rows[e][i]] = Nth(rows[e], i + 1)
                                                      /\ prev[rows[e][i]] = Nth(rows[e], i - 1)
  BY DEF Tree, Rows, Row
<1>5. parent[f] = NULL /\ child[f] = NULL /\ next[f] = NULL /\ prev[f] = NULL
  BY DEF Tree, LoneInv
<1>6. rows[f] = <<>>
  <2>1. Len(rows[f]) \in Nat
    BY <1>4
  <2>2. CASE Len(rows[f]) = 0
    BY <1>4, <2>2
  <2>3. CASE Len(rows[f]) > 0
    <3>1. 1 \in 1 .. Len(rows[f])
      BY <2>1, <2>3
    <3>2. child[f] \in File
      BY <1>1, <1>4, <3>1 DEF Nth
    <3> QED BY <1>5, <3>2, NullIsNoFile
  <2> QED BY <2>1, <2>2, <2>3
<1>7. ASSUME NEW e \in File, e # d PROVE Row(e, rows[e])'
  <2>1. child'[e] = Nth(rows[e], 1)
    BY <1>3, <1>4, <1>5, <1>7
  <2>2. ASSUME NEW i \in 1 .. Len(rows[e])
        PROVE  /\ rows[e][i] \in alive' /\ parent'[rows[e][i]] = e
               /\ next'[rows[e][i]] = Nth(rows[e], i + 1)
               /\ prev'[rows[e][i]] = Nth(rows[e], i - 1)
    <3>1. PICK g \in alive : g = rows[e][i] /\ parent[g] = e
      BY <1>4
    <3>2. g # f /\ g \in File
      BY <1>1
    <3>3. g = child[d] /\ child[d] # NULL => parent[g] = d
      <4>1. SUFFICES ASSUME g = child[d], child[d] # NULL PROVE parent[g] = d
        OBVIOUS
      <4>2. 1 \in 1 .. Len(rows[d]) /\ child[d] = rows[d][1]
        BY <1>1, <1>4, <4>1 DEF Nth
      <4> QED BY <1>1, <1>4, <4>1, <4>2
    <3>4. prev'[g] = prev[g] /\ next'[g] = next[g] /\ parent'[g] = e /\ g \in alive'
      BY <1>2, <1>3, <1>7, <3>1, <3>2, <3>3
    <3> QED BY <1>4, <3>1, <3>4
  <2> QED BY <1>4, <2>1, <2>2 DEF Row, Nth
<1>8. Row(d, <<f>> \o rows[d])'
  <2>1. PICK s, t : s = rows[d] /\ t = <<f>> \o s
    OBVIOUS
  <2>2. /\ s \in Seq(File) /\ \A i, j \in 1 .. Len(s) : s[i] = s[j] => i = j
        /\ child[d] = Nth(s, 1)
        /\ \A i \in 1 .. Len(s) : /\ s[i] \in alive /\ parent[s[i]] = d
                                  /\ next[s[i]] = Nth(s, i + 1) /\ prev[s[i]] = Nth(s, i - 1)
    BY <1>1, <1>4, <2>1
  <2>3. /\ t \in Seq(File) /\ Len(t) = Len(s) + 1 /\ Len(s) \in Nat /\ t[1] = f
        /\ \A i \in 1 .. Len(s) : t[i + 1] = s[i]
        /\ \A i \in 1 .. Len(t) : i = 1 \/ i - 1 \in 1 .. Len(s)
    BY <2>1, <2>2, InFront
  <2>4. \A i \in 1 .. Len(t) : i = 1 \/ t[i] = s[i - 1]
    BY <2>3
  <2>9. \A i \in 1 .. Len(t) : i # 1 => t[i] # f
    BY <2>2, <2>3, <2>4
  <2>5. \A i, j \in 1 .. Len(t) : t[i] = t[j] => i = j
    <3> SUFFICES ASSUME NEW i \in 1 .. Len(t), NEW j \in 1 .. Len(t), t[i] = t[j] PROVE i = j
      OBVIOUS
    <3>1. CASE i = 1 \/ j = 1
      BY <2>3, <2>9, <3>1
    <3>2. CASE i # 1 /\ j # 1
      <4>1. i - 1 \in 1 .. Len(s) /\ j - 1 \in 1 .. Len(s) /\ s[i - 1] = s[j - 1]
        BY <2>3, <2>4, <3>2
      <4>2. i - 1 = j - 1
        BY <2>2, <4>1
      <4> QED BY <4>2
    <3> QED BY <3>1, <3>2
  <2>6. child'[d] = Nth(t, 1)
    BY <1>1, <1>3, <2>3 DEF Nth
  <2>7. ASSUME NEW i \in 1 .. Len(t)
        PROVE  /\ t[i] \in alive' /\ parent'[t[i]] = d
               /\ next'[t[i]] = Nth(t, i + 1) /\ prev'[t[i]] = Nth(t, i - 1)
    <3>1. CASE i = 1
      <4>1. t[i] = f /\ f \in alive' /\ parent'[f] = d /\ next'[f] = child[d]
        BY <1>2, <1>3, <2>3, <3>1
      <4>2. Nth(t, i + 1) = child[d]
        <5>1. CASE Len(s) = 0
          BY <2>2, <2>3, <3>1, <5>1 DEF Nth
        <5>2. CASE Len(s) > 0
          <6>1. 1 \in 1 .. Len(s) /\ 2 \in 1 .. Len(t) /\ 1 + 1 = 2
            BY <2>3, <5>2
          <6>2. t[2] = s[1]
            BY <2>3, <6>1
          <6> QED BY <2>2, <3>1, <6>1, <6>2 DEF Nth
        <5> QED BY <2>3, <5>1, <5>2
      <4>3. prev'[f] = NULL
        <5>1. child[d] # f
          <6>1. CASE Len(s) = 0
            BY <2>2, <6>1, NullIsNoFile DEF Nth
          <6>2. CASE Len(s) > 0
            <7>1. 1 \in 1 .. Len(s)
              BY <2>3, <6>2
            <7> QED BY <2>2, <7>1 DEF Nth
          <6> QED BY <2>3, <6>1, <6>2
        <5> QED BY <1>3, <5>1
      <4>4. Nth(t, i - 1) = NULL
        BY <3>1 DEF Nth
      <4> QED BY <4>1, <4>2, <4>3, <4>4
    <3>2. CASE i # 1
      <4>1. PICK j \in 1 .. Len(s) : j = i - 1 /\ i = j + 1
        BY <2>3, <3>2
      <4>2. PICK g \in alive : g = s[j] /\ t[i] = g /\ g # f /\ g \in File
        BY <1>1, <2>2, <2>3, <4>1
      <4>3. parent'[g] = d /\ g \in alive'
        BY <1>2, <1>3, <2>2, <4>2
      <4>4. next'[g] = Nth(s, j + 1) /\ Nth(t, i + 1) = Nth(s, j + 1)
        <5>1. CASE j + 1 \in 1 .. Len(s)
          <6>1. i + 1 \in 1 .. Len(t) /\ t[i + 1] = s[j + 1]
            <7>1. t[(j + 1) + 1] = s[j + 1]
              BY <2>3, <5>1
            <7>2. i + 1 \in 1 .. Len(t) /\ i + 1 = (j + 1) + 1
              BY <2>3, <4>1, <5>1
            <7> QED BY <7>1, <7>2
          <6> QED BY <1>3, <2>2, <4>2, <5>1, <6>1 DEF Nth
        <5>2. CASE ~(j + 1 \in 1 .. Len(s))
          <6>1. ~(i + 1 \in 1 .. Len(t))
            BY <2>3, <4>1, <5>2
          <6> QED BY <1>3, <2>2, <4>2, <5>2, <6>1 DEF Nth
        <5> QED BY <5>1, <5>2
      <4>5. prev'[g] = Nth(t, i - 1)
        <5>1. CASE j = 1
          <6>1. child[d] = g /\ child[d] # NULL
            BY <2>2, <4>2, <5>1, NullIsNoFile DEF Nth
          <6>2. prev'[g] = f
            BY <1>3, <4>2, <6>1
          <6>3. i - 1 = 1 /\ 1 \in 1 .. Len(t)
            BY <2>3, <4>1, <5>1
          <6> QED BY <2>3, <6>2, <6>3 DEF Nth
        <5>2. CASE j # 1
          <6>1. 1 \in 1 .. Len(s) /\ j - 1 \in 1 .. Len(s) /\ i - 1 \in 1 .. Len(t)
                /\ (j - 1) + 1 = i - 1
            BY <2>3, <4>1, <5>2
          <6>2. child[d] = s[1] /\ s[1] # s[j]
            BY <2>2, <5>2, <6>1 DEF Nth
          <6>3. prev'[g] = prev[g]
            BY <1>3, <4>2, <6>2
          <6>4. prev[g] = s[j - 1] /\ t[i - 1] = s[j - 1]
            BY <2>2, <2>3, <4>2, <6>1 DEF Nth
          <6> QED BY <6>1, <6>3, <6>4 DEF Nth
        <5> QED BY <5>1, <5>2
      <4> QED BY <4>2, <4>3, <4>4, <4>5
    <3> QED BY <3>1, <3>2
  <2>8. Row(d, t)'
    BY <2>3, <2>5, <2>6, <2>7 DEF Row, Nth
  <2> QED BY <2>1, <2>8
<1>9. TypeInv'
  <2>1. name' = [g \in File |-> name'[g]]
    BY <1>2 DEF Tree, TypeInv
  <2> QED BY <1>1, <1>2, <1>3, <2>1 DEF TypeInv
<1>10. LoneInv'
  <2>1. ASSUME NEW g \in File \ alive'
        PROVE  parent'[g] = NULL /\ child'[g] = NULL /\ next'[g] = NULL /\ prev'[g] = NULL
    <3>1. g # f /\ g # d /\ g \notin alive
      BY <1>2, <2>1
    <3>2. ~(child[d] # NULL /\ g = child[d])
      BY <1>1, <1>4, <3>1 DEF Nth
    <3> QED BY <1>3, <3>1, <3>2 DEF Tree, LoneInv
  <2>2. parent'[ROOT] = NULL /\ next'[ROOT] = NULL /\ prev'[ROOT] = NULL
    <3>1. parent[ROOT] = NULL /\ next[ROOT] = NULL /\ prev[ROOT] = NULL
      BY DEF Tree, LoneInv
    <3>2. ~(child[d] # NULL /\ ROOT = child[d])
      <4> SUFFICES ASSUME child[d] # NULL, ROOT = child[d] PROVE FALSE
        OBVIOUS
      <4>1. 1 \in 1 .. Len(rows[d]) /\ child[d] = rows[d][1]
        BY <1>1, <1>4 DEF Nth
      <4>2. parent[ROOT] = d
        BY <1>1, <1>4, <4>1
      <4> QED BY <1>1, <3>1, <4>2, NullIsNoFile
    <3> QED BY <1>1, <1>3, <3>1, <3>2, NullIsNoFile
  <2> QED BY <2>1, <2>2 DEF LoneInv
<1>11. Rows(more)'
  <2>1. \A e \in File : more[e] = IF e = d THEN <<f>> \o rows[e] ELSE rows[e]
    OBVIOUS
  <2> HIDE DEF more
  <2>2. ASSUME NEW e \in File PROVE Row(e, more[e])'
    BY <1>7, <1>8, <2>1
  <2>3. ASSUME NEW g \in alive' \ {ROOT}
        PROVE  /\ parent'[g] \in alive'
               /\ \E i \in 1 .. Len(more[parent'[g]]) : more[parent'[g]][i] = g
    <3>1. /\ Len(more[d]) = Len(rows[d]) + 1 /\ Len(rows[d]) \in Nat /\ more[d][1] = f
          /\ \A i \in 1 .. Len(rows[d]) : more[d][i + 1] = rows[d][i]
      <4>1. more[d] = <<f>> \o rows[d] /\ rows[d] \in Seq(File) /\ f \in File
        BY <1>1, <1>4, <2>1
      <4> QED BY <4>1, InFront
    <3>2. CASE g = f
      <4>1. parent'[g] = d /\ d \in alive'
        BY <1>2, <1>3, <3>2
      <4>2. 1 \in 1 .. Len(more[d]) /\ more[d][1] = f
        BY <1>1, <2>1, <3>1
      <4> QED BY <3>2, <4>1, <4>2
    <3>3. CASE g # f
      <4>1. g \in alive \ {ROOT} /\ g \in File
        BY <1>1, <1>2, <3>3
      <4>2. PICK e \in alive : e = parent[g] /\ e = parent'[g] /\ e \in File /\ e \in alive'
        BY <1>1, <1>2, <1>3, <3>3, <4>1 DEF Tree, Rows
      <4>3. PICK i \in 1 .. Len(rows[e]) : rows[e][i] = g
        BY <4>1, <4>2 DEF Tree, Rows
      <4>4. CASE e = d
        <5>1. i + 1 \in 1 .. Len(more[e]) /\ more[e][i + 1] = g
          BY <2>1, <3>1, <4>2, <4>3, <4>4
        <5> QED BY <4>2, <5>1
      <4>5. CASE e # d
        BY <2>1, <4>2, <4>3, <4>5
      <4> QED BY <4>4, <4>5
    <3> QED BY <3>2, <3>3
  <2> QED BY <2>2, <2>3 DEF Rows
<1>12. Ages(older, N + 1)'
  <2>1. /\ N \in Nat /\ age \in [File -> 0 .. N]
        /\ \A g \in File : /\ parent[g] # NULL => age[parent[g]] < age[g]
                           /\ next[g] # NULL => age[next[g]] < age[g]
    BY DEF Tree, Ages
  <2>2. /\ \A g \in File : older[g] = IF g = f THEN N + 1 ELSE age[g]
        /\ \A g \in File : age[g] \in Nat /\ age[g] <= N
    BY <2>1
  <2>3. older \in [File -> 0 .. N + 1] /\ N + 1 \in Nat
    BY <2>1, <2>2
  <2> HIDE DEF older
  <2>4. ASSUME NEW g \in File PROVE parent[g] # f /\ next[g] # f
    <3>1. CASE g \notin alive \/ g = ROOT
      BY <3>1, NullIsNoFile DEF Tree, LoneInv
    <3>2. CASE g \in alive \ {ROOT}
      <4>1. PICK e \in alive, i \in 1 .. Len(rows[parent[g]]) : e = parent[g] /\ rows[e][i] = g
        BY <3>2 DEF Tree, Rows
      <4>2. e \in File /\ next[g] = Nth(rows[e], i + 1)
        BY <1>1, <1>4, <4>1
      <4>3. next[g] # f
        BY <1>4, <4>2, NullIsNoFile DEF Nth
      <4> QED BY <4>1, <4>3
    <3> QED BY <3>1, <3>2
  <2>5. child[d] = NULL \/ child[d] \in File \ {f}
    BY <1>1, <1>4 DEF Nth
  <2>6. ASSUME NEW g \in File
        PROVE  /\ parent'[g] # NULL => older[parent'[g]] < older[g]
               /\ next'[g] # NULL => older[next'[g]] < older[g]
    <3>1. CASE g = f
      <4>1. parent'[g] = d /\ next'[g] = child[d] /\ older[g] = N + 1
        BY <1>3, <2>2, <3>1
      <4>2. older[d] = age[d] /\ age[d] < N + 1
        BY <1>1, <2>1, <2>2
      <4>3. child[d] # NULL => older[child[d]] = age[child[d]] /\ age[child[d]] < N + 1
        BY <2>1, <2>2, <2>5
      <4> QED BY <4>1, <4>2, <4>3
    <3>2. CASE g # f
      <4>1. parent'[g] = parent[g] /\ next'[g] = next[g] /\ older[g] = age[g]
        BY <1>3, <2>2, <3>2
      <4>2. parent[g] # NULL => parent[g] \in File /\ older[parent[g]] = age[parent[g]]
        BY <1>1, <2>2, <2>4 DEF Ptr
      <4>3. next[g] # NULL => next[g] \in File /\ older[next[g]] = age[next[g]]
        BY <1>1, <2>2, <2>4 DEF Ptr
      <4> QED BY <2>1, <4>1, <4>2, <4>3
    <3> QED BY <3>1, <3>2
  <2> QED BY <2>3, <2>6 DEF Ages
<1>13. Tree(more, older, N + 1)'
  BY <1>9, <1>10, <1>11, <1>12 DEF Tree
<1>14. \A e \in File : more[e] = IF e = d THEN <<f>> \o rows[e] ELSE rows[e]
  OBVIOUS
<1> HIDE DEF more, older
<1> QED BY <1>6, <1>13, <1>14
(* z is the k-th of the row s, which d's children are.                     *)
Slot(z, rows, d, s, k) ==
    /\ d \in alive /\ s \in Seq(File) /\ k \in 1 .. Len(s)
    /\ d = parent[z] /\ s = rows[d] /\ s[k] = z /\ d \in File
    /\ \A i, j \in 1 .. Len(s) : s[i] = s[j] => i = j
    /\ child[d] = Nth(s, 1)
    /\ \A i \in 1 .. Len(s) : /\ s[i] \in alive /\ parent[s[i]] = d
                              /\ next[s[i]] = Nth(s, i + 1) /\ prev[s[i]] = Nth(s, i - 1)

(* The destructor of z: its row closes over it, and what is below it goes. *)
LEMMA UnlinkTree ==
    ASSUME NEW rows, NEW age, NEW N, Tree(rows, age, N), NEW z \in alive \ {ROOT}, ROOT \in alive,
           Unlink(z)
    PROVE  \E fewer : /\ Tree(fewer, age, N)'
                      /\ \E k \in 1 .. Len(rows[parent[z]]) :
                           /\ rows[parent[z]][k] = z
                           /\ \A e \in File :
                                fewer[e] = IF e \in Gone(z) THEN <<>>
                                           ELSE IF e = parent[z] THEN Cutout(rows[e], k)
                                           ELSE rows[e]
<1>1. /\ z \in File /\ alive \subseteq File
      /\ parent \in [File -> Ptr] /\ child \in [File -> Ptr]
      /\ next \in [File -> Ptr] /\ prev \in [File -> Ptr]
  BY DEF Tree, TypeInv
<1>10. PICK d, s, k : Slot(z, rows, d, s, k)
  <2>1. PICK d \in alive : d = parent[z] /\ d \in File
    BY <1>1 DEF Tree, Rows
  <2>2. PICK k \in 1 .. Len(rows[d]) : rows[d][k] = z
    BY <2>1 DEF Tree, Rows
  <2>3. /\ rows[d] \in Seq(File)
        /\ \A i, j \in 1 .. Len(rows[d]) : rows[d][i] = rows[d][j] => i = j
        /\ child[d] = Nth(rows[d], 1)
        /\ \A i \in 1 .. Len(rows[d]) : /\ rows[d][i] \in alive /\ parent[rows[d][i]] = d
                                        /\ next[rows[d][i]] = Nth(rows[d], i + 1)
                                        /\ prev[rows[d][i]] = Nth(rows[d], i - 1)
    BY <2>1 DEF Tree, Rows, Row
  <2>4. PICK s : s = rows[d]
    OBVIOUS
  <2>5. Slot(z, rows, d, s, k)
    BY <2>1, <2>2, <2>3, <2>4 DEF Slot
  <2> QED BY <2>5
<1>2. /\ d \in alive /\ s \in Seq(File) /\ k \in 1 .. Len(s)
      /\ d = parent[z] /\ s = rows[d] /\ s[k] = z /\ d \in File
      /\ \A i, j \in 1 .. Len(s) : s[i] = s[j] => i = j
      /\ child[d] = Nth(s, 1)
      /\ \A i \in 1 .. Len(s) : /\ s[i] \in alive /\ parent[s[i]] = d
                                /\ next[s[i]] = Nth(s, i + 1) /\ prev[s[i]] = Nth(s, i - 1)
  BY <1>10 DEF Slot
<1>20. PICK gone : gone = Gone(z)
  OBVIOUS
<1>3. /\ gone \subseteq alive /\ z \in gone /\ ROOT \notin gone /\ d \notin gone
      /\ \A g \in alive \ {ROOT} : g \in gone <=> g = z \/ parent[g] \in gone
  BY <1>2, <1>20, GoneIs
<1>4. /\ alive' = alive \ gone
      /\ \A g \in File : parent'[g] = IF g \in gone THEN NULL ELSE parent[g]
      /\ \A g \in File : child'[g] = IF g \in gone THEN NULL
                                     ELSE IF prev[z] = NULL /\ g = d THEN next[z] ELSE child[g]
      /\ \A g \in File : next'[g] = IF g \in gone THEN NULL
                                    ELSE IF prev[z] # NULL /\ g = prev[z] THEN next[z] ELSE next[g]
      /\ \A g \in File : prev'[g] = IF g \in gone THEN NULL
                                    ELSE IF next[z] # NULL /\ g = next[z] THEN prev[z] ELSE prev[g]
      /\ parent' = [g \in File |-> parent'[g]] /\ child' = [g \in File |-> child'[g]]
      /\ next' = [g \in File |-> next'[g]] /\ prev' = [g \in File |-> prev'[g]]
      /\ name' = [g \in File |-> name'[g]] /\ link' = [g \in File |-> link'[g]]
  <2>1. /\ alive' = alive \ gone
        /\ name' = [g \in File |-> IF g \in gone THEN JUNK ELSE name[g]]
        /\ child' = [g \in File |-> IF g \in gone THEN NULL ELSE
                       (IF prev[z] = NULL THEN [child EXCEPT ![parent[z]] = next[z]]
                                          ELSE child)[g]]
        /\ next' = [g \in File |-> IF g \in gone THEN NULL ELSE
                       (IF prev[z] = NULL THEN next
                                          ELSE [next EXCEPT ![prev[z]] = next[z]])[g]]
        /\ prev' = [g \in File |-> IF g \in gone THEN NULL ELSE
                       (IF next[z] = NULL THEN prev
                                          ELSE [prev EXCEPT ![next[z]] = prev[z]])[g]]
        /\ parent' = [g \in File |-> IF g \in gone THEN NULL ELSE parent[g]]
        /\ link' = [g \in File |-> IF g \in gone THEN NULL ELSE link[g]]
    BY <1>20 DEF Unlink, Gone
  <2>2. \A g \in File : child'[g] = IF g \in gone THEN NULL
                                    ELSE IF prev[z] = NULL /\ g = d THEN next[z] ELSE child[g]
    BY <1>1, <1>2, <2>1
  <2>3. \A g \in File : next'[g] = IF g \in gone THEN NULL
                                   ELSE IF prev[z] # NULL /\ g = prev[z] THEN next[z] ELSE next[g]
    BY <1>1, <2>1
  <2>4. \A g \in File : prev'[g] = IF g \in gone THEN NULL
                                   ELSE IF next[z] # NULL /\ g = next[z] THEN prev[z] ELSE prev[g]
    BY <1>1, <2>1
  <2>5. /\ parent' = [g \in File |-> parent'[g]]
        /\ name' = [g \in File |-> name'[g]] /\ link' = [g \in File |-> link'[g]]
    BY <2>1
  <2>6. child' = [g \in File |-> child'[g]]
    BY <2>1
  <2>7. next' = [g \in File |-> next'[g]]
    BY <2>1
  <2>8. prev' = [g \in File |-> prev'[g]]
    BY <2>1
  <2> QED BY <2>1, <2>2, <2>3, <2>4, <2>5, <2>6, <2>7, <2>8
<1>5. /\ next[z] = Nth(s, k + 1) /\ prev[z] = Nth(s, k - 1)
      /\ k \in Nat /\ k \in 1 .. Len(s) /\ Len(s) \in Nat
  <2>1. k \in 1 .. Len(s) /\ s \in Seq(File) /\ s[k] = z
    BY <1>2
  <2>2. next[s[k]] = Nth(s, k + 1) /\ prev[s[k]] = Nth(s, k - 1)
    BY <1>2, <2>1
  <2> QED BY <2>1, <2>2
<1>6. \A i \in 1 .. Len(s) : s[i] \in alive /\ s[i] # NULL /\ s[i] \in File /\ s[i] # ROOT
                             /\ (s[i] \in gone <=> i = k)
  <2> SUFFICES ASSUME NEW i \in 1 .. Len(s)
               PROVE  /\ s[i] \in alive /\ s[i] # NULL /\ s[i] \in File /\ s[i] # ROOT
                      /\ s[i] \in gone <=> i = k
    OBVIOUS
  <2>1. s[i] \in alive /\ s[i] \in File /\ s[i] # NULL /\ parent[s[i]] = d /\ d # NULL
    BY <1>1, <1>2, NullIsNoFile
  <2>2. parent[ROOT] = NULL
    BY DEF Tree, LoneInv
  <2>3. s[i] # ROOT
    BY <2>1, <2>2
  <2>4. s[i] \in gone <=> s[i] = z
    BY <1>3, <2>1, <2>3
  <2> QED BY <1>2, <2>1, <2>3, <2>4
<1>21. \A a, b \in 1 .. Len(s) : s[a] = s[b] => a = b
  BY <1>2, Zenon
<1> DEFINE c == Cutout(s, k)
<1>7. /\ c \in Seq(File) /\ Len(c) = Len(s) - 1
      /\ \A i \in 1 .. Len(c) : c[i] = IF i < k THEN s[i] ELSE s[i + 1]
  <2>1. s \in Seq(File) /\ k \in 1 .. Len(s)
    BY <1>2
  <2>2. /\ Cutout(s, k) \in Seq(File) /\ Len(Cutout(s, k)) = Len(s) - 1
        /\ \A i \in 1 .. Len(s) - 1 : Cutout(s, k)[i] = IF i < k THEN s[i] ELSE s[i + 1]
    BY <2>1, CutoutIs
  <2> QED BY <2>2, Zenon
<1> HIDE DEF c
<1>8. Row(d, c)'
  <2>1. \A i \in 1 .. Len(c) : \E m \in 1 .. Len(s) :
           c[i] = s[m] /\ m # k /\ m = IF i < k THEN i ELSE i + 1
    BY <1>5, <1>7
  <2>2. \A i, j \in 1 .. Len(c) : c[i] = c[j] => i = j
    <3> SUFFICES ASSUME NEW i \in 1 .. Len(c), NEW j \in 1 .. Len(c), c[i] = c[j] PROVE i = j
      OBVIOUS
    <3>1. PICK m \in 1 .. Len(s) : c[i] = s[m] /\ m = IF i < k THEN i ELSE i + 1
      BY <2>1
    <3>2. PICK n \in 1 .. Len(s) : c[j] = s[n] /\ n = IF j < k THEN j ELSE j + 1
      BY <2>1
    <3>3. m \in 1 .. Len(s) /\ n \in 1 .. Len(s) /\ s[m] = s[n]
      BY <3>1, <3>2
    <3>4. m = n
      BY <1>2, <3>3
    <3> QED BY <1>5, <3>1, <3>2, <3>4
  <2>3. child'[d] = Nth(c, 1)
    <3>1. CASE k = 1
      <4>1. prev[z] = NULL /\ child'[d] = Nth(s, 2)
        BY <1>2, <1>3, <1>4, <1>5, <3>1 DEF Nth
      <4>2. Nth(c, 1) = Nth(s, 2)
        BY <1>5, <1>7, <3>1 DEF Nth
      <4> QED BY <4>1, <4>2
    <3>2. CASE k # 1
      <4>1. 1 \in 1 .. Len(c) /\ 1 \in 1 .. Len(s) /\ k - 1 \in 1 .. Len(s) /\ 1 < k
        BY <1>5, <1>7, <3>2
      <4>2. prev[z] # NULL
        BY <1>5, <1>6, <4>1 DEF Nth
      <4>3. child'[d] = s[1] /\ c[1] = s[1]
        BY <1>2, <1>3, <1>4, <1>7, <4>1, <4>2 DEF Nth
      <4> QED BY <4>1, <4>3 DEF Nth
    <3> QED BY <3>1, <3>2
  <2>4. ASSUME NEW i \in 1 .. Len(c)
        PROVE  /\ c[i] \in alive' /\ parent'[c[i]] = d
               /\ next'[c[i]] = Nth(c, i + 1) /\ prev'[c[i]] = Nth(c, i - 1)
    <3>1. PICK m \in 1 .. Len(s) : c[i] = s[m] /\ m # k /\ m = IF i < k THEN i ELSE i + 1
      BY <2>1
    <3>2. s[m] \in alive /\ s[m] \in File /\ s[m] \notin gone /\ parent[s[m]] = d
          /\ next[s[m]] = Nth(s, m + 1) /\ prev[s[m]] = Nth(s, m - 1)
      BY <1>2, <1>6, <3>1
    <3>3. c[i] \in alive' /\ parent'[c[i]] = d
      BY <1>4, <3>1, <3>2
    <3>4. next'[s[m]] = IF m + 1 = k THEN Nth(s, k + 1) ELSE Nth(s, m + 1)
      <4>1. CASE m + 1 = k
        <5>1. prev[z] = s[m] /\ prev[z] # NULL
          <6>1. k - 1 = m
            BY <1>5, <4>1
          <6> QED BY <1>5, <1>6, <6>1 DEF Nth
        <5> QED BY <1>4, <1>5, <3>2, <4>1, <5>1
      <4>2. CASE m + 1 # k
        <5>1. ~(prev[z] # NULL /\ s[m] = prev[z])
          <6>1. CASE k - 1 \in 1 .. Len(s)
            <7>1. prev[z] = s[k - 1] /\ k - 1 # m
              BY <1>5, <4>2, <6>1 DEF Nth
            <7> QED BY <1>21, <6>1, <7>1, Zenon
          <6>2. CASE ~(k - 1 \in 1 .. Len(s))
            BY <1>5, <6>2 DEF Nth
          <6> QED BY <6>1, <6>2
        <5> QED BY <1>4, <3>2, <4>2, <5>1
      <4> QED BY <4>1, <4>2
    <3>5. prev'[s[m]] = IF m - 1 = k THEN Nth(s, k - 1) ELSE Nth(s, m - 1)
      <4>1. CASE m - 1 = k
        <5>1. next[z] = s[m] /\ next[z] # NULL
          <6>1. k + 1 = m
            BY <1>5, <4>1
          <6> QED BY <1>5, <1>6, <6>1 DEF Nth
        <5> QED BY <1>4, <1>5, <3>2, <4>1, <5>1
      <4>2. CASE m - 1 # k
        <5>1. ~(next[z] # NULL /\ s[m] = next[z])
          <6>1. CASE k + 1 \in 1 .. Len(s)
            <7>1. next[z] = s[k + 1] /\ k + 1 # m
              BY <1>5, <4>2, <6>1 DEF Nth
            <7> QED BY <1>21, <6>1, <7>1, Zenon
          <6>2. CASE ~(k + 1 \in 1 .. Len(s))
            BY <1>5, <6>2 DEF Nth
          <6> QED BY <6>1, <6>2
        <5> QED BY <1>4, <3>2, <4>2, <5>1
      <4> QED BY <4>1, <4>2
    <3>6. Nth(c, i + 1) = IF m + 1 = k THEN Nth(s, k + 1) ELSE Nth(s, m + 1)
      BY <1>5, <1>7, <3>1 DEF Nth
    <3>7. Nth(c, i - 1) = IF m - 1 = k THEN Nth(s, k - 1) ELSE Nth(s, m - 1)
      BY <1>5, <1>7, <3>1 DEF Nth
    <3> QED BY <3>1, <3>3, <3>4, <3>5, <3>6, <3>7
  <2> QED BY <1>7, <2>2, <2>3, <2>4 DEF Row, Nth
<1> DEFINE fewer == [e \in File |-> IF e \in gone THEN <<>> ELSE IF e = d THEN c ELSE rows[e]]
<1>9. \A e \in File : fewer[e] = IF e \in gone THEN <<>> ELSE IF e = d THEN c ELSE rows[e]
  OBVIOUS
<1> HIDE DEF fewer
<1>11. ASSUME NEW e \in gone PROVE Row(e, <<>>)'
  <2>1. child'[e] = NULL
    BY <1>1, <1>3, <1>4
  <2> QED BY <2>1 DEF Row, Nth
<1>12. ASSUME NEW e \in File, e \notin gone, e # d PROVE Row(e, rows[e])'
  <2>1. PICK t : t = rows[e]
    OBVIOUS
  <2>2. /\ t \in Seq(File) /\ \A i, j \in 1 .. Len(t) : t[i] = t[j] => i = j
        /\ child[e] = Nth(t, 1)
        /\ \A i \in 1 .. Len(t) : /\ t[i] \in alive /\ parent[t[i]] = e
                                  /\ next[t[i]] = Nth(t, i + 1) /\ prev[t[i]] = Nth(t, i - 1)
    BY <2>1 DEF Tree, Rows, Row
  <2>3. child'[e] = Nth(t, 1)
    BY <1>4, <1>12, <2>2
  <2>4. ASSUME NEW i \in 1 .. Len(t)
        PROVE  /\ t[i] \in alive' /\ parent'[t[i]] = e
               /\ next'[t[i]] = Nth(t, i + 1) /\ prev'[t[i]] = Nth(t, i - 1)
    <3>1. PICK g : g = t[i]
      OBVIOUS
    <3>2. g \in alive /\ g \in File /\ parent[g] = e /\ g # ROOT
      <4>1. parent[ROOT] = NULL /\ e # NULL
        BY NullIsNoFile DEF Tree, LoneInv
      <4> QED BY <1>1, <2>2, <3>1, <4>1
    <3>3. g \notin gone
      BY <1>2, <1>3, <1>12, <3>2
    <3>4. ~(prev[z] # NULL /\ g = prev[z]) /\ ~(next[z] # NULL /\ g = next[z])
      <4>1. \A n : Nth(s, n) # NULL => parent[Nth(s, n)] = d
        BY <1>2 DEF Nth
      <4> QED BY <1>5, <1>12, <3>2, <4>1
    <3> QED BY <1>4, <2>2, <3>1, <3>2, <3>3, <3>4
  <2>5. Row(e, t)'
    BY <2>2, <2>3, <2>4 DEF Row, Nth
  <2> QED BY <2>1, <2>5
<1>13. Rows(fewer)'
  <2>1. ASSUME NEW e \in File PROVE Row(e, fewer[e])'
    <3>1. CASE e \in gone
      BY <1>9, <1>11, <3>1
    <3>2. CASE e = d
      BY <1>2, <1>3, <1>8, <1>9, <3>2
    <3>3. CASE e \notin gone /\ e # d
      BY <1>9, <1>12, <3>3
    <3> QED BY <3>1, <3>2, <3>3
  <2>2. ASSUME NEW g \in alive' \ {ROOT}
        PROVE  /\ parent'[g] \in alive'
               /\ \E i \in 1 .. Len(fewer[parent'[g]]) : fewer[parent'[g]][i] = g
    <3>1. g \in alive \ {ROOT} /\ g \in File /\ g \notin gone
      BY <1>1, <1>4
    <3>2. PICK e \in alive : e = parent[g] /\ e = parent'[g] /\ e \in File
      BY <1>1, <1>4, <3>1 DEF Tree, Rows
    <3>3. PICK i \in 1 .. Len(rows[e]) : rows[e][i] = g
      BY <3>1, <3>2 DEF Tree, Rows
    <3>4. e \notin gone /\ g # z /\ e \in alive'
      BY <1>3, <1>4, <3>1, <3>2
    <3>5. CASE e = d
      <4>1. i \in 1 .. Len(s) /\ s[i] = g /\ i # k
        BY <1>2, <3>3, <3>4, <3>5
      <4>2. fewer[e] = c
        BY <1>9, <3>2, <3>4, <3>5
      <4>3. CASE i < k
        <5>1. i \in 1 .. Len(c) /\ c[i] = g
          BY <1>5, <1>7, <4>1, <4>3
        <5> QED BY <3>2, <3>4, <4>2, <5>1
      <4>4. CASE i > k
        <5>1. i - 1 \in 1 .. Len(c) /\ ~(i - 1 < k) /\ (i - 1) + 1 = i
          BY <1>5, <1>7, <4>1, <4>4
        <5>2. c[i - 1] = g
          BY <1>7, <4>1, <5>1
        <5> QED BY <3>2, <3>4, <4>2, <5>1, <5>2
      <4> QED BY <1>5, <4>1, <4>3, <4>4
    <3>6. CASE e # d
      <4>1. fewer[e] = rows[e]
        BY <1>9, <3>2, <3>4, <3>6
      <4> QED BY <3>2, <3>3, <3>4, <4>1
    <3> QED BY <3>5, <3>6
  <2> QED BY <2>1, <2>2 DEF Rows
<1>14. next[z] \in Ptr /\ prev[z] \in Ptr /\ NULL \in Ptr
  BY <1>1 DEF Ptr
<1>15. TypeInv'
  <2>1. /\ parent' \in [File -> Ptr] /\ child' \in [File -> Ptr]
        /\ next' \in [File -> Ptr] /\ prev' \in [File -> Ptr]
    <3>1. \A g \in File : parent'[g] \in Ptr
      BY <1>1, <1>4, <1>14
    <3>2. \A g \in File : child'[g] \in Ptr
      BY <1>1, <1>4, <1>14
    <3>3. \A g \in File : next'[g] \in Ptr
      BY <1>1, <1>4, <1>14
    <3>4. \A g \in File : prev'[g] \in Ptr
      BY <1>1, <1>4, <1>14
    <3> QED BY <1>4, <3>1, <3>2, <3>3, <3>4
  <2> QED BY <1>1, <1>4, <2>1 DEF TypeInv
<1>16. LoneInv'
  <2>1. ASSUME NEW g \in File \ alive'
        PROVE  parent'[g] = NULL /\ child'[g] = NULL /\ next'[g] = NULL /\ prev'[g] = NULL
    <3>1. CASE g \in gone
      BY <1>4, <3>1
    <3>2. CASE g \notin gone
      <4>1. g \notin alive /\ g # d
        BY <1>2, <1>4, <3>2
      <4>2. ~(prev[z] # NULL /\ g = prev[z]) /\ ~(next[z] # NULL /\ g = next[z])
        BY <1>2, <1>5, <4>1 DEF Nth
      <4> QED BY <1>4, <3>2, <4>1, <4>2 DEF Tree, LoneInv
    <3> QED BY <3>1, <3>2
  <2>2. parent'[ROOT] = NULL /\ next'[ROOT] = NULL /\ prev'[ROOT] = NULL
    <3>1. ~(prev[z] # NULL /\ ROOT = prev[z]) /\ ~(next[z] # NULL /\ ROOT = next[z])
      BY <1>5, <1>6 DEF Nth
    <3>2. parent[ROOT] = NULL /\ next[ROOT] = NULL /\ prev[ROOT] = NULL
      BY DEF Tree, LoneInv
    <3> QED BY <1>4, <3>1, <3>2, NullIsNoFile
  <2> QED BY <2>1, <2>2 DEF LoneInv
<1>17. Ages(age, N)'
  <2>1. /\ N \in Nat /\ age \in [File -> 0 .. N]
        /\ \A g \in File : /\ parent[g] # NULL => age[parent[g]] < age[g]
                           /\ next[g] # NULL => age[next[g]] < age[g]
    BY DEF Tree, Ages
  <2>2. ASSUME prev[z] # NULL, next[z] # NULL PROVE age[next[z]] < age[prev[z]]
    <3>1. k - 1 \in 1 .. Len(s) /\ prev[z] = s[k - 1] /\ (k - 1) + 1 = k
      BY <1>5, <2>2 DEF Nth
    <3>2. prev[z] \in File /\ next[prev[z]] = z
      BY <1>2, <1>6, <3>1 DEF Nth
    <3>3. age[z] < age[prev[z]] /\ age[next[z]] < age[z] /\ next[z] \in File
      BY <1>1, <1>14, <2>1, <2>2, <3>2, NullIsNoFile DEF Ptr
    <3>4. age[z] \in Nat /\ age[next[z]] \in Nat /\ age[prev[z]] \in Nat
      BY <1>1, <2>1, <3>2, <3>3
    <3> QED BY <3>3, <3>4
  <2>3. \A g \in File : /\ parent'[g] # NULL => parent'[g] = parent[g]
                        /\ next'[g] # NULL => \/ next'[g] = next[g]
                                              \/ /\ prev[z] # NULL /\ next[z] # NULL
                                                 /\ g = prev[z] /\ next'[g] = next[z]
    BY <1>4
  <2> QED BY <2>1, <2>2, <2>3 DEF Ages
<1>18. Tree(fewer, age, N)'
  BY <1>13, <1>15, <1>16, <1>17 DEF Tree
<1>19. /\ k \in 1 .. Len(rows[parent[z]]) /\ rows[parent[z]][k] = z
       /\ \A e \in File : fewer[e] = IF e \in Gone(z) THEN <<>>
                                     ELSE IF e = parent[z] THEN Cutout(rows[e], k)
                                     ELSE rows[e]
  BY <1>2, <1>9, <1>20 DEF c
<1> QED BY <1>18, <1>19

(* What z leads to, and what that leads to, is closed after as many steps  *)
(* as there are elements.                                                  *)
Grow(S, near, into) == near \cup UNION {into[e] : e \in near}

Growing(down, S, z, into, n) ==
    /\ down \in [0 .. n -> SUBSET S] /\ down[0] = {z}
    /\ \A i \in 1 .. n : down[i] = Grow(S, down[i - 1], into)

(* The sets defined one after the other exist.                             *)
LEMMA GrowingExists ==
    ASSUME NEW S, NEW z \in S, NEW into \in [S -> SUBSET S], NEW n \in Nat
    PROVE  \E down : Growing(down, S, z, into, n)
<1> DEFINE X == SUBSET S
           step == [i \in 1 .. n |-> [near \in X |-> Grow(S, near, into)]]
<1>1. step \in [0 + 1 .. n -> [X -> X]]
  <2>1. \A near \in X : Grow(S, near, into) \in X
    BY DEF Grow
  <2> QED BY <2>1
<1>2. {z} \in X
  OBVIOUS
<1>3. PICK f \in [0 .. n -> X] : Stepwise(f, 0, n, {z}, step)
  <2>1. 0 \in Nat /\ 0 <= n
    OBVIOUS
  <2> HIDE DEF X, step
  <2> QED BY <1>1, <1>2, <2>1, StepwiseExists
<1>5. ASSUME NEW i \in 1 .. n PROVE f[i] = Grow(S, f[i - 1], into)
  <2>1. i \in 0 + 1 .. n /\ i - 1 \in 0 .. n
    OBVIOUS
  <2>2. f[i] = step[i][f[i - 1]]
    BY <1>3, <2>1 DEF Stepwise
  <2>3. f[i - 1] \in X
    BY <2>1
  <2> QED BY <2>2, <2>3
<1>6. f[0] = {z}
  BY <1>3 DEF Stepwise
<1> QED BY <1>3, <1>5, <1>6 DEF Growing

(* A set that grows at each step until nothing is missing needs no more    *)
(* steps than there are elements.                                          *)
LEMMA Saturates ==
    ASSUME NEW S, IsFiniteSet(S), NEW z \in S, NEW into \in [S -> SUBSET S], NEW down,
           Growing(down, S, z, into, Cardinality(S))
    PROVE  \A e \in down[Cardinality(S)] : into[e] \subseteq down[Cardinality(S)]
<1>1. PICK C \in Nat : C = Cardinality(S)
  BY FS_CardinalityType
<1> DEFINE Complete(near) == \A e \in near : into[e] \subseteq near
           T == {n \in 0 .. C : Complete(down[n]) \/ Cardinality(down[n]) > n}
<1>2. /\ down \in [0 .. C -> SUBSET S] /\ down[0] = {z}
      /\ \A i \in 1 .. C : down[i] = Grow(S, down[i - 1], into)
  BY <1>1 DEF Growing
<1>3. \A n \in 0 .. C : IsFiniteSet(down[n]) /\ Cardinality(down[n]) \in Nat
                        /\ Cardinality(down[n]) <= C
  BY <1>1, <1>2, FS_Subset, FS_CardinalityType
<1>4. 0 \in T
  <2>1. Cardinality(down[0]) = 1
    BY <1>2, FS_Singleton
  <2>2. 1 > 0 /\ 0 \in 0 .. C
    OBVIOUS
  <2> QED BY <2>1, <2>2
<1>5. ASSUME NEW n \in 1 .. C, n - 1 \in T PROVE n \in T
  <2>1. n - 1 \in 0 .. C /\ n \in 0 .. C
    OBVIOUS
  <2>2. down[n] = Grow(S, down[n - 1], into)
    BY <1>2
  <2>3. CASE Complete(down[n - 1])
    <3>1. down[n] = down[n - 1]
      BY <2>2, <2>3 DEF Grow
    <3> QED BY <2>1, <2>3, <3>1
  <2>4. CASE ~Complete(down[n - 1])
    <3>1. Cardinality(down[n - 1]) > n - 1
      BY <1>5, <2>4
    <3>2. down[n - 1] \in SUBSET down[n] /\ down[n - 1] # down[n]
      BY <2>2, <2>4 DEF Grow
    <3>3. Cardinality(down[n - 1]) <= Cardinality(down[n])
          /\ Cardinality(down[n]) # Cardinality(down[n - 1])
      <4> HIDE DEF T, Complete
      <4> QED BY <1>3, <2>1, <3>2, FS_Subset
    <3>4. Cardinality(down[n]) > n
      BY <1>3, <2>1, <3>1, <3>3
    <3> QED BY <2>1, <3>4
  <2> QED BY <2>3, <2>4
<1>6. C \in T
  <2>1. \A n \in 1 .. C : n - 1 \in T => n \in T
    BY <1>5
  <2> HIDE DEF T
  <2>2. 0 .. C \subseteq T
    BY <1>4, <2>1, RangeInduction
  <2> QED BY <2>2
<1>7. Complete(down[C])
  <2>1. C \in 0 .. C
    OBVIOUS
  <2> QED BY <1>3, <1>6, <2>1
<1> QED BY <1>1, <1>7

(* There are finitely many Files.                                          *)
LEMMA FilesAreFinite == IsFiniteSet(File)
<1>1. IsFiniteSet(Procs) /\ IsFiniteSet(Links)
  BY FileTreeAssumption
<1>2. File = ((((Procs \cup Links) \cup {ROOT}) \cup {DEV}) \cup {PROC}) \cup {TTY}
  BY DEF File, Fixed
<1>3. IsFiniteSet(Procs \cup Links)
  BY <1>1, FS_Union
<1> QED BY <1>2, <1>3, FS_AddElement

(* What is defined with the operators Directory has from other modules.    *)
LEMMA PromiseHas ==
    /\ \A f : Promise!HoldersOf(f) = {d \in File : \E i \in DOMAIN Children(d) : Children(d)[i] = f}
    /\ \A S : Promise!Cardinality(S) = Cardinality(S)
    /\ \A s : Promise!ToSet(s) = {s[i] : i \in DOMAIN s}
<1>1. ASSUME NEW S PROVE Promise!Cardinality(S) = Cardinality(S)
  BY DEF Promise!Cardinality, Cardinality
<1> QED BY <1>1 DEF Promise!HoldersOf, Promise!ToSet

(* What leaves with z in the abstract directory is what the destructor     *)
(* takes with it.                                                          *)
LEMMA UnderIs ==
    ASSUME NEW rows, NEW age, NEW N, Tree(rows, age, N), NEW z \in alive \ {ROOT}, ROOT \in alive
    PROVE  Promise!Under(z) = Gone(z)
<1>1. PICK C \in Nat : C = Cardinality(File)
  BY FilesAreFinite, FS_CardinalityType
<1> DEFINE entries == [f \in File |-> Children(f)]
           into == [e \in File |-> {rows[e][i] : i \in 1 .. Len(rows[e])}]
           H(h) == [n \in 0 .. Promise!Cardinality(File) |->
                      IF n = 0 THEN {z}
                      ELSE h[n - 1] \cup UNION {Promise!ToSet(entries[e]) : e \in h[n - 1]}]
           down == CHOOSE h : h = H(h)
<1>16. \A e \in File : entries[e] = Children(e)
  OBVIOUS
<1>10. C = Promise!Cardinality(File)
  BY <1>1, PromiseHas
<1>2. /\ z \in File /\ alive \subseteq File /\ parent[ROOT] = NULL
      /\ \A e \in File : rows[e] \in Seq(File)
      /\ \A e \in File : Promise!ToSet(Children(e)) = into[e] /\ into[e] \in SUBSET File
      /\ \A e \in File : \A g \in into[e] : g \in alive /\ parent[g] = e
      /\ \A g \in alive \ {ROOT} : parent[g] \in alive /\ g \in into[parent[g]]
  <2>1. \A e \in File : rows[e] \in Seq(File) /\ Children(e) = rows[e]
    BY ChildrenAre DEF Tree, Rows, Row
  <2>2. \A e \in File : Promise!ToSet(Children(e)) = into[e] /\ into[e] \in SUBSET File
    BY <2>1, PromiseHas
  <2>3. z \in File /\ alive \subseteq File /\ parent[ROOT] = NULL
    BY DEF Tree, TypeInv, LoneInv
  <2>4. ASSUME NEW e \in File, NEW g \in into[e] PROVE g \in alive /\ parent[g] = e
    BY <2>4 DEF Tree, Rows, Row
  <2>5. ASSUME NEW g \in alive \ {ROOT} PROVE parent[g] \in alive /\ g \in into[parent[g]]
    BY <2>3, <2>5 DEF Tree, Rows
  <2> HIDE DEF into
  <2> QED BY <2>1, <2>2, <2>3, <2>4, <2>5
<1>3. into \in [File -> SUBSET File]
  BY <1>2
<1> HIDE DEF into
<1>4. PICK g : Growing(g, File, z, into, C)
  BY <1>2, <1>3, GrowingExists
<1>5. \A n \in 0 .. C : g[n] \in SUBSET File
  BY <1>4 DEF Growing
<1>6. \A near \in SUBSET File :
         near \cup UNION {Promise!ToSet(entries[e]) : e \in near} = Grow(File, near, into)
  <2>1. \A e \in File : Promise!ToSet(entries[e]) = into[e]
    BY <1>2, <1>16
  <2> HIDE DEF entries
  <2> QED BY <2>1 DEF Grow
<1>7. g = H(g)
  <2>1. \A n \in 0 .. C : g[n] = IF n = 0 THEN {z} ELSE Grow(File, g[n - 1], into)
    BY <1>1, <1>4 DEF Growing
  <2>2. \A n \in 0 .. C : n # 0 => g[n - 1] \in SUBSET File
    BY <1>1, <1>5
  <2>3. \A n \in 0 .. C : g[n] = H(g)[n]
    BY <1>6, <1>10, <2>1, <2>2
  <2>4. g = [n \in 0 .. C |-> g[n]]
    BY <1>4 DEF Growing
  <2> QED BY <1>10, <2>3, <2>4
<1>8. down = H(down)
  <2> HIDE DEF H
  <2> QED BY <1>7
<1>9. Promise!Under(z) = down[C]
  <2>1. Promise!Under(z) = down[Promise!Cardinality(File)]
    BY DEF Promise!Under
  <2> QED BY <1>10, <2>1
<1>11. Growing(down, File, z, into, C)
  <2>1. \A n \in 0 .. C :
           down[n] = IF n = 0 THEN {z}
                     ELSE down[n - 1] \cup UNION {Promise!ToSet(entries[e]) : e \in down[n - 1]}
    <3> HIDE DEF down
    <3> QED BY <1>8, <1>10
  <2>2. down = [n \in 0 .. C |-> down[n]]
    <3> HIDE DEF down
    <3> QED BY <1>8, <1>10
  <2> HIDE DEF down
  <2> DEFINE T == {n \in 0 .. C : down[n] = g[n]}
  <2>3. 0 \in T
    <3>1. 0 \in 0 .. C
      OBVIOUS
    <3>2. down[0] = {z}
      BY <2>1, <3>1
    <3> QED BY <1>4, <3>1, <3>2 DEF Growing
  <2>4. ASSUME NEW n \in 1 .. C, n - 1 \in T PROVE n \in T
    <3>1. n \in 0 .. C /\ n # 0 /\ n - 1 \in 0 .. C
      OBVIOUS
    <3>2. down[n] = Grow(File, g[n - 1], into)
      BY <1>5, <1>6, <2>1, <2>4, <3>1
    <3> QED BY <1>4, <3>1, <3>2 DEF Growing
  <2>5. 0 .. C \subseteq T
    <3>1. \A n \in 1 .. C : n - 1 \in T => n \in T
      BY <2>4
    <3> HIDE DEF T
    <3> QED BY <2>3, <3>1, RangeInduction
  <2>6. \A n \in 0 .. C : down[n] = g[n]
    BY <2>5
  <2>7. g = [n \in 0 .. C |-> g[n]]
    BY <1>4 DEF Growing
  <2>8. down = g
    BY <2>2, <2>6, <2>7
  <2> QED BY <1>4, <2>8
<1> HIDE DEF down
<1>12. down[C] \subseteq Gone(z)
  <2> DEFINE T == {n \in 0 .. C : down[n] \subseteq Gone(z)}
  <2>1. 0 \in T
    BY <1>11, GoneIs DEF Growing
  <2>2. ASSUME NEW n \in 1 .. C, n - 1 \in T PROVE n \in T
    <3>1. n \in 0 .. C /\ down[n] = Grow(File, down[n - 1], into) /\ down[n - 1] \subseteq Gone(z)
      BY <1>11, <2>2 DEF Growing
    <3>2. \A e \in Gone(z) : e \in File /\ into[e] \subseteq Gone(z)
      <4> SUFFICES ASSUME NEW e \in Gone(z), NEW f \in into[e] PROVE e \in File /\ f \in Gone(z)
        BY <1>2, GoneIs
      <4>1. e \in File
        BY <1>2, GoneIs
      <4>2. f \in alive /\ parent[f] = e
        BY <1>2, <4>1
      <4>3. f # ROOT
        BY <1>2, <4>1, <4>2, NullIsNoFile
      <4> QED BY <4>1, <4>2, <4>3, GoneIs
    <3>3. Grow(File, down[n - 1], into) \subseteq Gone(z)
      BY <3>1, <3>2 DEF Grow
    <3> QED BY <3>1, <3>3
  <2>3. \A n \in 1 .. C : n - 1 \in T => n \in T
    BY <2>2
  <2>4. 0 .. C \subseteq T
    <3> HIDE DEF T
    <3> QED BY <2>1, <2>3, RangeInduction
  <2> QED BY <2>4
<1>13. z \in down[C]
  <2> DEFINE T == {n \in 0 .. C : z \in down[n]}
  <2>1. 0 \in T
    BY <1>11 DEF Growing
  <2>2. \A n \in 1 .. C : n - 1 \in T => n \in T
    BY <1>11 DEF Growing, Grow
  <2>3. 0 .. C \subseteq T
    <3> HIDE DEF T
    <3> QED BY <2>1, <2>2, RangeInduction
  <2> QED BY <2>3
<1>14. \A e \in down[C] : into[e] \subseteq down[C]
  BY <1>1, <1>2, <1>3, <1>11, FilesAreFinite, Saturates
<1>15. Gone(z) \subseteq down[C]
  <2>1. N \in Nat /\ \A f \in File : age[f] \in Nat /\ (parent[f] # NULL => age[parent[f]] < age[f])
    BY DEF Tree, Ages
  <2> DEFINE T == {n \in Nat : \A f \in Gone(z) : age[f] < n => f \in down[C]}
  <2>2. 0 \in T
    BY <1>2, <2>1, GoneIs
  <2>3. ASSUME NEW n \in T PROVE n + 1 \in T
    <3> SUFFICES ASSUME NEW f \in Gone(z), age[f] < n + 1 PROVE f \in down[C]
      OBVIOUS
    <3>1. f \in alive \ {ROOT} /\ f \in File
      BY <1>2, GoneIs
    <3>2. CASE f = z
      BY <1>13, <3>2
    <3>3. CASE f # z
      <4>1. parent[f] \in Gone(z) /\ parent[f] \in File /\ f \in into[parent[f]]
        BY <1>2, <3>1, <3>3, GoneIs
      <4>2. age[parent[f]] < age[f]
        BY <2>1, <3>1, <4>1, NullIsNoFile
      <4>3. age[parent[f]] < n
        BY <2>1, <3>1, <4>1, <4>2
      <4> QED BY <1>14, <2>3, <4>1, <4>3
    <3> QED BY <3>2, <3>3
  <2>4. \A n \in Nat : n \in T
    <3>1. T \in SUBSET Nat /\ \A n \in T : n + 1 \in T
      BY <2>3
    <3> HIDE DEF T
    <3> QED BY <2>2, <3>1, SetInduction
  <2> SUFFICES ASSUME NEW f \in Gone(z) PROVE f \in down[C]
    OBVIOUS
  <2>5. age[f] + 1 \in Nat /\ age[f] < age[f] + 1
    BY <1>2, <2>1, GoneIs
  <2>6. age[f] + 1 \in T
    BY <2>4, <2>5
  <2> QED BY <2>5, <2>6
<1> QED BY <1>9, <1>12, <1>15

-----------------------------------------------------------------------------
(* The rows are what Children returns, now and after a step.               *)
RowsAreChildren ==
    \A rows, age, N : \A d \in File : Tree(rows, age, N) => Children(d) = rows[d]

LEMMA RowsAlwaysChildren == RowsAreChildren
BY ChildrenAre DEF RowsAreChildren

(* Children gives the rows of the next state as well.                      *)
LEMMA RowsThen ==
    ASSUME NEW rows, NEW age, NEW N, Tree(rows, age, N)'
    PROVE  \A d \in File : Children(d)' = rows[d]
<1>1. RowsAreChildren'
  BY RowsAlwaysChildren, PTL
<1> QED BY <1>1 DEF RowsAreChildren

(* Only the parent of a file holds it.                                     *)
LEMMA HoldersAre ==
    ASSUME NEW rows, NEW age, NEW N, Tree(rows, age, N), NEW f \in File
    PROVE  /\ f \notin alive \ {ROOT} => Promise!HoldersOf(f) = {}
           /\ f \in alive \ {ROOT} => Promise!HoldersOf(f) = {parent[f]}
<1>1. \A d \in File : /\ rows[d] \in Seq(File)
                      /\ \A i \in 1 .. Len(rows[d]) : rows[d][i] \in alive /\ parent[rows[d][i]] = d
  BY DEF Tree, Rows, Row
<1>2. parent[ROOT] = NULL /\ alive \subseteq File
  BY DEF Tree, LoneInv, TypeInv
<1>3. Promise!HoldersOf(f) = {d \in File : \E i \in 1 .. Len(rows[d]) : rows[d][i] = f}
  <2>1. \A d \in File : Children(d) = rows[d] /\ DOMAIN rows[d] = 1 .. Len(rows[d])
    BY <1>1, ChildrenAre
  <2> QED BY <2>1, PromiseHas
<1>4. CASE f \notin alive \ {ROOT}
  BY <1>1, <1>2, <1>3, <1>4, NullIsNoFile
<1>5. CASE f \in alive \ {ROOT}
  <2>1. parent[f] \in File /\ \E i \in 1 .. Len(rows[parent[f]]) : rows[parent[f]][i] = f
    BY <1>2, <1>5 DEF Tree, Rows
  <2> QED BY <1>1, <1>3, <1>5, <2>1
<1> QED BY <1>4, <1>5

(* File::add is the abstract Enter.                                        *)
LEMMA AddEnters ==
    ASSUME NEW rows, NEW age, NEW N, Tree(rows, age, N), NEW f \in File \ alive, NEW d \in alive,
           ROOT \in alive, NEW n, Add(f, n, d), link' = [g \in File |-> link'[g]]
    PROVE  /\ TreeInv' /\ Promise!Enter(f)
           /\ \A e \in File : Children(e)' = IF e = d THEN <<f>> \o Children(e) ELSE Children(e)
<1>1. PICK more, older : /\ Tree(more, older, N + 1)' /\ rows[f] = <<>>
                         /\ \A e \in File : more[e] = IF e = d THEN <<f>> \o rows[e] ELSE rows[e]
  BY AddTree
<1>2. TreeInv'
  BY <1>1 DEF TreeInv
<1>3. \A e \in File : Children(e) = rows[e] /\ Children(e)' = more[e]
  BY <1>1, ChildrenAre, RowsThen
<1>4. \A e \in File : Children(e)' = IF e = d THEN <<f>> \o Children(e) ELSE Children(e)
  BY <1>1, <1>3
<1>5. d \in File \ {f}
  BY DEF Tree, TypeInv
<1>6. Promise!HoldersOf(f) = {}
  BY HoldersAre
<1>7. Children(f) = <<>>
  BY <1>1, <1>3
<1>8. [e \in File |-> Children(e)'] =
         [[e \in File |-> Children(e)] EXCEPT ![d] = <<f>> \o [e \in File |-> Children(e)][d]]
  BY <1>4, <1>5
<1> QED BY <1>2, <1>4, <1>5, <1>6, <1>7, <1>8 DEF Promise!Enter

(* The abstract row without f is the row without its k-th file.            *)
LEMMA WithoutIs ==
    ASSUME NEW S, NEW s \in Seq(S), NEW f,
           \A i, j \in 1 .. Len(s) : s[i] = s[j] => i = j
    PROVE  /\ \A k \in 1 .. Len(s) : s[k] = f => Promise!Without(s, f) = Cutout(s, k)
           /\ (\A k \in 1 .. Len(s) : s[k] # f) => Promise!Without(s, f) = s
<1>1. DOMAIN s = 1 .. Len(s)
  OBVIOUS
<1>2. f \in Promise!ToSet(s) <=> \E i \in 1 .. Len(s) : s[i] = f
  BY <1>1, PromiseHas
<1>3. ASSUME NEW k \in 1 .. Len(s), s[k] = f PROVE Promise!Without(s, f) = Cutout(s, k)
  <2>1. (CHOOSE i \in DOMAIN s : s[i] = f) = k
    BY <1>1, <1>3
  <2>2. Promise!Without(s, f) = Promise!RemoveAt(s, k)
    BY <1>2, <1>3, <2>1 DEF Promise!Without
  <2>3. Promise!RemoveAt(s, k) = Cutout(s, k)
    BY DEF Promise!RemoveAt, Cutout
  <2> QED BY <2>2, <2>3
<1>4. ASSUME \A k \in 1 .. Len(s) : s[k] # f PROVE Promise!Without(s, f) = s
  BY <1>2, <1>4 DEF Promise!Without
<1> QED BY <1>3, <1>4

(* The destructor is the abstract Leave.                                   *)
LEMMA UnlinkLeaves ==
    ASSUME NEW rows, NEW age, NEW N, Tree(rows, age, N), NEW z \in alive \ {ROOT}, ROOT \in alive,
           Unlink(z)
    PROVE  /\ TreeInv' /\ Promise!Leave(z)
           /\ \A e \in File : e \notin Gone(z) /\ e # parent[z] => Children(e)' = Children(e)
<1>1. PICK fewer : /\ Tree(fewer, age, N)'
                   /\ \E k \in 1 .. Len(rows[parent[z]]) :
                        /\ rows[parent[z]][k] = z
                        /\ \A e \in File : fewer[e] = IF e \in Gone(z) THEN <<>>
                                                      ELSE IF e = parent[z] THEN Cutout(rows[e], k)
                                                      ELSE rows[e]
  BY UnlinkTree
<1>2. TreeInv'
  BY <1>1 DEF TreeInv
<1>3. \A e \in File : Children(e) = rows[e] /\ Children(e)' = fewer[e]
  BY <1>1, ChildrenAre, RowsThen
<1>4. \A e \in File : e \notin Gone(z) /\ e # parent[z] => Children(e)' = Children(e)
  BY <1>1, <1>3
<1>5. z \in File /\ Promise!HoldersOf(z) = {parent[z]}
  <2>1. z \in File
    BY DEF Tree, TypeInv
  <2> QED BY <2>1, HoldersAre
<1>6. Promise!Under(z) = Gone(z)
  BY UnderIs
<1>7. ASSUME NEW e \in File
      PROVE  Children(e)' = IF e \in Gone(z) THEN <<>> ELSE Promise!Without(Children(e), z)
  <2>1. /\ rows[e] \in Seq(File) /\ \A i, j \in 1 .. Len(rows[e]) : rows[e][i] = rows[e][j] => i = j
        /\ \A i \in 1 .. Len(rows[e]) : parent[rows[e][i]] = e
    BY DEF Tree, Rows, Row
  <2>2. CASE e \in Gone(z)
    BY <1>1, <1>3, <2>2
  <2>3. CASE e \notin Gone(z) /\ e = parent[z]
    <3>1. PICK k \in 1 .. Len(rows[e]) : rows[e][k] = z /\ fewer[e] = Cutout(rows[e], k)
      BY <1>1, <2>3
    <3>2. Promise!Without(rows[e], z) = Cutout(rows[e], k)
      BY <2>1, <3>1, WithoutIs
    <3> QED BY <1>3, <2>3, <3>1, <3>2
  <2>4. CASE e \notin Gone(z) /\ e # parent[z]
    <3>1. \A k \in 1 .. Len(rows[e]) : rows[e][k] # z
      BY <2>1, <2>4
    <3>2. Promise!Without(rows[e], z) = rows[e]
      BY <2>1, <3>1, WithoutIs
    <3> QED BY <1>3, <1>4, <2>4, <3>2
  <2> QED BY <2>2, <2>3, <2>4
<1>8. [e \in File |-> Children(e)'] =
         [e \in File |-> IF e \in Gone(z) THEN <<>>
                         ELSE Promise!Without([f \in File |-> Children(f)][e], z)]
  BY <1>7
<1>9. Promise!Leave(z)
  BY <1>5, <1>6, <1>8 DEF Promise!Leave
<1> QED BY <1>2, <1>4, <1>9

-----------------------------------------------------------------------------
Directories == {ROOT, DEV, PROC}

(* What Filesystem::init creates stays where it is.                        *)
FixedInv ==
    /\ Fixed \subseteq alive
    /\ name[DEV] = DEV /\ name[PROC] = PROC
    /\ parent[DEV] = ROOT /\ parent[PROC] = ROOT /\ parent[TTY] = DEV

(* Nothing else in the root has the name of one of its directories.        *)
NamesInv ==
    /\ \A f \in alive : parent[f] = ROOT /\ name[f] \in {DEV, PROC} => f = name[f]
    /\ \A f \in File : name[f] \notin {SLASH, "a/b"} /\ link[f] # MISSING

(* Processes are in /proc, and the one being deleted still is.             *)
ProcsInv ==
    /\ \A p \in Procs \cap alive : parent[p] = PROC
    /\ state_ = [p \in Procs |-> state_[p]]
    /\ \A p \in Procs : state_[p] # "none" => p \in alive
    /\ dying \in (Procs \cap alive) \cup {NULL}
    /\ openfp_ \in [Procs -> Tables]

PlacesInv == TreeInv /\ FixedInv /\ NamesInv

(* No Process and no link is one of the fixed files or a place of a walk.  *)
LEMMA FixedAre ==
    /\ Directories \subseteq Fixed /\ Fixed \subseteq File
    /\ ROOT \notin Procs \cup Links /\ NULL \notin Procs \cup Links
    /\ Fixed \cap (Procs \cup Links) = {} /\ Procs \cap Links = {}
    /\ NULL # MISSING /\ NULL # NOWHERE /\ MISSING # NOWHERE
    /\ MISSING \notin Ptr /\ NOWHERE \notin Ptr
BY FileTreeAssumption DEF Directories, Fixed, File, Ptr, ROOT, DEV, PROC, TTY, MISSING, NOWHERE

(* The files of type directory are three of the fixed ones.                *)
LEMMA DirectoriesAre ==
    ASSUME NEW f \in File
    PROVE  type(f) = "directory" <=> f \in Directories
<1>1. CASE f \in Directories
  BY <1>1, FixedAre DEF type, Directories, ROOT, DEV, PROC, TTY
<1>2. CASE f = TTY
  BY <1>2, FixedAre DEF type, Directories, Fixed, ROOT, DEV, PROC, TTY
<1>3. CASE f \in Procs
  BY <1>3, FixedAre DEF type, Directories, Fixed, ROOT, DEV, PROC, TTY
<1>4. CASE f \in Links
  BY <1>4, FixedAre DEF type, Directories, Fixed, ROOT, DEV, PROC, TTY
<1> QED BY <1>1, <1>2, <1>3, <1>4 DEF File, Fixed, Directories

(* A file that no newer one hides is what find returns.                    *)
LEMMA FindsTheFirst ==
    ASSUME TreeInv, NEW f \in alive \ {ROOT}, ~Hidden(f)
    PROVE  find(parent[f], name[f]) = f
<1>1. PICK rows, age, N : Tree(rows, age, N)
  BY DEF TreeInv
<1>2. PICK d : d = parent[f]
  OBVIOUS
<1>3. d \in File /\ \E k \in 1 .. Len(rows[d]) : rows[d][k] = f
  BY <1>1, <1>2 DEF Tree, Rows, TypeInv
<1>4. PICK k \in 1 .. Len(rows[d]) : rows[d][k] = f
  BY <1>3
<1>5. Children(d) = rows[d] /\ rows[d] \in Seq(File) /\ DOMAIN rows[d] = 1 .. Len(rows[d])
  <2>1. rows[d] \in Seq(File)
    BY <1>1, <1>3 DEF Tree, Rows, Row
  <2>2. Children(d) = rows[d]
    BY <1>1, <1>3, ChildrenAre
  <2> QED BY <2>1, <2>2
<1>6. \A j \in 1 .. k - 1 : name[rows[d][j]] # name[f]
  <2> SUFFICES ASSUME NEW j \in 1 .. k - 1 PROVE name[rows[d][j]] # name[f]
    OBVIOUS
  <2>1. j \in DOMAIN rows[d] /\ k \in DOMAIN rows[d] /\ j < k
    BY <1>4, <1>5
  <2> QED BY <1>2, <1>4, <1>5, <2>1 DEF Hidden
<1> QED BY <1>1, <1>2, <1>3, <1>4, <1>6, FindIs

(* In the root, find returns /dev and /proc for their names.               *)
LEMMA FindsDirectories ==
    ASSUME PlacesInv
    PROVE  find(ROOT, DEV) = DEV /\ find(ROOT, PROC) = PROC
<1>1. PICK rows, age, N : Tree(rows, age, N)
  BY DEF PlacesInv, TreeInv
<1>2. /\ Children(ROOT) = rows[ROOT] /\ rows[ROOT] \in Seq(File)
      /\ \A i \in 1 .. Len(rows[ROOT]) : rows[ROOT][i] \in alive /\ parent[rows[ROOT][i]] = ROOT
      /\ \A i, j \in 1 .. Len(rows[ROOT]) : rows[ROOT][i] = rows[ROOT][j] => i = j
  BY <1>1, ChildrenAre, NullIsNoFile DEF Tree, Rows, Row
<1>3. ASSUME NEW f \in {DEV, PROC} PROVE find(ROOT, f) = f
  <2>1. f \in alive \ {ROOT} /\ parent[f] = ROOT /\ name[f] = f
    BY DEF PlacesInv, FixedInv, Fixed, ROOT, DEV, PROC
  <2>2. ~Hidden(f)
    <3> SUFFICES ASSUME NEW i \in 1 .. Len(rows[ROOT]), NEW j \in 1 .. Len(rows[ROOT]), i < j,
                        rows[ROOT][j] = f, name[rows[ROOT][i]] = name[f]
                 PROVE  FALSE
      BY <1>2, <2>1 DEF Hidden
    <3>1. rows[ROOT][i] = f
      BY <1>2, <2>1 DEF PlacesInv, NamesInv
    <3> QED BY <1>2, <3>1
  <2> QED BY <2>1, <2>2, FindsTheFirst DEF PlacesInv
<1> QED BY <1>3

-----------------------------------------------------------------------------
(* path takes one step for each word.                                      *)
Walk(at, p) ==
    /\ at[0] = ROOT
    /\ \A i \in 1 .. Len(p) :
         at[i] = IF p[i] = SLASH THEN at[i - 1] ELSE PathStep(at[i - 1], p[i])

(* The walk of path exists, and path ends where it does.                   *)
LEMMA PathIs ==
    ASSUME NEW S, NEW p \in Seq(S), IsAbsolute(p), NEW cwd
    PROVE  \E at : Walk(at, p) /\ path(cwd, p) = IF at[Len(p)] = MISSING THEN NULL ELSE at[Len(p)]
<1>1. PICK L \in Nat : L = Len(p)
  OBVIOUS
<1> DEFINE X == ({ROOT, MISSING, NOWHERE} \cup alive \cup {parent[x] : x \in alive})
                  \cup {Follow(find(xi[1], p[xi[2]])) : xi \in alive \X (1 .. L)}
           One(x, i) == IF p[i] = SLASH THEN x ELSE PathStep(x, p[i])
           step == [i \in 1 .. L |-> [x \in X |-> One(x, i)]]
           H(h) == [i \in 0 .. Len(p) |->
                      IF i = 0 THEN IF IsAbsolute(p) THEN ROOT ELSE cwd
                      ELSE IF p[i] = SLASH THEN h[i - 1] ELSE PathStep(h[i - 1], p[i])]
           at == CHOOSE h : h = H(h)
<1>2. ASSUME NEW i \in 1 .. L, NEW x \in X PROVE One(x, i) \in X
  <2>1. x \in alive => parent[x] \in X /\ Follow(find(x, p[i])) \in X
    <3>1. x \in alive => <<x, i>> \in alive \X (1 .. L)
      OBVIOUS
    <3> QED BY <3>1
  <2>2. MISSING \in X /\ NOWHERE \in X
    OBVIOUS
  <2> HIDE DEF X
  <2> QED BY <1>2, <2>1, <2>2 DEF PathStep
<1>3. step \in [0 + 1 .. L -> [X -> X]]
  <2> HIDE DEF X, One
  <2> QED BY <1>2
<1>4. PICK f \in [0 .. L -> X] : Stepwise(f, 0, L, ROOT, step)
  <2>1. 0 \in Nat /\ 0 <= L /\ ROOT \in X
    OBVIOUS
  <2> HIDE DEF step, X
  <2> QED BY <1>3, <2>1, StepwiseExists
<1>5. f[0] = ROOT /\ \A i \in 1 .. L : f[i] = One(f[i - 1], i)
  <2>1. f[0] = ROOT
    BY <1>4 DEF Stepwise
  <2>2. ASSUME NEW i \in 1 .. L PROVE f[i] = One(f[i - 1], i)
    <3>1. i \in 0 + 1 .. L /\ i - 1 \in 0 .. L
      OBVIOUS
    <3>2. f[i] = step[i][f[i - 1]] /\ f[i - 1] \in X
      <4> HIDE DEF step, X
      <4> QED BY <1>4, <3>1 DEF Stepwise
    <3> HIDE DEF X, One
    <3> QED BY <3>2
  <2> QED BY <2>1, <2>2
<1>6. f = H(f)
  <2>1. \A i \in 0 .. Len(p) : f[i] = H(f)[i]
    BY <1>1, <1>5
  <2>2. f = [i \in 0 .. L |-> f[i]]
    BY <1>4
  <2> QED BY <1>1, <2>1, <2>2
<1>7. at = H(at)
  <2> HIDE DEF H
  <2> QED BY <1>6
<1>8. path(cwd, p) = IF at[Len(p)] = MISSING THEN NULL ELSE at[Len(p)]
  BY DEF path
<1> HIDE DEF at
<1>9. Walk(at, p)
  <2>1. 0 \in 0 .. L /\ \A i \in 1 .. L : i \in 0 .. L /\ i # 0
    OBVIOUS
  <2>2. \A i \in 0 .. L : at[i] = IF i = 0 THEN IF IsAbsolute(p) THEN ROOT ELSE cwd
                             ELSE IF p[i] = SLASH THEN at[i - 1] ELSE PathStep(at[i - 1], p[i])
    BY <1>1, <1>7
  <2>3. at[0] = ROOT
    BY <2>1, <2>2
  <2> QED BY <1>1, <2>1, <2>2, <2>3 DEF Walk
<1> QED BY <1>8, <1>9

(* execv asks for /proc and gets it.                                       *)
LEMMA ProcIsFound ==
    ASSUME PlacesInv, NEW cwd
    PROVE  path(cwd, <<SLASH, PROC, SLASH>>) = PROC
<1> DEFINE p == <<SLASH, PROC, SLASH>>
<1>1. /\ p \in Seq({SLASH, PROC}) /\ IsAbsolute(p) /\ Len(p) = 3
      /\ p[1] = SLASH /\ p[2] = PROC /\ p[3] = SLASH
  <2>1. p \in Seq({SLASH, PROC}) /\ Len(p) = 3 /\ p[1] = SLASH /\ p[2] = PROC /\ p[3] = SLASH
    OBVIOUS
  <2> HIDE DEF p
  <2>2. p # <<>>
    BY <2>1
  <2> QED BY <2>1, <2>2 DEF IsAbsolute
<1> HIDE DEF p
<1>2. PICK at : Walk(at, p) /\ path(cwd, p) = IF at[Len(p)] = MISSING THEN NULL ELSE at[Len(p)]
  BY <1>1, PathIs
<1>3. at[0] = ROOT /\ at[1] = ROOT /\ at[2] = PathStep(ROOT, PROC) /\ at[3] = at[2]
  <2>1. at[1] = ROOT
    BY <1>1, <1>2 DEF Walk
  <2>2. at[2] = PathStep(at[1], p[2])
    BY <1>1, <1>2 DEF Walk, SLASH, PROC
  <2>3. at[3] = at[2]
    BY <1>1, <1>2 DEF Walk
  <2> QED BY <1>1, <1>2, <2>1, <2>2, <2>3 DEF Walk
<1>4. PathStep(ROOT, PROC) = Follow(PROC)
  <2>1. ROOT \in alive /\ ROOT # MISSING /\ type(ROOT) = "directory"
    BY FixedAre, DirectoriesAre, NullIsNoFile
    DEF PlacesInv, FixedInv, Directories, Fixed, ROOT, MISSING
  <2>2. find(ROOT, PROC) = PROC /\ PROC # NULL
    BY FindsDirectories, NullIsNoFile
  <2> QED BY <2>1, <2>2 DEF PathStep, PROC
<1>5. Follow(PROC) = PROC
  <2>1. type(PROC) = "directory"
    BY FixedAre, DirectoriesAre DEF Directories
  <2> QED BY <2>1 DEF Follow
<1>6. PROC # MISSING
  BY DEF PROC, MISSING
<1> QED BY <1>1, <1>2, <1>3, <1>4, <1>5, <1>6 DEF p

(* The word path_parent stops at is not in the directory it stops in.      *)
LEMMA MissingWord ==
    ASSUME PlacesInv, NEW p \in Seq(STRING)
    PROVE  /\ path_parent(p).fname # SLASH
           /\ path_parent(p).at = ROOT => path_parent(p).fname \notin {DEV, PROC}
<1>1. PICK L \in Nat : L = Len(p)
  OBVIOUS
<1> DEFINE A == ({ROOT, MISSING, NOWHERE} \cup {parent[x] : x \in alive})
                  \cup {find(xi[1], p[xi[2]]) : xi \in alive \X (1 .. L)}
           Words == {JUNK} \cup {p[i] : i \in 1 .. L}
           X == [at : A, fname : Words]
           One(x, i) == IF p[i] = SLASH THEN x ELSE ParentStep(x, p[i])
           step == [i \in 1 .. L |-> [x \in X |-> One(x, i)]]
           start == [at |-> ROOT, fname |-> JUNK]
           H(h) == [i \in 0 .. Len(p) |->
                      IF i = 0 THEN [at |-> ROOT, fname |-> JUNK]
                      ELSE IF p[i] = SLASH THEN h[i - 1] ELSE ParentStep(h[i - 1], p[i])]
           at == CHOOSE h : h = H(h)
           Good(x) == /\ x.fname # SLASH
                      /\ x.at = ROOT => x.fname \notin {DEV, PROC}
<1>2. ASSUME NEW i \in 1 .. L, NEW x \in X PROVE One(x, i) \in X
  <2>1. x.at \in alive => parent[x.at] \in A /\ find(x.at, p[i]) \in A
    <3>1. x.at \in alive => <<x.at, i>> \in alive \X (1 .. L)
      OBVIOUS
    <3> QED BY <3>1
  <2>2. MISSING \in A /\ NOWHERE \in A /\ p[i] \in Words
    OBVIOUS
  <2> HIDE DEF A, Words
  <2> QED BY <1>2, <2>1, <2>2 DEF ParentStep
<1>3. step \in [0 + 1 .. L -> [X -> X]]
  <2> HIDE DEF X, One
  <2> QED BY <1>2
<1>4. PICK f \in [0 .. L -> X] : Stepwise(f, 0, L, start, step)
  <2>1. 0 \in Nat /\ 0 <= L /\ start \in X
    OBVIOUS
  <2> HIDE DEF step, X, start
  <2> QED BY <1>3, <2>1, StepwiseExists
<1>5. f[0] = start /\ \A i \in 1 .. L : f[i] = One(f[i - 1], i)
  <2>1. f[0] = start
    BY <1>4 DEF Stepwise
  <2>2. ASSUME NEW i \in 1 .. L PROVE f[i] = One(f[i - 1], i)
    <3>1. i \in 0 + 1 .. L /\ i - 1 \in 0 .. L
      OBVIOUS
    <3>2. f[i] = step[i][f[i - 1]] /\ f[i - 1] \in X
      <4> HIDE DEF step, X
      <4> QED BY <1>4, <3>1 DEF Stepwise
    <3> HIDE DEF X, One
    <3> QED BY <3>2
  <2> QED BY <2>1, <2>2
<1>6. f = H(f)
  <2> HIDE DEF X
  <2>1. \A i \in 0 .. Len(p) : f[i] = H(f)[i]
    BY <1>1, <1>5
  <2>2. f = [i \in 0 .. L |-> f[i]]
    BY <1>4
  <2> QED BY <1>1, <2>1, <2>2
<1>7. at = H(at)
  <2> HIDE DEF H
  <2> QED BY <1>6
<1>8. path_parent(p) = at[L]
  <2>1. path_parent(p) = at[Len(p)]
    BY DEF path_parent
  <2> QED BY <1>1, <2>1
<1> HIDE DEF at
<1>9. \A i \in 0 .. L : at[i] = IF i = 0 THEN [at |-> ROOT, fname |-> JUNK]
                               ELSE IF p[i] = SLASH THEN at[i - 1] ELSE ParentStep(at[i - 1], p[i])
  BY <1>1, <1>7
<1> DEFINE T == {i \in 0 .. L : at[i] \in X /\ Good(at[i])}
<1>10. 0 \in T
  <2>1. 0 \in 0 .. L /\ start \in X
    OBVIOUS
  <2>2. Good(start)
    BY DEF JUNK, SLASH, DEV, PROC
  <2> HIDE DEF X
  <2> QED BY <1>9, <2>1, <2>2
<1>11. ASSUME NEW i \in 1 .. L, i - 1 \in T PROVE i \in T
  <2>1. PICK x \in X : x = at[i - 1] /\ Good(x)
    BY <1>11
  <2>2. i \in 0 .. L /\ i # 0
    OBVIOUS
  <2>3. at[i] = One(x, i)
    <3> HIDE DEF X, Good
    <3> QED BY <1>9, <2>1, <2>2
  <2>4. One(x, i) \in X
    <3> HIDE DEF X, One
    <3> QED BY <1>2, <2>1
  <2>5. Good(One(x, i))
    <3> DEFINE w == p[i]
    <3>1. CASE w = SLASH \/ x.fname # JUNK \/ x.at = MISSING
      BY <2>1, <3>1 DEF ParentStep
    <3>2. CASE /\ w # SLASH /\ x.fname = JUNK /\ x.at # MISSING
               /\ x.at \in alive =>
                     (type(x.at) = "directory" => w \in {"..", "."} \/ find(x.at, w) # NULL)
      <4>1. One(x, i).fname = JUNK
        <5> HIDE DEF A, Words
        <5> QED BY <2>1, <3>2 DEF ParentStep
      <4> QED BY <4>1 DEF JUNK, SLASH, DEV, PROC
    <3>3. CASE /\ w # SLASH /\ x.fname = JUNK /\ x.at # MISSING /\ x.at \in alive
               /\ type(x.at) = "directory" /\ w \notin {"..", "."} /\ find(x.at, w) = NULL
      <4>1. One(x, i).fname = w /\ One(x, i).at = x.at
        <5> HIDE DEF A, Words
        <5> QED BY <2>1, <3>3 DEF ParentStep
      <4>2. x.at = ROOT => w \notin {DEV, PROC}
        BY <3>3, FindsDirectories, NullIsNoFile
      <4> QED BY <3>3, <4>1, <4>2
    <3> QED BY <3>1, <3>2, <3>3
  <2> HIDE DEF X, Good, One
  <2> QED BY <2>2, <2>3, <2>4, <2>5
<1>12. L \in T
  <2>1. \A i \in 1 .. L : i - 1 \in T => i \in T
    BY <1>11
  <2> HIDE DEF T
  <2>2. 0 .. L \subseteq T
    BY <1>10, <2>1, RangeInduction
  <2> QED BY <2>2
<1> QED BY <1>8, <1>12

-----------------------------------------------------------------------------
(* The path of a file is the path of its parent and one word more.         *)
LEMMA PathOfIs ==
    ASSUME TreeInv
    PROVE  /\ PathOf(ROOT) = <<>>
           /\ \A f \in File \ {ROOT} : parent[f] # NULL =>
                PathOf(f) = PathOf(parent[f]) \o <<SLASH>> \o Text(name[f])
<1>1. PICK rows, age, N : Tree(rows, age, N)
  BY DEF TreeInv
<1> DEFINE V == {SLASH, "a", "b"} \cup {name[f] : f \in File}
           X == Seq(V)
           step == [f \in File |-> [x \in X |->
                      IF f = ROOT THEN <<>> ELSE x \o <<SLASH>> \o Text(name[f])]]
           H(h) == [f \in Ptr |-> IF f \in {ROOT, NULL} THEN <<>>
                                  ELSE h[parent[f]] \o <<SLASH>> \o Text(name[f])]
           up == CHOOSE h : h = H(h)
<1>2. \A f \in File : Text(name[f]) \in X
  <2>1. \A f \in File : name[f] \in V /\ SLASH \in V /\ "a" \in V /\ "b" \in V
    OBVIOUS
  <2> HIDE DEF V
  <2> QED BY <2>1 DEF Text
<1>3. Steps(File, X, <<>>, step)
  <2>1. SLASH \in V
    OBVIOUS
  <2> HIDE DEF V
  <2>2. \A f \in File, x \in X : x \o <<SLASH>> \o Text(name[f]) \in X
    BY <1>2, <2>1
  <2> HIDE DEF X
  <2>3. <<>> \in X
    BY DEF X
  <2> QED BY <2>2, <2>3 DEF Steps
<1>4. Descends(File, NULL, parent, age, N)
  BY <1>1, Descending
<1>5. PICK h : Recursive(h, File, NULL, parent, X, <<>>, step)
  <2> HIDE DEF step, X
  <2> QED BY <1>3, <1>4, PointerRecursion
<1>6. h = H(h)
  <2>1. h \in [Ptr -> X] /\ h[NULL] = <<>>
    BY <1>5 DEF Recursive, Ptr
  <2>2. \A f \in File : parent[f] \in Ptr /\ h[parent[f]] \in X
    BY <1>4, <2>1 DEF Descends, Ptr
  <2>3. \A f \in File : h[f] = IF f = ROOT THEN <<>> ELSE h[parent[f]] \o <<SLASH>> \o Text(name[f])
    <3> HIDE DEF X
    <3> QED BY <1>5, <2>2 DEF Recursive
  <2> HIDE DEF X, step
  <2> QED BY <2>1, <2>3, NullIsNoFile DEF Ptr
<1>7. up = H(up)
  <2> HIDE DEF H
  <2> QED BY <1>6
<1>8. \A f : PathOf(f) = up[f]
  BY DEF PathOf
<1> HIDE DEF up
<1>9. \A f \in Ptr : up[f] = IF f \in {ROOT, NULL} THEN <<>>
                             ELSE up[parent[f]] \o <<SLASH>> \o Text(name[f])
  BY <1>7
<1>10. ROOT \in Ptr /\ \A f \in File : f \in Ptr /\ f # NULL
  BY NullIsNoFile DEF Ptr
<1> QED BY <1>8, <1>9, <1>10

(* A sequence and one element more.                                        *)
LEMMA OneMore ==
    ASSUME NEW S, NEW s \in Seq(S), NEW c \in S
    PROVE  /\ s \o <<c>> \in Seq(S) /\ Len(s \o <<c>>) = Len(s) + 1 /\ Len(s) \in Nat
           /\ (s \o <<c>>)[Len(s) + 1] = c
           /\ \A i \in 1 .. Len(s) : (s \o <<c>>)[i] = s[i]
OBVIOUS

(* A sequence and two elements more.                                       *)
LEMMA WordsMore ==
    ASSUME NEW S, NEW s \in Seq(S), NEW c \in S, NEW d \in S, NEW t, t = s \o <<c>> \o <<d>>
    PROVE  /\ t \in Seq(S) /\ Len(t) = Len(s) + 2
           /\ t[Len(s) + 1] = c /\ t[Len(s) + 2] = d
           /\ \A i \in 1 .. Len(s) : t[i] = s[i]
<1>1. PICK u : u = s \o <<c>>
  OBVIOUS
<1>2. /\ u \in Seq(S) /\ Len(u) = Len(s) + 1 /\ Len(s) \in Nat
      /\ u[Len(s) + 1] = c /\ \A i \in 1 .. Len(s) : u[i] = s[i]
  BY <1>1, OneMore
<1>3. /\ t \in Seq(S) /\ Len(t) = Len(u) + 1 /\ t[Len(u) + 1] = d
      /\ \A i \in 1 .. Len(u) : t[i] = u[i]
  BY <1>1, <1>2, OneMore
<1> QED BY <1>2, <1>3

(* One word of path, from the parent of a file, leads to the file or to    *)
(* what it stands for.                                                     *)
LEMMA StepFinds ==
    ASSUME PlacesInv, NEW f \in alive \ {ROOT}, ~Hidden(f), name[f] \notin {"..", "."},
           type(parent[f]) = "directory"
    PROVE  PathStep(parent[f], name[f]) = Follow(f)
<1>1. parent[f] \in alive /\ parent[f] \in File /\ f # NULL /\ parent[f] # MISSING
  BY FixedAre, NullIsNoFile DEF PlacesInv, TreeInv, Tree, Rows, TypeInv, Ptr
<1>2. find(parent[f], name[f]) = f
  BY FindsTheFirst DEF PlacesInv
<1> QED BY <1>1, <1>2 DEF PathStep

(* A walk along the path of a file reaches it: by induction on the age of  *)
(* the file, whose parent is older.                                        *)
LEMMA FilesAreFound == PlacesInv => EveryFileIsFound
<1> SUFFICES ASSUME PlacesInv, NEW f \in alive \ {ROOT}, ~Hidden(f),
                    name[f] \notin {"..", ".", JUNK}, type(parent[f]) = "directory"
             PROVE  path(ROOT, PathOf(f)) = Follow(f)
  BY DEF EveryFileIsFound
<1>1. f \in File /\ parent[f] \in File /\ parent[f] # NULL
  BY NullIsNoFile DEF PlacesInv, TreeInv, Tree, TypeInv, Rows
<1>2. name[f] \notin {SLASH, "a/b"} /\ link[f] # MISSING /\ Text(name[f]) = <<name[f]>>
  BY <1>1 DEF PlacesInv, NamesInv, Text
<1>3. Follow(f) # MISSING
  BY <1>1, <1>2, FixedAre DEF Follow, Ptr
<1>4. PathStep(parent[f], name[f]) = Follow(f)
  BY StepFinds
<1>5. PathOf(f) = PathOf(parent[f]) \o <<SLASH>> \o <<name[f]>>
  BY <1>1, <1>2, PathOfIs DEF PlacesInv
<1>6. CASE parent[f] = ROOT
  <2>1. PICK p : p = PathOf(f) /\ p = <<>> \o <<SLASH>> \o <<name[f]>>
    BY <1>5, <1>6, PathOfIs DEF PlacesInv
  <2>2. p \in Seq({SLASH, name[f]}) /\ Len(p) = 2 /\ p[1] = SLASH /\ p[2] = name[f]
    <3> DEFINE S == {SLASH, name[f]}
    <3>1. <<>> \in Seq(S) /\ Len(<<>>) = 0 /\ SLASH \in S /\ name[f] \in S
      OBVIOUS
    <3> HIDE DEF S
    <3>2. /\ p \in Seq(S) /\ Len(p) = Len(<<>>) + 2
          /\ p[Len(<<>>) + 1] = SLASH /\ p[Len(<<>>) + 2] = name[f]
      BY <2>1, <3>1, WordsMore
    <3> QED BY <3>1, <3>2 DEF S
  <2>3. IsAbsolute(p)
    BY <2>2 DEF IsAbsolute
  <2>4. PICK at : Walk(at, p) /\ path(ROOT, p) = IF at[Len(p)] = MISSING THEN NULL ELSE at[Len(p)]
    BY <2>2, <2>3, PathIs
  <2>5. at[1] = ROOT
    BY <2>2, <2>4 DEF Walk
  <2>6. at[2] = PathStep(at[1], name[f])
    BY <1>2, <2>2, <2>4 DEF Walk
  <2> QED BY <1>3, <1>4, <1>6, <2>1, <2>2, <2>4, <2>5, <2>6
<1>7. CASE parent[f] # ROOT
  <2>1. PICK d \in {DEV, PROC} : parent[f] = d
    BY <1>1, <1>7, DirectoriesAre DEF Directories
  <2>2. /\ d \in File \ {ROOT} /\ parent[d] = ROOT /\ name[d] = d /\ Text(d) = <<d>>
        /\ d # SLASH /\ d # MISSING /\ d # NULL /\ d \notin {"..", "."}
    BY NullIsNoFile DEF PlacesInv, FixedInv, Text, ROOT, DEV, PROC, SLASH, MISSING
  <2> DEFINE S == {SLASH, d, name[f]}
  <2>13. <<>> \in Seq(S) /\ Len(<<>>) = 0 /\ SLASH \in S /\ name[f] \in S /\ d \in S
    OBVIOUS
  <2> HIDE DEF S
  <2>3. PICK t : t = PathOf(d) /\ t = <<>> \o <<SLASH>> \o <<d>>
    <3>1. PathOf(d) = PathOf(ROOT) \o <<SLASH>> \o Text(d) /\ PathOf(ROOT) = <<>>
      BY <2>2, PathOfIs, NullIsNoFile DEF PlacesInv
    <3> QED BY <2>2, <3>1
  <2>14. t \in Seq(S) /\ Len(t) = 2 /\ t[1] = SLASH /\ t[2] = d
    <3>1. t \in Seq(S) /\ Len(t) = Len(<<>>) + 2 /\ t[Len(<<>>) + 1] = SLASH /\ t[Len(<<>>) + 2] = d
      BY <2>3, <2>13, WordsMore
    <3> QED BY <2>13, <3>1
  <2>4. PICK p : p = PathOf(f) /\ p = t \o <<SLASH>> \o <<name[f]>>
    BY <1>5, <2>1, <2>3
  <2>5. /\ p \in Seq(S) /\ Len(p) = 4
        /\ p[1] = SLASH /\ p[2] = d /\ p[3] = SLASH /\ p[4] = name[f]
    <3>1. /\ p \in Seq(S) /\ Len(p) = Len(t) + 2 /\ p[Len(t) + 1] = SLASH /\ p[Len(t) + 2] = name[f]
          /\ \A i \in 1 .. Len(t) : p[i] = t[i]
      <4>1. PICK n \in S : n = name[f]
        BY <2>13
      <4>2. t \in Seq(S) /\ SLASH \in S /\ p = t \o <<SLASH>> \o <<n>>
        BY <2>4, <2>13, <2>14, <4>1
      <4>3. /\ p \in Seq(S) /\ Len(p) = Len(t) + 2 /\ p[Len(t) + 1] = SLASH /\ p[Len(t) + 2] = n
            /\ \A i \in 1 .. Len(t) : p[i] = t[i]
        BY <4>2, WordsMore
      <4> QED BY <4>1, <4>3
    <3> QED BY <2>14, <3>1
  <2>6. IsAbsolute(p)
    BY <2>5 DEF IsAbsolute
  <2>7. PICK at : Walk(at, p) /\ path(ROOT, p) = IF at[Len(p)] = MISSING THEN NULL ELSE at[Len(p)]
    BY <2>5, <2>6, PathIs
  <2>8. at[1] = ROOT
    BY <2>5, <2>7 DEF Walk
  <2>9. at[2] = PathStep(at[1], d)
    BY <2>2, <2>5, <2>7 DEF Walk
  <2>10. at[3] = at[2]
    BY <2>5, <2>7 DEF Walk
  <2>11. at[4] = PathStep(at[3], name[f])
    BY <1>2, <2>5, <2>7 DEF Walk
  <2>12. PathStep(ROOT, d) = d
    <3>1. ROOT \in alive /\ ROOT # MISSING /\ type(ROOT) = "directory" /\ type(d) = "directory"
      BY <2>1, FixedAre, DirectoriesAre, NullIsNoFile
         DEF PlacesInv, FixedInv, Directories, Fixed, ROOT, MISSING
    <3>2. find(ROOT, d) = d /\ Follow(d) = d
      BY <2>1, <3>1, FindsDirectories DEF Follow
    <3> QED BY <2>2, <3>1, <3>2 DEF PathStep
  <2> QED BY <1>3, <1>4, <2>1, <2>4, <2>5, <2>7, <2>8, <2>9, <2>10, <2>11, <2>12
<1> QED BY <1>6, <1>7

(* The tree that Filesystem::init, the modules and load_modules leave.     *)
LEMMA InitPlaces == TreeInit => PlacesInv
<1> SUFFICES ASSUME TreeInit PROVE PlacesInv
  OBVIOUS
<1> USE DEF TreeInit
<1> DEFINE rows == [f \in File |-> CASE f = ROOT -> <<PROC, DEV>>
                                     [] f = DEV  -> <<TTY>>
                                     [] f = PROC -> <<FirstProc>>
                                     [] OTHER    -> <<>>]
           age == [f \in File |-> CASE f = ROOT -> 0
                                    [] f = DEV  -> 1
                                    [] OTHER    -> IF f = FirstProc THEN 3 ELSE 2]
<1>1. /\ ROOT # DEV /\ ROOT # PROC /\ ROOT # TTY /\ DEV # PROC /\ DEV # TTY /\ PROC # TTY
      /\ FirstProc \in Procs /\ FirstProc \notin Fixed /\ FirstProc # ROOT /\ FirstProc # DEV
      /\ FirstProc # PROC /\ FirstProc # TTY
      /\ NULL \notin File /\ Fixed = {ROOT, DEV, PROC, TTY}
      /\ ROOT \in File /\ DEV \in File /\ PROC \in File /\ TTY \in File /\ FirstProc \in File
  BY FileTreeAssumption, FixedAre, NullIsNoFile DEF Fixed, File, ROOT, DEV, PROC, TTY
<1>2. /\ alive = {ROOT, DEV, PROC, TTY, FirstProc}
      /\ \A f \in File : name[f] = IF f \in Fixed THEN f ELSE IF f = FirstProc THEN "init" ELSE JUNK
      /\ \A f \in File : parent[f] = IF f \in {DEV, PROC} THEN ROOT ELSE IF f = TTY THEN DEV
                                     ELSE IF f = FirstProc THEN PROC ELSE NULL
      /\ \A f \in File : child[f] = IF f = ROOT THEN PROC ELSE IF f = DEV THEN TTY
                                    ELSE IF f = PROC THEN FirstProc ELSE NULL
      /\ \A f \in File : next[f] = IF f = PROC THEN DEV ELSE NULL
      /\ \A f \in File : prev[f] = IF f = DEV THEN PROC ELSE NULL
      /\ \A f \in File : link[f] = NULL
  BY <1>1
<1>3. /\ parent = [f \in File |-> parent[f]] /\ child = [f \in File |-> child[f]]
      /\ next = [f \in File |-> next[f]] /\ prev = [f \in File |-> prev[f]]
      /\ name = [f \in File |-> name[f]] /\ link = [f \in File |-> link[f]]
  OBVIOUS
<1>4. /\ rows[ROOT] = <<PROC, DEV>> /\ rows[DEV] = <<TTY>> /\ rows[PROC] = <<FirstProc>>
      /\ \A f \in File \ Directories : rows[f] = <<>>
      /\ \A f \in File : age[f] = IF f = ROOT THEN 0 ELSE IF f = DEV THEN 1
                                  ELSE IF f = FirstProc THEN 3 ELSE 2
      /\ age \in [File -> 0 .. 3]
  BY <1>1 DEF Directories
<1> HIDE DEF TreeInit, rows, age
<1>5. TypeInv
  <2>1. alive \subseteq File
    BY <1>1, <1>2
  <2>2. \A f \in File : parent[f] \in Ptr /\ child[f] \in Ptr /\ next[f] \in Ptr /\ prev[f] \in Ptr
    BY <1>1, <1>2 DEF Ptr
  <2> QED BY <1>3, <2>1, <2>2 DEF TypeInv
<1>6. LoneInv
  BY <1>1, <1>2 DEF LoneInv
<1>7. Ages(age, 3)
  BY <1>1, <1>2, <1>4 DEF Ages
<1>8. \A a : /\ Len(<<a>>) = 1 /\ <<a>>[1] = a
             /\ Nth(<<a>>, 1) = a /\ Nth(<<a>>, 2) = NULL /\ Nth(<<a>>, 0) = NULL
  BY DEF Nth
<1>9. ASSUME NEW d \in File PROVE Row(d, rows[d])
  <2>1. CASE d = ROOT
    <3>1. PICK s : s = rows[d]
      OBVIOUS
    <3>2. s \in Seq(File) /\ Len(s) = 2 /\ s[1] = PROC /\ s[2] = DEV
      BY <1>1, <1>4, <2>1, <3>1
    <3>3. Nth(s, 0) = NULL /\ Nth(s, 1) = PROC /\ Nth(s, 2) = DEV /\ Nth(s, 3) = NULL
      BY <3>2 DEF Nth
    <3>4. \A i \in 1 .. Len(s) : i = 1 \/ i = 2
      BY <3>2
    <3>5. \A i, j \in 1 .. Len(s) : s[i] = s[j] => i = j
      BY <1>1, <3>2, <3>4
    <3>6. child[d] = Nth(s, 1)
      BY <1>1, <1>2, <2>1, <3>3
    <3>7. ASSUME NEW i \in 1 .. Len(s)
          PROVE  /\ s[i] \in alive /\ parent[s[i]] = d
                 /\ next[s[i]] = Nth(s, i + 1) /\ prev[s[i]] = Nth(s, i - 1)
      <4>1. CASE i = 1
        <5>1. i + 1 = 2 /\ i - 1 = 0
          BY <4>1
        <5> QED BY <1>1, <1>2, <2>1, <3>2, <3>3, <4>1, <5>1
      <4>2. CASE i = 2
        <5>1. i + 1 = 3 /\ i - 1 = 1
          BY <4>2
        <5> QED BY <1>1, <1>2, <2>1, <3>2, <3>3, <4>2, <5>1
      <4> QED BY <3>4, <4>1, <4>2
    <3>8. Row(d, s)
      BY <3>2, <3>5, <3>6, <3>7 DEF Row
    <3> QED BY <3>1, <3>8
  <2>2. CASE d \in {DEV, PROC}
    <3>1. PICK a \in File : a = (IF d = DEV THEN TTY ELSE FirstProc)
      BY <1>1
    <3>2. rows[d] = <<a>> /\ <<a>> \in Seq(File)
      BY <1>1, <1>4, <2>2, <3>1
    <3>3. a \in alive /\ parent[a] = d /\ next[a] = NULL /\ prev[a] = NULL /\ child[d] = a
      BY <1>1, <1>2, <2>2, <3>1
    <3>4. \A i \in 1 .. Len(<<a>>) : i = 1
      BY <1>8
    <3>5. Row(d, <<a>>)
      <4>1. ASSUME NEW i \in 1 .. Len(<<a>>)
            PROVE  /\ <<a>>[i] \in alive /\ parent[<<a>>[i]] = d
                   /\ next[<<a>>[i]] = Nth(<<a>>, i + 1) /\ prev[<<a>>[i]] = Nth(<<a>>, i - 1)
        <5>1. i = 1 /\ i + 1 = 2 /\ i - 1 = 0
          BY <3>4
        <5> QED BY <1>8, <3>3, <5>1
      <4>2. child[d] = Nth(<<a>>, 1)
        BY <1>8, <3>3
      <4>3. \A i, j \in 1 .. Len(<<a>>) : i = j
        BY <3>4
      <4> QED BY <3>2, <4>1, <4>2, <4>3 DEF Row
    <3> QED BY <3>2, <3>5
  <2>3. CASE d \notin Directories
    <3>1. rows[d] = <<>> /\ child[d] = NULL
      BY <1>1, <1>2, <1>4, <2>3 DEF Directories
    <3> QED BY <3>1 DEF Row, Nth
  <2> QED BY <2>1, <2>2, <2>3 DEF Directories
<1>10. Rows(rows)
  <2>1. ASSUME NEW f \in alive \ {ROOT}
        PROVE  /\ parent[f] \in alive
               /\ \E i \in 1 .. Len(rows[parent[f]]) : rows[parent[f]][i] = f
    <3>1. CASE f \in {DEV, PROC}
      <4>1. parent[f] = ROOT /\ Len(rows[ROOT]) = 2 /\ rows[ROOT][1] = PROC /\ rows[ROOT][2] = DEV
            /\ 1 \in 1 .. 2 /\ 2 \in 1 .. 2
        BY <1>1, <1>2, <1>4, <3>1
      <4> QED BY <1>2, <3>1, <4>1
    <3>2. CASE f \in {TTY, FirstProc}
      <4>1. parent[f] = (IF f = TTY THEN DEV ELSE PROC) /\ rows[parent[f]] = <<f>>
        BY <1>1, <1>2, <1>4, <3>2
      <4>2. 1 \in 1 .. Len(<<f>>) /\ <<f>>[1] = f
        BY <1>8
      <4> QED BY <1>2, <4>1, <4>2
    <3> QED BY <1>2, <3>1, <3>2
  <2> QED BY <1>9, <2>1 DEF Rows
<1>11. TreeInv
  BY <1>5, <1>6, <1>7, <1>10 DEF TreeInv, Tree
<1>12. FixedInv
  BY <1>1, <1>2 DEF FixedInv
<1>13. NamesInv
  <2>1. ASSUME NEW f \in alive, parent[f] = ROOT PROVE f = name[f]
    BY <1>1, <1>2, <2>1
  <2>2. ASSUME NEW f \in File PROVE name[f] \notin {SLASH, "a/b"} /\ link[f] # MISSING
    <3>1. name[f] \in {ROOT, DEV, PROC, TTY, "init", JUNK}
      BY <1>1, <1>2
    <3> QED BY <1>2, <3>1, FixedAre DEF ROOT, DEV, PROC, TTY, JUNK, SLASH
  <2> QED BY <2>1, <2>2 DEF NamesInv
<1> QED BY <1>11, <1>12, <1>13 DEF PlacesInv

(* A new file keeps the tree right and enters the abstract directory.      *)
LEMMA AddPlaces ==
    ASSUME PlacesInv, NEW f \in (Procs \cup Links) \ alive, NEW d \in alive, NEW n, n # SLASH,
           d = ROOT => n \notin {DEV, PROC}, Add(f, n, d),
           link' = [g \in File |-> link'[g]], \A g \in File : link'[g] # MISSING
    PROVE  /\ PlacesInv' /\ Promise!Enter(f) /\ f \in File \ alive
           /\ \A e \in File : Children(e)' = IF e = d THEN <<f>> \o Children(e) ELSE Children(e)
           /\ alive' = alive \cup {f}
           /\ \A g \in File : parent'[g] = IF g = f THEN d ELSE parent[g]
<1>1. PICK rows, age, N : Tree(rows, age, N)
  BY DEF PlacesInv, TreeInv
<1>2. f \in File \ alive /\ f \notin Fixed /\ ROOT \in alive /\ alive \subseteq File /\ f \in File
  BY <1>1, FixedAre DEF File, PlacesInv, FixedInv, Fixed, Tree, TypeInv
<1>3. /\ TreeInv' /\ Promise!Enter(f)
      /\ \A e \in File : Children(e)' = IF e = d THEN <<f>> \o Children(e) ELSE Children(e)
  BY <1>1, <1>2, AddEnters
<1>4. /\ alive' = alive \cup {f}
      /\ \A g \in File : parent'[g] = IF g = f THEN d ELSE parent[g]
      /\ \A g \in File : name'[g] = IF g = f THEN checkName(n) ELSE name[g]
  BY <1>1, <1>2 DEF Add, Tree, TypeInv
<1>5. checkName(n) \notin {SLASH, "a/b"} /\ (checkName(n) \in {DEV, PROC} => n \in {DEV, PROC})
  BY DEF checkName, SLASH, DEV, PROC
<1>6. FixedInv'
  <2>1. \A g \in Fixed : g # f /\ g \in File
    BY <1>2, FixedAre
  <2>2. DEV \in Fixed /\ PROC \in Fixed /\ TTY \in Fixed
    BY DEF Fixed
  <2> QED BY <1>2, <1>4, <2>1, <2>2 DEF PlacesInv, FixedInv
<1>7. NamesInv'
  <2>1. ASSUME NEW g \in alive', parent'[g] = ROOT, name'[g] \in {DEV, PROC} PROVE g = name'[g]
    <3>1. CASE g = f
      BY <1>2, <1>4, <1>5, <2>1, <3>1
    <3>2. CASE g # f
      BY <1>2, <1>4, <2>1, <3>2 DEF PlacesInv, NamesInv
    <3> QED BY <3>1, <3>2
  <2>2. \A g \in File : name'[g] \notin {SLASH, "a/b"}
    BY <1>4, <1>5 DEF PlacesInv, NamesInv
  <2> QED BY <2>1, <2>2 DEF NamesInv
<1> QED BY <1>2, <1>3, <1>4, <1>6, <1>7 DEF PlacesInv

(* A process that is deleted leaves it; only /proc and what is below the   *)
(* process loses entries.                                                  *)
LEMMA UnlinkPlaces ==
    ASSUME PlacesInv, NEW z \in Procs \cap alive, parent[z] = PROC, Unlink(z)
    PROVE  /\ PlacesInv' /\ Promise!Leave(z) /\ z \in File
           /\ \A e \in Directories : e # PROC => Children(e)' = Children(e)
           /\ alive' \subseteq alive
           /\ \A g \in alive' : parent'[g] = parent[g]
           /\ \A g \in alive : parent[g] = PROC /\ g # z => g \in alive'
<1>1. PICK rows, age, N : Tree(rows, age, N)
  BY DEF PlacesInv, TreeInv
<1>2. z \in alive \ {ROOT} /\ z \notin Fixed /\ ROOT \in alive /\ alive \subseteq File
  BY <1>1, FixedAre DEF PlacesInv, FixedInv, Fixed, Tree, TypeInv
<1>3. /\ TreeInv' /\ Promise!Leave(z)
      /\ \A e \in File : e \notin Gone(z) /\ e # parent[z] => Children(e)' = Children(e)
  BY <1>1, <1>2, UnlinkLeaves
<1>4. /\ Gone(z) \subseteq alive /\ z \in Gone(z) /\ ROOT \notin Gone(z) /\ PROC \notin Gone(z)
      /\ \A g \in alive \ {ROOT} : g \in Gone(z) <=> g = z \/ parent[g] \in Gone(z)
  BY <1>1, <1>2, GoneIs
<1>5. /\ Fixed = {ROOT, DEV, PROC, TTY} /\ Fixed \subseteq alive /\ DEV # ROOT /\ TTY # ROOT
      /\ parent[DEV] = ROOT /\ parent[TTY] = DEV /\ parent[PROC] = ROOT
  BY DEF PlacesInv, FixedInv, Fixed, ROOT, DEV, TTY
<1>6. Fixed \cap Gone(z) = {}
  BY <1>2, <1>4, <1>5
<1>7. /\ alive' = alive \ Gone(z)
      /\ \A g \in File : parent'[g] = IF g \in Gone(z) THEN NULL ELSE parent[g]
      /\ \A g \in File : name'[g] = IF g \in Gone(z) THEN JUNK ELSE name[g]
      /\ \A g \in File : link'[g] = IF g \in Gone(z) THEN NULL ELSE link[g]
  BY DEF Unlink, Gone
<1>8. FixedInv'
  BY <1>2, <1>5, <1>6, <1>7 DEF PlacesInv, FixedInv
<1>9. NamesInv'
  <2>1. JUNK \notin {SLASH, "a/b"} /\ NULL # MISSING
    BY FixedAre DEF JUNK, SLASH
  <2> QED BY <1>2, <1>7, <2>1 DEF PlacesInv, NamesInv
<1>10. \A g \in alive : parent[g] = PROC /\ g # z => g \in alive'
  BY <1>4, <1>7
<1>11. \A e \in Directories : e # PROC => Children(e)' = Children(e)
  BY <1>3, <1>5, <1>6, FixedAre DEF Directories
<1>12. TreeInv' /\ FixedInv' /\ NamesInv' => PlacesInv'
  BY DEF PlacesInv
<1> QED BY <1>2, <1>3, <1>7, <1>8, <1>9, <1>10, <1>11, <1>12

(* What touches no pointer keeps all rows.                                 *)
LEMMA PlacesStay ==
    ASSUME PlacesInv, UNCHANGED <<alive, name, parent, child, next, prev, link>>
    PROVE  PlacesInv' /\ \A e \in File : Children(e)' = Children(e)
<1>1. PICK rows, age, N : Tree(rows, age, N)
  BY DEF PlacesInv, TreeInv
<1>2. TypeInv' /\ LoneInv'
  BY <1>1 DEF Tree, TypeInv, LoneInv
<1>3. Rows(rows)'
  BY <1>1 DEF Tree, Rows, Row
<1>4. Ages(age, N)'
  BY <1>1 DEF Tree, Ages
<1>5. Tree(rows, age, N)'
  BY <1>2, <1>3, <1>4 DEF Tree
<1>6. \A e \in File : Children(e)' = Children(e)
  BY <1>1, <1>5, ChildrenAre, RowsThen
<1>7. FixedInv' /\ NamesInv'
  BY DEF PlacesInv, FixedInv, NamesInv
<1> QED BY <1>5, <1>6, <1>7 DEF PlacesInv, TreeInv

-----------------------------------------------------------------------------
(* The tables of descriptors *)

Entries == [fp : Ptr \cup {UNSET}, ptr : 0 .. Width - 1]

(* The entries of a table of descriptors.                                  *)
LEMMA EntriesAre ==
    /\ Tables = [0 .. MaxFile -> Entries]
    /\ Closed \in Entries /\ \A f \in Ptr \cup {UNSET} : At0(f) \in Entries
    /\ Fd \subseteq 0 .. MaxFile /\ MaxFile \in 0 .. MaxFile /\ MaxFile \notin Fd /\ MaxFile \in Nat
    /\ Fd \subseteq Nat /\ FdArgs \subseteq Nat
    /\ \A fd \in FdArgs : ~(fd > MaxFile) => fd \in 0 .. MaxFile
<1>1. 0 \in 0 .. Width - 1
  BY FilesAssumption
<1>2. NULL \in Ptr
  BY DEF Ptr
<1>3. Closed \in Entries /\ \A f \in Ptr \cup {UNSET} : At0(f) \in Entries
  BY <1>1, <1>2 DEF Entries, Closed, At0
<1>4. /\ Fd \subseteq 0 .. MaxFile /\ MaxFile \in 0 .. MaxFile
      /\ MaxFile \notin Fd /\ MaxFile \in Nat
      /\ Fd \subseteq Nat /\ FdArgs \subseteq Nat
      /\ \A fd \in FdArgs : ~(fd > MaxFile) => fd \in 0 .. MaxFile
  BY FilesAssumption DEF Fd
<1> QED BY <1>3, <1>4 DEF Tables, Entries

(* addFile fills one entry that was free, or none.                         *)
LEMMA AddFileIs ==
    ASSUME NEW t, NEW f
    PROVE  \/ addFile(t, f) = t /\ (f = NULL \/ \A fd \in Fd : t[fd].fp # NULL)
           \/ /\ f # NULL
              /\ \E fd \in Fd : /\ t[fd].fp = NULL /\ addFile(t, f) = [t EXCEPT ![fd] = At0(f)]
                               /\ \A e \in Fd : t[e].fp = NULL => fd <= e
<1> DEFINE free == {fd \in Fd : t[fd].fp = NULL}
<1>1. CASE f = NULL \/ free = {}
  BY <1>1 DEF addFile
<1>2. CASE f # NULL /\ free # {}
  <2>1. free \in SUBSET Nat
    BY EntriesAre
  <2>2. \E fd \in free : \A e \in free : fd <= e
    <3> HIDE DEF free
    <3> QED BY <1>2, <2>1, LeastElement
  <2>3. PICK m : m = (CHOOSE fd \in free : \A e \in free : fd <= e)
    OBVIOUS
  <2>4. m \in free /\ \A e \in free : m <= e
    BY <2>2, <2>3
  <2>5. addFile(t, f) = [t EXCEPT ![m] = At0(f)]
    BY <1>2, <2>3 DEF addFile
  <2> QED BY <1>2, <2>4, <2>5
<1> QED BY <1>1, <1>2

(* The operations on a table make a table of it.                           *)
LEMMA TablesAre ==
    ASSUME NEW t \in Tables, NEW f \in Ptr \cup {UNSET}
    PROVE  /\ addFile(t, f) \in Tables
           /\ \A fd \in FdArgs : /\ setFile(t, fd, f) \in Tables /\ deleteFile(t, fd) \in Tables
                                /\ getFile(t, fd) \in Ptr \cup {UNSET}
           /\ \A fd \in 0 .. MaxFile : [t EXCEPT ![fd] = Closed] \in Tables
<1>1. t \in [0 .. MaxFile -> Entries] /\ At0(f) \in Entries /\ Closed \in Entries
  BY EntriesAre
<1>2. \A fd \in 0 .. MaxFile : /\ [t EXCEPT ![fd] = At0(f)] \in [0 .. MaxFile -> Entries]
                              /\ [t EXCEPT ![fd] = Closed] \in [0 .. MaxFile -> Entries]
                              /\ t[fd].fp \in Ptr \cup {UNSET}
  BY <1>1 DEF Entries
<1>3. addFile(t, f) \in Tables
  BY <1>2, AddFileIs, EntriesAre
<1>4. ASSUME NEW fd \in FdArgs
      PROVE  /\ setFile(t, fd, f) \in Tables /\ deleteFile(t, fd) \in Tables
             /\ getFile(t, fd) \in Ptr \cup {UNSET}
  <2>1. CASE fd > MaxFile
    BY <2>1 DEF setFile, deleteFile, getFile, Ptr
  <2>2. CASE ~(fd > MaxFile)
    <3>1. fd \in 0 .. MaxFile
      BY <2>2, EntriesAre
    <3> QED BY <1>2, <2>2, <3>1, EntriesAre DEF setFile, deleteFile, getFile
  <2> QED BY <2>1, <2>2
<1> QED BY <1>2, <1>3, <1>4, EntriesAre

(* create makes a table.                                                   *)
LEMMA CreatedAre ==
    ASSUME openfp_ \in [Procs -> Tables], NEW p \in Procs, NEW q \in Procs
    PROVE  create(p, q) \in Tables /\ Empty \in Tables
<1>1. q \in Ptr \cup {UNSET} /\ UNSET \in Ptr \cup {UNSET}
  BY DEF Ptr, File
<1>2. Empty \in [0 .. MaxFile -> Entries]
  BY <1>1, EntriesAre DEF Empty
<1> DEFINE t == [fd \in 0 .. MaxFile |-> IF fd < 3 THEN openfp_[p][fd] ELSE Empty[fd]]
<1>3. t \in Tables
  BY <1>2, EntriesAre
<1>4. addFile(t, q) \in Tables
  <2> HIDE DEF t
  <2> QED BY <1>1, <1>3, TablesAre
<1> QED BY <1>2, <1>4, EntriesAre DEF create

-----------------------------------------------------------------------------
(* A directory being read to its end *)

Listings == [reader : Procs \cup {NULL}, fd : Fd, dir : Ptr, held : SUBSET File, got : SUBSET File,
             shrunk : BOOLEAN, ended : BOOLEAN]

(* f is yet to come: it is a child behind the reader's position.           *)
Ahead(f) ==
    \E i \in 1 .. Len(Children(listing.dir)) :
        /\ Children(listing.dir)[i] = f
        /\ i > openfp_[listing.reader][listing.fd].ptr

Reading ==
    /\ listing.reader \in Procs \cap alive /\ listing.dir \in Directories
    /\ openfp_[listing.reader][listing.fd].fp = listing.dir
    /\ ~listing.shrunk => \A f \in listing.held : f \in listing.got \/ Ahead(f)
    /\ listing.ended /\ ~listing.shrunk => listing.held \subseteq listing.got

ListInv == listing \in Listings /\ (listing = Idle \/ Reading)

FilesInv == PlacesInv /\ ProcsInv /\ ListInv

(* Idle is nobody's reading.                                               *)
LEMMA IdleIs ==
    /\ Idle \in Listings /\ Idle.reader = NULL /\ NULL \notin Procs
    /\ Idle.ended = FALSE /\ Idle.shrunk = FALSE
<1>1. 0 \in Fd /\ NULL \in Ptr
  BY FilesAssumption DEF Fd, Ptr
<1> QED BY <1>1, FixedAre DEF Idle, Listings

(* What is being read is not disturbed.                                    *)
LEMMA ReadingGoesOn ==
    ASSUME ListInv, listing' = listing,
           listing.reader \in Procs \cap alive =>
              /\ listing.reader \in alive'
              /\ openfp_'[listing.reader][listing.fd] = openfp_[listing.reader][listing.fd]
              /\ \A f \in File : Ahead(f) => Ahead(f)'
    PROVE  ListInv'
<1>1. CASE listing = Idle
  BY <1>1 DEF ListInv
<1>2. CASE Reading
  <2>1. Reading'
    <3>1. listing.held \subseteq File
      BY DEF ListInv, Listings
    <3> HIDE DEF Ahead
    <3> QED BY <1>2, <3>1 DEF Reading
  <2> QED BY <2>1 DEF ListInv
<1> QED BY <1>1, <1>2 DEF ListInv

(* A file is in the row of its parent.                                     *)
LEMMA DirectoriesHaveRows ==
    ASSUME PlacesInv, NEW d \in File
    PROVE  Children(d) \in Seq(File) /\ \A g \in alive \ {ROOT} : parent[g] = d =>
              \E i \in 1 .. Len(Children(d)) : Children(d)[i] = g
<1>1. PICK rows, age, N : Tree(rows, age, N)
  BY DEF PlacesInv, TreeInv
<1>2. Children(d) = rows[d]
  BY <1>1, ChildrenAre
<1> QED BY <1>1, <1>2 DEF Tree, Rows, Row

(* A new file comes in front of what is ahead.                             *)
LEMMA AheadOfNew ==
    ASSUME PlacesInv, ListInv, listing' = listing, NEW d \in File, NEW new,
           \A e \in File : Children(e)' = IF e = d THEN <<new>> \o Children(e) ELSE Children(e),
           Reading, openfp_'[listing.reader] = openfp_[listing.reader],
           openfp_[listing.reader][listing.fd].ptr \in Nat, new \in File, NEW f, Ahead(f)
    PROVE  Ahead(f)'
<1>1. PICK c : c = Children(listing.dir)
  OBVIOUS
<1>2. listing.dir \in File /\ c \in Seq(File)
  BY <1>1, FixedAre, DirectoriesHaveRows DEF Reading
<1>3. PICK i \in 1 .. Len(c) : c[i] = f /\ i > openfp_[listing.reader][listing.fd].ptr
  BY <1>1 DEF Ahead
<1>4. CASE listing.dir = d
  <2>1. PICK t : t = <<new>> \o c /\ Children(listing.dir)' = t
    BY <1>1, <1>2, <1>4
  <2>2. Len(t) = Len(c) + 1 /\ Len(c) \in Nat /\ \A j \in 1 .. Len(c) : t[j + 1] = c[j]
    BY <1>2, <2>1, InFront
  <2>3. i + 1 \in 1 .. Len(t) /\ t[i + 1] = f /\ i + 1 > openfp_[listing.reader][listing.fd].ptr
    BY <1>3, <2>2
  <2> QED BY <2>1, <2>3 DEF Ahead
<1>5. CASE listing.dir # d
  <2>1. Children(listing.dir)' = c
    BY <1>1, <1>2, <1>5
  <2> QED BY <1>3, <2>1 DEF Ahead
<1> QED BY <1>4, <1>5

(* What is ahead in the state that follows.                                *)
LEMMA AheadThen ==
    ASSUME NEW d \in File, NEW c, NEW e, NEW f, NEW i \in 1 .. Len(c),
           listing'.dir = d, Children(d)' = c, openfp_'[listing'.reader][listing'.fd] = e,
           c[i] = f, i > e.ptr
    PROVE  Ahead(f)'
<1>1. Children(listing.dir)' = c
  OBVIOUS
<1> QED BY <1>1 DEF Ahead

-----------------------------------------------------------------------------
(* The positions are numbers.                                              *)
LEMMA PositionsAre ==
    ASSUME ProcsInv, ListInv
    PROVE  /\ \A p \in Procs, fd \in 0 .. MaxFile : openfp_[p][fd] \in Entries
           /\ listing.fd \in Fd /\ listing.fd \in 0 .. MaxFile
           /\ listing.reader \in Procs => openfp_[listing.reader][listing.fd].ptr \in Nat
<1>1. \A p \in Procs, fd \in 0 .. MaxFile : openfp_[p][fd] \in Entries
  BY EntriesAre DEF ProcsInv
<1>2. listing.fd \in Fd
  BY DEF ListInv, Listings
<1>3. \A e \in Entries : e.ptr \in Nat
  BY FilesAssumption DEF Entries
<1>4. Fd \subseteq 0 .. MaxFile
  BY EntriesAre
<1> QED BY <1>1, <1>2, <1>3, <1>4

(* execv enters a process in /proc.                                        *)
LEMMA ExecvKeeps == FilesInv /\ (\E p \in Procs : Execv(p)) => FilesInv' /\ Promise!Next
<1> SUFFICES ASSUME FilesInv, NEW p \in Procs, Execv(p) PROVE FilesInv' /\ Promise!Next
  OBVIOUS
<1>1. PICK q \in Procs \ alive, n \in ProcNames, k \in {"run", "zombie"} :
        /\ Add(q, n, path(cwd_[p], <<SLASH, PROC, SLASH>>))
        /\ state_' = [state_ EXCEPT ![q] = k]
        /\ openfp_' = [openfp_ EXCEPT ![q] = create(p, q)]
  BY DEF Execv
<1>2. UNCHANGED <<link, dying, listing>>
  BY DEF Execv
<1>3. PlacesInv /\ ProcsInv /\ ListInv
  BY DEF FilesInv
<1>4. Add(q, n, PROC) /\ PROC \in alive /\ PROC # ROOT
  BY <1>1, <1>3, ProcIsFound DEF PlacesInv, FixedInv, Fixed, PROC, ROOT
<1>5. /\ n # SLASH /\ link' = [g \in File |-> link'[g]] /\ \A g \in File : link'[g] # MISSING
      /\ PROC \in File
  BY <1>2, <1>3, FileTreeAssumption, NullIsNoFile DEF PlacesInv, TreeInv, Tree, TypeInv, NamesInv
<1>6. /\ PlacesInv' /\ Promise!Enter(q) /\ q \in File \ alive
      /\ \A e \in File : Children(e)' = IF e = PROC THEN <<q>> \o Children(e) ELSE Children(e)
      /\ alive' = alive \cup {q}
      /\ \A g \in File : parent'[g] = IF g = q THEN PROC ELSE parent[g]
  BY <1>3, <1>4, <1>5, AddPlaces
<1>7. ProcsInv'
  <2>1. \A g \in Procs \cap alive' : parent'[g] = PROC
    BY <1>3, <1>6 DEF ProcsInv, File
  <2>2. /\ state_' = [g \in Procs |-> state_'[g]]
        /\ \A g \in Procs : state_'[g] # "none" => g \in alive'
    BY <1>1, <1>3, <1>6 DEF ProcsInv
  <2>3. openfp_' \in [Procs -> Tables]
    <3>1. create(p, q) \in Tables /\ openfp_ \in [Procs -> Tables]
      BY <1>3, CreatedAre DEF ProcsInv
    <3> QED BY <1>1, <3>1
  <2>4. dying' \in (Procs \cap alive') \cup {NULL}
    BY <1>2, <1>3, <1>6 DEF ProcsInv
  <2> QED BY <2>1, <2>2, <2>3, <2>4 DEF ProcsInv
<1>8. ListInv'
  <2>1. ASSUME listing.reader \in Procs \cap alive
        PROVE  /\ listing.reader \in alive' /\ openfp_'[listing.reader] = openfp_[listing.reader]
               /\ \A f \in File : Ahead(f) => Ahead(f)'
    <3>1. listing.reader \in alive' /\ openfp_'[listing.reader] = openfp_[listing.reader]
      BY <1>1, <1>3, <1>6, <2>1 DEF ProcsInv
    <3>2. Reading
      BY <1>3, <2>1, IdleIs DEF ListInv
    <3>3. ASSUME NEW f \in File, Ahead(f) PROVE Ahead(f)'
      BY <1>2, <1>3, <1>5, <1>6, <2>1, <3>1, <3>2, <3>3, PositionsAre, AheadOfNew
    <3> QED BY <3>1, <3>3
  <2> QED BY <1>2, <1>3, <2>1, ReadingGoesOn
<1> QED BY <1>6, <1>7, <1>8 DEF FilesInv, Promise!Next

(* What is ahead stays ahead when neither the tree nor the reader's        *)
(* descriptor is touched.                                                  *)
LEMMA AheadStays ==
    ASSUME FilesInv, UNCHANGED <<alive, name, parent, child, next, prev, link>>, listing' = listing,
           listing.reader \in Procs \cap alive =>
              openfp_'[listing.reader][listing.fd] = openfp_[listing.reader][listing.fd]
    PROVE  ListInv'
<1>1. \A e \in File : Children(e)' = Children(e)
  BY PlacesStay DEF FilesInv
<1>2. ASSUME listing.reader \in Procs \cap alive
      PROVE  /\ listing.reader \in alive'
             /\ openfp_'[listing.reader][listing.fd] = openfp_[listing.reader][listing.fd]
             /\ \A f \in File : Ahead(f) => Ahead(f)'
  <2>1. Children(listing.dir)' = Children(listing.dir)
    BY <1>1, <1>2, FixedAre, IdleIs DEF FilesInv, ListInv, Reading
  <2>2. PICK c : c = Children(listing.dir) /\ c = Children(listing.dir)'
    BY <2>1
  <2>3. openfp_'[listing.reader][listing.fd] = openfp_[listing.reader][listing.fd]
    BY <1>2
  <2>4. ASSUME NEW f \in File, Ahead(f) PROVE Ahead(f)'
    BY <2>2, <2>3, <2>4 DEF Ahead
  <2> QED BY <1>2, <2>3, <2>4
<1> QED BY <1>2, ReadingGoesOn DEF FilesInv

(* A system call that leaves the tree and the states alone.                *)
CallsOnly == UNCHANGED <<alive, name, parent, child, next, prev, link, dying, state_>>

(* Such a call keeps the tree.                                             *)
LEMMA CallKeeps ==
    ASSUME FilesInv, CallsOnly, openfp_' \in [Procs -> Tables]
    PROVE  PlacesInv' /\ ProcsInv' /\ \A e \in File : Children(e)' = Children(e)
<1>1. PlacesInv' /\ \A e \in File : Children(e)' = Children(e)
  BY PlacesStay DEF FilesInv, CallsOnly
<1>2. ProcsInv'
  BY DEF FilesInv, ProcsInv, CallsOnly
<1> QED BY <1>1, <1>2

(* One that changes no descriptor either keeps everything.                 *)
LEMMA QuietCall ==
    ASSUME FilesInv, CallsOnly, UNCHANGED <<openfp_, listing>>
    PROVE  FilesInv' /\ \A e \in File : Children(e)' = Children(e)
<1>1. PlacesInv' /\ ProcsInv' /\ \A e \in File : Children(e)' = Children(e)
  BY CallKeeps DEF FilesInv, ProcsInv
<1>2. ListInv'
  BY AheadStays DEF CallsOnly
<1> QED BY <1>1, <1>2 DEF FilesInv

(* exit and the beginning of a deletion.                                   *)
LEMMA StatesKeep ==
    ASSUME FilesInv, NEW p \in Procs, Exit(p) \/ WaitDelete(p)
    PROVE  FilesInv' /\ \A e \in File : Children(e)' = Children(e)
<1>1. UNCHANGED <<alive, name, parent, child, next, prev, link, openfp_, listing>>
  BY DEF Exit, WaitDelete, tree
<1>2. PlacesInv' /\ \A e \in File : Children(e)' = Children(e)
  BY <1>1, PlacesStay DEF FilesInv
<1>3. ListInv'
  BY <1>1, AheadStays
<1>4. ProcsInv'
  <2>1. CASE Exit(p)
    BY <1>1, <2>1 DEF FilesInv, ProcsInv, Exit, Running, tree
  <2>2. CASE WaitDelete(p)
    BY <1>1, <2>2 DEF FilesInv, ProcsInv, WaitDelete
  <2> QED BY <2>1, <2>2
<1> QED BY <1>2, <1>3, <1>4 DEF FilesInv

(* A call on a stale file, chdir and the reset of a ppinfo.                *)
LEMMA QuietCallsKeep ==
    ASSUME FilesInv, NEW p \in Procs, StaleFile(p) \/ Chdir(p) \/ GetInfo(p)
    PROVE  FilesInv' /\ \A e \in File : Children(e)' = Children(e)
<1>1. CASE StaleFile(p)
  <2>1. CallsOnly /\ UNCHANGED <<openfp_, listing>>
    BY <1>1 DEF StaleFile, GoWild, CallsOnly, tree
  <2> QED BY <2>1, QuietCall
<1>2. CASE Chdir(p)
  <2>1. CallsOnly /\ UNCHANGED <<openfp_, listing>>
    BY <1>2 DEF Chdir, GoWild, CallsOnly, tree
  <2> QED BY <2>1, QuietCall
<1>3. CASE GetInfo(p)
  <2>1. CallsOnly /\ UNCHANGED listing
    BY <1>3 DEF GetInfo, CallsOnly, tree
  <2>2. PICK q \in Procs : openfp_' = [openfp_ EXCEPT ![q][MaxFile] = Closed]
    BY <1>3 DEF GetInfo
  <2>3. openfp_ \in [Procs -> Tables]
    BY DEF FilesInv, ProcsInv
  <2>4. openfp_' = [openfp_ EXCEPT ![q] = [openfp_[q] EXCEPT ![MaxFile] = Closed]]
    BY <2>2
  <2>5. [openfp_[q] EXCEPT ![MaxFile] = Closed] \in Tables
    <3>1. openfp_[q] \in Tables /\ NULL \in Ptr \cup {UNSET} /\ MaxFile \in 0 .. MaxFile
      BY <2>3, EntriesAre DEF Ptr
    <3> QED BY <3>1, TablesAre
  <2>6. openfp_' \in [Procs -> Tables]
    BY <2>3, <2>4, <2>5
  <2>7. ASSUME listing.reader \in Procs \cap alive
        PROVE  openfp_'[listing.reader][listing.fd] = openfp_[listing.reader][listing.fd]
    <3>1. listing.fd # MaxFile /\ listing.fd \in 0 .. MaxFile
      BY PositionsAre, EntriesAre DEF FilesInv
    <3>2. openfp_[q] \in [0 .. MaxFile -> Entries]
      BY <2>3, EntriesAre
    <3> QED BY <2>3, <2>4, <2>7, <3>1, <3>2
  <2>8. ListInv'
    BY <2>1, <2>7, AheadStays DEF CallsOnly
  <2> QED BY <2>1, <2>6, <2>8, CallKeeps DEF FilesInv
<1> QED BY <1>1, <1>2, <1>3

(* symlink enters a link in the directory path_parent stopped in, where    *)
(* its name is missing.                                                    *)
LEMMA SymlinkKeeps ==
    ASSUME FilesInv, NEW p \in Procs, Symlink(p)
    PROVE  FilesInv' /\ (Promise!Next \/ \A e \in File : Children(e)' = Children(e))
<1>1. PICK target \in LinkTargets, pn \in LinkPaths, l \in Links \ alive :
        \/ GoWild
        \/ /\ path(cwd_[p], target) # NULL
           /\ path_parent(pn).at \in alive
           /\ Add(l, path_parent(pn).fname, path_parent(pn).at)
           /\ link' = [link EXCEPT ![l] = path(cwd_[p], target)]
           /\ UNCHANGED <<dying, state_, openfp_, listing>>
  BY DEF Symlink
<1>2. CASE GoWild
  <2>1. CallsOnly /\ UNCHANGED <<openfp_, listing>>
    BY <1>2 DEF GoWild, CallsOnly, tree
  <2> QED BY <2>1, QuietCall
<1>3. CASE ~GoWild
  <2>1. PICK par : par = path_parent(pn)
    OBVIOUS
  <2>2. PICK to : to = path(cwd_[p], target)
    OBVIOUS
  <2>3. /\ par.at \in alive /\ Add(l, par.fname, par.at)
        /\ link' = [link EXCEPT ![l] = to] /\ UNCHANGED <<dying, state_, openfp_, listing>>
    BY <1>1, <1>3, <2>1, <2>2
  <2>4. PlacesInv /\ ProcsInv /\ ListInv
    BY DEF FilesInv
  <2>5. to # MISSING
    BY <2>2, FixedAre DEF path
  <2>6. par.fname # SLASH /\ (par.at = ROOT => par.fname \notin {DEV, PROC})
    <3>1. pn \in Seq(STRING)
      BY FilesAssumption
    <3> QED BY <2>1, <2>4, <3>1, MissingWord
  <2>7. link' = [g \in File |-> link'[g]] /\ \A g \in File : link'[g] # MISSING
    BY <2>3, <2>4, <2>5 DEF PlacesInv, TreeInv, Tree, TypeInv, NamesInv
  <2>8. l \in (Procs \cup Links) \ alive /\ l \notin Procs /\ par.at \in File /\ l \in File
    BY <2>3, <2>4, FixedAre DEF PlacesInv, TreeInv, Tree, TypeInv, File
  <2>9. /\ PlacesInv' /\ Promise!Enter(l) /\ l \in File \ alive
        /\ \A e \in File : Children(e)' = IF e = par.at THEN <<l>> \o Children(e) ELSE Children(e)
        /\ alive' = alive \cup {l}
        /\ \A g \in File : parent'[g] = IF g = l THEN par.at ELSE parent[g]
    BY <2>3, <2>4, <2>6, <2>7, <2>8, AddPlaces
  <2>10. ProcsInv'
    BY <2>3, <2>4, <2>8, <2>9 DEF ProcsInv, File
  <2>11. ASSUME listing.reader \in Procs \cap alive
         PROVE  /\ listing.reader \in alive' /\ openfp_'[listing.reader] = openfp_[listing.reader]
                /\ \A f \in File : Ahead(f) => Ahead(f)'
    <3>1. Reading
      BY <2>4, <2>11, IdleIs DEF ListInv
    <3>2. ASSUME NEW f \in File, Ahead(f) PROVE Ahead(f)'
      BY <2>3, <2>4, <2>8, <2>9, <2>11, <3>1, <3>2, PositionsAre, AheadOfNew
    <3> QED BY <2>3, <2>9, <2>11, <3>2
  <2>12. ListInv'
    BY <2>3, <2>4, <2>11, ReadingGoesOn
  <2> QED BY <2>9, <2>10, <2>12 DEF FilesInv, Promise!Next
<1> QED BY <1>2, <1>3

(* A call that fills, empties or moves one entry of its process.           *)
OneEntry(p, fd, e) == openfp_' = [openfp_ EXCEPT ![p] = [@ EXCEPT ![fd] = e]]

(* The other entries are not touched.                                      *)
LEMMA OneEntryIs ==
    ASSUME FilesInv, NEW p \in Procs, NEW fd \in 0 .. MaxFile, NEW e, OneEntry(p, fd, e)
    PROVE  /\ e \in Entries => openfp_' \in [Procs -> Tables]
           /\ openfp_'[p][fd] = e
           /\ \A q \in Procs, d \in 0 .. MaxFile :
                ~(q = p /\ d = fd) => openfp_'[q][d] = openfp_[q][d]
<1>1. openfp_ \in [Procs -> [0 .. MaxFile -> Entries]]
  BY EntriesAre DEF FilesInv, ProcsInv
<1>2. e \in Entries => openfp_' \in [Procs -> Tables]
  BY <1>1, EntriesAre DEF OneEntry
<1> QED BY <1>1, <1>2 DEF OneEntry

(* close, read, write and dup2 end the reading of the descriptor they      *)
(* change.                                                                 *)
LEMMA CloseAndDupKeep ==
    ASSUME FilesInv, NEW p \in Procs, Close(p) \/ ReadWrite(p) \/ Dup2(p)
    PROVE  FilesInv' /\ \A e \in File : Children(e)' = Children(e)
<1>1. CallsOnly
  BY DEF Close, ReadWrite, Dup2, CallsOnly, tree
<1>2. /\ openfp_ \in [Procs -> Tables] /\ ListInv
      /\ openfp_ \in [Procs -> [0 .. MaxFile -> Entries]]
      /\ NULL \in Ptr \cup {UNSET}
  BY EntriesAre DEF FilesInv, ProcsInv, Ptr
<1>3. PICK fd \in FdArgs :
        /\ \/ openfp_' = openfp_
           \/ /\ fd \in 0 .. MaxFile
              /\ \E e \in Entries : OneEntry(p, fd, e)
        /\ listing' = IF Reads(p, fd) THEN Idle ELSE listing
  <2>1. CASE Close(p)
    <3>1. PICK fd \in FdArgs : /\ openfp_' = [openfp_ EXCEPT ![p] = deleteFile(@, fd)]
                              /\ listing' = IF Reads(p, fd) THEN Idle ELSE listing
      BY <2>1 DEF Close
    <3>2. CASE fd > MaxFile
      BY <1>2, <3>1, <3>2 DEF deleteFile
    <3>3. CASE ~(fd > MaxFile)
      <4>1. fd \in 0 .. MaxFile /\ Closed \in Entries
        BY <3>3, EntriesAre
      <4>2. OneEntry(p, fd, Closed)
        BY <3>1, <3>3 DEF deleteFile, OneEntry
      <4> QED BY <3>1, <4>1, <4>2
    <3> QED BY <3>2, <3>3
  <2>2. CASE ReadWrite(p)
    <3>1. PICK fd \in FdArgs :
            /\ OnFile(p, fd)
            /\ openfp_' = [openfp_ EXCEPT ![p][fd].ptr = (@ + NOT_DEFINED) % Width]
            /\ listing' = IF Reads(p, fd) THEN Idle ELSE listing
      BY <2>2 DEF ReadWrite
    <3>2. fd \in 0 .. MaxFile
      BY <3>1, EntriesAre DEF OnFile, getFile
    <3>3. openfp_[p][fd] \in Entries
      BY <1>2, <3>2
    <3> DEFINE e == [openfp_[p][fd] EXCEPT !.ptr = (@ + NOT_DEFINED) % Width]
    <3>4. e \in Entries
      <4>1. openfp_[p][fd].ptr + NOT_DEFINED \in Int
        BY <3>3 DEF Entries, NOT_DEFINED
      <4>2. (openfp_[p][fd].ptr + NOT_DEFINED) % Width \in 0 .. Width - 1
        BY <4>1, FilesAssumption
      <4> QED BY <3>3, <4>2 DEF Entries
    <3>5. OneEntry(p, fd, e)
      BY <1>2, <3>1, <3>2 DEF OneEntry
    <3> HIDE DEF e
    <3> QED BY <3>1, <3>2, <3>4, <3>5
  <2>3. CASE Dup2(p)
    <3>1. PICK old \in FdArgs, new \in FdArgs :
            /\ openfp_' = [openfp_ EXCEPT ![p] = setFile(@, new, getFile(@, old))]
            /\ listing' = IF Reads(p, new) THEN Idle ELSE listing
      BY <2>3 DEF Dup2
    <3>2. PICK f : f = getFile(openfp_[p], old)
      OBVIOUS
    <3>3. At0(f) \in Entries
      BY <1>2, <3>2, TablesAre, EntriesAre
    <3>4. openfp_' = [openfp_ EXCEPT ![p] = setFile(openfp_[p], new, f)]
      BY <1>2, <3>1, <3>2
    <3>5. CASE new > MaxFile
      BY <1>2, <3>1, <3>4, <3>5 DEF setFile
    <3>6. CASE ~(new > MaxFile)
      <4>1. new \in 0 .. MaxFile
        BY <3>6, EntriesAre
      <4>2. OneEntry(p, new, At0(f))
        BY <1>2, <3>4, <3>6 DEF setFile, OneEntry
      <4> QED BY <3>1, <3>3, <4>1, <4>2
    <3> QED BY <3>5, <3>6
  <2> QED BY <2>1, <2>2, <2>3
<1>4. openfp_' \in [Procs -> Tables]
  BY <1>2, <1>3, OneEntryIs
<1>5. ListInv'
  <2>1. CASE Reads(p, fd)
    BY <1>3, <2>1, IdleIs DEF ListInv
  <2>2. CASE ~Reads(p, fd)
    <3>1. ASSUME listing.reader \in Procs \cap alive
          PROVE  openfp_'[listing.reader][listing.fd] = openfp_[listing.reader][listing.fd]
      <4>1. listing.fd \in 0 .. MaxFile
        BY PositionsAre DEF FilesInv
      <4> QED BY <1>3, <2>2, <3>1, <4>1, OneEntryIs DEF Reads
    <3> QED BY <1>1, <1>3, <2>2, <3>1, AheadStays DEF CallsOnly
  <2> QED BY <2>1, <2>2
<1> QED BY <1>1, <1>4, <1>5, CallKeeps DEF FilesInv

(* open begins a reading at position 0: all that the directory holds is    *)
(* ahead.                                                                  *)
LEMMA OpenKeeps ==
    ASSUME FilesInv, NEW p \in Procs, Open(p)
    PROVE  FilesInv' /\ \A e \in File : Children(e)' = Children(e)
<1>1. PICK pn \in OpenPaths :
        LET fp == path(cwd_[p], pn) IN
        IF fp \notin alive THEN GoWild
        ELSE LET t == addFile(openfp_[p], fp) IN
             /\ openfp_' = [openfp_ EXCEPT ![p] = t]
             /\ listing' = IF listing = Idle /\ type(fp) = "directory" /\ t # openfp_[p]
                           THEN [Idle EXCEPT !.reader = p,
                                             !.fd = CHOOSE fd \in Fd : t[fd] # openfp_[p][fd],
                                             !.dir = fp,
                                             !.held = {f \in alive : parent[f] = fp}]
                           ELSE listing
             /\ UNCHANGED <<tree, state_>>
  BY DEF Open
<1>2. PICK fp : fp = path(cwd_[p], pn)
  OBVIOUS
<1>3. PICK t : t = addFile(openfp_[p], fp)
  OBVIOUS
<1>4. PICK m : m = (CHOOSE fd \in Fd : t[fd] # openfp_[p][fd])
  OBVIOUS
<1>5. CASE fp \notin alive
  <2>1. CallsOnly /\ UNCHANGED <<openfp_, listing>>
    BY <1>1, <1>2, <1>5 DEF GoWild, CallsOnly, tree
  <2> QED BY <2>1, QuietCall
<1>6. CASE fp \in alive
  <2>1. /\ openfp_' = [openfp_ EXCEPT ![p] = t]
        /\ listing' = IF listing = Idle /\ type(fp) = "directory" /\ t # openfp_[p]
                      THEN [Idle EXCEPT !.reader = p, !.fd = m, !.dir = fp,
                                        !.held = {f \in alive : parent[f] = fp}]
                      ELSE listing
        /\ UNCHANGED <<tree, state_>>
    BY <1>1, <1>2, <1>3, <1>4, <1>6
  <2>2. CallsOnly
    BY <2>1 DEF CallsOnly, tree
  <2>3. /\ alive \subseteq File /\ parent[ROOT] = NULL /\ fp \in File /\ fp \in Ptr \cup {UNSET}
        /\ PlacesInv /\ ProcsInv /\ ListInv
    BY <1>6 DEF FilesInv, PlacesInv, TreeInv, Tree, TypeInv, LoneInv, Ptr
  <2>4. openfp_ \in [Procs -> Tables] /\ openfp_[p] \in [0 .. MaxFile -> Entries]
    BY <2>3, EntriesAre DEF ProcsInv
  <2>5. t \in Tables
    BY <1>3, <2>3, <2>4, EntriesAre, TablesAre
  <2>6. openfp_' \in [Procs -> Tables]
    BY <2>1, <2>4, <2>5
  <2>7. PlacesInv' /\ ProcsInv' /\ \A e \in File : Children(e)' = Children(e)
    BY <2>2, <2>6, CallKeeps
  <2>8. \/ t = openfp_[p]
        \/ \E n \in Fd : openfp_[p][n].fp = NULL /\ t = [openfp_[p] EXCEPT ![n] = At0(fp)]
    BY <1>3, AddFileIs
  <2>9. ListInv'
    <3>1. CASE listing = Idle /\ type(fp) = "directory" /\ t # openfp_[p]
      <4>1. PICK n \in Fd : openfp_[p][n].fp = NULL /\ t = [openfp_[p] EXCEPT ![n] = At0(fp)]
        BY <2>8, <3>1
      <4>2. n \in 0 .. MaxFile /\ \A d \in Fd : d \in 0 .. MaxFile
        BY EntriesAre
      <4>3. t[n] # openfp_[p][n] /\ \A d \in Fd : d # n => t[d] = openfp_[p][d]
        <5>1. t[n] = openfp_[p][n] => t = openfp_[p]
          BY <2>4, <4>1, <4>2
        <5> QED BY <2>4, <3>1, <4>1, <4>2, <5>1
      <4>4. m = n
        BY <1>4, <4>3
      <4>5. openfp_'[p][n] = At0(fp)
        BY <2>1, <2>4, <4>1, <4>2
      <4>6. PICK held : held = {f \in alive : parent[f] = fp}
        OBVIOUS
      <4>7. listing' = [Idle EXCEPT !.reader = p, !.fd = n, !.dir = fp, !.held = held]
        BY <2>1, <3>1, <4>4, <4>6
      <4>8. /\ listing'.reader = p /\ listing'.fd = n /\ listing'.dir = fp /\ listing'.held = held
            /\ listing'.shrunk = FALSE /\ listing'.ended = FALSE /\ listing' \in Listings
        <5>1. held \in SUBSET File /\ fp \in Ptr
          BY <2>3, <4>6 DEF Ptr
        <5> QED BY <4>7, <5>1, IdleIs DEF Idle, Listings
      <4>9. fp \in Directories /\ p \in alive'
        <5>1. p \in alive /\ alive' = alive
          BY <2>2, <2>3 DEF Open, Calls, Running, ProcsInv, CallsOnly
        <5> QED BY <2>3, <3>1, <5>1, DirectoriesAre
      <4>10. ASSUME NEW f \in held PROVE Ahead(f)'
        <5>1. f \in alive \ {ROOT} /\ parent[f] = fp
          BY <2>3, <4>6, NullIsNoFile
        <5>2. PICK i \in 1 .. Len(Children(fp)) : Children(fp)[i] = f
          BY <2>3, <5>1, DirectoriesHaveRows
        <5>3. Children(fp)' = Children(fp)
          BY <2>3, <2>7
        <5>4. i > 0
          BY <5>2, <2>3, DirectoriesHaveRows
        <5>5. /\ openfp_'[listing'.reader][listing'.fd] = At0(fp)
              /\ listing'.dir = fp /\ At0(fp).ptr = 0
          BY <4>5, <4>8 DEF At0
        <5>6. PICK c : c = Children(fp)
          OBVIOUS
        <5>7. fp \in File /\ Children(fp)' = c /\ i \in 1 .. Len(c) /\ c[i] = f /\ i > At0(fp).ptr
          BY <2>3, <5>2, <5>3, <5>4, <5>5, <5>6
        <5> QED BY <5>5, <5>7, AheadThen
      <4>11. Reading'
        <5> HIDE DEF Ahead
        <5> QED BY <4>5, <4>8, <4>9, <4>10 DEF Reading, At0
      <4> QED BY <4>8, <4>11 DEF ListInv
    <3>2. CASE ~(listing = Idle /\ type(fp) = "directory" /\ t # openfp_[p])
      <4>1. ASSUME listing.reader \in Procs \cap alive
            PROVE  openfp_'[listing.reader][listing.fd] = openfp_[listing.reader][listing.fd]
        <5>1. /\ openfp_[listing.reader][listing.fd].fp # NULL /\ listing.fd \in 0 .. MaxFile
          <6>1. Reading
            BY <2>3, <4>1, IdleIs DEF ListInv
          <6> QED BY <2>3, <6>1, PositionsAre, FixedAre, NullIsNoFile DEF Reading
        <5>2. t[listing.fd] = openfp_[p][listing.fd] \/ listing.reader # p
          BY <2>4, <2>8, <5>1, EntriesAre
        <5>3. openfp_'[listing.reader] = IF listing.reader = p THEN t ELSE openfp_[listing.reader]
          BY <2>1, <2>4, <4>1
        <5> QED BY <5>2, <5>3
      <4> QED BY <2>1, <2>2, <3>2, <4>1, AheadStays DEF CallsOnly
    <3> QED BY <3>1, <3>2
  <2> QED BY <2>7, <2>9 DEF FilesInv
<1> QED BY <1>5, <1>6

(* A position moves by one, or back to 0.                                  *)
LEMMA NextPosition ==
    ASSUME NEW x \in 0 .. Width - 1
    PROVE  (x + 1) % Width \in 0 .. Width - 1 /\ (x + 1) % Width <= x + 1
<1>1. Width \in Nat /\ Width > 0
  BY FilesAssumption
<1>2. CASE x + 1 = Width
  BY <1>1, <1>2
<1>3. CASE x + 1 < Width
  BY <1>1, <1>3
<1> QED BY <1>1, <1>2, <1>3

(* getdents moves the file at the position from what is ahead to what was  *)
(* got; at the end of the row nothing is ahead.                            *)
LEMMA GetdentsKeeps ==
    ASSUME FilesInv, NEW p \in Procs, Getdents(p)
    PROVE  FilesInv' /\ \A e \in File : Children(e)' = Children(e)
<1>1. CallsOnly /\ PlacesInv /\ ProcsInv /\ ListInv
  BY DEF Getdents, CallsOnly, tree, FilesInv
<1>2. PICK fd \in FdArgs :
        /\ OnFile(p, fd) /\ getFile(openfp_[p], fd) \in alive
        /\ LET info == openfp_[p][fd]
               kids == Children(info.fp)
           IN  IF info.ptr < Len(kids)
                 THEN /\ openfp_' = [openfp_ EXCEPT ![p][fd].ptr = (@ + 1) % Width]
                      /\ listing' = IF Reads(p, fd)
                           THEN [listing EXCEPT !.got = @ \cup {kids[info.ptr + 1]}]
                           ELSE listing
                 ELSE /\ UNCHANGED openfp_
                      /\ listing' = IF Reads(p, fd)
                           THEN [listing EXCEPT !.ended = TRUE] ELSE listing
  BY DEF Getdents
<1>3. fd \in 0 .. MaxFile /\ getFile(openfp_[p], fd) = openfp_[p][fd].fp
  BY <1>2, EntriesAre DEF OnFile, getFile
<1>4. openfp_[p][fd] \in Entries /\ openfp_ \in [Procs -> [0 .. MaxFile -> Entries]]
  BY <1>1, <1>3, EntriesAre DEF ProcsInv
<1>5. PICK info : info = openfp_[p][fd]
  OBVIOUS
<1>6. PICK kids : kids = Children(info.fp)
  OBVIOUS
<1>7. /\ info \in Entries /\ info.ptr \in 0 .. Width - 1 /\ info.ptr \in Nat
      /\ info.fp \in File /\ kids \in Seq(File)
  <2>1. info \in Entries /\ info.ptr \in 0 .. Width - 1 /\ info.ptr \in Nat
    BY <1>4, <1>5, FilesAssumption DEF Entries
  <2>2. info.fp \in File
    BY <1>1, <1>2, <1>3, <1>5 DEF PlacesInv, TreeInv, Tree, TypeInv
  <2> QED BY <1>1, <1>6, <2>1, <2>2, DirectoriesHaveRows
<1>8. ASSUME Reads(p, fd)
      PROVE  /\ listing.reader = p /\ listing.fd = fd /\ Reading /\ listing.dir = info.fp
             /\ p \in alive /\ listing \in Listings
  BY <1>1, <1>5, <1>8, IdleIs DEF Reads, ListInv, Reading
<1>9. CASE info.ptr < Len(kids)
  <2>1. PICK e : e = [info EXCEPT !.ptr = (info.ptr + 1) % Width]
    OBVIOUS
  <2>2. e \in Entries /\ e.fp = info.fp /\ e.ptr <= info.ptr + 1 /\ e.ptr \in Nat
    <3>1. (info.ptr + 1) % Width \in 0 .. Width - 1 /\ (info.ptr + 1) % Width <= info.ptr + 1
      BY <1>7, NextPosition
    <3>2. PICK x : x = (info.ptr + 1) % Width
      OBVIOUS
    <3> QED BY <1>7, <2>1, <3>1, <3>2 DEF Entries
  <2>3. OneEntry(p, fd, e)
    <3>1. openfp_' = [openfp_ EXCEPT ![p][fd].ptr = (@ + 1) % Width]
      BY <1>2, <1>5, <1>6, <1>9
    <3> QED BY <1>3, <1>4, <1>5, <2>1, <3>1 DEF OneEntry
  <2>4. listing' = IF Reads(p, fd) THEN [listing EXCEPT !.got = @ \cup {kids[info.ptr + 1]}]
                   ELSE listing
    BY <1>2, <1>5, <1>6, <1>9
  <2>5. PlacesInv' /\ ProcsInv' /\ \A x \in File : Children(x)' = Children(x)
    BY <1>1, <1>3, <2>2, <2>3, OneEntryIs, CallKeeps
  <2>6. ListInv'
    <3>1. CASE Reads(p, fd)
      <4>1. PICK k : k = kids[info.ptr + 1]
        OBVIOUS
      <4>2. k \in File
        BY <1>7, <1>9, <4>1
      <4>3. /\ listing' \in Listings /\ listing'.got = listing.got \cup {k}
            /\ listing'.reader = p /\ listing'.fd = fd /\ listing'.dir = info.fp
            /\ listing'.held = listing.held /\ listing'.shrunk = listing.shrunk
            /\ listing'.ended = listing.ended
        BY <1>8, <2>4, <3>1, <4>1, <4>2 DEF Listings
      <4>4. openfp_'[p][fd] = e
        BY <1>3, <2>3, OneEntryIs
      <4>5. Children(info.fp)' = kids
        BY <1>6, <1>7, <2>5
      <4>6. ASSUME NEW f \in listing.held, ~listing.shrunk
            PROVE  f \in listing'.got \/ Ahead(f)'
        <5>1. CASE f \in listing.got
          BY <4>3, <5>1
        <5>2. CASE Ahead(f)
          <6>1. PICK i \in 1 .. Len(kids) : kids[i] = f /\ i > info.ptr
            BY <1>5, <1>6, <1>8, <3>1, <5>2 DEF Ahead
          <6>2. CASE i = info.ptr + 1
            BY <4>1, <4>3, <6>1, <6>2
          <6>3. CASE i # info.ptr + 1
            <7>1. i > e.ptr
              BY <1>7, <2>2, <6>1, <6>3
            <7>2. openfp_'[listing'.reader][listing'.fd] = e
              BY <4>3, <4>4
            <7> QED BY <1>7, <4>3, <4>5, <6>1, <7>1, <7>2, AheadThen
          <6> QED BY <6>2, <6>3
        <5> QED BY <1>8, <3>1, <4>6, <5>1, <5>2 DEF Reading
      <4>7. Reading'
        <5>1. listing'.reader \in Procs \cap alive' /\ listing'.dir \in Directories
          BY <1>1, <1>8, <3>1, <4>3 DEF CallsOnly, Reading
        <5>2. openfp_'[listing'.reader][listing'.fd].fp = listing'.dir
          BY <2>2, <4>3, <4>4
        <5>3. listing'.ended /\ ~listing'.shrunk => listing'.held \subseteq listing'.got
          BY <1>8, <3>1, <4>3 DEF Reading
        <5> HIDE DEF Ahead
        <5> QED BY <4>3, <4>6, <5>1, <5>2, <5>3 DEF Reading
      <4> QED BY <4>3, <4>7 DEF ListInv
    <3>2. CASE ~Reads(p, fd)
      <4>1. ASSUME listing.reader \in Procs \cap alive
            PROVE  openfp_'[listing.reader][listing.fd] = openfp_[listing.reader][listing.fd]
        <5>1. listing.fd \in 0 .. MaxFile
          BY <1>1, PositionsAre
        <5> QED BY <1>3, <2>3, <3>2, <4>1, <5>1, OneEntryIs DEF Reads
      <4> QED BY <1>1, <2>4, <3>2, <4>1, AheadStays DEF CallsOnly
    <3> QED BY <3>1, <3>2
  <2> QED BY <2>5, <2>6 DEF FilesInv
<1>10. CASE ~(info.ptr < Len(kids))
  <2>1. /\ openfp_' = openfp_
        /\ listing' = IF Reads(p, fd) THEN [listing EXCEPT !.ended = TRUE] ELSE listing
    BY <1>2, <1>5, <1>6, <1>10
  <2>2. CASE ~Reads(p, fd)
    BY <1>1, <2>1, <2>2, QuietCall
  <2>3. CASE Reads(p, fd)
    <3>1. PlacesInv' /\ ProcsInv' /\ \A x \in File : Children(x)' = Children(x)
      BY <1>1, <2>1, CallKeeps DEF ProcsInv
    <3>2. /\ listing' \in Listings /\ listing'.got = listing.got
          /\ listing'.reader = p /\ listing'.fd = fd /\ listing'.dir = info.fp
          /\ listing'.held = listing.held /\ listing'.shrunk = listing.shrunk
      BY <1>8, <2>1, <2>3 DEF Listings
    <3>3. ~listing.shrunk => listing.held \subseteq listing.got
      <4>1. ASSUME NEW f, Ahead(f) PROVE FALSE
        <5>1. PICK i \in 1 .. Len(kids) : i > info.ptr
          BY <1>5, <1>6, <1>8, <2>3, <4>1 DEF Ahead
        <5> QED BY <1>7, <1>10, <5>1
      <4> QED BY <1>8, <2>3, <4>1 DEF Reading
    <3>4. Reading'
      <4>1. listing'.reader \in Procs \cap alive' /\ listing'.dir \in Directories
        BY <1>1, <1>8, <2>3, <3>2 DEF CallsOnly, Reading
      <4>2. openfp_'[listing'.reader][listing'.fd].fp = listing'.dir
        BY <1>5, <2>1, <3>2
      <4> HIDE DEF Ahead
      <4> QED BY <3>2, <3>3, <4>1, <4>2 DEF Reading
    <3> QED BY <3>1, <3>2, <3>4 DEF FilesInv, ListInv
  <2> QED BY <2>2, <2>3
<1> QED BY <1>9, <1>10

(* The end of a destructor: a listing of /proc is marked as shrunk.        *)
LEMMA DeletedKeeps == FilesInv /\ Deleted => FilesInv' /\ Promise!Next
<1> SUFFICES ASSUME FilesInv, Deleted PROVE FilesInv' /\ Promise!Next
  OBVIOUS
<1>1. PlacesInv /\ ProcsInv /\ ListInv
  BY DEF FilesInv
<1>2. PICK z \in Procs \cap alive : z = dying
  BY <1>1 DEF Deleted, ProcsInv
<1>3. parent[z] = PROC /\ Unlink(z)
  BY <1>1, <1>2 DEF Deleted, ProcsInv
<1>4. /\ PlacesInv' /\ Promise!Leave(z) /\ z \in File
      /\ \A e \in Directories : e # PROC => Children(e)' = Children(e)
      /\ alive' \subseteq alive
      /\ \A g \in alive' : parent'[g] = parent[g]
      /\ \A g \in alive : parent[g] = PROC /\ g # z => g \in alive'
  BY <1>1, <1>3, UnlinkPlaces
<1>5. /\ dying' = NULL
      /\ state_' = [state_ EXCEPT ![z] = "none"]
      /\ openfp_' = [openfp_ EXCEPT ![z] = Empty]
      /\ listing' = IF listing.reader = z THEN Idle
                    ELSE [listing EXCEPT !.shrunk = @ \/ PROC = listing.dir]
  BY <1>2, <1>3 DEF Deleted
<1>6. \A q \in Procs \cap alive : q # z => q \in alive'
  BY <1>1, <1>4 DEF ProcsInv
<1>7. ProcsInv'
  <2>1. \A q \in Procs \cap alive' : parent'[q] = PROC
    BY <1>1, <1>4 DEF ProcsInv
  <2>2. /\ state_' = [q \in Procs |-> state_'[q]]
        /\ \A q \in Procs : state_'[q] # "none" => q \in alive'
    BY <1>1, <1>5, <1>6 DEF ProcsInv
  <2>3. openfp_' \in [Procs -> Tables]
    BY <1>1, <1>5, CreatedAre DEF ProcsInv
  <2> QED BY <1>5, <2>1, <2>2, <2>3 DEF ProcsInv
<1>8. ListInv'
  <2>1. CASE listing.reader = z
    BY <1>5, <2>1, IdleIs DEF ListInv
  <2>2. CASE listing.reader # z /\ listing = Idle
    <3>1. PROC # Idle.dir /\ Idle.shrunk = FALSE
      BY FixedAre, NullIsNoFile DEF Idle, PROC
    <3>2. listing' = [Idle EXCEPT !.shrunk = FALSE]
      BY <1>5, <2>2, <3>1
    <3>3. listing' = Idle
      BY <3>2 DEF Idle
    <3> QED BY <3>3, IdleIs DEF ListInv
  <2>3. CASE listing.reader # z /\ Reading
    <3>1. /\ listing' \in Listings /\ listing'.reader = listing.reader /\ listing'.fd = listing.fd
          /\ listing'.dir = listing.dir /\ listing'.held = listing.held
          /\ listing'.got = listing.got
          /\ listing'.ended = listing.ended
          /\ listing'.shrunk = (listing.shrunk \/ PROC = listing.dir)
      BY <1>1, <1>5, <2>3 DEF ListInv, Listings
    <3>2. /\ listing'.reader \in Procs \cap alive' /\ listing'.dir \in Directories
          /\ openfp_'[listing'.reader][listing'.fd] = openfp_[listing.reader][listing.fd]
      BY <1>1, <1>5, <1>6, <2>3, <3>1 DEF Reading, ProcsInv
    <3>3. ASSUME ~listing'.shrunk, NEW f \in listing'.held
          PROVE  f \in listing'.got \/ Ahead(f)'
      <4>1. ~listing.shrunk /\ listing.dir # PROC /\ f \in listing.held
        BY <3>1, <3>3
      <4>2. CASE f \in listing.got
        BY <3>1, <4>2
      <4>3. CASE Ahead(f)
        <5>1. PICK c : c = Children(listing.dir)
          OBVIOUS
        <5>2. PICK i \in 1 .. Len(c) : c[i] = f /\ i > openfp_[listing.reader][listing.fd].ptr
          BY <4>3, <5>1 DEF Ahead
        <5>3. PICK d \in File : d = listing.dir
          BY <2>3, FixedAre DEF Reading
        <5>4. Children(d)' = c /\ listing'.dir = d
          BY <1>4, <2>3, <3>1, <4>1, <5>1, <5>3 DEF Reading
        <5> QED BY <3>2, <5>2, <5>4, AheadThen
      <4> QED BY <2>3, <4>1, <4>2, <4>3 DEF Reading
    <3>4. listing'.ended /\ ~listing'.shrunk => listing'.held \subseteq listing'.got
      BY <2>3, <3>1 DEF Reading
    <3>5. Reading'
      <4>1. openfp_'[listing'.reader][listing'.fd].fp = listing'.dir
        BY <2>3, <3>1, <3>2 DEF Reading
      <4> HIDE DEF Ahead
      <4> QED BY <3>2, <3>3, <3>4, <4>1 DEF Reading
    <3> QED BY <3>1, <3>5 DEF ListInv
  <2> QED BY <1>1, <2>1, <2>2, <2>3 DEF ListInv
<1> QED BY <1>4, <1>7, <1>8 DEF FilesInv, Promise!Next

-----------------------------------------------------------------------------
(* Every step keeps the invariant, and is a step of the abstract directory *)
(* or leaves the rows alone.                                               *)
LEMMA FilesNext ==
    ASSUME FilesInv, [Next]_vars
    PROVE  FilesInv' /\ (Promise!Next \/ \A e \in File : Children(e)' = Children(e))
<1>1. CASE UNCHANGED vars
  <2>1. CallsOnly /\ UNCHANGED <<openfp_, listing>>
    BY <1>1 DEF vars, tree, CallsOnly
  <2> QED BY <2>1, QuietCall
<1>2. ASSUME NEW p \in Procs, Execv(p)
      PROVE  FilesInv' /\ Promise!Next
  BY <1>2, ExecvKeeps
<1>3. ASSUME NEW p \in Procs,
             Exit(p) \/ WaitDelete(p) \/ Open(p) \/ StaleFile(p) \/ Close(p) \/ ReadWrite(p)
                \/ Getdents(p) \/ Dup2(p) \/ Chdir(p) \/ GetInfo(p)
      PROVE  FilesInv' /\ \A e \in File : Children(e)' = Children(e)
  BY <1>3, StatesKeep, QuietCallsKeep, CloseAndDupKeep, OpenKeeps, GetdentsKeeps
<1>4. ASSUME NEW p \in Procs, Symlink(p)
      PROVE  FilesInv' /\ (Promise!Next \/ \A e \in File : Children(e)' = Children(e))
  BY <1>4, SymlinkKeeps
<1>5. CASE Deleted
  BY <1>5, DeletedKeeps
<1> QED BY <1>1, <1>2, <1>3, <1>4, <1>5 DEF Next

(* It holds at the start.                                                  *)
LEMMA InitFiles == Init => FilesInv
<1> SUFFICES ASSUME Init PROVE FilesInv
  OBVIOUS
<1>1. TreeInit /\ PlacesInv
  BY InitPlaces DEF Init
<1>2. ListInv
  BY IdleIs DEF Init, ListInv
<1>3. ProcsInv
  <2>1. /\ alive = Fixed \cup {FirstProc} /\ dying = NULL
        /\ \A f \in Procs : parent[f] = IF f = FirstProc THEN PROC ELSE NULL
    BY <1>1, FixedAre DEF TreeInit, Fixed, File
  <2>2. openfp_ \in [Procs -> Tables]
    <3>1. Empty \in Tables
      <4>1. Empty \in [0 .. MaxFile -> Entries]
        BY EntriesAre DEF Empty, Ptr
      <4> QED BY <4>1, EntriesAre
    <3>2. TTY \in Ptr \cup {UNSET} /\ FirstProc \in Ptr \cup {UNSET}
      BY FileTreeAssumption DEF Ptr, File, Fixed
    <3>3. InitTable \in Tables
      BY <3>1, <3>2, TablesAre DEF InitTable
    <3> QED BY <3>1, <3>3 DEF Init
  <2>3. state_ = [p \in Procs |-> state_[p]] /\ \A p \in Procs : state_[p] # "none" => p \in alive
    BY <2>1 DEF Init
  <2>4. \A p \in Procs \cap alive : parent[p] = PROC
    BY <2>1, FixedAre
  <2> QED BY <2>1, <2>2, <2>3, <2>4 DEF ProcsInv
<1> QED BY <1>1, <1>2, <1>3 DEF FilesInv

(* The rows of a tree are a directory.                                     *)
LEMMA InitPromise == PlacesInv => Promise!Init
<1> SUFFICES ASSUME PlacesInv, NEW f \in File
             PROVE  /\ Promise!IsInjective(Children(f))
                    /\ Promise!Cardinality(Promise!HoldersOf(f)) <= 1
  BY DEF Promise!Init
<1>1. PICK rows, age, N : Tree(rows, age, N)
  BY DEF PlacesInv, TreeInv
<1>2. Children(f) = rows[f] /\ Row(f, rows[f])
  BY <1>1, ChildrenAre DEF Tree, Rows
<1>3. Promise!IsInjective(Children(f))
  BY <1>2 DEF Row, Promise!IsInjective
<1>4. Promise!HoldersOf(f) = {} \/ Promise!HoldersOf(f) = {parent[f]}
  BY <1>1, HoldersAre
<1>5. Cardinality({}) = 0 /\ Cardinality({parent[f]}) = 1
  BY FS_EmptySet, FS_Singleton
<1> QED BY <1>3, <1>4, <1>5, PromiseHas

(* The inductive invariant of Files: the pointers of the files form a tree *)
(* whose siblings are rows (core/file.cc), /dev, /proc and the processes   *)
(* are where they belong, and what a reader of a directory has not got yet *)
(* is behind its position.                                                 *)
THEOREM FilesInvariant == Spec => []FilesInv
<1>1. FilesInv /\ [Next]_vars => FilesInv'
  BY FilesNext
<1> QED BY <1>1, InitFiles, PTL DEF Spec

(* Filesystem::path finds every file by the names above it, whatever any   *)
(* number of processes has added, linked and deleted.                      *)
THEOREM FilesAreAlwaysFound == Spec => []EveryFileIsFound
<1>1. FilesInv => EveryFileIsFound
  BY FilesAreFound DEF FilesInv
<1> QED BY <1>1, FilesInvariant, PTL

(* A directory read to its end by call_getdents has given everything it    *)
(* held at the start, unless something was deleted from it.                *)
THEOREM ListingsMissNone == Spec => []ListingMissesNone
<1>1. FilesInv => ListingMissesNone
  BY IdleIs DEF FilesInv, ListInv, Reading, ListingMissesNone
<1> QED BY <1>1, FilesInvariant, PTL

(* The linked lists of File implement the module Directory: File::add puts *)
(* a file in front of one row, the destructor takes it out of it.          *)
THEOREM TreeIsDirectory == Spec => IsDirectory
<1>1. Init => Promise!Init
  BY InitFiles, InitPromise DEF FilesInv
<1>2. FilesInv /\ [Next]_vars => [Promise!Next]_([f \in File |-> Children(f)])
  BY FilesNext
<1> QED BY <1>1, <1>2, FilesInvariant, PTL DEF Spec, IsDirectory, Promise!Spec

(* The descriptor 3 of the table that create gives.                        *)
LEMMA ThirdIs ==
    ASSUME NEW p \in Procs, NEW q \in Procs, openfp_[p] \in [0 .. MaxFile -> Entries]
    PROVE  create(p, q)[STDIPC_FILENO].fp = q <=> \A fd \in 0 .. 2 : openfp_[p][fd].fp # NULL
<1> DEFINE t == [fd \in 0 .. MaxFile |-> IF fd < 3 THEN openfp_[p][fd] ELSE Empty[fd]]
<1>1. /\ 3 \in Fd /\ 3 \in 0 .. MaxFile /\ MaxFile # 3 /\ 0 .. 2 \subseteq Fd
      /\ \A fd \in Fd : fd \in 0 .. MaxFile /\ fd \in Nat /\ (fd < 3 => fd \in 0 .. 2)
  BY FilesAssumption DEF Fd
<1>2. q # NULL
  BY FixedAre
<1>3. /\ t[3].fp = NULL /\ \A fd \in 0 .. 2 : t[fd] = openfp_[p][fd]
  BY <1>1 DEF Empty, Closed
<1>4. t \in [0 .. MaxFile -> Entries]
  <2>1. Empty \in [0 .. MaxFile -> Entries]
    BY EntriesAre DEF Empty, Ptr
  <2> QED BY <2>1
<1>5. At0(q).fp = q
  BY DEF At0
<1>6. create(p, q)[3].fp = q <=> \A fd \in 0 .. 2 : openfp_[p][fd].fp # NULL
  <2> HIDE DEF t
  <2>1. \E fd \in Fd : t[fd].fp = NULL
    BY <1>1, <1>3
  <2>2. ASSUME NEW m \in Fd, t[m].fp = NULL, addFile(t, q) = [t EXCEPT ![m] = At0(q)],
               \A e \in Fd : t[e].fp = NULL => m <= e
        PROVE  create(p, q)[3].fp = q <=> \A fd \in 0 .. 2 : openfp_[p][fd].fp # NULL
    <3>1. create(p, q) = [t EXCEPT ![m] = At0(q)]
      BY <2>2 DEF create, t
    <3>2. create(p, q)[3].fp = q <=> m = 3
      BY <1>1, <1>2, <1>3, <1>4, <1>5, <3>1
    <3>3. m = 3 => \A fd \in 0 .. 2 : t[fd].fp # NULL
      BY <1>1, <2>2
    <3>4. (\A fd \in 0 .. 2 : t[fd].fp # NULL) => m = 3
      BY <1>1, <1>3, <2>2
    <3> QED BY <1>3, <3>2, <3>3, <3>4
  <2> QED BY <1>2, <2>1, <2>2, AddFileIs
<1> QED BY <1>6 DEF STDIPC_FILENO

(* The descriptor 3 of a new process is its own buffer exactly when the    *)
(* first three of its parent are open.                                     *)
THEOREM OwnBufferIsTheThird == Spec => OwnBufferIsThird
<1>1. FilesInv /\ [Next]_vars => [\A p, q \in Procs :
         /\ state_[q] = "none" /\ state_'[q] # "none"
         /\ Execv(p)
         => (openfp_'[q][STDIPC_FILENO].fp = q
               <=> \A fd \in 0 .. 2 : openfp_[p][fd].fp # NULL)]_vars
  <2> SUFFICES ASSUME FilesInv, NEW p \in Procs, NEW q \in Procs,
                      state_[q] = "none", state_'[q] # "none", Execv(p)
               PROVE  openfp_'[q][STDIPC_FILENO].fp = q
                        <=> \A fd \in 0 .. 2 : openfp_[p][fd].fp # NULL
    OBVIOUS
  <2>1. PICK r \in Procs, k \in {"run", "zombie"} :
          /\ state_' = [state_ EXCEPT ![r] = k]
          /\ openfp_' = [openfp_ EXCEPT ![r] = create(p, r)]
    BY DEF Execv
  <2>2. q = r
    BY <2>1 DEF FilesInv, ProcsInv
  <2>3. openfp_ \in [Procs -> [0 .. MaxFile -> Entries]]
    BY EntriesAre DEF FilesInv, ProcsInv
  <2>4. openfp_'[q] = create(p, q)
    BY <2>1, <2>2, <2>3
  <2> QED BY <2>3, <2>4, ThirdIs
<1> QED BY <1>1, FilesInvariant, PTL DEF Spec, OwnBufferIsThird

-----------------------------------------------------------------------------
(* How a call gets its arguments and gives back its result.                *)

(* stack_ptr points to a call's frame only while the process that made the *)
(* call runs: whenever the timer takes it away, schedule() moves the       *)
(* pointer to the interrupt's frame.                                       *)
PointerIsOwn == stack_ptr.by = "call" => stack_ptr.of = pcurrent

WaitingWaits == \A q \in Programs : pc[q] = "waits" => last[q] # "quick"

CallsInv ==
    /\ TypeOK
    /\ PointerIsOwn
    /\ WaitingWaits
    /\ QuickResultReturned
    /\ NoStrayResult

USE DEF Frame, Number, Label

LEMMA InitCalls == CallInit => CallsInv
BY DEF CallInit, CallsInv, TypeOK, PointerIsOwn, WaitingWaits, QuickResultReturned,
       NoStrayResult

(* int 0x80: the number of a new call.                                     *)
LEMMA EnterCalls ==
    ASSUME CallsInv, NEW q \in Programs, Enter(q)
    PROVE  CallsInv'
<1> USE DEF CallsInv, Enter, At, Goto
<1>1. TypeOK'
  BY DEF TypeOK
<1>2. PointerIsOwn' /\ WaitingWaits'
  BY DEF TypeOK, PointerIsOwn, WaitingWaits
<1>3. QuickResultReturned' /\ NoStrayResult'
  BY DEF TypeOK, QuickResultReturned, NoStrayResult
<1> QED
  BY <1>1, <1>2, <1>3

(* setParam leaves stack_ptr and eax alone.                                *)
LEMMA SetCalls ==
    ASSUME CallsInv, NEW q \in Programs, SetFirst(q) \/ SetSecond(q)
    PROVE  CallsInv'
<1> USE DEF CallsInv, SetFirst, SetSecond, At, Goto
<1>1. TypeOK'
  BY DEF TypeOK
<1>2. PointerIsOwn' /\ WaitingWaits'
  BY DEF TypeOK, PointerIsOwn, WaitingWaits
<1>3. QuickResultReturned' /\ NoStrayResult'
  BY DEF TypeOK, QuickResultReturned, NoStrayResult
<1> QED
  BY <1>1, <1>2, <1>3

(* A handler that does not wait writes its result to its own frame.        *)
LEMMA HandleCalls ==
    ASSUME CallsInv, NEW q \in Programs, Handle(q)
    PROVE  CallsInv'
<1> USE DEF CallsInv, Handle, Starts, LastWas, At, Goto
<1>0. eax' = [eax EXCEPT ![q] = q]
  BY DEF setRet
<1>1. TypeOK'
  BY <1>0 DEF TypeOK
<1>2. PointerIsOwn' /\ WaitingWaits'
  BY DEF TypeOK, PointerIsOwn, WaitingWaits
<1>3. QuickResultReturned' /\ NoStrayResult'
  BY <1>0 DEF TypeOK, QuickResultReturned, NoStrayResult
<1> QED
  BY <1>1, <1>2, <1>3

(* One that waits, or has no result, writes nothing yet.                   *)
LEMMA HandleWaitsCalls ==
    ASSUME CallsInv, NEW q \in Programs, HandleWaits(q) \/ HandleVoid(q)
    PROVE  CallsInv'
<1> USE DEF CallsInv, HandleWaits, HandleVoid, Starts, LastWas, At, Goto
<1>1. TypeOK'
  BY DEF TypeOK
<1>2. PointerIsOwn' /\ WaitingWaits'
  BY DEF TypeOK, PointerIsOwn, WaitingWaits
<1>3. QuickResultReturned' /\ NoStrayResult'
  BY DEF TypeOK, QuickResultReturned, NoStrayResult
<1> QED
  BY <1>1, <1>2, <1>3

(* A call that waited writes to its own frame or to nobody's.              *)
LEMMA WaitEndsCalls ==
    ASSUME CallsInv, NEW q \in Programs, WaitEnds(q)
    PROVE  CallsInv'
<1> USE DEF CallsInv, WaitEnds, At, Goto
<1>0. eax' \in {eax, [eax EXCEPT ![q] = q]}
  BY DEF setRet, PointerIsOwn
<1>1. TypeOK'
  BY <1>0 DEF TypeOK
<1>2. PointerIsOwn' /\ WaitingWaits'
  BY DEF TypeOK, PointerIsOwn, WaitingWaits
<1>3. QuickResultReturned' /\ NoStrayResult'
  BY <1>0 DEF TypeOK, WaitingWaits, QuickResultReturned, NoStrayResult
<1> QED
  BY <1>1, <1>2, <1>3

(* The timer takes stack_ptr, and with it the processor.                   *)
LEMMA TickCalls ==
    ASSUME CallsInv, Tick
    PROVE  CallsInv'
<1> USE DEF CallsInv, Tick
<1>1. TypeOK'
  BY DEF TypeOK
<1>2. PointerIsOwn' /\ WaitingWaits'
  BY DEF TypeOK, PointerIsOwn, WaitingWaits
<1>3. QuickResultReturned' /\ NoStrayResult'
  BY DEF TypeOK, QuickResultReturned, NoStrayResult
<1> QED
  BY <1>1, <1>2, <1>3

(* CallsInv, the inductive invariant: a call's frame behind stack_ptr is   *)
(* the running process's.                                                  *)
THEOREM CallsInvariant == CallSpec => []CallsInv
<1>1. CallsInv /\ [CallNext]_callVars => CallsInv'
  <2> SUFFICES ASSUME CallsInv, [CallNext]_callVars PROVE CallsInv'
    OBVIOUS
  <2>1. CASE Tick
    BY <2>1, TickCalls
  <2>2. ASSUME NEW q \in Programs,
               Enter(q) \/ SetFirst(q) \/ SetSecond(q)
                 \/ Handle(q) \/ HandleVoid(q) \/ HandleWaits(q) \/ WaitEnds(q)
        PROVE  CallsInv'
    BY <2>2, EnterCalls, SetCalls, HandleCalls, HandleWaitsCalls, WaitEndsCalls
  <2>3. CASE UNCHANGED callVars
    BY <2>3 DEF callVars, CallsInv, TypeOK, PointerIsOwn, WaitingWaits,
                QuickResultReturned, NoStrayResult
  <2> QED
    BY <2>1, <2>2, <2>3 DEF CallNext
<1> QED
  BY InitCalls, <1>1, PTL DEF CallSpec

(* However the calls of any number of processes overlap, none returns the  *)
(* result of another's; and one that does not wait returns its own,        *)
(* although the timer and the waiting calls of others move stack_ptr.      *)
THEOREM ResultsAreOwnAlways == CallSpec => []ResultsAreOwn
<1>1. CallsInv => ResultsAreOwn
  BY DEF CallsInv, ResultsAreOwn
<1> QED
  BY CallsInvariant, <1>1, PTL
=============================================================================
